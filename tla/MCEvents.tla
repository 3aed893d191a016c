------------------------------- MODULE MCEvents -------------------------------
(***************************************************************************)
(* Instances of Events for TLC.                                            *)
(***************************************************************************)
EXTENDS Events, TLC

CONSTANTS r1, r2

\* The stream of a stop or a restart, and somebody who starts or deletes.
TwoAsk == r1 :> {"stop", "restart"} @@ r2 :> {"start", "delete"}
=============================================================================
