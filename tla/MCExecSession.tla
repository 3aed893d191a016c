--------------------------- MODULE MCExecSession ---------------------------
(***************************************************************************)
(* Instances of ExecSession for TLC.                                       *)
(***************************************************************************)
EXTENDS ExecSession
=============================================================================
