------------------------------ MODULE MCFileApi ------------------------------
(***************************************************************************)
(* Instances of FileApi for TLC.                                           *)
(***************************************************************************)
EXTENDS FileApi, TLC

CONSTANTS q1, q2, q3

\* Every choice for three requests, one of each that are alike but for the names.
Kinds == <<"write", "read", "delete", "prune">>

ThreeOps ==
    {q1 :> Kinds[i] @@ q2 :> Kinds[j] @@ q3 :> Kinds[k] :
        <<i, j, k>> \in {n \in (1 .. 4) \X (1 .. 4) \X (1 .. 4) : n[1] <= n[2] /\ n[2] <= n[3]}}
=============================================================================
