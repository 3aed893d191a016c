------------------------------ MODULE MCSession ------------------------------
(***************************************************************************)
(* Session for TLC: its constants are numbers.                             *)
(***************************************************************************)
EXTENDS Session
=============================================================================
