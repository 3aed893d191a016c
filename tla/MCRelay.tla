-------------------------------- MODULE MCRelay -------------------------------
(***************************************************************************)
(* Relay for TLC: its constants are numbers and strings.                   *)
(***************************************************************************)
EXTENDS Relay
=============================================================================
