------------------------------ MODULE MCServer ------------------------------
(* Server with values for TLC. *)
EXTENDS Server
=============================================================================
