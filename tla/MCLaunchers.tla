---------------------------- MODULE MCLaunchers ----------------------------
(* Launchers with values for TLC. *)
EXTENDS Launchers, TLC

Interchangeable == Permutations(Launchers)
=============================================================================
