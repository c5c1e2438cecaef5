---------------------------- MODULE MCUpdateSwap ----------------------------
(* Instances of UpdateSwap for TLC.  The state is finite without any bound  *)
(* but the sizes of Releases and Parts: crashes and restarts are unlimited. *)
EXTENDS UpdateSwap
=============================================================================
