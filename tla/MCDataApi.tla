----------------------------- MODULE MCDataApi -----------------------------
(* DataApi with values for TLC. *)
EXTENDS DataApi
=============================================================================
