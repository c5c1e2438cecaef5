----------------------------- MODULE MCSaveStore -----------------------------
(* Instances of SaveStore for TLC.  MaxWrites is the only bound: the clients, *)
(* the operations they start, the crashes and the restarts are not limited.   *)
EXTENDS SaveStore, TLC

\* Clients are interchangeable: no property names one.
Symmetry == Permutations(Clients)
=============================================================================
