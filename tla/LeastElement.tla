---------------------------- MODULE LeastElement ----------------------------
(***************************************************************************)
(* A fact about natural numbers that the proofs about save revisions and   *)
(* about ports rest on.                                                    *)
(***************************************************************************)
EXTENDS Integers, FiniteSetTheorems, WellFoundedInduction, TLAPS

\* A nonempty set of naturals has a least element.
LEMMA LeastOf ==
    ASSUME NEW T, T \subseteq Nat, T # {}
    PROVE  \E n \in T : \A m \in T : n <= m
  <1> PICK b \in T : TRUE
      OBVIOUS
  <1> DEFINE Below == {0 .. n : n \in {k \in T : k <= b}}
  <1>1. Below \subseteq SUBSET (0 .. b) /\ Below # {}
      OBVIOUS
  <1>2. IsWellFoundedOn(StrictSubsetOrdering(0 .. b), SUBSET (0 .. b))
    <2>1. IsFiniteSet(0 .. b)
        BY FS_Interval
    <2> QED BY <2>1, FS_FiniteSubsetsOfFinite, FS_StrictSubsetOrderingWellFounded
  <1> HIDE DEF Below
  <1>3. \E x \in Below : \A y \in Below : ~ (<<y, x>> \in StrictSubsetOrdering(0 .. b))
      BY <1>1, <1>2, WFMin
  <1>4. PICK n \in {k \in T : k <= b} :
            \A y \in Below : <<y, 0 .. n>> \notin StrictSubsetOrdering(0 .. b)
      BY <1>3 DEF Below
  <1>5. ASSUME NEW m \in T, m < n PROVE FALSE
    <2>1. 0 .. m \in Below /\ 0 .. n \in Below
        BY <1>5 DEF Below
    <2>2. n \in 0 .. n /\ n \notin 0 .. m /\ 0 .. m \subseteq 0 .. n
        BY <1>5
    <2> QED BY <1>1, <1>4, <2>1, <2>2 DEF StrictSubsetOrdering
  <1> QED BY <1>5

=============================================================================
