------------------------------ MODULE Extrema ------------------------------
(***************************************************************************)
(* Least and greatest elements of sets of numbers, for the definitions that *)
(* CHOOSE the first or the last of something.                              *)
(***************************************************************************)
EXTENDS Naturals, TLAPS, WellFoundedInduction

(* A set of numbers that is not empty has a least one.                      *)
LEMMA Least ==
  ASSUME NEW S \in SUBSET Nat, S # {}
  PROVE  \E n \in S : \A m \in S : n <= m
<1> DEFINE R == OpToRel(<, Nat)
<1>1. IsWellFoundedOn(R, Nat) BY NatLessThanWellFounded
<1>2. PICK n \in S : \A m \in S : ~ (<<m, n>> \in R)
  <2> HIDE DEF R
  <2> QED BY <1>1, WFMin
<1>3. ASSUME NEW m \in S PROVE n <= m
  <2>1. <<m, n>> \notin R BY <1>2
  <2>2. ~(m < n) BY <2>1 DEF OpToRel
  <2> QED BY <2>2
<1> QED BY <1>3

(* A set of numbers up to N that is not empty has a greatest one.            *)
LEMMA Greatest ==
  ASSUME NEW N \in Nat, NEW S \in SUBSET (1..N), S # {}
  PROVE  \E n \in S : \A m \in S : m <= n
<1> DEFINE T == {N - n : n \in S}
<1>1. T \in SUBSET Nat /\ T # {}
  <2>1. PICK n \in S : TRUE OBVIOUS
  <2>2. N - n \in T OBVIOUS
  <2>3. \A m \in S : N - m \in Nat OBVIOUS
  <2> QED BY <2>2, <2>3
<1>2. PICK t \in T : \A u \in T : t <= u BY <1>1, Least
<1>3. PICK n \in S : t = N - n BY <1>2
<1>4. ASSUME NEW m \in S PROVE m <= n
  <2>1. N - m \in T OBVIOUS
  <2>2. N - n <= N - m BY <1>2, <1>3, <2>1
  <2> QED BY <2>2
<1> QED BY <1>4
=============================================================================
