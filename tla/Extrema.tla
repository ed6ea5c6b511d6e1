------------------------------ MODULE Extrema ------------------------------
(***************************************************************************)
(* The least and the greatest element of a finite set of numbers: what the *)
(* CHOOSE of an "oldest" or "latest" row in the other modules returns.     *)
(***************************************************************************)
EXTENDS Integers, FiniteSetTheorems, WellFoundedInduction, TLAPS

\* A set of numbers that has an element not above n has a least one: of the
\* intervals 0 .. m that end in an element, the smallest by inclusion.
LEMMA LeastOfNaturals ==
  ASSUME NEW S \in SUBSET Nat, S # {}
  PROVE  \E m \in S : \A i \in S : m <= i
<1>1. PICK n \in S : TRUE
  OBVIOUS
<1> DEFINE Up == {m \in S : m <= n}
           T == {0 .. m : m \in Up}
           D == 0 .. n
<1>2. IsFiniteSet(D)
  BY FS_Interval
<1>3. T \subseteq SUBSET D
  OBVIOUS
<1>4. FiniteSubsetsOf(D) = SUBSET D
  BY <1>2, FS_FiniteSubsetsOfFinite
<1>5. T # {}
  OBVIOUS
<1> HIDE DEF T, D
<1>6. \E x \in T : \A y \in T : ~ (<<y, x>> \in StrictSubsetOrdering(D))
  BY <1>3, <1>4, <1>5, FS_StrictSubsetOrderingWellFounded, WFMin
<1>7. PICK x \in T : \A y \in T : ~ (y \subseteq x /\ y # x)
  BY <1>3, <1>6 DEF StrictSubsetOrdering
<1>8. PICK m \in Up : x = 0 .. m
  BY <1>7 DEF T
<1>9. ASSUME NEW i \in S
      PROVE  m <= i
  <2> SUFFICES ASSUME i < m
               PROVE  FALSE
    BY <1>1
  <2>1. i \in Up /\ 0 .. i \in T
    BY <1>1 DEF T
  <2>2. 0 .. i \subseteq 0 .. m /\ m \in 0 .. m /\ m \notin 0 .. i
    OBVIOUS
  <2> QED BY <1>7, <1>8, <2>1, <2>2
<1> QED BY <1>9

\* A set of numbers up to n that is not empty has a greatest one.
LEMMA GreatestUpTo ==
  ASSUME NEW n \in Nat, NEW S \in SUBSET (0 .. n), S # {}
  PROVE  \E m \in S : \A i \in S : i <= m
<1> DEFINE R == {n - i : i \in S}
<1>1. R \in SUBSET Nat /\ R # {}
  <2>1. \A i \in S : n - i \in Nat
    OBVIOUS
  <2> QED BY <2>1
<1>2. PICK r \in R : \A j \in R : r <= j
  BY <1>1, LeastOfNaturals
<1>3. PICK m \in S : r = n - m
  OBVIOUS
<1>4. ASSUME NEW i \in S
      PROVE  i <= m
  <2>1. n - m <= n - i
    BY <1>2, <1>3
  <2> QED BY <2>1
<1> QED BY <1>4
=============================================================================
