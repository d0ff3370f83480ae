----------------------------- MODULE Positions -----------------------------
(***************************************************************************)
(* Lemmas on the positions of a sequence: a set of them that is not empty  *)
(* has a first and a last one.  Of the intervals that end in the set, or   *)
(* begin in it, there is one that includes no other.                       *)
(***************************************************************************)
EXTENDS Integers, FiniteSetTheorems, TLAPS

\* Among sets of positions one contains no other.
LEMMA SmallestOf ==
  ASSUME NEW n \in Nat, NEW T, \A I \in T : I \subseteq 1 .. n, T # {}
  PROVE  \E I \in T : \A J \in T : ~(J \subseteq I /\ J # I)
<1>1. IsFiniteSet(1 .. n)
  BY FS_Interval
<1>2. FiniteSubsetsOf(1 .. n) = SUBSET (1 .. n)
  BY <1>1, FS_FiniteSubsetsOfFinite, Zenon
<1>3. IsWellFoundedOn(StrictSubsetOrdering(1 .. n), SUBSET (1 .. n))
  BY <1>2, FS_StrictSubsetOrderingWellFounded
<1>4. T \subseteq SUBSET (1 .. n)
  OBVIOUS
<1>5. \E I \in T : \A J \in T : <<J, I>> \notin StrictSubsetOrdering(1 .. n)
  BY <1>3, <1>4, WFMin
<1> QED
  BY <1>4, <1>5 DEF StrictSubsetOrdering

\* Positions have a least one.
LEMMA LeastOf ==
  ASSUME NEW n \in Nat, NEW S \in SUBSET (1 .. n), S # {}
  PROVE  \E x \in S : \A y \in S : x <= y
<1> DEFINE T == {1 .. x : x \in S}
<1>1. T # {} /\ \A I \in T : \E x \in S : I = 1 .. x
  OBVIOUS
<1>2. \A x \in S : (1 .. x) \in T /\ x \in 1 .. n
  OBVIOUS
<1>3. \A I \in T : I \subseteq 1 .. n
  BY <1>1, <1>2
<1> HIDE DEF T
<1>4. PICK I \in T : \A J \in T : ~(J \subseteq I /\ J # I)
  BY <1>1, <1>3, SmallestOf
<1>5. PICK x \in S : I = 1 .. x
  BY <1>1
<1>6. ASSUME NEW y \in S, y < x PROVE FALSE
  <2>1. (1 .. y) \subseteq (1 .. x) /\ x \in (1 .. x) /\ x \notin (1 .. y)
    BY <1>2, <1>6
  <2> QED
    BY <2>1, <1>2, <1>4, <1>5
<1> QED
  BY <1>2, <1>6

\* Positions have a greatest one.
LEMMA GreatestOf ==
  ASSUME NEW n \in Nat, NEW S \in SUBSET (1 .. n), S # {}
  PROVE  \E x \in S : \A y \in S : x >= y
<1> DEFINE T == {x .. n : x \in S}
<1>1. T # {} /\ \A I \in T : \E x \in S : I = x .. n
  OBVIOUS
<1>2. \A x \in S : (x .. n) \in T /\ x \in 1 .. n
  OBVIOUS
<1>3. \A I \in T : I \subseteq 1 .. n
  BY <1>1, <1>2
<1> HIDE DEF T
<1>4. PICK I \in T : \A J \in T : ~(J \subseteq I /\ J # I)
  BY <1>1, <1>3, SmallestOf
<1>5. PICK x \in S : I = x .. n
  BY <1>1
<1>6. ASSUME NEW y \in S, y > x PROVE FALSE
  <2>1. (y .. n) \subseteq (x .. n) /\ x \in (x .. n) /\ x \notin (y .. n)
    BY <1>2, <1>6
  <2> QED
    BY <2>1, <1>2, <1>4, <1>5
<1> QED
  BY <1>2, <1>6
=============================================================================
