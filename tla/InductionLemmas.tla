--------------------------- MODULE InductionLemmas ---------------------------
(***************************************************************************)
(* Induction over the natural numbers, with sets in place of predicates:   *)
(* the proofs about recursively defined functions rest on these lemmas.    *)
(***************************************************************************)
EXTENDS Integers, WellFoundedInduction, TLAPS

LessPairs == {ss \in Nat \X Nat : ss[1] < ss[2]}

LEMMA LessPairsWellFounded == IsWellFoundedOn(LessPairs, Nat)
  BY NatLessThanWellFounded DEF OpToRel, LessPairs

\* Every set of natural numbers that is not empty has a least element.
LEMMA LeastNatural ==
  ASSUME NEW T, T \subseteq Nat, T # {}
  PROVE  \E n \in T : \A m \in T : n <= m
<1>1. \E n \in T : \A m \in T : ~(<<m, n>> \in LessPairs)
  BY LessPairsWellFounded, WFMin, Zenon
<1>2. PICK n \in T : \A m \in T : ~(<<m, n>> \in LessPairs)
  BY <1>1
<1>3. \A m \in T : ~(m < n)
  BY <1>2 DEF LessPairs
<1> QED
  BY <1>3

\* A set with 0 and the successor of each of its numbers below k has all up to k.
LEMMA InductionUpTo ==
  ASSUME NEW k \in Nat, NEW S, 0 \in S,
         \A n \in 0 .. k : n \in S /\ n < k => n + 1 \in S
  PROVE  \A n \in 0 .. k : n \in S
<1> DEFINE T == {n \in 0 .. k : n \notin S}
<1>1. SUFFICES ASSUME T # {} PROVE FALSE
  OBVIOUS
<1>2. PICK n \in T : \A m \in T : n <= m
  <2>1. T \subseteq Nat
    OBVIOUS
  <2> HIDE DEF T
  <2> QED
    BY <1>1, <2>1, LeastNatural
<1>3. n # 0 /\ n - 1 \in 0 .. k /\ n - 1 < k /\ n - 1 \notin T
  BY <1>2
<1>4. n - 1 \in S /\ (n - 1) + 1 \in S
  BY <1>3
<1>5. (n - 1) + 1 = n /\ n \notin S
  BY <1>2
<1> QED
  BY <1>4, <1>5

\* A set with 0 and the successor of each of its numbers has all numbers.
LEMMA Induction ==
  ASSUME NEW S, 0 \in S, \A n \in Nat : n \in S => n + 1 \in S
  PROVE  \A n \in Nat : n \in S
<1>1. SUFFICES ASSUME NEW k \in Nat PROVE k \in S
  OBVIOUS
<1>2. \A n \in 0 .. k : n \in S /\ n < k => n + 1 \in S
  OBVIOUS
<1>3. \A n \in 0 .. k : n \in S
  BY <1>2, InductionUpTo
<1> QED
  BY <1>3
=============================================================================
