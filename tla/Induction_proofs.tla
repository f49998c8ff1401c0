-------------------------- MODULE Induction_proofs --------------------------
(***************************************************************************)
(* Induction over the natural numbers, stated about a set and not about an *)
(* operator, so that it can be cited like any other fact.                  *)
(***************************************************************************)
EXTENDS Naturals, WellFoundedInduction, TLAPS

\* A set that has zero, and with every number the next one, has them all.
\* The smallest number that it does not have would have no predecessor.
LEMMA SetInduction ==
    ASSUME NEW S, 0 \in S, \A n \in Nat : n \in S => n + 1 \in S
    PROVE  Nat \subseteq S
<1> SUFFICES ASSUME Nat \ S # {} PROVE FALSE
  OBVIOUS
<1> DEFINE R == OpToRel(<, Nat)
           T == Nat \ S
<1>1. IsWellFoundedOn(R, Nat)
  BY NatLessThanWellFounded
<1>2. \A x, y \in Nat : x < y => <<x, y>> \in R
  BY DEF OpToRel
<1>3. T \subseteq Nat /\ T # {}
  OBVIOUS
<1> HIDE DEF R, T
<1>4. PICK n \in T : \A m \in T : ~(<<m, n>> \in R)
  BY <1>1, <1>3, WFMin
<1>5. n # 0 /\ n \in Nat /\ n \notin S
  BY DEF T
<1>6. n - 1 \in Nat /\ n - 1 < n /\ n = (n - 1) + 1
  BY <1>5
<1>7. n - 1 \notin T
  BY <1>2, <1>4, <1>5, <1>6
<1> QED
  BY <1>5, <1>6, <1>7 DEF T

\* A set of natural numbers that has any has a smallest one: if none of its
\* numbers were, no number could be below all of them, and all are.
LEMMA SmallestExists ==
    ASSUME NEW T \in SUBSET Nat, T # {}
    PROVE  \E n \in T : \A m \in T : n <= m
<1> SUFFICES ASSUME \A n \in T : \E m \in T : ~(n <= m) PROVE FALSE
  OBVIOUS
<1> DEFINE S == {n \in Nat : \A m \in T : n <= m}
<1>1. 0 \in S
  OBVIOUS
<1>2. ASSUME NEW n \in Nat, n \in S PROVE n + 1 \in S
  <2>1. n \notin T
    BY <1>2
  <2>2. \A m \in T : n <= m /\ n # m /\ m \in Nat
    BY <1>2, <2>1
  <2> QED
    BY <2>2
<1>3. Nat \subseteq S
  <2> HIDE DEF S
  <2> QED
    BY <1>1, <1>2, SetInduction
<1>4. PICK m \in T : TRUE
  OBVIOUS
<1>5. m + 1 \in S /\ m \in Nat
  BY <1>3
<1> QED
  BY <1>4, <1>5
=============================================================================
