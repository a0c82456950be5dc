------------------------------ MODULE Arithmetic ------------------------------
(***************************************************************************)
(* Facts about the integers that the proofs of several modules rest on.    *)
(* The least element of a set of naturals is what stands for induction:    *)
(* a claim about all naturals holds if no natural is the least to break it.*)
(***************************************************************************)
EXTENDS Integers, WellFoundedInduction, TLAPS

LEMMA LeastNatural ==
    ASSUME NEW S \in SUBSET Nat, S # {}
    PROVE  \E n \in S : \A k \in S : n <= k
  <1> DEFINE R == OpToRel(<, Nat)
  <1>1. IsWellFoundedOn(R, Nat)
    BY NatLessThanWellFounded
  <1>2. \A x \in Nat, y \in Nat : x < y => <<x, y>> \in R
    BY DEF OpToRel
  <1> HIDE DEF R
  <1>3. PICK n \in S : \A k \in S : ~ (<<k, n>> \in R)
    BY <1>1, WFMin
  <1>4. ASSUME NEW k \in S PROVE n <= k
    <2>1. n \in Nat /\ k \in Nat
      OBVIOUS
    <2>2. ~ (k < n)
      BY <1>2, <1>3, <2>1
    <2>3. QED
      BY <2>1, <2>2
  <1>5. QED
    BY <1>4

\* Going round a circle of n once.
LEMMA ModWithin == \A n \in Nat \ {0} : \A a \in 0 .. n - 1 : a % n = a
  OBVIOUS

LEMMA ModBelow == \A n \in Nat \ {0} : \A a \in -n .. -1 : a % n = a + n
  OBVIOUS

LEMMA ModAbove == \A n \in Nat \ {0} : \A a \in n .. 2 * n - 1 : a % n = a - n
  OBVIOUS

LEMMA TimesMonotone ==
    \A n \in Nat, a \in Nat, b \in Nat : a < b => a * n + n <= b * n
  OBVIOUS

LEMMA DivIsWhich ==
    \A n \in Nat \ {0}, a \in Nat, h \in Nat : a \div n = h <=> h * n <= a /\ a < h * n + n
  OBVIOUS

===============================================================================
