--------------------------- MODULE InductionLemmas ---------------------------
(***************************************************************************)
(* Induction over the natural numbers in a first-order form, for the     *)
(* proofs about the loops of mint.go.  The induction theorems of          *)
(* NaturalsInduction take an operator parameter, which the provers cannot *)
(* instantiate; this one takes a set.                                      *)
(***************************************************************************)
EXTENDS Naturals, WellFoundedInduction, TLAPS

(***************************************************************************)
(* Induction over Nat for a set: a set that holds 0 and is closed under   *)
(* successor holds every natural number.                                   *)
(***************************************************************************)
LEMMA NatSetInduction ==
    ASSUME NEW S, 0 \in S, \A n \in Nat : n \in S => n + 1 \in S
    PROVE  Nat \subseteq S
<1> SUFFICES ASSUME Nat \ S # {} PROVE FALSE
  OBVIOUS
<1>1. \E x \in Nat \ S : \A y \in Nat \ S : ~(<<y, x>> \in OpToRel(<, Nat))
  BY NatLessThanWellFounded, WFMin
<1>2. PICK x \in Nat \ S : \A y \in Nat \ S : ~(<<y, x>> \in OpToRel(<, Nat))
  BY <1>1
<1>3. x # 0
  OBVIOUS
<1>4. x - 1 \in Nat /\ x - 1 < x
  BY <1>3
<1>5. x - 1 \in S
  BY <1>2, <1>4 DEF OpToRel
<1>6. (x - 1) + 1 = x
  BY <1>4
<1>7. QED
  BY <1>4, <1>5, <1>6

=============================================================================
