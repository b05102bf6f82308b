--------------------------- MODULE DataInduction ----------------------------
(***************************************************************************)
(* Induction over the natural numbers, stated for sets instead of          *)
(* formulas: a property is the set of the numbers that have it.  In this   *)
(* form a proof can use it wherever a definition recurs: first to show     *)
(* that a function with the recursive equation exists, then for what it    *)
(* computes.                                                               *)
(***************************************************************************)
EXTENDS WellFoundedInduction, TLAPS

(* A set of natural numbers that is not empty has a smallest one.          *)
LEMMA SmallestIn ==
  ASSUME NEW S \in SUBSET Nat, S # {}
  PROVE  \E x \in S : \A y \in S : x <= y
<1> DEFINE R == OpToRel(<, Nat)
<1>1. IsWellFoundedOn(R, Nat)
  BY NatLessThanWellFounded
<1>2. R = {p \in Nat \X Nat : p[1] < p[2]}
  BY DEF OpToRel
<1> HIDE DEF R
<1>3. PICK x \in S : \A y \in S : ~ (<<y, x>> \in R)
  BY <1>1, WFMin
<1>4. \A y \in Nat : <<y, x>> \in R <=> y < x
  BY <1>2
<1>5. ASSUME NEW y \in S
      PROVE  x <= y
  <2>1. x \in Nat /\ y \in Nat
    OBVIOUS
  <2>2. ~ (y < x)
    BY <1>3, <1>4
  <2> QED
    BY <2>1, <2>2
<1> QED
  BY <1>5

(* A set that holds 0 and with every number the next holds all.            *)
LEMMA NatSetInduction ==
  ASSUME NEW S \in SUBSET Nat, 0 \in S, \A n \in S : n + 1 \in S
  PROVE  S = Nat
<1> SUFFICES ASSUME Nat \ S # {}
             PROVE  FALSE
  OBVIOUS
<1>1. PICK m \in Nat \ S : \A y \in Nat \ S : m <= y
  BY SmallestIn
<1>2. m # 0 /\ m - 1 \in Nat
  BY <1>1
<1>3. m - 1 \in S
  BY <1>1, <1>2
<1>4. m - 1 + 1 \in S
  BY <1>3
<1> QED
  BY <1>1, <1>2, <1>4
=============================================================================
