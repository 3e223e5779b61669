---------------------------- MODULE NumberFacts ----------------------------
(***************************************************************************)
(* Facts about numbers the proofs of several components rest on: remainders*)
(* by a modulus that is not known, and the least number of a set.          *)
(***************************************************************************)
EXTENDS Integers, TLAPS, WellFoundedInduction

(* Quotient and remainder make up the number.                              *)
LEMMA Division ==
  ASSUME NEW m \in Nat \ {0}, NEW x \in Int
  PROVE  /\ x \div m \in Int
         /\ x = (x \div m) * m + (x % m)
         /\ x % m \in 0..m - 1
<1>1. x \div m \in Int /\ x = (x \div m) * m + (x % m)
  OBVIOUS
<1>2. x % m \in 0..m - 1
  OBVIOUS
<1>. QED
  BY <1>1, <1>2

(* A remainder is the number itself, up to whole turns.                    *)
LEMMA RemainderExact ==
  ASSUME NEW m \in Nat \ {0}, NEW x \in Int, NEW k \in Int,
         k * m <= x, x < k * m + m
  PROVE  x % m = x - k * m
<1>1. PICK q \in Int : x = q * m + (x % m)
  BY Division
<1>2. x % m \in 0..m - 1
  BY Division
<1>3. q = k
  <2>1. CASE q <= k - 1
    <3>1. q * m <= (k - 1) * m
      BY <2>1
    <3>. QED
      BY <3>1, <1>1, <1>2
  <2>2. CASE q >= k + 1
    <3>1. q * m >= (k + 1) * m
      BY <2>2
    <3>. QED
      BY <3>1, <1>1, <1>2
  <2>. QED
    BY <2>1, <2>2
<1>. QED
  BY <1>1, <1>3

(* A set of natural numbers that is not empty has a least element.         *)
LEMMA LeastExists ==
  ASSUME NEW T, T \subseteq Nat, T # {}
  PROVE  \E x \in T : \A y \in T : x <= y
<1> DEFINE less == {ss \in Nat \X Nat : ss[1] < ss[2]}
<1>1. less = OpToRel(<, Nat)
  BY DEF OpToRel
<1>2. IsWellFoundedOn(less, Nat)
  BY <1>1, NatLessThanWellFounded
<1> HIDE DEF less
<1>3. PICK x \in T : \A y \in T : ~ (<<y, x>> \in less)
  BY <1>2, WFMin
<1>4. ASSUME NEW y \in T PROVE x <= y
  <2>1. x \in Nat /\ y \in Nat /\ <<y, x>> \notin less
    BY <1>3
  <2>2. <<y, x>> \in Nat \X Nat
    BY <2>1
  <2>3. ~ (y < x)
    BY <2>1, <2>2 DEF less
  <2>. QED
    BY <2>1, <2>3
<1>. QED
  BY <1>4
=============================================================================
