------------------------------- MODULE Minima -------------------------------
(***************************************************************************)
(* Induction by least counterexample, for the proofs of the other modules. *)
(* The theorems of the library that state induction take a predicate as a  *)
(* parameter; the one that gives minima takes a set, and is used here.     *)
(***************************************************************************)
EXTENDS Naturals, WellFoundedInduction, TLAPS

\* Every set of natural numbers that is not empty has a least element.
LEMMA LeastNat ==
  ASSUME NEW T \in SUBSET Nat, T # {}
  PROVE  \E x \in T : \A y \in T : x <= y
<1> DEFINE R == {ss \in Nat \X Nat : ss[1] < ss[2]}
<1>1. IsWellFoundedOn(R, Nat)
  BY NatLessThanWellFounded DEF OpToRel
<1> HIDE DEF R
<1>2. PICK x \in T : \A y \in T : ~ (<<y, x>> \in R)
  BY <1>1, WFMin, Zenon
<1>3. ASSUME NEW y \in T
      PROVE  x <= y
  <2>1. ~ (<<y, x>> \in R)
    BY <1>2, <1>3
  <2>2. ~ (y < x)
    BY <2>1 DEF R
  <2> QED
    BY <2>2
<1> QED
  BY <1>3

=============================================================================
