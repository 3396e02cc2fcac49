---------------------------- MODULE LeastNumber -----------------------------
(***************************************************************************)
(* Induction over the naturals in the form the proofs use it: a set of     *)
(* naturals that is not empty has a least element.  It is WFMin applied to *)
(* the well-founded < of NatLessThanWellFounded, and it takes no operator  *)
(* parameter, so the provers can instantiate it.                           *)
(***************************************************************************)
EXTENDS Naturals, WellFoundedInduction, TLAPS

\* A non-empty set of naturals has a least element.
LEMMA MinCounter ==
    ASSUME NEW T \in SUBSET Nat, T # {}
    PROVE  \E x \in T : \A y \in T : ~(y < x)
<1>1. PICK R : R = OpToRel(<, Nat)
  OBVIOUS
<1>2. IsWellFoundedOn(R, Nat)
  BY <1>1, NatLessThanWellFounded
<1>3. \E x \in T : \A y \in T : ~(<<y, x>> \in R)
  BY <1>2, WFMin
<1>. QED
  BY <1>1, <1>3 DEF OpToRel

\* A non-empty set of naturals bounded by k has a greatest element.
LEMMA MaxCounter ==
    ASSUME NEW k \in Nat, NEW S \in SUBSET (0 .. k), S # {}
    PROVE  \E x \in S : \A y \in S : y <= x
<1> DEFINE T == {b \in Nat : \A y \in S : y <= b}
<1>1. k \in T /\ T \subseteq Nat
  OBVIOUS
<1>2. PICK b \in T : \A y \in T : ~(y < b)
  BY <1>1, MinCounter
<1>3. b \in S
  <2> SUFFICES ASSUME b \notin S PROVE FALSE
    OBVIOUS
  <2>1. PICK y \in S : TRUE
    OBVIOUS
  <2>2. b # 0
    BY <2>1
  <2>3. b - 1 \in T
    BY <2>2
  <2>. QED
    BY <1>2, <2>2, <2>3
<1>. QED
  BY <1>3
=============================================================================
