---------------------------- MODULE NaturalSets ----------------------------
(***************************************************************************)
(* Least and greatest elements of sets of natural numbers, for the proofs   *)
(* about sorted ids.                                                       *)
(***************************************************************************)
EXTENDS Integers, FiniteSetsExt, WellFoundedInduction, TLAPS

(* A non-empty set of natural numbers has a least element.                 *)
LEMMA LeastNatural ==
    ASSUME NEW S \in SUBSET Nat, S # {}
    PROVE  \E x \in S : \A y \in S : x =< y
<1>1. PICK x \in S : \A y \in S : ~(<<y, x>> \in OpToRel(<, Nat))
  BY NatLessThanWellFounded, WFMin
<1>2. \A y \in S : ~(y < x)
  BY <1>1 DEF OpToRel
<1>3. QED
  BY <1>2

(* Min is one of the elements and the least of them.                       *)
LEMMA MinIsLeast ==
    ASSUME NEW S \in SUBSET Nat, S # {}
    PROVE  Min(S) \in S /\ \A y \in S : Min(S) =< y
BY LeastNatural DEF Min

(* Max of a bounded set is one of the elements and the greatest of them.   *)
LEMMA MaxIsGreatest ==
    ASSUME NEW S \in SUBSET Nat, S # {}, NEW n \in Nat, \A y \in S : y =< n
    PROVE  Max(S) \in S /\ \A y \in S : y =< Max(S)
<1> DEFINE Upper == {b \in Nat : \A y \in S : y =< b}
<1>1. PICK x \in Upper : \A b \in Upper : x =< b
  <2>1. n \in Upper
    OBVIOUS
  <2>2. QED
    BY <2>1, LeastNatural
<1>2. x \in S
  <2>1. SUFFICES ASSUME x \notin S PROVE FALSE
    OBVIOUS
  <2>2. PICK z \in S : TRUE
    OBVIOUS
  <2>3. x \in Nat /\ z \in Nat /\ z < x
    BY <2>1, <2>2
  <2>4. \A y \in S : y =< x - 1
    BY <2>1, <2>3
  <2>5. x - 1 \in Upper
    BY <2>3, <2>4
  <2>6. QED
    BY <1>1, <2>3, <2>5
<1>3. \E m \in S : \A y \in S : m >= y
  BY <1>2
<1>4. QED
  BY <1>3 DEF Max
=============================================================================
