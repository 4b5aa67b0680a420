------------------------------ MODULE Numbers -------------------------------
(***************************************************************************)
(* Two facts about sets of natural numbers that several proofs rest on.    *)
(***************************************************************************)
EXTENDS Naturals, FiniteSetTheorems, TLAPS

\* A set of numbers that is not empty has a least one.
LEMMA LeastNumber ==
    ASSUME NEW S, S \subseteq Nat, S # {}
    PROVE  \E x \in S : \A y \in S : x <= y
<1>0. PICK top \in S : TRUE
  OBVIOUS
<1> DEFINE R == StrictSubsetOrdering(0 .. top)
           Initials == {0 .. x : x \in S \cap 0 .. top}
<1>1. IsWellFoundedOn(R, SUBSET (0 .. top))
  <2>1. IsFiniteSet(0 .. top)
    BY FS_Interval
  <2>2. FiniteSubsetsOf(0 .. top) = SUBSET (0 .. top)
    BY <2>1, FS_FiniteSubsetsOfFinite
  <2>3. IsWellFoundedOn(R, FiniteSubsetsOf(0 .. top))
    BY <2>1, FS_StrictSubsetOrderingWellFounded
  <2> QED BY <2>2, <2>3
<1>2. Initials # {} /\ Initials \subseteq SUBSET (0 .. top)
  <2>1. 0 .. top \in Initials
    OBVIOUS
  <2> QED BY <2>1
<1>3. PICK t \in Initials : \A u \in Initials : ~ (<<u, t>> \in R)
  <2> HIDE DEF R, Initials
  <2> QED BY <1>1, <1>2, WFMin
<1>4. PICK x \in S \cap 0 .. top : t = 0 .. x
  OBVIOUS
<1>5. ASSUME NEW y \in S PROVE x <= y
  <2>1. CASE y \in 0 .. top
    <3>1. 0 .. y \in Initials
      BY <2>1
    <3>2. ~ (<<0 .. y, 0 .. x>> \in R)
      BY <1>3, <1>4, <3>1
    <3>3. ~ (0 .. y \subseteq 0 .. x /\ 0 .. y # 0 .. x)
      BY <2>1, <3>2 DEF StrictSubsetOrdering
    <3> QED BY <2>1, <3>3
  <2>2. CASE y \notin 0 .. top
    BY <2>2
  <2> QED BY <2>1, <2>2
<1> QED BY <1>5

\* A set with 0 and with every successor holds every number.
LEMMA SetInduction ==
    ASSUME NEW S, 0 \in S, \A k \in Nat : k \in S => k + 1 \in S
    PROVE  Nat \subseteq S
<1> SUFFICES ASSUME ~ (Nat \subseteq S) PROVE FALSE
  OBVIOUS
<1>1. PICK k \in Nat \ S : \A y \in Nat \ S : k <= y
  BY LeastNumber
<1>2. k # 0 /\ k - 1 \in Nat /\ k - 1 \notin Nat \ S
  BY <1>1
<1> QED BY <1>1, <1>2
=============================================================================
