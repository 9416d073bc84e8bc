----------------------------- MODULE PaxosLemmas -----------------------------
(***************************************************************************)
(* What the proofs about acceptors, learners and proposers have in common: *)
(* ballots are totally ordered with INVALID_BALLOT the least, a non-empty  *)
(* set of naturals has a least element, and the chosen prefix of the       *)
(* hash-mapped memory has no gap.                                          *)
(***************************************************************************)
EXTENDS HashMappedMemory, NaturalsInduction, WellFoundedInduction, TLAPS

(* ballot_greater_than_or_equal is reflexive.                              *)
LEMMA GeqReflexive ==
  \A b \in Ballot : ballot_greater_than_or_equal(b, b)
BY DEF Ballot, ballot_greater_than_or_equal

(* Two ballots that are each at least the other are the same ballot: the   *)
(* comparisons of ballot.c never treat two distinct ballots as equal.      *)
LEMMA GeqAntisymmetric ==
  \A b, c \in Ballot :
     /\ ballot_greater_than_or_equal(b, c)
     /\ ballot_greater_than_or_equal(c, b)
     => b = c
<1> SUFFICES ASSUME NEW b \in Ballot, NEW c \in Ballot,
                    ballot_greater_than_or_equal(b, c),
                    ballot_greater_than_or_equal(c, b)
             PROVE  b = c
  BY Zenon
<1>1. b.number = c.number /\ b.proposer_id = c.proposer_id
  BY DEF Ballot, ballot_greater_than_or_equal
<1> QED
  BY <1>1 DEF Ballot

(* ballot_greater_than_or_equal is transitive.                             *)
LEMMA GeqTransitive ==
  \A b, c, d \in Ballot :
     /\ ballot_greater_than_or_equal(b, c)
     /\ ballot_greater_than_or_equal(c, d)
     => ballot_greater_than_or_equal(b, d)
BY DEF Ballot, ballot_greater_than_or_equal

(* Any two ballots are comparable, and "greater" is exactly "not at most". *)
LEMMA GeqTotal ==
  \A b, c \in Ballot :
     /\ ballot_greater_than_or_equal(b, c) \/ ballot_greater_than_or_equal(c, b)
     /\ ballot_greater_than(b, c) <=> ~ ballot_greater_than_or_equal(c, b)
BY DEF Ballot, ballot_greater_than_or_equal, ballot_greater_than

(* INVALID_BALLOT is a ballot, and every ballot is at least INVALID_BALLOT. *)
LEMMA InvalidIsLeast ==
  /\ INVALID_BALLOT \in Ballot
  /\ \A b \in Ballot : ballot_greater_than_or_equal(b, INVALID_BALLOT)
BY DEF Ballot, INVALID_BALLOT, ballot_greater_than_or_equal

-----------------------------------------------------------------------------
(* A non-empty set of naturals has a least element.                        *)
LEMMA LeastNatural ==
  ASSUME NEW S, S \subseteq Nat, S # {}
  PROVE  \E n \in S : \A m \in S : n <= m
<1> DEFINE R == OpToRel(<, Nat)
<1>1. PICK n \in S : \A m \in S : ~ (<<m, n>> \in R)
  <2>1. IsWellFoundedOn(R, Nat)
    BY Zenon, NatLessThanWellFounded
  <2> HIDE DEF R
  <2> QED  BY Zenon, <2>1, WFMin
<1>2. \A m \in S : <<m, n>> \in R <=> m < n
  BY Zenon DEF OpToRel
<1>3. \A m \in S : ~ (m < n)
  <2> HIDE DEF R
  <2> QED  BY Zenon, <1>1, <1>2
<1>4. \A m \in S : n <= m
  BY <1>3
<1> QED  BY Zenon, <1>4

(* The loop over chosen instances stops, not before min, and has seen only *)
(* chosen instances on the way.                                            *)
LEMMA AdvanceMinChosenPrefix ==
  ASSUME NEW min \in Nat, NEW i \in Nat, NEW c
  PROVE  /\ AdvanceMinChosen(min, c, i) \in Nat
         /\ AdvanceMinChosen(min, c, i) >= min
         /\ \A j \in Nat : min < j /\ j <= AdvanceMinChosen(min, c, i) => j \in c
<1>1. CASE ~ (min < i)
  BY <1>1 DEF AdvanceMinChosen
<1>2. CASE min < i
  <2> DEFINE stops(k) == k = i \/ (k + 1) \notin c
             S == {k \in min .. i : stops(k)}
             P(k) == stops(k) /\ \A n \in min .. (k - 1) : ~ stops(n)
             r == CHOOSE k \in min .. i : P(k)
  <2>1. i \in S /\ S \subseteq Nat
    BY <1>2
  <2>2. PICK k \in S : \A m \in S : k <= m
    <3> HIDE DEF S
    <3> QED  BY Zenon, <2>1, LeastNatural
  <2>3. k \in min .. i /\ P(k)
    BY <2>2
  <2>4. r \in min .. i /\ P(r)
    BY Zenon, <2>3
  <2>5. AdvanceMinChosen(min, c, i) = r
    BY Zenon, <1>2 DEF AdvanceMinChosen
  <2> HIDE DEF r
  <2>6. ASSUME NEW j \in Nat, min < j, j <= r
        PROVE  j \in c
    <3>1. (j - 1) \in min .. (r - 1) /\ (j - 1) + 1 = j
      BY <2>4, <2>6
    <3> QED  BY Zenon, <2>4, <3>1
  <2> QED  BY <2>4, <2>5, <2>6
<1> QED  BY Zenon, <1>1, <1>2
=============================================================================
