--------------------------- MODULE ProposerCommon ---------------------------
(***************************************************************************)
(* What the standard and the epoch proposer share (paxos/proposer_common.c,*)
(* quorum.c, ballot_giver.c, evpaxos/round_robin_allocator.c): the tables  *)
(* of the two phases, quorums, ballots drawn at random, and the share of   *)
(* the instances each proposer starts with a higher ballot.                *)
(*                                                                         *)
(* An instance is in the table of its phase, or in none: an absent entry   *)
(* is NULL.                                                                *)
(***************************************************************************)
EXTENDS PaxosTypes, ValueProposalManager, FiniteSets, Integers

CONSTANTS
  Proposers,        \* proposer ids
  q1, q2,           \* the quorum sizes of the two phases
  FallBehindJump,   \* paxos_config.fall_behind_jump
  BallotIncrement,  \* paxos_config.max_ballot_increment
  BallotBias,       \* the number above which allocated instances start
  MaxBallot,        \* bound: no proposer draws a higher ballot number
  MaxDraw           \* bound: or one further above the previous one

ASSUME ProposerAssumption ==
  /\ Proposers \subseteq Nat
  /\ q1 \in Nat /\ q2 \in Nat /\ FallBehindJump \in Nat
  /\ MaxBallot \in Nat /\ MaxDraw \in Nat /\ BallotBias \in Nat
  /\ BallotIncrement \in Nat /\ \A p \in Proposers : p <= BallotIncrement
  /\ Instances \subseteq Nat \ {0} /\ IsFiniteSet(Instances)
  /\ NULL \notin Values /\ NOP \notin Values \cup {NULL}
  /\ GARBAGE # NULL

(* ballot_giver_next: a random number above the previous ballot's.         *)
NextBallots(p, previous) ==
  {[number |-> n, proposer_id |-> p] :
     n \in {k \in (previous.number + 1) .. (previous.number + BallotIncrement + 1 - p) :
              k <= MaxBallot /\ k <= previous.number + MaxDraw}}

Allocated(p, i) == i % Cardinality(Proposers) = p

(* round_robin_allocator_get_ballot.                                       *)
InitialBallots(p, i) ==
  NextBallots(p, IF Allocated(p, i) THEN [number |-> BallotBias, proposer_id |-> p]
                                    ELSE INVALID_BALLOT)

(* The ballots the allocator draws, one for each instance.                 *)
Draws(p) ==
  {draw \in [Instances -> UNION {InitialBallots(p, i) : i \in Instances}] :
     \A i \in Instances : draw[i] \in InitialBallots(p, i)}

-----------------------------------------------------------------------------
QuorumReached(inst) == Cardinality(inst.acks) >= inst.quorum

Pending(s, i) == s.prepare_phase[i] # NULL \/ s.accept_phase[i] # NULL

Preparing(s) == {i \in Instances : s.prepare_phase[i] # NULL}

Accepting(s) == {i \in Instances : s.accept_phase[i] # NULL}

MinUnchosen(s) ==
  CHOOSE k \in (s.trim_instance + 1) .. (s.trim_instance + 1 + Cardinality(s.chosens)) :
    k \notin s.chosens /\ \A j \in (s.trim_instance + 1) .. (k - 1) : j \in s.chosens

(* The instances whose promise quorum is complete.                         *)
Ready(s) == {i \in Preparing(s) : QuorumReached(s.prepare_phase[i]) /\ i \notin s.chosens}

(* The table without the instances up to iid.                              *)
KeptAbove(phase, iid) == [i \in Instances |-> IF i <= iid THEN NULL ELSE phase[i]]

(* The values of the instances in is, none above iid, go back to the queue *)
(* in the order of the buckets of the table.  A table has at least four    *)
(* and an instance id is its own hash, so for ids up to 3 this is the      *)
(* order of the ids.                                                       *)
RequeueAll(m, phase, is, iid) ==
  LET after[k \in 0 .. iid] ==
        IF k = 0 THEN m
        ELSE IF k \in is THEN CheckAndRequeue(after[k - 1], phase[k].proposing_value)
        ELSE after[k - 1]
  IN  after[iid]
=============================================================================
