---------------------------- MODULE EpochLearner ----------------------------
(***************************************************************************)
(* The epoch learner (paxos/epoch_learner.c).  Unlike the standard one it  *)
(* keeps a record for every epoch ballot it has seen in an instance and    *)
(* counts each by itself, so an acceptance of an old epoch ballot still    *)
(* counts.  Operators as in module Learner; an instance without an entry   *)
(* is NULL, and so is chosen until the choice is known.                    *)
(***************************************************************************)
EXTENDS PaxosTypes, EpochBallots, FiniteSets, Sequences, Integers

CONSTANT q2     \* paxos_config.quorum_2

NewLearner(late) ==
  [current_min_instance_to_execute |-> 1, highest_instance_chosen |-> 0,
   trim_instance |-> 0, late_start |-> late,
   instances |-> [i \in Instances |-> NULL]]

NewInstance == [ballots |-> {}, chosen |-> NULL]

HandleLateStart(l, i) ==
  IF l.late_start
  THEN [l EXCEPT !.late_start = FALSE, !.current_min_instance_to_execute = i,
                 !.trim_instance = i - 1]
  ELSE l

GetOrCreate(l, i) == IF l.instances[i] = NULL THEN NewInstance ELSE l.instances[i]

Dropped(l, i) == i < l.current_min_instance_to_execute \/ GetOrCreate(l, i).chosen # NULL

(* The records of all other epoch ballots, and the one of eb with the      *)
(* value it was created with.                                              *)
Others(inst, eb) == {r \in inst.ballots : ~ epoch_ballot_equal(r.epoch_ballot, eb)}

BallotInfo(inst, eb, v) ==
  IF Others(inst, eb) = inst.ballots
  THEN [epoch_ballot |-> eb, value |-> v, acks |-> {}]
  ELSE CHOOSE r \in inst.ballots : epoch_ballot_equal(r.epoch_ballot, eb)

(* Put an entry back; when it is chosen, the highest such instance rises.  *)
WithInstance(l, i, inst) ==
  [l EXCEPT !.instances[i] = inst,
            !.highest_instance_chosen = IF inst.chosen # NULL /\ i > @ THEN i ELSE @]

-----------------------------------------------------------------------------
ReceiveChosen(l0, i, eb, v) ==
  LET l == HandleLateStart(l0, i)
      inst == GetOrCreate(l, i)
      r == BallotInfo(inst, eb, v)
  IN IF Dropped(l, i) THEN l
     ELSE WithInstance(l, i, [ballots |-> Others(inst, eb) \cup {r}, chosen |-> r])

(* CountedRecord_AnyBallot: acceptances of other epoch ballots count too.  *)
CountedRecord_AnyBallot(inst, ack) ==
  LET r == BallotInfo(inst, ack.epoch_ballot, ack.value) IN
  [r EXCEPT !.acks = UNION {x.acks : x \in inst.ballots} \cup {ack.aid}]

CountedRecord(inst, ack) ==
  LET r == BallotInfo(inst, ack.epoch_ballot, ack.value) IN
  [r EXCEPT !.acks = @ \cup {ack.aid}]

(* epoch_learner_receive_accepted returns QUORUM_REACHED.                  *)
ClosedBy(l0, ack) ==
  LET l == HandleLateStart(l0, ack.iid) IN
  /\ ~ Dropped(l, ack.iid)
  /\ Cardinality(CountedRecord(GetOrCreate(l, ack.iid), ack).acks) >= q2

ReceiveAccepted(l0, ack) ==
  LET l == HandleLateStart(l0, ack.iid)
      inst == GetOrCreate(l, ack.iid)
      r == CountedRecord(inst, ack)
  IN IF Dropped(l, ack.iid) THEN l
     ELSE WithInstance(l, ack.iid, [ballots |-> Others(inst, ack.epoch_ballot) \cup {r},
                                    chosen |-> IF ClosedBy(l0, ack) THEN r ELSE NULL])

-----------------------------------------------------------------------------
IsChosen(l, i) == i \in Instances /\ l.instances[i] # NULL /\ l.instances[i].chosen # NULL

(* DeliverTo_One: no loop around epoch_learner_deliver_next.               *)
DeliverTo_One(l) ==
  LET from == l.current_min_instance_to_execute IN IF IsChosen(l, from) THEN from + 1 ELSE from

(* How far the loop around epoch_learner_deliver_next gets.                *)
DeliverTo(l) ==
  LET from == l.current_min_instance_to_execute IN
  CHOOSE n \in from .. (from + Cardinality(Instances)) :
    /\ ~ IsChosen(l, n)
    /\ \A i \in from .. (n - 1) : IsChosen(l, i)

Delivers(l) ==
  LET from == l.current_min_instance_to_execute IN
  [k \in 1 .. (DeliverTo(l) - from) |->
     [iid |-> from + k - 1, value |-> l.instances[from + k - 1].chosen.value]]

(* Delivered_Stays: what was handed out is not passed over.                *)
Delivered_Stays(l) == l

Delivered(l) ==
  LET from == l.current_min_instance_to_execute IN
  [l EXCEPT !.current_min_instance_to_execute = DeliverTo(l),
            !.instances = [i \in Instances |->
                             IF i \in from .. (DeliverTo(l) - 1) THEN NULL ELSE @[i]]]

HasHoles(l) == l.highest_instance_chosen > l.current_min_instance_to_execute

(* GetInstanceToTrim_OffByOne: the instance being waited for is included.  *)
GetInstanceToTrim_OffByOne(l) == l.current_min_instance_to_execute

GetInstanceToTrim(l) == l.current_min_instance_to_execute - 1
=============================================================================
