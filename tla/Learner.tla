------------------------------ MODULE Learner ------------------------------
(***************************************************************************)
(* The standard learner (paxos/learner.c): it counts acceptances, closes   *)
(* an instance at a quorum of one ballot or when it is told the choice,    *)
(* and hands the chosen values out in the order of their instances.        *)
(*                                                                         *)
(* The state of the learner is a record; every function of the C interface *)
(* is an operator from the old record to the new one.  An instance without *)
(* an entry in the table is NULL.                                          *)
(***************************************************************************)
EXTENDS PaxosTypes, FiniteSets

CONSTANT q2     \* paxos_config.quorum_2

NewLearner(late) ==
  [current_min_instance_to_execute |-> 1, highest_instance_chosen |-> 0,
   trim_iid |-> 0, late_start |-> late,
   instances |-> [i \in Instances |-> NULL]]

NewInstance ==
  [last_update_ballot |-> INVALID_BALLOT, current_ballots_value |-> NULL,
   acks |-> {}, chosen |-> FALSE]

SetInstanceId(l, iid) ==
  [l EXCEPT !.current_min_instance_to_execute = iid + 1, !.highest_instance_chosen = iid]

(* HandleLateStart_Again: every message decides where to start.            *)
HandleLateStart_Again(l, i) ==
  IF l.late_start
  THEN [l EXCEPT !.current_min_instance_to_execute = i, !.trim_iid = i - 1]
  ELSE l

(* With learner_catch_up off the first message decides where to start.     *)
HandleLateStart(l, i) ==
  IF l.late_start
  THEN [l EXCEPT !.late_start = FALSE, !.current_min_instance_to_execute = i,
                 !.trim_iid = i - 1]
  ELSE l

Outdated(l, i) == i < l.current_min_instance_to_execute

GetOrCreate(l, i) == IF l.instances[i] = NULL THEN NewInstance ELSE l.instances[i]

Highest(l, i) == IF i > l.highest_instance_chosen THEN i ELSE l.highest_instance_chosen

-----------------------------------------------------------------------------
ReceiveChosen(l0, i, b, v) ==
  LET l == HandleLateStart(l0, i)
      inst == GetOrCreate(l, i)
  IN IF Outdated(l, i) \/ inst.chosen THEN l
     ELSE [l EXCEPT !.instances[i] = [inst EXCEPT !.chosen = TRUE, !.last_update_ballot = b,
                                                  !.current_ballots_value = v],
                    !.highest_instance_chosen = Highest(l, i)]

(* NewBallot_KeepsAcks: the quorum is not cleared for a new ballot.        *)
NewBallot_KeepsAcks(inst, b, v) ==
  IF ballot_greater_than(b, inst.last_update_ballot)
  THEN [inst EXCEPT !.last_update_ballot = b, !.current_ballots_value = v]
  ELSE inst

(* check_and_handle_new_ballot: a higher ballot starts the count again.    *)
NewBallot(inst, b, v) ==
  IF ballot_greater_than(b, inst.last_update_ballot)
  THEN [inst EXCEPT !.last_update_ballot = b, !.current_ballots_value = v, !.acks = {}]
  ELSE inst

(* The entry of the instance once the acceptance is counted; the same      *)
(* entry if it is dropped.                                                 *)
Counted(inst, ack) ==
  LET at == NewBallot(inst, ack.ballot, ack.value)
      acks == at.acks \cup {ack.aid}
  IN IF \/ inst.chosen
        \/ ~ ballot_greater_than_or_equal(ack.ballot, inst.last_update_ballot)
        \/ ack.aid \in at.acks
     THEN inst
     ELSE [at EXCEPT !.acks = acks, !.chosen = Cardinality(acks) >= q2]

ReceiveAccepted(l0, ack) ==
  LET l == HandleLateStart(l0, ack.iid)
      inst == Counted(GetOrCreate(l, ack.iid), ack)
  IN IF Outdated(l, ack.iid) THEN l
     ELSE [l EXCEPT !.instances[ack.iid] = inst,
                    !.highest_instance_chosen =
                        IF inst.chosen THEN Highest(l, ack.iid) ELSE @]

(* learner_receive_accepted returns 1: the acceptance closed its instance. *)
ClosedBy(l0, ack) ==
  LET l == HandleLateStart(l0, ack.iid) IN
  /\ ~ Outdated(l, ack.iid)
  /\ ~ GetOrCreate(l, ack.iid).chosen
  /\ Counted(GetOrCreate(l, ack.iid), ack).chosen

-----------------------------------------------------------------------------
IsChosen(l, i) == i \in Instances /\ l.instances[i] # NULL /\ l.instances[i].chosen

(* How far the loop around learner_deliver_next gets: the first instance   *)
(* that is not known to be chosen.                                         *)
DeliverTo(l) ==
  LET from == l.current_min_instance_to_execute IN
  CHOOSE n \in from .. (from + Cardinality(Instances)) :
    /\ ~ IsChosen(l, n)
    /\ \A i \in from .. (n - 1) : IsChosen(l, i)

Delivers(l) ==
  LET from == l.current_min_instance_to_execute IN
  [k \in 1 .. (DeliverTo(l) - from) |->
     [iid |-> from + k - 1, value |-> l.instances[from + k - 1].current_ballots_value]]

Delivered(l) ==
  LET from == l.current_min_instance_to_execute IN
  [l EXCEPT !.current_min_instance_to_execute = DeliverTo(l),
            !.instances = [i \in Instances |->
                             IF i \in from .. (DeliverTo(l) - 1) THEN NULL ELSE @[i]]]

(* HasHoles_OffByOne: a hole just below the highest instance is missed.    *)
HasHoles_OffByOne(l) == l.highest_instance_chosen > l.current_min_instance_to_execute + 1

HasHoles(l) == l.highest_instance_chosen > l.current_min_instance_to_execute

(* GetInstanceToTrim_OffByOne: the instance being waited for is included.  *)
GetInstanceToTrim_OffByOne(l) == l.current_min_instance_to_execute

GetInstanceToTrim(l) == l.current_min_instance_to_execute - 1
=============================================================================
