-------------------------- MODULE StandardProposer --------------------------
(***************************************************************************)
(* The standard proposer (paxos/standard_proposer.c, proposer_common.c,    *)
(* quorum.c).  The state of a proposer is a record, and every function of  *)
(* the C interface is an operator from the old record to the new one;      *)
(* module EvProposer turns them into actions.                              *)
(***************************************************************************)
EXTENDS ProposerCommon

NewInfo(b) ==
  [ballot |-> b, quorum |-> q1, acks |-> {},
   last_accepted_ballot |-> INVALID_BALLOT, last_accepted_value |-> NULL,
   proposing_value |-> NULL]

NewProposer ==
  [trim_instance |-> 0, next_prepare_instance |-> 1, max_chosen_instance |-> 0,
   chosens |-> {},
   prepare_phase |-> [i \in Instances |-> NULL],
   accept_phase |-> [i \in Instances |-> NULL],
   manager |-> NewManager]

(* ShouldRequeue_Adopted: the test of the last accepted ballot is negated. *)
ShouldRequeue_Adopted(inst) ==
  inst.proposing_value # NOP /\ ~ ballot_equal(inst.last_accepted_ballot, INVALID_BALLOT)

(* The value of the instance goes back to the queue: it is a client value  *)
(* and the proposer did not take it over from a promise.                   *)
ShouldRequeue(inst) ==
  inst.proposing_value # NOP /\ ballot_equal(inst.last_accepted_ballot, INVALID_BALLOT)

-----------------------------------------------------------------------------
(* What is given back of one table when the instances up to iid go.        *)
RequeueTrimmed(m, phase, iid) ==
  RequeueAll(m, phase, {i \in Instances : /\ i <= iid /\ phase[i] # NULL
                                          /\ phase[i].proposing_value # NULL
                                          /\ ShouldRequeue(phase[i])}, iid)

ReceiveTrimIid(s, iid) ==
  IF iid <= s.trim_instance THEN s
  ELSE [s EXCEPT
         !.trim_instance = iid,
         !.manager = RequeueTrimmed(RequeueTrimmed(@, s.prepare_phase, iid), s.accept_phase, iid),
         !.prepare_phase = KeptAbove(@, iid),
         !.accept_phase = KeptAbove(@, iid),
         !.next_prepare_instance = IF iid >= @ THEN iid + 1 + FallBehindJump ELSE @]

(* proposer_try_to_start_preparing_instance.  The three tests that log     *)
(* "skipping" move next_prepare_instance on and then prepare the instance  *)
(* all the same.                                                           *)
TryToStartPreparing(s, i, b) ==
  LET skips == Cardinality({k \in 1 .. 3 :
                 \/ k = 1 /\ i <= s.trim_instance
                 \/ k = 2 /\ i \in s.chosens
                 \/ k = 3 /\ s.accept_phase[i] # NULL})
  IN IF s.prepare_phase[i] = NULL
     THEN [s EXCEPT !.prepare_phase[i] = NewInfo(b), !.next_prepare_instance = @ + skips]
     ELSE [s EXCEPT !.next_prepare_instance = @ + skips + 1]

ReceivePromise(s, ack) ==
  LET inst == s.prepare_phase[ack.iid]
      reported == IF ballot_greater_than(ack.value_ballot, inst.last_accepted_ballot)
                  THEN [inst EXCEPT !.last_accepted_ballot = ack.value_ballot,
                                    !.last_accepted_value = ack.value]
                  ELSE inst
  IN IF \/ ack.iid <= s.trim_instance \/ ack.iid \in s.chosens
        \/ inst = NULL
        \/ ballot_greater_than(inst.ballot, ack.ballot)
        \/ ack.aid \in inst.acks
     THEN s
     ELSE [s EXCEPT !.prepare_phase[ack.iid] = [reported EXCEPT !.acks = @ \cup {ack.aid}]]

(* proposer_receive_promise returns 1.                                     *)
PromiseQuorum(s, ack) ==
  /\ ReceivePromise(s, ack) # s
  /\ QuorumReached(ReceivePromise(s, ack).prepare_phase[ack.iid])

-----------------------------------------------------------------------------
(* MoveToAccept_NotRemoved: the entry is not deleted from phase 1.         *)
MoveToAccept_NotRemoved(s, i, v) ==
  LET moved == [s.prepare_phase[i] EXCEPT
                  !.proposing_value = v, !.last_accepted_value = NULL,
                  !.quorum = q2, !.acks = {}]
  IN  [s EXCEPT !.prepare_phase[i] = moved, !.accept_phase[i] = moved]

MoveToAccept(s, i, v) ==
  [s EXCEPT !.prepare_phase[i] = NULL,
            !.accept_phase[i] = [s.prepare_phase[i] EXCEPT
               !.proposing_value = v, !.last_accepted_value = NULL,
               !.quorum = q2, !.acks = {}]]

(* TryAcceptStep_OwnValue: a client value goes before a promised one.      *)
TryAcceptStep_OwnValue(acc, undefined) ==
  LET s == acc.s
      i == CHOOSE j \in Ready(s) : \A k \in Ready(s) : j <= k
      inst == s.prepare_phase[i]
      next == GetNext(s.manager, s.max_chosen_instance > s.trim_instance, undefined)
  IN IF ~ acc.more \/ Ready(s) = {} \/ ~ next.ok THEN [acc EXCEPT !.more = FALSE]
     ELSE [acc EXCEPT !.s = [MoveToAccept(s, i, next.value) EXCEPT !.manager = next.manager],
                      !.out = @ \cup {AcceptMsg(i, inst.ballot, next.value)}]

(* One round of the loop around proposer_try_accept: the least instance    *)
(* with a promise quorum takes the value a promise reported, or the next   *)
(* client value; the loop ends when there is no instance or no value.      *)
TryAcceptStep(acc, undefined) ==
  LET s == acc.s
      i == CHOOSE j \in Ready(s) : \A k \in Ready(s) : j <= k
      inst == s.prepare_phase[i]
      next == GetNext(s.manager, s.max_chosen_instance > s.trim_instance, undefined)
  IN CASE ~ acc.more \/ Ready(s) = {} -> [acc EXCEPT !.more = FALSE]
       [] acc.more /\ Ready(s) # {} /\ inst.last_accepted_value # NULL ->
            [acc EXCEPT !.s = MoveToAccept(s, i, inst.last_accepted_value),
                        !.out = @ \cup {AcceptMsg(i, inst.ballot, inst.last_accepted_value)}]
       [] acc.more /\ Ready(s) # {} /\ inst.last_accepted_value = NULL /\ next.ok ->
            [acc EXCEPT !.s = [MoveToAccept(s, i, next.value) EXCEPT !.manager = next.manager],
                        !.out = @ \cup {AcceptMsg(i, inst.ballot, next.value)}]
       [] OTHER -> [acc EXCEPT !.s.manager = next.manager, !.more = FALSE]

TryAccept(s, undefined) ==
  LET rounds == Cardinality(Instances) + 1
      after[k \in 0 .. rounds] ==
        IF k = 0 THEN [s |-> s, out |-> {}, more |-> TRUE]
        ELSE TryAcceptStep(after[k - 1], undefined)
  IN  after[rounds]

-----------------------------------------------------------------------------
ReceiveChosenValue(s, i, v) ==
  LET m1 == CloseIfOutstanding(s.manager, v)
      inst == s.accept_phase[i]
      m2 == IF inst # NULL /\ ~ Outstanding(s.manager, v) /\ ShouldRequeue(inst)
            THEN CheckAndRequeue(m1, inst.proposing_value) ELSE m1
      closed == [s EXCEPT !.chosens = @ \cup {i},
                          !.max_chosen_instance = IF @ < i THEN i ELSE @,
                          !.manager = m2,
                          !.accept_phase[i] = NULL, !.prepare_phase[i] = NULL]
  IN CASE i \in s.chosens -> s
       [] i \notin s.chosens /\ MinUnchosen(closed) >= i -> ReceiveTrimIid(closed, i)
       [] OTHER -> closed

(* proposer_receive_chosen returns true: a pending instance was closed.    *)
ChosenAcked(s, i) == i \notin s.chosens /\ Pending(s, i)

(* Count an acceptance of the ballot being proposed; the one that          *)
(* completes the quorum closes the instance.                               *)
(* In an ACCEPTED promise_ballot and value_ballot are equal: ballot.       *)
Counts(s, ack) ==
  /\ ack.iid > s.trim_instance /\ ack.iid \notin s.chosens
  /\ s.accept_phase[ack.iid] # NULL
  /\ ballot_equal(ack.ballot, s.accept_phase[ack.iid].ballot)
  /\ ack.aid \notin s.accept_phase[ack.iid].acks

(* AcceptQuorum_OffByOne: one acceptance short of the quorum will do.      *)
AcceptQuorum_OffByOne(s, ack) ==
  /\ Counts(s, ack)
  /\ Cardinality(s.accept_phase[ack.iid].acks) + 2 >= s.accept_phase[ack.iid].quorum

AcceptQuorum(s, ack) ==
  /\ Counts(s, ack)
  /\ Cardinality(s.accept_phase[ack.iid].acks) + 1 >= s.accept_phase[ack.iid].quorum

ReceiveAccepted(s, ack) ==
  LET counted == [s EXCEPT !.accept_phase[ack.iid].acks = @ \cup {ack.aid}] IN
  CASE AcceptQuorum(s, ack) -> ReceiveChosenValue(counted, ack.iid, ack.value)
    [] Counts(s, ack) /\ ~ AcceptQuorum(s, ack) -> counted
    [] OTHER -> s

(* proposer_update_instance_info_from_preemption with next ballot b.  The  *)
(* last accepted ballot is forgotten only together with a value.           *)
UpdateFromPreemption(inst, b) ==
  [inst EXCEPT !.ballot = b, !.acks = {},
               !.last_accepted_ballot = IF inst.last_accepted_value # NULL
                                        THEN INVALID_BALLOT ELSE @,
               !.last_accepted_value = NULL,
               !.proposing_value = NULL]

(* The preemption is about the ballot an entry of the instance is at.      *)
PreemptsEntry(inst, m) == inst # NULL /\ ballot_equal(m.attempted_ballot, inst.ballot)

Preempts(s, m) ==
  /\ m.iid > s.trim_instance /\ m.iid \notin s.chosens
  /\ \/ PreemptsEntry(s.prepare_phase[m.iid], m)
     \/ PreemptsEntry(s.accept_phase[m.iid], m)

(* Each table is tested by itself.  Preempted in phase 1 the instance      *)
(* stays there; preempted in phase 2 it goes back to phase 1, in place of  *)
(* an entry it may have there, and waits for a quorum of size q2.          *)
ReceivePreempted(s, m, b) ==
  LET i == m.iid
      inst == s.accept_phase[i]
      prepared == IF PreemptsEntry(s.prepare_phase[i], m)
                  THEN [s EXCEPT !.prepare_phase[i] = UpdateFromPreemption(@, b)] ELSE s
  IN IF PreemptsEntry(inst, m)
     THEN [prepared EXCEPT
             !.accept_phase[i] = NULL,
             !.prepare_phase[i] = [UpdateFromPreemption(inst, b) EXCEPT !.quorum = q2],
             !.manager = IF ShouldRequeue(inst)
                         THEN CheckAndRequeue(@, inst.proposing_value) ELSE @]
     ELSE prepared

ReceiveProposerState(s, trim, max) ==
  [ReceiveTrimIid(s, trim) EXCEPT !.max_chosen_instance = IF max > @ THEN max ELSE @]
=============================================================================
