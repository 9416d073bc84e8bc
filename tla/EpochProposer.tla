---------------------------- MODULE EpochProposer ----------------------------
(***************************************************************************)
(* The epoch proposer (paxos/epoch_proposer.c).  As in StandardProposer    *)
(* the state is a record and every function an operator on it; module      *)
(* EvEpochProposer turns them into actions.                                *)
(*                                                                         *)
(* A proposer that knows no epoch asks for a promise at a ballot only and  *)
(* takes the epoch from the first promise.  The epoch of an instance may   *)
(* rise while its ballot stays, so the ballot of a reply never exceeds     *)
(* that of its instance, and the branches for a reply that does (the       *)
(* recursion of receive_promise, the missing return of receive_accepted)   *)
(* are not there.                                                          *)
(***************************************************************************)
EXTENDS ProposerCommon, EpochBallots

INVALID_EPOCH == 0

StandardPrepareMsg(i, b) == [type |-> "PREPARE", iid |-> i, ballot |-> b]

EpochPrepareMsg(i, eb) == [type |-> "EPOCH_PREPARE", iid |-> i, epoch_ballot |-> eb]

EpochAcceptMsg(i, eb, v) == [type |-> "ACCEPT", iid |-> i, epoch_ballot |-> eb, value |-> v]

(* The request for a promise: by ballot only when the epoch is not known.  *)
RequestMsg(i, eb) ==
  IF eb.epoch = INVALID_EPOCH THEN StandardPrepareMsg(i, eb.ballot) ELSE EpochPrepareMsg(i, eb)

NewInfo(eb) ==
  [epoch_ballot |-> eb, quorum |-> q1, acks |-> {},
   last_accepted |-> INVALID_EPOCH_BALLOT, last_accepted_value |-> NULL,
   same_accept_count |-> 0, proposing_value |-> NULL]

NewProposer ==
  [known_highest_epoch |-> INVALID_EPOCH,
   trim_instance |-> 0, next_prepare_instance |-> 1, max_chosen_instance |-> 0,
   chosens |-> {},
   prepare_phase |-> [i \in Instances |-> NULL],
   accept_phase |-> [i \in Instances |-> NULL],
   manager |-> NewManager]

LearnEpoch(s, e) == [s EXCEPT !.known_highest_epoch = IF e > @ THEN e ELSE @]

ShouldRequeue(inst) ==
  inst.proposing_value # NOP /\ epoch_ballot_equal(inst.last_accepted, INVALID_EPOCH_BALLOT)

-----------------------------------------------------------------------------
RequeueTrimmed(m, phase, iid) ==
  RequeueAll(m, phase, {i \in Instances : /\ i <= iid /\ phase[i] # NULL
                                          /\ phase[i].proposing_value # NULL
                                          /\ ShouldRequeue(phase[i])}, iid)

ReceiveTrimIid(s, iid) ==
  IF iid <= s.trim_instance THEN s
  ELSE [s EXCEPT
         !.trim_instance = iid,
         !.manager = RequeueTrimmed(RequeueTrimmed(@, s.prepare_phase, iid), s.accept_phase, iid),
         !.prepare_phase = KeptAbove(@, iid),
         !.accept_phase = KeptAbove(@, iid),
         !.next_prepare_instance = IF iid > @ THEN iid + 1 + FallBehindJump ELSE @]

(* epoch_proposer_try_to_start_preparing_instance returns true.            *)
Starts(s, i) == i > s.trim_instance /\ i \notin s.chosens /\ s.prepare_phase[i] = NULL

(* An instance in phase 2 is prepared as well, and the next one left out.  *)
TryToStartPreparing(s, i, eb) ==
  LET skip == IF s.accept_phase[i] # NULL THEN 1 ELSE 0 IN
  CASE Starts(s, i) ->
         [s EXCEPT !.prepare_phase[i] = NewInfo(eb), !.next_prepare_instance = @ + skip]
    [] i <= s.trim_instance \/ i \in s.chosens -> [s EXCEPT !.next_prepare_instance = @ + 1]
    [] OTHER -> [s EXCEPT !.next_prepare_instance = @ + skip + 1]

ReceiveChosenValue(s, i, e, v) ==
  LET m1 == CloseIfOutstanding(s.manager, v)
      inst == s.accept_phase[i]
      m2 == IF inst # NULL /\ ~ Outstanding(s.manager, v) /\ ShouldRequeue(inst)
            THEN CheckAndRequeue(m1, inst.proposing_value) ELSE m1
      noted == [LearnEpoch(s, e) EXCEPT !.chosens = @ \cup {i},
                                        !.max_chosen_instance = IF @ < i THEN i ELSE @]
      closed == [noted EXCEPT !.manager = m2, !.prepare_phase[i] = NULL, !.accept_phase[i] = NULL]
  IN CASE i \in s.chosens -> s
       [] i \notin s.chosens /\ ~ Pending(s, i) -> [noted EXCEPT !.manager = m1]
       [] i \notin s.chosens /\ Pending(s, i) /\ MinUnchosen(closed) >= i ->
            ReceiveTrimIid(closed, i)
       [] OTHER -> closed

(* epoch_proposer_receive_chosen acknowledges the message.                 *)
ChosenAcked(s, i) == i \notin s.chosens /\ Pending(s, i)

-----------------------------------------------------------------------------
(* NoteLastAccepted_Dropped: the vote a promise reports is not looked at.  *)
NoteLastAccepted_Dropped(inst, ack) == inst

(* What a promise reports: a later vote replaces the one held, and the     *)
(* promises that report the vote held are counted.                         *)
NoteLastAccepted(inst, ack) ==
  CASE epoch_ballot_greater_than(ack.last_accepted, inst.last_accepted) ->
         [inst EXCEPT !.last_accepted = ack.last_accepted, !.last_accepted_value = ack.value,
                      !.same_accept_count =
                        IF epoch_ballot_greater_than(ack.last_accepted, INVALID_EPOCH_BALLOT)
                        THEN 1 ELSE @]
    [] /\ epoch_ballot_equal(ack.last_accepted, inst.last_accepted)
       /\ epoch_ballot_greater_than(ack.last_accepted, INVALID_EPOCH_BALLOT) ->
         [inst EXCEPT !.same_accept_count = @ + 1]
    [] OTHER -> inst

(* The promise is of a later epoch than the one asked for: the instance    *)
(* starts over in that epoch, with the same ballot.                        *)
PromisedLater(inst, ack) ==
  inst.epoch_ballot.epoch \notin {INVALID_EPOCH, ack.epoch_ballot.epoch}

Restarted(inst, ack) ==
  [inst EXCEPT !.epoch_ballot = ack.epoch_ballot, !.proposing_value = NULL,
               !.same_accept_count = 0, !.acks = {}]

CountPromise(inst, ack) ==
  NoteLastAccepted([inst EXCEPT !.epoch_ballot = ack.epoch_ballot,
                                !.acks = @ \cup {ack.aid}], ack)

PromiseIgnored(s, ack) ==
  LET inst == s.prepare_phase[ack.iid] IN
  \/ ack.iid <= s.trim_instance \/ ack.iid \in s.chosens
  \/ inst = NULL
  \/ epoch_ballot_greater_than(inst.epoch_ballot, ack.epoch_ballot)
  \/ ~ PromisedLater(inst, ack) /\ ack.aid \in inst.acks

(* The entry of the instance once the promise is counted.                  *)
Promised(s, ack) ==
  LET inst == s.prepare_phase[ack.iid] IN
  CountPromise(IF PromisedLater(inst, ack) THEN Restarted(inst, ack) ELSE inst, ack)

(* q2 promises reported one vote, as far as the count tells: the proposer  *)
(* takes the instance for chosen.                                          *)
PromisesShowChoice(s, ack) ==
  ~ PromiseIgnored(s, ack) /\ Promised(s, ack).same_accept_count >= q2

(* It then copies the value held, and there may be none.                   *)
CopiesNull(s, ack) ==
  PromisesShowChoice(s, ack) /\ Promised(s, ack).last_accepted_value = NULL

ReceivePromise(s, ack) ==
  LET inst == Promised(s, ack)
      counted == [LearnEpoch(s, ack.epoch_ballot.epoch) EXCEPT !.prepare_phase[ack.iid] = inst]
  IN CASE PromiseIgnored(s, ack) -> s
       [] ~ PromiseIgnored(s, ack) /\ PromisesShowChoice(s, ack) ->
            ReceiveChosenValue(counted, ack.iid, inst.last_accepted.epoch, inst.last_accepted_value)
       [] OTHER -> counted

(* epoch_proposer_receive_promise returns EPOCH_PREEMPTED.                 *)
PromisePreempts(s, ack) ==
  ~ PromiseIgnored(s, ack) /\ PromisedLater(s.prepare_phase[ack.iid], ack)

(* epoch_proposer_receive_promise returns QUORUM_REACHED.                  *)
PromiseQuorum(s, ack) ==
  /\ ~ PromiseIgnored(s, ack) /\ ~ PromisePreempts(s, ack) /\ ~ PromisesShowChoice(s, ack)
  /\ QuorumReached(Promised(s, ack))

-----------------------------------------------------------------------------
(* MoveToAccept_KeepsPrepare: the entry stays in the table of phase 1.     *)
MoveToAccept_KeepsPrepare(s, i, v) ==
  [s EXCEPT !.accept_phase[i] = [s.prepare_phase[i] EXCEPT
               !.proposing_value = v, !.last_accepted_value = NULL,
               !.quorum = q2, !.acks = {}]]

MoveToAccept(s, i, v) ==
  [s EXCEPT !.prepare_phase[i] = NULL,
            !.accept_phase[i] = [s.prepare_phase[i] EXCEPT
               !.proposing_value = v, !.last_accepted_value = NULL,
               !.quorum = q2, !.acks = {}]]

(* One round of the loop around epoch_proposer_try_accept.                 *)
TryAcceptStep(acc, undefined) ==
  LET s == acc.s
      i == CHOOSE j \in Ready(s) : \A k \in Ready(s) : j <= k
      inst == s.prepare_phase[i]
      next == GetNext(s.manager, s.max_chosen_instance > i, undefined)
  IN CASE ~ acc.more \/ Ready(s) = {} -> [acc EXCEPT !.more = FALSE]
       [] acc.more /\ Ready(s) # {} /\ inst.last_accepted_value # NULL ->
            [acc EXCEPT !.s = MoveToAccept(s, i, inst.last_accepted_value),
                        !.out = @ \cup {EpochAcceptMsg(i, inst.epoch_ballot,
                                                       inst.last_accepted_value)}]
       [] acc.more /\ Ready(s) # {} /\ inst.last_accepted_value = NULL /\ next.ok ->
            [acc EXCEPT !.s = [MoveToAccept(s, i, next.value) EXCEPT !.manager = next.manager],
                        !.out = @ \cup {EpochAcceptMsg(i, inst.epoch_ballot, next.value)}]
       [] OTHER -> [acc EXCEPT !.s.manager = next.manager, !.more = FALSE]

TryAccept(s, undefined) ==
  LET rounds == Cardinality(Instances) + 1
      after[k \in 0 .. rounds] ==
        IF k = 0 THEN [s |-> s, out |-> {}, more |-> TRUE]
        ELSE CHOOSE r \in {TryAcceptStep(acc, undefined) : acc \in {after[k - 1]}} : TRUE
  IN  after[rounds]

(* Counts_Again: whether the acceptor was counted before is not looked at. *)
Counts_Again(s, ack) ==
  /\ ack.iid > s.trim_instance /\ ack.iid \notin s.chosens
  /\ s.accept_phase[ack.iid] # NULL
  /\ epoch_ballot_equal(ack.epoch_ballot, s.accept_phase[ack.iid].epoch_ballot)

Counts(s, ack) ==
  /\ ack.iid > s.trim_instance /\ ack.iid \notin s.chosens
  /\ s.accept_phase[ack.iid] # NULL
  /\ epoch_ballot_equal(ack.epoch_ballot, s.accept_phase[ack.iid].epoch_ballot)
  /\ ack.aid \notin s.accept_phase[ack.iid].acks

AcceptQuorum(s, ack) ==
  /\ Counts(s, ack)
  /\ Cardinality(s.accept_phase[ack.iid].acks) + 1 >= s.accept_phase[ack.iid].quorum

ReceiveAccepted(s, ack) ==
  LET counted == [s EXCEPT !.accept_phase[ack.iid].acks = @ \cup {ack.aid}] IN
  CASE AcceptQuorum(s, ack) ->
         ReceiveChosenValue(counted, ack.iid, ack.epoch_ballot.epoch, ack.value)
    [] Counts(s, ack) /\ ~ AcceptQuorum(s, ack) -> counted
    [] OTHER -> s

-----------------------------------------------------------------------------
EpochPreempted(inst, m) == m.current.epoch > inst.epoch_ballot.epoch

BallotPreempted(inst, m) == ballot_greater_than(m.current.ballot, inst.epoch_ballot.ballot)

(* A higher epoch alone clears the promises: epoch, reported vote, count   *)
(* and value are kept.  A higher ballot moves on to ballot b in the        *)
(* acceptor's epoch; what was reported is forgotten if a value is held.    *)
UpdateFromPreemption(inst, m, b) ==
  CASE BallotPreempted(inst, m) ->
         [inst EXCEPT !.epoch_ballot = [epoch |-> m.current.epoch, ballot |-> b],
                      !.acks = {}, !.same_accept_count = 0,
                      !.last_accepted = IF inst.last_accepted_value # NULL
                                        THEN INVALID_EPOCH_BALLOT ELSE @,
                      !.last_accepted_value = NULL,
                      !.proposing_value = NULL]
    [] ~ BallotPreempted(inst, m) /\ EpochPreempted(inst, m) -> [inst EXCEPT !.acks = {}]
    [] OTHER -> inst

(* Whether the preempted request is the one an entry is waiting on.        *)
RequestOfPreparing(inst, m) ==
  /\ inst # NULL
  /\ \/ epoch_ballot_equal(m.requested, inst.epoch_ballot)
     \/ /\ ballot_equal(m.requested.ballot, inst.epoch_ballot.ballot)
        /\ inst.epoch_ballot.epoch = INVALID_EPOCH

RequestOfAccepting(inst, m) == inst # NULL /\ epoch_ballot_equal(m.requested, inst.epoch_ballot)

RequestPending(s, m) ==
  /\ m.iid > s.trim_instance /\ m.iid \notin s.chosens
  /\ \/ RequestOfPreparing(s.prepare_phase[m.iid], m)
     \/ RequestOfAccepting(s.accept_phase[m.iid], m)

(* The entry the preemption is about; the one in phase 2 comes last.       *)
PreemptedEntry(s, m) ==
  IF RequestOfAccepting(s.accept_phase[m.iid], m) THEN s.accept_phase[m.iid]
                                                  ELSE s.prepare_phase[m.iid]

(* An entry of phase 2 hands its value back whether or not the acceptor is *)
(* ahead of it; if it is, the instance goes back to phase 1.               *)
ReceivePreempted(s, m, b) ==
  LET i == m.iid
      inst == s.accept_phase[i]
      learnt == LearnEpoch(s, IF EpochPreempted(PreemptedEntry(s, m), m)
                              THEN m.current.epoch ELSE INVALID_EPOCH)
      prepared == IF RequestOfPreparing(s.prepare_phase[i], m)
                  THEN [learnt EXCEPT !.prepare_phase[i] = UpdateFromPreemption(@, m, b)]
                  ELSE learnt
      requeued == IF RequestOfAccepting(inst, m) /\ ShouldRequeue(inst)
                  THEN [prepared EXCEPT !.manager = CheckAndRequeue(@, inst.proposing_value)]
                  ELSE prepared
  IN IF /\ RequestOfAccepting(inst, m)
        /\ EpochPreempted(inst, m) \/ BallotPreempted(inst, m)
     THEN [requeued EXCEPT
             !.accept_phase[i] = NULL,
             !.prepare_phase[i] = [UpdateFromPreemption(inst, m, b) EXCEPT !.quorum = q1,
                                                                           !.acks = {}]]
     ELSE requeued

ReceiveProposerState(s, epoch, trim, max) ==
  ReceiveTrimIid([LearnEpoch(s, epoch) EXCEPT !.max_chosen_instance = IF max > @ THEN max ELSE @],
                 trim)

ReceiveAcceptorState(s, epoch, trim) == ReceiveTrimIid(LearnEpoch(s, epoch), trim)
=============================================================================
