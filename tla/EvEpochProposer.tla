--------------------------- MODULE EvEpochProposer ---------------------------
(***************************************************************************)
(* The event loop around the epoch proposer (evpaxos/ev_epoch_proposer.c), *)
(* modelled as EvProposer models the standard one.                         *)
(*                                                                         *)
(* A backoff timer holds the prepare to send when it fires.  The timers    *)
(* the loop over new instances sets hold a prepare nobody filled in, NULL. *)
(* instances_to_skip is the array of that name up to its last cell ever    *)
(* written, with NULL for -1; num_instances_to_skip is its counter.        *)
(***************************************************************************)
EXTENDS EpochProposer

CONSTANTS PreexecWindowMin, PreexecWindowMax

ASSUME EvEpochProposerAssumption == PreexecWindowMin \in Nat /\ PreexecWindowMax \in Nat

VARIABLES
  proposer,               \* the state of each proposer (struct epoch_proposer)
  max_num_open_instances, \* how many instances each keeps open
  skipping,               \* its instances_to_skip and num_instances_to_skip
  retries,                \* the prepares of its pending backoff timers
  crashed,                \* the proposers that followed a null pointer
  msgs                    \* the messages sent

propVars == <<proposer, max_num_open_instances, skipping, retries, crashed>>

EmptySkipList == [instances_to_skip |-> <<>>, num_instances_to_skip |-> 0]

-----------------------------------------------------------------------------
Cells(sk) == 1 .. sk.num_instances_to_skip

ShouldSkip(sk, i) == \E c \in Cells(sk) : sk.instances_to_skip[c] = i

CheckAndAdd(sk, i) ==
  LET n == sk.num_instances_to_skip + 1 IN
  IF ShouldSkip(sk, i) THEN sk
  ELSE [instances_to_skip |-> [c \in 1 .. (IF n > Len(sk.instances_to_skip)
                                           THEN n ELSE Len(sk.instances_to_skip)) |->
                                 IF c = n THEN i ELSE sk.instances_to_skip[c]],
        num_instances_to_skip |-> n]

(* The counter the loop runs up to goes down as cells are cleared, so the  *)
(* cells at the end are not looked at, and cleared ones are not closed up. *)
TrimInstancesToSkip(sk, trim) ==
  LET n == sk.num_instances_to_skip
      after[c \in 0 .. n] ==
        IF c = 0 THEN sk
        ELSE LET old == after[c - 1] IN
             IF /\ c <= old.num_instances_to_skip
                /\ old.instances_to_skip[c] # NULL /\ old.instances_to_skip[c] <= trim
             THEN [instances_to_skip |-> [old.instances_to_skip EXCEPT ![c] = NULL],
                   num_instances_to_skip |-> old.num_instances_to_skip - 1]
             ELSE old
  IN  after[n]

(* One round of the loop of ev_epoch_proposer_try_begin_new_instances.     *)
(* Instances is the bound on the instances opened.  An instance that is    *)
(* not started is passed over twice: once by try_to_start_preparing and    *)
(* once here.                                                              *)
BeginStep(acc, sk, draw) ==
  LET i == acc.s.next_prepare_instance
      eb == [epoch |-> acc.s.known_highest_epoch, ballot |-> draw[i]]
      passed(s) == [s EXCEPT !.next_prepare_instance = @ + 1]
      tried == passed(TryToStartPreparing(acc.s, i, eb))
  IN CASE acc.count <= 0 \/ i \notin Instances -> acc
       [] acc.count > 0 /\ i \in Instances /\ ShouldSkip(sk, i) ->
            [acc EXCEPT !.s = passed(@)]
       [] acc.count > 0 /\ i \in Instances /\ ~ ShouldSkip(sk, i) /\ Starts(acc.s, i) ->
            [acc EXCEPT !.s = tried, !.count = @ - 1, !.out = @ \cup {RequestMsg(i, eb)}]
       [] OTHER -> [acc EXCEPT !.s = tried, !.timers = @ \cup {NULL}]

TryBeginNewInstances(s, window, sk, draw) ==
  LET begin == [s |-> s, out |-> {}, timers |-> {},
                count |-> window - (Cardinality(Preparing(s)) + Cardinality(Accepting(s)))]
      after[k \in 0 .. Cardinality(Instances)] ==
        IF k = 0 THEN begin
        ELSE CHOOSE r \in {BeginStep(acc, sk, draw) : acc \in {after[k - 1]}} : TRUE
  IN  after[Cardinality(Instances)]

Become(p, s, out, timers) ==
  /\ proposer' = [proposer EXCEPT ![p] = s]
  /\ msgs' = msgs \cup out
  /\ retries' = [retries EXCEPT ![p] = timers]
  /\ UNCHANGED crashed

(* A handler that ends with try_begin_new_instances.                       *)
BecomeAndBegin(p, s, window, sk, timers) ==
  \E from \in {s} :
    \E r \in {TryBeginNewInstances(from, window, sk, draw) : draw \in Draws(p)} :
      Become(p, r.s, r.out, timers \cup r.timers)

(* A handler that ends with try_accept.                                    *)
BecomeAndTryAccept(p, s) ==
  \E from \in {s} :
    \E r \in {TryAccept(from, undefined) : undefined \in BOOLEAN} :
      Become(p, r.s, r.out, retries[p])

(* What most handlers leave alone.                                         *)
WindowKept == UNCHANGED <<max_num_open_instances, skipping>>

Running(p) == p \notin crashed

-----------------------------------------------------------------------------
HandlePromise(p, ack) ==
  /\ Running(p)
  /\ ack.epoch_ballot.ballot.proposer_id = p
  /\ LET s == ReceivePromise(proposer[p], ack) IN
     CASE CopiesNull(proposer[p], ack) ->
            crashed' = crashed \cup {p} /\ UNCHANGED <<proposer, retries, msgs>>
       [] ~ CopiesNull(proposer[p], ack) /\ PromisePreempts(proposer[p], ack) ->
            Become(p, s, {EpochPrepareMsg(ack.iid, ack.epoch_ballot)}, retries[p])
       [] PromiseQuorum(proposer[p], ack) -> BecomeAndTryAccept(p, s)
       [] OTHER -> Become(p, s, {}, retries[p])
  /\ WindowKept

HandleAccepted(p, ack) ==
  /\ Running(p)
  /\ ack.epoch_ballot.ballot.proposer_id = p
  /\ LET s == ReceiveAccepted(proposer[p], ack) IN
     IF AcceptQuorum(proposer[p], ack)
     THEN BecomeAndBegin(p, s, max_num_open_instances[p], skipping[p], retries[p])
     ELSE Become(p, s, {}, retries[p])
  /\ WindowKept

(* An instance chosen before this proposer came to it is remembered.       *)
HandleChosen(p, m) ==
  /\ Running(p)
  /\ LET s == ReceiveChosenValue(proposer[p], m.iid, m.epoch_ballot.epoch, m.value) IN
     IF ChosenAcked(proposer[p], m.iid)
     THEN BecomeAndBegin(p, s, max_num_open_instances[p], skipping[p], retries[p])
     ELSE Become(p, s, {}, retries[p])
  /\ skipping' = [skipping EXCEPT ![p] =
       IF proposer'[p].next_prepare_instance < m.iid THEN CheckAndAdd(@, m.iid) ELSE @]
  /\ UNCHANGED max_num_open_instances

(* A ballot preemption waits for a backoff, an epoch preemption does not.  *)
(* What preempts neither is not answered.                                  *)
HandlePreempted(p, m) ==
  /\ Running(p)
  /\ m.requested.ballot.proposer_id = p
  /\ RequestPending(proposer[p], m)
  /\ IF BallotPreempted(PreemptedEntry(proposer[p], m), m)
     THEN \E b \in NextBallots(p, m.current.ballot) :
            Become(p, ReceivePreempted(proposer[p], m, b), {},
                   retries[p] \cup {EpochPrepareMsg(m.iid, [epoch |-> m.current.epoch,
                                                            ballot |-> b])})
     ELSE Become(p, ReceivePreempted(proposer[p], m, INVALID_BALLOT),
                 IF EpochPreempted(PreemptedEntry(proposer[p], m), m)
                 THEN {EpochPrepareMsg(m.iid, PreemptedEntry(proposer[p], m).epoch_ballot)}
                 ELSE {},
                 retries[p])
  /\ WindowKept

HandleTrim(p, iid) ==
  LET sk == TrimInstancesToSkip(skipping[p], iid) IN
  /\ Running(p)
  /\ skipping' = [skipping EXCEPT ![p] = sk]
  /\ BecomeAndBegin(p, ReceiveTrimIid(proposer[p], iid), max_num_open_instances[p], sk, retries[p])
  /\ UNCHANGED max_num_open_instances

HandleClientValue(p, v) ==
  /\ Running(p)
  /\ BecomeAndTryAccept(p, [proposer[p] EXCEPT !.manager = Enqueue(@, v)])
  /\ WindowKept

(* all_up reads times nobody wrote: up is what it happens to return.       *)
HandleAcceptorState(p, epoch, trim) ==
  LET sk == TrimInstancesToSkip(skipping[p], trim) IN
  /\ Running(p)
  /\ skipping' = [skipping EXCEPT ![p] = sk]
  /\ \E up \in BOOLEAN :
       LET window == IF up THEN PreexecWindowMax ELSE max_num_open_instances[p] IN
       /\ max_num_open_instances' = [max_num_open_instances EXCEPT ![p] = window]
       /\ BecomeAndBegin(p, ReceiveAcceptorState(proposer[p], epoch, trim), window, sk, retries[p])

HandleProposerState(p, epoch, trim, max) ==
  /\ Running(p)
  /\ BecomeAndBegin(p, ReceiveProposerState(proposer[p], epoch, trim, max),
                    max_num_open_instances[p], skipping[p], retries[p])
  /\ WindowKept

HandleEpochNotification(p, epoch) ==
  /\ Running(p)
  /\ Become(p, LearnEpoch(proposer[p], epoch), {}, retries[p])
  /\ WindowKept

-----------------------------------------------------------------------------
(* ev_epoch_proposer_try_higher_ballot: a backoff is over.  A prepare that *)
(* was never filled in reads as of neither kind, as one of an instance     *)
(* that is not pending, or as one sent before.                             *)
TryHigherBallot(p) ==
  /\ Running(p)
  /\ \E prepare \in retries[p] :
       LET left == retries[p] \ {prepare} IN
       \/ prepare = NULL /\ Become(p, proposer[p], {}, left)
       \/ /\ prepare # NULL /\ Pending(proposer[p], prepare.iid)
          /\ Become(p, proposer[p], {prepare}, left)
       \/ /\ prepare = NULL \/ ~ Pending(proposer[p], prepare.iid)
          /\ BecomeAndBegin(p, proposer[p], max_num_open_instances[p], skipping[p], left)
  /\ WindowKept

CheckTimeouts(p, late) ==
  LET s == proposer[p]
      Waiting(phase) == {i \in late : phase[i] # NULL /\ ~ QuorumReached(phase[i])}
  IN /\ Running(p)
     /\ Become(p, s,
               {RequestMsg(i, s.prepare_phase[i].epoch_ballot) : i \in Waiting(s.prepare_phase)}
               \cup {EpochAcceptMsg(i, s.accept_phase[i].epoch_ballot,
                                    s.accept_phase[i].proposing_value) :
                       i \in Waiting(s.accept_phase)},
               retries[p])
     /\ WindowKept

TryAcceptEvent(p) ==
  /\ Running(p)
  /\ BecomeAndTryAccept(p, proposer[p])
  /\ WindowKept

CheckAcceptorTimeouts(p) ==
  /\ Running(p)
  /\ max_num_open_instances' = [max_num_open_instances EXCEPT ![p] = PreexecWindowMin]
  /\ UNCHANGED <<proposer, skipping, retries, crashed, msgs>>

NoopTimeout(p) ==
  /\ Running(p)
  /\ proposer[p].manager.noop = "waiting"
  /\ proposer' = [proposer EXCEPT ![p].manager.noop = "over"]
  /\ UNCHANGED <<max_num_open_instances, skipping, retries, crashed, msgs>>
=============================================================================
