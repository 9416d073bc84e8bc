----------------------------- MODULE EvProposer -----------------------------
(***************************************************************************)
(* The event loop around the standard proposer (evpaxos/evproposer.c).     *)
(* libevent runs one callback at a time, so every message handler and      *)
(* every timer is one action.  The prepares of pending backoff timers are  *)
(* in retries: how long a backoff takes is left open, so a timer may fire  *)
(* whenever it is pending.                                                 *)
(*                                                                         *)
(* msgs holds every message sent.  It only grows: an addressee may be slow *)
(* or not be among the group a request goes to, and a message may be       *)
(* handled twice, as one sent again after a timeout is.                    *)
(***************************************************************************)
EXTENDS StandardProposer

CONSTANTS
  RoundRobinBackoff,  \* paxos_config.round_robin_backoff
  PreexecWindowMin, PreexecWindowMax

ASSUME EvProposerAssumption ==
  /\ RoundRobinBackoff \in BOOLEAN
  /\ PreexecWindowMin \in Nat /\ PreexecWindowMax \in Nat

VARIABLES
  proposer,        \* the state of each proposer (struct proposer)
  preexec_window,  \* how many instances each keeps open
  retries,         \* the prepares of its pending backoff timers
  msgs             \* the messages sent

propVars == <<proposer, preexec_window, retries>>

PropInit ==
  /\ proposer = [p \in Proposers |-> NewProposer]
  /\ preexec_window = [p \in Proposers |-> PreexecWindowMax]
  /\ retries = [p \in Proposers |-> {}]

-----------------------------------------------------------------------------
(* One round of the loop of proposer_preexecute.  Instances is the bound   *)
(* on the instances opened.                                                *)
PreexecuteStep(p, acc, draw) ==
  LET i == acc.s.next_prepare_instance
      b == draw[i]
      started == TryToStartPreparing(acc.s, i, b)
      next == [started EXCEPT !.next_prepare_instance = @ + 1]
      delay == Allocated(p, i) /\ RoundRobinBackoff
  IN CASE acc.count <= 0 \/ i \notin Instances -> acc
       [] acc.count > 0 /\ i \in Instances /\ acc.s.prepare_phase[i] # NULL ->
            [acc EXCEPT !.s = next]
       [] OTHER ->
            [s |-> next, count |-> acc.count - 1,
             out |-> IF delay THEN acc.out ELSE acc.out \cup {PrepareMsg(i, b)},
             delayed |-> IF delay THEN acc.delayed \cup {PrepareMsg(i, b)} ELSE acc.delayed]

Preexecute(p, s, window, draw) ==
  LET begin == [s |-> s, out |-> {}, delayed |-> {},
                count |-> window - (Cardinality(Preparing(s)) + Cardinality(Accepting(s)))]
      after[k \in 0 .. Cardinality(Instances)] ==
        IF k = 0 THEN begin ELSE PreexecuteStep(p, after[k - 1], draw)
  IN  after[Cardinality(Instances)]

(* The end of a handler: the new state, the messages sent, the timers set. *)
Become(p, s, out, timers) ==
  /\ proposer' = [proposer EXCEPT ![p] = s]
  /\ msgs' = msgs \cup out
  /\ retries' = [retries EXCEPT ![p] = timers]

(* A handler that ends with proposer_preexecute.                           *)
BecomeAndPreexecute(p, s, window, timers) ==
  \E draw \in Draws(p) :
    LET r == Preexecute(p, s, window, draw) IN Become(p, r.s, r.out, timers \cup r.delayed)

(* A handler that ends with try_accept.                                    *)
BecomeAndTryAccept(p, s) ==
  \E undefined \in BOOLEAN :
    LET r == TryAccept(s, undefined) IN Become(p, r.s, r.out, retries[p])

-----------------------------------------------------------------------------
HandlePromise(p, ack) ==
  /\ ack.ballot.proposer_id = p
  /\ LET s == ReceivePromise(proposer[p], ack) IN
     IF PromiseQuorum(proposer[p], ack) THEN BecomeAndTryAccept(p, s)
                                        ELSE Become(p, s, {}, retries[p])
  /\ UNCHANGED preexec_window

HandleAccepted(p, ack) ==
  /\ ack.ballot.proposer_id = p
  /\ LET s == ReceiveAccepted(proposer[p], ack) IN
     IF AcceptQuorum(proposer[p], ack)
     THEN BecomeAndPreexecute(p, s, preexec_window[p], retries[p])
     ELSE Become(p, s, {}, retries[p])
  /\ UNCHANGED preexec_window

HandleChosen(p, m) ==
  /\ LET s == ReceiveChosenValue(proposer[p], m.iid, m.value) IN
     IF ChosenAcked(proposer[p], m.iid)
     THEN BecomeAndPreexecute(p, s, preexec_window[p], retries[p])
     ELSE Become(p, s, {}, retries[p])
  /\ UNCHANGED preexec_window

HandlePreempted(p, m) ==
  /\ m.attempted_ballot.proposer_id = p
  /\ Preempts(proposer[p], m)
  /\ \E b \in NextBallots(p, m.acceptor_current_ballot) :
       Become(p, ReceivePreempted(proposer[p], m, b), {}, retries[p] \cup {PrepareMsg(m.iid, b)})
  /\ UNCHANGED preexec_window

HandleTrim(p, iid) ==
  /\ BecomeAndPreexecute(p, ReceiveTrimIid(proposer[p], iid), preexec_window[p], retries[p])
  /\ UNCHANGED preexec_window

HandleClientValue(p, v) ==
  /\ BecomeAndTryAccept(p, [proposer[p] EXCEPT !.manager = Enqueue(@, v)])
  /\ UNCHANGED preexec_window

(* all_up reads times nobody wrote: up is what it happens to return.       *)
HandleAcceptorState(p, trim_iid) ==
  \E up \in BOOLEAN :
    LET window == IF up THEN PreexecWindowMax ELSE preexec_window[p] IN
    /\ preexec_window' = [preexec_window EXCEPT ![p] = window]
    /\ BecomeAndPreexecute(p, ReceiveTrimIid(proposer[p], trim_iid), window, retries[p])

HandleProposerState(p, trim, max) ==
  /\ BecomeAndPreexecute(p, ReceiveProposerState(proposer[p], trim, max),
                         preexec_window[p], retries[p])
  /\ UNCHANGED preexec_window

-----------------------------------------------------------------------------
(* evproposer_try_higher_ballot: a backoff is over.  The prepare is sent   *)
(* if its instance is pending, at whatever ballot that is by now.          *)
TryHigherBallot(p) ==
  /\ \E prepare \in retries[p] :
       IF Pending(proposer[p], prepare.iid)
       THEN Become(p, proposer[p], {prepare}, retries[p] \ {prepare})
       ELSE BecomeAndPreexecute(p, proposer[p], preexec_window[p], retries[p] \ {prepare})
  /\ UNCHANGED preexec_window

(* Resend the requests of the instances in late that lack a quorum.        *)
CheckTimeouts(p, late) ==
  LET s == proposer[p]
      Waiting(phase) == {i \in late : phase[i] # NULL /\ ~ QuorumReached(phase[i])}
  IN /\ Become(p, s,
               {PrepareMsg(i, s.prepare_phase[i].ballot) : i \in Waiting(s.prepare_phase)}
               \cup {AcceptMsg(i, s.accept_phase[i].ballot, s.accept_phase[i].proposing_value) :
                       i \in Waiting(s.accept_phase)},
               retries[p])
     /\ UNCHANGED preexec_window

TryAcceptEvent(p) ==
  /\ BecomeAndTryAccept(p, proposer[p])
  /\ UNCHANGED preexec_window

CheckAcceptorTimeouts(p) ==
  /\ preexec_window' = [preexec_window EXCEPT ![p] = PreexecWindowMin]
  /\ UNCHANGED <<proposer, retries, msgs>>

(* The first event of the loop.  It runs once; later on the action is a    *)
(* HandleTrim with nothing to trim.                                        *)
PreexecOnce(p) ==
  /\ BecomeAndPreexecute(p, proposer[p], preexec_window[p], retries[p])
  /\ UNCHANGED preexec_window

(* noop_timeout_us pass after noop_began_wait.                             *)
NoopTimeout(p) ==
  /\ proposer[p].manager.noop = "waiting"
  /\ proposer' = [proposer EXCEPT ![p].manager.noop = "over"]
  /\ UNCHANGED <<preexec_window, retries, msgs>>
=============================================================================
