---------------------------- MODULE StandardPaxos ----------------------------
(***************************************************************************)
(* Standard proposers and standard acceptors exchanging messages, with the *)
(* learners reduced to what the others see of them: a CHOSEN broadcast for *)
(* a value that q2 acceptors accepted at one ballot                        *)
(* (evpaxos/evlearner.c).                                                  *)
(*                                                                         *)
(* The timers that only send again what was sent, or may be sent, at any   *)
(* time (CheckTimeouts, the exchange of proposer and acceptor states) add  *)
(* no message here and are left to module ProposerAlone.                   *)
(***************************************************************************)
EXTENDS EvProposer, StandardAcceptor

CONSTANTS
  Submitted,   \* the client values each proposer was handed, in order
  Announced    \* bound: the instances whose choice learners announce

(* A quorum of phase 2 meets every quorum a phase 1 may wait for: q1, and  *)
(* q2 once the instance has been preempted in phase 2.                     *)
ASSUME CompositionAssumption ==
  /\ Submitted \in [Proposers -> Seq(Values)]
  /\ Announced \subseteq Instances
  /\ IsFiniteSet(Acceptors)
  /\ q1 + q2 > Cardinality(Acceptors)
  /\ q2 + q2 > Cardinality(Acceptors)

VARIABLES
  ignored      \* history: a promised value was dropped for a stale ballot

vars == <<propVars, accVars, msgs, ignored>>

Sent(t) == {m \in msgs : m.type = t}

(* A message that is dropped changes nothing: such steps are left to       *)
(* stuttering.                                                             *)
Changes == vars' # vars

(* A proposer with its client values queued and its window opened.         *)
Opened(p, draw) ==
  LET queued == [NewProposer EXCEPT !.manager.client_values_to_propose = Submitted[p]]
  IN  Preexecute(p, queued, PreexecWindowMax, draw)

(* The proposers have their client values and have run their first event.  *)
Init ==
  /\ \E draw \in [Proposers -> UNION {Draws(p) : p \in Proposers}] :
       /\ \A p \in Proposers : draw[p] \in Draws(p)
       /\ proposer = [p \in Proposers |-> Opened(p, draw[p]).s]
       /\ retries = [p \in Proposers |-> Opened(p, draw[p]).delayed]
       /\ msgs = UNION {Opened(p, draw[p]).out : p \in Proposers}
  /\ preexec_window = [p \in Proposers |-> PreexecWindowMax]
  /\ AccInit
  /\ ignored = FALSE

-----------------------------------------------------------------------------
(* Nobody looks at who sent a CHOSEN, a TRIM or a PREEMPTED.               *)
Unsigned(out) ==
  {IF m.type \in {"CHOSEN", "TRIM", "PREEMPTED"} THEN [m EXCEPT !.aid = NULL] ELSE m : m \in out}

AcceptedBy(i, b, v) == {m.aid : m \in {n \in Sent("ACCEPTED") :
                                        n.iid = i /\ n.ballot = b /\ n.value = v}}

(* q2 acceptors accepted v at ballot b: what learner.c delivers.           *)
ChosenAt(i, b, v) == Cardinality(AcceptedBy(i, b, v)) >= q2

LearnerChosen ==
  /\ \E n \in Sent("ACCEPTED") :
       /\ n.iid \in Announced
       /\ ChosenAt(n.iid, n.ballot, n.value)
       /\ msgs' = msgs \cup {[type |-> "CHOSEN", aid |-> NULL, iid |-> n.iid,
                              ballot |-> n.ballot, value |-> n.value]}
  /\ UNCHANGED <<propVars, accVars, ignored>>
  /\ Changes

(* evacceptor_handle_prepare, _accept and _chosen.                         *)
AcceptorStep(a) ==
  /\ \/ \E m \in Sent("PREPARE"), st \in StorageOutcomes :
          /\ ReceivePrepare(a, m.iid, m.ballot, st)
          /\ msgs' = msgs \cup Unsigned(PrepareReply(a, m.iid, m.ballot, st))
     \/ \E m \in Sent("ACCEPT"), st \in StorageOutcomes :
          /\ ReceiveAccept(a, m.iid, m.ballot, m.value, st)
          /\ msgs' = msgs \cup Unsigned(AcceptReply(a, m.iid, m.ballot, m.value, st))
     \/ \E m \in Sent("CHOSEN") :
          ReceiveChosen(a, m.iid, m.ballot, m.value) /\ UNCHANGED msgs
     \/ Restart(a) /\ UNCHANGED msgs
  /\ UNCHANGED <<propVars, ignored>>
  /\ Changes

(* The promise reports a vote, no value is held, and the vote is dropped   *)
(* because it is not above the ballot left from an earlier attempt.        *)
IgnoresVote(p, m) ==
  LET inst == proposer[p].prepare_phase[m.iid] IN
  /\ ReceivePromise(proposer[p], m) # proposer[p]
  /\ m.value # NULL /\ inst.last_accepted_value = NULL
  /\ ~ ballot_greater_than(m.value_ballot, inst.last_accepted_ballot)

PromiseStep(p) ==
  \E m \in Sent("PROMISE") :
    /\ HandlePromise(p, m)
    /\ ignored' = (ignored \/ IgnoresVote(p, m))
    /\ UNCHANGED accVars
    /\ Changes

ProposerStep(p) ==
  /\ \/ \E m \in Sent("ACCEPTED") : HandleAccepted(p, m)
     \/ \E m \in Sent("CHOSEN") : HandleChosen(p, m)
     \/ \E m \in Sent("PREEMPTED") : HandlePreempted(p, m)
     \/ \E m \in Sent("TRIM") : HandleTrim(p, m.iid)
     \/ TryHigherBallot(p)
     \/ TryAcceptEvent(p)
  /\ UNCHANGED <<accVars, ignored>>
  /\ Changes

Next ==
  \/ LearnerChosen
  \/ \E a \in Acceptors : AcceptorStep(a)
  \/ \E p \in Proposers : PromiseStep(p) \/ ProposerStep(p)

Spec == Init /\ [][Next]_vars

-----------------------------------------------------------------------------
Decided(i) == {n.value : n \in {m \in Sent("ACCEPTED") : m.iid = i
                                                /\ ChosenAt(m.iid, m.ballot, m.value)}}

(* No two values are ever chosen in an instance.                           *)
ConsensusOK == \A i \in Instances : Cardinality(Decided(i)) <= 1

(* Agreement as long as no proposer dropped a reported vote because of the *)
(* ballot a preempted attempt left behind, in the instances no acceptor    *)
(* lost a record of to an early trim or a failed commit.                   *)
AgreementUnlessIgnored ==
  ~ ignored => \A i \in Instances :
                 (\A a \in Acceptors : i \in Intact(a)) => Cardinality(Decided(i)) <= 1

(* An instance a proposer closed has a chosen value.                       *)
ClosedIsDecided ==
  \A p \in Proposers, i \in Instances :
    i \in proposer[p].chosens \/ i <= proposer[p].trim_instance => Decided(i) # {}
=============================================================================
