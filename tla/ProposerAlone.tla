---------------------------- MODULE ProposerAlone ----------------------------
(***************************************************************************)
(* Standard proposers among peers that are left open: acceptors answer any *)
(* request that was sent, other proposers preempt it or get a value chosen *)
(* first, and learners, acceptors and proposers pass on what is decided,   *)
(* late and in any order.  The peers keep to the protocol: an instance is  *)
(* decided once, and only decided instances are trimmed.                   *)
(***************************************************************************)
EXTENDS EvProposer

CONSTANTS
  Foreign,        \* a value of another proposer
  ForeignId       \* that proposer

ASSUME PeersAssumption == Foreign \notin Values \cup {NULL, NOP} /\ ForeignId \in Nat \ Proposers

VARIABLES
  submitted,      \* client values handed to a proposer
  decided         \* what is chosen in each instance, known to p or not

vars == <<propVars, msgs, submitted, decided>>

Sent(t) == {m \in msgs : m.type = t}

(* A message that is dropped changes nothing: such steps are left to       *)
(* stuttering.                                                             *)
Changes == vars' # vars

Init ==
  /\ PropInit /\ msgs = {} /\ submitted = {}
  /\ decided = [i \in Instances |-> NULL]

ForeignBallot(n) == [number |-> n, proposer_id |-> ForeignId]

DecidedInstances == {i \in Instances : decided[i] # NULL}

(* What p may be told it can trim or has been chosen.  All that p already  *)
(* knows has the effect of 0.                                              *)
Trims(p) ==
  {0} \cup {t \in Instances : /\ t > proposer[p].trim_instance
                             /\ \A i \in Instances : i <= t => decided[i] # NULL}

MaxChosens(p) == {0} \cup {i \in DecidedInstances : i > proposer[p].max_chosen_instance}

-----------------------------------------------------------------------------
(* A peer gets its own value, or one of p's it adopted, chosen.            *)
DecideElsewhere ==
  /\ \E i \in Instances :
       /\ decided[i] = NULL
       /\ \E v \in {Foreign} \cup {m.value : m \in {n \in Sent("ACCEPT") : n.iid = i}} :
            decided' = [decided EXCEPT ![i] = v]
  /\ UNCHANGED <<propVars, msgs, submitted>>

Submit(p) ==
  \E v \in Values \ submitted :
    /\ HandleClientValue(p, v)
    /\ submitted' = submitted \cup {v}
    /\ UNCHANGED decided

(* A promise, with or without a vote below its ballot.                     *)
Promised(p) ==
  /\ \E m \in Sent("PREPARE"), a \in Acceptors :
       \/ HandlePromise(p, [iid |-> m.iid, aid |-> a, ballot |-> m.ballot,
                            value_ballot |-> INVALID_BALLOT, value |-> NULL])
       \/ HandlePromise(p, [iid |-> m.iid, aid |-> a, ballot |-> m.ballot,
                            value_ballot |-> ForeignBallot(m.ballot.number - 1),
                            value |-> Foreign]) /\ m.ballot.number > 1
  /\ UNCHANGED <<submitted, decided>>
  /\ Changes

(* The vote of a that completes a quorum decides the instance.             *)
Accepted(p) ==
  \E m \in Sent("ACCEPT"), a \in Acceptors :
    LET ack == [iid |-> m.iid, aid |-> a, ballot |-> m.ballot, value |-> m.value] IN
    /\ decided[m.iid] \in {NULL, m.value}
    /\ HandleAccepted(p, ack)
    /\ decided' = IF AcceptQuorum(proposer[p], ack)
                  THEN [decided EXCEPT ![m.iid] = m.value] ELSE decided
    /\ UNCHANGED submitted
    /\ Changes

Preempted(p) ==
  /\ \E m \in Sent("PREPARE") \cup Sent("ACCEPT") :
       HandlePreempted(p, [iid |-> m.iid, attempted_ballot |-> m.ballot,
                           acceptor_current_ballot |-> ForeignBallot(m.ballot.number)])
  /\ UNCHANGED <<submitted, decided>>
  /\ Changes

Told(p) ==
  /\ \/ \E i \in DecidedInstances : HandleChosen(p, [iid |-> i, value |-> decided[i]])
     \/ \E t \in Trims(p) : HandleTrim(p, t)
     \/ \E t \in Trims(p) : HandleAcceptorState(p, t)
     \/ \E t \in Trims(p), max \in MaxChosens(p) : HandleProposerState(p, t, max)
  /\ UNCHANGED <<submitted, decided>>
  /\ Changes

Timer(p) ==
  /\ \/ TryHigherBallot(p)
     \/ \E late \in SUBSET Instances : CheckTimeouts(p, late)
     \/ TryAcceptEvent(p)
     \/ CheckAcceptorTimeouts(p)
     \/ PreexecOnce(p)
     \/ NoopTimeout(p)
  /\ UNCHANGED <<submitted, decided>>
  /\ Changes

Next ==
  \/ DecideElsewhere
  \/ \E p \in Proposers : \/ Submit(p) \/ Promised(p) \/ Accepted(p)
                          \/ Preempted(p) \/ Told(p) \/ Timer(p)

Spec == Init /\ [][Next]_vars

-----------------------------------------------------------------------------
(* A client value is kept until it is decided: whatever preemptions, trims *)
(* and choices of other values its instance meets, it stays in one of the  *)
(* two queues of value_proposal_manager.c.                                 *)
NoValueLost ==
  \A v \in submitted :
    \/ \E p \in Proposers : Outstanding(proposer[p].manager, v)
    \/ \E i \in Instances : decided[i] = v

(* The client value is proposed in an instance in which a reported vote    *)
(* was adopted at a lower ballot: last_accepted_ballot is still that of    *)
(* the vote (standard_proposer.c:669).                                     *)
OverStaleBallot(v) ==
  \E m, n \in Sent("ACCEPT") : /\ m.iid = n.iid /\ ballot_greater_than(n.ballot, m.ballot)
                               /\ m.value = Foreign /\ n.value = v

(* A value that left the queue of values to propose is being proposed or   *)
(* was proposed over a stale ballot: each other way to lose an instance,   *)
(* by a preemption, a trim, a choice the proposer hears of, in whatever    *)
(* order they come, gives the value back (instance_should_requeue_value).  *)
NoValueStranded ==
  \A p \in Proposers, v \in Values :
    /\ InQueue(proposer[p].manager.values_proposed, v)
    /\ ~ InQueue(proposer[p].manager.client_values_to_propose, v)
    => \/ \E i \in Accepting(proposer[p]) : proposer[p].accept_phase[i].proposing_value = v
       \/ OverStaleBallot(v)

(* A ballot carries one value, also across preemption, retry and trim.     *)
OneValuePerBallot ==
  \A m, n \in Sent("ACCEPT") : m.iid = n.iid /\ m.ballot = n.ballot => m.value = n.value
=============================================================================
