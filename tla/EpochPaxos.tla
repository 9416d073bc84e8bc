----------------------------- MODULE EpochPaxos -----------------------------
(***************************************************************************)
(* Epoch proposers, epoch acceptors and a learner exchanging messages.     *)
(*                                                                         *)
(* The timers of the acceptors and proposers that send their state are not *)
(* actions: the state is handled as it is at that moment, an older one has *)
(* lower numbers and says nothing more.                                    *)
(***************************************************************************)
EXTENDS EvEpochProposer, EpochAcceptor, SequencesExt

CONSTANTS
  ClientOf,    \* the proposer each client value is submitted to
  Late,        \* the client values submitted when the proposers are running
  Chunks       \* paxos_config.lnr_missing_chunks_before_repeats

ASSUME EpochCompositionAssumption == 
  /\ ClientOf \in [Values -> Proposers]
  /\ Late \subseteq Values
  /\ Chunks \in Nat

VARIABLES
  learner,     \* struct epoch_learner
  delivered,   \* what the learner delivered
  unsent,      \* the client values not submitted yet
  ignored,     \* history: a promised value was dropped for a stale ballot
  resumed      \* history: <<p, i>> an epoch preemption left p at its epoch ballot

L == INSTANCE EvEpochLearner

lnrVars == <<learner, delivered>>
histVars == <<ignored, resumed>>
vars == <<propVars, accVars, lnrVars, unsent, histVars, msgs>>

Sent(t) == {m \in msgs : m.type = t}

(* A message that is dropped changes nothing: such steps are left to       *)
(* stuttering.                                                             *)
Changes == vars' # vars

(* A proposer with its client values queued and its window opened.         *)
Opened(p, draw) ==
  LET queued == [NewProposer EXCEPT !.manager =
                   FoldLeft(Enqueue, @, SetToSeq({v \in Values \ Late : ClientOf[v] = p}))]
  IN  TryBeginNewInstances(queued, PreexecWindowMax, EmptySkipList, draw)

Init ==
  /\ \E draw \in [Proposers -> UNION {Draws(p) : p \in Proposers}] :
       /\ \A p \in Proposers : draw[p] \in Draws(p)
       /\ proposer = [p \in Proposers |-> Opened(p, draw[p]).s]
       /\ retries = [p \in Proposers |-> Opened(p, draw[p]).timers]
       /\ msgs = UNION {Opened(p, draw[p]).out : p \in Proposers}
  /\ max_num_open_instances = [p \in Proposers |-> PreexecWindowMax]
  /\ skipping = [p \in Proposers |-> EmptySkipList]
  /\ crashed = {}
  /\ AccInit
  /\ L!LnrInit
  /\ unsent = Late
  /\ ignored = FALSE /\ resumed = {}

-----------------------------------------------------------------------------
(* Nobody looks at who sent a CHOSEN, a TRIM or a PREEMPTED.               *)
Unsigned(out) ==
  {IF m.type \in {"CHOSEN", "REPEATED_CHOSEN", "TRIM", "PREEMPTED"}
   THEN [m EXCEPT !.aid = NULL] ELSE m : m \in out}

Answers(out) == msgs' = msgs \cup Unsigned(out)

(* A CHOSEN that answers a REPEAT goes to the learner, the others do not,  *)
(* unless it shares its connections with a proposer (evpaxos/evreplica.c). *)
Repeated(out) ==
  {IF m.type = "CHOSEN" THEN [m EXCEPT !.type = "REPEATED_CHOSEN"] ELSE m : m \in out}

(* The requests of the two phases, and restarts.                           *)
VotingStep(a) ==
  /\ \/ \E m \in Sent("PREPARE") :
          ReceivePrepare(a, m.iid, m.ballot) /\ Answers(PrepareReply(a, m.iid, m.ballot))
     \/ \E m \in Sent("EPOCH_PREPARE"), st \in StorageOutcomes :
          /\ ReceiveEpochBallotPrepare(a, m.iid, m.epoch_ballot, st)
          /\ Answers(EpochPrepareReply(a, m.iid, m.epoch_ballot, st))
     \/ \E m \in Sent("ACCEPT"), st \in StorageOutcomes :
          /\ ReceiveEpochBallotAccept(a, m.iid, m.epoch_ballot, m.value, st)
          /\ Answers(EpochAcceptReply(a, m.iid, m.epoch_ballot, m.value))
     \/ \E stray \in [Instances -> StrayBallots], st \in StorageOutcomes :
          Restart(a, stray, st) /\ UNCHANGED msgs
  /\ UNCHANGED <<propVars, lnrVars, unsent, histVars>>
  /\ Changes

(* What the learner sends the acceptors.                                   *)
InformedStep(a) ==
  /\ \/ \E m \in Sent("CHOSEN") :
          ReceiveChosen(a, m.iid, m.epoch_ballot, m.value) /\ UNCHANGED msgs
     \/ \E m \in Sent("TRIM") : ReceiveTrim(a, m.iid) /\ UNCHANGED msgs
     \/ \E m \in Sent("REPEAT") :
          /\ Answers(Repeated(UNION {RepeatReply(a, i) : i \in Instances \cap (m.from .. m.to)}))
          /\ UNCHANGED accVars
  /\ UNCHANGED <<propVars, lnrVars, unsent, histVars>>
  /\ Changes

LearnerStep ==
  /\ \E m \in Sent("ACCEPTED") : L!HandleAccepted(m)
  /\ UNCHANGED <<propVars, accVars, unsent, histVars>>
  /\ Changes

LearnerCatchUpStep ==
  /\ L!CheckHoles \/ \E m \in Sent("REPEATED_CHOSEN") : L!HandleChosen(m)
  /\ UNCHANGED <<propVars, accVars, unsent, histVars>>
  /\ Changes

(* What a learner that shares the connections of a proposer gets as well.  *)
LearnerOverhears ==
  /\ \/ \E m \in Sent("CHOSEN") : L!HandleChosen(m)
     \/ \E m \in Sent("TRIM") : L!HandleTrim(m.iid)
  /\ UNCHANGED <<propVars, accVars, unsent, histVars>>
  /\ Changes

(* The promise reports a vote, no value is held, and the vote is dropped   *)
(* because it is not above the epoch ballot left from an earlier attempt.  *)
IgnoresVote(p, m) ==
  LET inst == proposer[p].prepare_phase[m.iid] IN
  /\ ~ PromiseIgnored(proposer[p], m)
  /\ m.value # NULL /\ inst.last_accepted_value = NULL
  /\ ~ epoch_ballot_greater_than(m.last_accepted, inst.last_accepted)

PromiseStep(p) ==
  \E m \in Sent("PROMISE") :
    /\ HandlePromise(p, m)
    /\ ignored' = (ignored \/ IgnoresVote(p, m))
    /\ UNCHANGED <<accVars, lnrVars, unsent, resumed>>
    /\ Changes

PreemptedStep(p) ==
  \E m \in Sent("PREEMPTED") :
    /\ HandlePreempted(p, m)
    /\ LET entry == PreemptedEntry(proposer[p], m) IN
       resumed' = IF EpochPreempted(entry, m) /\ ~ BallotPreempted(entry, m)
                  THEN resumed \cup {<<p, m.iid>>} ELSE resumed
    /\ UNCHANGED <<accVars, lnrVars, unsent, ignored>>
    /\ Changes

(* writeahead_epoch_paxos_peers_connect_to_other_proposers leaves out the  *)
(* own id only when it is above 0: proposer 0 hears itself as well.        *)
Heard(p) == IF p > 0 THEN Proposers \ {p} ELSE Proposers

ProposingStep(p) ==
  /\ \/ \E m \in Sent("ACCEPTED") : HandleAccepted(p, m)
     \/ TryHigherBallot(p)
     \/ TryAcceptEvent(p)
     \/ \E q \in Heard(p) :
          HandleProposerState(p, proposer[q].known_highest_epoch, proposer[q].trim_instance,
                              proposer[q].max_chosen_instance)
  /\ UNCHANGED <<accVars, lnrVars, unsent, histVars>>
  /\ Changes

(* What a learner tells a proposer, and the wait before a NOP.             *)
FollowingStep(p) ==
  /\ \/ \E m \in Sent("CHOSEN") : HandleChosen(p, m)
     \/ \E m \in Sent("TRIM") : HandleTrim(p, m.iid)
     \/ NoopTimeout(p)
  /\ UNCHANGED <<accVars, lnrVars, unsent, histVars>>
  /\ Changes

(* What acceptors tell it of their state, and the timers for late answers. *)
KeepUpStep(p) ==
  /\ \/ \E a \in Acceptors :
          \/ HandleAcceptorState(p, current_epoch[a], trim_instance[a])
          \/ HandleEpochNotification(p, current_epoch[a])
     \/ CheckAcceptorTimeouts(p)
     \/ \E late \in SUBSET Instances : CheckTimeouts(p, late)
  /\ UNCHANGED <<accVars, lnrVars, unsent, histVars>>
  /\ Changes

Submit(v) ==
  /\ v \in unsent
  /\ unsent' = unsent \ {v}
  /\ HandleClientValue(ClientOf[v], v)
  /\ UNCHANGED <<accVars, lnrVars, histVars>>

(* Proposers and acceptors; the learner counts and tells nobody.           *)
VoteNext ==
  \/ LearnerStep
  \/ \E a \in Acceptors : VotingStep(a)
  \/ \E p \in Proposers : PromiseStep(p) \/ PreemptedStep(p) \/ ProposingStep(p)

Next ==
  \/ VoteNext
  \/ LearnerCatchUpStep \/ LearnerOverhears
  \/ \E a \in Acceptors : InformedStep(a)
  \/ \E p \in Proposers : FollowingStep(p) \/ KeepUpStep(p)
  \/ \E v \in Values : Submit(v)

VoteSpec == Init /\ [][VoteNext]_vars

Spec == Init /\ [][Next]_vars

(* No message is lost while the processes run, every event loop gets to    *)
(* the messages that arrived, and its periodic timers fire.                *)
Fairness ==
  /\ \A a \in Acceptors : WF_vars(VotingStep(a))
  /\ \A p \in Proposers :
       WF_vars(PromiseStep(p)) /\ WF_vars(ProposingStep(p)) /\ WF_vars(FollowingStep(p))
  /\ WF_vars(LearnerStep) /\ WF_vars(LearnerCatchUpStep)

FairSpec == Spec /\ Fairness

-----------------------------------------------------------------------------
AcceptedBy(i, eb, v) == {m.aid : m \in {n \in Sent("ACCEPTED") :
                                         n.iid = i /\ n.epoch_ballot = eb /\ n.value = v}}

ChosenAt(i, eb, v) == Cardinality(AcceptedBy(i, eb, v)) >= q2

Decided(i) == {n.value : n \in {m \in Sent("ACCEPTED") : m.iid = i
                                          /\ ChosenAt(m.iid, m.epoch_ballot, m.value)}}

(* The epoch acceptors never choose two values in an instance.             *)
ConsensusOK == \A i \in Instances : Cardinality(Decided(i)) <= 1

(* The ACCEPT messages of an epoch ballot in an instance carry one value,  *)
(* whatever epoch_proposer_try_accept is called with.                      *)
OneValuePerBallot ==
  \A m, n \in Sent("ACCEPT") :
    m.iid = n.iid /\ m.epoch_ballot = n.epoch_ballot => m.value = n.value

(* The instances a late starting learner left out.                         *)
Skipped == 1 .. (learner.current_min_instance_to_execute - Len(delivered) - 1)

(* An instance the epoch proposer holds for closed, by its own count, a    *)
(* CHOSEN or a TRIM, was decided.                                          *)
ClosedIsDecided ==
  \A p \in Proposers, i \in Instances \ Skipped :
    i \in proposer[p].chosens \/ i <= proposer[p].trim_instance => Decided(i) # {}

(* What epoch_learner_deliver_next hands out was chosen.                   *)
DeliveredIsChosen ==
  \A k \in 1 .. Len(delivered) : delivered[k].value \in Decided(delivered[k].iid)

(* No epoch acceptor has trimmed an instance the learner still waits for:  *)
(* the learner could never be told of it again.                            *)
TrimmedIsDelivered ==
  \A a \in Acceptors : trim_instance[a] < learner.current_min_instance_to_execute

(* A submitted client value reaches the application, unless the learner    *)
(* started behind it: no window, queue, hole or trim holds it up for good. *)
ValuesDelivered ==
  \A v \in Values :
    v \notin unsent ~> Skipped # {} \/ \E k \in 1 .. Len(delivered) : delivered[k].value = v

DecidedEntries == UNION {{[iid |-> i, value |-> v] : v \in Decided(i)} : i \in Instances}

Log == INSTANCE ReplicatedLog WITH decided <- DecidedEntries, log <- delivered,
                                   Values <- Values \cup {NOP, GARBAGE}

(* Proposers, acceptors and the learner together are a replicated log: the *)
(* application gets the decided values, each once, in order, without gap.  *)
ImplementsLog == Log!Spec

(* What the safety of the protocol rests on and the code does not keep:    *)
(* acceptors remember every promise and vote their answers depend on and   *)
(* answer nothing below their epoch; a proposer drops no reported vote and *)
(* does not go back to phase 1 at the epoch ballot it already proposed a   *)
(* value for.  Once gone it is gone.                                       *)
Sound ==
  /\ \A a \in Acceptors :
       ~ unsynced[a] /\ below[a] \cup unstored[a] \cup wiped[a] \cup forgotten[a] = {}
  /\ ~ ignored
  /\ resumed = {}

(* No two values are chosen in an instance while nothing was forgotten,    *)
(* dropped or resumed.                                                     *)
AgreementIfSound == Sound => ConsensusOK

(* Until then an epoch ballot carries one value in an instance: promises   *)
(* that come late or twice do not make a proposer ask again.               *)
OneValueIfSound == Sound => OneValuePerBallot

(* Until then a proposer closes decided instances only: the count of       *)
(* acceptances belongs to the epoch ballot it is taken for.                *)
ClosedIfSound == Sound => ClosedIsDecided

(* Until then the learner delivers chosen values only: acceptances that    *)
(* come in any order are counted by epoch ballot.                          *)
DeliveredIfSound == Sound => DeliveredIsChosen
=============================================================================
