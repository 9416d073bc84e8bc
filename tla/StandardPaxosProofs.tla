------------------------- MODULE StandardPaxosProofs -------------------------
(***************************************************************************)
(* Agreement of the composed standard Paxos for every set of proposers,    *)
(* acceptors, instances and values, every bound on ballots and every pair  *)
(* of quorum sizes that intersect.                                         *)
(*                                                                         *)
(* The acceptors' half is module EvStandardAcceptorProofs, instantiated    *)
(* with the messages of the composition as what the acceptors were told    *)
(* and what they said.  What the messages say, and that every step leaves  *)
(* it true, is module StandardPaxosSteps.                                  *)
(***************************************************************************)
EXTENDS StandardPaxosSteps

A == INSTANCE EvStandardAcceptorProofs WITH
       Values <- Proposable, Ballots <- UsedBallots,
       PrepareRequests <- Instances \X UsedBallots,
       AcceptRequests <- Instances \X UsedBallots \X Proposable,
       ChosenNotices <- Instances \X UsedBallots \X Proposable,
       promises <- Sent("PROMISE"), votes <- Sent("ACCEPTED"), told <- Told

IInv == PInv /\ A!IInv

-----------------------------------------------------------------------------
(* What the acceptors' half assumes of its constants.                      *)
LEMMA Assumptions ==
  /\ {"committed", "not_stored"} \subseteq StorageOutcomes
  /\ StorageOutcomes \subseteq {"committed", "not_stored", "commit_failed"}
  /\ Instances \subseteq 1 .. (IidModulus - 1)
  /\ IidModulus \in Nat
  /\ TrimBacklog \in 0 .. (IidModulus - 1)
  /\ NULL \notin Proposable
  /\ UsedBallots \subseteq A!Ballot \ {A!INVALID_BALLOT}
  /\ Instances \X UsedBallots \subseteq Instances \X UsedBallots
  /\ Instances \X UsedBallots \X Proposable \subseteq Instances \X UsedBallots \X Proposable
<1>1. NULL \notin Proposable
  BY Zenon, ProposerAssumption DEF Proposable
<1>2. UsedBallots \subseteq A!Ballot \ {A!INVALID_BALLOT}
  BY DEF UsedBallots, A!Ballot, A!INVALID_BALLOT, Ballot
<1> QED  BY Zenon, <1>1, <1>2, AcceptorAssumption

(* What the acceptors' half calls by the same names.                       *)
LEMMA SameNames ==
  /\ \A b, c : A!geq(b, c) <=> geq(b, c)
  /\ \A b, c : A!ballot_greater_than(b, c) <=> ballot_greater_than(b, c)
  /\ A!Ballot = Ballot /\ A!INVALID_BALLOT = INVALID_BALLOT /\ A!EmptyInfo = EmptyInfo
  /\ \A a, i : A!Settled(a, i) <=> Settled(a, i)
  /\ \A a, i, b : A!SafeToAcknowledge(a, i, b) <=> SafeToAcknowledge(a, i, b)
  /\ \A a, i, b, v : A!AcceptedMsg(a, i, b, v) = AcceptedMsg(a, i, b, v)
  /\ \A a : A!Intact(a) = Intact(a)
  /\ A!InstanceInfo = StoredInfo
  /\ \A a, i, b : A!PromiseMsg(a, i, b) = Promised(a, i, b)
<1>1. \A b, c : A!geq(b, c) <=> geq(b, c)
  BY Zenon DEF A!geq, geq, A!ballot_greater_than_or_equal, ballot_greater_than_or_equal
<1>2. \A b, c : A!ballot_greater_than(b, c) <=> ballot_greater_than(b, c)
  BY Zenon DEF A!ballot_greater_than, ballot_greater_than
<1>3. A!Ballot = Ballot /\ A!INVALID_BALLOT = INVALID_BALLOT
  BY Zenon DEF A!Ballot, Ballot, A!INVALID_BALLOT, INVALID_BALLOT
<1>4. A!EmptyInfo = EmptyInfo
  BY Zenon, <1>3 DEF A!EmptyInfo, EmptyInfo
<1>5. \A a, i : A!Settled(a, i) <=> Settled(a, i)
  BY Zenon DEF A!Settled, Settled
<1>6. \A a, i, b : A!SafeToAcknowledge(a, i, b) <=> SafeToAcknowledge(a, i, b)
  BY Zenon DEF A!SafeToAcknowledge, SafeToAcknowledge, A!Found, Found, A!ballot_greater_than,
     ballot_greater_than, A!ballot_greater_than_or_equal, ballot_greater_than_or_equal,
     A!INVALID_BALLOT, INVALID_BALLOT
<1>7. \A a, i, b, v : A!AcceptedMsg(a, i, b, v) = AcceptedMsg(a, i, b, v)
  BY Zenon DEF A!AcceptedMsg, AcceptedMsg
<1>8. \A a : A!Intact(a) = Intact(a)
  BY Zenon DEF A!Intact, Intact
<1>9. A!InstanceInfo = StoredInfo
  BY Zenon, <1>3 DEF A!InstanceInfo, StoredInfo
<1>10. \A a, i, b : A!PromiseMsg(a, i, b) = Promised(a, i, b)
  BY Zenon, <1>2, <1>3 DEF A!PromiseMsg, Promised
<1> QED  BY Zenon, <1>1, <1>2, <1>3, <1>4, <1>5, <1>6, <1>7, <1>8, <1>9, <1>10

(* The stores of the composition are those of the acceptors' half.         *)
LEMMA SameStores ==
  ASSUME NEW a, NEW i, NEW b, NEW v, NEW st
  PROVE  /\ ReceivePrepare(a, i, b, st) => A!ReceivePrepare(a, i, b, st)
         /\ ReceiveAccept(a, i, b, v, st) => A!ReceiveAccept(a, i, b, v, st)
<1>1. UNCHANGED accVars => UNCHANGED A!accVars
  BY Zenon DEF accVars, A!accVars
<1>2. \A r : StoreInstanceInfo(a, i, r, st) => A!StoreInstanceInfo(a, i, r, st)
  BY Zenon DEF StoreInstanceInfo, A!StoreInstanceInfo
<1>3. ReceivePrepare(a, i, b, st) => A!ReceivePrepare(a, i, b, st)
  BY Zenon, <1>1, <1>2, SameNames DEF ReceivePrepare, A!ReceivePrepare
<1>4. ReceiveAccept(a, i, b, v, st) => A!ReceiveAccept(a, i, b, v, st)
  BY Zenon, <1>1, <1>2, SameNames DEF ReceiveAccept, A!ReceiveAccept
<1> QED  BY Zenon, <1>3, <1>4

(* A CHOSEN or a restart in the acceptors' half is the one of the          *)
(* composition.                                                            *)
LEMMA SameChosen ==
  ASSUME NEW a, NEW i, NEW b, NEW v
  PROVE  /\ ReceiveChosen(a, i, b, v) => A!ReceiveChosen(a, i, b, v)
         /\ Restart(a) => A!Restart(a)
<1>1. UNCHANGED accVars => UNCHANGED A!accVars
  BY Zenon DEF accVars, A!accVars
<1>2. \A k, m, c : TrimTo(a, k, m, c) => A!TrimTo(a, k, m, c)
  BY Zenon DEF TrimTo, A!TrimTo, ToTrimFrom, A!ToTrimFrom, EmptyInfo, A!EmptyInfo,
     INVALID_BALLOT, A!INVALID_BALLOT
<1>3. \A k, c : A!AdvanceMinChosen(k, c, i) = AdvanceMinChosen(k, c, i)
  BY Zenon DEF AdvanceMinChosen, A!AdvanceMinChosen
<1>4. ReceiveChosen(a, i, b, v) => A!ReceiveChosen(a, i, b, v)
  BY Zenon, <1>1, <1>2, <1>3 DEF ReceiveChosen, A!ReceiveChosen
<1>5. Restart(a) => A!Restart(a)
  BY Zenon DEF Restart, A!Restart
<1> QED  BY Zenon, <1>4, <1>5

(* What the steps use of the acceptors is part of their invariant.         *)
LEMMA StoresOK ==
  ASSUME IInv
  PROVE  PInv /\ AccOK /\ A!IInv
<1>1. PInv /\ A!IInv
  BY Zenon DEF IInv
<1>2. /\ mem \in [Acceptors -> [Instances -> StoredInfo]]
      /\ disk \in [Acceptors -> [Instances -> StoredInfo]]
      /\ chosen \in [Acceptors -> SUBSET Instances] /\ trim_iid \in [Acceptors -> Nat]
  BY Zenon, <1>1, SameNames DEF A!IInv, A!TypeOK, A!AccTypeOK
<1>3. \A a \in Acceptors, i \in Instances : i <= trim_iid[a] => \E t \in Told : t.iid = i
  BY Zenon, <1>1 DEF A!IInv, A!TrimInv
<1>4. \A a \in Acceptors, i \in Instances :
        i \notin chosen[a] => geq(mem[a][i].promise_ballot, mem[a][i].value_ballot)
  BY Zenon, <1>1, SameNames DEF A!IInv, A!RecordsInv, A!RecordInv
<1>5. \A a \in Acceptors : \A i \in chosen[a] :
        [aid |-> a, iid |-> i, ballot |-> mem[a][i].value_ballot,
         value |-> mem[a][i].value] \in Told
  BY Zenon, <1>1 DEF A!IInv, A!ChosenAnswerIsTold
<1> QED  BY Zenon, <1>1, <1>2, <1>3, <1>4, <1>5 DEF AccOK

(* A step the acceptors see nothing of.                                    *)
LEMMA UnseenKeeps ==
  ASSUME IInv, Kept
  PROVE  IInv'
<1>1. UNCHANGED A!vars
  BY Zenon DEF Kept, A!vars, A!accVars, accVars
<1>2. A!IInv'
  BY Zenon, <1>1, A!StutterKeepsIInv, Assumptions DEF IInv
<1> QED  BY Zenon, <1>2 DEF IInv, Kept

(* Handling a PREPARE.                                                     *)
LEMMA PrepareKeeps ==
  ASSUME IInv, NEW a \in Acceptors, NEW m \in Sent("PREPARE"), NEW st,
         ReceivePrepare(a, m.iid, m.ballot, st),
         msgs' = msgs \cup Unsigned(PrepareReply(a, m.iid, m.ballot, st)),
         UNCHANGED <<propVars, ignored>>
  PROVE  IInv'
<1> DEFINE i == m.iid
           b == m.ballot
<1>1. PInv' /\ PrepareSeen(a, i, b, st)
  BY Zenon, StoresOK, PrepareStepKeeps
<1>2. A!ReceivePrepare(a, i, b, st) /\ A!IInv
  BY Zenon, SameStores, StoresOK
<1> HIDE DEF i, b
<1>3. /\ i \in Instances /\ b \in UsedBallots
      /\ Told' = Told /\ Sent("ACCEPTED")' = Sent("ACCEPTED")
      /\ \/ Sent("PROMISE")' = Sent("PROMISE")
         \/ /\ ~ A!Settled(a, i) /\ A!SafeToAcknowledge(a, i, b) /\ st = "committed"
            /\ Sent("PROMISE")' = Sent("PROMISE") \cup {A!PromiseMsg(a, i, b)}
  BY Zenon, <1>1, SameNames DEF PrepareSeen
<1>4. A!IInv'
  BY Zenon, <1>2, <1>3, A!ReceivePrepareKeepsIInv, Assumptions
<1> QED  BY Zenon, <1>1, <1>4 DEF IInv

(* Handling an ACCEPT.                                                     *)
LEMMA AcceptKeeps ==
  ASSUME IInv, NEW a \in Acceptors, NEW m \in Sent("ACCEPT"), NEW st,
         ReceiveAccept(a, m.iid, m.ballot, m.value, st),
         msgs' = msgs \cup Unsigned(AcceptReply(a, m.iid, m.ballot, m.value, st)),
         UNCHANGED <<propVars, ignored>>
  PROVE  IInv'
<1> DEFINE i == m.iid
           b == m.ballot
           v == m.value
<1>1. PInv' /\ AcceptSeen(a, i, b, v, st)
  BY Zenon, StoresOK, AcceptStepKeeps
<1>2. A!ReceiveAccept(a, i, b, v, st) /\ A!IInv
  BY Zenon, SameStores, StoresOK
<1> HIDE DEF i, b, v
<1>3. /\ i \in Instances /\ b \in UsedBallots /\ v \in Proposable
      /\ Told' = Told /\ Sent("PROMISE")' = Sent("PROMISE")
      /\ \/ Sent("ACCEPTED")' = Sent("ACCEPTED")
         \/ /\ ~ A!Settled(a, i) /\ A!SafeToAcknowledge(a, i, b) /\ st = "committed"
            /\ Sent("ACCEPTED")' = Sent("ACCEPTED") \cup {A!AcceptedMsg(a, i, b, v)}
  BY Zenon, <1>1, SameNames DEF AcceptSeen
<1>4. A!IInv'
  BY Zenon, <1>2, <1>3, A!ReceiveAcceptKeepsIInv, Assumptions
<1> QED  BY Zenon, <1>1, <1>4 DEF IInv

(* Handling a CHOSEN.                                                      *)
LEMMA ChosenKeeps ==
  ASSUME IInv, NEW a \in Acceptors, NEW m \in Sent("CHOSEN"),
         ReceiveChosen(a, m.iid, m.ballot, m.value), msgs' = msgs,
         UNCHANGED <<propVars, ignored>>
  PROVE  IInv'
<1> DEFINE i == m.iid
           b == m.ballot
           v == m.value
           t == [aid |-> a, iid |-> i, ballot |-> b, value |-> v]
<1>1. /\ PInv' /\ NothingSent
      /\ i \in Instances /\ b \in UsedBallots /\ v \in Proposable /\ t \in Told
  BY Zenon, StoresOK, ChosenStepKeeps
<1>2. A!ReceiveChosen(a, i, b, v) /\ A!IInv
  BY Zenon, SameChosen, StoresOK
<1> HIDE DEF i, b, v
<1>3. Told' = Told \cup {t}
  BY Zenon, <1>1 DEF NothingSent
<1>4. A!HandleChosen(a, i, b, v)
  BY Zenon, <1>1, <1>2, <1>3 DEF A!HandleChosen, NothingSent
<1>5. A!IInv'
  BY Zenon, <1>1, <1>2, <1>4, A!ChosenKeepsIInv, Assumptions
<1> QED  BY Zenon, <1>1, <1>5 DEF IInv

(* A restart.                                                              *)
LEMMA RestartKeeps ==
  ASSUME IInv, NEW a \in Acceptors, Restart(a), msgs' = msgs, UNCHANGED <<propVars, ignored>>
  PROVE  IInv'
<1>1. PInv' /\ NothingSent /\ A!IInv
  BY Zenon, StoresOK, RestartStepKeeps
<1>2. A!RestartAcceptor(a)
  BY Zenon, <1>1, SameChosen DEF A!RestartAcceptor, NothingSent
<1>3. A!IInv'
  BY Zenon, <1>1, <1>2, A!RestartKeepsIInv, Assumptions
<1> QED  BY Zenon, <1>1, <1>3 DEF IInv

(* Every step of an acceptor keeps the invariant.                          *)
LEMMA AcceptorStepKeeps ==
  ASSUME IInv, NEW a \in Acceptors, AcceptorStep(a)
  PROVE  IInv'
<1>1. UNCHANGED <<propVars, ignored>>
  BY Zenon DEF AcceptorStep
<1>2. CASE \E m \in Sent("PREPARE"), st \in StorageOutcomes :
             /\ ReceivePrepare(a, m.iid, m.ballot, st)
             /\ msgs' = msgs \cup Unsigned(PrepareReply(a, m.iid, m.ballot, st))
  BY Zenon, <1>1, <1>2, PrepareKeeps
<1>3. CASE \E m \in Sent("ACCEPT"), st \in StorageOutcomes :
             /\ ReceiveAccept(a, m.iid, m.ballot, m.value, st)
             /\ msgs' = msgs \cup Unsigned(AcceptReply(a, m.iid, m.ballot, m.value, st))
  BY Zenon, <1>1, <1>3, AcceptKeeps
<1>4. CASE \E m \in Sent("CHOSEN") :
             ReceiveChosen(a, m.iid, m.ballot, m.value) /\ UNCHANGED msgs
  BY Zenon, <1>1, <1>4, ChosenKeeps
<1>5. CASE Restart(a) /\ UNCHANGED msgs
  BY Zenon, <1>1, <1>5, RestartKeeps
<1> QED  BY Zenon, <1>2, <1>3, <1>4, <1>5 DEF AcceptorStep

(* A learner's announcement.                                               *)
LEMMA LearnerKeeps ==
  ASSUME IInv, LearnerChosen
  PROVE  IInv'
<1>1. PInv' /\ Announces /\ A!IInv
  BY Zenon, StoresOK, LearnerStepKeeps
<1>2. Told' \subseteq A!Told
  <2>1. Told \subseteq A!Told
    BY Zenon, <1>1 DEF A!IInv, A!TypeOK
  <2>2. ASSUME NEW i, NEW b, NEW v, NEW t, Newly(i, b, v, t)  PROVE t \in A!Told
    <3>1. PICK a \in Acceptors : t = [aid |-> a, iid |-> i, ballot |-> b, value |-> v]
      BY Zenon, <2>2 DEF Newly
    <3>2. i \in Instances /\ b \in UsedBallots /\ v \in Proposable
      BY Zenon, <2>2 DEF Newly
    <3> QED  BY Zenon, <3>1, <3>2 DEF A!Told
  <2> QED  BY Zenon, <1>1, <2>1, <2>2 DEF Announces
<1>3. UNCHANGED <<A!accVars, Sent("PROMISE"), Sent("ACCEPTED")>> /\ Told \subseteq Told'
  BY Zenon, <1>1 DEF Announces, accVars, A!accVars
<1>4. A!IInv'
  BY Zenon, <1>1, <1>2, <1>3, A!ToldGrows, Assumptions
<1> QED  BY Zenon, <1>1, <1>4 DEF IInv

(* Every step keeps the invariant.                                         *)
LEMMA NextKeepsIInv == IInv /\ [Next]_vars => IInv'
<1> SUFFICES ASSUME IInv, [Next]_vars PROVE IInv'
  BY Zenon
<1>1. CASE LearnerChosen
  BY Zenon, <1>1, LearnerKeeps
<1>2. CASE \E a \in Acceptors : AcceptorStep(a)
  BY Zenon, <1>2, AcceptorStepKeeps
<1>3. CASE \E p \in Proposers : PromiseStep(p)
  BY Zenon, <1>3, PromiseStepKeeps, UnseenKeeps, StoresOK
<1>4. CASE \E p \in Proposers : ProposerStep(p)
  BY Zenon, <1>4, ProposerStepKeeps, UnseenKeeps, StoresOK
<1>5. CASE UNCHANGED vars
  BY Zenon, <1>5, StutterKeeps, UnseenKeeps, StoresOK
<1> QED  BY Zenon, <1>1, <1>2, <1>3, <1>4, <1>5 DEF Next

(* The system starts in a state of the invariant.                          *)
LEMMA InitKeepsIInv == Init => IInv
<1> SUFFICES ASSUME Init PROVE IInv
  BY Zenon
<1>1. /\ PInv /\ AccInit
      /\ Told = {} /\ Sent("PROMISE") = {} /\ Sent("ACCEPTED") = {}
  BY Zenon, InitKeeps
<1>2. A!AccInit
  BY Zenon, <1>1, SameNames DEF AccInit, A!AccInit
<1>3. A!Init
  BY Zenon, <1>1, <1>2 DEF A!Init
<1>4. A!IInv
  BY Zenon, <1>3, A!InitIInv, Assumptions
<1> QED  BY Zenon, <1>1, <1>4 DEF IInv

(* The invariant holds in every state the composed system reaches.         *)
THEOREM Invariance == Spec => []IInv
<1> QED  BY InitKeepsIInv, NextKeepsIInv, PTL DEF Spec

-----------------------------------------------------------------------------
(* What learners would deliver of an instance is decided.                  *)
LEMMA DecidedParts ==
  ASSUME PInv, NEW i, NEW v \in Decided(i)
  PROVE  \E b \in UsedBallots : v \in Proposable /\ Acc(msgs, i, b, v) /\ DecidedAt(msgs, i, b, v)
<1>1. PICK n \in Sent("ACCEPTED") : /\ n.iid = i /\ n.value = v
                                    /\ ChosenAt(n.iid, n.ballot, n.value)
  BY Zenon DEF Decided
<1>2. Acc(msgs, i, n.ballot, v) /\ n.ballot \in UsedBallots /\ v \in Proposable
  BY Zenon, <1>1, VoteFields
<1>3. DecidedAt(msgs, i, n.ballot, v)
  BY Zenon, <1>1, LearnersCount DEF ChosenAt, DecidedAt
<1> QED  BY Zenon, <1>2, <1>3

(* One value at most is decided in an instance.                            *)
LEMMA OneDecided ==
  ASSUME PInv, ~ ignored, NEW i \in Instances, Reported(i),
         NEW v \in Decided(i), NEW w \in Decided(i)
  PROVE  v = w
<1>1. PICK b \in UsedBallots :
        v \in Proposable /\ Acc(msgs, i, b, v) /\ DecidedAt(msgs, i, b, v)
  BY Zenon, DecidedParts
<1>2. PICK c \in UsedBallots :
        w \in Proposable /\ Acc(msgs, i, c, w) /\ DecidedAt(msgs, i, c, w)
  BY Zenon, DecidedParts
<1>3. b \in Ballot /\ c \in Ballot
  BY Zenon, UsedIsBallot
<1>4. geq(b, c) \/ geq(c, b)
  BY Zenon, <1>3, BallotOrder
<1>5. CASE geq(c, b)
  BY Zenon, <1>1, <1>2, <1>5, ProposedIsDecided
<1>6. CASE geq(b, c)
  BY Zenon, <1>1, <1>2, <1>6, ProposedIsDecided
<1> QED  BY Zenon, <1>4, <1>5, <1>6

(* So an instance has at most one value.                                   *)
LEMMA AtMostOne ==
  ASSUME PInv, ~ ignored, NEW i \in Instances, Reported(i)
  PROVE  Cardinality(Decided(i)) <= 1
<1> DEFINE D == Decided(i)
<1>1. \A v, w \in D : v = w
  BY Zenon, OneDecided
<1> HIDE DEF D
<1>2. CASE D = {}
  <2>1. Cardinality(D) = 0
    BY Zenon, <1>2, FS_EmptySet
  <2>2. Cardinality(D) <= 1
    BY SMT, <2>1
  <2> QED  BY Zenon, <2>2 DEF D
<1>3. CASE D # {}
  <2>1. PICK v : v \in D
    BY Zenon, <1>3
  <2>2. D = {v}
    BY Zenon, <1>1, <2>1
  <2>3. Cardinality({v}) = 1
    BY Zenon, FS_Singleton
  <2>4. Cardinality(D) <= 1
    BY SMT, <2>2, <2>3
  <2> QED  BY Zenon, <2>4 DEF D
<1> QED  BY Zenon, <1>2, <1>3

(* What a proposer closed is decided.                                      *)
LEMMA ClosedHasValue ==
  ASSUME PInv
  PROVE  ClosedIsDecided
<1> SUFFICES ASSUME NEW p \in Proposers, NEW i \in Instances,
                    i \in proposer[p].chosens \/ i <= proposer[p].trim_instance
             PROVE  Decided(i) # {}
  BY Zenon DEF ClosedIsDecided
<1>1. Determined(msgs, i)
  BY Zenon, ProposerParts DEF ClosedInv
<1>2. PICK b \in UsedBallots, v \in Proposable : DecidedAt(msgs, i, b, v)
  BY Zenon, <1>1 DEF Determined
<1>3. PICK n \in Sent("ACCEPTED") : n.iid = i /\ n.ballot = b /\ n.value = v
  <2>1. Voted(Acceptors, i, b, v)
    BY Zenon, <1>2, DecisionHasVoter
  <2> QED  BY Zenon, <2>1 DEF Voted
<1>4. ChosenAt(n.iid, n.ballot, n.value)
  BY Zenon, <1>2, <1>3, LearnersCount DEF ChosenAt, DecidedAt
<1> QED  BY Zenon, <1>3, <1>4 DEF Decided

(* Where no acceptor lost a record, promises report the votes below them.  *)
LEMMA IntactReported ==
  ASSUME IInv, NEW i \in Instances, \A a \in Acceptors : i \in Intact(a)
  PROVE  Reported(i)
<1>1. A!PromiseReportsVotes /\ A!TypeOK
  BY Zenon DEF IInv, A!IInv
<1>2. \A m \in Sent("PROMISE") : m.aid \in Acceptors
  BY Zenon, <1>1, A!BallotTypes, Assumptions
<1>3. ASSUME NEW m \in Sent("PROMISE"), NEW n \in Sent("ACCEPTED"),
             m.aid = n.aid, m.iid = i, n.iid = i, ballot_greater_than(m.ballot, n.ballot)
      PROVE  geq(m.value_ballot, n.ballot)
  <2>1. i \in A!Intact(m.aid) /\ A!ballot_greater_than(m.ballot, n.ballot)
    BY Zenon, <1>2, <1>3, SameNames
  <2>2. A!geq(m.value_ballot, n.ballot)
    BY Zenon, <1>1, <1>3, <2>1 DEF A!PromiseReportsVotes, A!geq
  <2> QED  BY Zenon, <2>2, SameNames
<1> QED  BY Zenon, <1>3 DEF Reported

(* Agreement: as long as no proposer ignored a vote that a promise         *)
(* reported to it (proposer_receive_promise compares it with the ballot a  *)
(* preempted attempt left behind), no two values are chosen in an instance *)
(* of which no acceptor lost a record.                                     *)
THEOREM Agreement == Spec => []AgreementUnlessIgnored
<1>1. IInv => AgreementUnlessIgnored
  BY Zenon, StoresOK, IntactReported, AtMostOne DEF AgreementUnlessIgnored
<1> QED  BY <1>1, Invariance, PTL

(* An instance a proposer closed, because q2 acceptors answered it, a      *)
(* CHOSEN came or an acceptor's TRIM did, has a chosen value.              *)
THEOREM ClosedDecided == Spec => []ClosedIsDecided
<1>1. IInv => ClosedIsDecided
  BY Zenon, StoresOK, ClosedHasValue
<1> QED  BY <1>1, Invariance, PTL
=============================================================================
