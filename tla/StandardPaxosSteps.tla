------------------------- MODULE StandardPaxosSteps -------------------------
(***************************************************************************)
(* What the messages of the composed standard Paxos say, and that every    *)
(* step of a proposer, an acceptor or a learner leaves it true.  Of the    *)
(* acceptors' stores only AccOK is used here; module StandardPaxosProofs   *)
(* takes it from EvStandardAcceptorProofs.  What proposers do comes from   *)
(* module StandardProposerProofs.                                          *)
(***************************************************************************)
EXTENDS StandardPaxos, StandardProposerProofs

(* Leaves that name no prover are for Zenon.                               *)
USE Zenon

(* What an instance may come to hold.                                      *)
Proposable == Values \cup {NOP, GARBAGE}

(* What the acceptors of the composition were told.                        *)
Told == {[aid |-> a, iid |-> m.iid, ballot |-> m.ballot, value |-> m.value] :
           a \in Acceptors, m \in Sent("CHOSEN")}

-----------------------------------------------------------------------------
DecidedAt(M, i, b, v) == Cardinality(Voters(M, i, b, v)) >= q2

Determined(M, i) == \E b \in UsedBallots, v \in Proposable : DecidedAt(M, i, b, v)

ClosedInv(s, M) ==
  \A i \in Instances : i \in s.chosens \/ i <= s.trim_instance => Determined(M, i)

PropInv(p, s, M, R, ign) ==
  /\ OrderInv(Proposable, p, s, M, R)
  /\ ReasonInv(Proposable, p, s, M, ign)
  /\ ClosedInv(s, M)

(* What a message says is so.                                              *)
MsgOK(m, M) ==
  /\ m.type = "PREPARE" => m.iid \in Instances /\ m.ballot \in UsedBallots
  /\ m.type = "ACCEPT" =>
       m.iid \in Instances /\ m.ballot \in UsedBallots /\ m.value \in Proposable
  /\ m.type = "PROMISE" => PromiseOK(Proposable, m.ballot.proposer_id, m, M)
  /\ m.type = "ACCEPTED" => m.aid \in Acceptors /\ Acc(M, m.iid, m.ballot, m.value)
  /\ m.type = "CHOSEN" =>
       /\ m.iid \in Instances /\ m.ballot \in UsedBallots /\ m.value \in Proposable
       /\ DecidedAt(M, m.iid, m.ballot, m.value)
  /\ m.type = "PREEMPTED" =>
       /\ m.iid \in Instances /\ m.acceptor_current_ballot \in Ballot
       /\ m.attempted_ballot \in UsedBallots
       /\ m.acceptor_current_ballot.number >= m.attempted_ballot.number
  /\ m.type = "TRIM" =>
       m.iid \in Nat /\ \A i \in Instances : i <= m.iid => Determined(M, i)

(* A vote on record was asked for.                                         *)
VoteAsked(info, i, M) ==
  info.value_ballot = INVALID_BALLOT \/ Acc(M, i, info.value_ballot, info.value)

VotesAsked(M) ==
  \A a \in Acceptors, i \in Instances :
    /\ i \notin chosen[a] => VoteAsked(mem[a][i], i, M)
    /\ VoteAsked(disk[a][i], i, M)

(* The part of the invariant that is about proposers and messages.         *)
PInv ==
  /\ DOMAIN proposer = Proposers /\ DOMAIN retries = Proposers
  /\ \A p \in Proposers : preexec_window[p] \in Nat
  /\ ignored \in BOOLEAN
  /\ \A p \in Proposers : PropInv(p, proposer[p], msgs, retries[p], ignored)
  /\ \A m \in msgs : MsgOK(m, msgs)
  /\ VotesAsked(msgs)

(* What is used of the acceptors: a record that is open has its promise    *)
(* above its vote, and what was trimmed or marked chosen was told.         *)
StoredInfo == [promise_ballot : Ballot, value_ballot : Ballot, value : Proposable \cup {NULL}]

AccOK ==
  /\ mem \in [Acceptors -> [Instances -> StoredInfo]]
  /\ disk \in [Acceptors -> [Instances -> StoredInfo]]
  /\ chosen \in [Acceptors -> SUBSET Instances] /\ trim_iid \in [Acceptors -> Nat]
  /\ \A a \in Acceptors, i \in Instances :
       /\ i <= trim_iid[a] => \E t \in Told : t.iid = i
       /\ i \notin chosen[a] => geq(mem[a][i].promise_ballot, mem[a][i].value_ballot)
  /\ \A a \in Acceptors : \A i \in chosen[a] :
       [aid |-> a, iid |-> i, ballot |-> mem[a][i].value_ballot,
        value |-> mem[a][i].value] \in Told

(* The acceptors see nothing of the step.                                  *)
Kept ==
  /\ PInv' /\ UNCHANGED accVars /\ Told' = Told
  /\ Sent("PROMISE")' = Sent("PROMISE") /\ Sent("ACCEPTED")' = Sent("ACCEPTED")

-----------------------------------------------------------------------------
(* NULL is no value that may be proposed, NOP and what a buffer happens to *)
(* hold are.                                                               *)
LEMMA ProposableValues ==
  NULL \notin Proposable /\ NOP \in Proposable /\ GARBAGE \in Proposable
BY ProposerAssumption DEF Proposable

(* A ballot in use is a ballot of one proposer and not INVALID_BALLOT.     *)
LEMMA UsedIsBallot ==
  /\ UsedBallots \subseteq Ballot
  /\ \A b \in UsedBallots : b \in BallotsOf(b.proposer_id) /\ b # INVALID_BALLOT
  /\ \A p : BallotsOf(p) \subseteq UsedBallots
  /\ \A p, q, b : b \in BallotsOf(p) /\ b \in BallotsOf(q) => p = q
<1>1. \A b \in UsedBallots : b # INVALID_BALLOT
  BY SMT DEF UsedBallots, Ballot, INVALID_BALLOT
<1> QED  BY <1>1 DEF UsedBallots, BallotsOf

-----------------------------------------------------------------------------
(* Decisions and what rests on them survive more messages.                 *)
LEMMA DecisionsGrow ==
  ASSUME NEW M, NEW N, M \subseteq N
  PROVE  /\ \A i, b, v : DecidedAt(M, i, b, v) => DecidedAt(N, i, b, v)
         /\ \A i : Determined(M, i) => Determined(N, i)
         /\ \A s : ClosedInv(s, M) => ClosedInv(s, N)
<1>1. ASSUME NEW i, NEW b, NEW v, DecidedAt(M, i, b, v)  PROVE DecidedAt(N, i, b, v)
  <2> DEFINE X == Voters(M, i, b, v)
             Y == Voters(N, i, b, v)
  <2>1. X \subseteq Y
    BY ReasonsGrow
  <2>2. Y \subseteq Acceptors
    BY DEF Voters
  <2>3. IsFiniteSet(Y)
    BY <2>2, CompositionAssumption, FS_Subset
  <2> HIDE DEF X, Y
  <2>4. IsFiniteSet(X) /\ Cardinality(X) <= Cardinality(Y)
    BY <2>1, <2>3, FS_Subset
  <2>5. Cardinality(X) \in Nat /\ Cardinality(Y) \in Nat /\ q2 \in Nat
    BY <2>3, <2>4, FS_CardinalityType, ProposerAssumption
  <2>6. Cardinality(X) >= q2
    BY <1>1 DEF DecidedAt, X
  <2>7. Cardinality(Y) >= q2
    BY SMT, <2>4, <2>5, <2>6
  <2> QED  BY <2>7 DEF DecidedAt, Y
<1>2. \A i : Determined(M, i) => Determined(N, i)
  BY <1>1 DEF Determined
<1>3. \A s : ClosedInv(s, M) => ClosedInv(s, N)
  BY <1>2 DEF ClosedInv
<1> QED  BY <1>1, <1>2, <1>3

(* What a message says stays so when messages are added.                   *)
LEMMA MessagesStay ==
  ASSUME NEW M, NEW N, M \subseteq N, NEW m \in M, MsgOK(m, M)
  PROVE  MsgOK(m, N)
<1>1. \A i, b, v : DecidedAt(M, i, b, v) => DecidedAt(N, i, b, v)
  BY DecisionsGrow
<1>2. \A i : Determined(M, i) => Determined(N, i)
  BY DecisionsGrow
<1>3. \A i, b, v : Acc(M, i, b, v) => Acc(N, i, b, v)
  BY ReasonsGrow
<1>4. \A i, b : Prep(M, i, b) => Prep(N, i, b)
  BY DEF Prep
<1>5. \A p : PromiseOK(Proposable, p, m, M) => PromiseOK(Proposable, p, m, N)
  BY <1>3, <1>4 DEF PromiseOK
<1>6. m.type = "PROMISE" => PromiseOK(Proposable, m.ballot.proposer_id, m, N)
  BY <1>5 DEF MsgOK
<1>7. m.type = "ACCEPTED" => m.aid \in Acceptors /\ Acc(N, m.iid, m.ballot, m.value)
  BY <1>3 DEF MsgOK
<1>8. m.type = "CHOSEN" => DecidedAt(N, m.iid, m.ballot, m.value)
  BY <1>1 DEF MsgOK
<1>9. m.type = "TRIM" => \A i \in Instances : i <= m.iid => Determined(N, i)
  BY <1>2 DEF MsgOK
<1> QED  BY <1>6, <1>7, <1>8, <1>9 DEF MsgOK

(* The records are unchanged and the requests still there.                 *)
LEMMA VotesStayAsked ==
  ASSUME VotesAsked(msgs), msgs \subseteq msgs', UNCHANGED accVars
  PROVE  VotesAsked(msgs)'
<1>1. \A i, b, v : Acc(msgs, i, b, v) => Acc(msgs', i, b, v)
  BY ReasonsGrow
<1>2. chosen' = chosen /\ mem' = mem /\ disk' = disk
  BY DEF accVars
<1> QED  BY <1>1, <1>2 DEF VotesAsked, VoteAsked

(* What a proposer sends.                                                  *)
Requests(p) == PrepareMsgs(p) \cup AcceptMsgs(Proposable, p)

(* The fields of what a proposer sends.                                    *)
LEMMA RequestFields ==
  ASSUME NEW p, NEW m \in Requests(p)
  PROVE  /\ m.type \in {"PREPARE", "ACCEPT"}
         /\ m.iid \in Instances /\ m.ballot \in BallotsOf(p)
         /\ m.type = "ACCEPT" => m.value \in Proposable
<1>1. CASE m \in PrepareMsgs(p)
  BY SMT, <1>1 DEF PrepareMsgs, PrepareMsg
<1>2. CASE m \in AcceptMsgs(Proposable, p)
  BY SMT, <1>2 DEF AcceptMsgs, AcceptMsg
<1> QED  BY <1>1, <1>2 DEF Requests

(* The replies are not touched by requests.                                *)
LEMMA RepliesUntouched ==
  ASSUME NEW p, NEW out \in SUBSET Requests(p), msgs' = msgs \cup out
  PROVE  /\ Sent("PROMISE")' = Sent("PROMISE") /\ Sent("ACCEPTED")' = Sent("ACCEPTED")
         /\ Sent("CHOSEN")' = Sent("CHOSEN") /\ Told' = Told
<1>1. \A m \in out : m.type = "PREPARE" \/ m.type = "ACCEPT"
  BY RequestFields
<1>2. \A m \in out : m.type # "PROMISE" /\ m.type # "ACCEPTED" /\ m.type # "CHOSEN"
  BY SMT, <1>1
<1>3. /\ Sent("PROMISE")' = Sent("PROMISE") /\ Sent("ACCEPTED")' = Sent("ACCEPTED")
      /\ Sent("CHOSEN")' = Sent("CHOSEN")
  BY <1>2 DEF Sent
<1>4. Told' = Told
  BY SMT, <1>3 DEF Told
<1> QED  BY <1>3, <1>4

(* Requests of p leave what q asked for alone.                             *)
LEMMA OthersUntouched ==
  ASSUME NEW p, NEW q, p # q, NEW M, NEW out \in SUBSET Requests(p)
  PROVE  /\ \A i : \A c \in BallotsOf(q) : Prep(M \cup out, i, c) => Prep(M, i, c)
         /\ \A i, v : \A c \in BallotsOf(q) : Acc(M \cup out, i, c, v) <=> Acc(M, i, c, v)
<1>1. \A m \in out : m.ballot \in BallotsOf(p)
  BY RequestFields
<1>2. \A m \in out : m.ballot \notin BallotsOf(q)
  BY <1>1, UsedIsBallot
<1> QED  BY <1>2 DEF Prep, Acc

(* A proposer acts: its own part of the invariant is for the lemmas below, *)
(* and its requests disturb nobody else.                                   *)
LEMMA ProposerActs ==
  ASSUME PInv, NEW p \in Proposers, NEW s, NEW out \in SUBSET Requests(p), NEW R,
         Become(p, s, out, R), UNCHANGED <<preexec_window, accVars>>,
         ignored' \in BOOLEAN, ignored => ignored',
         PropInv(p, s, msgs \cup out, R, ignored')
  PROVE  Kept
<1>1. /\ proposer' = [proposer EXCEPT ![p] = s] /\ msgs' = msgs \cup out
      /\ retries' = [retries EXCEPT ![p] = R]
  BY DEF Become
<1>2. UNCHANGED accVars /\ preexec_window' = preexec_window
  OBVIOUS
<1>3. /\ DOMAIN proposer' = Proposers /\ DOMAIN retries' = Proposers
      /\ proposer'[p] = s /\ retries'[p] = R
      /\ \A q \in Proposers \ {p} : proposer'[q] = proposer[q] /\ retries'[q] = retries[q]
  BY <1>1 DEF PInv
<1>4. msgs \subseteq msgs'
  BY <1>1
<1>5. PropInv(p, proposer'[p], msgs', retries'[p], ignored')
  BY <1>1, <1>3
<1>6. ASSUME NEW q \in Proposers, q # p
      PROVE  PropInv(q, proposer'[q], msgs', retries'[q], ignored')
  <2> DEFINE t == proposer[q]
             Q == retries[q]
             N == msgs \cup out
  <2>1. /\ OrderInv(Proposable, q, t, msgs, Q)
        /\ ReasonInv(Proposable, q, t, msgs, ignored) /\ ClosedInv(t, msgs)
    BY DEF PInv, PropInv
  <2>2. /\ \A i : \A c \in BallotsOf(q) : Prep(N, i, c) => Prep(msgs, i, c)
        /\ \A i, v : \A c \in BallotsOf(q) : Acc(N, i, c, v) <=> Acc(msgs, i, c, v)
    BY <1>6, OthersUntouched
  <2> HIDE DEF t, Q
  <2>3. msgs \subseteq N
    OBVIOUS
  <2> HIDE DEF N
  <2>4. \A i \in Instances : Same(Proposable, q, i, msgs, Q, N, Q)
    BY <2>2 DEF Same
  <2>5. OrderInv(Proposable, q, t, N, Q)
    BY <2>1, <2>4, OrderSame
  <2>6. ReasonInv(Proposable, q, t, msgs, ignored')
    <3>1. \A i, f : PrepareReason(i, f, msgs, ignored) => PrepareReason(i, f, msgs, ignored')
      BY DEF PrepareReason
    <3> QED  BY <2>1, <3>1 DEF ReasonInv
  <2>7. ReasonInv(Proposable, q, t, N, ignored')
    BY <2>2, <2>3, <2>6, ReasonKept
  <2>8. ClosedInv(t, N)
    BY <2>1, <2>3, DecisionsGrow
  <2>9. PropInv(q, t, N, Q, ignored')
    BY <2>5, <2>7, <2>8 DEF PropInv
  <2>10. proposer'[q] = t /\ retries'[q] = Q /\ msgs' = N
    BY <1>1, <1>3, <1>6 DEF t, Q, N
  <2> QED  BY <2>9, <2>10
<1>7. ASSUME NEW m \in msgs'  PROVE MsgOK(m, msgs')
  <2>1. CASE m \in msgs
    BY <1>4, <2>1, MessagesStay DEF PInv
  <2>2. CASE m \in out
    <3>1. /\ m.type \in {"PREPARE", "ACCEPT"}
          /\ m.iid \in Instances /\ m.ballot \in UsedBallots
          /\ m.type = "ACCEPT" => m.value \in Proposable
      BY <2>2, RequestFields, UsedIsBallot
    <3> QED  BY SMT, <3>1 DEF MsgOK
  <2> QED  BY <1>1, <2>1, <2>2
<1>8. VotesAsked(msgs)'
  BY <1>2, <1>4, VotesStayAsked DEF PInv
<1>9. /\ Sent("PROMISE")' = Sent("PROMISE") /\ Sent("ACCEPTED")' = Sent("ACCEPTED")
      /\ Told' = Told
  BY <1>1, RepliesUntouched
<1>10. \A q \in Proposers : PropInv(q, proposer'[q], msgs', retries'[q], ignored')
  BY <1>5, <1>6
<1>11. \A q \in Proposers : preexec_window'[q] \in Nat
  BY <1>2 DEF PInv
<1>12. PInv'
  BY <1>3, <1>7, <1>8, <1>10, <1>11 DEF PInv
<1> QED  BY <1>2, <1>9, <1>12 DEF Kept

-----------------------------------------------------------------------------
(* A handler that sends nothing.                                           *)
LEMMA EndsQuietly ==
  ASSUME PInv, NEW p \in Proposers, NEW s, NEW R,
         Become(p, s, {}, R), UNCHANGED <<preexec_window, accVars>>,
         ignored' \in BOOLEAN, ignored => ignored',
         PropInv(p, s, msgs, R, ignored')
  PROVE  Kept
<1>1. {} \in SUBSET Requests(p) /\ msgs \cup {} = msgs
  OBVIOUS
<1> DEFINE E == {}
<1>2. E \in SUBSET Requests(p) /\ Become(p, s, E, R) /\ PropInv(p, s, msgs \cup E, R, ignored')
  BY <1>1
<1> HIDE DEF E
<1> QED  BY <1>2, ProposerActs

(* A handler that ends with proposer_preexecute.                           *)
LEMMA EndsWithPreexecute ==
  ASSUME PInv, NEW p \in Proposers, NEW s, NEW R,
         BecomeAndPreexecute(p, s, preexec_window[p], R),
         UNCHANGED <<preexec_window, accVars, ignored>>,
         PropInv(p, s, msgs, R, ignored)
  PROVE  Kept
<1>1. preexec_window[p] \in Nat /\ ignored \in BOOLEAN
  BY DEF PInv
<1>2. PICK draw \in Draws(p) :
        LET r == Preexecute(p, s, preexec_window[p], draw)
        IN  Become(p, r.s, r.out, R \cup r.delayed)
  BY DEF BecomeAndPreexecute
<1> DEFINE r == Preexecute(p, s, preexec_window[p], draw)
<1>3. Become(p, r.s, r.out, R \cup r.delayed)
  BY <1>2
<1>4. r \in Opens(Proposable, p, s, msgs, R)
  BY <1>1, PreexecuteOpens DEF PropInv
<1> HIDE DEF r
<1>5. /\ r.out \in SUBSET PrepareMsgs(p)
      /\ OrderInv(Proposable, p, r.s, msgs \cup r.out, R \cup r.delayed)
      /\ Fresh(s, r.s)
  BY <1>4 DEF Opens, Opening
<1> DEFINE t == r.s
           out == r.out
           S == R \cup r.delayed
           N == msgs \cup out
<1>6. /\ Become(p, t, out, S) /\ out \in SUBSET PrepareMsgs(p)
      /\ OrderInv(Proposable, p, t, N, S) /\ Fresh(s, t) /\ msgs \subseteq N
  BY <1>3, <1>5
<1>7. \A i, c, v : Acc(N, i, c, v) => Acc(msgs, i, c, v)
  BY <1>6, PreparesOnly
<1> HIDE DEF t, out, S
<1>8. ReasonInv(Proposable, p, t, msgs, ignored)
  BY <1>6, ReasonFresh DEF PropInv
<1>9. ReasonInv(Proposable, p, t, N, ignored)
  BY <1>6, <1>7, <1>8, ReasonKept
<1>10. ClosedInv(t, N)
  <2>1. ClosedInv(t, msgs)
    BY <1>6 DEF PropInv, ClosedInv, Fresh
  <2> QED  BY <1>6, <2>1, DecisionsGrow
<1>11. PropInv(p, t, N, S, ignored')
  BY <1>6, <1>9, <1>10 DEF PropInv
<1>12. out \in SUBSET Requests(p)
  BY <1>6 DEF Requests
<1> QED  BY <1>1, <1>6, <1>11, <1>12, ProposerActs

(* A handler that ends with try_accept.                                    *)
LEMMA EndsWithTryAccept ==
  ASSUME PInv, NEW p \in Proposers, NEW s, BecomeAndTryAccept(p, s),
         UNCHANGED <<preexec_window, accVars>>,
         ignored' \in BOOLEAN, ignored => ignored',
         PropInv(p, s, msgs, retries[p], ignored')
  PROVE  Kept
<1>1. PICK undefined \in BOOLEAN :
        LET r == TryAccept(s, undefined) IN Become(p, r.s, r.out, retries[p])
  BY DEF BecomeAndTryAccept
<1> DEFINE r == TryAccept(s, undefined)
           R == retries[p]
<1>2. Become(p, r.s, r.out, R)
  BY <1>1
<1>3. r \in Proposes(Proposable, p, s, msgs, R)
  BY TryAcceptProposes, ProposableValues DEF PropInv
<1> HIDE DEF r, R
<1> DEFINE t == r.s
           out == r.out
           N == msgs \cup out
<1>4. /\ out \in SUBSET AcceptMsgs(Proposable, p) /\ OrderInv(Proposable, p, t, N, R)
      /\ ReasonsKept(Proposable, p, s, msgs, t, N)
      /\ t.chosens = s.chosens /\ t.trim_instance = s.trim_instance
  BY <1>3 DEF Proposes, Trying
<1>5. Become(p, t, out, R) /\ msgs \subseteq N
  BY <1>2
<1> HIDE DEF t, out
<1>6. ReasonInv(Proposable, p, t, N, ignored')
  BY <1>4 DEF PropInv, ReasonsKept
<1>7. ClosedInv(t, N)
  <2>1. ClosedInv(t, msgs)
    BY <1>4 DEF PropInv, ClosedInv
  <2> QED  BY <1>5, <2>1, DecisionsGrow
<1>8. PropInv(p, t, N, R, ignored')
  BY <1>4, <1>6, <1>7 DEF PropInv
<1>9. out \in SUBSET Requests(p)
  BY <1>4 DEF Requests
<1> QED  BY <1>5, <1>8, <1>9, ProposerActs

-----------------------------------------------------------------------------
(* A proposed value was proposed in an instance, at a ballot in use.       *)
LEMMA AcceptFields ==
  ASSUME PInv, NEW i, NEW b, NEW v, Acc(msgs, i, b, v)
  PROVE  i \in Instances /\ b \in UsedBallots /\ v \in Proposable
<1>1. PICK m \in msgs : m.type = "ACCEPT" /\ m.iid = i /\ m.ballot = b /\ m.value = v
  BY DEF Acc
<1>2. MsgOK(m, msgs)
  BY DEF PInv
<1> QED  BY <1>1, <1>2 DEF MsgOK

(* What the invariant says of one proposer.                                *)
LEMMA ProposerParts ==
  ASSUME PInv, NEW p \in Proposers
  PROVE  /\ PropInv(p, proposer[p], msgs, retries[p], ignored)
         /\ OrderInv(Proposable, p, proposer[p], msgs, retries[p])
         /\ ReasonInv(Proposable, p, proposer[p], msgs, ignored)
         /\ ClosedInv(proposer[p], msgs)
         /\ proposer[p] \in ProposerState(Proposable)
         /\ ignored \in BOOLEAN
BY DEF PInv, PropInv, OrderInv

(* Counting a promise closes no instance.                                  *)
LEMMA PromiseClosesNothing ==
  ASSUME NEW V, NEW s \in ProposerState(V), NEW ack
  PROVE  /\ ReceivePromise(s, ack).chosens = s.chosens
         /\ ReceivePromise(s, ack).trim_instance = s.trim_instance
<1>1. \A e : LET t == [s EXCEPT !.prepare_phase[ack.iid] = e]
             IN  t.chosens = s.chosens /\ t.trim_instance = s.trim_instance
  BY SMT DEF ProposerState
<1> QED  BY <1>1 DEF ReceivePromise

(* proposer_receive_promise, and try_accept when the quorum is complete.   *)
LEMMA PromiseStepKeeps ==
  ASSUME PInv, NEW p \in Proposers, PromiseStep(p)
  PROVE  Kept
<1> DEFINE s == proposer[p]
<1>1. PICK m \in Sent("PROMISE") :
        /\ HandlePromise(p, m) /\ ignored' = (ignored \/ IgnoresVote(p, m)) /\ UNCHANGED accVars
  BY DEF PromiseStep
<1>2. /\ OrderInv(Proposable, p, s, msgs, retries[p])
      /\ ReasonInv(Proposable, p, s, msgs, ignored) /\ ClosedInv(s, msgs)
      /\ s \in ProposerState(Proposable) /\ ignored \in BOOLEAN
  BY ProposerParts
<1>3. PromiseOK(Proposable, p, m, msgs)
  <2>1. m \in msgs /\ m.type = "PROMISE" /\ m.ballot.proposer_id = p
    BY <1>1 DEF Sent, HandlePromise
  <2> QED  BY <2>1 DEF PInv, MsgOK
<1> DEFINE t == ReceivePromise(s, m)
<1>4. OrderInv(Proposable, p, t, msgs, retries[p])
  <2>1. /\ m.iid \in Instances /\ m.aid \in Acceptors
        /\ m.value_ballot \in Ballot /\ m.value \in Proposable \cup {NULL}
    BY <1>3 DEF PromiseOK
  <2> QED  BY <1>2, <2>1, PromiseKeepsOrder
<1>5. ignored' \in BOOLEAN /\ (ignored => ignored')
  BY <1>1, <1>2 DEF IgnoresVote
<1>6. ReasonInv(Proposable, p, t, msgs, ignored')
  <2>1. ignored' = (ignored \/ (/\ t # s /\ m.value # NULL
                                /\ s.prepare_phase[m.iid].last_accepted_value = NULL
                                /\ ~ ballot_greater_than(m.value_ballot,
                                       s.prepare_phase[m.iid].last_accepted_ballot)))
    BY <1>1 DEF IgnoresVote
  <2> QED  BY <1>2, <1>3, <1>5, <2>1, ReasonPromise, ProposableValues
<1>7. ClosedInv(t, msgs)
  <2>1. t.chosens = s.chosens /\ t.trim_instance = s.trim_instance
    BY <1>2, PromiseClosesNothing
  <2> QED  BY <1>2, <2>1 DEF ClosedInv
<1>8. PropInv(p, t, msgs, retries[p], ignored')
  BY <1>4, <1>6, <1>7 DEF PropInv
<1>9. UNCHANGED <<preexec_window, accVars>>
  BY <1>1 DEF HandlePromise
<1>10. BecomeAndTryAccept(p, t) \/ Become(p, t, {}, retries[p])
  BY <1>1 DEF HandlePromise
<1> HIDE DEF t
<1> QED  BY <1>5, <1>8, <1>9, <1>10, EndsWithTryAccept, EndsQuietly

(* Closing an instance that is decided.                                    *)
LEMMA CloseKeepsProposer ==
  ASSUME NEW p, NEW s, NEW M, NEW R, NEW ign, PropInv(p, s, M, R, ign),
         NEW i \in Instances, NEW v, Determined(M, i)
  PROVE  PropInv(p, ReceiveChosenValue(s, i, v), M, R, ign)
<1>1. /\ OrderInv(Proposable, p, s, M, R) /\ ReasonInv(Proposable, p, s, M, ign)
      /\ ClosedInv(s, M) /\ s \in ProposerState(Proposable)
  BY DEF PropInv, OrderInv
<1>2. s.accept_phase[i] # NULL => s.accept_phase[i].proposing_value \in Proposable
  BY <1>1 DEF OrderInv, EntryOrder
<1> DEFINE t == ReceiveChosenValue(s, i, v)
<1>3. /\ t \in ProposerState(Proposable) /\ Drops(s, t) /\ t.chosens = s.chosens \cup {i}
      /\ \A j \in Instances : j <= t.trim_instance => j <= s.trim_instance \/ j \in t.chosens
  <2>1. Closes(Proposable, s, t, i, v)
    BY <1>1, <1>2, ChosenEffect
  <2> HIDE DEF t
  <2> QED  BY <2>1 DEF Closes
<1> HIDE DEF t
<1>4. OrderInv(Proposable, p, t, M, R)
  BY <1>1, <1>3, DropsRetains, OrderRetained
<1>5. ReasonInv(Proposable, p, t, M, ign)
  BY <1>1, <1>3, ReasonDropped
<1>6. ClosedInv(t, M)
  BY <1>1, <1>3 DEF ClosedInv
<1>7. PropInv(p, t, M, R, ign)
  BY <1>4, <1>5, <1>6 DEF PropInv
<1> QED  BY <1>7 DEF t

(* An acceptance that counts is of the value the entry proposes.           *)
LEMMA CountedVote ==
  ASSUME PInv, NEW p \in Proposers, NEW m \in Sent("ACCEPTED"), m.ballot.proposer_id = p,
         Counts(proposer[p], m)
  PROVE  LET e == proposer[p].accept_phase[m.iid] IN
         /\ m.iid \in Instances /\ m.aid \in Acceptors /\ e # NULL /\ m.aid \notin e.acks
         /\ e \in Info(Proposable)
         /\ m.ballot = e.ballot /\ m.ballot \in UsedBallots
         /\ m.value = e.proposing_value /\ m.value \in Proposable
         /\ m.aid \in Voters(msgs, m.iid, m.ballot, m.value)
<1> DEFINE s == proposer[p]
           e == s.accept_phase[m.iid]
<1>1. m \in msgs /\ m.type = "ACCEPTED"
  BY DEF Sent
<1>2. m.aid \in Acceptors /\ Acc(msgs, m.iid, m.ballot, m.value)
  BY <1>1 DEF PInv, MsgOK
<1>3. m.iid \in Instances /\ m.ballot \in UsedBallots /\ m.value \in Proposable
  BY <1>2, AcceptFields
<1>4. e # NULL /\ m.aid \notin e.acks /\ ballot_equal(m.ballot, e.ballot)
  BY DEF Counts
<1>5. OrderInv(Proposable, p, s, msgs, retries[p]) /\ s \in ProposerState(Proposable)
  BY ProposerParts
<1>6. e \in Info(Proposable)
  BY <1>3, <1>4, <1>5, StateParts
<1>7. e.proposing_value \in Proposable /\ Acc(msgs, m.iid, e.ballot, e.proposing_value)
  BY <1>3, <1>4, <1>5 DEF OrderInv, EntryOrder
<1> HIDE DEF e, s
<1>8. e.ballot \in UsedBallots
  BY <1>6 DEF Info
<1>9. m.ballot = e.ballot
  BY SMT, <1>3, <1>4, <1>8 DEF UsedBallots, Ballot, ballot_equal
<1>10. m.ballot \in BallotsOf(p)
  BY <1>3 DEF BallotsOf
<1>11. OneValue(Proposable, p, msgs)
  BY <1>5 DEF OrderInv
<1>12. m.value = e.proposing_value
  BY <1>2, <1>3, <1>7, <1>9, <1>10, <1>11 DEF OneValue
<1>13. m.aid \in Voters(msgs, m.iid, m.ballot, m.value)
  BY <1>1, <1>2 DEF Voters
<1> QED  BY <1>2, <1>3, <1>4, <1>6, <1>9, <1>12, <1>13 DEF e, s

(* The state in which an acceptance is counted.                            *)
LEMMA CountKeepsProposer ==
  ASSUME PInv, NEW p \in Proposers, NEW m \in Sent("ACCEPTED"), m.ballot.proposer_id = p,
         Counts(proposer[p], m)
  PROVE  /\ PropInv(p, CountedState(proposer[p], m), msgs, retries[p], ignored)
         /\ Counted(Proposable, proposer[p], CountedState(proposer[p], m), m)
<1> DEFINE s == proposer[p]
           e == s.accept_phase[m.iid]
           t == CountedState(s, m)
<1>1. /\ m.iid \in Instances /\ m.aid \in Acceptors /\ e # NULL
      /\ m.aid \in Voters(msgs, m.iid, e.ballot, e.proposing_value)
  BY CountedVote
<1>2. /\ OrderInv(Proposable, p, s, msgs, retries[p])
      /\ ReasonInv(Proposable, p, s, msgs, ignored) /\ ClosedInv(s, msgs)
      /\ s \in ProposerState(Proposable) /\ ignored \in BOOLEAN
  BY ProposerParts
<1>3. Counted(Proposable, s, t, m)
  BY <1>1, <1>2, CountedEffect
<1>4. ReasonInv(Proposable, p, t, msgs, ignored)
  BY <1>1, <1>2, ReasonCounted
<1> HIDE DEF s, t
<1>5. OrderInv(Proposable, p, t, msgs, retries[p])
  BY <1>2, <1>3, OrderRetained DEF Counted
<1>6. ClosedInv(t, msgs)
  BY <1>2, <1>3 DEF Counted, ClosedInv
<1>7. PropInv(p, t, msgs, retries[p], ignored)
  BY <1>4, <1>5, <1>6 DEF PropInv
<1> QED  BY <1>3, <1>7 DEF s, t

(* The acceptance that completes the quorum is the last of a decision.     *)
LEMMA QuorumDecides ==
  ASSUME PInv, NEW p \in Proposers, NEW m \in Sent("ACCEPTED"), m.ballot.proposer_id = p,
         AcceptQuorum(proposer[p], m)
  PROVE  Determined(msgs, m.iid)
<1> DEFINE s == proposer[p]
           e == s.accept_phase[m.iid]
           X == e.acks
           Y == X \cup {m.aid}
           Z == Voters(msgs, m.iid, m.ballot, m.value)
<1>1. Counts(s, m) /\ Cardinality(X) + 1 >= e.quorum
  BY DEF AcceptQuorum
<1>2. /\ m.iid \in Instances /\ e # NULL /\ m.aid \notin X /\ e \in Info(Proposable)
      /\ m.ballot = e.ballot /\ m.ballot \in UsedBallots
      /\ m.value = e.proposing_value /\ m.value \in Proposable /\ m.aid \in Z
  BY <1>1, CountedVote
<1>3. e.quorum = q2 /\ X \subseteq Z
  <2>1. ReasonInv(Proposable, p, s, msgs, ignored)
    BY ProposerParts
  <2>2. AcceptReason(m.iid, e, msgs)
    BY <1>2, <2>1 DEF ReasonInv
  <2> QED  BY <1>2, <2>2 DEF AcceptReason
<1>4. Z \subseteq Acceptors
  BY DEF Voters
<1> HIDE DEF e, X, Z
<1>5. IsFiniteSet(Z) /\ IsFiniteSet(X)
  BY <1>3, <1>4, CompositionAssumption, FS_Subset
<1>6. IsFiniteSet(Y) /\ Cardinality(Y) = Cardinality(X) + 1
  BY <1>2, <1>5, FS_AddElement
<1>7. Y \subseteq Z
  BY <1>2, <1>3
<1> HIDE DEF Y
<1>8. Cardinality(Y) <= Cardinality(Z)
  BY <1>5, <1>7, FS_Subset
<1>9. Cardinality(X) \in Nat /\ Cardinality(Z) \in Nat /\ q2 \in Nat
  BY <1>5, FS_CardinalityType, ProposerAssumption
<1>10. Cardinality(Z) >= q2
  BY SMT, <1>1, <1>3, <1>6, <1>8, <1>9
<1>11. DecidedAt(msgs, m.iid, m.ballot, m.value)
  BY <1>10 DEF DecidedAt, Z
<1> QED  BY <1>2, <1>11 DEF Determined

(* proposer_receive_accepted.                                              *)
LEMMA HandleAcceptedKeeps ==
  ASSUME PInv, NEW p \in Proposers, NEW m \in Sent("ACCEPTED"), HandleAccepted(p, m),
         UNCHANGED <<accVars, ignored>>
  PROVE  Kept
<1> DEFINE s == proposer[p]
           c == CountedState(s, m)
           t == ReceiveAccepted(s, m)
<1>1. m.ballot.proposer_id = p /\ UNCHANGED preexec_window
  BY DEF HandleAccepted
<1>2. \/ BecomeAndPreexecute(p, t, preexec_window[p], retries[p])
      \/ Become(p, t, {}, retries[p])
  BY DEF HandleAccepted
<1>3. PropInv(p, t, msgs, retries[p], ignored)
  <2>1. CASE AcceptQuorum(s, m)
    <3>1. Counts(s, m) /\ t = ReceiveChosenValue(c, m.iid, m.value)
      BY <2>1 DEF ReceiveAccepted, CountedState, AcceptQuorum
    <3>2. Determined(msgs, m.iid) /\ m.iid \in Instances
      BY <1>1, <2>1, <3>1, QuorumDecides, CountedVote
    <3>3. PropInv(p, c, msgs, retries[p], ignored)
      BY <1>1, <3>1, CountKeepsProposer
    <3> HIDE DEF c, t
    <3> QED  BY <3>1, <3>2, <3>3, CloseKeepsProposer
  <2>2. CASE ~ AcceptQuorum(s, m) /\ Counts(s, m)
    <3>1. t = c
      BY <2>2 DEF ReceiveAccepted, CountedState
    <3> QED  BY <1>1, <2>2, <3>1, CountKeepsProposer
  <2>3. CASE ~ AcceptQuorum(s, m) /\ ~ Counts(s, m)
    <3>1. t = s
      BY <2>3 DEF ReceiveAccepted
    <3> QED  BY <3>1, ProposerParts
  <2> QED  BY <2>1, <2>2, <2>3
<1> HIDE DEF t
<1>4. ignored' \in BOOLEAN /\ ignored' = ignored /\ (ignored => ignored')
  BY ProposerParts
<1>5. UNCHANGED <<preexec_window, accVars>> /\ UNCHANGED <<preexec_window, accVars, ignored>>
  BY <1>1
<1>6. PropInv(p, t, msgs, retries[p], ignored')
  BY <1>3, <1>4
<1>7. CASE BecomeAndPreexecute(p, t, preexec_window[p], retries[p])
  BY <1>3, <1>5, <1>7, EndsWithPreexecute
<1>8. CASE Become(p, t, {}, retries[p])
  BY <1>4, <1>5, <1>6, <1>8, EndsQuietly
<1> QED  BY <1>2, <1>7, <1>8

(* proposer_receive_chosen.                                                *)
LEMMA HandleChosenKeeps ==
  ASSUME PInv, NEW p \in Proposers, NEW m \in Sent("CHOSEN"), HandleChosen(p, m),
         UNCHANGED <<accVars, ignored>>
  PROVE  Kept
<1> DEFINE t == ReceiveChosenValue(proposer[p], m.iid, m.value)
<1>1. \/ BecomeAndPreexecute(p, t, preexec_window[p], retries[p])
      \/ Become(p, t, {}, retries[p])
  BY DEF HandleChosen
<1>2. UNCHANGED preexec_window
  BY DEF HandleChosen
<1>3. m.iid \in Instances /\ Determined(msgs, m.iid)
  BY DEF PInv, MsgOK, Sent, Determined
<1>4. PropInv(p, t, msgs, retries[p], ignored)
  BY <1>3, ProposerParts, CloseKeepsProposer
<1> HIDE DEF t
<1>5. ignored' \in BOOLEAN /\ ignored' = ignored /\ (ignored => ignored')
  BY ProposerParts
<1>6. UNCHANGED <<preexec_window, accVars>> /\ UNCHANGED <<preexec_window, accVars, ignored>>
  BY <1>2
<1>7. PropInv(p, t, msgs, retries[p], ignored')
  BY <1>4, <1>5
<1>8. CASE BecomeAndPreexecute(p, t, preexec_window[p], retries[p])
  BY <1>4, <1>6, <1>8, EndsWithPreexecute
<1>9. CASE Become(p, t, {}, retries[p])
  BY <1>5, <1>6, <1>7, <1>9, EndsQuietly
<1> QED  BY <1>1, <1>8, <1>9

(* proposer_receive_preempted: the instance starts again above the ballot  *)
(* that preempted it.                                                      *)
LEMMA HandlePreemptedKeeps ==
  ASSUME PInv, NEW p \in Proposers, NEW m \in Sent("PREEMPTED"), HandlePreempted(p, m),
         UNCHANGED <<accVars, ignored>>
  PROVE  Kept
<1> DEFINE s == proposer[p]
<1>1. Preempts(s, m) /\ UNCHANGED preexec_window
  BY DEF HandlePreempted
<1>2. PICK b \in NextBallots(p, m.acceptor_current_ballot) :
        Become(p, ReceivePreempted(s, m, b), {}, retries[p] \cup {PrepareMsg(m.iid, b)})
  BY DEF HandlePreempted
<1>3. /\ m.iid \in Instances /\ m.acceptor_current_ballot \in Ballot
      /\ m.attempted_ballot \in UsedBallots
      /\ m.acceptor_current_ballot.number >= m.attempted_ballot.number
  BY DEF PInv, MsgOK, Sent
<1>4. /\ OrderInv(Proposable, p, s, msgs, retries[p])
      /\ ReasonInv(Proposable, p, s, msgs, ignored) /\ ClosedInv(s, msgs)
      /\ s \in ProposerState(Proposable) /\ ignored \in BOOLEAN
  BY ProposerParts
<1>5. b \in BallotsOf(p) /\ b.number > m.acceptor_current_ballot.number
  BY <1>3, DrawnBallot
<1>6. m.attempted_ballot \in Ballot /\ b \in UsedBallots
  BY <1>3, <1>5, UsedIsBallot
<1>7. b.number > m.attempted_ballot.number
  <2>1. /\ b.number \in Nat /\ m.attempted_ballot.number \in Nat
        /\ m.acceptor_current_ballot.number \in Nat
    BY SMT, <1>3, <1>6 DEF UsedBallots, Ballot
  <2> QED  BY SMT, <1>3, <1>5, <2>1
<1> DEFINE t == ReceivePreempted(s, m, b)
           R == retries[p] \cup {PrepareMsg(m.iid, b)}
<1>8. OrderInv(Proposable, p, t, msgs, R)
  BY <1>1, <1>3, <1>4, <1>5, <1>6, <1>7, PreemptedKeepsOrder
<1>9. Restarted(Proposable, s, t, m.iid, b)
  <2>1. /\ s.prepare_phase[m.iid] = NULL \/ s.accept_phase[m.iid] = NULL
        /\ s.accept_phase[m.iid] # NULL =>
             s.accept_phase[m.iid].proposing_value \in Proposable
    BY <1>3, <1>4 DEF OrderInv, EntryOrder
  <2> QED  BY <1>1, <1>3, <1>4, <1>6, <2>1, PreemptedEffect
<1> HIDE DEF t
<1>10. ReasonInv(Proposable, p, t, msgs, ignored)
  BY <1>3, <1>4, <1>9, ReasonRestarted
<1>11. ClosedInv(t, msgs)
  BY <1>4, <1>9 DEF Restarted, ClosedInv
<1>12. ignored' \in BOOLEAN /\ ignored' = ignored /\ (ignored => ignored')
  BY <1>4
<1>13. PropInv(p, t, msgs, R, ignored')
  BY <1>8, <1>10, <1>11, <1>12 DEF PropInv
<1>14. Become(p, t, {}, R) /\ UNCHANGED <<preexec_window, accVars>>
  BY <1>1, <1>2 DEF t
<1> HIDE DEF R
<1> QED  BY <1>12, <1>13, <1>14, EndsQuietly

(* proposer_receive_trim: only decided instances are closed.               *)
LEMMA HandleTrimKeeps ==
  ASSUME PInv, NEW p \in Proposers, NEW m \in Sent("TRIM"), HandleTrim(p, m.iid),
         UNCHANGED <<accVars, ignored>>
  PROVE  Kept
<1> DEFINE s == proposer[p]
           t == ReceiveTrimIid(s, m.iid)
<1>1. /\ BecomeAndPreexecute(p, t, preexec_window[p], retries[p])
      /\ UNCHANGED preexec_window
  BY DEF HandleTrim
<1>2. m.iid \in Nat /\ \A i \in Instances : i <= m.iid => Determined(msgs, i)
  BY DEF PInv, MsgOK, Sent
<1>3. /\ OrderInv(Proposable, p, s, msgs, retries[p])
      /\ ReasonInv(Proposable, p, s, msgs, ignored) /\ ClosedInv(s, msgs)
      /\ s \in ProposerState(Proposable)
  BY ProposerParts
<1>4. Trims(Proposable, s, t, m.iid)
  BY <1>2, <1>3, TrimEffect
<1> HIDE DEF s, t
<1>5. /\ t \in ProposerState(Proposable) /\ Drops(s, t) /\ t.chosens = s.chosens
      /\ t.trim_instance = s.trim_instance \/ t.trim_instance = m.iid
  BY <1>4 DEF Trims
<1>6. OrderInv(Proposable, p, t, msgs, retries[p])
  BY <1>3, <1>5, DropsRetains, OrderRetained
<1>7. ReasonInv(Proposable, p, t, msgs, ignored)
  BY <1>3, <1>5, ReasonDropped
<1>8. ClosedInv(t, msgs)
  BY <1>2, <1>3, <1>5 DEF ClosedInv
<1>9. PropInv(p, t, msgs, retries[p], ignored)
  BY <1>6, <1>7, <1>8 DEF PropInv
<1>10. UNCHANGED <<preexec_window, accVars, ignored>>
  BY <1>1
<1> QED  BY <1>1, <1>9, <1>10, EndsWithPreexecute

(* evproposer_try_higher_ballot: the prepare a timer held is sent, or      *)
(* dropped.                                                                *)
LEMMA TryHigherBallotKeeps ==
  ASSUME PInv, NEW p \in Proposers, TryHigherBallot(p), UNCHANGED <<accVars, ignored>>
  PROVE  Kept
<1> DEFINE s == proposer[p]
           R == retries[p]
<1>1. UNCHANGED preexec_window
  BY DEF TryHigherBallot
<1>2. PICK prepare \in R :
        \/ Become(p, s, {prepare}, R \ {prepare})
        \/ BecomeAndPreexecute(p, s, preexec_window[p], R \ {prepare})
  BY DEF TryHigherBallot
<1>3. /\ OrderInv(Proposable, p, s, msgs, R)
      /\ ReasonInv(Proposable, p, s, msgs, ignored) /\ ClosedInv(s, msgs)
      /\ ignored \in BOOLEAN
  BY ProposerParts
<1> DEFINE S == R \ {prepare}
           out == {prepare}
           N == msgs \cup out
<1>4. S \in SUBSET R /\ out \in SUBSET PrepareMsgs(p) /\ msgs \subseteq N
  BY <1>3 DEF OrderInv
<1>5. \A i, c : Prep(S, i, c) \/ Prep(out, i, c) => Prep(R, i, c)
  BY DEF Prep
<1> HIDE DEF s, R
<1>6. CASE Become(p, s, out, S)
  <2> HIDE DEF S, out
  <2>1. /\ \A i, c, v : Acc(N, i, c, v) <=> Acc(msgs, i, c, v)
        /\ \A i, c : Prep(N, i, c) => Prep(msgs, i, c) \/ Prep(out, i, c)
    BY <1>4, PreparesOnly
  <2> HIDE DEF N
  <2>2. \A i \in Instances : Same(Proposable, p, i, msgs, R, N, S)
    BY <1>5, <2>1 DEF Same
  <2>3. OrderInv(Proposable, p, s, N, S)
    BY <1>3, <1>4, <2>2, OrderSame
  <2>4. ReasonInv(Proposable, p, s, N, ignored)
    BY <1>3, <1>4, <2>1, ReasonKept
  <2>5. ClosedInv(s, N)
    BY <1>3, <1>4, DecisionsGrow
  <2>6. PropInv(p, s, N, S, ignored')
    BY <2>3, <2>4, <2>5 DEF PropInv
  <2>7. out \in SUBSET Requests(p) /\ PropInv(p, s, msgs \cup out, S, ignored')
    BY <1>4, <2>6 DEF Requests, N
  <2>8. UNCHANGED <<preexec_window, accVars>> /\ ignored' \in BOOLEAN /\ ignored' = ignored /\ (ignored => ignored')
    BY <1>1, <1>3
  <2> QED  BY <1>6, <2>7, <2>8, ProposerActs
<1>7. CASE BecomeAndPreexecute(p, s, preexec_window[p], S)
  <2> HIDE DEF S
  <2>1. \A i \in Instances : Same(Proposable, p, i, msgs, R, msgs, S)
    BY <1>5 DEF Same
  <2>2. OrderInv(Proposable, p, s, msgs, S)
    BY <1>3, <1>4, <2>1, OrderSame
  <2>3. PropInv(p, s, msgs, S, ignored)
    BY <1>3, <2>2 DEF PropInv
  <2>4. UNCHANGED <<preexec_window, accVars, ignored>>
    BY <1>1
  <2> QED  BY <1>7, <2>3, <2>4, EndsWithPreexecute
<1> QED  BY <1>2, <1>6, <1>7

(* The proposers' steps.                                                   *)
LEMMA ProposerStepKeeps ==
  ASSUME PInv, NEW p \in Proposers, ProposerStep(p)
  PROVE  Kept
<1>1. UNCHANGED <<accVars, ignored>> /\ ignored' \in BOOLEAN /\ ignored' = ignored /\ (ignored => ignored')
  BY DEF ProposerStep, PInv
<1>2. CASE TryAcceptEvent(p)
  <2>1. BecomeAndTryAccept(p, proposer[p]) /\ UNCHANGED <<preexec_window, accVars>>
    BY <1>1, <1>2 DEF TryAcceptEvent
  <2>2. PropInv(p, proposer[p], msgs, retries[p], ignored')
    BY <1>1, ProposerParts
  <2> QED  BY <1>1, <2>1, <2>2, EndsWithTryAccept
<1> QED  BY <1>1, <1>2, HandleAcceptedKeeps, HandleChosenKeeps, HandlePreemptedKeeps,
           HandleTrimKeeps, TryHigherBallotKeeps DEF ProposerStep

-----------------------------------------------------------------------------
(* Messages that ask for nothing leave the proposers' part alone.          *)
LEMMA RepliesArrive ==
  ASSUME PInv, NEW X, msgs' = msgs \cup X, UNCHANGED <<propVars, ignored>>,
         \A m \in X : m.type # "PREPARE" /\ m.type # "ACCEPT" /\ MsgOK(m, msgs'),
         VotesAsked(msgs)'
  PROVE  PInv'
<1>1. /\ proposer' = proposer /\ retries' = retries /\ preexec_window' = preexec_window
      /\ ignored' = ignored
  BY DEF propVars
<1>2. msgs \subseteq msgs'
  OBVIOUS
<1>3. /\ \A i, c : Prep(msgs', i, c) => Prep(msgs, i, c)
      /\ \A i, c, v : Acc(msgs', i, c, v) => Acc(msgs, i, c, v)
  BY DEF Prep, Acc
<1>4. \A i, c, v : Acc(msgs, i, c, v) => Acc(msgs', i, c, v)
  BY <1>2, ReasonsGrow
<1>5. ASSUME NEW p \in Proposers
      PROVE  PropInv(p, proposer[p], msgs', retries[p], ignored)
  <2> DEFINE s == proposer[p]
             R == retries[p]
  <2>1. /\ OrderInv(Proposable, p, s, msgs, R)
        /\ ReasonInv(Proposable, p, s, msgs, ignored) /\ ClosedInv(s, msgs)
    BY ProposerParts
  <2> HIDE DEF s, R
  <2>2. \A i \in Instances : Same(Proposable, p, i, msgs, R, msgs', R)
    BY <1>3, <1>4 DEF Same
  <2>3. OrderInv(Proposable, p, s, msgs', R)
    BY <2>1, <2>2, OrderSame
  <2>4. ReasonInv(Proposable, p, s, msgs', ignored)
    BY <1>2, <1>3, <2>1, ReasonKept
  <2>5. ClosedInv(s, msgs')
    BY <1>2, <2>1, DecisionsGrow
  <2>6. PropInv(p, s, msgs', R, ignored)
    BY <2>3, <2>4, <2>5 DEF PropInv
  <2> QED  BY <2>6 DEF s, R
<1>6. ASSUME NEW m \in msgs'  PROVE MsgOK(m, msgs')
  BY <1>2, MessagesStay DEF PInv
<1>7. \A p \in Proposers : PropInv(p, proposer'[p], msgs', retries'[p], ignored')
  BY <1>1, <1>5
<1>8. /\ DOMAIN proposer' = Proposers /\ DOMAIN retries' = Proposers
      /\ \A p \in Proposers : preexec_window'[p] \in Nat
      /\ ignored' \in BOOLEAN
  BY <1>1 DEF PInv
<1> QED  BY <1>6, <1>7, <1>8 DEF PInv

(* The replies of the other types are as they were.                        *)
LEMMA OtherTypes ==
  ASSUME NEW x, msgs' = msgs \cup {x}
  PROVE  \A t : x.type # t => Sent(t)' = Sent(t)
BY DEF Sent

(* What the acceptors were told was decided.                               *)
LEMMA ToldIsDecided ==
  ASSUME PInv, NEW t \in Told
  PROVE  /\ t.iid \in Instances /\ t.ballot \in UsedBallots /\ t.value \in Proposable
         /\ DecidedAt(msgs, t.iid, t.ballot, t.value) /\ Determined(msgs, t.iid)
         /\ \E m \in Sent("CHOSEN") : m.iid = t.iid /\ m.ballot = t.ballot /\ m.value = t.value
<1>1. PICK a \in Acceptors, m \in Sent("CHOSEN") :
        t = [aid |-> a, iid |-> m.iid, ballot |-> m.ballot, value |-> m.value]
  BY SMT DEF Told
<1>2. t.iid = m.iid /\ t.ballot = m.ballot /\ t.value = m.value
  BY SMT, <1>1
<1>3. m \in msgs /\ m.type = "CHOSEN"
  BY DEF Sent
<1>4. /\ m.iid \in Instances /\ m.ballot \in UsedBallots /\ m.value \in Proposable
      /\ DecidedAt(msgs, m.iid, m.ballot, m.value)
  BY <1>3 DEF PInv, MsgOK
<1> QED  BY <1>2, <1>4 DEF Determined
(* An answer to a request that changes nothing in the acceptor.            *)
LEMMA AnswerKeeps ==
  ASSUME PInv, NEW x, msgs' = msgs \cup {x}, UNCHANGED <<propVars, ignored>>, UNCHANGED accVars,
         x.type \in {"TRIM", "CHOSEN", "PREEMPTED"}, MsgOK(x, msgs'),
         x.type = "CHOSEN" => \E m \in Sent("CHOSEN") :
                                m.iid = x.iid /\ m.ballot = x.ballot /\ m.value = x.value
  PROVE  Kept
<1>1. /\ x.type # "PREPARE" /\ x.type # "ACCEPT" /\ x.type # "PROMISE" /\ x.type # "ACCEPTED"
  BY SMT
<1>2. Sent("PROMISE")' = Sent("PROMISE") /\ Sent("ACCEPTED")' = Sent("ACCEPTED")
  BY <1>1, OtherTypes
<1>3. Told' = Told
  <2>1. CASE x.type # "CHOSEN"
    <3>1. Sent("CHOSEN")' = Sent("CHOSEN")
      BY <2>1, OtherTypes
    <3> QED  BY SMT, <3>1 DEF Told
  <2>2. CASE x.type = "CHOSEN"
    <3>1. PICK m \in Sent("CHOSEN") : m.iid = x.iid /\ m.ballot = x.ballot /\ m.value = x.value
      BY <2>2
    <3>2. Sent("CHOSEN")' = Sent("CHOSEN") \cup {x}
      BY <2>2 DEF Sent
    <3> QED  BY SMT, <3>1, <3>2 DEF Told
  <2> QED  BY <2>1, <2>2
<1>4. VotesAsked(msgs)'
  BY VotesStayAsked DEF PInv
<1> DEFINE X == {x}
<1>5. \A m \in X : m.type # "PREPARE" /\ m.type # "ACCEPT" /\ MsgOK(m, msgs')
  BY <1>1
<1>6. msgs' = msgs \cup X
  OBVIOUS
<1> HIDE DEF X
<1>7. PInv'
  BY <1>4, <1>5, <1>6, RepliesArrive
<1> QED  BY <1>2, <1>3, <1>7 DEF Kept

(* The sender is taken off the answers nobody looks at the sender of.      *)
LEMMA UnsignedOne ==
  ASSUME NEW m
  PROVE  /\ m.type \in {"CHOSEN", "TRIM", "PREEMPTED"} =>
              Unsigned({m}) = {[m EXCEPT !.aid = NULL]}
         /\ m.type \notin {"CHOSEN", "TRIM", "PREEMPTED"} => Unsigned({m}) = {m}
BY DEF Unsigned

(* A record has its fields, and what an acceptor acknowledges is not below *)
(* its promise.                                                            *)
LEMMA RecordFields ==
  ASSUME AccOK, NEW a \in Acceptors, NEW i \in Instances
  PROVE  /\ mem[a][i] \in StoredInfo
         /\ mem[a][i].promise_ballot \in Ballot /\ mem[a][i].value_ballot \in Ballot
         /\ \A b \in Ballot : SafeToAcknowledge(a, i, b) => geq(b, mem[a][i].promise_ballot)
<1> DEFINE c == mem[a][i].promise_ballot
<1>1. mem[a][i] \in StoredInfo
  BY DEF AccOK
<1>2. c \in Ballot /\ mem[a][i].value_ballot \in Ballot
  BY <1>1 DEF StoredInfo
<1>3. ASSUME NEW b \in Ballot, SafeToAcknowledge(a, i, b)  PROVE geq(b, c)
  <2>1. CASE Found(a, i)
    BY <1>3, <2>1 DEF SafeToAcknowledge, geq
  <2>2. CASE ~ Found(a, i)
    <3>1. INVALID_BALLOT \in Ballot /\ geq(b, INVALID_BALLOT)
      BY InvalidIsLeast DEF geq
    <3>2. geq(INVALID_BALLOT, c)
      BY <1>2, <2>2, <3>1, GeqTotal DEF Found, geq
    <3> QED  BY <1>2, <3>1, <3>2, GeqTransitive DEF geq
  <2> QED  BY <2>1, <2>2
<1> QED  BY <1>1, <1>2, <1>3

(* The answers standard_acceptor_receive_prepare and _accept share.        *)
LEMMA TrimAnswer ==
  ASSUME PInv, AccOK, NEW a \in Acceptors, msgs' = msgs \cup Unsigned({TrimMsg(a)}),
         UNCHANGED <<propVars, ignored>>, UNCHANGED accVars
  PROVE  Kept
<1> DEFINE x == [type |-> "TRIM", aid |-> NULL, iid |-> trim_iid[a]]
<1>1. TrimMsg(a).type = "TRIM" /\ [TrimMsg(a) EXCEPT !.aid = NULL] = x
  BY SMT DEF TrimMsg
<1>2. "TRIM" \in {"CHOSEN", "TRIM", "PREEMPTED"}
  OBVIOUS
<1>3. msgs' = msgs \cup {x}
  BY <1>1, <1>2, UnsignedOne
<1>4. x.type = "TRIM" /\ x.iid = trim_iid[a]
  OBVIOUS
<1>5. trim_iid[a] \in Nat
  BY DEF AccOK
<1>6. \A i \in Instances : i <= trim_iid[a] => Determined(msgs', i)
  <2>1. \A i \in Instances : i <= trim_iid[a] => \E t \in Told : t.iid = i
    BY DEF AccOK
  <2>2. \A i \in Instances : i <= trim_iid[a] => Determined(msgs, i)
    BY <2>1, ToldIsDecided
  <2> QED  BY <2>2, DecisionsGrow
<1> HIDE DEF x
<1>7. MsgOK(x, msgs')
  <2>1. /\ x.type # "PREPARE" /\ x.type # "ACCEPT" /\ x.type # "PROMISE"
        /\ x.type # "ACCEPTED" /\ x.type # "CHOSEN" /\ x.type # "PREEMPTED"
    BY SMT, <1>4
  <2>2. x.iid \in Nat /\ \A i \in Instances : i <= x.iid => Determined(msgs', i)
    BY <1>4, <1>5, <1>6
  <2> QED  BY <2>1, <2>2 DEF MsgOK
<1>8. x.type \in {"TRIM", "CHOSEN", "PREEMPTED"} /\ x.type # "CHOSEN"
  BY SMT, <1>4
<1> QED  BY <1>3, <1>7, <1>8, AnswerKeeps

(* The acceptor was told what it repeats.                                  *)
LEMMA ChosenAnswer ==
  ASSUME PInv, AccOK, NEW a \in Acceptors, NEW i \in chosen[a],
         msgs' = msgs \cup Unsigned({ChosenMsg(a, i)}),
         UNCHANGED <<propVars, ignored>>, UNCHANGED accVars
  PROVE  Kept
<1> DEFINE x == [type |-> "CHOSEN", aid |-> NULL, iid |-> i,
                 ballot |-> mem[a][i].value_ballot, value |-> mem[a][i].value]
           t == [aid |-> a, iid |-> i, ballot |-> mem[a][i].value_ballot,
                 value |-> mem[a][i].value]
<1>1. ChosenMsg(a, i).type = "CHOSEN" /\ [ChosenMsg(a, i) EXCEPT !.aid = NULL] = x
  BY SMT DEF ChosenMsg
<1>2. "CHOSEN" \in {"CHOSEN", "TRIM", "PREEMPTED"}
  OBVIOUS
<1>3. msgs' = msgs \cup {x}
  BY <1>1, <1>2, UnsignedOne
<1>4. x.type = "CHOSEN" /\ x.iid = t.iid /\ x.ballot = t.ballot /\ x.value = t.value
  BY SMT
<1>5. t \in Told
  BY DEF AccOK
<1> HIDE DEF x, t
<1>6. /\ x.iid \in Instances /\ x.ballot \in UsedBallots /\ x.value \in Proposable
      /\ DecidedAt(msgs, x.iid, x.ballot, x.value)
      /\ \E m \in Sent("CHOSEN") : m.iid = x.iid /\ m.ballot = x.ballot /\ m.value = x.value
  BY <1>4, <1>5, ToldIsDecided
<1>7. DecidedAt(msgs', x.iid, x.ballot, x.value)
  BY <1>6, DecisionsGrow
<1>8. MsgOK(x, msgs')
  BY SMT, <1>4, <1>6, <1>7 DEF MsgOK
<1>9. x.type \in {"TRIM", "CHOSEN", "PREEMPTED"}
  BY SMT, <1>4
<1> QED  BY <1>3, <1>6, <1>8, <1>9, AnswerKeeps

(* The promise on record is above the ballot that was asked for.           *)
LEMMA PreemptedAnswer ==
  ASSUME PInv, AccOK, NEW a \in Acceptors, NEW i \in Instances, NEW b \in UsedBallots,
         ~ SafeToAcknowledge(a, i, b),
         msgs' = msgs \cup Unsigned({PreemptedMsg(a, i, b)}),
         UNCHANGED <<propVars, ignored>>, UNCHANGED accVars
  PROVE  Kept
<1> DEFINE c == mem[a][i].promise_ballot
           x == [type |-> "PREEMPTED", aid |-> NULL, iid |-> i,
                 attempted_ballot |-> b, acceptor_current_ballot |-> c]
<1>1. PreemptedMsg(a, i, b).type = "PREEMPTED" /\ [PreemptedMsg(a, i, b) EXCEPT !.aid = NULL] = x
  BY SMT DEF PreemptedMsg
<1>2. "PREEMPTED" \in {"CHOSEN", "TRIM", "PREEMPTED"}
  OBVIOUS
<1>3. msgs' = msgs \cup {x}
  BY <1>1, <1>2, UnsignedOne
<1>4. c \in Ballot
  BY RecordFields
<1>5. ~ geq(b, c)
  BY DEF SafeToAcknowledge, geq
<1> HIDE DEF c
<1>6. /\ x.type = "PREEMPTED" /\ x.iid = i /\ x.attempted_ballot = b
      /\ x.acceptor_current_ballot = c
  BY SMT
<1>7. c.number >= b.number
  BY SMT, <1>4, <1>5 DEF geq, ballot_greater_than_or_equal, UsedBallots, Ballot
<1> HIDE DEF x
<1>8. MsgOK(x, msgs')
  BY SMT, <1>4, <1>6, <1>7 DEF MsgOK
<1>9. x.type \in {"TRIM", "CHOSEN", "PREEMPTED"} /\ x.type # "CHOSEN"
  BY SMT, <1>6
<1> QED  BY <1>3, <1>8, <1>9, AnswerKeeps

(* A record written with a vote that was asked for.                        *)
LEMMA VotesStored ==
  ASSUME PInv, AccOK, msgs \subseteq msgs', NEW a \in Acceptors, NEW i \in Instances, NEW info, NEW st,
         StoreInstanceInfo(a, i, info, st), VoteAsked(info, i, msgs)
  PROVE  VotesAsked(msgs)'
<1>1. \A j, b, v : Acc(msgs, j, b, v) => Acc(msgs', j, b, v)
  BY ReasonsGrow
<1>2. /\ DOMAIN mem = Acceptors /\ \A c \in Acceptors : DOMAIN mem[c] = Instances
      /\ DOMAIN disk = Acceptors /\ \A c \in Acceptors : DOMAIN disk[c] = Instances
      /\ mem = [c \in Acceptors |-> mem[c]] /\ disk = [c \in Acceptors |-> disk[c]]
      /\ mem \in [Acceptors -> [Instances -> StoredInfo]]
      /\ disk \in [Acceptors -> [Instances -> StoredInfo]]
  BY DEF AccOK
<1>3. chosen' = chosen
  BY DEF StoreInstanceInfo
<1>4. /\ mem' = mem \/ mem' = [mem EXCEPT ![a][i] = info]
      /\ disk' = disk \/ disk' = [disk EXCEPT ![a][i] = info]
  BY DEF StoreInstanceInfo
<1>5. \A c \in Acceptors, j \in Instances :
        mem'[c][j] = mem[c][j] \/ (j = i /\ mem'[c][j] = info)
  BY SMT, <1>2, <1>4
<1>6. \A c \in Acceptors, j \in Instances :
        disk'[c][j] = disk[c][j] \/ (j = i /\ disk'[c][j] = info)
  BY SMT, <1>2, <1>4
<1>7. \A r, j : VoteAsked(r, j, msgs) => VoteAsked(r, j, msgs')
  BY <1>1 DEF VoteAsked
<1>8. ASSUME NEW c \in Acceptors, NEW j \in Instances
      PROVE  /\ j \notin chosen'[c] => VoteAsked(mem'[c][j], j, msgs')
             /\ VoteAsked(disk'[c][j], j, msgs')
  <2>1. /\ j \notin chosen[c] => VoteAsked(mem[c][j], j, msgs)
        /\ VoteAsked(disk[c][j], j, msgs)
    BY DEF PInv, VotesAsked
  <2> QED  BY <1>3, <1>5, <1>6, <1>7, <2>1
<1> QED  BY <1>8 DEF VotesAsked, VoteAsked

(* The promise of a prepare that is acknowledged.                          *)
Promised(a, i, b) ==
  [type |-> "PROMISE", aid |-> a, iid |-> i, ballot |-> b,
   value_ballot |-> mem[a][i].value_ballot,
   value |-> IF ballot_greater_than(mem[a][i].value_ballot, INVALID_BALLOT)
             THEN mem[a][i].value ELSE NULL]

(* What the acceptors see of a prepare and of an accept.                   *)
PrepareSeen(a, i, b, st) ==
  /\ i \in Instances /\ b \in UsedBallots
  /\ Told' = Told /\ Sent("ACCEPTED")' = Sent("ACCEPTED")
  /\ \/ Sent("PROMISE")' = Sent("PROMISE")
     \/ /\ ~ Settled(a, i) /\ SafeToAcknowledge(a, i, b) /\ st = "committed"
        /\ Sent("PROMISE")' = Sent("PROMISE") \cup {Promised(a, i, b)}

AcceptSeen(a, i, b, v, st) ==
  /\ i \in Instances /\ b \in UsedBallots /\ v \in Proposable
  /\ Told' = Told /\ Sent("PROMISE")' = Sent("PROMISE")
  /\ \/ Sent("ACCEPTED")' = Sent("ACCEPTED")
     \/ /\ ~ Settled(a, i) /\ SafeToAcknowledge(a, i, b) /\ st = "committed"
        /\ Sent("ACCEPTED")' = Sent("ACCEPTED") \cup {AcceptedMsg(a, i, b, v)}

(* A promise that was committed reports a vote that was asked for.         *)
LEMMA PromiseIsOK ==
  ASSUME PInv, AccOK, NEW a \in Acceptors, NEW i \in Instances, NEW b \in UsedBallots,
         Prep(msgs, i, b), ~ Settled(a, i), SafeToAcknowledge(a, i, b),
         NEW M, M = msgs \cup {Promised(a, i, b)}
  PROVE  /\ Promised(a, i, b).type = "PROMISE"
         /\ MsgOK(Promised(a, i, b), M)
<1> DEFINE r == mem[a][i]
           x == Promised(a, i, b)
<1>1. /\ x.type = "PROMISE" /\ x.aid = a /\ x.iid = i /\ x.ballot = b
      /\ x.value_ballot = r.value_ballot
      /\ x.value = IF ballot_greater_than(r.value_ballot, INVALID_BALLOT) THEN r.value ELSE NULL
  <2> DEFINE w == IF ballot_greater_than(r.value_ballot, INVALID_BALLOT) THEN r.value ELSE NULL
  <2>1. x = [type |-> "PROMISE", aid |-> a, iid |-> i, ballot |-> b,
             value_ballot |-> r.value_ballot, value |-> w]
    BY DEF Promised
  <2> HIDE DEF x, w, r
  <2>2. /\ x.type = "PROMISE" /\ x.aid = a /\ x.iid = i /\ x.ballot = b
        /\ x.value_ballot = r.value_ballot /\ x.value = w
    BY <2>1
  <2> QED  BY <2>2 DEF w
<1>2. x \in M /\ msgs \subseteq M
  OBVIOUS
<1>3. /\ b \in Ballot /\ r.promise_ballot \in Ballot /\ r.value_ballot \in Ballot
  BY UsedIsBallot, RecordFields
<1>4. i \notin chosen[a]
  BY DEF Settled
<1>5. VoteAsked(r, i, msgs)
  BY <1>4 DEF PInv, VotesAsked
<1>6. geq(b, r.promise_ballot)
  BY <1>3, RecordFields
<1>7. geq(r.promise_ballot, r.value_ballot)
  BY <1>4 DEF AccOK
<1>8. geq(b, r.value_ballot)
  BY <1>3, <1>6, <1>7, GeqTransitive DEF geq
<1>9. Prep(M, i, b) /\ \A c, v : Acc(msgs, i, c, v) => Acc(M, i, c, v)
  BY <1>2, ReasonsGrow DEF Prep
<1>10. CASE r.value_ballot = INVALID_BALLOT
  <2>1. ~ ballot_greater_than(r.value_ballot, INVALID_BALLOT)
    BY <1>3, <1>10, BallotOrder
  <2>2. x.value_ballot = INVALID_BALLOT /\ x.value = NULL
    BY <1>1, <1>10, <2>1
  <2>3. b \in BallotsOf(b.proposer_id)
    BY UsedIsBallot
  <2> HIDE DEF x, r
  <2>4. PromiseOK(Proposable, x.ballot.proposer_id, x, M)
    BY <1>1, <1>2, <1>3, <1>8, <1>9, <2>2, <2>3 DEF PromiseOK
  <2>5. MsgOK(x, M)
    BY SMT, <1>1, <2>4 DEF MsgOK
  <2> QED  BY <1>1, <2>5 DEF x
<1>11. CASE Acc(msgs, i, r.value_ballot, r.value)
  <2>1. r.value_ballot \in UsedBallots /\ r.value \in Proposable
    BY <1>11, AcceptFields
  <2>2. ballot_greater_than(r.value_ballot, INVALID_BALLOT)
    <3>1. r.value_ballot # INVALID_BALLOT /\ INVALID_BALLOT \in Ballot
      <4>1. r.value_ballot # INVALID_BALLOT
        BY <2>1, UsedIsBallot
      <4>2. INVALID_BALLOT \in Ballot
        BY SMT DEF INVALID_BALLOT, Ballot
      <4> QED  BY <4>1, <4>2
    <3>2. geq(r.value_ballot, INVALID_BALLOT)
      BY <1>3, BallotOrder
    <3> QED  BY <1>3, <3>1, <3>2, BallotOrder
  <2>3. x.value_ballot = r.value_ballot /\ x.value = r.value
    BY <1>1, <2>2
  <2>4. b \in BallotsOf(b.proposer_id)
    BY UsedIsBallot
  <2> HIDE DEF x, r
  <2>5. PromiseOK(Proposable, x.ballot.proposer_id, x, M)
    BY <1>1, <1>2, <1>3, <1>8, <1>9, <1>11, <2>1, <2>3, <2>4 DEF PromiseOK
  <2>6. MsgOK(x, M)
    BY SMT, <1>1, <2>5 DEF MsgOK
  <2> QED  BY <1>1, <2>6 DEF x
<1> QED  BY <1>5, <1>10, <1>11 DEF VoteAsked

(* No message, or one reply of a type, is what the acceptors' half sees.   *)
LEMMA OneReply ==
  ASSUME NEW X, NEW x, X = {} \/ X = {x}, msgs' = msgs \cup X
  PROVE  /\ \A t : x.type # t => Sent(t)' = Sent(t)
         /\ \A t : X = {} => Sent(t)' = Sent(t)
         /\ \A t : X = {x} /\ x.type = t => Sent(t)' = Sent(t) \cup {x}
BY DEF Sent

(* A prepare that is stored, acknowledged or not.                          *)
LEMMA PrepareStored ==
  ASSUME PInv, AccOK, NEW a \in Acceptors, NEW i \in Instances, NEW b \in UsedBallots,
         Prep(msgs, i, b), NEW st, ~ Settled(a, i), SafeToAcknowledge(a, i, b),
         ReceivePrepare(a, i, b, st), NEW X, msgs' = msgs \cup X,
         X = {} \/ (st = "committed" /\ X = {Promised(a, i, b)}),
         UNCHANGED <<propVars, ignored>>
  PROVE  PInv' /\ PrepareSeen(a, i, b, st)
<1> DEFINE x == Promised(a, i, b)
           info == [mem[a][i] EXCEPT !.promise_ballot = b]
           N == msgs \cup {x}
<1>1. x.type = "PROMISE" /\ MsgOK(x, N)
  BY PromiseIsOK
<1>2. "PROMISE" # "ACCEPTED" /\ "PROMISE" # "CHOSEN" /\ "PROMISE" # "PREPARE"
      /\ "PROMISE" # "ACCEPT"
  BY SMT
<1>3. X = {} \/ (st = "committed" /\ X = {x})
  OBVIOUS
<1>4. StoreInstanceInfo(a, i, info, st)
  BY DEF ReceivePrepare
<1>5. info.value_ballot = mem[a][i].value_ballot /\ info.value = mem[a][i].value
  <2>1. mem[a][i] \in StoredInfo
    BY RecordFields
  <2> QED  BY SMT, <2>1 DEF StoredInfo
<1> HIDE DEF x, info
<1>7. /\ Sent("ACCEPTED")' = Sent("ACCEPTED") /\ Sent("CHOSEN")' = Sent("CHOSEN")
      /\ X = {} => Sent("PROMISE")' = Sent("PROMISE")
      /\ X = {x} => Sent("PROMISE")' = Sent("PROMISE") \cup {x}
  <2>1. X = {} \/ X = {x}
    BY <1>3
  <2>2. /\ \A t : x.type # t => Sent(t)' = Sent(t)
        /\ \A t : X = {} => Sent(t)' = Sent(t)
        /\ \A t : X = {x} /\ x.type = t => Sent(t)' = Sent(t) \cup {x}
    BY <2>1, OneReply
  <2> QED  BY <1>1, <1>2, <2>2
<1>8. Told' = Told
  BY SMT, <1>7 DEF Told
<1>9. PrepareSeen(a, i, b, st)
  BY <1>3, <1>7, <1>8 DEF PrepareSeen, x
<1>10. VotesAsked(msgs)'
  <2>1. VoteAsked(mem[a][i], i, msgs)
    BY DEF PInv, VotesAsked, Settled
  <2>2. VoteAsked(info, i, msgs)
    BY <1>5, <2>1 DEF VoteAsked
  <2> QED  BY <1>4, <2>2, VotesStored
<1>11. \A m \in X : m.type # "PREPARE" /\ m.type # "ACCEPT" /\ MsgOK(m, msgs')
  <2>1. CASE X = {}
    BY <2>1
  <2>2. CASE X = {x}
    <3>1. msgs' = N
      BY <2>2
    <3> QED  BY <1>1, <1>2, <2>2, <3>1
  <2> QED  BY <1>3, <2>1, <2>2
<1>12. PInv'
  BY <1>10, <1>11, RepliesArrive
<1> QED  BY <1>9, <1>12

(* An accept that is stored, acknowledged or not.                          *)
LEMMA AcceptStored ==
  ASSUME PInv, AccOK, NEW a \in Acceptors, NEW i \in Instances, NEW b \in UsedBallots,
         NEW v \in Proposable,
         Acc(msgs, i, b, v), NEW st, ~ Settled(a, i), SafeToAcknowledge(a, i, b),
         ReceiveAccept(a, i, b, v, st), NEW X, msgs' = msgs \cup X,
         X = {} \/ (st = "committed" /\ X = {AcceptedMsg(a, i, b, v)}),
         UNCHANGED <<propVars, ignored>>
  PROVE  PInv' /\ AcceptSeen(a, i, b, v, st)
<1> DEFINE x == AcceptedMsg(a, i, b, v)
           info == [promise_ballot |-> b, value_ballot |-> b, value |-> v]
<1>1. x.type = "ACCEPTED" /\ x.aid = a /\ x.iid = i /\ x.ballot = b /\ x.value = v
  BY SMT DEF AcceptedMsg
<1>2. "ACCEPTED" # "PROMISE" /\ "ACCEPTED" # "CHOSEN" /\ "ACCEPTED" # "PREPARE"
      /\ "ACCEPTED" # "ACCEPT"
  BY SMT
<1>3. X = {} \/ (st = "committed" /\ X = {x})
  OBVIOUS
<1>4. StoreInstanceInfo(a, i, info, st)
  BY DEF ReceiveAccept
<1>5. info.value_ballot = b /\ info.value = v
  BY SMT
<1> HIDE DEF x, info
<1>7. /\ Sent("PROMISE")' = Sent("PROMISE") /\ Sent("CHOSEN")' = Sent("CHOSEN")
      /\ X = {} => Sent("ACCEPTED")' = Sent("ACCEPTED")
      /\ X = {x} => Sent("ACCEPTED")' = Sent("ACCEPTED") \cup {x}
  <2>1. X = {} \/ X = {x}
    BY <1>3
  <2>2. /\ \A t : x.type # t => Sent(t)' = Sent(t)
        /\ \A t : X = {} => Sent(t)' = Sent(t)
        /\ \A t : X = {x} /\ x.type = t => Sent(t)' = Sent(t) \cup {x}
    BY <2>1, OneReply
  <2> QED  BY <1>1, <1>2, <2>2
<1>8. Told' = Told
  BY SMT, <1>7 DEF Told
<1>9. AcceptSeen(a, i, b, v, st)
  BY <1>3, <1>7, <1>8 DEF AcceptSeen, x
<1>10. VotesAsked(msgs)'
  <2>2. VoteAsked(info, i, msgs)
    BY <1>5 DEF VoteAsked
  <2> QED  BY <1>4, <2>2, VotesStored
<1>11. \A m \in X : m.type # "PREPARE" /\ m.type # "ACCEPT" /\ MsgOK(m, msgs')
  <2>1. CASE X = {}
    BY <2>1
  <2>2. CASE X = {x}
    <3>1. Acc(msgs', x.iid, x.ballot, x.value)
      BY <1>1, ReasonsGrow
    <3>2. MsgOK(x, msgs')
      BY SMT, <1>1, <3>1 DEF MsgOK
    <3> QED  BY <1>1, <1>2, <2>2, <3>2
  <2> QED  BY <1>3, <2>1, <2>2
<1>12. PInv'
  BY <1>10, <1>11, RepliesArrive
<1> QED  BY <1>9, <1>12

(* Handling a PREPARE (evacceptor_handle_prepare).                         *)
LEMMA PrepareStepKeeps ==
  ASSUME PInv, AccOK, NEW a \in Acceptors, NEW m \in Sent("PREPARE"), NEW st,
         ReceivePrepare(a, m.iid, m.ballot, st),
         msgs' = msgs \cup Unsigned(PrepareReply(a, m.iid, m.ballot, st)),
         UNCHANGED <<propVars, ignored>>
  PROVE  PInv' /\ PrepareSeen(a, m.iid, m.ballot, st)
<1> DEFINE i == m.iid
           b == m.ballot
           R == PrepareReply(a, i, b, st)
<1>1. m \in msgs /\ m.type = "PREPARE"
  BY DEF Sent
<1>2. i \in Instances /\ b \in UsedBallots /\ Prep(msgs, i, b)
  BY <1>1 DEF PInv, MsgOK, Prep
<1>3. i \in Nat /\ trim_iid[a] \in Nat
  <2>1. Instances \subseteq 1 .. (IidModulus - 1) /\ IidModulus \in Nat
    BY AcceptorAssumption
  <2>2. trim_iid[a] \in Nat
    BY DEF AccOK
  <2>3. i \in Instances
    BY <1>2
  <2> HIDE DEF i
  <2>4. i \in Nat
    BY SMT, <2>1, <2>3
  <2> QED  BY <2>2, <2>4
<1>4. /\ ReceivePrepare(a, i, b, st) /\ msgs' = msgs \cup Unsigned(R)
      /\ UNCHANGED <<propVars, ignored>>
  OBVIOUS
<1> SUFFICES PInv' /\ PrepareSeen(a, i, b, st)
  OBVIOUS
<1> HIDE DEF i, b
<1>5. Settled(a, i) \/ ~ SafeToAcknowledge(a, i, b) => UNCHANGED accVars
  BY <1>4 DEF ReceivePrepare
<1>6. CASE i <= trim_iid[a]
  <2>1. R = {TrimMsg(a)}
    BY SMT, <1>3, <1>6 DEF PrepareReply, Settled
  <2> QED  BY <1>2, <1>4, <1>5, <1>6, <2>1, TrimAnswer DEF Settled, Kept, PrepareSeen
<1>7. CASE i > trim_iid[a] /\ i \in chosen[a]
  <2>1. R = {ChosenMsg(a, i)}
    BY SMT, <1>3, <1>7 DEF PrepareReply, Settled
  <2> QED  BY <1>2, <1>4, <1>5, <1>7, <2>1, ChosenAnswer DEF Settled, Kept, PrepareSeen
<1>8. CASE ~ Settled(a, i) /\ ~ SafeToAcknowledge(a, i, b)
  <2>1. R = {PreemptedMsg(a, i, b)}
    BY <1>3, <1>8 DEF PrepareReply, Settled
  <2> QED  BY <1>2, <1>4, <1>5, <1>8, <2>1, PreemptedAnswer DEF Kept, PrepareSeen
<1>9. CASE ~ Settled(a, i) /\ SafeToAcknowledge(a, i, b) /\ st = "committed"
  <2> DEFINE x == Promised(a, i, b)
  <2>1. R = {x}
    BY <1>3, <1>9 DEF PrepareReply, Settled, Promised
  <2>2. x.type = "PROMISE"
    BY <1>2, <1>9, PromiseIsOK
  <2>3. "PROMISE" \notin {"CHOSEN", "TRIM", "PREEMPTED"}
    BY SMT
  <2> HIDE DEF x, R
  <2>4. Unsigned(R) = {x}
    BY <2>1, <2>2, <2>3, UnsignedOne
  <2>5. msgs' = msgs \cup {Promised(a, i, b)}
    BY <1>4, <2>4 DEF x
  <2> QED  BY <1>2, <1>4, <1>9, <2>5, PrepareStored
<1>10. CASE ~ Settled(a, i) /\ SafeToAcknowledge(a, i, b) /\ st # "committed"
  <2>1. R = {}
    BY <1>3, <1>10 DEF PrepareReply, Settled
  <2>2. Unsigned(R) = {}
    BY <2>1 DEF Unsigned
  <2>3. msgs' = msgs \cup {}
    BY <1>4, <2>2
  <2> QED  BY <1>2, <1>4, <1>10, <2>3, PrepareStored
<1> QED  BY SMT, <1>3, <1>6, <1>7, <1>8, <1>9, <1>10 DEF Settled

(* Handling an ACCEPT (evacceptor_handle_accept).                          *)
LEMMA AcceptStepKeeps ==
  ASSUME PInv, AccOK, NEW a \in Acceptors, NEW m \in Sent("ACCEPT"), NEW st,
         ReceiveAccept(a, m.iid, m.ballot, m.value, st),
         msgs' = msgs \cup Unsigned(AcceptReply(a, m.iid, m.ballot, m.value, st)),
         UNCHANGED <<propVars, ignored>>
  PROVE  PInv' /\ AcceptSeen(a, m.iid, m.ballot, m.value, st)
<1> DEFINE i == m.iid
           b == m.ballot
           v == m.value
           R == AcceptReply(a, i, b, v, st)
<1>1. m \in msgs /\ m.type = "ACCEPT"
  BY DEF Sent
<1>2. i \in Instances /\ b \in UsedBallots /\ v \in Proposable /\ Acc(msgs, i, b, v)
  BY <1>1 DEF PInv, MsgOK, Acc
<1>3. i \in Nat /\ trim_iid[a] \in Nat
  <2>1. Instances \subseteq 1 .. (IidModulus - 1) /\ IidModulus \in Nat
    BY AcceptorAssumption
  <2>2. trim_iid[a] \in Nat
    BY DEF AccOK
  <2>3. i \in Instances
    BY <1>2
  <2> HIDE DEF i
  <2>4. i \in Nat
    BY SMT, <2>1, <2>3
  <2> QED  BY <2>2, <2>4
<1>4. /\ ReceiveAccept(a, i, b, v, st) /\ msgs' = msgs \cup Unsigned(R)
      /\ UNCHANGED <<propVars, ignored>>
  OBVIOUS
<1> SUFFICES PInv' /\ AcceptSeen(a, i, b, v, st)
  OBVIOUS
<1> HIDE DEF i, b, v
<1>5. Settled(a, i) \/ ~ SafeToAcknowledge(a, i, b) => UNCHANGED accVars
  BY <1>4 DEF ReceiveAccept
<1>6. CASE i <= trim_iid[a]
  <2>1. R = {TrimMsg(a)}
    BY SMT, <1>3, <1>6 DEF AcceptReply, Settled
  <2> QED  BY <1>2, <1>4, <1>5, <1>6, <2>1, TrimAnswer DEF Settled, Kept, AcceptSeen
<1>7. CASE i > trim_iid[a] /\ i \in chosen[a]
  <2>1. R = {ChosenMsg(a, i)}
    BY SMT, <1>3, <1>7 DEF AcceptReply, Settled
  <2> QED  BY <1>2, <1>4, <1>5, <1>7, <2>1, ChosenAnswer DEF Settled, Kept, AcceptSeen
<1>8. CASE ~ Settled(a, i) /\ ~ SafeToAcknowledge(a, i, b)
  <2>1. R = {PreemptedMsg(a, i, b)}
    BY <1>3, <1>8 DEF AcceptReply, Settled
  <2> QED  BY <1>2, <1>4, <1>5, <1>8, <2>1, PreemptedAnswer DEF Kept, AcceptSeen
<1>9. CASE ~ Settled(a, i) /\ SafeToAcknowledge(a, i, b) /\ st = "committed"
  <2> DEFINE x == AcceptedMsg(a, i, b, v)
  <2>1. R = {x}
    BY <1>3, <1>9 DEF AcceptReply, Settled
  <2>2. x.type = "ACCEPTED"
    BY SMT DEF AcceptedMsg
  <2>3. "ACCEPTED" \notin {"CHOSEN", "TRIM", "PREEMPTED"}
    BY SMT
  <2> HIDE DEF x, R
  <2>4. Unsigned(R) = {x}
    BY <2>1, <2>2, <2>3, UnsignedOne
  <2>5. msgs' = msgs \cup {AcceptedMsg(a, i, b, v)}
    BY <1>4, <2>4 DEF x
  <2> QED  BY <1>2, <1>4, <1>9, <2>5, AcceptStored
<1>10. CASE ~ Settled(a, i) /\ SafeToAcknowledge(a, i, b) /\ st # "committed"
  <2>1. R = {}
    BY <1>3, <1>10 DEF AcceptReply, Settled
  <2>2. Unsigned(R) = {}
    BY <2>1 DEF Unsigned
  <2>3. msgs' = msgs \cup {}
    BY <1>4, <2>2
  <2> QED  BY <1>2, <1>4, <1>10, <2>3, AcceptStored
<1> QED  BY SMT, <1>3, <1>6, <1>7, <1>8, <1>9, <1>10 DEF Settled

(* A CHOSEN overwrites the record it closes; what it opens again is blank. *)
LEMMA VotesAfterChosen ==
  ASSUME PInv, AccOK, msgs' = msgs, NEW a \in Acceptors, NEW i \in Instances, NEW b, NEW v,
         ReceiveChosen(a, i, b, v)
  PROVE  VotesAsked(msgs)'
<1> DEFINE c == chosen[a] \cup {i}
           k == AdvanceMinChosen(min_chosen_instance[a], c, i)
           m == [mem[a] EXCEPT ![i] = [promise_ballot |-> mem[a][i].promise_ballot,
                                       value_ballot |-> b, value |-> v]]
           erased == {j \in Instances : j < ToTrimFrom(k)}
<1>1. /\ mem \in [Acceptors -> [Instances -> StoredInfo]]
      /\ chosen \in [Acceptors -> SUBSET Instances]
  BY DEF AccOK
<1>2. EmptyInfo.value_ballot = INVALID_BALLOT
  BY SMT DEF EmptyInfo
<1>3. disk' = disk
  BY DEF ReceiveChosen, accVars
<1>4. \A j \in Instances : j # i => m[j] = mem[a][j]
  BY <1>1
<1>5. CASE UNCHANGED accVars
  BY <1>5, VotesStayAsked DEF PInv
<1>6. CASE TrimTo(a, k, m, c)
  <2>1. /\ mem' = [mem EXCEPT ![a] = [j \in Instances |-> IF j \in erased THEN EmptyInfo ELSE m[j]]]
        /\ chosen' = [chosen EXCEPT ![a] = c \ erased]
    BY <1>6 DEF TrimTo
  <2> HIDE DEF m, erased, k
  <2>2. ASSUME NEW d \in Acceptors, NEW j \in Instances
        PROVE  /\ j \notin chosen'[d] => VoteAsked(mem'[d][j], j, msgs)
               /\ VoteAsked(disk'[d][j], j, msgs)
    <3>1. /\ j \notin chosen[d] => VoteAsked(mem[d][j], j, msgs)
          /\ VoteAsked(disk[d][j], j, msgs)
      BY DEF PInv, VotesAsked
    <3>2. CASE d # a
      <4>1. chosen'[d] = chosen[d] /\ mem'[d] = mem[d]
        BY <1>1, <2>1, <3>2
      <4> QED  BY <1>3, <3>1, <4>1
    <3>3. CASE d = a
      <4>1. /\ chosen'[d] = c \ erased
            /\ mem'[d][j] = IF j \in erased THEN EmptyInfo ELSE m[j]
        BY <1>1, <2>1, <3>3
      <4>2. CASE j \in erased
        <5>1. mem'[d][j] = EmptyInfo
          BY <4>1, <4>2
        <5> QED  BY <1>2, <1>3, <3>1, <5>1 DEF VoteAsked
      <4>3. CASE j \notin erased
        <5>1. mem'[d][j] = m[j]
          BY <4>1, <4>3
        <5>2. j \notin chosen'[d] => j # i /\ j \notin chosen[d]
          BY <3>3, <4>1, <4>3
        <5> QED  BY <1>3, <1>4, <3>1, <3>3, <5>1, <5>2
      <4> QED  BY <4>2, <4>3
    <3> QED  BY <3>2, <3>3
  <2> QED  BY <2>2 DEF VotesAsked, VoteAsked
<1>7. CASE mem' = [mem EXCEPT ![a] = m] /\ chosen' = [chosen EXCEPT ![a] = c]
  <2> HIDE DEF m
  <2>2. ASSUME NEW d \in Acceptors, NEW j \in Instances
        PROVE  /\ j \notin chosen'[d] => VoteAsked(mem'[d][j], j, msgs)
               /\ VoteAsked(disk'[d][j], j, msgs)
    <3>1. /\ j \notin chosen[d] => VoteAsked(mem[d][j], j, msgs)
          /\ VoteAsked(disk[d][j], j, msgs)
      BY DEF PInv, VotesAsked
    <3>2. CASE d # a
      <4>1. chosen'[d] = chosen[d] /\ mem'[d] = mem[d]
        BY <1>1, <1>7, <3>2
      <4> QED  BY <1>3, <3>1, <4>1
    <3>3. CASE d = a
      <4>1. chosen'[d] = c /\ mem'[d] = m
        BY <1>1, <1>7, <3>3
      <4>2. j \notin chosen'[d] => j # i /\ j \notin chosen[d]
        BY <3>3, <4>1
      <4> QED  BY <1>3, <1>4, <3>1, <3>3, <4>1, <4>2
    <3> QED  BY <3>2, <3>3
  <2> QED  BY <2>2 DEF VotesAsked, VoteAsked
<1> QED  BY <1>5, <1>6, <1>7 DEF ReceiveChosen

(* Nothing is sent and nothing asked for: what is left is the votes on      *)
(* record.                                                                 *)
LEMMA Silently ==
  ASSUME PInv, UNCHANGED <<propVars, ignored>>, msgs' = msgs, VotesAsked(msgs)'
  PROVE  PInv'
<1> DEFINE X == {}
<1>1. msgs' = msgs \cup X
  OBVIOUS
<1>2. \A m \in X : m.type # "PREPARE" /\ m.type # "ACCEPT" /\ MsgOK(m, msgs')
  OBVIOUS
<1> HIDE DEF X
<1> QED  BY <1>1, <1>2, RepliesArrive

(* What the acceptors see of a CHOSEN and of a restart.                    *)
NothingSent ==
  /\ Told' = Told /\ Sent("CHOSEN")' = Sent("CHOSEN")
  /\ Sent("PROMISE")' = Sent("PROMISE") /\ Sent("ACCEPTED")' = Sent("ACCEPTED")

(* Without new messages nothing was said.                                  *)
LEMMA NothingSaid ==
  ASSUME msgs' = msgs
  PROVE  NothingSent
<1>1. /\ Sent("CHOSEN")' = Sent("CHOSEN") /\ Sent("PROMISE")' = Sent("PROMISE")
      /\ Sent("ACCEPTED")' = Sent("ACCEPTED")
  BY DEF Sent
<1>2. Told' = Told
  BY SMT, <1>1 DEF Told
<1> QED  BY <1>1, <1>2 DEF NothingSent

(* Handling a CHOSEN (evacceptor_handle_chosen): the acceptor is told what *)
(* was decided.                                                            *)
LEMMA ChosenStepKeeps ==
  ASSUME PInv, AccOK, NEW a \in Acceptors, NEW m \in Sent("CHOSEN"),
         ReceiveChosen(a, m.iid, m.ballot, m.value), msgs' = msgs,
         UNCHANGED <<propVars, ignored>>
  PROVE  /\ PInv' /\ NothingSent
         /\ m.iid \in Instances /\ m.ballot \in UsedBallots /\ m.value \in Proposable
         /\ [aid |-> a, iid |-> m.iid, ballot |-> m.ballot, value |-> m.value] \in Told
<1>1. m \in msgs /\ m.type = "CHOSEN"
  BY DEF Sent
<1>2. m.iid \in Instances /\ m.ballot \in UsedBallots /\ m.value \in Proposable
  BY <1>1 DEF PInv, MsgOK
<1>3. [aid |-> a, iid |-> m.iid, ballot |-> m.ballot, value |-> m.value] \in Told
  BY SMT DEF Told
<1>4. VotesAsked(msgs)'
  BY <1>2, VotesAfterChosen
<1> QED  BY <1>2, <1>3, <1>4, Silently, NothingSaid

(* A restart reads the records back from disk.                             *)
LEMMA RestartStepKeeps ==
  ASSUME PInv, AccOK, NEW a \in Acceptors, Restart(a), msgs' = msgs,
         UNCHANGED <<propVars, ignored>>
  PROVE  PInv' /\ NothingSent
<1>1. VotesAsked(msgs)'
  <2>1. /\ mem \in [Acceptors -> [Instances -> StoredInfo]]
        /\ chosen \in [Acceptors -> SUBSET Instances]
    BY DEF AccOK
  <2>2. /\ disk' = disk /\ mem' = [mem EXCEPT ![a] = disk[a]]
        /\ chosen' = [chosen EXCEPT ![a] = {}]
    BY DEF Restart
  <2>3. \A d \in Acceptors : \/ mem'[d] = mem[d] /\ chosen'[d] = chosen[d]
                             \/ mem'[d] = disk[d]
    BY <2>1, <2>2
  <2>4. \A d \in Acceptors, j \in Instances :
          /\ j \notin chosen[d] => VoteAsked(mem[d][j], j, msgs)
          /\ VoteAsked(disk[d][j], j, msgs)
    BY DEF PInv, VotesAsked
  <2>5. \A d \in Acceptors, j \in Instances :
          /\ j \notin chosen'[d] => VoteAsked(mem'[d][j], j, msgs)
          /\ VoteAsked(disk'[d][j], j, msgs)
    BY <2>2, <2>3, <2>4
  <2> QED  BY <2>5 DEF VotesAsked, VoteAsked
<1> QED  BY <1>1, Silently, NothingSaid

-----------------------------------------------------------------------------
(* The learners count each acceptor once.                                  *)
LEMMA LearnersCount ==
  ASSUME PInv, NEW i, NEW b, NEW v
  PROVE  AcceptedBy(i, b, v) = Voters(msgs, i, b, v)
<1>1. \A m \in Sent("ACCEPTED") : m \in msgs /\ m.type = "ACCEPTED" /\ m.aid \in Acceptors
  BY DEF PInv, MsgOK, Sent
<1>2. \A m \in msgs : m.type = "ACCEPTED" => m \in Sent("ACCEPTED")
  BY DEF Sent
<1>3. ASSUME NEW a \in AcceptedBy(i, b, v)  PROVE a \in Voters(msgs, i, b, v)
  BY <1>1, <1>3 DEF AcceptedBy, Voters
<1>4. ASSUME NEW a \in Voters(msgs, i, b, v)  PROVE a \in AcceptedBy(i, b, v)
  BY <1>2, <1>4 DEF AcceptedBy, Voters
<1> QED  BY <1>3, <1>4

(* A vote that was sent was asked for.                                     *)
LEMMA VoteFields ==
  ASSUME PInv, NEW n \in Sent("ACCEPTED")
  PROVE  /\ n.aid \in Acceptors /\ Acc(msgs, n.iid, n.ballot, n.value)
         /\ n.iid \in Instances /\ n.ballot \in UsedBallots /\ n.value \in Proposable
<1>1. n \in msgs /\ n.type = "ACCEPTED"
  BY DEF Sent
<1>2. n.aid \in Acceptors /\ Acc(msgs, n.iid, n.ballot, n.value)
  BY <1>1 DEF PInv, MsgOK
<1> QED  BY <1>2, AcceptFields

(* What the acceptors see of an announcement: they may all be told of it.  *)
Newly(i, b, v, t) ==
  /\ i \in Instances /\ b \in UsedBallots /\ v \in Proposable
  /\ \E a \in Acceptors : t = [aid |-> a, iid |-> i, ballot |-> b, value |-> v]

Announces ==
  /\ UNCHANGED accVars /\ Told \subseteq Told'
  /\ Sent("PROMISE")' = Sent("PROMISE") /\ Sent("ACCEPTED")' = Sent("ACCEPTED")
  /\ \E i, b, v : \A t \in Told' : t \in Told \/ Newly(i, b, v, t)

(* A learner announces what q2 acceptors accepted.                         *)
LEMMA LearnerStepKeeps ==
  ASSUME PInv, LearnerChosen
  PROVE  PInv' /\ Announces
<1>1. PICK n \in Sent("ACCEPTED") :
        /\ ChosenAt(n.iid, n.ballot, n.value)
        /\ msgs' = msgs \cup {[type |-> "CHOSEN", aid |-> NULL, iid |-> n.iid,
                               ballot |-> n.ballot, value |-> n.value]}
  BY DEF LearnerChosen
<1>2. UNCHANGED <<propVars, ignored>> /\ UNCHANGED accVars
  BY DEF LearnerChosen
<1> DEFINE i == n.iid
           b == n.ballot
           v == n.value
           x == [type |-> "CHOSEN", aid |-> NULL, iid |-> i, ballot |-> b, value |-> v]
           X == {x}
<1>3. i \in Instances /\ b \in UsedBallots /\ v \in Proposable
  BY VoteFields
<1>4. DecidedAt(msgs, i, b, v)
  BY <1>1, LearnersCount DEF ChosenAt, DecidedAt
<1>5. x.type = "CHOSEN" /\ x.iid = i /\ x.ballot = b /\ x.value = v /\ msgs' = msgs \cup X
  BY <1>1
<1>6. /\ "CHOSEN" # "PREPARE" /\ "CHOSEN" # "ACCEPT" /\ "CHOSEN" # "PROMISE"
      /\ "CHOSEN" # "ACCEPTED"
  BY SMT
<1> HIDE DEF i, b, v, x
<1>7. DecidedAt(msgs', i, b, v)
  BY <1>4, <1>5, DecisionsGrow
<1>8. MsgOK(x, msgs')
  BY SMT, <1>3, <1>5, <1>7 DEF MsgOK
<1>9. /\ Sent("PROMISE")' = Sent("PROMISE") /\ Sent("ACCEPTED")' = Sent("ACCEPTED")
      /\ Sent("CHOSEN")' = Sent("CHOSEN") \cup {x}
  <2>1. /\ \A t : x.type # t => Sent(t)' = Sent(t)
        /\ \A t : X = {x} /\ x.type = t => Sent(t)' = Sent(t) \cup {x}
    BY <1>5, OneReply
  <2> QED  BY <1>5, <1>6, <2>1
<1>10. ASSUME NEW t \in Told'  PROVE t \in Told \/ Newly(i, b, v, t)
  <2>1. PICK a \in Acceptors, m \in Sent("CHOSEN") \cup {x} :
          t = [aid |-> a, iid |-> m.iid, ballot |-> m.ballot, value |-> m.value]
    BY SMT, <1>9, <1>10 DEF Told
  <2>2. CASE m \in Sent("CHOSEN")
    BY SMT, <2>1, <2>2 DEF Told
  <2>3. CASE m = x
    <3>1. t = [aid |-> a, iid |-> i, ballot |-> b, value |-> v]
      BY <1>5, <2>1, <2>3
    <3> QED  BY <1>3, <3>1 DEF Newly
  <2> QED  BY <2>2, <2>3
<1>11. Told \subseteq Told'
  BY SMT, <1>9 DEF Told
<1>12. VotesAsked(msgs)'
  <2>1. msgs \subseteq msgs'
    BY <1>5
  <2> QED  BY <1>2, <2>1, VotesStayAsked DEF PInv
<1>13. \A m \in X : m.type # "PREPARE" /\ m.type # "ACCEPT" /\ MsgOK(m, msgs')
  BY <1>5, <1>6, <1>8
<1> HIDE DEF X
<1>14. PInv'
  BY <1>2, <1>5, <1>12, <1>13, RepliesArrive
<1> QED  BY <1>2, <1>9, <1>10, <1>11, <1>14 DEF Announces
(* A stuttering step.                                                      *)
LEMMA StutterKeeps ==
  ASSUME PInv, UNCHANGED vars
  PROVE  Kept
<1>1. UNCHANGED <<propVars, ignored>> /\ UNCHANGED accVars /\ msgs' = msgs
  BY DEF vars
<1>2. msgs \subseteq msgs'
  BY <1>1
<1>3. VotesAsked(msgs)'
  BY <1>1, <1>2, VotesStayAsked DEF PInv
<1> QED  BY <1>1, <1>3, Silently, NothingSaid DEF Kept, NothingSent

-----------------------------------------------------------------------------
(* A proposer that was handed client values and has opened nothing.        *)
Queued(p) == [NewProposer EXCEPT !.manager.client_values_to_propose = Submitted[p]]

(* It has prepared and proposed nothing.                                   *)
LEMMA QueuedOrder ==
  ASSUME NEW p \in Proposers
  PROVE  /\ OrderInv(Proposable, p, Queued(p), {}, {})
         /\ \A i \in Instances : /\ Queued(p).prepare_phase[i] = NULL
                                 /\ Queued(p).accept_phase[i] = NULL
         /\ Queued(p).chosens = {} /\ Queued(p).trim_instance = 0
<1> DEFINE s == Queued(p)
           none == [i \in Instances |-> NULL]
           m == [client_values_to_propose |-> Submitted[p], values_proposed |-> <<>>,
                 noop |-> "off"]
<1>1. s = [trim_instance |-> 0, next_prepare_instance |-> 1, max_chosen_instance |-> 0,
           chosens |-> {}, prepare_phase |-> none, accept_phase |-> none, manager |-> m]
  <2>1. [NewManager EXCEPT !.client_values_to_propose = Submitted[p]] = m
    BY SMT DEF NewManager
  <2>2. NewProposer.manager = NewManager
    BY DEF NewProposer
  <2>3. s = [NewProposer EXCEPT !.manager = m]
    BY <2>1, <2>2 DEF Queued
  <2> HIDE DEF m, none
  <2>4. NewProposer = [trim_instance |-> 0, next_prepare_instance |-> 1, max_chosen_instance |-> 0,
           chosens |-> {}, prepare_phase |-> none, accept_phase |-> none, manager |-> NewManager]
    BY DEF NewProposer, none
  <2> HIDE DEF s
  <2> QED  BY SMT, <2>3, <2>4
<1>2. Submitted[p] \in Seq(Proposable)
  <2>1. Submitted[p] \in Seq(Values)
    BY CompositionAssumption
  <2>2. Values \subseteq Proposable
    BY DEF Proposable
  <2> HIDE DEF Proposable
  <2> QED  BY SMT, <2>1, <2>2
<1>3. m \in Manager(Proposable)
  <2>1. <<>> \in Seq(Proposable)
    BY SMT
  <2> QED  BY <1>2, <2>1 DEF Manager
<1>4. none \in Phase(Proposable)
  BY DEF Phase
<1> HIDE DEF m, none
<1>5. s \in ProposerState(Proposable)
  <2>1. 0 \in Nat /\ 1 \in Nat /\ {} \in SUBSET Instances
    BY SMT
  <2> HIDE DEF s
  <2> QED  BY SMT, <1>1, <1>3, <1>4, <2>1 DEF ProposerState
<1> HIDE DEF s
<1>6. /\ s.prepare_phase = none /\ s.accept_phase = none /\ s.chosens = {}
      /\ s.trim_instance = 0
  BY <1>1
<1>7. \A i \in Instances : s.prepare_phase[i] = NULL /\ s.accept_phase[i] = NULL
  BY <1>6 DEF none
<1>8. \A i, c : ~ Prep({}, i, c) /\ \A v : ~ Acc({}, i, c, v)
  BY DEF Prep, Acc
<1>9. OrderInv(Proposable, p, s, {}, {})
  <2>1. \A i \in Instances :
          EntryOrder(Proposable, p, i, s.prepare_phase[i], s.accept_phase[i],
                     s.next_prepare_instance, {}, {})
    BY <1>7, <1>8 DEF EntryOrder, Untouched
  <2>2. OneValue(Proposable, p, {})
    BY <1>8 DEF OneValue
  <2> QED  BY <1>5, <2>1, <2>2 DEF OrderInv
<1> QED  BY <1>6, <1>7, <1>9 DEF s

(* Where a proposer stands when it has opened its first window.            *)
Begun(p, r) ==
  /\ r.out \in SUBSET PrepareMsgs(p)
  /\ OrderInv(Proposable, p, r.s, r.out, r.delayed)
  /\ Fresh(Queued(p), r.s)

(* Every proposer begins so.                                               *)
LEMMA OpenedBegins ==
  ASSUME NEW p \in Proposers, NEW draw \in Draws(p)
  PROVE  Begun(p, Opened(p, draw))
<1> DEFINE r == Preexecute(p, Queued(p), PreexecWindowMax, draw)
<1>1. Opened(p, draw) = r
  BY DEF Opened, Queued
<1>2. OrderInv(Proposable, p, Queued(p), {}, {}) /\ PreexecWindowMax \in Nat
  BY QueuedOrder, EvProposerAssumption
<1>3. r \in Opens(Proposable, p, Queued(p), {}, {})
  BY <1>2, PreexecuteOpens
<1> HIDE DEF r
<1>4. /\ r.out \in SUBSET PrepareMsgs(p)
      /\ OrderInv(Proposable, p, r.s, {} \cup r.out, {} \cup r.delayed)
      /\ Fresh(Queued(p), r.s)
  BY <1>3 DEF Opens, Opening
<1>5. {} \cup r.out = r.out /\ {} \cup r.delayed = r.delayed
  OBVIOUS
<1> QED  BY <1>1, <1>4, <1>5 DEF Begun

(* A proposer's part of the invariant, when all have begun.                *)
LEMMA BegunKeeps ==
  ASSUME NEW r, \A q \in Proposers : Begun(q, r[q]),
         NEW M, M = UNION {r[q].out : q \in Proposers}, NEW p \in Proposers
  PROVE  PropInv(p, r[p].s, M, r[p].delayed, FALSE)
<1> DEFINE s == r[p].s
           out == r[p].out
           R == r[p].delayed
<1>1. /\ out \in SUBSET PrepareMsgs(p) /\ OrderInv(Proposable, p, s, out, R)
      /\ Fresh(Queued(p), s)
  BY DEF Begun
<1>2. \A q \in Proposers : \A m \in r[q].out : m.ballot \in BallotsOf(q) /\ m.type # "ACCEPT"
  <2>1. ASSUME NEW q \in Proposers, NEW m \in r[q].out
        PROVE  m.ballot \in BallotsOf(q) /\ m.type # "ACCEPT"
    <3>1. m \in PrepareMsgs(q)
      BY <2>1 DEF Begun
    <3> QED  BY SMT, <3>1 DEF PrepareMsgs, PrepareMsg
  <2> QED  BY <2>1
<1>3. \A i, c, v : ~ Acc(M, i, c, v) /\ ~ Acc(out, i, c, v)
  BY <1>2 DEF Acc
<1>4. \A i : \A c \in BallotsOf(p) : Prep(M, i, c) => Prep(out, i, c)
  <2>1. ASSUME NEW i, NEW c \in BallotsOf(p), Prep(M, i, c)  PROVE Prep(out, i, c)
    <3>1. PICK m \in M : m.type = "PREPARE" /\ m.iid = i /\ m.ballot = c
      BY <2>1 DEF Prep
    <3>2. PICK q \in Proposers : m \in r[q].out
      OBVIOUS
    <3>3. q = p
      BY <1>2, <2>1, <3>1, <3>2, UsedIsBallot
    <3> QED  BY <3>1, <3>2, <3>3 DEF Prep
  <2> QED  BY <2>1
<1> HIDE DEF s, out, R
<1>5. OrderInv(Proposable, p, s, M, R)
  <2>1. \A i \in Instances : Same(Proposable, p, i, out, R, M, R)
    BY <1>3, <1>4 DEF Same
  <2> QED  BY <1>1, <2>1, OrderSame
<1>6. ReasonInv(Proposable, p, s, M, FALSE)
  <2>1. \A i \in Instances : s.prepare_phase[i] # NULL =>
          s.prepare_phase[i].acks = {} /\ s.prepare_phase[i].last_accepted_value = NULL
    BY <1>1, QueuedOrder DEF Fresh
  <2>2. \A i \in Instances : s.accept_phase[i] = NULL
    BY <1>1, QueuedOrder DEF Fresh
  <2>3. \A i \in Instances : s.prepare_phase[i] # NULL =>
          PrepareReason(i, s.prepare_phase[i], M, FALSE)
    BY <2>1, FreshReason
  <2> QED  BY <1>3, <2>2, <2>3 DEF ReasonInv
<1>7. ClosedInv(s, M)
  <2>1. s.chosens = {} /\ s.trim_instance = 0
    BY <1>1, QueuedOrder DEF Fresh
  <2>2. \A i \in Instances : ~ (i <= 0)
    BY SMT, ProposerAssumption
  <2> QED  BY <2>1, <2>2 DEF ClosedInv
<1>8. PropInv(p, s, M, R, FALSE)
  BY <1>5, <1>6, <1>7 DEF PropInv
<1> QED  BY <1>8 DEF s, R

(* The system starts in a state of the invariant.                          *)
LEMMA InitKeeps ==
  ASSUME Init
  PROVE  /\ PInv /\ AccInit
         /\ Told = {} /\ Sent("PROMISE") = {} /\ Sent("ACCEPTED") = {}
<1>1. PICK draw \in [Proposers -> UNION {Draws(p) : p \in Proposers}] :
        /\ \A p \in Proposers : draw[p] \in Draws(p)
        /\ proposer = [p \in Proposers |-> Opened(p, draw[p]).s]
        /\ retries = [p \in Proposers |-> Opened(p, draw[p]).delayed]
        /\ msgs = UNION {Opened(p, draw[p]).out : p \in Proposers}
  BY DEF Init
<1>2. /\ preexec_window = [p \in Proposers |-> PreexecWindowMax] /\ AccInit /\ ignored = FALSE
  BY DEF Init
<1> DEFINE r == [p \in Proposers |-> Opened(p, draw[p])]
<1>3. \A p \in Proposers : r[p] = Opened(p, draw[p]) /\ Begun(p, r[p])
  BY <1>1, OpenedBegins
<1> HIDE DEF r
<1>4. msgs = UNION {r[p].out : p \in Proposers}
  BY <1>1, <1>3
<1>5. \A p \in Proposers : PropInv(p, r[p].s, msgs, r[p].delayed, FALSE)
  BY <1>3, <1>4, BegunKeeps
<1>6. \A p \in Proposers : proposer[p] = r[p].s /\ retries[p] = r[p].delayed
  BY <1>1, <1>3
<1>7. \A p \in Proposers : PropInv(p, proposer[p], msgs, retries[p], ignored)
  BY <1>2, <1>5, <1>6
<1>8. ASSUME NEW m \in msgs  PROVE m.type = "PREPARE" /\ MsgOK(m, msgs)
  <2>1. PICK p \in Proposers : m \in r[p].out
    BY <1>4
  <2>2. m \in PrepareMsgs(p)
    BY <1>3, <2>1 DEF Begun
  <2>3. m.type = "PREPARE" /\ m.iid \in Instances /\ m.ballot \in BallotsOf(p)
    BY SMT, <2>2 DEF PrepareMsgs, PrepareMsg
  <2>4. m.ballot \in UsedBallots
    BY <2>3, UsedIsBallot
  <2> QED  BY SMT, <2>3, <2>4 DEF MsgOK
<1>9. Sent("CHOSEN") = {} /\ Sent("PROMISE") = {} /\ Sent("ACCEPTED") = {}
  <2>1. "PREPARE" # "CHOSEN" /\ "PREPARE" # "PROMISE" /\ "PREPARE" # "ACCEPTED"
    BY SMT
  <2> QED  BY <1>8, <2>1 DEF Sent
<1>10. Told = {}
  BY SMT, <1>9 DEF Told
<1>11. VotesAsked(msgs)
  <2>1. EmptyInfo.value_ballot = INVALID_BALLOT
    BY SMT DEF EmptyInfo
  <2>2. \A a \in Acceptors, i \in Instances : mem[a][i] = EmptyInfo /\ disk[a][i] = EmptyInfo
    BY <1>2 DEF AccInit
  <2> QED  BY <2>1, <2>2 DEF VotesAsked, VoteAsked
<1>12. /\ DOMAIN proposer = Proposers /\ DOMAIN retries = Proposers
       /\ \A p \in Proposers : preexec_window[p] \in Nat
       /\ ignored \in BOOLEAN
  BY <1>1, <1>2, EvProposerAssumption
<1>13. PInv
  BY <1>7, <1>8, <1>11, <1>12 DEF PInv
<1> QED  BY <1>2, <1>9, <1>10, <1>13

-----------------------------------------------------------------------------
(* Some acceptor of Q voted for v in i at ballot b.                        *)
Voted(Q, i, b, v) ==
  \E a \in Q, n \in Sent("ACCEPTED") : n.aid = a /\ n.iid = i /\ n.ballot = b /\ n.value = v

(* A quorum of votes has a voter.                                          *)
LEMMA DecisionHasVoter ==
  ASSUME NEW i, NEW b, NEW v, DecidedAt(msgs, i, b, v)
  PROVE  Voted(Acceptors, i, b, v)
<1> DEFINE X == Voters(msgs, i, b, v)
<1>1. Cardinality(Acceptors) \in Nat
  BY CompositionAssumption, FS_CardinalityType
<1>2. q2 \in Nat /\ q2 + q2 > Cardinality(Acceptors)
  BY ProposerAssumption, CompositionAssumption
<1>3. Cardinality(X) >= q2
  BY DEF DecidedAt
<1>4. X # {}
  <2> SUFFICES ASSUME X = {} PROVE FALSE
    OBVIOUS
  <2>1. Cardinality(X) = 0
    BY FS_EmptySet
  <2> HIDE DEF X
  <2> QED  BY SMT, <1>1, <1>2, <1>3, <2>1
<1>5. PICK a \in Acceptors : a \in X
  BY <1>4 DEF Voters
<1> QED  BY <1>5 DEF Voters, Voted, Sent

(* Some acceptor of a quorum of phase 1 voted in every quorum of votes.    *)
LEMMA QuorumsMeet ==
  ASSUME NEW Q \in SUBSET Acceptors, Cardinality(Q) >= q1 \/ Cardinality(Q) >= q2,
         NEW i, NEW b, NEW v, DecidedAt(msgs, i, b, v)
  PROVE  Voted(Q, i, b, v)
<1> DEFINE X == Voters(msgs, i, b, v)
<1>1. X \in SUBSET Acceptors
  BY DEF Voters
<1>2. Cardinality(X) >= q2
  BY DEF DecidedAt
<1> HIDE DEF X
<1>3. /\ IsFiniteSet(Q) /\ IsFiniteSet(X) /\ IsFiniteSet(Acceptors)
      /\ IsFiniteSet(Q \cup X) /\ Cardinality(Q \cup X) <= Cardinality(Acceptors)
  <2>1. IsFiniteSet(Acceptors) /\ Q \cup X \subseteq Acceptors
    BY <1>1, CompositionAssumption
  <2>2. IsFiniteSet(Q) /\ IsFiniteSet(X)
    BY <1>1, <2>1, FS_Subset
  <2> QED  BY <2>1, <2>2, FS_Subset
<1>4. Cardinality(Q \cup X) = Cardinality(Q) + Cardinality(X) - Cardinality(Q \cap X)
  BY <1>3, FS_Union
<1>5. Q \cap X # {}
  <2> SUFFICES ASSUME Q \cap X = {} PROVE FALSE
    OBVIOUS
  <2>1. Cardinality(Q \cap X) = 0
    BY FS_EmptySet
  <2>2. /\ Cardinality(Q) \in Nat /\ Cardinality(X) \in Nat /\ Cardinality(Acceptors) \in Nat
        /\ Cardinality(Q \cup X) \in Nat /\ q1 \in Nat /\ q2 \in Nat
    BY <1>3, FS_CardinalityType, ProposerAssumption
  <2>3. q1 + q2 > Cardinality(Acceptors) /\ q2 + q2 > Cardinality(Acceptors)
    BY CompositionAssumption
  <2> QED  BY SMT, <1>2, <1>3, <1>4, <2>1, <2>2, <2>3
<1>6. PICK a \in Q : a \in X
  BY <1>5
<1> QED  BY <1>6 DEF X, Voters, Voted, Sent

(* Promises report the votes below them: module EvStandardAcceptorProofs   *)
(* proves it of the records no acceptor lost.                              *)
Reported(i) ==
  \A m \in Sent("PROMISE"), n \in Sent("ACCEPTED") :
    m.aid = n.aid /\ m.iid = i /\ n.iid = i /\ ballot_greater_than(m.ballot, n.ballot)
    => geq(m.value_ballot, n.ballot)

(* Paxos' argument: what is proposed at or above the ballot of a decision  *)
(* is what was decided.  At the lowest ballot c where it is not, the       *)
(* quorum that promised c met the quorum of the decision, in an acceptor   *)
(* whose promise reported its vote.                                        *)
LEMMA ProposedIsDecided ==
  ASSUME PInv, ~ ignored, NEW i \in Instances, Reported(i),
         NEW b \in UsedBallots, NEW v \in Proposable, DecidedAt(msgs, i, b, v)
  PROVE  \A c \in UsedBallots, w \in Proposable :
           Acc(msgs, i, c, w) /\ geq(c, b) => w = v
<1> DEFINE Bad == {c \in UsedBallots : geq(c, b) /\ \E w \in Proposable :
                                         w # v /\ Acc(msgs, i, c, w)}
<1> SUFFICES ASSUME Bad # {} PROVE FALSE
  OBVIOUS
<1>1. Bad \subseteq Ballot /\ Bad \subseteq UsedBallots /\ b \in Ballot
  BY UsedIsBallot
<1>2. PICK c \in Bad : \A d \in Bad : geq(d, c)
  <2> HIDE DEF Bad
  <2> QED  BY <1>1, LeastBallot
<1>3. PICK w \in Proposable : w # v /\ Acc(msgs, i, c, w)
  OBVIOUS
<1>4. c \in UsedBallots /\ c \in Ballot /\ geq(c, b)
  BY <1>1
<1> DEFINE p == c.proposer_id
<1>5. p \in Proposers /\ c \in BallotsOf(p)
  BY <1>4 DEF UsedBallots, BallotsOf
<1>6. /\ OrderInv(Proposable, p, proposer[p], msgs, retries[p])
      /\ ReasonInv(Proposable, p, proposer[p], msgs, ignored)
  BY <1>5, ProposerParts
<1> HIDE DEF p
<1>7. CASE c = b
  <2>1. Voted(Acceptors, i, b, v)
    BY DecisionHasVoter
  <2>2. Acc(msgs, i, c, v)
    BY <1>7, <2>1, VoteFields DEF Voted
  <2> QED  BY <1>3, <1>5, <1>6, <2>2 DEF OrderInv, OneValue
<1>8. CASE c # b
  <2>1. ballot_greater_than(c, b)
    BY <1>1, <1>4, <1>8, BallotOrder
  <2>2. Safe(msgs, i, c, w)
    BY <1>3, <1>5, <1>6 DEF ReasonInv
  <2>3. PICK Q \in SUBSET Acceptors :
          (Cardinality(Q) >= q1 \/ Cardinality(Q) >= q2) /\ Reason(msgs, i, c, w, Q)
    BY <2>2 DEF Safe
  <2>4. Voted(Q, i, b, v)
    BY <2>3, QuorumsMeet
  <2>5. PICK a \in Q, n \in Sent("ACCEPTED") :
          n.aid = a /\ n.iid = i /\ n.ballot = b /\ n.value = v
    BY <2>4 DEF Voted
  <2>6. ASSUME NEW vb, Prom(msgs, a, i, c, vb)  PROVE geq(vb, b)
    <3>1. PICK m \in Sent("PROMISE") :
            m.aid = a /\ m.iid = i /\ m.ballot = c /\ m.value_ballot = vb
      BY <2>6 DEF Prom, Sent
    <3> QED  BY <2>1, <2>5, <3>1 DEF Reported
  <2>7. CASE \A e \in Q : Prom(msgs, e, i, c, INVALID_BALLOT)
    <3>1. geq(INVALID_BALLOT, b)
      BY <2>6, <2>7
    <3>2. INVALID_BALLOT \in Ballot /\ b # INVALID_BALLOT
      <4>1. INVALID_BALLOT \in Ballot
        BY SMT DEF INVALID_BALLOT, Ballot
      <4> QED  BY <4>1, UsedIsBallot
    <3>3. ballot_greater_than(b, INVALID_BALLOT)
      BY <1>1, <3>2, BallotOrder
    <3> QED  BY <1>1, <3>1, <3>2, <3>3, BallotOrder
  <2>8. CASE \E d \in UsedBallots :
               /\ ballot_greater_than(c, d) /\ Acc(msgs, i, d, w)
               /\ \A e \in Q : \E vb \in Ballot : Prom(msgs, e, i, c, vb) /\ geq(d, vb)
    <3>1. PICK d \in UsedBallots :
               /\ ballot_greater_than(c, d) /\ Acc(msgs, i, d, w)
               /\ \A e \in Q : \E vb \in Ballot : Prom(msgs, e, i, c, vb) /\ geq(d, vb)
      BY <2>8
    <3>2. PICK vb \in Ballot : Prom(msgs, a, i, c, vb) /\ geq(d, vb)
      BY <3>1
    <3>3. geq(vb, b) /\ d \in Ballot
      BY <2>6, <3>2, UsedIsBallot
    <3>4. geq(d, b)
      BY <1>1, <3>2, <3>3, BallotOrder
    <3>5. d \in Bad
      BY <1>3, <3>1, <3>4
    <3>6. geq(d, c)
      BY <1>2, <3>5
    <3> HIDE DEF Bad
    <3> QED  BY <1>4, <3>1, <3>3, <3>6, BallotOrder
  <2> QED  BY <2>3, <2>7, <2>8 DEF Reason
<1> QED  BY <1>7, <1>8
=============================================================================
