----------------------- MODULE EvEpochAcceptorProofs ------------------------
(***************************************************************************)
(* The properties of EvEpochAcceptor for every set of acceptors,           *)
(* instances, epochs, ballots, values and requests, and every backlog: the *)
(* inductive invariant, the lemmas about the operators it is built from,   *)
(* and that each handler keeps it.                                         *)
(***************************************************************************)
EXTENDS EvEpochAcceptor, PaxosLemmas

(* A record holds a vote, or no vote.                                      *)
VoteOK(w) ==
  \/ w = NoAccept
  \/ ballot_greater_than(w.epoch_ballot.ballot, INVALID_BALLOT) /\ w.value \in Values

(* What holds of one instance, in memory and on disk.                      *)
InstanceInv(a, i) ==
  /\ VoteOK(last_accepts[a][i])
  /\ i \in chosen[a] => last_accepts[a][i] # NoAccept
  /\ i \notin chosen[a] /\ last_accepts[a][i] # NoAccept =>
       AcceptedMsg(a, i, last_accepts[a][i].epoch_ballot, last_accepts[a][i].value) \in votes
  /\ ~ Settled(a, i) /\ i \in Intact(a) => last_accepts[a][i] = disk_accepts[a][i]

InstancesInv == \A a \in Acceptors, i \in Instances : InstanceInv(a, i)

(* The current epoch and the promise in memory cover every answer given in *)
(* an open instance, also those given before the last restart.             *)
Fence ==
  \A m \in promises \cup votes :
    m.iid \in Kept(m.aid) /\ ~ Settled(m.aid, m.iid) =>
      NotBefore(MinEpochBallot(m.aid, m.iid), m.epoch_ballot)

(* The chosen prefix is trimmed as soon as it grows.                       *)
TrimInv ==
  /\ \A a \in Acceptors : trim_instance[a] = min_chosen_instance[a]
  /\ \A a \in Acceptors, i \in Instances :
       i <= trim_instance[a] \/ i \in chosen[a] => \E t \in told : t.aid = a /\ t.iid = i

IInv ==
  /\ TypeOK
  /\ EpochWrittenAhead
  /\ InstancesInv
  /\ Fence
  /\ TrimInv
  /\ ChosenAnswerIsTold
  /\ VotesDurable
  /\ EpochPromiseReportsVotes

-----------------------------------------------------------------------------
(* Epoch first, ballot second is a total order.                            *)
LEMMA EpochOrder ==
  /\ \A l \in EpochBallot : NotBefore(l, l)
  /\ \A l, m, r \in EpochBallot : NotBefore(l, m) /\ NotBefore(m, r) => NotBefore(l, r)
  /\ \A l, r \in EpochBallot : After(l, r) <=> ~ NotBefore(r, l)
<1>1. \A l \in EpochBallot : NotBefore(l, l)
  BY Zenon, GeqReflexive DEF EpochBallot, NotBefore
<1>2. \A l, m, r \in EpochBallot : NotBefore(l, m) /\ NotBefore(m, r) => NotBefore(l, r)
  BY GeqTransitive DEF EpochBallot, NotBefore
<1>3. \A l, r \in EpochBallot : After(l, r) <=> ~ NotBefore(r, l)
  BY GeqTotal DEF EpochBallot, NotBefore, After
<1> QED  BY Zenon, <1>1, <1>2, <1>3

(* The comparison of epoch_ballot.c is right when the epoch is not lower.  *)
LEMMA GrantedNotBefore ==
  ASSUME NEW l \in EpochBallot, NEW r \in EpochBallot, l.epoch >= r.epoch,
         epoch_ballot_greater_than_or_equal(l, r) \/ r.ballot = INVALID_BALLOT
  PROVE  NotBefore(l, r)
<1>1. /\ l.epoch \in Nat /\ r.epoch \in Nat /\ l.ballot \in Ballot /\ r.ballot \in Ballot
  BY Zenon DEF EpochBallot
<1>2. CASE l.epoch > r.epoch
  BY Zenon, <1>2 DEF NotBefore
<1>3. CASE l.epoch = r.epoch
  <2>1. CASE r.ballot = INVALID_BALLOT
    BY Zenon, <1>1, <1>3, <2>1, InvalidIsLeast DEF NotBefore
  <2>2. CASE ballot_greater_than(l.ballot, r.ballot)
    BY Zenon, <1>1, <1>3, <2>2, GeqTotal DEF NotBefore
  <2>3. CASE ballot_equal(l.ballot, r.ballot)
    BY <1>1, <1>3, <2>3 DEF NotBefore, ballot_equal, ballot_greater_than_or_equal, Ballot
  <2> QED  BY <1>1, <1>3, <2>1, <2>2, <2>3
           DEF epoch_ballot_greater_than_or_equal, epoch_ballot_greater_than, epoch_ballot_equal
<1> QED  BY <1>1, <1>2, <1>3

(* An instance without a promise reads back the invalid ballot.            *)
LEMMA NotFoundInvalid ==
  ASSUME TypeOK, NEW a \in Acceptors, NEW i \in Instances, ~ Found(a, i)
  PROVE  last_prepares[a][i] = INVALID_BALLOT
<1>1. last_prepares[a][i] \in Ballot
  BY DEF TypeOK, AccTypeOK
<1> QED  BY Zenon, <1>1, GeqTotal, GeqAntisymmetric, InvalidIsLeast DEF Found

(* The types behind messages and records.                                  *)
LEMMA Types ==
  ASSUME TypeOK
  PROVE  /\ \A m \in promises \cup votes :
              m.aid \in Acceptors /\ m.iid \in Instances /\ m.epoch_ballot \in EpochBallot
         /\ \A p \in promises : p.last_accepted \in EpochBallot
         /\ \A a \in Acceptors, i \in Instances :
              /\ last_accepts[a][i] \in Accepted /\ disk_accepts[a][i] \in Accepted
              /\ last_accepts[a][i].epoch_ballot \in EpochBallot
              /\ disk_accepts[a][i].epoch_ballot \in EpochBallot
              /\ last_accepts[a][i].value \in Values \cup {NULL}
              /\ last_prepares[a][i] \in Ballot /\ current_epoch[a] \in Nat
              /\ MinEpochBallot(a, i) \in EpochBallot
              /\ trim_instance[a] \in Nat /\ i \in Nat
<1>1. \A m \in promises \cup votes :
        m.aid \in Acceptors /\ m.iid \in Instances /\ m.epoch_ballot \in EpochBallot
  BY Zenon DEF TypeOK, Promise, Vote
<1>2. \A p \in promises : p.last_accepted \in EpochBallot
  BY Zenon DEF TypeOK, Promise
<1>3. ASSUME NEW a \in Acceptors, NEW i \in Instances
      PROVE  /\ last_accepts[a][i] \in Accepted /\ disk_accepts[a][i] \in Accepted
             /\ last_prepares[a][i] \in Ballot /\ current_epoch[a] \in Nat
             /\ trim_instance[a] \in Nat /\ i \in Nat
  BY EpochAcceptorAssumption DEF TypeOK, AccTypeOK
<1>4. ASSUME NEW a \in Acceptors, NEW i \in Instances
      PROVE  /\ last_accepts[a][i].epoch_ballot \in EpochBallot
             /\ disk_accepts[a][i].epoch_ballot \in EpochBallot
             /\ last_accepts[a][i].value \in Values \cup {NULL}
  BY Zenon, <1>3 DEF Accepted
<1>5. ASSUME NEW a \in Acceptors, NEW i \in Instances
      PROVE  MinEpochBallot(a, i) \in EpochBallot
  BY Zenon, <1>3 DEF MinEpochBallot, EpochBallot
<1> QED  BY Zenon, <1>1, <1>2, <1>3, <1>4, <1>5

(* What a reply sends: the messages of a grant, else no promise or vote.   *)
LEMMA ReplySends ==
  ASSUME TypeOK, NEW a \in Acceptors, NEW i \in Instances, NEW eb, NEW granted, NEW msgs,
         Send(Reply(a, i, eb, granted, msgs))
  PROVE  /\ ~ Settled(a, i) /\ granted => Send(msgs)
         /\ Settled(a, i) \/ ~ granted => promises' = promises /\ votes' = votes
<1> DEFINE R == Reply(a, i, eb, granted, msgs)
<1>0. i \in Nat /\ trim_instance[a] \in Nat
  BY Zenon, Types
<1>1. CASE i <= trim_instance[a]
  <2>1. R = {TrimMsg(a)}
    BY <1>0, <1>1 DEF Reply, Settled
  <2> QED  BY <1>1, <2>1 DEF Send, ofType, TrimMsg, Settled
<1>2. CASE i > trim_instance[a] /\ i \in chosen[a]
  <2>1. R = {ChosenMsg(a, i)}
    BY <1>0, <1>2 DEF Reply, Settled
  <2> QED  BY <1>2, <2>1 DEF Send, ofType, ChosenMsg, Settled
<1>3. CASE ~ Settled(a, i) /\ ~ granted
  <2>1. R = {PreemptedMsg(a, i, eb)}
    BY Zenon, <1>0, <1>3 DEF Reply, Settled
  <2> QED  BY <1>3, <2>1 DEF Send, ofType, PreemptedMsg
<1>4. CASE ~ Settled(a, i) /\ granted
  <2>1. R = msgs
    BY Zenon, <1>0, <1>4 DEF Reply, Settled
  <2> QED  BY Zenon, <1>4, <2>1
<1> QED  BY <1>0, <1>1, <1>2, <1>3, <1>4 DEF Settled

(* Nothing changes when no store and no message does.                      *)
LEMMA StutterKeepsIInv ==
  ASSUME IInv, UNCHANGED <<trim_instance, chosen, min_chosen_instance, epochVars,
                           last_prepares, last_accepts, disk_accepts, below, lossVars,
                           promises, votes, told>>,
         max_proposed_instance' \in [Acceptors -> Nat]
  PROVE  IInv'
<1> USE DEF epochVars, lossVars
<1>0. \A a : Kept(a)' = Kept(a) /\ Intact(a)' = Intact(a)  BY DEF Kept, Intact
<1>1. TypeOK'  BY Zenon DEF IInv, TypeOK, AccTypeOK
<1>2. InstancesInv'
  BY <1>0 DEF IInv, InstancesInv, InstanceInv, VoteOK, Settled, AcceptedMsg
<1>3. TrimInv' /\ ChosenAnswerIsTold'  BY DEF IInv, TrimInv, ChosenAnswerIsTold
<1>4. EpochWrittenAhead' /\ VotesDurable'
  BY Zenon, <1>0 DEF IInv, EpochWrittenAhead, VotesDurable
<1>5. Fence'  BY Zenon, <1>0 DEF IInv, Fence, Settled, MinEpochBallot
<1>6. EpochPromiseReportsVotes'  BY Zenon, <1>0 DEF IInv, EpochPromiseReportsVotes
<1> QED  BY Zenon, <1>1, <1>2, <1>3, <1>4, <1>5, <1>6 DEF IInv

-----------------------------------------------------------------------------
(* The fence stays over the answers already given when it only goes up.    *)
LEMMA FenceKept ==
  ASSUME IInv, TypeOK', trim_instance' = trim_instance, chosen' = chosen,
         \A c \in Acceptors : Kept(c)' \subseteq Kept(c),
         \A c \in Acceptors, j \in Instances : j \in Kept(c)' /\ ~ Settled(c, j) =>
           NotBefore(MinEpochBallot(c, j)', MinEpochBallot(c, j)),
         NEW m \in promises \cup votes, m.iid \in Kept(m.aid)', ~ Settled(m.aid, m.iid)'
  PROVE  NotBefore(MinEpochBallot(m.aid, m.iid)', m.epoch_ballot)
<1>1. TypeOK
  BY Zenon DEF IInv
<1>2. /\ m.aid \in Acceptors /\ m.iid \in Instances /\ m.epoch_ballot \in EpochBallot
      /\ MinEpochBallot(m.aid, m.iid) \in EpochBallot
  BY Zenon, <1>1, Types
<1>3. MinEpochBallot(m.aid, m.iid)' \in EpochBallot
  <2>1. current_epoch'[m.aid] \in Nat /\ last_prepares'[m.aid][m.iid] \in Ballot
    BY <1>2 DEF TypeOK, AccTypeOK
  <2> QED  BY Zenon, <2>1 DEF MinEpochBallot, EpochBallot
<1>4. ~ Settled(m.aid, m.iid)
  BY Zenon DEF Settled
<1>5. NotBefore(MinEpochBallot(m.aid, m.iid), m.epoch_ballot)
  BY Zenon, <1>2, <1>4 DEF IInv, Fence
<1>6. NotBefore(MinEpochBallot(m.aid, m.iid)', MinEpochBallot(m.aid, m.iid))
  BY Zenon, <1>2, <1>4
<1> QED  BY <1>2, <1>3, <1>5, <1>6, EpochOrder

(* The epoch moves up in memory and on disk together, or in neither.       *)
LEMMA EpochRaised ==
  ASSUME AccTypeOK, NEW a \in Acceptors, NEW e \in Nat,
         \/ e <= current_epoch[a] /\ UNCHANGED epochVars
         \/ e > current_epoch[a] /\ IncreaseEpoch(a, e, "committed")
  PROVE  /\ unsynced' = unsynced
         /\ \A c \in Acceptors :
              \/ current_epoch'[c] = current_epoch[c] /\ disk_epoch'[c] = disk_epoch[c]
              \/ /\ c = a /\ e > current_epoch[a]
                 /\ current_epoch'[c] = e /\ disk_epoch'[c] = e
         /\ e > current_epoch[a] => current_epoch'[a] = e /\ disk_epoch'[a] = e
         /\ current_epoch' \in [Acceptors -> Nat] /\ disk_epoch' \in [Acceptors -> Nat]
<1>0. current_epoch[a] \in Nat
  BY Zenon DEF AccTypeOK
<1>1. CASE e <= current_epoch[a] /\ UNCHANGED epochVars
  BY <1>0, <1>1 DEF epochVars, AccTypeOK
<1>2. CASE e > current_epoch[a] /\ IncreaseEpoch(a, e, "committed")
  <2>1. /\ current_epoch' = [current_epoch EXCEPT ![a] = e]
        /\ disk_epoch' = [disk_epoch EXCEPT ![a] = e] /\ unsynced' = unsynced
    BY Zenon, <1>2 DEF IncreaseEpoch
  <2> QED  BY Zenon, <1>2, <2>1 DEF AccTypeOK
<1> QED  BY Zenon, <1>1, <1>2

(* Giving a promise keeps the invariant, with or without a new epoch.      *)
LEMMA PromiseKeepsIInv ==
  ASSUME IInv, NEW a \in Acceptors, NEW i \in Instances, NEW eb \in EpochBallot,
         ~ Settled(a, i),
         eb.epoch >= current_epoch[a] => NotBefore(eb, MinEpochBallot(a, i)),
         \/ eb.epoch <= current_epoch[a] /\ UNCHANGED epochVars
         \/ eb.epoch > current_epoch[a] /\ IncreaseEpoch(a, eb.epoch, "committed"),
         StorePrepare(a, i, eb.ballot), NoteBelow(a, i, eb.epoch),
         max_proposed_instance' \in [Acceptors -> Nat],
         UNCHANGED <<trim_instance, chosen, min_chosen_instance, last_accepts, disk_accepts,
                     unstored, wiped, forgotten, votes, told>>,
         promises' = promises \cup {PromiseMsg(a, i, eb)}
  PROVE  IInv'
<1>0. /\ TypeOK /\ AccTypeOK /\ eb.epoch \in Nat /\ eb.ballot \in Ballot
      /\ current_epoch[a] \in Nat /\ eb = [epoch |-> eb.epoch, ballot |-> eb.ballot]
  BY Zenon DEF IInv, TypeOK, AccTypeOK, EpochBallot
<1> DEFINE p0 == PromiseMsg(a, i, eb)
<1>1. /\ p0 \in Promise /\ p0.aid = a /\ p0.iid = i /\ p0.epoch_ballot = eb
      /\ p0.last_accepted = last_accepts[a][i].epoch_ballot
  BY Zenon, <1>0, Types DEF PromiseMsg, Promise
<1> HIDE DEF p0
<1>2. /\ unsynced' = unsynced
      /\ \A c \in Acceptors :
           \/ current_epoch'[c] = current_epoch[c] /\ disk_epoch'[c] = disk_epoch[c]
           \/ /\ c = a /\ eb.epoch > current_epoch[a]
              /\ current_epoch'[c] = eb.epoch /\ disk_epoch'[c] = eb.epoch
      /\ eb.epoch > current_epoch[a] => current_epoch'[a] = eb.epoch /\ disk_epoch'[a] = eb.epoch
      /\ current_epoch' \in [Acceptors -> Nat] /\ disk_epoch' \in [Acceptors -> Nat]
  BY Zenon, <1>0, EpochRaised
<1>3. /\ below' \in [Acceptors -> SUBSET Instances]
      /\ \A c \in Acceptors : below[c] \subseteq below'[c]
      /\ eb.epoch < current_epoch[a] => i \in below'[a]
  BY Zenon, <1>0 DEF NoteBelow, AccTypeOK
<1>4. /\ last_prepares' \in [Acceptors -> [Instances -> Ballot]]
      /\ last_prepares'[a][i] = eb.ballot
      /\ \A c \in Acceptors, j \in Instances :
           c # a \/ j # i => last_prepares'[c][j] = last_prepares[c][j]
  BY Zenon, <1>0 DEF StorePrepare, AccTypeOK
<1>5. TypeOK'
  BY Zenon, <1>0, <1>1, <1>2, <1>3, <1>4 DEF TypeOK, AccTypeOK, p0
<1>6. \A c \in Acceptors : Kept(c)' \subseteq Kept(c) /\ Intact(c)' \subseteq Intact(c)
  BY Zenon, <1>2, <1>3 DEF Kept, Intact
<1>7. EpochWrittenAhead'
  <2> SUFFICES ASSUME NEW c \in Acceptors, ~ unsynced[c]
               PROVE  /\ current_epoch'[c] = disk_epoch'[c]
                      /\ \A m \in promises' \cup votes' :
                           m.aid = c => m.epoch_ballot.epoch <= disk_epoch'[c]
    BY Zenon, <1>2 DEF EpochWrittenAhead
  <2>1. /\ current_epoch[c] = disk_epoch[c]
        /\ \A m \in promises \cup votes : m.aid = c => m.epoch_ballot.epoch <= disk_epoch[c]
    BY Zenon DEF IInv, EpochWrittenAhead
  <2>2. current_epoch'[c] = disk_epoch'[c] /\ disk_epoch'[c] >= disk_epoch[c]
        /\ disk_epoch[c] \in Nat /\ disk_epoch'[c] \in Nat
    BY <1>0, <1>2, <2>1 DEF AccTypeOK
  <2>3. ASSUME NEW m \in promises \cup votes, m.aid = c
        PROVE  m.epoch_ballot.epoch <= disk_epoch'[c]
    <3>1. m.epoch_ballot.epoch \in Nat
      BY Zenon, <1>0, Types DEF EpochBallot
    <3> QED  BY <2>1, <2>2, <2>3, <3>1
  <2>4. c = a => eb.epoch <= disk_epoch'[c]
    BY <1>0, <1>2, <2>2
  <2> QED  BY Zenon, <1>1, <2>2, <2>3, <2>4 DEF p0
<1>8. InstancesInv'
  <2> SUFFICES ASSUME NEW c \in Acceptors, NEW j \in Instances
               PROVE  InstanceInv(c, j)'
    BY Zenon DEF InstancesInv
  <2>1. InstanceInv(c, j)
    BY Zenon DEF IInv, InstancesInv
  <2>2. (~ Settled(c, j) /\ j \in Intact(c))' => ~ Settled(c, j) /\ j \in Intact(c)
    BY Zenon, <1>6 DEF Settled
  <2> QED  BY Zenon, <2>1, <2>2 DEF InstanceInv, VoteOK, AcceptedMsg
<1>9. i \in Kept(a)' => MinEpochBallot(a, i)' = eb /\ eb.epoch >= current_epoch[a]
  <2> SUFFICES ASSUME i \in Kept(a)'
               PROVE  MinEpochBallot(a, i)' = eb /\ eb.epoch >= current_epoch[a]
    BY Zenon
  <2>1. i \notin below'[a]
    BY Zenon DEF Kept
  <2>2. eb.epoch >= current_epoch[a] /\ current_epoch'[a] = eb.epoch
    BY <1>0, <1>2, <1>3, <2>1
  <2> QED  BY Zenon, <1>0, <1>4, <2>2 DEF MinEpochBallot
<1>10. ASSUME NEW c \in Acceptors, NEW j \in Instances, j \in Kept(c)'
       PROVE  NotBefore(MinEpochBallot(c, j)', MinEpochBallot(c, j))
  <2>1. CASE c = a /\ j = i
    BY Zenon, <1>9, <1>10, <2>1
  <2>2. CASE c # a \/ j # i
    <3>1. /\ last_prepares[c][j] \in Ballot /\ current_epoch[c] \in Nat
          /\ last_prepares'[c][j] = last_prepares[c][j]
      BY Zenon, <1>0, <1>4, <2>2, Types
    <3>2. current_epoch'[c] >= current_epoch[c] /\ current_epoch'[c] \in Nat
      BY <1>0, <1>2, <3>1
    <3>3. ballot_greater_than_or_equal(last_prepares[c][j], last_prepares[c][j])
      BY Zenon, <3>1, GeqReflexive
    <3> QED  BY <3>1, <3>2, <3>3 DEF NotBefore, MinEpochBallot
  <2> QED  BY Zenon, <2>1, <2>2
<1>11. Fence'
  <2> SUFFICES ASSUME NEW m \in promises' \cup votes',
                      m.iid \in Kept(m.aid)', ~ Settled(m.aid, m.iid)'
               PROVE  NotBefore(MinEpochBallot(m.aid, m.iid)', m.epoch_ballot)
    BY Zenon DEF Fence
  <2>1. CASE m \in promises \cup votes
    BY Zenon, <1>5, <1>6, <1>10, <2>1, FenceKept
  <2>2. CASE m = p0
    <3>1. m.aid = a /\ m.iid = i /\ m.epoch_ballot = eb
      BY Zenon, <1>1, <2>2
    <3> QED  BY Zenon, <1>9, <3>1, EpochOrder
  <2> QED  BY Zenon, <2>1, <2>2 DEF p0
<1>12. TrimInv' /\ ChosenAnswerIsTold'
  BY DEF IInv, TrimInv, ChosenAnswerIsTold
<1>13. VotesDurable'
  <2> SUFFICES ASSUME NEW w \in votes, w.iid \in Kept(w.aid)'
               PROVE  NotBefore(disk_accepts[w.aid][w.iid].epoch_ballot, w.epoch_ballot)
    BY Zenon DEF VotesDurable
  <2>1. w.iid \in Kept(w.aid)
    BY Zenon, <1>0, <1>6, Types
  <2> QED  BY Zenon, <2>1 DEF IInv, VotesDurable
<1>14. EpochPromiseReportsVotes'
  <2> SUFFICES ASSUME NEW p \in promises', NEW w \in votes,
                      p.aid = w.aid, p.iid = w.iid, p.iid \in Intact(p.aid)',
                      After(p.epoch_ballot, w.epoch_ballot)
               PROVE  NotBefore(p.last_accepted, w.epoch_ballot)
    BY Zenon DEF EpochPromiseReportsVotes
  <2>0. p.iid \in Intact(p.aid)
    BY Zenon, <1>0, <1>6, Types
  <2>1. CASE p \in promises
    BY Zenon, <2>0, <2>1 DEF IInv, EpochPromiseReportsVotes
  <2>2. CASE p = p0
    <3>1. /\ w.aid = a /\ w.iid = i /\ i \in Intact(a)
          /\ p.last_accepted = last_accepts[a][i].epoch_ballot
      BY Zenon, <1>1, <2>0, <2>2
    <3>2. last_accepts[a][i] = disk_accepts[a][i]
      BY Zenon, <3>1 DEF IInv, InstancesInv, InstanceInv
    <3>3. i \in Kept(a)
      BY Zenon, <3>1 DEF Intact
    <3> QED  BY Zenon, <3>1, <3>2, <3>3 DEF IInv, VotesDurable
  <2> QED  BY Zenon, <2>1, <2>2 DEF p0
<1> QED  BY Zenon, <1>5, <1>7, <1>8, <1>11, <1>12, <1>13, <1>14 DEF IInv

(* A handler notes the highest instance it was asked about.                *)
LEMMA ProposedType ==
  ASSUME TypeOK, NEW a \in Acceptors, NEW i \in Instances, Proposed(a, i)
  PROVE  max_proposed_instance' \in [Acceptors -> Nat]
<1>1. i \in Nat /\ max_proposed_instance \in [Acceptors -> Nat]
  BY EpochAcceptorAssumption DEF TypeOK, AccTypeOK
<1> QED  BY Zenon, <1>1 DEF Proposed

(* writeahead_epoch_acceptor_receive_prepare keeps the invariant: it       *)
(* promises in the current epoch.                                          *)
LEMMA StandardPrepareKeepsIInv ==
  ASSUME IInv, NEW a \in Acceptors, NEW i \in Instances, NEW b \in ValidBallot,
         HandleStandardPrepare(a, i, b)
  PROVE  IInv'
<1> DEFINE eb == [epoch |-> current_epoch[a], ballot |-> b]
<1>0. TypeOK /\ b \in Ballot /\ current_epoch[a] \in Nat
  BY Zenon DEF IInv, TypeOK, AccTypeOK, ValidBallot
<1>1. /\ ReceivePrepare(a, i, b) /\ told' = told
      /\ Send(Reply(a, i, eb, PrepareGranted(a, i, b), {PromiseMsg(a, i, eb)}))
  BY Zenon DEF HandleStandardPrepare, PrepareReply
<1>2. eb \in EpochBallot /\ eb.epoch = current_epoch[a] /\ eb.ballot = b
  BY Zenon, <1>0 DEF EpochBallot
<1> HIDE DEF eb
<1>3. CASE ~ PrepareGranted(a, i, b)
  <2>1. promises' = promises /\ votes' = votes
    BY <1>0, <1>1, <1>3, ReplySends
  <2>2. UNCHANGED accVars
    BY Zenon, <1>1, <1>3 DEF ReceivePrepare
  <2> QED  BY Zenon, <1>0, <1>1, <2>1, <2>2, StutterKeepsIInv DEF accVars, memVars, TypeOK, AccTypeOK
<1>4. CASE PrepareGranted(a, i, b)
  <2>1. ~ Settled(a, i)
    BY Zenon, <1>4 DEF PrepareGranted
  <2>2. Send({PromiseMsg(a, i, eb)})
    BY Zenon, <1>0, <1>1, <1>4, <2>1, ReplySends
  <2>3. promises' = promises \cup {PromiseMsg(a, i, eb)} /\ votes' = votes
    BY <2>2 DEF Send, ofType, PromiseMsg
  <2>4. /\ Proposed(a, i) /\ StorePrepare(a, i, eb.ballot)
        /\ UNCHANGED <<trim_instance, chosen, min_chosen_instance, epochVars,
                       last_accepts, disk_accepts, below, unstored, wiped, forgotten>>
    BY Zenon, <1>1, <1>2, <1>4 DEF ReceivePrepare, lossVars
  <2>5. NoteBelow(a, i, eb.epoch)
    BY <1>0, <1>2, <2>4 DEF NoteBelow
  <2>6. NotBefore(eb, MinEpochBallot(a, i))
    <3>1. /\ MinEpochBallot(a, i).epoch = current_epoch[a]
          /\ MinEpochBallot(a, i).ballot = last_prepares[a][i]
          /\ last_prepares[a][i] \in Ballot
      BY Zenon, <1>0, Types DEF MinEpochBallot
    <3>2. ballot_greater_than_or_equal(b, last_prepares[a][i])
      BY Zenon, <1>0, <1>4, NotFoundInvalid, InvalidIsLeast DEF PrepareGranted
    <3> QED  BY Zenon, <1>2, <3>1, <3>2 DEF NotBefore
  <2>7. max_proposed_instance' \in [Acceptors -> Nat]
    BY Zenon, <1>0, <2>4, ProposedType
  <2>8. eb.epoch <= current_epoch[a] /\ UNCHANGED epochVars
    BY <1>0, <1>2, <2>4
  <2> QED  BY Zenon, <1>1, <1>2, <2>1, <2>3, <2>4, <2>5, <2>6, <2>7, <2>8, PromiseKeepsIInv
<1> QED  BY Zenon, <1>3, <1>4

(* An epoch that is only in memory leaves nothing the invariant relies on. *)
LEMMA UnsyncedKeepsIInv ==
  ASSUME IInv, NEW a \in Acceptors, NEW e \in Nat, e > current_epoch[a],
         IncreaseEpoch(a, e, "commit_failed"),
         max_proposed_instance' \in [Acceptors -> Nat],
         UNCHANGED <<trim_instance, chosen, min_chosen_instance, last_prepares, last_accepts,
                     disk_accepts, below, unstored, wiped, forgotten, promises, votes, told>>
  PROVE  IInv'
<1>0. TypeOK /\ AccTypeOK
  BY Zenon DEF IInv, TypeOK
<1>1. /\ current_epoch' = [current_epoch EXCEPT ![a] = e] /\ disk_epoch' = disk_epoch
      /\ unsynced' = [unsynced EXCEPT ![a] = TRUE]
  BY Zenon DEF IncreaseEpoch
<1>2. /\ unsynced'[a] /\ unsynced' \in [Acceptors -> BOOLEAN]
      /\ \A c \in Acceptors : c # a =>
           unsynced'[c] = unsynced[c] /\ current_epoch'[c] = current_epoch[c]
      /\ \A c \in Acceptors : unsynced[c] => unsynced'[c]
  BY Zenon, <1>0, <1>1 DEF AccTypeOK
<1>3. TypeOK'
  <2>1. current_epoch' \in [Acceptors -> Nat]
    BY Zenon, <1>0, <1>1 DEF AccTypeOK
  <2> QED  BY Zenon, <1>0, <1>1, <1>2, <2>1 DEF TypeOK, AccTypeOK
<1>4. /\ Kept(a)' = {} /\ Intact(a)' = {}
      /\ \A c \in Acceptors : c # a => Kept(c)' = Kept(c) /\ Intact(c)' = Intact(c)
  BY <1>2 DEF Kept, Intact
<1>5. InstancesInv'
  BY <1>4 DEF IInv, InstancesInv, InstanceInv, VoteOK, Settled, AcceptedMsg
<1>6. TrimInv' /\ ChosenAnswerIsTold'
  BY DEF IInv, TrimInv, ChosenAnswerIsTold
<1>7. EpochWrittenAhead'
  BY Zenon, <1>1, <1>2 DEF IInv, EpochWrittenAhead
<1>8. Fence'
  <2> SUFFICES ASSUME NEW m \in promises \cup votes,
                      m.iid \in Kept(m.aid)', ~ Settled(m.aid, m.iid)'
               PROVE  NotBefore(MinEpochBallot(m.aid, m.iid)', m.epoch_ballot)
    BY Zenon DEF Fence
  <2>1. m.aid \in Acceptors /\ m.aid # a
    BY Zenon, <1>0, <1>4, Types
  <2>2. m.iid \in Kept(m.aid) /\ ~ Settled(m.aid, m.iid)
    BY Zenon, <1>4, <2>1 DEF Settled
  <2>3. MinEpochBallot(m.aid, m.iid)' = MinEpochBallot(m.aid, m.iid)
    BY Zenon, <1>2, <2>1 DEF MinEpochBallot
  <2> QED  BY Zenon, <2>2, <2>3 DEF IInv, Fence
<1>9. VotesDurable'
  <2> SUFFICES ASSUME NEW w \in votes, w.iid \in Kept(w.aid)'
               PROVE  NotBefore(disk_accepts[w.aid][w.iid].epoch_ballot, w.epoch_ballot)
    BY Zenon DEF VotesDurable
  <2>1. w.iid \in Kept(w.aid)
    BY Zenon, <1>0, <1>4, Types
  <2> QED  BY Zenon, <2>1 DEF IInv, VotesDurable
<1>10. EpochPromiseReportsVotes'
  <2>1. \A p \in promises : p.aid \in Acceptors
    BY Zenon, <1>0, Types
  <2> QED  BY Zenon, <1>4, <2>1 DEF IInv, EpochPromiseReportsVotes
<1> QED  BY Zenon, <1>3, <1>5, <1>6, <1>7, <1>8, <1>9, <1>10 DEF IInv

(* writeahead_epoch_acceptor_receive_epoch_ballot_prepare keeps the        *)
(* invariant, whatever becomes of the transaction that raises the epoch.   *)
LEMMA EpochPrepareKeepsIInv ==
  ASSUME IInv, NEW a \in Acceptors, NEW i \in Instances, NEW eb \in EpochBallot, NEW st,
         HandleEpochBallotPrepare(a, i, eb, st)
  PROVE  IInv'
<1> DEFINE msgs == IF st = "committed" THEN {PromiseMsg(a, i, eb)} ELSE {}
<1>0. TypeOK /\ eb.epoch \in Nat /\ current_epoch[a] \in Nat
  BY Zenon DEF IInv, TypeOK, AccTypeOK, EpochBallot
<1>1. /\ ReceiveEpochBallotPrepare(a, i, eb, st) /\ told' = told
      /\ Send(Reply(a, i, eb, EpochPrepareGranted(a, i, eb), msgs))
  BY Zenon DEF HandleEpochBallotPrepare, EpochPrepareReply
<1>2. CASE ~ EpochPrepareGranted(a, i, eb)
  <2>1. promises' = promises /\ votes' = votes
    <3> HIDE DEF msgs
    <3> QED  BY <1>0, <1>1, <1>2, ReplySends
  <2>2. UNCHANGED accVars
    BY Zenon, <1>1, <1>2 DEF ReceiveEpochBallotPrepare
  <2> QED  BY Zenon, <1>0, <1>1, <2>1, <2>2, StutterKeepsIInv DEF accVars, memVars, TypeOK, AccTypeOK
<1>3. CASE EpochPrepareGranted(a, i, eb)
  <2>1. ~ Settled(a, i)
    BY Zenon, <1>3 DEF EpochPrepareGranted
  <2>2. Send(msgs)
    <3> HIDE DEF msgs
    <3> QED  BY Zenon, <1>0, <1>1, <1>3, <2>1, ReplySends
  <2>3. /\ Proposed(a, i)
        /\ UNCHANGED <<trim_instance, chosen, min_chosen_instance, last_accepts, disk_accepts,
                       unstored, wiped, forgotten>>
    BY Zenon, <1>1, <1>3 DEF ReceiveEpochBallotPrepare, lossVars
  <2>4. max_proposed_instance' \in [Acceptors -> Nat]
    BY Zenon, <1>0, <2>3, ProposedType
  <2>5. eb.epoch >= current_epoch[a] => NotBefore(eb, MinEpochBallot(a, i))
    <3>1. /\ MinEpochBallot(a, i).epoch = current_epoch[a]
          /\ MinEpochBallot(a, i).ballot = last_prepares[a][i]
          /\ MinEpochBallot(a, i) \in EpochBallot
      BY Zenon, <1>0, Types DEF MinEpochBallot
    <3> QED  BY Zenon, <1>0, <1>3, <3>1, NotFoundInvalid, GrantedNotBefore DEF EpochPrepareGranted
  <2>6. CASE /\ st = "committed" /\ StorePrepare(a, i, eb.ballot)
             /\ \/ /\ eb.epoch <= current_epoch[a] /\ NoteBelow(a, i, eb.epoch)
                   /\ UNCHANGED epochVars
                \/ /\ eb.epoch > current_epoch[a] /\ IncreaseEpoch(a, eb.epoch, st)
                   /\ UNCHANGED below
    <3>1. promises' = promises \cup {PromiseMsg(a, i, eb)} /\ votes' = votes
      BY <2>2, <2>6 DEF Send, ofType, PromiseMsg
    <3>2. NoteBelow(a, i, eb.epoch)
      BY <1>0, <2>6 DEF NoteBelow
    <3> QED  BY Zenon, <1>1, <2>1, <2>3, <2>4, <2>5, <2>6, <3>1, <3>2, PromiseKeepsIInv
  <2>7. CASE st = "not_begun" /\ UNCHANGED <<epochVars, last_prepares, below>>
    <3>1. promises' = promises /\ votes' = votes
      BY Zenon, <2>2, <2>7 DEF Send, ofType
    <3> QED  BY Zenon, <1>1, <2>3, <2>4, <2>7, <3>1, StutterKeepsIInv DEF lossVars
  <2>8. CASE /\ eb.epoch > current_epoch[a] /\ st = "commit_failed"
             /\ IncreaseEpoch(a, eb.epoch, st) /\ UNCHANGED <<last_prepares, below>>
    <3>1. promises' = promises /\ votes' = votes
      BY Zenon, <2>2, <2>8 DEF Send, ofType
    <3> QED  BY Zenon, <1>0, <1>1, <2>3, <2>4, <2>8, <3>1, UnsyncedKeepsIInv
  <2> QED  BY Zenon, <1>1, <1>3, <2>6, <2>7, <2>8 DEF ReceiveEpochBallotPrepare
<1> QED  BY Zenon, <1>2, <1>3

-----------------------------------------------------------------------------
(* What an accept does to the epoch, whatever becomes of its transaction.  *)
LEMMA EpochOfAccept ==
  ASSUME AccTypeOK, NEW a \in Acceptors, NEW e \in Nat, NEW st,
         \/ e > current_epoch[a] /\ IncreaseEpoch(a, e, st)
         \/ e <= current_epoch[a] /\ UNCHANGED epochVars
  PROVE  /\ current_epoch' \in [Acceptors -> Nat] /\ disk_epoch' \in [Acceptors -> Nat]
         /\ unsynced' \in [Acceptors -> BOOLEAN]
         /\ \A c \in Acceptors : current_epoch'[c] >= current_epoch[c]
         /\ \A c \in Acceptors : ~ unsynced'[c] =>
              /\ ~ unsynced[c]
              /\ current_epoch[c] = disk_epoch[c] => current_epoch'[c] = disk_epoch'[c]
         /\ e <= current_epoch'[a]
         /\ e >= current_epoch[a] => current_epoch'[a] = e
<1>0. current_epoch[a] \in Nat /\ \A c \in Acceptors : current_epoch[c] \in Nat
  BY Zenon DEF AccTypeOK
<1>1. CASE e <= current_epoch[a] /\ UNCHANGED epochVars
  <2>1. current_epoch' = current_epoch /\ disk_epoch' = disk_epoch /\ unsynced' = unsynced
    BY Zenon, <1>1 DEF epochVars
  <2>2. e >= current_epoch[a] => current_epoch'[a] = e
    BY <1>0, <1>1, <2>1
  <2> QED  BY <1>0, <1>1, <2>1, <2>2 DEF AccTypeOK
<1>2. CASE e > current_epoch[a] /\ IncreaseEpoch(a, e, "committed")
  <2>1. /\ current_epoch' = [current_epoch EXCEPT ![a] = e]
        /\ disk_epoch' = [disk_epoch EXCEPT ![a] = e] /\ unsynced' = unsynced
    BY Zenon, <1>2 DEF IncreaseEpoch
  <2> QED  BY <1>0, <1>2, <2>1 DEF AccTypeOK
<1>3. CASE e > current_epoch[a] /\ IncreaseEpoch(a, e, st) /\ st # "committed"
  <2>1. /\ current_epoch' = [current_epoch EXCEPT ![a] = e]
        /\ disk_epoch' = disk_epoch /\ unsynced' = [unsynced EXCEPT ![a] = TRUE]
    BY Zenon, <1>3 DEF IncreaseEpoch
  <2>2. unsynced' \in [Acceptors -> BOOLEAN] /\ unsynced'[a]
        /\ \A c \in Acceptors : c # a => unsynced'[c] = unsynced[c]
    BY Zenon, <2>1 DEF AccTypeOK
  <2> QED  BY <1>0, <1>3, <2>1, <2>2 DEF AccTypeOK
<1> QED  BY Zenon, <1>1, <1>2, <1>3 DEF IncreaseEpoch

(* writeahead_epoch_acceptor_receive_epoch_ballot_accept keeps the         *)
(* invariant, although the outcome of its transaction is ignored.          *)
LEMMA AcceptKeepsIInv ==
  ASSUME IInv, NEW a \in Acceptors, NEW i \in Instances, NEW eb \in EpochBallotsInUse,
         NEW v \in Values, NEW st, HandleEpochBallotAccept(a, i, eb, v, st)
  PROVE  IInv'
<1> DEFINE vote == [epoch_ballot |-> eb, value |-> v]
           w0 == AcceptedMsg(a, i, eb, v)
<1>0. /\ TypeOK /\ AccTypeOK /\ eb \in EpochBallot /\ eb.epoch \in Nat
      /\ eb.ballot \in Ballot /\ eb.ballot # INVALID_BALLOT /\ current_epoch[a] \in Nat
      /\ eb = [epoch |-> eb.epoch, ballot |-> eb.ballot]
  BY Zenon, EpochRequestsAssumption DEF IInv, TypeOK, AccTypeOK, EpochBallot, ValidBallot
<1>1. /\ ReceiveEpochBallotAccept(a, i, eb, v, st) /\ told' = told
      /\ Send(Reply(a, i, eb, EpochAcceptGranted(a, i, eb), {w0}))
  BY Zenon DEF HandleEpochBallotAccept, EpochAcceptReply
<1>2. CASE ~ EpochAcceptGranted(a, i, eb)
  <2>1. promises' = promises /\ votes' = votes
    <3> HIDE DEF w0
    <3> QED  BY <1>0, <1>1, <1>2, ReplySends
  <2>2. UNCHANGED accVars
    BY Zenon, <1>1, <1>2 DEF ReceiveEpochBallotAccept
  <2> QED  BY Zenon, <1>0, <1>1, <2>1, <2>2, StutterKeepsIInv DEF accVars, memVars, TypeOK, AccTypeOK
<1>3. CASE EpochAcceptGranted(a, i, eb)
  <2>1. ~ Settled(a, i)
    BY Zenon, <1>3 DEF EpochAcceptGranted
  <2>2. Send({w0})
    <3> HIDE DEF w0
    <3> QED  BY Zenon, <1>0, <1>1, <1>3, <2>1, ReplySends
  <2>3. promises' = promises /\ votes' = votes \cup {w0}
    BY <2>2 DEF Send, ofType, AcceptedMsg
  <2>4. w0 \in Vote /\ w0.aid = a /\ w0.iid = i /\ w0.epoch_ballot = eb
    BY Zenon, <1>0 DEF AcceptedMsg, Vote
  <2>5. /\ vote \in Accepted /\ vote.epoch_ballot = eb /\ vote.value = v /\ VoteOK(vote)
        /\ vote # NoAccept
    <3>1. ballot_greater_than(eb.ballot, INVALID_BALLOT)
      BY Zenon, <1>0, GeqTotal, GeqAntisymmetric, InvalidIsLeast
    <3> QED  BY Zenon, <1>0, <3>1, EpochAcceptorAssumption DEF Accepted, VoteOK, NoAccept
  <2>6. /\ Proposed(a, i) /\ StoreAccept(a, i, eb, v, st) /\ NoteBelow(a, i, eb.epoch)
        /\ UNCHANGED <<trim_instance, chosen, min_chosen_instance>>
    BY Zenon, <1>1, <1>3 DEF ReceiveEpochBallotAccept
  <2>7. max_proposed_instance' \in [Acceptors -> Nat]
    BY Zenon, <1>0, <2>6, ProposedType
  <2>8. /\ current_epoch' \in [Acceptors -> Nat] /\ disk_epoch' \in [Acceptors -> Nat]
        /\ unsynced' \in [Acceptors -> BOOLEAN]
        /\ \A c \in Acceptors : current_epoch'[c] >= current_epoch[c]
        /\ \A c \in Acceptors : ~ unsynced'[c] =>
             /\ ~ unsynced[c]
             /\ current_epoch[c] = disk_epoch[c] => current_epoch'[c] = disk_epoch'[c]
        /\ eb.epoch <= current_epoch'[a]
        /\ eb.epoch >= current_epoch[a] => current_epoch'[a] = eb.epoch
    <3>1. \/ eb.epoch > current_epoch[a] /\ IncreaseEpoch(a, eb.epoch, st)
          \/ eb.epoch <= current_epoch[a] /\ UNCHANGED epochVars
      BY Zenon, <2>6 DEF StoreAccept
    <3> QED  BY Zenon, <1>0, <3>1, EpochOfAccept
  <2>9. /\ below' \in [Acceptors -> SUBSET Instances]
        /\ \A c \in Acceptors : below[c] \subseteq below'[c]
        /\ eb.epoch < current_epoch[a] => i \in below'[a]
    BY Zenon, <1>0, <2>6 DEF NoteBelow, AccTypeOK
  <2>10. /\ last_prepares' = [last_prepares EXCEPT ![a][i] = eb.ballot]
         /\ last_accepts' = [last_accepts EXCEPT ![a][i] = vote]
         /\ \/ disk_accepts' = [disk_accepts EXCEPT ![a][i] = vote] /\ unstored' = unstored
            \/ /\ disk_accepts' = disk_accepts
               /\ unstored' = [unstored EXCEPT ![a] = @ \cup {i}]
         /\ wiped' = wiped /\ forgotten' = forgotten
    BY Zenon, <2>6 DEF StoreAccept, StorePrepare
  <2> HIDE DEF vote, w0
  <2>11. /\ last_prepares' \in [Acceptors -> [Instances -> Ballot]]
         /\ last_accepts' \in [Acceptors -> [Instances -> Accepted]]
         /\ last_prepares'[a][i] = eb.ballot /\ last_accepts'[a][i] = vote
         /\ \A c \in Acceptors, j \in Instances : c # a \/ j # i =>
              /\ last_prepares'[c][j] = last_prepares[c][j]
              /\ last_accepts'[c][j] = last_accepts[c][j]
    BY <1>0, <2>5, <2>10 DEF AccTypeOK
  <2>12. /\ disk_accepts' \in [Acceptors -> [Instances -> Accepted]]
         /\ unstored' \in [Acceptors -> SUBSET Instances]
         /\ \A c \in Acceptors : unstored[c] \subseteq unstored'[c]
         /\ i \in unstored'[a] \/ disk_accepts'[a][i] = vote
         /\ \A c \in Acceptors, j \in Instances : c # a \/ j # i =>
              disk_accepts'[c][j] = disk_accepts[c][j]
    <3>1. CASE disk_accepts' = [disk_accepts EXCEPT ![a][i] = vote] /\ unstored' = unstored
      BY Zenon, <1>0, <2>5, <3>1 DEF AccTypeOK
    <3>2. CASE /\ disk_accepts' = disk_accepts
               /\ unstored' = [unstored EXCEPT ![a] = @ \cup {i}]
      BY Zenon, <1>0, <3>2 DEF AccTypeOK
    <3> QED  BY Zenon, <2>10, <3>1, <3>2
  <2>13. TypeOK'
    <3>1. votes' \subseteq Vote
      BY Zenon, <1>0, <2>3, <2>4 DEF TypeOK
    <3>2. AccTypeOK'
      BY Zenon, <1>0, <2>6, <2>7, <2>8, <2>9, <2>10, <2>11, <2>12 DEF AccTypeOK
    <3> QED  BY Zenon, <1>0, <1>1, <2>3, <3>1, <3>2 DEF TypeOK
  <2>14. \A c \in Acceptors :
           Kept(c)' \subseteq Kept(c) /\ Intact(c)' \subseteq Intact(c) \cap Kept(c)'
    BY Zenon, <2>8, <2>9, <2>10, <2>12 DEF Kept, Intact
  <2>15. i \in Kept(a)' => /\ MinEpochBallot(a, i)' = eb /\ disk_accepts'[a][i] = vote
                           /\ NotBefore(eb, MinEpochBallot(a, i))
    <3> SUFFICES ASSUME i \in Kept(a)'
                 PROVE  /\ MinEpochBallot(a, i)' = eb /\ disk_accepts'[a][i] = vote
                        /\ NotBefore(eb, MinEpochBallot(a, i))
      BY Zenon
    <3>1. i \notin below'[a] /\ i \notin unstored'[a]
      BY Zenon DEF Kept
    <3>2. eb.epoch >= current_epoch[a]
      BY <1>0, <2>9, <3>1
    <3>3. MinEpochBallot(a, i)' = eb
      BY Zenon, <1>0, <2>8, <2>11, <3>2 DEF MinEpochBallot
    <3>4. /\ MinEpochBallot(a, i).epoch = current_epoch[a]
          /\ MinEpochBallot(a, i).ballot = last_prepares[a][i]
          /\ MinEpochBallot(a, i) \in EpochBallot
      BY Zenon, <1>0, Types DEF MinEpochBallot
    <3>5. NotBefore(eb, MinEpochBallot(a, i))
      BY Zenon, <1>0, <1>3, <3>2, <3>4, NotFoundInvalid, GrantedNotBefore DEF EpochAcceptGranted
    <3> QED  BY Zenon, <2>12, <3>1, <3>3, <3>5
  <2>16. ASSUME i \in Kept(a)', NEW m \in promises \cup votes, m.aid = a, m.iid = i
         PROVE  NotBefore(eb, m.epoch_ballot)
    <3>1. NotBefore(MinEpochBallot(a, i), m.epoch_ballot)
      BY Zenon, <2>1, <2>14, <2>16 DEF IInv, Fence
    <3>2. MinEpochBallot(a, i) \in EpochBallot /\ m.epoch_ballot \in EpochBallot
      BY Zenon, <1>0, Types
    <3> QED  BY Zenon, <1>0, <2>15, <2>16, <3>1, <3>2, EpochOrder
  <2>17. EpochWrittenAhead'
    <3> SUFFICES ASSUME NEW c \in Acceptors, ~ unsynced'[c]
                 PROVE  /\ current_epoch'[c] = disk_epoch'[c]
                        /\ \A m \in promises' \cup votes' :
                             m.aid = c => m.epoch_ballot.epoch <= disk_epoch'[c]
      BY Zenon DEF EpochWrittenAhead
    <3>1. /\ current_epoch[c] = disk_epoch[c]
          /\ \A m \in promises \cup votes : m.aid = c => m.epoch_ballot.epoch <= disk_epoch[c]
      BY Zenon, <2>8 DEF IInv, EpochWrittenAhead
    <3>2. /\ current_epoch'[c] = disk_epoch'[c] /\ disk_epoch'[c] >= disk_epoch[c]
          /\ disk_epoch[c] \in Nat /\ disk_epoch'[c] \in Nat
      BY Zenon, <1>0, <2>8, <3>1 DEF AccTypeOK
    <3>3. ASSUME NEW m \in promises \cup votes, m.aid = c
          PROVE  m.epoch_ballot.epoch <= disk_epoch'[c]
      <4>1. m.epoch_ballot.epoch \in Nat
        BY Zenon, <1>0, Types DEF EpochBallot
      <4>2. m.epoch_ballot.epoch <= disk_epoch[c]
        BY Zenon, <3>1, <3>3
      <4> HIDE <3>1, <3>3
      <4> QED  BY <3>2, <4>1, <4>2
    <3>4. c = a => w0.epoch_ballot.epoch <= disk_epoch'[c]
      BY Zenon, <2>4, <2>8, <3>2
    <3> QED  BY Zenon, <2>3, <2>4, <3>2, <3>3, <3>4
  <2>18. InstancesInv'
    <3> SUFFICES ASSUME NEW c \in Acceptors, NEW j \in Instances
                 PROVE  InstanceInv(c, j)'
      BY Zenon DEF InstancesInv
    <3>1. InstanceInv(c, j)
      BY Zenon DEF IInv, InstancesInv
    <3>2. Settled(c, j)' <=> Settled(c, j)
      BY Zenon, <2>6 DEF Settled
    <3>3. CASE c # a \/ j # i
      <4>1. last_accepts'[c][j] = last_accepts[c][j] /\ disk_accepts'[c][j] = disk_accepts[c][j]
        BY Zenon, <2>11, <2>12, <3>3
      <4> QED  BY Zenon, <2>3, <2>6, <2>14, <3>1, <3>2, <4>1 DEF InstanceInv, VoteOK, AcceptedMsg
    <3>4. CASE c = a /\ j = i
      <4>1. AcceptedMsg(a, i, vote.epoch_ballot, vote.value) \in votes'
        BY Zenon, <2>3, <2>5 DEF w0
      <4>2. i \notin chosen'[a]
        BY Zenon, <2>1, <2>6 DEF Settled
      <4> QED  BY Zenon, <2>5, <2>11, <2>14, <2>15, <3>4, <4>1, <4>2
                    DEF InstanceInv, VoteOK, AcceptedMsg
    <3> QED  BY Zenon, <3>3, <3>4
  <2>19. Fence'
    <3> SUFFICES ASSUME NEW m \in promises' \cup votes',
                        m.iid \in Kept(m.aid)', ~ Settled(m.aid, m.iid)'
                 PROVE  NotBefore(MinEpochBallot(m.aid, m.iid)', m.epoch_ballot)
      BY Zenon DEF Fence
    <3>1. ASSUME NEW c \in Acceptors, NEW j \in Instances, j \in Kept(c)'
          PROVE  NotBefore(MinEpochBallot(c, j)', MinEpochBallot(c, j))
      <4>1. CASE c = a /\ j = i
        BY Zenon, <2>15, <3>1, <4>1
      <4>2. CASE c # a \/ j # i
        <5>1. /\ last_prepares[c][j] \in Ballot /\ current_epoch[c] \in Nat
              /\ last_prepares'[c][j] = last_prepares[c][j]
          BY Zenon, <1>0, <2>11, <4>2, Types
        <5>2. current_epoch'[c] >= current_epoch[c] /\ current_epoch'[c] \in Nat
          BY Zenon, <2>8
        <5>3. ballot_greater_than_or_equal(last_prepares[c][j], last_prepares[c][j])
          BY Zenon, <5>1, GeqReflexive
        <5>4. current_epoch'[c] > current_epoch[c] \/ current_epoch'[c] = current_epoch[c]
          BY <5>1, <5>2
        <5> QED  BY Zenon, <5>1, <5>3, <5>4 DEF NotBefore, MinEpochBallot
      <4> QED  BY Zenon, <4>1, <4>2
    <3>2. CASE m \in promises \cup votes
      BY Zenon, <2>6, <2>13, <2>14, <3>1, <3>2, FenceKept
    <3>3. CASE m = w0
      BY Zenon, <1>0, <2>4, <2>15, <3>3, EpochOrder
    <3> QED  BY Zenon, <2>3, <3>2, <3>3
  <2>20. TrimInv'
    BY <1>1, <2>6 DEF IInv, TrimInv
  <2>21. ChosenAnswerIsTold'
    <3> SUFFICES ASSUME NEW c \in Acceptors, NEW j \in chosen[c]
                 PROVE  [aid |-> c, iid |-> j,
                         epoch_ballot |-> last_accepts'[c][j].epoch_ballot,
                         value |-> last_accepts'[c][j].value] \in told
      BY Zenon, <1>1, <2>6 DEF ChosenAnswerIsTold
    <3>1. j \in Instances /\ (c # a \/ j # i)
      BY Zenon, <1>0, <2>1 DEF AccTypeOK, Settled
    <3> QED  BY Zenon, <2>11, <3>1 DEF IInv, ChosenAnswerIsTold
  <2>22. VotesDurable'
    <3> SUFFICES ASSUME NEW w \in votes', w.iid \in Kept(w.aid)'
                 PROVE  NotBefore(disk_accepts'[w.aid][w.iid].epoch_ballot, w.epoch_ballot)
      BY Zenon DEF VotesDurable
    <3>1. CASE w \in votes /\ (w.aid # a \/ w.iid # i)
      <4>1. /\ w.aid \in Acceptors /\ w.iid \in Instances
        BY Zenon, <1>0, <3>1, Types
      <4>2. w.iid \in Kept(w.aid) /\ disk_accepts'[w.aid][w.iid] = disk_accepts[w.aid][w.iid]
        BY Zenon, <2>12, <2>14, <3>1, <4>1
      <4> QED  BY Zenon, <3>1, <4>2 DEF IInv, VotesDurable
    <3>2. CASE w \in votes /\ w.aid = a /\ w.iid = i
      BY Zenon, <2>5, <2>15, <2>16, <3>2
    <3>3. CASE w = w0
      BY Zenon, <1>0, <2>4, <2>5, <2>15, <3>3, EpochOrder
    <3> QED  BY Zenon, <2>3, <3>1, <3>2, <3>3
  <2>23. EpochPromiseReportsVotes'
    <3> SUFFICES ASSUME NEW p \in promises, NEW w \in votes',
                        p.aid = w.aid, p.iid = w.iid, p.iid \in Intact(p.aid)',
                        After(p.epoch_ballot, w.epoch_ballot)
                 PROVE  NotBefore(p.last_accepted, w.epoch_ballot)
      BY Zenon, <2>3 DEF EpochPromiseReportsVotes
    <3>0. p.iid \in Intact(p.aid) /\ p.epoch_ballot \in EpochBallot
      BY Zenon, <1>0, <2>14, Types
    <3>1. CASE w \in votes
      BY Zenon, <3>0, <3>1 DEF IInv, EpochPromiseReportsVotes
    <3>2. CASE w = w0
      <4>1. NotBefore(eb, p.epoch_ballot) /\ w.epoch_ballot = eb
        BY Zenon, <2>4, <2>14, <2>16, <3>2
      <4> QED  BY Zenon, <1>0, <3>0, <4>1, EpochOrder
    <3> QED  BY Zenon, <2>3, <3>1, <3>2
  <2> QED  BY Zenon, <2>13, <2>17, <2>18, <2>19, <2>20, <2>21, <2>22, <2>23 DEF IInv
<1> QED  BY Zenon, <1>2, <1>3

(* A repeat is answered with votes already sent.                           *)
LEMMA RepeatKeepsIInv ==
  ASSUME IInv, NEW a \in Acceptors, NEW from \in Instances, NEW to \in Instances,
         HandleRepeat(a, from, to)
  PROVE  IInv'
<1> DEFINE S == {j \in Instances : from <= j /\ j <= to}
<1>0. TypeOK
  BY Zenon DEF IInv
<1>1. ASSUME NEW j \in Instances, NEW m \in RepeatReply(a, j)
      PROVE  m.type # "PROMISE" /\ (m.type = "ACCEPTED" => m \in votes)
  <2>1. InstanceInv(a, j)
    BY Zenon DEF IInv, InstancesInv
  <2>2. CASE j \in chosen[a]
    BY <1>1, <2>2 DEF RepeatReply, ChosenMsg
  <2>3. CASE /\ j \notin chosen[a]
             /\ ballot_greater_than(last_accepts[a][j].epoch_ballot.ballot, INVALID_BALLOT)
    <3>1. m = AcceptedMsg(a, j, last_accepts[a][j].epoch_ballot, last_accepts[a][j].value)
      BY Zenon, <1>1, <2>3 DEF RepeatReply
    <3>2. last_accepts[a][j] # NoAccept
      BY <2>3, InvalidIsLeast, GeqTotal DEF NoAccept, INVALID_EPOCH_BALLOT
    <3> QED  BY Zenon, <2>1, <2>3, <3>1, <3>2 DEF InstanceInv, AcceptedMsg
  <2>4. CASE /\ j \notin chosen[a]
             /\ ~ ballot_greater_than(last_accepts[a][j].epoch_ballot.ballot, INVALID_BALLOT)
    BY Zenon, <1>1, <2>4 DEF RepeatReply
  <2> QED  BY Zenon, <2>2, <2>3, <2>4
<1>2. promises' = promises /\ votes' = votes
  <2>1. \A m \in UNION {RepeatReply(a, j) : j \in S} :
          m.type # "PROMISE" /\ (m.type = "ACCEPTED" => m \in votes)
    BY Zenon, <1>1
  <2> QED  BY Zenon, <2>1 DEF HandleRepeat, Send, ofType
<1> QED  BY Zenon, <1>0, <1>2, StutterKeepsIInv DEF HandleRepeat, accVars, memVars, TypeOK, AccTypeOK

-----------------------------------------------------------------------------
(* What depends on votes, disk and epoch only survives a step that leaves  *)
(* those alone and forgets no more than it admits.                         *)
LEMMA AnswersKept ==
  ASSUME IInv, UNCHANGED <<disk_accepts, promises, votes>>,
         \A c \in Acceptors : Kept(c)' \subseteq Kept(c) /\ Intact(c)' \subseteq Intact(c)
  PROVE  VotesDurable' /\ EpochPromiseReportsVotes'
<1>0. TypeOK
  BY Zenon DEF IInv
<1>1. VotesDurable'
  <2>1. \A w \in votes : w.aid \in Acceptors
    BY Zenon, <1>0, Types
  <2> QED  BY Zenon, <2>1 DEF IInv, VotesDurable
<1>2. EpochPromiseReportsVotes'
  <2>1. \A p \in promises : p.aid \in Acceptors
    BY Zenon, <1>0, Types
  <2> QED  BY Zenon, <2>1 DEF IInv, EpochPromiseReportsVotes
<1> QED  BY Zenon, <1>1, <1>2

(* writeahead_epoch_acceptor_receive_instance_chosen keeps the invariant.  *)
LEMMA ChosenKeepsIInv ==
  ASSUME IInv, NEW a \in Acceptors, NEW i \in Instances, NEW eb \in EpochBallotsInUse,
         NEW v \in Values, HandleEpochBallotChosen(a, i, eb, v)
  PROVE  IInv'
<1> DEFINE c == chosen[a] \cup {i}
           k == AdvanceMinChosen(min_chosen_instance[a], c, i)
           vote == [epoch_ballot |-> eb, value |-> v]
           p == [last_prepares[a] EXCEPT ![i] = eb.ballot]
           w == [last_accepts[a] EXCEPT ![i] = vote]
           t == [aid |-> a, iid |-> i, epoch_ballot |-> eb, value |-> v]
<1>0. /\ TypeOK /\ AccTypeOK /\ eb \in EpochBallot /\ eb.ballot \in Ballot
      /\ eb.ballot # INVALID_BALLOT /\ Instances \subseteq Nat /\ INVALID_BALLOT \in Ballot
  BY EpochRequestsAssumption, EpochAcceptorAssumption, InvalidIsLeast
     DEF IInv, TypeOK, EpochBallot, ValidBallot
<1>1. /\ promises' = promises /\ votes' = votes /\ told' = told \cup {t} /\ t \in Told
      /\ ReceiveChosen(a, i, eb, v)
  BY Zenon, <1>0 DEF HandleEpochBallotChosen, Told
<1>2. /\ Proposed(a, i) /\ disk_accepts' = disk_accepts /\ below' = below
      /\ unstored' = unstored /\ forgotten' = forgotten
      /\ current_epoch' = current_epoch /\ disk_epoch' = disk_epoch /\ unsynced' = unsynced
  BY Zenon, <1>1 DEF ReceiveChosen, epochVars
<1>3. max_proposed_instance' \in [Acceptors -> Nat]
  BY Zenon, <1>0, <1>2, ProposedType
<1>4. EpochWrittenAhead'
  BY Zenon, <1>1, <1>2 DEF IInv, EpochWrittenAhead
<1>5. CASE /\ i \in chosen[a]
           /\ UNCHANGED <<trim_instance, chosen, min_chosen_instance, last_prepares,
                          last_accepts, wiped>>
  <2>1. TypeOK'
    BY Zenon, <1>0, <1>1, <1>2, <1>3, <1>5 DEF TypeOK, AccTypeOK
  <2>2. TrimInv' /\ ChosenAnswerIsTold'
    BY <1>1, <1>5 DEF IInv, TrimInv, ChosenAnswerIsTold
  <2>3. InstancesInv'
    BY <1>1, <1>2, <1>5 DEF IInv, InstancesInv, InstanceInv, VoteOK, Settled, Kept, Intact,
                                  AcceptedMsg
  <2>4. Fence'
    BY Zenon, <1>1, <1>2, <1>5 DEF IInv, Fence, Settled, Kept, MinEpochBallot
  <2>5. VotesDurable' /\ EpochPromiseReportsVotes'
    BY Zenon, <1>1, <1>2, <1>5, AnswersKept DEF Kept, Intact
  <2> QED  BY Zenon, <1>4, <2>1, <2>2, <2>3, <2>4, <2>5 DEF IInv
<1>6. CASE i \notin chosen[a]
  <2>1. /\ k \in Nat /\ k >= trim_instance[a] /\ trim_instance[a] = min_chosen_instance[a]
        /\ \A j \in Instances : trim_instance[a] < j /\ j <= k => j \in c
    <3>1. trim_instance[a] = min_chosen_instance[a] /\ trim_instance[a] \in Nat
      BY Zenon, <1>0 DEF IInv, TrimInv, AccTypeOK
    <3> HIDE DEF c
    <3> QED  BY Zenon, <1>0, <3>1, AdvanceMinChosenPrefix
  <2>2. vote \in Accepted /\ vote # NoAccept /\ VoteOK(vote)
    <3>1. ballot_greater_than(eb.ballot, INVALID_BALLOT)
      BY Zenon, <1>0, GeqTotal, GeqAntisymmetric, InvalidIsLeast
    <3> QED  BY Zenon, <1>0, <3>1, EpochAcceptorAssumption DEF Accepted, NoAccept, VoteOK
  <2>3. NoAccept \in Accepted /\ VoteOK(NoAccept)
    BY Zenon, <1>0 DEF NoAccept, Accepted, INVALID_EPOCH_BALLOT, EpochBallot, VoteOK
  <2>4. /\ p \in [Instances -> Ballot] /\ w \in [Instances -> Accepted]
        /\ w[i] = vote
        /\ \A j \in Instances : j # i => p[j] = last_prepares[a][j] /\ w[j] = last_accepts[a][j]
    <3> HIDE DEF vote
    <3> QED  BY Zenon, <1>0, <2>2 DEF AccTypeOK
  <2> HIDE DEF p, w, k
  <2> DEFINE Post(E) ==
          /\ trim_instance' = [trim_instance EXCEPT ![a] = k]
          /\ min_chosen_instance' = [min_chosen_instance EXCEPT ![a] = k]
          /\ last_prepares' = [last_prepares EXCEPT ![a] =
               [j \in Instances |-> IF j \in E THEN INVALID_BALLOT ELSE p[j]]]
          /\ last_accepts' = [last_accepts EXCEPT ![a] =
               [j \in Instances |-> IF j \in E THEN NoAccept ELSE w[j]]]
          /\ chosen' = [chosen EXCEPT ![a] = c \ E]
          /\ wiped' = [wiped EXCEPT ![a] = @ \cup
               {j \in E : j > k /\ (p[j] # INVALID_BALLOT \/ w[j] # NoAccept)}]
  <2>5. \E E \in SUBSET Instances : Post(E)
    <3>0. trim_instance[a] \in Nat
      BY Zenon, <1>0 DEF AccTypeOK
    <3>1. /\ min_chosen_instance' = [min_chosen_instance EXCEPT ![a] = k]
          /\ \/ k > trim_instance[a] /\ TrimTo(a, k, p, w, c)
             \/ /\ k <= trim_instance[a]
                /\ last_prepares' = [last_prepares EXCEPT ![a] = p]
                /\ last_accepts' = [last_accepts EXCEPT ![a] = w]
                /\ chosen' = [chosen EXCEPT ![a] = c]
                /\ UNCHANGED <<trim_instance, wiped>>
      BY <1>1, <1>6, Zenon DEF ReceiveChosen, p, w, k
    <3>2. CASE TrimTo(a, k, p, w, c)
      <4> DEFINE E == {j \in Instances : j < ToTrimFrom(k)}
      <4>1. E \in SUBSET Instances
        BY Zenon
      <4>2. Post(E)
        BY <3>1, <3>2, Zenon DEF TrimTo
      <4> HIDE DEF Post, E
      <4> QED  BY Zenon, <4>1, <4>2
    <3>3. CASE /\ k <= trim_instance[a]
               /\ last_prepares' = [last_prepares EXCEPT ![a] = p]
               /\ last_accepts' = [last_accepts EXCEPT ![a] = w]
               /\ chosen' = [chosen EXCEPT ![a] = c]
               /\ UNCHANGED <<trim_instance, wiped>>
      <4>1. k = trim_instance[a]
        BY <2>1, <3>0, <3>3
      <4>2. /\ p = [j \in Instances |-> IF j \in {} THEN INVALID_BALLOT ELSE p[j]]
            /\ w = [j \in Instances |-> IF j \in {} THEN NoAccept ELSE w[j]]
        BY Zenon, <2>4
      <4>3. trim_instance' = [trim_instance EXCEPT ![a] = k]
        BY Zenon, <1>0, <3>3, <4>1 DEF AccTypeOK
      <4>4. wiped' = [wiped EXCEPT ![a] = @ \cup
              {j \in {} : j > k /\ (p[j] # INVALID_BALLOT \/ w[j] # NoAccept)}]
        BY Zenon, <1>0, <3>3 DEF AccTypeOK
      <4>5. c = c \ {}
        BY Zenon
      <4>6. Post({})
        <5> HIDE DEF c
        <5> QED  BY Zenon, <3>1, <3>3, <4>2, <4>3, <4>4, <4>5
      <4> HIDE DEF Post
      <4> QED  BY Zenon, <4>6
    <3> HIDE DEF Post
    <3> QED  BY Zenon, <3>1, <3>2, <3>3
  <2>6. PICK E \in SUBSET Instances : Post(E)
    <3> HIDE DEF Post
    <3> QED  BY Zenon, <2>5
  <2>7. /\ trim_instance'[a] = k /\ min_chosen_instance'[a] = k
        /\ chosen'[a] = c \ E
        /\ wiped'[a] = wiped[a] \cup
             {j \in E : j > k /\ (p[j] # INVALID_BALLOT \/ w[j] # NoAccept)}
        /\ \A j \in Instances :
             /\ last_prepares'[a][j] = IF j \in E THEN INVALID_BALLOT ELSE p[j]
             /\ last_accepts'[a][j] = IF j \in E THEN NoAccept ELSE w[j]
    BY Zenon, <1>0, <2>6 DEF AccTypeOK
  <2>8. \A d \in Acceptors : d # a =>
          /\ trim_instance'[d] = trim_instance[d]
          /\ min_chosen_instance'[d] = min_chosen_instance[d]
          /\ chosen'[d] = chosen[d] /\ wiped'[d] = wiped[d]
          /\ last_prepares'[d] = last_prepares[d] /\ last_accepts'[d] = last_accepts[d]
    BY Zenon, <1>0, <2>6 DEF AccTypeOK
  <2>9. TypeOK'
    <3>1. /\ [j \in Instances |-> IF j \in E THEN INVALID_BALLOT ELSE p[j]]
               \in [Instances -> Ballot]
          /\ [j \in Instances |-> IF j \in E THEN NoAccept ELSE w[j]]
               \in [Instances -> Accepted]
      BY Zenon, <1>0, <2>3, <2>4
    <3>2. last_prepares' \in [Acceptors -> [Instances -> Ballot]]
      BY Zenon, <1>0, <2>6, <3>1 DEF AccTypeOK
    <3>3. last_accepts' \in [Acceptors -> [Instances -> Accepted]]
      BY Zenon, <1>0, <2>6, <3>1 DEF AccTypeOK
    <3>4. /\ chosen' \in [Acceptors -> SUBSET Instances]
          /\ wiped' \in [Acceptors -> SUBSET Instances]
      BY Zenon, <1>0, <2>6 DEF AccTypeOK
    <3>5. trim_instance' \in [Acceptors -> Nat] /\ min_chosen_instance' \in [Acceptors -> Nat]
      BY Zenon, <1>0, <2>1, <2>6 DEF AccTypeOK
    <3>6. AccTypeOK'
      BY Zenon, <1>0, <1>2, <1>3, <3>2, <3>3, <3>4, <3>5 DEF AccTypeOK
    <3> QED  BY Zenon, <1>0, <1>1, <3>6 DEF TypeOK
  <2> HIDE DEF Post
  <2>10. TrimInv'
    <3>1. \A d \in Acceptors : trim_instance'[d] = min_chosen_instance'[d]
      BY ZenonT(40), <2>7, <2>8 DEF IInv, TrimInv
    <3>2. ASSUME NEW d \in Acceptors, NEW j \in Instances,
                 j <= trim_instance'[d] \/ j \in chosen'[d]
          PROVE  \E s \in told' : s.aid = d /\ s.iid = j
      <4>1. CASE d # a
        BY <1>1, <2>8, <3>2, <4>1 DEF IInv, TrimInv
      <4>2. CASE d = a /\ j = i
        BY <1>1, <4>2
      <4>3. CASE d = a /\ j # i
        <5>1. j <= trim_instance[a] \/ j \in chosen[a]
          <6>1. trim_instance'[a] = k /\ chosen'[a] \subseteq c
            BY Zenon, <2>7
          <6>2. j \in c => j \in chosen[a]
            BY Zenon, <4>3
          <6>3. trim_instance[a] \in Nat /\ j \in Nat
            BY Zenon, <1>0 DEF AccTypeOK
          <6>4. j <= k => j <= trim_instance[a] \/ j \in c
            BY <2>1, <6>3
          <6> HIDE DEF c
          <6> QED  BY Zenon, <3>2, <4>3, <6>1, <6>2, <6>4
        <5> QED  BY <1>1, <4>3, <5>1 DEF IInv, TrimInv
      <4> QED  BY Zenon, <4>1, <4>2, <4>3
    <3> QED  BY Zenon, <3>1, <3>2 DEF TrimInv
  <2>11. ChosenAnswerIsTold'
    <3> SUFFICES ASSUME NEW d \in Acceptors, NEW j \in chosen'[d]
                 PROVE  [aid |-> d, iid |-> j,
                         epoch_ballot |-> last_accepts'[d][j].epoch_ballot,
                         value |-> last_accepts'[d][j].value] \in told'
      BY Zenon DEF ChosenAnswerIsTold
    <3>1. CASE d # a
      BY Zenon, <1>1, <2>8, <3>1 DEF IInv, ChosenAnswerIsTold
    <3>2. CASE d = a /\ j = i
      <4>1. last_accepts'[a][i] = vote
        BY Zenon, <2>4, <2>7, <3>2
      <4> QED  BY <1>1, <3>2, <4>1
    <3>3. CASE d = a /\ j # i
      <4>1. j \in chosen[a] /\ j \in Instances /\ last_accepts'[a][j] = last_accepts[a][j]
        BY Zenon, <1>0, <2>4, <2>7, <3>3 DEF AccTypeOK
      <4> QED  BY Zenon, <1>1, <3>3, <4>1 DEF IInv, ChosenAnswerIsTold
    <3> QED  BY Zenon, <3>1, <3>2, <3>3
  <2>12. ASSUME NEW j \in Instances, ~ Settled(a, j)', j \notin wiped'[a]
         PROVE  /\ ~ Settled(a, j) /\ last_accepts'[a][j] = last_accepts[a][j]
                /\ last_prepares'[a][j] = last_prepares[a][j]
    <3>0. j \in Nat /\ trim_instance[a] \in Nat /\ InstanceInv(a, j)
      BY Zenon, <1>0 DEF AccTypeOK, IInv, InstancesInv
    <3>1. j > k /\ ~ (j <= trim_instance[a]) /\ j \notin chosen'[a]
      BY <2>1, <2>7, <2>12, <3>0 DEF Settled
    <3>2. CASE j \notin E
      <4>1. j \notin c
        BY Zenon, <2>7, <3>1, <3>2
      <4>2. j # i /\ j \notin chosen[a]
        BY Zenon, <4>1
      <4> QED  BY Zenon, <2>4, <2>7, <3>1, <3>2, <4>2 DEF Settled
    <3>3. CASE j \in E
      <4>1. p[j] = INVALID_BALLOT /\ w[j] = NoAccept
        BY Zenon, <2>7, <2>12, <3>1, <3>3
      <4>2. j # i
        BY Zenon, <2>2, <2>4, <4>1
      <4>3. last_prepares[a][j] = INVALID_BALLOT /\ last_accepts[a][j] = NoAccept
        BY Zenon, <2>4, <4>1, <4>2
      <4>4. j \notin chosen[a]
        BY Zenon, <3>0, <4>3 DEF InstanceInv
      <4> QED  BY Zenon, <2>7, <3>1, <3>3, <4>3, <4>4 DEF Settled
    <3> QED  BY Zenon, <3>2, <3>3
  <2>13. /\ \A d \in Acceptors : Kept(d)' \subseteq Kept(d)
         /\ \A d \in Acceptors : d # a => Kept(d)' = Kept(d)
         /\ \A j \in Kept(a)' : j \notin wiped'[a]
         /\ \A d \in Acceptors : Intact(d)' \subseteq Intact(d) \cap Kept(d)'
         /\ \A d \in Acceptors : d # a => Intact(d)' = Intact(d)
    <3>1. /\ \A d \in Acceptors : Kept(d)' \subseteq Kept(d)
          /\ \A d \in Acceptors : d # a => Kept(d)' = Kept(d)
          /\ \A j \in Kept(a)' : j \notin wiped'[a]
      BY Zenon, <1>2, <2>7, <2>8 DEF Kept
    <3> QED  BY Zenon, <1>2, <3>1 DEF Intact
  <2>14. InstancesInv'
    <3> SUFFICES ASSUME NEW d \in Acceptors, NEW j \in Instances
                 PROVE  InstanceInv(d, j)'
      BY Zenon DEF InstancesInv
    <3>0. InstanceInv(d, j)
      BY Zenon DEF IInv, InstancesInv
    <3>1. CASE d # a
      BY Zenon, <1>1, <1>2, <2>8, <2>13, <3>0, <3>1 DEF InstanceInv, VoteOK, Settled, AcceptedMsg
    <3>2. CASE d = a
      <4>1. VoteOK(last_accepts'[a][j])
        BY <2>2, <2>3, <2>4, <2>7, <3>0, <3>2 DEF InstanceInv
      <4>2. j \in chosen'[a] => last_accepts'[a][j] # NoAccept
        BY Zenon, <2>2, <2>4, <2>7, <3>0, <3>2 DEF InstanceInv
      <4>3. j \notin chosen'[a] /\ last_accepts'[a][j] # NoAccept =>
              j \notin chosen[a] /\ last_accepts'[a][j] = last_accepts[a][j]
        BY Zenon, <2>4, <2>7
      <4>4. (~ Settled(a, j) /\ j \in Intact(a))' =>
              /\ ~ Settled(a, j) /\ j \in Intact(a)
              /\ last_accepts'[a][j] = last_accepts[a][j]
        BY Zenon, <2>12, <2>13
      <4> QED  BY Zenon, <1>1, <1>2, <3>0, <3>2, <4>1, <4>2, <4>3, <4>4
               DEF InstanceInv, VoteOK, AcceptedMsg
    <3> QED  BY Zenon, <3>1, <3>2
  <2>15. Fence'
    <3> SUFFICES ASSUME NEW m \in promises \cup votes,
                        m.iid \in Kept(m.aid)', ~ Settled(m.aid, m.iid)'
                 PROVE  NotBefore(MinEpochBallot(m.aid, m.iid)', m.epoch_ballot)
      BY Zenon, <1>1 DEF Fence
    <3>0. m.aid \in Acceptors /\ m.iid \in Instances
      BY Zenon, <1>0, Types
    <3>1. m.iid \in Kept(m.aid)
      BY Zenon, <2>13, <3>0
    <3>2. ~ Settled(m.aid, m.iid) /\ last_prepares'[m.aid][m.iid] = last_prepares[m.aid][m.iid]
      <4>1. CASE m.aid = a
        BY Zenon, <2>12, <2>13, <3>0, <4>1
      <4>2. CASE m.aid # a
        BY Zenon, <2>8, <3>0, <4>2 DEF Settled
      <4> QED  BY Zenon, <4>1, <4>2
    <3>3. MinEpochBallot(m.aid, m.iid)' = MinEpochBallot(m.aid, m.iid)
      BY Zenon, <1>2, <3>2 DEF MinEpochBallot
    <3> QED  BY Zenon, <3>1, <3>2, <3>3 DEF IInv, Fence
  <2>16. VotesDurable' /\ EpochPromiseReportsVotes'
    BY Zenon, <1>1, <1>2, <2>13, AnswersKept
  <2> QED  BY Zenon, <1>4, <2>9, <2>10, <2>11, <2>14, <2>15, <2>16 DEF IInv
<1> QED  BY Zenon, <1>1, <1>5, <1>6 DEF ReceiveChosen

(* The chosen prefix is trimmed as soon as it grows, so a TRIM message     *)
(* finds nothing to do.                                                    *)
LEMMA TrimKeepsIInv ==
  ASSUME IInv, NEW a \in Acceptors, NEW i \in Instances, HandleTrim(a, i)
  PROVE  IInv'
<1>1. trim_instance[a] = min_chosen_instance[a] /\ trim_instance[a] \in Nat /\ i \in Nat
  BY EpochAcceptorAssumption DEF IInv, TrimInv, TypeOK, AccTypeOK
<1>2. ~ (i > trim_instance[a] /\ min_chosen_instance[a] + 1 > i)
  BY <1>1
<1>3. UNCHANGED accVars
  BY Zenon, <1>2 DEF HandleTrim, ReceiveTrim
<1> QED  BY Zenon, <1>3, StutterKeepsIInv DEF HandleTrim, accVars, memVars, IInv, TypeOK, AccTypeOK

(* A restart keeps it: the new epoch is above every answer given before.   *)
LEMMA RestartKeepsIInv ==
  ASSUME IInv, NEW a \in Acceptors, NEW stray \in [Instances -> StrayBallots], NEW st,
         RestartAcceptor(a, stray, st)
  PROVE  IInv'
<1> DEFINE stored == {i \in Instances : disk_accepts[a][i] # NoAccept}
           read == IF st = "not_begun" THEN {} ELSE stored
           old_epoch == IF st = "not_begun" THEN 0 ELSE disk_epoch[a]
           e == old_epoch + 1
<1>0. /\ TypeOK /\ AccTypeOK /\ disk_epoch[a] \in Nat /\ e \in Nat
      /\ Instances \subseteq Nat \ {0} /\ INVALID_BALLOT \in Ballot
      /\ StrayBallots \subseteq Ballot
  BY EpochAcceptorAssumption, InvalidIsLeast DEF IInv, TypeOK, AccTypeOK
<1>1. /\ UNCHANGED <<promises, votes, told, disk_accepts, below, unstored, wiped>>
      /\ IncreaseEpoch(a, e, st)
      /\ last_prepares' = [last_prepares EXCEPT ![a] =
           [i \in Instances |-> IF i \in read THEN stray[i] ELSE INVALID_BALLOT]]
      /\ last_accepts' = [last_accepts EXCEPT ![a] = [i \in Instances |-> NoAccept]]
      /\ forgotten' = [forgotten EXCEPT ![a] = @ \cup stored]
      /\ trim_instance' = [trim_instance EXCEPT ![a] = 0]
      /\ max_proposed_instance' = [max_proposed_instance EXCEPT ![a] = 0]
      /\ chosen' = [chosen EXCEPT ![a] = {}]
      /\ min_chosen_instance' = [min_chosen_instance EXCEPT ![a] = 0]
  BY Zenon DEF RestartAcceptor, Restart
<1>2. /\ current_epoch' = [current_epoch EXCEPT ![a] = e]
      /\ \/ /\ disk_epoch' = [disk_epoch EXCEPT ![a] = e] /\ unsynced' = unsynced
            /\ e = disk_epoch[a] + 1
         \/ disk_epoch' = disk_epoch /\ unsynced' = [unsynced EXCEPT ![a] = TRUE]
  <2>1. st = "committed" => st # "not_begun"
    BY SMT
  <2> QED  BY Zenon, <1>1, <2>1 DEF IncreaseEpoch
<1> HIDE DEF e
<1>3. /\ current_epoch' \in [Acceptors -> Nat] /\ disk_epoch' \in [Acceptors -> Nat]
      /\ unsynced' \in [Acceptors -> BOOLEAN]
      /\ current_epoch'[a] = e
      /\ ~ unsynced'[a] => /\ ~ unsynced[a] /\ disk_epoch'[a] = e
                            /\ e = disk_epoch[a] + 1
      /\ \A d \in Acceptors : d # a =>
           /\ current_epoch'[d] = current_epoch[d] /\ disk_epoch'[d] = disk_epoch[d]
           /\ unsynced'[d] = unsynced[d]
  <2>1. CASE /\ disk_epoch' = [disk_epoch EXCEPT ![a] = e] /\ unsynced' = unsynced
             /\ e = disk_epoch[a] + 1
    BY Zenon, <1>0, <1>2, <2>1 DEF AccTypeOK
  <2>2. CASE disk_epoch' = disk_epoch /\ unsynced' = [unsynced EXCEPT ![a] = TRUE]
    <3>1. unsynced' \in [Acceptors -> BOOLEAN] /\ unsynced'[a]
          /\ \A d \in Acceptors : d # a => unsynced'[d] = unsynced[d]
      BY Zenon, <1>0, <2>2 DEF AccTypeOK
    <3> QED  BY Zenon, <1>0, <1>2, <2>2, <3>1 DEF AccTypeOK
  <2> QED  BY Zenon, <1>2, <2>1, <2>2
<1>4. /\ trim_instance'[a] = 0 /\ min_chosen_instance'[a] = 0 /\ chosen'[a] = {}
      /\ forgotten'[a] = forgotten[a] \cup stored
      /\ \A j \in Instances : last_accepts'[a][j] = NoAccept
      /\ \A d \in Acceptors : d # a =>
           /\ trim_instance'[d] = trim_instance[d]
           /\ min_chosen_instance'[d] = min_chosen_instance[d]
           /\ chosen'[d] = chosen[d] /\ forgotten'[d] = forgotten[d]
           /\ last_prepares'[d] = last_prepares[d] /\ last_accepts'[d] = last_accepts[d]
  <2> HIDE DEF stored, read
  <2> QED  BY Zenon, <1>0, <1>1 DEF AccTypeOK
<1>5. TypeOK'
  <2>1. NoAccept \in Accepted
    BY Zenon, <1>0 DEF NoAccept, Accepted, INVALID_EPOCH_BALLOT, EpochBallot
  <2>2. [i \in Instances |-> IF i \in read THEN stray[i] ELSE INVALID_BALLOT]
          \in [Instances -> Ballot]
    <3> HIDE DEF read
    <3> QED  BY Zenon, <1>0
  <2>3. last_prepares' \in [Acceptors -> [Instances -> Ballot]]
    BY Zenon, <1>0, <1>1, <2>2 DEF AccTypeOK
  <2>4. last_accepts' \in [Acceptors -> [Instances -> Accepted]]
    BY Zenon, <1>0, <1>1, <2>1 DEF AccTypeOK
  <2>5. /\ chosen' \in [Acceptors -> SUBSET Instances]
        /\ forgotten' \in [Acceptors -> SUBSET Instances]
    BY Zenon, <1>0, <1>1 DEF AccTypeOK
  <2>6. /\ trim_instance' \in [Acceptors -> Nat] /\ min_chosen_instance' \in [Acceptors -> Nat]
        /\ max_proposed_instance' \in [Acceptors -> Nat]
    BY Zenon, <1>0, <1>1 DEF AccTypeOK
  <2>7. AccTypeOK'
    BY Zenon, <1>0, <1>1, <1>3, <2>3, <2>4, <2>5, <2>6 DEF AccTypeOK
  <2> QED  BY Zenon, <1>0, <1>1, <2>7 DEF TypeOK
<1>6. /\ \A d \in Acceptors : Kept(d)' \subseteq Kept(d) /\ Intact(d)' \subseteq Intact(d)
      /\ \A d \in Acceptors : d # a => Kept(d)' = Kept(d) /\ Intact(d)' = Intact(d)
      /\ \A j \in Intact(a)' : disk_accepts[a][j] = NoAccept
      /\ \A j \in Kept(a)' : ~ unsynced'[a]
  <2>1. /\ \A d \in Acceptors : Kept(d)' \subseteq Kept(d)
        /\ \A d \in Acceptors : d # a => Kept(d)' = Kept(d)
        /\ \A j \in Kept(a)' : j \in Instances /\ ~ unsynced'[a]
    BY Zenon, <1>1, <1>3 DEF Kept
  <2>2. \A d \in Acceptors : d # a => Intact(d)' = Intact(d)
    BY Zenon, <1>4, <2>1 DEF Intact
  <2>3. /\ Intact(a)' \subseteq Intact(a)
        /\ \A j \in Intact(a)' : disk_accepts[a][j] = NoAccept
    BY Zenon, <1>4, <2>1 DEF Intact
  <2> QED  BY Zenon, <2>1, <2>2, <2>3
<1> HIDE DEF stored, read, old_epoch
<1>7. TrimInv' /\ ChosenAnswerIsTold'
  <2>1. \A j \in Instances : ~ (j <= 0)
    BY <1>0
  <2>2. TrimInv
    BY Zenon DEF IInv
  <2>3. \A d \in Acceptors : trim_instance'[d] = min_chosen_instance'[d]
    BY Zenon, <1>4, <2>2 DEF TrimInv
  <2>4. ASSUME NEW d \in Acceptors, NEW j \in Instances,
               j <= trim_instance'[d] \/ j \in chosen'[d]
        PROVE  \E t \in told' : t.aid = d /\ t.iid = j
    <3>1. d # a
      BY Zenon, <1>4, <2>1, <2>4
    <3>2. j <= trim_instance[d] \/ j \in chosen[d]
      BY Zenon, <1>4, <2>4, <3>1
    <3> QED  BY Zenon, <1>1, <2>2, <3>2 DEF TrimInv
  <2>5. TrimInv'
    BY Zenon, <2>3, <2>4 DEF TrimInv
  <2> QED  BY <1>1, <1>4, <2>5 DEF IInv, ChosenAnswerIsTold
<1>8. EpochWrittenAhead'
  <2> SUFFICES ASSUME NEW d \in Acceptors, ~ unsynced'[d]
               PROVE  /\ current_epoch'[d] = disk_epoch'[d]
                      /\ \A m \in promises \cup votes :
                           m.aid = d => m.epoch_ballot.epoch <= disk_epoch'[d]
    BY Zenon, <1>1 DEF EpochWrittenAhead
  <2>1. CASE d # a
    BY Zenon, <1>3, <2>1 DEF IInv, EpochWrittenAhead
  <2>2. CASE d = a
    <3>1. /\ ~ unsynced[a] /\ current_epoch'[a] = e /\ disk_epoch'[a] = e
          /\ e = disk_epoch[a] + 1
      BY Zenon, <1>3, <2>2
    <3>2. ASSUME NEW m \in promises \cup votes, m.aid = a
          PROVE  m.epoch_ballot.epoch <= e
      <4>1. m.epoch_ballot.epoch \in Nat
        BY Zenon, <1>0, Types DEF EpochBallot
      <4>2. m.epoch_ballot.epoch <= disk_epoch[a]
        BY Zenon, <3>1, <3>2 DEF IInv, EpochWrittenAhead
      <4> QED  BY <1>0, <3>1, <4>1, <4>2
    <3> QED  BY Zenon, <2>2, <3>1, <3>2
  <2> QED  BY Zenon, <2>1, <2>2
<1>9. InstancesInv'
  <2> SUFFICES ASSUME NEW d \in Acceptors, NEW j \in Instances
               PROVE  InstanceInv(d, j)'
    BY Zenon DEF InstancesInv
  <2>0. InstanceInv(d, j)
    BY Zenon DEF IInv, InstancesInv
  <2>1. CASE d # a
    <3>1. /\ last_accepts'[d][j] = last_accepts[d][j] /\ disk_accepts' = disk_accepts
          /\ votes' = votes /\ chosen'[d] = chosen[d] /\ Intact(d)' = Intact(d)
      BY Zenon, <1>1, <1>4, <1>6, <2>1
    <3>2. Settled(d, j)' <=> Settled(d, j)
      BY Zenon, <1>4, <2>1 DEF Settled
    <3> QED  BY Zenon, <2>0, <3>1, <3>2 DEF InstanceInv, VoteOK, AcceptedMsg
  <2>2. CASE d = a
    BY <1>1, <1>4, <1>6, <2>2 DEF InstanceInv, VoteOK
  <2> QED  BY Zenon, <2>1, <2>2
<1>10. Fence'
  <2> SUFFICES ASSUME NEW m \in promises \cup votes,
                      m.iid \in Kept(m.aid)', ~ Settled(m.aid, m.iid)'
               PROVE  NotBefore(MinEpochBallot(m.aid, m.iid)', m.epoch_ballot)
    BY Zenon, <1>1 DEF Fence
  <2>0. m.aid \in Acceptors /\ m.iid \in Instances /\ m.epoch_ballot.epoch \in Nat
    BY Zenon, <1>0, Types DEF EpochBallot
  <2>1. CASE m.aid = a
    <3>0. ~ unsynced[a] /\ e = disk_epoch[a] + 1
      BY Zenon, <1>3, <1>6, <2>1
    <3>1. m.epoch_ballot.epoch <= disk_epoch[a]
      BY Zenon, <2>1, <3>0 DEF IInv, EpochWrittenAhead
    <3>2. MinEpochBallot(m.aid, m.iid)'.epoch = e
      BY Zenon, <1>3, <2>1 DEF MinEpochBallot
    <3>3. e > m.epoch_ballot.epoch
      BY <1>0, <2>0, <3>0, <3>1
    <3> QED  BY Zenon, <3>2, <3>3 DEF NotBefore
  <2>2. CASE m.aid # a
    <3>1. m.iid \in Kept(m.aid) /\ ~ Settled(m.aid, m.iid)
      BY Zenon, <1>4, <1>6, <2>0, <2>2 DEF Settled
    <3>2. MinEpochBallot(m.aid, m.iid)' = MinEpochBallot(m.aid, m.iid)
      BY Zenon, <1>3, <1>4, <2>0, <2>2 DEF MinEpochBallot
    <3> QED  BY Zenon, <3>1, <3>2 DEF IInv, Fence
  <2> QED  BY Zenon, <2>1, <2>2
<1>11. VotesDurable' /\ EpochPromiseReportsVotes'
  BY Zenon, <1>1, <1>6, AnswersKept
<1> QED  BY Zenon, <1>5, <1>7, <1>8, <1>9, <1>10, <1>11 DEF IInv

-----------------------------------------------------------------------------
(* Acceptors that start on empty databases satisfy the invariant.          *)
LEMMA InitIInv == Init => IInv
<1> SUFFICES ASSUME Init PROVE IInv
  BY Zenon
<1>0. INVALID_BALLOT \in Ballot /\ Instances \subseteq Nat \ {0}
  BY EpochAcceptorAssumption, InvalidIsLeast
<1>1. NoAccept \in Accepted
  BY Zenon, <1>0 DEF NoAccept, Accepted, INVALID_EPOCH_BALLOT, EpochBallot
<1>2. TypeOK
  BY Zenon, <1>0, <1>1 DEF Init, AccInit, TypeOK, AccTypeOK
<1>3. TrimInv /\ ChosenAnswerIsTold
  BY <1>0 DEF Init, AccInit, TrimInv, ChosenAnswerIsTold
<1>4. InstancesInv
  BY Zenon DEF Init, AccInit, InstancesInv, InstanceInv, VoteOK
<1>5. EpochWrittenAhead /\ Fence /\ VotesDurable /\ EpochPromiseReportsVotes
  BY Zenon DEF Init, AccInit, EpochWrittenAhead, Fence, VotesDurable, EpochPromiseReportsVotes
<1> QED  BY Zenon, <1>2, <1>3, <1>4, <1>5 DEF IInv

(* Every step of an acceptor keeps the invariant.                          *)
LEMMA NextKeepsIInv == IInv /\ [Next]_vars => IInv'
<1> SUFFICES ASSUME IInv, [Next]_vars PROVE IInv'
  BY Zenon
<1>1. CASE UNCHANGED vars
  BY Zenon, <1>1, StutterKeepsIInv DEF vars, accVars, memVars, IInv, TypeOK, AccTypeOK
<1>2. ASSUME NEW a \in Acceptors, NEW r \in PrepareRequests,
             HandleStandardPrepare(a, r[1], r[2])
      PROVE  IInv'
  BY Zenon, <1>2, StandardPrepareKeepsIInv, EpochRequestsAssumption
<1>3. ASSUME NEW a \in Acceptors, NEW r \in EpochPrepareRequests, NEW st \in StorageOutcomes,
             HandleEpochBallotPrepare(a, r[1], r[2], st)
      PROVE  IInv'
  <2>1. r[1] \in Instances /\ r[2] \in EpochBallotsInUse
    BY Zenon, EpochRequestsAssumption
  <2>2. r[2] \in EpochBallot
    BY Zenon, <2>1, EpochRequestsAssumption DEF EpochBallot, ValidBallot
  <2> QED  BY Zenon, <1>3, <2>1, <2>2, EpochPrepareKeepsIInv
<1>4. ASSUME NEW a \in Acceptors, NEW r \in EpochAcceptRequests, NEW st \in StorageOutcomes,
             HandleEpochBallotAccept(a, r[1], r[2], r[3], st)
      PROVE  IInv'
  BY Zenon, <1>4, AcceptKeepsIInv, EpochRequestsAssumption
<1>5. ASSUME NEW a \in Acceptors, NEW r \in ChosenNotices,
             HandleEpochBallotChosen(a, r[1], r[2], r[3])
      PROVE  IInv'
  BY Zenon, <1>5, ChosenKeepsIInv, EpochRequestsAssumption
<1> QED  BY Zenon, <1>1, <1>2, <1>3, <1>4, <1>5, RepeatKeepsIInv, TrimKeepsIInv, RestartKeepsIInv
         DEF Next

(* The inductive invariant holds in every reachable state.                 *)
THEOREM Invariance == Spec => []IInv
BY InitIInv, NextKeepsIInv, PTL DEF Spec

(* Every store, message and notice keeps its type, whatever the outcome of *)
(* the LMDB transactions, wherever the process restarts, and whatever is   *)
(* read from beyond the cell of a recovered instance.                      *)
THEOREM TypeCorrect == Spec => []TypeOK
<1>1. IInv => TypeOK  BY Zenon DEF IInv
<1> QED  BY <1>1, Invariance, PTL

(* writeahead_epoch_acceptor_increase_epoch comes before every answer in   *)
(* the epoch it raises: until the commit of an epoch fails, LMDB holds the *)
(* epoch of every promise and vote.                                        *)
THEOREM WrittenAhead == Spec => []EpochWrittenAhead
<1>1. IInv => EpochWrittenAhead  BY Zenon DEF IInv
<1> QED  BY <1>1, Invariance, PTL

(* A vote that was acknowledged is on disk, or a later one of its instance *)
(* in its place, however many restarts follow: only a failed commit, an    *)
(* answer below the epoch and a trim of an open instance lose one.         *)
THEOREM Durability == Spec => []VotesDurable
<1>1. IInv => VotesDurable  BY Zenon DEF IInv
<1> QED  BY <1>1, Invariance, PTL

(* A promise reports every vote before it the acceptor ever casts, although *)
(* promises are kept in memory only.                                       *)
THEOREM PromisesReportVotes == Spec => []EpochPromiseReportsVotes
<1>1. IInv => EpochPromiseReportsVotes  BY Zenon DEF IInv
<1> QED  BY <1>1, Invariance, PTL

(* The chosen prefix covers only instances the acceptor was told of.       *)
THEOREM TrimsTold == Spec => []TrimOnlyTold
<1>1. IInv => TrimOnlyTold
  BY Zenon DEF IInv, TrimInv, TrimOnlyTold
<1> QED  BY <1>1, Invariance, PTL

(* A CHOSEN answer is one the acceptor was given.                          *)
THEOREM ChosenAnswersTold == Spec => []ChosenAnswerIsTold
<1>1. IInv => ChosenAnswerIsTold  BY Zenon DEF IInv
<1> QED  BY <1>1, Invariance, PTL
=============================================================================
