------------------ MODULE EvWriteAheadBallotAcceptorProofs ------------------
(***************************************************************************)
(* The properties of EvWriteAheadBallotAcceptor for every set of           *)
(* acceptors, instances, values and requests, every ballot window and      *)
(* every catch-up distance.                                                *)
(***************************************************************************)
EXTENDS EvWriteAheadBallotAcceptor, PaxosLemmas

geq(b, c) == ballot_greater_than_or_equal(b, c)

PromisesOf(a, i) == {p \in promises : p.aid = a /\ p.iid = i}

VotesOf(a, i) == {w \in votes : w.aid = a /\ w.iid = i}

(* The instances of a whose record on disk is never behind the copy.       *)
Written(a) == Instances \ (unwritten[a] \cup reopened[a])

(* A record holds no vote, or one that was asked for.                      *)
Asked(i, info) ==
  \/ info.value_ballot = INVALID_BALLOT /\ info.value = NULL
  \/ \E r \in AcceptRequests \cup ChosenNotices :
       r[1] = i /\ r[2] = info.value_ballot /\ r[3] = info.value

(* What holds of the three records of an instance by themselves.  The ids  *)
(* are bounded so that a window that begins at the number of a ballot ends *)
(* at or above that ballot.                                                *)
StoresInv(a, i) ==
  /\ Asked(i, disk[a][i]) /\ Asked(i, dup[a][i]) /\ Asked(i, volatile_storage[a][i])
  /\ disk[a][i].promise_ballot.proposer_id <= MaxProposerId
  /\ dup[a][i].promise_ballot.proposer_id <= MaxProposerId

(* How they relate: the copy is the record on disk, or empty for an        *)
(* instance that was trimmed before the last start; the vote in memory is  *)
(* the one in the copy.                                                    *)
MirrorInv(a, i) ==
  i \in Written(a) =>
    /\ \/ dup[a][i] = disk[a][i]
       \/ ~ (i > trim_instance[a]) /\ dup[a][i] = EmptyInfo
    /\ volatile_storage[a][i].value_ballot = dup[a][i].value_ballot
    /\ volatile_storage[a][i].value = dup[a][i].value

(* Nothing above b was promised or voted for.                              *)
Bounds(b, a, i) ==
  /\ geq(b, disk[a][i].value_ballot)
  /\ \A m \in PromisesOf(a, i) \cup VotesOf(a, i) : geq(b, m.ballot)

(* What was sent about an instance is covered by the promise on disk, and  *)
(* while the instance is not trimmed by the promise in memory: right after *)
(* a restart the latter is the former, which is all that is left of the    *)
(* promises given before.                                                  *)
AckedInv(a, i) ==
  i \in Intact(a) =>
    /\ Bounds(disk[a][i].promise_ballot, a, i)
    /\ i > trim_instance[a] => Bounds(volatile_storage[a][i].promise_ballot, a, i)
    /\ \A w \in VotesOf(a, i) : geq(disk[a][i].value_ballot, w.ballot)

(* A promise reports the vote on disk and every vote sent, unless they are *)
(* not below it.                                                           *)
ReportsInv(a, i) ==
  i \in Intact(a) =>
    \A p \in PromisesOf(a, i) :
      /\ \/ geq(disk[a][i].value_ballot, p.ballot)
         \/ geq(p.value_ballot, disk[a][i].value_ballot)
      /\ \A w \in VotesOf(a, i) : geq(w.ballot, p.ballot) \/ geq(p.value_ballot, w.ballot)

(* ChosenAnswerGrounded, for one instance.                                 *)
GroundedInv(a, i) ==
  i \in chosen[a] /\ i \in Written(a) =>
    \E t \in told :
      /\ t.aid = a /\ t.iid = i
      /\ geq(volatile_storage[a][i].value_ballot, t.ballot)
      /\ \/ t.value = volatile_storage[a][i].value
         \/ ballot_greater_than(volatile_storage[a][i].value_ballot, t.ballot)

RecordInv(a, i) ==
  /\ StoresInv(a, i) /\ MirrorInv(a, i)
  /\ AckedInv(a, i) /\ ReportsInv(a, i) /\ GroundedInv(a, i)

MessagesInv ==
  /\ \A p \in promises : p.ballot \in Ballot /\ p.value_ballot \in Ballot
  /\ \A w \in votes : w.ballot \in Ballot

IInv ==
  /\ TypeOK
  /\ MessagesInv
  /\ \A a \in Acceptors, i \in Instances : RecordInv(a, i)

-----------------------------------------------------------------------------
(* The types of a record.                                                  *)
LEMMA RecordTypes ==
  ASSUME AccTypeOK, NEW a \in Acceptors, NEW i \in Instances
  PROVE  /\ disk[a][i] \in InstanceInfo /\ dup[a][i] \in InstanceInfo
         /\ volatile_storage[a][i] \in InstanceInfo
         /\ disk[a][i].promise_ballot \in Ballot /\ disk[a][i].value_ballot \in Ballot
         /\ dup[a][i].promise_ballot \in Ballot /\ dup[a][i].value_ballot \in Ballot
         /\ volatile_storage[a][i].promise_ballot \in Ballot
         /\ volatile_storage[a][i].value_ballot \in Ballot
         /\ i \in Nat /\ trim_instance[a] \in Nat /\ disk_trim[a] \in Nat
BY WriteAheadAssumption DEF AccTypeOK, InstanceInfo

(* A request's ballot is above INVALID_BALLOT and in the window that       *)
(* begins at its number.                                                   *)
LEMMA RequestBallots ==
  ASSUME NEW b \in RequestBallot
  PROVE  /\ b \in Ballot /\ ballot_greater_than(b, INVALID_BALLOT)
         /\ WrittenAheadOf(b.number) \in Ballot
         /\ geq(WrittenAheadOf(b.number), b)
         /\ b.proposer_id <= MaxProposerId
BY WriteAheadAssumption DEF RequestBallot, Ballot, ballot_greater_than, INVALID_BALLOT,
   WrittenAheadOf, geq, ballot_greater_than_or_equal

(* Nor does a window that begins at the number of a record's promise end   *)
(* below that promise.                                                     *)
LEMMA WindowCovers ==
  ASSUME NEW b \in Ballot, b.proposer_id <= MaxProposerId
  PROVE  /\ WrittenAheadOf(b.number) \in Ballot
         /\ geq(WrittenAheadOf(b.number), b)
         /\ WrittenAheadOf(b.number).proposer_id <= MaxProposerId
BY WriteAheadAssumption DEF Ballot, WrittenAheadOf, geq, ballot_greater_than_or_equal

(* An acceptance or a notice asks for a vote.                              *)
LEMMA RequestAsks ==
  ASSUME NEW r \in AcceptRequests \cup ChosenNotices, NEW info,
         info.value_ballot = r[2], info.value = r[3]
  PROVE  Asked(r[1], info)
BY Zenon DEF Asked

(* What is above a bound is a bound.                                       *)
LEMMA BoundsAbove ==
  ASSUME IInv, NEW a \in Acceptors, NEW i \in Instances, NEW b \in Ballot, NEW c \in Ballot,
         Bounds(b, a, i), geq(c, b)
  PROVE  Bounds(c, a, i)
<1>1. disk[a][i].value_ballot \in Ballot
  BY Zenon, RecordTypes DEF IInv, TypeOK
<1>2. \A m \in PromisesOf(a, i) \cup VotesOf(a, i) : m.ballot \in Ballot
  BY Zenon DEF IInv, MessagesInv, PromisesOf, VotesOf
<1> QED  BY Zenon, <1>1, <1>2, GeqTransitive DEF Bounds, geq

(* Nothing about an instance changes when its records, its place in the    *)
(* sets and the messages about it do not.                                  *)
LEMMA Frame ==
  ASSUME NEW a \in Acceptors, NEW i \in Instances, RecordInv(a, i),
         disk'[a][i] = disk[a][i], dup'[a][i] = dup[a][i],
         volatile_storage'[a][i] = volatile_storage[a][i],
         trim_instance'[a] = trim_instance[a],
         i \in chosen'[a] <=> i \in chosen[a],
         i \in unwritten'[a] <=> i \in unwritten[a],
         i \in unfenced'[a] <=> i \in unfenced[a],
         i \in reopened'[a] <=> i \in reopened[a],
         PromisesOf(a, i)' = PromisesOf(a, i), VotesOf(a, i)' = VotesOf(a, i),
         told \subseteq told'
  PROVE  RecordInv(a, i)'
<1>1. /\ i \in Written(a)' <=> i \in Written(a)
      /\ i \in Intact(a)' <=> i \in Intact(a)
  BY Zenon DEF Written, Intact
<1>2. StoresInv(a, i)'
  BY Zenon DEF RecordInv, StoresInv, Asked
<1>3. MirrorInv(a, i)'
  BY Zenon, <1>1 DEF RecordInv, MirrorInv
<1>4. AckedInv(a, i)'
  BY Zenon, <1>1 DEF RecordInv, AckedInv, Bounds
<1>5. ReportsInv(a, i)'
  BY Zenon, <1>1 DEF RecordInv, ReportsInv
<1>6. GroundedInv(a, i)'
  BY Zenon, <1>1 DEF RecordInv, GroundedInv
<1> QED  BY Zenon, <1>2, <1>3, <1>4, <1>5, <1>6 DEF RecordInv

(* The same for an instance no operation on another one concerns.          *)
LEMMA FrameOthers ==
  ASSUME IInv, NEW a \in Acceptors, NEW i \in Instances,
         \A c \in Acceptors, j \in Instances : c # a \/ j # i =>
           /\ disk'[c][j] = disk[c][j] /\ dup'[c][j] = dup[c][j]
           /\ volatile_storage'[c][j] = volatile_storage[c][j]
           /\ j \in chosen'[c] <=> j \in chosen[c]
           /\ j \in unwritten'[c] <=> j \in unwritten[c]
           /\ j \in unfenced'[c] <=> j \in unfenced[c],
         UNCHANGED <<trim_instance, reopened>>, told \subseteq told',
         \A m : m \in promises' /\ m \notin promises => m.aid = a /\ m.iid = i,
         \A m : m \in votes' /\ m \notin votes => m.aid = a /\ m.iid = i,
         promises \subseteq promises', votes \subseteq votes',
         RecordInv(a, i)'
  PROVE  \A c \in Acceptors, j \in Instances : RecordInv(c, j)'
<1> SUFFICES ASSUME NEW c \in Acceptors, NEW j \in Instances, c # a \/ j # i
             PROVE  RecordInv(c, j)'
  BY Zenon
<1>1. PromisesOf(c, j)' = PromisesOf(c, j) /\ VotesOf(c, j)' = VotesOf(c, j)
  BY Zenon DEF PromisesOf, VotesOf
<1>2. RecordInv(c, j)
  BY Zenon DEF IInv
<1> QED  BY Zenon, <1>1, <1>2, Frame

(* Writing the record of one instance.                                     *)
LEMMA WriteRecord ==
  ASSUME NEW S, NEW f \in [Acceptors -> [Instances -> S]], NEW a \in Acceptors,
         NEW i \in Instances, NEW x \in S, NEW g, g = [f EXCEPT ![a][i] = x]
  PROVE  /\ g \in [Acceptors -> [Instances -> S]]
         /\ g[a][i] = x
         /\ \A c \in Acceptors, j \in Instances : c # a \/ j # i => g[c][j] = f[c][j]
BY SMT

(* Adding an instance to a set of instances.                               *)
LEMMA AddInstance ==
  ASSUME NEW f \in [Acceptors -> SUBSET Instances], NEW a \in Acceptors,
         NEW i \in Instances, NEW g, g = [f EXCEPT ![a] = @ \cup {i}]
  PROVE  /\ g \in [Acceptors -> SUBSET Instances]
         /\ i \in g[a]
         /\ \A c \in Acceptors, j \in Instances :
              c # a \/ j # i => (j \in g[c] <=> j \in f[c])
BY SMT

(* What StoreStable does to the stores.                                    *)
LEMMA StoreStableEffect ==
  ASSUME AccTypeOK, NEW a \in Acceptors, NEW i \in Instances,
         NEW info \in InstanceInfo, NEW st, StoreStable(a, i, info, st)
  PROVE  /\ dup' \in [Acceptors -> [Instances -> InstanceInfo]]
         /\ disk' \in [Acceptors -> [Instances -> InstanceInfo]]
         /\ unwritten' \in [Acceptors -> SUBSET Instances]
         /\ dup'[a][i] = info
         /\ st = "committed" => disk'[a][i] = info /\ unwritten' = unwritten
         /\ st # "committed" => disk' = disk /\ i \in unwritten'[a]
         /\ \A c \in Acceptors, j \in Instances : c # a \/ j # i =>
              /\ disk'[c][j] = disk[c][j] /\ dup'[c][j] = dup[c][j]
              /\ j \in unwritten'[c] <=> j \in unwritten[c]
<1>1. /\ dup' \in [Acceptors -> [Instances -> InstanceInfo]]
      /\ dup'[a][i] = info
      /\ \A c \in Acceptors, j \in Instances : c # a \/ j # i => dup'[c][j] = dup[c][j]
  BY SMT, WriteRecord DEF AccTypeOK, StoreStable
<1>2. CASE st = "committed"
  <2>1. /\ disk' \in [Acceptors -> [Instances -> InstanceInfo]]
        /\ disk'[a][i] = info
        /\ \A c \in Acceptors, j \in Instances : c # a \/ j # i => disk'[c][j] = disk[c][j]
    <3>1. disk \in [Acceptors -> [Instances -> InstanceInfo]] /\ disk' = [disk EXCEPT ![a][i] = info]
      BY Zenon, <1>2 DEF AccTypeOK, StoreStable
    <3> QED  BY SMT, <3>1, WriteRecord
  <2> QED  BY Zenon, <1>1, <1>2, <2>1 DEF AccTypeOK, StoreStable
<1>3. CASE st # "committed"
  <2>1. /\ unwritten' \in [Acceptors -> SUBSET Instances]
        /\ i \in unwritten'[a]
        /\ \A c \in Acceptors, j \in Instances :
             c # a \/ j # i => (j \in unwritten'[c] <=> j \in unwritten[c])
    <3>1. /\ unwritten \in [Acceptors -> SUBSET Instances]
          /\ unwritten' = [unwritten EXCEPT ![a] = @ \cup {i}]
      BY Zenon, <1>3 DEF AccTypeOK, StoreStable
    <3> QED  BY SMT, <3>1, AddInstance
  <2> QED  BY Zenon, <1>1, <1>3, <2>1 DEF AccTypeOK, StoreStable
<1> QED  BY Zenon, <1>2, <1>3

(* What marking an instance unfenced does.                                 *)
LEMMA UnfencedEffect ==
  ASSUME AccTypeOK, NEW a \in Acceptors, NEW i \in Instances,
         \/ unfenced' = unfenced
         \/ unfenced' = [unfenced EXCEPT ![a] = @ \cup {i}]
  PROVE  /\ unfenced' \in [Acceptors -> SUBSET Instances]
         /\ \A c \in Acceptors, j \in Instances : c # a \/ j # i =>
              (j \in unfenced'[c] <=> j \in unfenced[c])
         /\ i \in unfenced[a] => i \in unfenced'[a]
<1>1. unfenced \in [Acceptors -> SUBSET Instances]
  BY Zenon DEF AccTypeOK
<1>2. CASE unfenced' = [unfenced EXCEPT ![a] = @ \cup {i}]
  BY SMT, <1>1, <1>2, AddInstance
<1> QED  BY Zenon, <1>1, <1>2

(* Of an instance whose copy is ahead of the disk only the types of its    *)
(* records are claimed.                                                    *)
LEMMA Lost ==
  ASSUME NEW a \in Acceptors, NEW i \in Instances, i \in unwritten'[a], StoresInv(a, i)'
  PROVE  RecordInv(a, i)'
BY Zenon DEF RecordInv, MirrorInv, AckedInv, ReportsInv, GroundedInv, Written, Intact

(* A request that is not granted is answered by no promise and no vote.    *)
LEMMA NotGrantedSends ==
  ASSUME AccTypeOK, NEW a \in Acceptors, NEW i \in Instances, NEW b, NEW store, NEW msgs,
         ~ Granted(a, i, b), Send(Reply(a, i, b, store, msgs))
  PROVE  promises' = promises /\ votes' = votes
<1> DEFINE R == Reply(a, i, b, store, msgs)
<1>0. i \in Nat /\ trim_instance[a] \in Nat
  BY Zenon, RecordTypes
<1>1. R = {TrimMsg(a)} \/ R = {ChosenMsg(a, i, store)} \/ R = {PreemptedMsg(a, i, b)}
  BY <1>0 DEF Reply, Granted, Settled
<1>2. ofType("PROMISE", R) = {} /\ ofType("ACCEPTED", R) = {}
  <2> HIDE DEF R
  <2> QED  BY <1>1 DEF ofType, TrimMsg, ChosenMsg, PreemptedMsg
<1> QED  BY Zenon, <1>2 DEF Send

(* A prepare that is granted is promised if it is covered by the disk.     *)
LEMMA PrepareSends ==
  ASSUME AccTypeOK, NEW a \in Acceptors, NEW i \in Instances, NEW b, NEW st,
         Granted(a, i, b), Send(PrepareReply(a, i, b, st))
  PROVE  /\ votes' = votes
         /\ IF IsWrittenAhead(a, i, b) \/ st = "committed"
            THEN promises' = promises \cup {PromiseMsg(a, i, b)}
            ELSE promises' = promises
<1> DEFINE R == PrepareReply(a, i, b, st)
<1>0. i \in Nat /\ trim_instance[a] \in Nat
  BY Zenon, RecordTypes
<1>1. ~ (i <= trim_instance[a]) /\ i \notin chosen[a]
  BY Zenon DEF Granted, Settled
<1>2. R = IF IsWrittenAhead(a, i, b) \/ st = "committed" THEN {PromiseMsg(a, i, b)} ELSE {}
  BY Zenon, <1>1 DEF PrepareReply, Reply
<1>5. Send(R)
  BY Zenon
<1> HIDE DEF R
<1>3. CASE IsWrittenAhead(a, i, b) \/ st = "committed"
  <2>1. R = {PromiseMsg(a, i, b)}
    BY Zenon, <1>2, <1>3
  <2>2. ofType("PROMISE", R) = {PromiseMsg(a, i, b)} /\ ofType("ACCEPTED", R) = {}
    BY <2>1 DEF ofType, PromiseMsg
  <2> QED  BY Zenon, <1>3, <1>5, <2>2 DEF Send
<1>4. CASE ~ (IsWrittenAhead(a, i, b) \/ st = "committed")
  <2>1. ofType("ACCEPTED", R) = {} /\ ofType("PROMISE", R) = {}
    BY Zenon, <1>2, <1>4 DEF ofType
  <2> QED  BY Zenon, <1>4, <1>5, <2>1 DEF Send
<1> QED  BY Zenon, <1>3, <1>4

(* A vote is sent exactly when it was committed.                           *)
LEMMA AcceptSends ==
  ASSUME AccTypeOK, NEW a \in Acceptors, NEW i \in Instances, NEW b, NEW v, NEW st,
         Granted(a, i, b), Send(AcceptReply(a, i, b, v, st))
  PROVE  /\ promises' = promises
         /\ st = "committed" => votes' = votes \cup {AcceptedMsg(a, i, b, v)}
         /\ st # "committed" => votes' = votes
<1> DEFINE R == AcceptReply(a, i, b, v, st)
<1>0. i \in Nat /\ trim_instance[a] \in Nat
  BY Zenon, RecordTypes
<1>1. ~ (i <= trim_instance[a]) /\ i \notin chosen[a]
  BY Zenon DEF Granted, Settled
<1>2. R = IF st = "committed" THEN {AcceptedMsg(a, i, b, v)} ELSE {}
  BY Zenon, <1>1 DEF AcceptReply, Reply
<1>5. Send(R)
  BY Zenon
<1> HIDE DEF R
<1>3. CASE st = "committed"
  <2>1. R = {AcceptedMsg(a, i, b, v)}
    BY Zenon, <1>2, <1>3
  <2>2. ofType("ACCEPTED", R) = {AcceptedMsg(a, i, b, v)} /\ ofType("PROMISE", R) = {}
    BY <2>1 DEF ofType, AcceptedMsg
  <2> QED  BY Zenon, <1>3, <1>5, <2>2 DEF Send
<1>4. CASE st # "committed"
  <2>1. ofType("ACCEPTED", R) = {} /\ ofType("PROMISE", R) = {}
    BY Zenon, <1>2, <1>4 DEF ofType
  <2> QED  BY Zenon, <1>4, <1>5, <2>1 DEF Send
<1> QED  BY Zenon, <1>3, <1>4

(* An instance that is not settled and not lost has the same record in all *)
(* three stores, but for the promise in memory, which bounds everything.   *)
LEMMA OpenInstance ==
  ASSUME IInv, NEW a \in Acceptors, NEW i \in Instances, NEW b \in Ballot,
         Granted(a, i, b)
  PROVE  /\ i > trim_instance[a] /\ i \notin chosen[a]
         /\ i \in Written(a) =>
              /\ dup[a][i] = disk[a][i]
              /\ volatile_storage[a][i].value_ballot = disk[a][i].value_ballot
              /\ volatile_storage[a][i].value = disk[a][i].value
         /\ i \in Intact(a) => i \in Written(a) /\ Bounds(b, a, i)
<1>0. AccTypeOK /\ RecordInv(a, i)
  BY Zenon DEF IInv, TypeOK
<1>1. i > trim_instance[a] /\ i \notin chosen[a]
  BY <1>0, RecordTypes DEF Granted, Settled
<1>2. i \in Intact(a) => i \in Written(a)
  BY Zenon DEF Intact, Written
<1>3. i \in Intact(a) => Bounds(b, a, i)
  BY Zenon, <1>0, <1>1, BoundsAbove, RecordTypes DEF RecordInv, AckedInv, Granted, Promised, geq
<1> QED  BY Zenon, <1>0, <1>1, <1>2, <1>3 DEF RecordInv, MirrorInv

(* A promise that is given, and what it writes.                            *)
LEMMA PromiseGiven ==
  ASSUME IInv, NEW a \in Acceptors, NEW i \in Instances, NEW b \in RequestBallot,
         Granted(a, i, b), AccTypeOK',
         volatile_storage'[a][i] = [volatile_storage[a][i] EXCEPT !.promise_ballot = b],
         \/ UNCHANGED <<disk, dup>> /\ IsWrittenAhead(a, i, b)
         \/ /\ disk'[a][i] = [disk[a][i] EXCEPT !.promise_ballot = WrittenAheadOf(b.number)]
            /\ dup'[a][i] = disk'[a][i],
         UNCHANGED <<trim_instance, chosen, unwritten, unfenced, reopened, told>>,
         promises' = promises \cup {PromiseMsg(a, i, b)}, votes' = votes
  PROVE  RecordInv(a, i)'
<1> DEFINE D == disk[a][i]
           D1 == disk'[a][i]
           U1 == dup'[a][i]
           V == volatile_storage[a][i]
           V1 == volatile_storage'[a][i]
           p == PromiseMsg(a, i, b)
<1>0. AccTypeOK /\ RecordInv(a, i) /\ MessagesInv
  BY Zenon DEF IInv, TypeOK
<1>1. /\ b \in Ballot /\ D.promise_ballot \in Ballot /\ D.value_ballot \in Ballot
      /\ V.promise_ballot \in Ballot /\ V.value_ballot \in Ballot
      /\ D1.promise_ballot \in Ballot /\ D1.value_ballot \in Ballot
      /\ D \in InstanceInfo /\ V \in InstanceInfo /\ dup[a][i].promise_ballot \in Ballot
      /\ geq(WrittenAheadOf(b.number), b)
  <2>1. D1 \in InstanceInfo
    <3>1. disk' \in [Acceptors -> [Instances -> InstanceInfo]]
      BY Zenon DEF AccTypeOK
    <3> QED  BY SMT, <3>1
  <2>2. D1.promise_ballot \in Ballot /\ D1.value_ballot \in Ballot
    BY <2>1 DEF InstanceInfo
  <2>3. /\ D.promise_ballot \in Ballot /\ D.value_ballot \in Ballot
        /\ V.promise_ballot \in Ballot /\ V.value_ballot \in Ballot
        /\ D \in InstanceInfo /\ V \in InstanceInfo /\ dup[a][i].promise_ballot \in Ballot
    BY Zenon, <1>0, RecordTypes
  <2> QED  BY Zenon, <2>2, <2>3, RequestBallots
<1>2. /\ V1.promise_ballot = b /\ V1.value_ballot = V.value_ballot /\ V1.value = V.value
      /\ p.aid = a /\ p.iid = i /\ p.ballot = b /\ p.value_ballot = V.value_ballot
  BY <1>1 DEF InstanceInfo, PromiseMsg
<1>3. D1.value_ballot = D.value_ballot /\ D1.value = D.value
  BY <1>1 DEF InstanceInfo
<1>4. \/ UNCHANGED <<disk, dup>> /\ IsWrittenAhead(a, i, b)
      \/ D1.promise_ballot = WrittenAheadOf(b.number) /\ U1 = D1
  BY <1>1 DEF InstanceInfo
<1>5. /\ i > trim_instance[a]
      /\ i \in Written(a) => /\ dup[a][i] = D
                             /\ V.value_ballot = D.value_ballot /\ V.value = D.value
      /\ i \in Intact(a) => i \in Written(a) /\ Bounds(b, a, i)
  BY Zenon, <1>1, OpenInstance
<1>6. /\ Written(a)' = Written(a) /\ Intact(a)' = Intact(a)
      /\ VotesOf(a, i)' = VotesOf(a, i)
      /\ PromisesOf(a, i)' = PromisesOf(a, i) \cup {p}
  BY Zenon, <1>2 DEF Written, Intact, VotesOf, PromisesOf
<1>7. i \in Written(a) => geq(D1.promise_ballot, b)
  BY Zenon, <1>1, <1>4, <1>5, GeqTotal DEF IsWrittenAhead, geq
<1>8. StoresInv(a, i)'
  <2>1. Asked(i, D1) /\ Asked(i, U1) /\ Asked(i, V1)
    BY ZenonT(40), <1>0, <1>2, <1>3, <1>4 DEF RecordInv, StoresInv, Asked
  <2>2. WrittenAheadOf(b.number).proposer_id <= MaxProposerId
    BY <1>1, RequestBallots, WindowCovers
  <2>3. /\ D1.promise_ballot.proposer_id <= MaxProposerId
        /\ U1.promise_ballot.proposer_id <= MaxProposerId
    BY Zenon, <1>0, <1>4, <2>2 DEF RecordInv, StoresInv
  <2> QED  BY Zenon, <2>1, <2>3 DEF StoresInv, Asked
<1>9. MirrorInv(a, i)'
  BY Zenon, <1>2, <1>3, <1>4, <1>5, <1>6 DEF MirrorInv
<1>10. i \in Intact(a) => geq(D1.promise_ballot, b) /\ Bounds(b, a, i) /\ geq(b, b)
  BY Zenon, <1>1, <1>5, <1>7, GeqReflexive DEF geq
<1>11. i \in Intact(a) => Bounds(D1.promise_ballot, a, i)
  BY Zenon, <1>1, <1>10, BoundsAbove
<1>12. AckedInv(a, i)'
  BY Zenon, <1>0, <1>2, <1>3, <1>6, <1>10, <1>11 DEF AckedInv, Bounds, RecordInv
<1>13. i \in Intact(a) => geq(V.value_ballot, D.value_ballot)
  BY Zenon, <1>1, <1>5, GeqReflexive DEF geq
<1>14. ReportsInv(a, i)'
  BY Zenon, <1>0, <1>2, <1>3, <1>5, <1>6, <1>13 DEF ReportsInv, AckedInv, RecordInv
<1>15. GroundedInv(a, i)'
  BY Zenon, <1>0, <1>2, <1>6 DEF GroundedInv, RecordInv
<1> QED  BY Zenon, <1>8, <1>9, <1>12, <1>14, <1>15 DEF RecordInv

(* Nothing changes when the stores and the messages do not.                *)
LEMMA StutterKeepsIInv ==
  ASSUME IInv, UNCHANGED <<accVars, promises, votes, told>>,
         checking' \in [Acceptors -> BOOLEAN], writing' \in [Acceptors -> BOOLEAN]
  PROVE  IInv'
<1>1. TypeOK' /\ MessagesInv'
  BY Zenon DEF IInv, TypeOK, MessagesInv, AccTypeOK, accVars, memVars, diskVars
<1>2. ASSUME NEW a \in Acceptors, NEW i \in Instances
      PROVE  RecordInv(a, i)'
  <2>1. PromisesOf(a, i)' = PromisesOf(a, i) /\ VotesOf(a, i)' = VotesOf(a, i)
    BY Zenon DEF PromisesOf, VotesOf
  <2> QED  BY Zenon, <2>1, Frame DEF IInv, accVars, memVars, diskVars
<1> QED  BY Zenon, <1>1, <1>2 DEF IInv

(* A PREPARE keeps the invariant.                                          *)
LEMMA PrepareKeepsIInv ==
  ASSUME IInv, NEW a \in Acceptors, NEW st \in StorageOutcomes, NEW r \in PrepareRequests,
         HandlePrepare(a, r[1], r[2], st)
  PROVE  IInv'
<1> DEFINE i == r[1]
           b == r[2]
           info == [disk[a][i] EXCEPT !.promise_ballot = WrittenAheadOf(b.number)]
           mem == [volatile_storage[a][i] EXCEPT !.promise_ballot = b]
<1>1. i \in Instances /\ b \in RequestBallot
  BY Zenon, WriteAheadRequestsAssumption
<1>2. /\ ReceivePrepare(a, i, b, st) /\ Send(PrepareReply(a, i, b, st))
      /\ UNCHANGED <<timers, told>>
  BY Zenon DEF HandlePrepare
<1> HIDE DEF i, b
<1>0. AccTypeOK /\ TypeOK /\ MessagesInv /\ RecordInv(a, i)
  BY Zenon, <1>1 DEF IInv, TypeOK
<1>3. CASE ~ Granted(a, i, b)
  <2>1. UNCHANGED <<promises, votes>>
    BY Zenon, <1>0, <1>1, <1>2, <1>3, NotGrantedSends DEF PrepareReply
  <2> QED
    BY Zenon, <1>0, <1>2, <1>3, <2>1, StutterKeepsIInv DEF ReceivePrepare, TypeOK, timers
<1>4. CASE Granted(a, i, b)
  <2>1. /\ votes' = votes
        /\ IF IsWrittenAhead(a, i, b) \/ st = "committed"
           THEN promises' = promises \cup {PromiseMsg(a, i, b)}
           ELSE promises' = promises
    BY Zenon, <1>0, <1>1, <1>2, <1>4, PrepareSends
  <2>2. /\ info \in InstanceInfo /\ mem \in InstanceInfo
        /\ info.value_ballot = disk[a][i].value_ballot /\ info.value = disk[a][i].value
        /\ info.promise_ballot = WrittenAheadOf(b.number)
    <3>1. disk[a][i] \in InstanceInfo /\ volatile_storage[a][i] \in InstanceInfo
      BY Zenon, <1>0, <1>1, RecordTypes
    <3>2. b \in Ballot /\ WrittenAheadOf(b.number) \in Ballot
      BY Zenon, <1>1, RequestBallots
    <3> QED  BY <3>1, <3>2 DEF InstanceInfo
  <2>3. /\ b \in Ballot /\ PromiseMsg(a, i, b).aid = a /\ PromiseMsg(a, i, b).iid = i
        /\ PromiseMsg(a, i, b).ballot = b
        /\ PromiseMsg(a, i, b).value_ballot = volatile_storage[a][i].value_ballot
    BY <1>1, RequestBallots DEF PromiseMsg
  <2>4. /\ UNCHANGED <<trim_instance, chosen, disk_trim, unfenced, reopened>>
        /\ flagged' \in [Acceptors -> SUBSET Instances]
    <3>1. flagged \in [Acceptors -> SUBSET Instances]
      BY Zenon, <1>0 DEF AccTypeOK
    <3>2. flagged' = flagged \/ flagged' = [flagged EXCEPT ![a] = @ \cup {i}]
      BY Zenon, <1>2, <1>4 DEF ReceivePrepare
    <3>3. [flagged EXCEPT ![a] = @ \cup {i}] \in [Acceptors -> SUBSET Instances]
      BY SMT, <1>1, <3>1
    <3> QED  BY Zenon, <1>2, <1>4, <3>1, <3>2, <3>3 DEF ReceivePrepare
  <2>5. CASE IsWrittenAhead(a, i, b)
    <3>1. /\ volatile_storage' = [volatile_storage EXCEPT ![a][i] = mem]
          /\ UNCHANGED <<disk, dup, unwritten>>
      BY Zenon, <1>2, <1>4, <2>5 DEF ReceivePrepare
    <3>2. /\ volatile_storage' \in [Acceptors -> [Instances -> InstanceInfo]]
          /\ volatile_storage'[a][i] = mem
          /\ \A c \in Acceptors, j \in Instances : c # a \/ j # i =>
               volatile_storage'[c][j] = volatile_storage[c][j]
      <4>1. volatile_storage \in [Acceptors -> [Instances -> InstanceInfo]]
        BY Zenon, <1>0 DEF AccTypeOK
      <4> HIDE DEF mem
      <4> QED  BY SMT, <1>1, <2>2, <3>1, <4>1, WriteRecord
    <3>3. AccTypeOK'
      BY Zenon, <1>0, <2>4, <3>1, <3>2 DEF AccTypeOK
    <3>4. RecordInv(a, i)'
      BY Zenon, <1>1, <1>2, <1>4, <2>1, <2>4, <2>5, <3>1, <3>2, <3>3, PromiseGiven
    <3>5. \A c \in Acceptors, j \in Instances : RecordInv(c, j)'
      BY Zenon, <1>1, <1>2, <2>1, <2>3, <2>4, <2>5, <3>1, <3>2, <3>4, FrameOthers
    <3> QED
      BY Zenon, <1>0, <1>1, <1>2, <2>1, <2>3, <2>5, <3>3, <3>5, RecordTypes
         DEF IInv, TypeOK, MessagesInv, timers
  <2>6. CASE ~ IsWrittenAhead(a, i, b) /\ st # "not_begun"
    <3>1. /\ StoreStable(a, i, info, st)
          /\ st = "committed" => volatile_storage' = [volatile_storage EXCEPT ![a][i] = mem]
          /\ st # "committed" => volatile_storage' = volatile_storage
      BY Zenon, <1>2, <1>4, <2>6 DEF ReceivePrepare, NewBallotEpoch
    <3>2. /\ dup' \in [Acceptors -> [Instances -> InstanceInfo]]
          /\ disk' \in [Acceptors -> [Instances -> InstanceInfo]]
          /\ unwritten' \in [Acceptors -> SUBSET Instances]
          /\ dup'[a][i] = info
          /\ st = "committed" => disk'[a][i] = info /\ unwritten' = unwritten
          /\ st # "committed" => disk' = disk /\ i \in unwritten'[a]
          /\ \A c \in Acceptors, j \in Instances : c # a \/ j # i =>
               /\ disk'[c][j] = disk[c][j] /\ dup'[c][j] = dup[c][j]
               /\ j \in unwritten'[c] <=> j \in unwritten[c]
      <4> HIDE DEF info
      <4> QED  BY Zenon, <1>0, <1>1, <2>2, <3>1, StoreStableEffect
    <3>3. /\ volatile_storage' \in [Acceptors -> [Instances -> InstanceInfo]]
          /\ st = "committed" => volatile_storage'[a][i] = mem
          /\ \A c \in Acceptors, j \in Instances : c # a \/ j # i =>
               volatile_storage'[c][j] = volatile_storage[c][j]
      <4>1. volatile_storage \in [Acceptors -> [Instances -> InstanceInfo]]
        BY Zenon, <1>0 DEF AccTypeOK
      <4> HIDE DEF mem
      <4>2. CASE st = "committed"
        <5>1. volatile_storage' = [volatile_storage EXCEPT ![a][i] = mem]
          BY Zenon, <3>1, <4>2
        <5> QED  BY SMT, <1>1, <2>2, <5>1, <4>1, WriteRecord
      <4> QED  BY Zenon, <3>1, <4>1, <4>2
    <3>4. AccTypeOK'
      BY Zenon, <1>0, <2>4, <3>2, <3>3 DEF AccTypeOK
    <3>5. CASE st = "committed"
      <4>1. RecordInv(a, i)'
        BY Zenon, <1>1, <1>2, <1>4, <2>1, <2>4, <3>2, <3>3, <3>4, <3>5, PromiseGiven
      <4>2. \A c \in Acceptors, j \in Instances : RecordInv(c, j)'
        <5>1. votes' = votes /\ promises' = promises \cup {PromiseMsg(a, i, b)}
          BY Zenon, <2>1, <3>5
        <5>2. /\ \A m : m \in promises' /\ m \notin promises => m.aid = a /\ m.iid = i
              /\ promises \subseteq promises' /\ votes \subseteq votes'
              /\ \A m : m \in votes' /\ m \notin votes => m.aid = a /\ m.iid = i
          BY Zenon, <2>3, <5>1
        <5>3. \A c \in Acceptors, j \in Instances : c # a \/ j # i =>
                /\ disk'[c][j] = disk[c][j] /\ dup'[c][j] = dup[c][j]
                /\ volatile_storage'[c][j] = volatile_storage[c][j]
                /\ j \in chosen'[c] <=> j \in chosen[c]
                /\ j \in unwritten'[c] <=> j \in unwritten[c]
                /\ j \in unfenced'[c] <=> j \in unfenced[c]
          BY ZenonT(40), <2>4, <3>2, <3>3
        <5> QED  BY Zenon, <1>1, <1>2, <2>4, <4>1, <5>2, <5>3, FrameOthers
      <4> QED
        BY Zenon, <1>0, <1>1, <1>2, <2>1, <2>3, <3>4, <3>5, <4>2, RecordTypes
           DEF IInv, TypeOK, MessagesInv, timers
    <3>6. CASE st # "committed"
      <4>1. WrittenAheadOf(b.number).proposer_id <= MaxProposerId
        BY <1>1, RequestBallots, WindowCovers
      <4>2. StoresInv(a, i)'
        BY Zenon, <1>0, <2>2, <3>1, <3>2, <3>6, <4>1 DEF RecordInv, StoresInv, Asked
      <4>3. RecordInv(a, i)'
        BY Zenon, <1>1, <3>2, <3>6, <4>2, Lost
      <4>4. \A c \in Acceptors, j \in Instances : RecordInv(c, j)'
        BY ZenonT(40), <1>1, <1>2, <2>1, <2>4, <2>6, <3>2, <3>3, <3>6, <4>3, FrameOthers
      <4> QED
        BY Zenon, <1>0, <1>2, <2>1, <2>6, <3>4, <3>6, <4>4 DEF IInv, TypeOK, MessagesInv, timers
    <3> QED  BY Zenon, <3>5, <3>6
  <2>7. CASE ~ IsWrittenAhead(a, i, b) /\ st = "not_begun"
    <3>1. UNCHANGED accVars
      BY Zenon, <1>2, <1>4, <2>7 DEF ReceivePrepare, accVars, memVars, diskVars
    <3>2. st # "committed"
      BY <2>7
    <3> QED  BY Zenon, <1>0, <1>2, <2>1, <2>7, <3>1, <3>2, StutterKeepsIInv DEF TypeOK, timers
  <2> QED  BY Zenon, <2>5, <2>6, <2>7
<1> QED  BY Zenon, <1>3, <1>4

(* A vote that reaches both stores, at a ballot no promise or vote is      *)
(* above and, unless it is unfenced, no promise on disk is below.          *)
LEMMA VoteStored ==
  ASSUME IInv, NEW a \in Acceptors, NEW i \in Instances, NEW b \in Ballot,
         NEW info \in InstanceInfo, info.value_ballot = b, Asked(i, info),
         info.promise_ballot.proposer_id <= MaxProposerId,
         disk'[a][i] = info, dup'[a][i] = info,
         volatile_storage'[a][i] = [info EXCEPT !.promise_ballot = b],
         i \in unfenced[a] => i \in unfenced'[a],
         i \in Intact(a)' => Bounds(b, a, i) /\ geq(info.promise_ballot, b),
         UNCHANGED <<trim_instance, unwritten, reopened, promises>>,
         \A w \in VotesOf(a, i)' : w \in VotesOf(a, i) \/ w.ballot = b
  PROVE  /\ StoresInv(a, i)' /\ MirrorInv(a, i)'
         /\ AckedInv(a, i)' /\ ReportsInv(a, i)'
<1> DEFINE V1 == volatile_storage'[a][i]
<1>1. V1.promise_ballot = b /\ V1.value_ballot = b /\ V1.value = info.value
  BY DEF InstanceInfo
<1>2. i \in Intact(a)' => i \in Intact(a)
  BY Zenon DEF Intact
<1>3. PromisesOf(a, i)' = PromisesOf(a, i)
  BY Zenon DEF PromisesOf
<1>4. StoresInv(a, i)'
  BY Zenon, <1>1 DEF StoresInv, Asked
<1>5. MirrorInv(a, i)'
  BY Zenon, <1>1 DEF MirrorInv
<1>6. ASSUME i \in Intact(a)'
      PROVE  \A m \in (PromisesOf(a, i) \cup VotesOf(a, i))' : geq(b, m.ballot)
  BY Zenon, <1>3, <1>6, GeqReflexive DEF Bounds, geq
<1>7. ASSUME i \in Intact(a)'
      PROVE  \A m \in (PromisesOf(a, i) \cup VotesOf(a, i))' : geq(info.promise_ballot, m.ballot)
  <2>1. Bounds(info.promise_ballot, a, i) /\ geq(info.promise_ballot, b)
    BY Zenon, <1>7, BoundsAbove DEF InstanceInfo
  <2> QED  BY Zenon, <1>3, <2>1 DEF Bounds
<1>8. AckedInv(a, i)'
  BY Zenon, <1>1, <1>6, <1>7, GeqReflexive DEF AckedInv, Bounds, geq
<1>9. ReportsInv(a, i)'
  <2> SUFFICES ASSUME i \in Intact(a)', NEW p \in PromisesOf(a, i)'
               PROVE  /\ geq(disk'[a][i].value_ballot, p.ballot)
                      /\ \A w \in VotesOf(a, i)' :
                           geq(w.ballot, p.ballot) \/ geq(p.value_ballot, w.ballot)
    BY Zenon DEF ReportsInv
  <2>1. geq(b, p.ballot) /\ p \in PromisesOf(a, i)
    BY Zenon, <1>3, <1>6
  <2>2. \A w \in VotesOf(a, i) : geq(w.ballot, p.ballot) \/ geq(p.value_ballot, w.ballot)
    BY Zenon, <1>2, <2>1 DEF IInv, RecordInv, ReportsInv
  <2> QED  BY Zenon, <2>1, <2>2
<1> QED  BY Zenon, <1>4, <1>5, <1>8, <1>9

(* An ACCEPT keeps the invariant.                                          *)
LEMMA AcceptKeepsIInv ==
  ASSUME IInv, NEW a \in Acceptors, NEW st \in StorageOutcomes, NEW r \in AcceptRequests,
         HandleAccept(a, r[1], r[2], r[3], st)
  PROVE  IInv'
<1> DEFINE i == r[1]
           b == r[2]
           v == r[3]
           info == [promise_ballot |-> dup[a][i].promise_ballot, value_ballot |-> b, value |-> v]
           mem == [info EXCEPT !.promise_ballot = b]
<1>1. i \in Instances /\ b \in RequestBallot /\ v \in Values
  BY Zenon, WriteAheadRequestsAssumption
<1>2. /\ ReceiveAccept(a, i, b, v, st) /\ Send(AcceptReply(a, i, b, v, st))
      /\ UNCHANGED <<timers, told>>
  BY Zenon DEF HandleAccept
<1>3. Asked(i, info) /\ Asked(i, mem)
  <2>1. info.value_ballot = b /\ info.value = v /\ mem.value_ballot = b /\ mem.value = v
    BY SMT
  <2> QED  BY Zenon, <2>1, RequestAsks
<1> HIDE DEF i, b, v
<1>0. AccTypeOK /\ TypeOK /\ MessagesInv /\ RecordInv(a, i)
  BY Zenon, <1>1 DEF IInv, TypeOK
<1>4. CASE ~ Granted(a, i, b)
  <2>1. UNCHANGED <<promises, votes>>
    BY Zenon, <1>0, <1>1, <1>2, <1>4, NotGrantedSends DEF AcceptReply
  <2> QED
    BY Zenon, <1>0, <1>2, <1>4, <2>1, StutterKeepsIInv DEF ReceiveAccept, TypeOK, timers
<1>5. CASE Granted(a, i, b) /\ st = "not_begun"
  <2>0. Granted(a, i, b)
    BY Zenon, <1>5
  <2>1. st # "committed"
    BY <1>5
  <2>2. /\ promises' = promises
        /\ st = "committed" => votes' = votes \cup {AcceptedMsg(a, i, b, v)}
        /\ st # "committed" => votes' = votes
    BY SMT, <1>0, <1>1, <1>2, <2>0, AcceptSends
  <2>3. UNCHANGED <<promises, votes>>
    BY Zenon, <2>1, <2>2
  <2> QED
    BY Zenon, <1>0, <1>2, <1>5, <2>3, StutterKeepsIInv DEF ReceiveAccept, TypeOK, timers
<1>6. CASE Granted(a, i, b) /\ st # "not_begun"
  <2>1. /\ promises' = promises
        /\ st = "committed" => votes' = votes \cup {AcceptedMsg(a, i, b, v)}
        /\ st # "committed" => votes' = votes
    BY Zenon, <1>0, <1>1, <1>2, <1>6, AcceptSends
  <2>2. /\ b \in Ballot /\ info \in InstanceInfo /\ mem \in InstanceInfo
        /\ info.value_ballot = b /\ info.promise_ballot = dup[a][i].promise_ballot
        /\ dup[a][i].promise_ballot \in Ballot
    <3>1. dup[a][i].promise_ballot \in Ballot /\ b \in Ballot
      BY Zenon, <1>0, <1>1, RecordTypes, RequestBallots
    <3> QED  BY <1>1, <3>1 DEF InstanceInfo
  <2>3. /\ AcceptedMsg(a, i, b, v).aid = a /\ AcceptedMsg(a, i, b, v).iid = i
        /\ AcceptedMsg(a, i, b, v).ballot = b /\ AcceptedMsg(a, i, b, v).value = v
    BY DEF AcceptedMsg
  <2>4. /\ StoreStable(a, i, info, st)
        /\ volatile_storage' = [volatile_storage EXCEPT ![a][i] = mem]
        /\ unfenced' = IF IsWrittenAhead(a, i, b) THEN unfenced
                       ELSE [unfenced EXCEPT ![a] = @ \cup {i}]
        /\ UNCHANGED <<memVars, disk_trim, reopened>>
    BY Zenon, <1>2, <1>6 DEF ReceiveAccept, StoreVote
  <2> HIDE DEF info
  <2>5. /\ dup' \in [Acceptors -> [Instances -> InstanceInfo]]
        /\ disk' \in [Acceptors -> [Instances -> InstanceInfo]]
        /\ unwritten' \in [Acceptors -> SUBSET Instances]
        /\ dup'[a][i] = info
        /\ st = "committed" => disk'[a][i] = info /\ unwritten' = unwritten
        /\ st # "committed" => disk' = disk /\ i \in unwritten'[a]
        /\ \A c \in Acceptors, j \in Instances : c # a \/ j # i =>
             /\ disk'[c][j] = disk[c][j] /\ dup'[c][j] = dup[c][j]
             /\ j \in unwritten'[c] <=> j \in unwritten[c]
    BY Zenon, <1>0, <1>1, <2>2, <2>4, StoreStableEffect
  <2>6. /\ volatile_storage' \in [Acceptors -> [Instances -> InstanceInfo]]
        /\ volatile_storage'[a][i] = mem
        /\ \A c \in Acceptors, j \in Instances : c # a \/ j # i =>
             volatile_storage'[c][j] = volatile_storage[c][j]
    <3>1. volatile_storage \in [Acceptors -> [Instances -> InstanceInfo]]
      BY Zenon, <1>0 DEF AccTypeOK
    <3> HIDE DEF mem
    <3> QED  BY SMT, <1>1, <2>2, <2>4, <3>1, WriteRecord
  <2>7. /\ unfenced' \in [Acceptors -> SUBSET Instances]
        /\ \A c \in Acceptors, j \in Instances : c # a \/ j # i =>
             (j \in unfenced'[c] <=> j \in unfenced[c])
        /\ i \in unfenced[a] => i \in unfenced'[a]
        /\ ~ IsWrittenAhead(a, i, b) => i \in unfenced'[a]
    <3>1. unfenced \in [Acceptors -> SUBSET Instances]
      BY Zenon, <1>0 DEF AccTypeOK
    <3>2. ~ IsWrittenAhead(a, i, b) => unfenced' = [unfenced EXCEPT ![a] = @ \cup {i}]
      BY Zenon, <2>4
    <3>3. unfenced' = unfenced \/ unfenced' = [unfenced EXCEPT ![a] = @ \cup {i}]
      BY Zenon, <2>4
    <3>4. ~ IsWrittenAhead(a, i, b) => i \in unfenced'[a]
      BY SMT, <3>1, <3>2
    <3> QED  BY Zenon, <1>0, <1>1, <3>3, <3>4, UnfencedEffect
  <2>8. UNCHANGED <<trim_instance, chosen, flagged>>
    BY Zenon, <2>4 DEF memVars
  <2>9. AccTypeOK'
    BY Zenon, <1>0, <2>4, <2>5, <2>6, <2>7, <2>8 DEF AccTypeOK
  <2>10. i \in Instances /\ i \notin chosen'[a]
    BY Zenon, <1>1, <1>6, <2>2, <2>8, OpenInstance
  <2>11. StoresInv(a, i)' /\ RecordInv(a, i)'
    <3>1. info.promise_ballot.proposer_id <= MaxProposerId
      BY Zenon, <1>0, <2>2 DEF RecordInv, StoresInv
    <3>2. CASE st # "committed"
      <4>1. StoresInv(a, i)'
        BY Zenon, <1>0, <1>3, <2>5, <2>6, <3>1, <3>2 DEF RecordInv, StoresInv, Asked
      <4> QED  BY Zenon, <1>1, <2>5, <3>2, <4>1, Lost
    <3>3. CASE st = "committed"
      <4>1. i \in Intact(a)' => i \in Intact(a) /\ IsWrittenAhead(a, i, b)
        BY Zenon, <2>4, <2>5, <2>7, <3>3 DEF Intact
      <4>2. i \in Intact(a)' => Bounds(b, a, i) /\ geq(info.promise_ballot, b)
        BY Zenon, <1>1, <1>6, <2>2, <4>1, OpenInstance, GeqTotal DEF IsWrittenAhead, geq
      <4>3. \A w \in VotesOf(a, i)' : w \in VotesOf(a, i) \/ w.ballot = b
        BY Zenon, <2>1, <2>3, <3>3 DEF VotesOf
      <4>4. /\ StoresInv(a, i)' /\ MirrorInv(a, i)'
            /\ AckedInv(a, i)' /\ ReportsInv(a, i)'
        <5>1. disk'[a][i] = info /\ dup'[a][i] = info
          BY Zenon, <2>5, <3>3
        <5>2. UNCHANGED <<trim_instance, unwritten, reopened, promises>>
          BY Zenon, <2>1, <2>4, <2>5, <2>8, <3>3
        <5> QED
          BY Zenon, <1>1, <1>3, <2>2, <2>6, <2>7, <3>1, <4>2, <4>3, <5>1, <5>2, VoteStored
      <4>5. GroundedInv(a, i)'
        BY Zenon, <2>10 DEF GroundedInv
      <4> QED  BY Zenon, <4>4, <4>5 DEF RecordInv
    <3> QED  BY Zenon, <3>2, <3>3
  <2>12. /\ \A m : m \in votes' /\ m \notin votes => m.aid = a /\ m.iid = i
         /\ \A m : m \in votes' /\ m \notin votes => m.ballot = b /\ m.value = v
         /\ votes \subseteq votes'
    BY Zenon, <2>1, <2>3
  <2>13. \A c \in Acceptors, j \in Instances : c # a \/ j # i =>
           /\ disk'[c][j] = disk[c][j] /\ dup'[c][j] = dup[c][j]
           /\ volatile_storage'[c][j] = volatile_storage[c][j]
           /\ j \in chosen'[c] <=> j \in chosen[c]
           /\ j \in unwritten'[c] <=> j \in unwritten[c]
           /\ j \in unfenced'[c] <=> j \in unfenced[c]
    <3> SUFFICES ASSUME NEW c \in Acceptors, NEW j \in Instances, c # a \/ j # i
                 PROVE  /\ disk'[c][j] = disk[c][j] /\ dup'[c][j] = dup[c][j]
                        /\ volatile_storage'[c][j] = volatile_storage[c][j]
                        /\ j \in chosen'[c] <=> j \in chosen[c]
                        /\ j \in unwritten'[c] <=> j \in unwritten[c]
                        /\ j \in unfenced'[c] <=> j \in unfenced[c]
      BY Zenon
    <3>1. /\ disk'[c][j] = disk[c][j] /\ dup'[c][j] = dup[c][j]
          /\ j \in unwritten'[c] <=> j \in unwritten[c]
      BY Zenon, <2>5
    <3>2. volatile_storage'[c][j] = volatile_storage[c][j]
      BY Zenon, <2>6
    <3>3. j \in unfenced'[c] <=> j \in unfenced[c]
      BY Zenon, <2>7
    <3>4. j \in chosen'[c] <=> j \in chosen[c]
      BY Zenon, <2>8
    <3> QED  BY Zenon, <3>1, <3>2, <3>3, <3>4
  <2>14. \A c \in Acceptors, j \in Instances : RecordInv(c, j)'
    <3>1. /\ UNCHANGED <<trim_instance, reopened>> /\ told \subseteq told'
          /\ promises' = promises
      BY Zenon, <1>2, <2>1, <2>4, <2>8
    <3>2. /\ \A m : m \in promises' /\ m \notin promises => m.aid = a /\ m.iid = i
          /\ promises \subseteq promises'
      BY Zenon, <3>1
    <3> QED  BY Zenon, <1>1, <1>2, <2>11, <2>12, <2>13, <3>1, <3>2, FrameOthers
  <2> QED
    BY Zenon, <1>0, <1>1, <1>2, <2>1, <2>2, <2>9, <2>12, <2>14
       DEF IInv, TypeOK, MessagesInv, timers
<1> QED  BY Zenon, <1>4, <1>5, <1>6

(* What a repeat sends: votes that are in the copy.                        *)
LEMMA RepeatSends ==
  ASSUME IInv, NEW a \in Acceptors, NEW from, NEW to, HandleRepeat(a, from, to)
  PROVE  /\ promises' = promises /\ votes \subseteq votes'
         /\ \A w \in votes' : w \in votes \/
              /\ w.aid = a /\ w.iid \in Instances /\ w.value \in Values
              /\ ballot_greater_than(dup[a][w.iid].promise_ballot, INVALID_BALLOT)
              /\ w.ballot = dup[a][w.iid].value_ballot
<1> DEFINE R == UNION {RepeatReply(a, i) : i \in {j \in Instances : from <= j /\ j <= to}}
<1>1. Send(R)
  BY Zenon DEF HandleRepeat
<1>2. ASSUME NEW m \in R
      PROVE  \E i \in Instances :
               \/ m = ChosenMsg(a, i, volatile_storage[a][i])
               \/ /\ m = AcceptedMsg(a, i, dup[a][i].value_ballot, dup[a][i].value)
                  /\ ballot_greater_than(dup[a][i].promise_ballot, INVALID_BALLOT)
                  /\ dup[a][i].value # NULL
  <2>1. PICK i \in Instances : m \in RepeatReply(a, i)
    BY Zenon
  <2> QED  BY Zenon, <2>1 DEF RepeatReply
<1> HIDE DEF R
<1>3. ASSUME NEW m \in R
      PROVE  /\ m.type # "PROMISE"
             /\ m.type = "ACCEPTED" =>
                  /\ m.aid = a /\ m.iid \in Instances /\ m.value \in Values
                  /\ ballot_greater_than(dup[a][m.iid].promise_ballot, INVALID_BALLOT)
                  /\ m.ballot = dup[a][m.iid].value_ballot
  <2>1. PICK i \in Instances :
               \/ m = ChosenMsg(a, i, volatile_storage[a][i])
               \/ /\ m = AcceptedMsg(a, i, dup[a][i].value_ballot, dup[a][i].value)
                  /\ ballot_greater_than(dup[a][i].promise_ballot, INVALID_BALLOT)
                  /\ dup[a][i].value # NULL
    BY Zenon, <1>2
  <2>2. CASE m = ChosenMsg(a, i, volatile_storage[a][i])
    BY <2>2 DEF ChosenMsg
  <2>3. CASE /\ m = AcceptedMsg(a, i, dup[a][i].value_ballot, dup[a][i].value)
             /\ ballot_greater_than(dup[a][i].promise_ballot, INVALID_BALLOT)
             /\ dup[a][i].value # NULL
    <3>1. /\ m.type = "ACCEPTED" /\ m.aid = a /\ m.iid = i
          /\ m.ballot = dup[a][i].value_ballot /\ m.value = dup[a][i].value
      BY <2>3 DEF AcceptedMsg
    <3>2. dup[a][i] \in InstanceInfo
      BY Zenon, RecordTypes DEF IInv, TypeOK
    <3>3. dup[a][i].value \in Values
      BY Zenon, <2>3, <3>2 DEF InstanceInfo
    <3>4. "ACCEPTED" # "PROMISE"
      BY SMT
    <3> QED  BY Zenon, <2>3, <3>1, <3>3, <3>4
  <2> QED  BY Zenon, <2>1, <2>2, <2>3
<1>4. ofType("PROMISE", R) = {}
  BY Zenon, <1>3 DEF ofType
<1> QED  BY Zenon, <1>1, <1>3, <1>4 DEF Send, ofType

(* A REPEAT keeps the invariant: the votes it sends again are on disk.     *)
LEMMA RepeatKeepsIInv ==
  ASSUME IInv, NEW a \in Acceptors, NEW from, NEW to, HandleRepeat(a, from, to)
  PROVE  IInv'
<1>1. /\ promises' = promises /\ votes \subseteq votes'
      /\ \A w \in votes' : w \in votes \/
           /\ w.aid = a /\ w.iid \in Instances /\ w.value \in Values
           /\ ballot_greater_than(dup[a][w.iid].promise_ballot, INVALID_BALLOT)
           /\ w.ballot = dup[a][w.iid].value_ballot
  BY Zenon, RepeatSends
<1>2. UNCHANGED <<accVars, timers, told>>
  BY Zenon DEF HandleRepeat
<1>3. /\ UNCHANGED <<trim_instance, chosen, flagged, disk, disk_trim>>
      /\ UNCHANGED <<volatile_storage, dup, unwritten, unfenced, reopened>>
  BY Zenon, <1>2 DEF accVars, memVars, diskVars
<1>4. TypeOK /\ AccTypeOK /\ MessagesInv
  BY Zenon DEF IInv, TypeOK
<1>5. AccTypeOK'
  BY Zenon, <1>3, <1>4 DEF AccTypeOK
<1>6. TypeOK' /\ MessagesInv'
  BY Zenon, <1>1, <1>2, <1>4, <1>5, RecordTypes DEF TypeOK, MessagesInv, timers
<1>7. ASSUME NEW c \in Acceptors, NEW i \in Instances
      PROVE  RecordInv(c, i)'
  <2>1. RecordInv(c, i)
    BY Zenon DEF IInv
  <2>2. PromisesOf(c, i)' = PromisesOf(c, i)
    BY Zenon, <1>1 DEF PromisesOf
  <2>3. Written(c)' = Written(c) /\ Intact(c)' = Intact(c)
    BY Zenon, <1>3 DEF Written, Intact
  <2>4. i \in Intact(c) => i \in Written(c)
    BY Zenon DEF Written, Intact
  <2>5. ASSUME i \in Intact(c), NEW w \in VotesOf(c, i)'
        PROVE  w \in VotesOf(c, i) \/ w.ballot = disk[c][i].value_ballot
    <3>1. ~ ballot_greater_than(EmptyInfo.promise_ballot, INVALID_BALLOT)
      BY DEF EmptyInfo, ballot_greater_than, INVALID_BALLOT
    <3>2. dup[c][i] = disk[c][i] \/ dup[c][i] = EmptyInfo
      BY Zenon, <2>1, <2>4, <2>5 DEF RecordInv, MirrorInv
    <3> QED  BY Zenon, <1>1, <2>5, <3>1, <3>2 DEF VotesOf
  <2>6. StoresInv(c, i)' /\ MirrorInv(c, i)' /\ GroundedInv(c, i)'
    BY Zenon, <1>2, <1>3, <2>1, <2>3 DEF RecordInv, StoresInv, Asked, MirrorInv, GroundedInv
  <2>7. AckedInv(c, i)'
    <3>1. disk[c][i].value_ballot \in Ballot
      BY Zenon, <1>4, RecordTypes
    <3> QED
      BY Zenon, <1>3, <2>1, <2>2, <2>3, <2>5, <3>1, GeqReflexive
         DEF RecordInv, AckedInv, Bounds, geq
  <2>8. ReportsInv(c, i)'
    BY Zenon, <1>3, <2>1, <2>2, <2>3, <2>5 DEF RecordInv, ReportsInv
  <2> QED  BY Zenon, <2>6, <2>7, <2>8 DEF RecordInv
<1> QED  BY Zenon, <1>6, <1>7 DEF IInv

(* A vote for a ballot is a vote for the ballot's one value.               *)
LEMMA OneValue ==
  ASSUME NEW r \in ChosenNotices, NEW info, Asked(r[1], info), info.value_ballot = r[2]
  PROVE  info.value = r[3]
<1>1. r[2] # INVALID_BALLOT
  BY WriteAheadRequestsAssumption DEF RequestBallot, INVALID_BALLOT
<1> QED  BY Zenon, <1>1, WriteAheadRequestsAssumption DEF Asked

(* A CHOSEN keeps the invariant.                                           *)
LEMMA ChosenKeepsIInv ==
  ASSUME IInv, NEW a \in Acceptors, NEW st \in StorageOutcomes, NEW r \in ChosenNotices,
         HandleChosen(a, r[1], r[2], r[3], st)
  PROVE  IInv'
<1> DEFINE i == r[1]
           b == r[2]
           v == r[3]
           info == [promise_ballot |-> b, value_ballot |-> b, value |-> v]
           t == [aid |-> a, iid |-> i, ballot |-> b, value |-> v]
<1>1. i \in Instances /\ b \in RequestBallot /\ v \in Values /\ b \in Ballot
  BY Zenon, WriteAheadRequestsAssumption, RequestBallots
<1>2. /\ ReceiveChosen(a, i, b, v, st) /\ told' = told \cup {t}
      /\ UNCHANGED <<timers, promises, votes>>
  BY Zenon DEF HandleChosen
<1>3. /\ t.aid = a /\ t.iid = i /\ t.ballot = b /\ t.value = v
      /\ info.value_ballot = b /\ info.value = v /\ info.promise_ballot = b
      /\ [info EXCEPT !.promise_ballot = b] = info
  BY SMT
<1>4. Asked(i, info)
  BY Zenon, <1>3, RequestAsks
<1>5. ASSUME NEW x, Asked(i, x), x.value_ballot = b  PROVE x.value = v
  BY Zenon, <1>5, OneValue
<1>6. info \in InstanceInfo /\ b.proposer_id <= MaxProposerId
  BY <1>1, RequestBallots DEF InstanceInfo
<1>7. /\ chosen' = [chosen EXCEPT ![a] = @ \cup {i}]
      /\ \/ /\ ballot_greater_than(b, dup[a][i].value_ballot)
            /\ StoreStable(a, i, info, st)
            /\ volatile_storage' = [volatile_storage EXCEPT ![a][i] = info]
            /\ unfenced' = IF ballot_greater_than(disk[a][i].promise_ballot, b)
                           THEN [unfenced EXCEPT ![a] = @ \cup {i}] ELSE unfenced
         \/ /\ ~ ballot_greater_than(b, dup[a][i].value_ballot)
            /\ UNCHANGED <<disk, volatile_storage, dup, unwritten, unfenced>>
      /\ UNCHANGED <<trim_instance, flagged, disk_trim, reopened>>
  BY Zenon, <1>2 DEF ReceiveChosen
<1> HIDE DEF i, b, v, info, t
<1>0. AccTypeOK /\ TypeOK /\ MessagesInv /\ RecordInv(a, i)
  BY Zenon, <1>1 DEF IInv, TypeOK
<1>8. /\ chosen' \in [Acceptors -> SUBSET Instances]
      /\ \A c \in Acceptors, j \in Instances :
           c # a \/ j # i => (j \in chosen'[c] <=> j \in chosen[c])
  <2>1. chosen \in [Acceptors -> SUBSET Instances]
    BY Zenon, <1>0 DEF AccTypeOK
  <2>2. chosen' = [chosen EXCEPT ![a] = @ \cup {i}]
    BY Zenon, <1>7
  <2> QED  BY SMT, <1>1, <2>1, <2>2, AddInstance
<1>9. /\ disk[a][i].promise_ballot \in Ballot /\ dup[a][i].value_ballot \in Ballot
      /\ volatile_storage[a][i].value_ballot \in Ballot
  BY Zenon, <1>0, <1>1, RecordTypes
<1>10. SUFFICES /\ AccTypeOK' /\ RecordInv(a, i)'
                /\ \A c \in Acceptors, j \in Instances : c # a \/ j # i =>
                     /\ disk'[c][j] = disk[c][j] /\ dup'[c][j] = dup[c][j]
                     /\ volatile_storage'[c][j] = volatile_storage[c][j]
                     /\ j \in unwritten'[c] <=> j \in unwritten[c]
                     /\ j \in unfenced'[c] <=> j \in unfenced[c]
  <2>1. told \subseteq told' /\ promises' = promises /\ votes' = votes
    BY Zenon, <1>2
  <2>2. UNCHANGED <<trim_instance, reopened>>
    BY Zenon, <1>7
  <2>3. \A c \in Acceptors, j \in Instances : RecordInv(c, j)'
    BY Zenon, <1>1, <1>8, <1>10, <2>1, <2>2, FrameOthers
  <2> QED
    BY Zenon, <1>0, <1>2, <1>10, <2>1, <2>3 DEF IInv, TypeOK, MessagesInv, timers
<1>11. CASE ~ ballot_greater_than(b, dup[a][i].value_ballot)
  <2>1. UNCHANGED <<disk, volatile_storage, dup, unwritten, unfenced>>
    BY Zenon, <1>7, <1>11
  <2>2. UNCHANGED <<trim_instance, flagged, disk_trim, reopened>>
    BY Zenon, <1>7
  <2>3. AccTypeOK'
    BY Zenon, <1>0, <1>8, <2>1, <2>2 DEF AccTypeOK
  <2>4. Written(a)' = Written(a) /\ Intact(a)' = Intact(a)
    BY Zenon, <2>1, <2>2 DEF Written, Intact
  <2>5. PromisesOf(a, i)' = PromisesOf(a, i) /\ VotesOf(a, i)' = VotesOf(a, i)
    BY Zenon, <1>2 DEF PromisesOf, VotesOf
  <2>6. /\ StoresInv(a, i)' /\ MirrorInv(a, i)'
        /\ AckedInv(a, i)' /\ ReportsInv(a, i)'
    BY Zenon, <1>0, <2>1, <2>2, <2>4, <2>5
       DEF RecordInv, StoresInv, Asked, MirrorInv, AckedInv, Bounds, ReportsInv
  <2>7. GroundedInv(a, i)'
    <3> SUFFICES ASSUME i \in Written(a)
                 PROVE  /\ t.aid = a /\ t.iid = i
                        /\ geq(volatile_storage[a][i].value_ballot, t.ballot)
                        /\ \/ t.value = volatile_storage[a][i].value
                           \/ ballot_greater_than(volatile_storage[a][i].value_ballot, t.ballot)
      BY Zenon, <1>2, <2>1, <2>4 DEF GroundedInv
    <3>1. volatile_storage[a][i].value_ballot = dup[a][i].value_ballot
      BY Zenon, <1>0 DEF RecordInv, MirrorInv
    <3>2. geq(volatile_storage[a][i].value_ballot, b)
      BY Zenon, <1>1, <1>9, <1>11, <3>1, GeqTotal DEF geq
    <3>3. CASE geq(b, volatile_storage[a][i].value_ballot)
      <4>1. volatile_storage[a][i].value_ballot = b
        BY Zenon, <1>1, <1>9, <3>2, <3>3, GeqAntisymmetric DEF geq
      <4>2. Asked(i, volatile_storage[a][i])
        BY Zenon, <1>0 DEF RecordInv, StoresInv
      <4> QED  BY Zenon, <1>3, <1>5, <3>2, <4>1, <4>2
    <3>4. CASE ~ geq(b, volatile_storage[a][i].value_ballot)
      BY Zenon, <1>1, <1>3, <1>9, <3>2, <3>4, GeqTotal DEF geq
    <3> QED  BY Zenon, <3>3, <3>4
  <2>8. RecordInv(a, i)'
    BY Zenon, <2>6, <2>7 DEF RecordInv
  <2> QED  BY Zenon, <2>1, <2>3, <2>8
<1>12. CASE ballot_greater_than(b, dup[a][i].value_ballot)
  <2>1. /\ StoreStable(a, i, info, st)
        /\ volatile_storage' = [volatile_storage EXCEPT ![a][i] = info]
        /\ unfenced' = IF ballot_greater_than(disk[a][i].promise_ballot, b)
                       THEN [unfenced EXCEPT ![a] = @ \cup {i}] ELSE unfenced
        /\ UNCHANGED <<trim_instance, flagged, disk_trim, reopened>>
    BY Zenon, <1>7, <1>12
  <2>2. /\ dup' \in [Acceptors -> [Instances -> InstanceInfo]]
        /\ disk' \in [Acceptors -> [Instances -> InstanceInfo]]
        /\ unwritten' \in [Acceptors -> SUBSET Instances]
        /\ dup'[a][i] = info
        /\ st = "committed" => disk'[a][i] = info /\ unwritten' = unwritten
        /\ st # "committed" => disk' = disk /\ i \in unwritten'[a]
        /\ \A c \in Acceptors, j \in Instances : c # a \/ j # i =>
             /\ disk'[c][j] = disk[c][j] /\ dup'[c][j] = dup[c][j]
             /\ j \in unwritten'[c] <=> j \in unwritten[c]
    BY Zenon, <1>0, <1>1, <1>6, <2>1, StoreStableEffect
  <2>3. /\ volatile_storage' \in [Acceptors -> [Instances -> InstanceInfo]]
        /\ volatile_storage'[a][i] = info
        /\ \A c \in Acceptors, j \in Instances : c # a \/ j # i =>
             volatile_storage'[c][j] = volatile_storage[c][j]
    <3>1. volatile_storage \in [Acceptors -> [Instances -> InstanceInfo]]
      BY Zenon, <1>0 DEF AccTypeOK
    <3> QED  BY SMT, <1>1, <1>6, <2>1, <3>1, WriteRecord
  <2>4. /\ unfenced' \in [Acceptors -> SUBSET Instances]
        /\ \A c \in Acceptors, j \in Instances : c # a \/ j # i =>
             (j \in unfenced'[c] <=> j \in unfenced[c])
        /\ i \in unfenced[a] => i \in unfenced'[a]
        /\ ballot_greater_than(disk[a][i].promise_ballot, b) => i \in unfenced'[a]
    <3>1. unfenced \in [Acceptors -> SUBSET Instances]
      BY Zenon, <1>0 DEF AccTypeOK
    <3>2. ballot_greater_than(disk[a][i].promise_ballot, b)
            => unfenced' = [unfenced EXCEPT ![a] = @ \cup {i}]
      BY Zenon, <2>1
    <3>3. unfenced' = unfenced \/ unfenced' = [unfenced EXCEPT ![a] = @ \cup {i}]
      BY Zenon, <2>1
    <3>4. ballot_greater_than(disk[a][i].promise_ballot, b) => i \in unfenced'[a]
      BY SMT, <3>1, <3>2
    <3> QED  BY Zenon, <1>0, <1>1, <3>3, <3>4, UnfencedEffect
  <2>5. AccTypeOK'
    BY Zenon, <1>0, <1>8, <2>1, <2>2, <2>3, <2>4 DEF AccTypeOK
  <2>6. CASE st # "committed"
    <3>1. /\ disk' = disk /\ dup'[a][i] = info /\ volatile_storage'[a][i] = info
          /\ info.promise_ballot.proposer_id <= MaxProposerId
      BY Zenon, <1>3, <1>6, <2>2, <2>3, <2>6
    <3>3. StoresInv(a, i)'
      BY Zenon, <1>0, <1>4, <3>1 DEF RecordInv, StoresInv, Asked
    <3>2. RecordInv(a, i)'
      BY Zenon, <1>1, <2>2, <2>6, <3>3, Lost
    <3> QED  BY Zenon, <2>2, <2>3, <2>4, <2>5, <3>2
  <2>7. CASE st = "committed"
    <3>1. disk'[a][i] = info /\ dup'[a][i] = info /\ unwritten' = unwritten
      BY Zenon, <2>2, <2>7
    <3>2. i \in Intact(a)' => i \in Intact(a) /\ geq(b, disk[a][i].promise_ballot)
      BY Zenon, <1>1, <1>9, <2>1, <2>4, <3>1, GeqTotal DEF Intact, geq
    <3>3. i \in Intact(a)' => Bounds(b, a, i) /\ geq(info.promise_ballot, b)
      BY Zenon, <1>0, <1>1, <1>3, <1>9, <3>2, BoundsAbove, GeqReflexive
         DEF RecordInv, AckedInv, geq
    <3>4. /\ \A w \in VotesOf(a, i)' : w \in VotesOf(a, i) \/ w.ballot = b
          /\ info.value_ballot = b
      BY Zenon, <1>2, <1>3 DEF VotesOf
    <3>5. UNCHANGED <<trim_instance, unwritten, reopened, promises>>
      BY Zenon, <1>2, <2>1, <3>1
    <3>6. volatile_storage'[a][i] = [info EXCEPT !.promise_ballot = b]
      BY Zenon, <1>3, <2>3
    <3>7. info.promise_ballot.proposer_id <= MaxProposerId
      BY Zenon, <1>3, <1>6
    <3>8. /\ StoresInv(a, i)' /\ MirrorInv(a, i)'
          /\ AckedInv(a, i)' /\ ReportsInv(a, i)'
      BY Zenon, <1>1, <1>4, <1>6, <2>4, <3>1, <3>3, <3>4, <3>5, <3>6, <3>7, VoteStored
    <3>9. GroundedInv(a, i)'
      <4>1. geq(info.value_ballot, t.ballot) /\ t.value = info.value /\ t \in told'
        BY Zenon, <1>1, <1>2, <1>3, GeqReflexive DEF geq
      <4> QED  BY Zenon, <1>3, <2>3, <4>1 DEF GroundedInv
    <3>10. RecordInv(a, i)'
      BY Zenon, <3>8, <3>9 DEF RecordInv
    <3> QED  BY Zenon, <2>2, <2>3, <2>4, <2>5, <3>10
  <2> QED  BY Zenon, <2>6, <2>7
<1> QED  BY Zenon, <1>11, <1>12

(* A TRIM keeps the invariant: an instance that comes back is reopened.    *)
LEMMA TrimKeepsIInv ==
  ASSUME IInv, NEW a \in Acceptors, NEW st \in StorageOutcomes, NEW iid \in TrimNotices,
         HandleTrim(a, iid, st)
  PROVE  IInv'
<1>0. AccTypeOK /\ TypeOK /\ MessagesInv
  BY Zenon DEF IInv, TypeOK
<1>1. ReceiveTrim(a, iid, st) /\ UNCHANGED <<timers, promises, votes, told>>
  BY Zenon DEF HandleTrim
<1>2. CASE UNCHANGED accVars
  BY Zenon, <1>0, <1>1, <1>2, StutterKeepsIInv DEF timers, TypeOK
<1>3. CASE ~ UNCHANGED accVars
  <2>1. /\ trim_instance' = [trim_instance EXCEPT ![a] = iid]
        /\ disk_trim' = IF st = "committed" THEN [disk_trim EXCEPT ![a] = iid] ELSE disk_trim
        /\ reopened' = [reopened EXCEPT ![a] =
             @ \cup {i \in Instances : iid < i /\ i <= trim_instance[a]}]
        /\ UNCHANGED <<chosen, flagged, disk, volatile_storage, dup, unwritten, unfenced>>
    BY Zenon, <1>1, <1>3 DEF ReceiveTrim
  <2>2. /\ trim_instance' \in [Acceptors -> Nat] /\ disk_trim' \in [Acceptors -> Nat]
        /\ reopened' \in [Acceptors -> SUBSET Instances]
        /\ trim_instance'[a] = iid /\ iid \in Nat
        /\ reopened'[a] = reopened[a] \cup {i \in Instances : iid < i /\ i <= trim_instance[a]}
        /\ \A c \in Acceptors : c # a => trim_instance'[c] = trim_instance[c]
                                         /\ reopened'[c] = reopened[c]
    <3>1. iid \in Nat
      BY Zenon, WriteAheadRequestsAssumption
    <3>2. /\ trim_instance \in [Acceptors -> Nat] /\ disk_trim \in [Acceptors -> Nat]
          /\ reopened \in [Acceptors -> SUBSET Instances]
      BY Zenon, <1>0 DEF AccTypeOK
    <3> QED  BY SMT, <2>1, <3>1, <3>2
  <2>3. AccTypeOK'
    BY Zenon, <1>0, <2>1, <2>2 DEF AccTypeOK
  <2>4. TypeOK' /\ MessagesInv'
    BY Zenon, <1>0, <1>1, <2>3 DEF TypeOK, MessagesInv, timers
  <2>5. ASSUME NEW c \in Acceptors, NEW i \in Instances
        PROVE  RecordInv(c, i)'
    <3>1. RecordInv(c, i)
      BY Zenon DEF IInv
    <3>2. PromisesOf(c, i)' = PromisesOf(c, i) /\ VotesOf(c, i)' = VotesOf(c, i)
      BY Zenon, <1>1 DEF PromisesOf, VotesOf
    <3>3. CASE c # a
      BY Zenon, <1>1, <2>1, <2>2, <3>1, <3>2, <3>3, Frame
    <3>4. CASE c = a
      <4>1. i \in Written(c)' => /\ i \in Written(c)
                                 /\ i > trim_instance'[c] => i > trim_instance[c]
        <5>1. i \in Nat /\ trim_instance[c] \in Nat
          BY Zenon, <1>0, RecordTypes
        <5>2. i \in Written(c)' => i \in Written(c) /\ ~ (iid < i /\ i <= trim_instance[c])
          BY Zenon, <2>1, <2>2, <3>4 DEF Written
        <5> QED  BY SMT, <2>2, <3>4, <5>1, <5>2
      <4>2. i \in Intact(c)' => i \in Intact(c) /\ i \in Written(c)'
        BY Zenon, <2>1, <2>2, <3>4 DEF Intact, Written
      <4>3. StoresInv(c, i)' /\ GroundedInv(c, i)'
        BY Zenon, <1>1, <2>1, <3>1, <4>1 DEF RecordInv, StoresInv, Asked, GroundedInv
      <4>4. MirrorInv(c, i)'
        BY Zenon, <2>1, <3>1, <4>1 DEF RecordInv, MirrorInv
      <4>5. AckedInv(c, i)' /\ ReportsInv(c, i)'
        BY Zenon, <2>1, <3>1, <3>2, <4>1, <4>2 DEF RecordInv, AckedInv, ReportsInv, Bounds
      <4> QED  BY Zenon, <4>3, <4>4, <4>5 DEF RecordInv
    <3> QED  BY Zenon, <3>3, <3>4
  <2> QED  BY Zenon, <2>4, <2>5 DEF IInv
<1> QED  BY Zenon, <1>2, <1>3

(* The timer keeps the invariant: what it writes is marked unwritten.      *)
LEMMA WriteKeepsIInv ==
  ASSUME IInv, NEW a \in Acceptors, WriteBallotEvent(a)
  PROVE  IInv'
<1> DEFINE window(i) ==
      [EmptyInfo EXCEPT !.promise_ballot = WrittenAheadOf(Promised(a, i).number)]
<1>0. AccTypeOK /\ TypeOK /\ MessagesInv
  BY Zenon DEF IInv, TypeOK
<1>1. /\ dup' = [dup EXCEPT ![a] = [i \in Instances |->
           IF i \in flagged[a] THEN window(i) ELSE @[i]]]
      /\ unwritten' = [unwritten EXCEPT ![a] = @ \cup flagged[a]]
      /\ flagged' = [flagged EXCEPT ![a] = {}]
      /\ UNCHANGED <<trim_instance, chosen, disk, disk_trim, volatile_storage, unfenced, reopened>>
      /\ UNCHANGED <<promises, votes, told>>
      /\ writing' = [writing EXCEPT ![a] = FALSE] /\ checking' = [checking EXCEPT ![a] = TRUE]
  BY Zenon DEF WriteBallotEvent, WriteBallotWindow, diskVars
<1>2. \A i \in Instances :
        /\ window(i) \in InstanceInfo
        /\ window(i).value_ballot = INVALID_BALLOT /\ window(i).value = NULL
        /\ window(i).promise_ballot.proposer_id <= MaxProposerId
  <2> SUFFICES ASSUME NEW i \in Instances
               PROVE  /\ window(i) \in InstanceInfo
                      /\ window(i).value_ballot = INVALID_BALLOT /\ window(i).value = NULL
                      /\ window(i).promise_ballot.proposer_id <= MaxProposerId
    BY Zenon
  <2>1. Promised(a, i).number \in Nat
    BY <1>0, RecordTypes DEF Promised, Ballot
  <2>2. WrittenAheadOf(Promised(a, i).number) \in Ballot
    BY <2>1, WriteAheadAssumption DEF WrittenAheadOf, Ballot
  <2>3. WrittenAheadOf(Promised(a, i).number).proposer_id <= MaxProposerId
    BY WriteAheadAssumption DEF WrittenAheadOf
  <2>4. INVALID_BALLOT \in Ballot
    BY Zenon, InvalidIsLeast
  <2> QED  BY <2>2, <2>3, <2>4 DEF EmptyInfo, InstanceInfo
<1> HIDE DEF window
<1>3. /\ dup' \in [Acceptors -> [Instances -> InstanceInfo]]
      /\ \A c \in Acceptors, i \in Instances :
           dup'[c][i] = IF c = a /\ i \in flagged[a] THEN window(i) ELSE dup[c][i]
  <2>1. dup \in [Acceptors -> [Instances -> InstanceInfo]]
    BY Zenon, <1>0 DEF AccTypeOK
  <2> QED  BY SMT, <1>1, <1>2, <2>1
<1>4. /\ unwritten' \in [Acceptors -> SUBSET Instances]
      /\ flagged' \in [Acceptors -> SUBSET Instances]
      /\ \A c \in Acceptors, i \in Instances :
           i \in unwritten'[c] <=> i \in unwritten[c] \/ (c = a /\ i \in flagged[a])
      /\ writing' \in [Acceptors -> BOOLEAN] /\ checking' \in [Acceptors -> BOOLEAN]
  <2>1. /\ unwritten \in [Acceptors -> SUBSET Instances]
        /\ flagged \in [Acceptors -> SUBSET Instances]
        /\ writing \in [Acceptors -> BOOLEAN] /\ checking \in [Acceptors -> BOOLEAN]
    BY Zenon, <1>0 DEF AccTypeOK, TypeOK
  <2> QED  BY SMT, <1>1, <2>1
<1>5. AccTypeOK'
  BY Zenon, <1>0, <1>1, <1>3, <1>4 DEF AccTypeOK
<1>6. TypeOK' /\ MessagesInv'
  BY Zenon, <1>0, <1>1, <1>4, <1>5 DEF TypeOK, MessagesInv
<1>7. ASSUME NEW c \in Acceptors, NEW i \in Instances
      PROVE  RecordInv(c, i)'
  <2>1. RecordInv(c, i)
    BY Zenon DEF IInv
  <2>2. PromisesOf(c, i)' = PromisesOf(c, i) /\ VotesOf(c, i)' = VotesOf(c, i)
    BY Zenon, <1>1 DEF PromisesOf, VotesOf
  <2>3. CASE ~ (c = a /\ i \in flagged[a])
    <3>1. dup'[c][i] = dup[c][i] /\ (i \in unwritten'[c] <=> i \in unwritten[c])
      BY Zenon, <1>3, <1>4, <2>3
    <3> QED  BY Zenon, <1>1, <2>1, <2>2, <3>1, Frame
  <2>4. CASE c = a /\ i \in flagged[a]
    <3>1. dup'[c][i] = window(i) /\ i \in unwritten'[c]
      BY Zenon, <1>3, <1>4, <2>4
    <3>2. StoresInv(c, i)'
      BY Zenon, <1>1, <1>2, <2>1, <3>1 DEF RecordInv, StoresInv, Asked
    <3> QED  BY Zenon, <3>1, <3>2, Lost
  <2> QED  BY Zenon, <2>3, <2>4
<1> QED  BY Zenon, <1>6, <1>7 DEF IInv

(* A restart keeps the invariant: the promise on disk, which covers all    *)
(* that was sent, is the promise in memory afterwards.                     *)
LEMMA RestartKeepsIInv ==
  ASSUME IInv, NEW a \in Acceptors, NEW st \in StorageOutcomes, RestartAcceptor(a, st)
  PROVE  IInv'
<1> DEFINE read == {i \in Instances : i > disk_trim[a]}
           renewed == read \cap InitedInstances(a)
<1>0. AccTypeOK /\ TypeOK /\ MessagesInv
  BY Zenon DEF IInv, TypeOK
<1>1. /\ trim_instance' = [trim_instance EXCEPT ![a] = disk_trim[a]]
      /\ volatile_storage' = [volatile_storage EXCEPT ![a] =
           [i \in Instances |-> IF i \in read THEN disk[a][i] ELSE EmptyInfo]]
      /\ dup' = [dup EXCEPT ![a] =
           [i \in Instances |-> IF i \in renewed THEN Recovered(a, i) ELSE EmptyInfo]]
      /\ \/ /\ st = "committed"
            /\ disk' = [disk EXCEPT ![a] =
                 [i \in Instances |-> IF i \in renewed THEN Recovered(a, i) ELSE @[i]]]
            /\ UNCHANGED unwritten
         \/ /\ st = "commit_failed"
            /\ unwritten' = [unwritten EXCEPT ![a] = @ \cup renewed]
            /\ UNCHANGED disk
      /\ chosen' = [chosen EXCEPT ![a] = {}]
      /\ flagged' = [flagged EXCEPT ![a] = {}]
      /\ UNCHANGED <<disk_trim, unfenced, reopened>>
      /\ UNCHANGED <<promises, votes, told>>
      /\ writing' = [writing EXCEPT ![a] = FALSE] /\ checking' = [checking EXCEPT ![a] = TRUE]
  BY Zenon DEF RestartAcceptor, Restart
<1>2. \A i \in Instances :
        /\ Recovered(a, i) \in InstanceInfo
        /\ Recovered(a, i).value_ballot = disk[a][i].value_ballot
        /\ Recovered(a, i).value = disk[a][i].value
        /\ Recovered(a, i).promise_ballot.proposer_id <= MaxProposerId
        /\ geq(Recovered(a, i).promise_ballot, disk[a][i].promise_ballot)
  <2> SUFFICES ASSUME NEW i \in Instances
               PROVE  /\ Recovered(a, i) \in InstanceInfo
                      /\ Recovered(a, i).value_ballot = disk[a][i].value_ballot
                      /\ Recovered(a, i).value = disk[a][i].value
                      /\ Recovered(a, i).promise_ballot.proposer_id <= MaxProposerId
                      /\ geq(Recovered(a, i).promise_ballot, disk[a][i].promise_ballot)
    BY Zenon
  <2> DEFINE W == WrittenAheadOf(disk[a][i].promise_ballot.number)
  <2>1. /\ disk[a][i] \in InstanceInfo /\ disk[a][i].promise_ballot \in Ballot
        /\ disk[a][i].promise_ballot.proposer_id <= MaxProposerId
    BY Zenon, <1>0, RecordTypes DEF IInv, RecordInv, StoresInv
  <2>2. W \in Ballot /\ W.proposer_id <= MaxProposerId /\ geq(W, disk[a][i].promise_ballot)
    BY Zenon, <2>1, WindowCovers
  <2>3. /\ Recovered(a, i).promise_ballot = W /\ Recovered(a, i) \in InstanceInfo
        /\ Recovered(a, i).value_ballot = disk[a][i].value_ballot
        /\ Recovered(a, i).value = disk[a][i].value
    <3> HIDE DEF W
    <3>1. Recovered(a, i) = [disk[a][i] EXCEPT !.promise_ballot = W]
      BY Zenon DEF Recovered, W
    <3> QED  BY <2>1, <2>2, <3>1 DEF InstanceInfo
  <2> QED  BY Zenon, <2>2, <2>3
<1>3. EmptyInfo \in InstanceInfo
  BY InvalidIsLeast DEF EmptyInfo, InstanceInfo
<1>4. \A i \in Instances : i \in read /\ i \notin renewed => disk[a][i] = EmptyInfo
  BY WriteAheadAssumption DEF InitedInstances
<1>13. renewed \subseteq Instances /\ renewed \subseteq read
  BY Zenon
<1>14. \A i \in Instances : i \in read <=> i > disk_trim[a]
  BY Zenon
<1> HIDE DEF read, renewed
<1>5. /\ volatile_storage' \in [Acceptors -> [Instances -> InstanceInfo]]
      /\ \A c \in Acceptors, i \in Instances : c # a =>
           volatile_storage'[c][i] = volatile_storage[c][i]
      /\ \A i \in Instances : /\ i \in read => volatile_storage'[a][i] = disk[a][i]
                              /\ i \notin read => volatile_storage'[a][i] = EmptyInfo
  <2>1. /\ volatile_storage \in [Acceptors -> [Instances -> InstanceInfo]]
        /\ \A i \in Instances : disk[a][i] \in InstanceInfo
    BY Zenon, <1>0 DEF AccTypeOK
  <2> QED  BY SMT, <1>1, <1>3, <2>1
<1>6. /\ dup' \in [Acceptors -> [Instances -> InstanceInfo]]
      /\ \A c \in Acceptors, i \in Instances : c # a => dup'[c][i] = dup[c][i]
      /\ \A i \in Instances : /\ i \in renewed => dup'[a][i] = Recovered(a, i)
                              /\ i \notin renewed => dup'[a][i] = EmptyInfo
  <2>1. dup \in [Acceptors -> [Instances -> InstanceInfo]]
    BY Zenon, <1>0 DEF AccTypeOK
  <2> QED  BY SMT, <1>1, <1>2, <1>3, <2>1
<1>7. /\ disk' \in [Acceptors -> [Instances -> InstanceInfo]]
      /\ unwritten' \in [Acceptors -> SUBSET Instances]
      /\ \A c \in Acceptors, i \in Instances : c # a =>
           disk'[c][i] = disk[c][i] /\ (i \in unwritten'[c] <=> i \in unwritten[c])
      /\ \A i \in Instances : i \in unwritten[a] => i \in unwritten'[a]
      /\ \A i \in Instances : i \notin renewed => disk'[a][i] = disk[a][i]
      /\ \A i \in Instances : i \in renewed =>
           \/ disk'[a][i] = Recovered(a, i)
           \/ disk'[a][i] = disk[a][i] /\ i \in unwritten'[a]
  <2>1. /\ disk \in [Acceptors -> [Instances -> InstanceInfo]]
        /\ unwritten \in [Acceptors -> SUBSET Instances]
    BY Zenon, <1>0 DEF AccTypeOK
  <2>2. CASE /\ disk' = [disk EXCEPT ![a] =
                  [i \in Instances |-> IF i \in renewed THEN Recovered(a, i) ELSE @[i]]]
             /\ UNCHANGED unwritten
    BY SMT, <1>2, <2>1, <2>2
  <2>3. CASE UNCHANGED disk /\ unwritten' = [unwritten EXCEPT ![a] = @ \cup renewed]
    BY SMT, <1>13, <2>1, <2>3
  <2> QED  BY Zenon, <1>1, <2>2, <2>3
<1>8. /\ chosen' \in [Acceptors -> SUBSET Instances]
      /\ flagged' \in [Acceptors -> SUBSET Instances]
      /\ trim_instance' \in [Acceptors -> Nat]
      /\ trim_instance'[a] = disk_trim[a] /\ chosen'[a] = {}
      /\ \A c \in Acceptors : c # a =>
           trim_instance'[c] = trim_instance[c] /\ chosen'[c] = chosen[c]
      /\ writing' \in [Acceptors -> BOOLEAN] /\ checking' \in [Acceptors -> BOOLEAN]
  <2>1. /\ chosen \in [Acceptors -> SUBSET Instances]
        /\ flagged \in [Acceptors -> SUBSET Instances]
        /\ trim_instance \in [Acceptors -> Nat] /\ disk_trim[a] \in Nat
        /\ writing \in [Acceptors -> BOOLEAN] /\ checking \in [Acceptors -> BOOLEAN]
    BY Zenon, <1>0 DEF AccTypeOK, TypeOK
  <2> QED  BY SMT, <1>1, <2>1
<1>9. AccTypeOK'
  BY Zenon, <1>0, <1>1, <1>5, <1>6, <1>7, <1>8 DEF AccTypeOK
<1>10. TypeOK' /\ MessagesInv'
  BY Zenon, <1>0, <1>1, <1>8, <1>9 DEF TypeOK, MessagesInv
<1>11. ASSUME NEW c \in Acceptors, NEW i \in Instances
       PROVE  RecordInv(c, i)'
  <2>1. RecordInv(c, i)
    BY Zenon DEF IInv
  <2>2. PromisesOf(c, i)' = PromisesOf(c, i) /\ VotesOf(c, i)' = VotesOf(c, i)
    BY Zenon, <1>1 DEF PromisesOf, VotesOf
  <2>3. CASE c # a
    <3>1. unfenced' = unfenced /\ reopened' = reopened /\ told' = told
      BY Zenon, <1>1
    <3>2. volatile_storage'[c][i] = volatile_storage[c][i] /\ dup'[c][i] = dup[c][i]
      BY Zenon, <1>5, <1>6, <2>3
    <3>3. disk'[c][i] = disk[c][i] /\ (i \in unwritten'[c] <=> i \in unwritten[c])
      BY Zenon, <1>7, <2>3
    <3>4. trim_instance'[c] = trim_instance[c] /\ chosen'[c] = chosen[c]
      BY Zenon, <1>8, <2>3
    <3> QED  BY Zenon, <2>1, <2>2, <3>1, <3>2, <3>3, <3>4, Frame
  <2>4. CASE c = a
    <3>1. i \in Written(a)' => i \in Written(a) /\ i \notin unwritten'[a]
      BY Zenon, <1>1, <1>7 DEF Written
    <3>2. i \in Intact(a)' => i \in Intact(a) /\ i \in Written(a)'
      BY Zenon, <1>1, <1>7 DEF Written, Intact
    <3>3. /\ disk'[a][i].value_ballot = disk[a][i].value_ballot
          /\ disk'[a][i].value = disk[a][i].value
          /\ geq(disk'[a][i].promise_ballot, disk[a][i].promise_ballot)
      BY Zenon, <1>0, <1>2, <1>7, RecordTypes, GeqReflexive DEF geq
    <3>4. Asked(i, disk[a][i]) /\ Asked(i, EmptyInfo) /\ Asked(i, disk'[a][i])
      <4>1. EmptyInfo.value_ballot = INVALID_BALLOT /\ EmptyInfo.value = NULL
        BY DEF EmptyInfo
      <4> QED  BY Zenon, <2>1, <2>4, <3>3, <4>1 DEF RecordInv, StoresInv, Asked
    <3>5. Asked(i, dup'[a][i]) /\ Asked(i, volatile_storage'[a][i])
      BY ZenonT(40), <1>2, <1>5, <1>6, <3>4 DEF Asked
    <3>6. /\ disk'[a][i].promise_ballot.proposer_id <= MaxProposerId
          /\ dup'[a][i].promise_ballot.proposer_id <= MaxProposerId
      <4>1. EmptyInfo.promise_ballot.proposer_id <= MaxProposerId
        BY WriteAheadAssumption DEF EmptyInfo, INVALID_BALLOT
      <4> QED  BY Zenon, <1>2, <1>6, <1>7, <2>1, <2>4, <4>1 DEF RecordInv, StoresInv
    <3>7. StoresInv(a, i)'
      BY Zenon, <3>4, <3>5, <3>6 DEF StoresInv, Asked
    <3>8. MirrorInv(a, i)'
      <4>1. CASE i \in renewed
        BY Zenon, <1>2, <1>5, <1>6, <1>7, <1>13, <3>1, <4>1 DEF MirrorInv
      <4>2. CASE i \in read /\ i \notin renewed
        BY Zenon, <1>4, <1>5, <1>6, <1>7, <4>2 DEF MirrorInv
      <4>3. CASE i \notin read
        BY Zenon, <1>5, <1>6, <1>8, <1>13, <1>14, <4>3 DEF MirrorInv
      <4> QED  BY Zenon, <4>1, <4>2, <4>3
    <3>9. i \in Intact(a)' => /\ Bounds(disk[a][i].promise_ballot, a, i)
                              /\ Bounds(disk'[a][i].promise_ballot, a, i)
      <4>1. disk[a][i].promise_ballot \in Ballot /\ disk'[a][i].promise_ballot \in Ballot
        <5>1. disk'[a][i] \in InstanceInfo
          BY Zenon, <1>7
        <5> QED  BY Zenon, <1>0, <5>1, RecordTypes DEF InstanceInfo
      <4>2. i \in Intact(a)' => Bounds(disk[a][i].promise_ballot, a, i)
        BY Zenon, <2>1, <2>4, <3>2 DEF RecordInv, AckedInv
      <4> QED  BY Zenon, <3>3, <4>1, <4>2, BoundsAbove
    <3>10. i > trim_instance'[a] => volatile_storage'[a][i] = disk[a][i]
      BY Zenon, <1>5, <1>8, <1>14
    <3>11. AckedInv(a, i)'
      BY Zenon, <2>1, <2>2, <2>4, <3>2, <3>3, <3>9, <3>10 DEF RecordInv, AckedInv, Bounds
    <3>12. ReportsInv(a, i)'
      BY Zenon, <2>1, <2>2, <2>4, <3>2, <3>3 DEF RecordInv, ReportsInv
    <3>13. GroundedInv(a, i)'
      BY Zenon, <1>8 DEF GroundedInv
    <3> QED  BY Zenon, <2>4, <3>7, <3>8, <3>11, <3>12, <3>13 DEF RecordInv
  <2> QED  BY Zenon, <2>3, <2>4
<1> QED  BY Zenon, <1>10, <1>11 DEF IInv

(* The invariant holds when the acceptors start with empty stores.         *)
LEMMA InitIInv == Init => IInv
<1> SUFFICES ASSUME Init PROVE IInv
  BY Zenon
<1>1. EmptyInfo \in InstanceInfo
  BY InvalidIsLeast DEF EmptyInfo, InstanceInfo
<1>2. /\ EmptyInfo.promise_ballot = INVALID_BALLOT /\ EmptyInfo.value_ballot = INVALID_BALLOT
      /\ EmptyInfo.value = NULL
      /\ EmptyInfo.promise_ballot.proposer_id <= MaxProposerId
  BY WriteAheadAssumption DEF EmptyInfo, INVALID_BALLOT
<1>3. AccInit /\ promises = {} /\ votes = {} /\ told = {}
  BY Zenon DEF Init
<1>4. AccTypeOK
  BY Zenon, <1>1, <1>3, 0 \in Nat DEF AccInit, AccTypeOK
<1>5. TypeOK /\ MessagesInv
  BY Zenon, <1>3, <1>4 DEF Init, TypeOK, MessagesInv
<1>6. ASSUME NEW a \in Acceptors, NEW i \in Instances
      PROVE  RecordInv(a, i)
  <2>1. /\ disk[a][i] = EmptyInfo /\ dup[a][i] = EmptyInfo
        /\ volatile_storage[a][i] = EmptyInfo /\ chosen[a] = {}
    BY Zenon, <1>3 DEF AccInit
  <2>2. PromisesOf(a, i) = {} /\ VotesOf(a, i) = {}
    BY Zenon, <1>3 DEF PromisesOf, VotesOf
  <2>3. StoresInv(a, i) /\ MirrorInv(a, i) /\ ReportsInv(a, i) /\ GroundedInv(a, i)
    BY Zenon, <1>2, <2>1, <2>2 DEF StoresInv, Asked, MirrorInv, ReportsInv, GroundedInv
  <2>4. AckedInv(a, i)
    BY Zenon, <1>2, <2>1, <2>2, InvalidIsLeast DEF AckedInv, Bounds, geq
  <2> QED  BY Zenon, <2>3, <2>4 DEF RecordInv
<1> QED  BY Zenon, <1>5, <1>6 DEF IInv

(* Every step keeps the invariant.                                         *)
LEMMA NextKeepsIInv == IInv /\ [Next]_vars => IInv'
<1> SUFFICES ASSUME IInv, [Next]_vars PROVE IInv'
  BY Zenon
<1>1. CASE Next
  <2>1. PICK a \in Acceptors, st \in StorageOutcomes :
          \/ \E r \in PrepareRequests : HandlePrepare(a, r[1], r[2], st)
          \/ \E r \in AcceptRequests : HandleAccept(a, r[1], r[2], r[3], st)
          \/ \E from, to \in Instances : HandleRepeat(a, from, to)
          \/ \E r \in ChosenNotices : HandleChosen(a, r[1], r[2], r[3], st)
          \/ \E i \in TrimNotices : HandleTrim(a, i, st)
          \/ CheckBallotWindowEvent(a)
          \/ WriteBallotEvent(a)
          \/ RestartAcceptor(a, st)
    BY Zenon, <1>1 DEF Next
  <2>2. CASE CheckBallotWindowEvent(a)
    <3>1. checking \in [Acceptors -> BOOLEAN] /\ writing \in [Acceptors -> BOOLEAN]
      BY Zenon DEF IInv, TypeOK
    <3>2. checking' \in [Acceptors -> BOOLEAN] /\ writing' \in [Acceptors -> BOOLEAN]
      BY SMT, <2>2, <3>1 DEF CheckBallotWindowEvent
    <3>3. UNCHANGED <<accVars, promises, votes, told>>
      BY Zenon, <2>2 DEF CheckBallotWindowEvent
    <3> QED  BY Zenon, <3>2, <3>3, StutterKeepsIInv
  <2> QED
    BY Zenon, <2>1, <2>2, PrepareKeepsIInv, AcceptKeepsIInv, RepeatKeepsIInv,
       ChosenKeepsIInv, TrimKeepsIInv, WriteKeepsIInv, RestartKeepsIInv
<1>2. CASE UNCHANGED vars
  BY Zenon, <1>2, StutterKeepsIInv DEF IInv, TypeOK, vars, timers
<1> QED  BY Zenon, <1>1, <1>2

-----------------------------------------------------------------------------
(* The inductive invariant holds in every reachable state.                 *)
THEOREM Invariance == Spec => []IInv
<1> QED  BY PTL, InitIInv, NextKeepsIInv DEF Spec

(* State and messages keep their types through all handlers, both timers,  *)
(* failed transactions and restarts.                                       *)
THEOREM TypeCorrect == Spec => []TypeOK
<1>1. IInv => TypeOK
  BY Zenon DEF IInv
<1> QED  BY PTL, <1>1, Invariance

(* The copy in memory (stable_storage_duplicate) is the record on disk,    *)
(* for every instance that is not trimmed, until a commit fails, the timer *)
(* writes outside a transaction or a lower trim takes the instance back.   *)
THEOREM DuplicateMirrors == Spec => []DuplicateMirrorsDisk
<1>1. IInv => DuplicateMirrorsDisk
  BY Zenon DEF IInv, RecordInv, MirrorInv, Written, DuplicateMirrorsDisk
<1> QED  BY PTL, <1>1, Invariance

(* Every promise and vote that was ever sent is at or below the promise on *)
(* disk, over any number of restarts, although write_ahead_window_acceptor *)
(* writes almost none of them.                                             *)
THEOREM PromisesWrittenAhead == Spec => []WrittenAhead
<1>1. IInv => WrittenAhead
  BY Zenon DEF IInv, TypeOK, RecordInv, AckedInv, Bounds, PromisesOf, VotesOf, WrittenAhead, geq
<1> QED  BY PTL, <1>1, Invariance

(* The promises of the write-ahead acceptor keep Paxos safe: one for a     *)
(* ballot reports a vote at least as high as every vote below it the       *)
(* acceptor casts, before it or after it, with restarts in between.        *)
THEOREM PromisesReportVotes == Spec => []PromiseReportsVotes
<1>1. IInv => PromiseReportsVotes
  <2> SUFFICES ASSUME IInv, NEW p \in promises, NEW w \in votes,
                      p.aid = w.aid, p.iid = w.iid, p.iid \in Intact(p.aid),
                      ballot_greater_than(p.ballot, w.ballot)
               PROVE  ballot_greater_than_or_equal(p.value_ballot, w.ballot)
    BY Zenon DEF PromiseReportsVotes
  <2>1. p.aid \in Acceptors /\ p.iid \in Instances /\ p.ballot \in Ballot /\ w.ballot \in Ballot
    BY Zenon DEF IInv, TypeOK, MessagesInv
  <2>2. geq(w.ballot, p.ballot) \/ geq(p.value_ballot, w.ballot)
    BY Zenon, <2>1 DEF IInv, RecordInv, ReportsInv, PromisesOf, VotesOf
  <2> QED  BY Zenon, <2>1, <2>2, GeqTotal DEF geq
<1> QED  BY PTL, <1>1, Invariance

(* What a CHOSEN answer tells, from whichever of its two stores, is a      *)
(* choice the acceptor was told of or a vote of its own not below one.     *)
THEOREM ChosenAnswersGrounded == Spec => []ChosenAnswerGrounded
<1>1. IInv => ChosenAnswerGrounded
  <2> SUFFICES ASSUME IInv, NEW a \in Acceptors,
                      NEW i \in chosen[a] \ (unwritten[a] \cup reopened[a])
               PROVE  /\ i > trim_instance[a] => dup[a][i].value = volatile_storage[a][i].value
                      /\ \E t \in told :
                           /\ t.aid = a /\ t.iid = i
                           /\ geq(volatile_storage[a][i].value_ballot, t.ballot)
                           /\ \/ t.value = volatile_storage[a][i].value
                              \/ ballot_greater_than(volatile_storage[a][i].value_ballot, t.ballot)
    BY Zenon DEF ChosenAnswerGrounded, geq
  <2>1. i \in Instances /\ i \in Written(a)
    BY Zenon DEF IInv, TypeOK, AccTypeOK, Written
  <2> QED  BY Zenon, <2>1 DEF IInv, RecordInv, MirrorInv, GroundedInv
<1> QED  BY PTL, <1>1, Invariance
=============================================================================
