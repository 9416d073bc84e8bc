---------------------- MODULE EvStandardAcceptorProofs ----------------------
(***************************************************************************)
(* The properties of EvStandardAcceptor for every set of acceptors,        *)
(* instances, ballots, values and requests, and every backlog: the         *)
(* inductive invariant, the lemmas about the operators it is built from,   *)
(* and that each handler keeps it.                                         *)
(***************************************************************************)
EXTENDS EvStandardAcceptor, PaxosLemmas

geq(b, c) == ballot_greater_than_or_equal(b, c)

(* A record holds a vote, or no vote.                                      *)
VoteOK(info) ==
  \/ info.value_ballot = INVALID_BALLOT
  \/ info.value_ballot \in Ballots /\ info.value \in Values

(* What holds of one record, in memory and on disk.                        *)
RecordInv(a, i) ==
  /\ VoteOK(mem[a][i]) /\ VoteOK(disk[a][i])
  /\ i \notin chosen[a] => geq(mem[a][i].promise_ballot, mem[a][i].value_ballot)
  /\ geq(disk[a][i].promise_ballot, disk[a][i].value_ballot)
  /\ i <= trim_iid[a] /\ i \notin chosen[a] => mem[a][i] = EmptyInfo
  /\ ~ Settled(a, i) /\ i \notin wiped[a] =>
       geq(mem[a][i].promise_ballot, disk[a][i].promise_ballot)
  /\ ~ Settled(a, i) /\ i \in Intact(a) => mem[a][i] = disk[a][i]

RecordsInv == \A a \in Acceptors, i \in Instances : RecordInv(a, i)

(* Every trim is the one ReceiveChosen makes: a TRIM message never moves   *)
(* trim_iid, because the chosen prefix never runs ahead of it.             *)
TrimInv ==
  /\ \A a \in Acceptors : trim_iid[a] = min_chosen_instance[a]
  /\ \A a \in Acceptors, i \in Instances :
       i <= trim_iid[a] \/ i \in chosen[a] => \E t \in told : t.aid = a /\ t.iid = i

(* PromiseReportsVotes with the vote on disk in the place of the vote sent. *)
PromiseReportsDisk ==
  \A p \in promises :
    /\ p.iid \in Intact(p.aid)
    /\ ballot_greater_than(p.ballot, disk[p.aid][p.iid].value_ballot)
    => geq(p.value_ballot, disk[p.aid][p.iid].value_ballot)

IInv ==
  /\ TypeOK
  /\ RecordsInv
  /\ TrimInv
  /\ ChosenAnswerIsTold
  /\ AcksDurable
  /\ PromiseReportsDisk
  /\ PromiseReportsVotes

-----------------------------------------------------------------------------
(* What a prepare sends: a promise exactly when it was committed.          *)
PromiseMsg(a, i, b) ==
  [type |-> "PROMISE", aid |-> a, iid |-> i, ballot |-> b,
   value_ballot |-> mem[a][i].value_ballot,
   value |-> IF ballot_greater_than(mem[a][i].value_ballot, INVALID_BALLOT)
             THEN mem[a][i].value ELSE NULL]

(* What the reply to a PREPARE adds to the promises: nothing, or one       *)
(* promise that carries the vote on record.                                *)
LEMMA PrepareSends ==
  ASSUME TypeOK, NEW a \in Acceptors, NEW i \in Instances, NEW b, NEW st,
         Send(PrepareReply(a, i, b, st))
  PROVE  /\ votes' = votes
         /\ \/ promises' = promises
            \/ /\ ~ Settled(a, i) /\ SafeToAcknowledge(a, i, b) /\ st = "committed"
               /\ promises' = promises \cup {PromiseMsg(a, i, b)}
<1> DEFINE R == PrepareReply(a, i, b, st)
<1>0. i \in Nat /\ trim_iid[a] \in Nat
  BY AcceptorAssumption DEF TypeOK, AccTypeOK
<1>1. CASE i <= trim_iid[a]
  <2>1. R = {TrimMsg(a)}
    BY <1>0, <1>1 DEF PrepareReply, Settled
  <2> QED  BY <2>1 DEF Send, ofType, TrimMsg
<1>2. CASE i > trim_iid[a] /\ i \in chosen[a]
  <2>1. R = {ChosenMsg(a, i)}
    BY <1>0, <1>2 DEF PrepareReply, Settled
  <2> QED  BY <2>1 DEF Send, ofType, ChosenMsg
<1>3. CASE ~ Settled(a, i) /\ ~ SafeToAcknowledge(a, i, b)
  <2>1. R = {PreemptedMsg(a, i, b)}
    BY Zenon, <1>0, <1>3 DEF PrepareReply, Settled
  <2> QED  BY <2>1 DEF Send, ofType, PreemptedMsg
<1>4. CASE ~ Settled(a, i) /\ SafeToAcknowledge(a, i, b) /\ st = "committed"
  <2>1. R = {PromiseMsg(a, i, b)}
    BY Zenon, <1>0, <1>4 DEF PrepareReply, Settled, PromiseMsg
  <2> QED  BY <1>4, <2>1 DEF Send, ofType, PromiseMsg
<1>5. CASE ~ Settled(a, i) /\ SafeToAcknowledge(a, i, b) /\ st # "committed"
  <2>1. R = {}
    BY Zenon, <1>0, <1>5 DEF PrepareReply, Settled
  <2> QED  BY Zenon, <2>1 DEF Send, ofType
<1> QED  BY <1>0, <1>1, <1>2, <1>3, <1>4, <1>5 DEF Settled

(* What an accept sends: a vote exactly when it was committed.             *)
LEMMA AcceptSends ==
  ASSUME TypeOK, NEW a \in Acceptors, NEW i \in Instances, NEW b, NEW v, NEW st,
         Send(AcceptReply(a, i, b, v, st))
  PROVE  /\ promises' = promises
         /\ \/ votes' = votes
            \/ /\ ~ Settled(a, i) /\ SafeToAcknowledge(a, i, b) /\ st = "committed"
               /\ votes' = votes \cup {AcceptedMsg(a, i, b, v)}
<1> DEFINE R == AcceptReply(a, i, b, v, st)
<1>0. i \in Nat /\ trim_iid[a] \in Nat
  BY AcceptorAssumption DEF TypeOK, AccTypeOK
<1>1. CASE i <= trim_iid[a]
  <2>1. R = {TrimMsg(a)}
    BY <1>0, <1>1 DEF AcceptReply, Settled
  <2> QED  BY <2>1 DEF Send, ofType, TrimMsg
<1>2. CASE i > trim_iid[a] /\ i \in chosen[a]
  <2>1. R = {ChosenMsg(a, i)}
    BY <1>0, <1>2 DEF AcceptReply, Settled
  <2> QED  BY <2>1 DEF Send, ofType, ChosenMsg
<1>3. CASE ~ Settled(a, i) /\ ~ SafeToAcknowledge(a, i, b)
  <2>1. R = {PreemptedMsg(a, i, b)}
    BY Zenon, <1>0, <1>3 DEF AcceptReply, Settled
  <2> QED  BY <2>1 DEF Send, ofType, PreemptedMsg
<1>4. CASE ~ Settled(a, i) /\ SafeToAcknowledge(a, i, b) /\ st = "committed"
  <2>1. R = {AcceptedMsg(a, i, b, v)}
    BY Zenon, <1>0, <1>4 DEF AcceptReply, Settled
  <2> QED  BY <1>4, <2>1 DEF Send, ofType, AcceptedMsg
<1>5. CASE ~ Settled(a, i) /\ SafeToAcknowledge(a, i, b) /\ st # "committed"
  <2>1. R = {}
    BY Zenon, <1>0, <1>5 DEF AcceptReply, Settled
  <2> QED  BY Zenon, <2>1 DEF Send, ofType
<1> QED  BY <1>0, <1>1, <1>2, <1>3, <1>4, <1>5 DEF Settled

-----------------------------------------------------------------------------
(* An acknowledged ballot is at least as high as the promise in memory.    *)
LEMMA SafeGeq ==
  ASSUME TypeOK, NEW a \in Acceptors, NEW i \in Instances, NEW b \in Ballot,
         SafeToAcknowledge(a, i, b)
  PROVE  geq(b, mem[a][i].promise_ballot)
<1>1. mem[a][i].promise_ballot \in Ballot /\ INVALID_BALLOT \in Ballot
  BY DEF TypeOK, AccTypeOK, InstanceInfo, INVALID_BALLOT, Ballot
<1>2. CASE Found(a, i)
  BY Zenon, <1>2 DEF SafeToAcknowledge, geq
<1>3. CASE ~ Found(a, i)
  <2>1. geq(INVALID_BALLOT, mem[a][i].promise_ballot)
    BY Zenon, <1>1, <1>3, GeqTotal DEF Found, geq
  <2> QED  BY Zenon, <1>1, <2>1, GeqTransitive, InvalidIsLeast DEF geq
<1> QED  BY Zenon, <1>2, <1>3

(* The parts of the invariant that speak of the stores alone survive the   *)
(* write of a record that has a promise above its vote and above the       *)
(* promise in memory; the promise on disk never goes down.                 *)
LEMMA StoreKeepsRecords ==
  ASSUME IInv, NEW a \in Acceptors, NEW i \in Instances, NEW info \in InstanceInfo, NEW st,
         ~ Settled(a, i), VoteOK(info),
         geq(info.promise_ballot, info.value_ballot),
         geq(info.promise_ballot, mem[a][i].promise_ballot),
         StoreInstanceInfo(a, i, info, st), told' = told
  PROVE  /\ AccTypeOK' /\ RecordsInv' /\ TrimInv' /\ ChosenAnswerIsTold'
         /\ \A c \in Acceptors, j \in Instances :
              j \notin wiped[c] => geq(disk'[c][j].promise_ballot, disk[c][j].promise_ballot)
<1>1. AccTypeOK'
  <2>1. mem' \in [Acceptors -> [Instances -> InstanceInfo]]
    <3>1. mem' = mem \/ mem' = [mem EXCEPT ![a][i] = info]
      BY Zenon DEF StoreInstanceInfo
    <3>2. mem \in [Acceptors -> [Instances -> InstanceInfo]]
      BY Zenon DEF IInv, TypeOK, AccTypeOK
    <3> QED  BY <3>1, <3>2
  <2>2. disk' \in [Acceptors -> [Instances -> InstanceInfo]]
    <3>1. disk' = disk \/ disk' = [disk EXCEPT ![a][i] = info]
      BY Zenon DEF StoreInstanceInfo
    <3>2. disk \in [Acceptors -> [Instances -> InstanceInfo]]
      BY Zenon DEF IInv, TypeOK, AccTypeOK
    <3> QED  BY <3>1, <3>2
  <2>3. uncommitted' \in [Acceptors -> SUBSET Instances]
    <3>1. \/ uncommitted' = uncommitted
          \/ uncommitted' = [uncommitted EXCEPT ![a] = @ \cup {i}]
      BY Zenon DEF StoreInstanceInfo
    <3> QED  BY <3>1 DEF IInv, TypeOK, AccTypeOK
  <2> QED  BY Zenon, <2>1, <2>2, <2>3 DEF IInv, TypeOK, AccTypeOK, StoreInstanceInfo
<1>2. TrimInv'
  BY DEF IInv, TrimInv, StoreInstanceInfo
<1>3. \A c \in Acceptors, j \in Instances : c # a \/ j # i =>
        /\ mem'[c][j] = mem[c][j] /\ disk'[c][j] = disk[c][j]
        /\ j \in uncommitted'[c] <=> j \in uncommitted[c]
  BY DEF IInv, TypeOK, AccTypeOK, StoreInstanceInfo
<1>4. trim_iid' = trim_iid /\ chosen' = chosen /\ wiped' = wiped
  BY Zenon DEF StoreInstanceInfo
<1>5. \/ mem'[a][i] = info /\ disk'[a][i] = info
      \/ mem'[a][i] = info /\ disk'[a][i] = disk[a][i] /\ i \in uncommitted'[a]
      \/ /\ mem'[a][i] = mem[a][i] /\ disk'[a][i] = disk[a][i]
         /\ uncommitted' = uncommitted
  BY DEF IInv, TypeOK, AccTypeOK, StoreInstanceInfo
<1>6. i \notin chosen[a]
  BY Zenon DEF Settled
<1>7. ChosenAnswerIsTold'
  BY <1>3, <1>4, <1>6 DEF IInv, TypeOK, AccTypeOK, ChosenAnswerIsTold
<1>8. ASSUME NEW c \in Acceptors, NEW j \in Instances
      PROVE  /\ RecordInv(c, j)'
             /\ j \notin wiped[c] => geq(disk'[c][j].promise_ballot, disk[c][j].promise_ballot)
  <2>1. RecordInv(c, j)
    BY Zenon DEF IInv, RecordsInv
  <2>2. /\ info.promise_ballot \in Ballot
        /\ mem[c][j].promise_ballot \in Ballot /\ disk[c][j].promise_ballot \in Ballot
    BY Zenon DEF IInv, TypeOK, AccTypeOK, InstanceInfo
  <2>3. geq(disk[c][j].promise_ballot, disk[c][j].promise_ballot)
    BY Zenon, <2>2, GeqReflexive DEF geq
  <2>4. CASE c # a \/ j # i
    BY Zenon, <1>3, <1>4, <2>1, <2>3, <2>4 DEF RecordInv, Settled, Intact, VoteOK
  <2>5. CASE c = a /\ j = i
    <3>1. j \notin wiped[c] => geq(info.promise_ballot, disk[c][j].promise_ballot)
      BY Zenon, <2>1, <2>2, <2>5, GeqTransitive DEF RecordInv, geq
    <3>2. geq(info.promise_ballot, info.promise_ballot)
      BY Zenon, <2>2, GeqReflexive DEF geq
    <3> QED  BY Zenon, <1>4, <1>5, <1>6, <2>1, <2>3, <2>5, <3>1, <3>2
             DEF RecordInv, Settled, Intact, VoteOK
  <2> QED  BY Zenon, <2>4, <2>5
<1> QED  BY Zenon, <1>1, <1>2, <1>7, <1>8 DEF RecordsInv

-----------------------------------------------------------------------------
(* Nothing changes when no store and no message does.                      *)
LEMMA StutterKeepsIInv ==
  ASSUME IInv, UNCHANGED vars
  PROVE  IInv'
<1> USE DEF vars, accVars
<1>1. TypeOK'  BY Zenon DEF IInv, TypeOK, AccTypeOK
<1>2. RecordsInv'  BY DEF IInv, RecordsInv, RecordInv, VoteOK, Settled, Intact
<1>3. TrimInv' /\ ChosenAnswerIsTold'  BY Zenon DEF IInv, TrimInv, ChosenAnswerIsTold
<1>4. AcksDurable' /\ PromiseReportsDisk' /\ PromiseReportsVotes'
  BY Zenon DEF IInv, AcksDurable, PromiseReportsDisk, PromiseReportsVotes, Intact
<1> QED  BY Zenon, <1>1, <1>2, <1>3, <1>4 DEF IInv

(* The types behind a promise, a vote and a record.                        *)
LEMMA BallotTypes ==
  ASSUME TypeOK
  PROVE  /\ \A p \in promises : /\ p.aid \in Acceptors /\ p.iid \in Instances
                                /\ p.ballot \in Ballot /\ p.value_ballot \in Ballot
         /\ \A w \in votes : /\ w.aid \in Acceptors /\ w.iid \in Instances
                             /\ w.ballot \in Ballot
         /\ \A a \in Acceptors, i \in Instances :
              /\ mem[a][i] \in InstanceInfo /\ disk[a][i] \in InstanceInfo
              /\ mem[a][i].promise_ballot \in Ballot /\ mem[a][i].value_ballot \in Ballot
              /\ disk[a][i].promise_ballot \in Ballot /\ disk[a][i].value_ballot \in Ballot
BY RequestsAssumption DEF TypeOK, AccTypeOK, InstanceInfo, Promise, Vote

(* More notices told refute nothing.                                       *)
LEMMA ToldGrows ==
  ASSUME IInv, UNCHANGED <<accVars, promises, votes>>, told \subseteq told', told' \subseteq Told
  PROVE  IInv'
<1>0. UNCHANGED accVars /\ promises' = promises /\ votes' = votes
  BY Zenon
<1>1. /\ trim_iid' = trim_iid /\ mem' = mem /\ chosen' = chosen
      /\ min_chosen_instance' = min_chosen_instance /\ disk' = disk
      /\ wiped' = wiped /\ uncommitted' = uncommitted
  BY Zenon, <1>0 DEF accVars
<1>2. TypeOK'
  BY Zenon, <1>0, <1>1 DEF IInv, TypeOK, AccTypeOK
<1>3. RecordsInv'
  BY Zenon, <1>1 DEF IInv, RecordsInv, RecordInv, Settled, Intact
<1>4. TrimInv' /\ ChosenAnswerIsTold'
  <2>1. ASSUME NEW a \in Acceptors, NEW i \in Instances, i <= trim_iid[a] \/ i \in chosen[a]
        PROVE  \E t \in told' : t.aid = a /\ t.iid = i
    <3>1. PICK t \in told : t.aid = a /\ t.iid = i
      BY Zenon, <2>1 DEF IInv, TrimInv
    <3> QED  BY Zenon, <3>1
  <2>2. TrimInv'
    BY ZenonT(40), <1>1, <2>1 DEF IInv, TrimInv
  <2>3. ChosenAnswerIsTold'
    BY Zenon, <1>1 DEF IInv, ChosenAnswerIsTold
  <2> QED  BY Zenon, <2>2, <2>3
<1>5. AcksDurable' /\ PromiseReportsDisk' /\ PromiseReportsVotes'
  BY Zenon, <1>0, <1>1 DEF IInv, AcksDurable, PromiseReportsDisk, PromiseReportsVotes, Intact
<1> QED  BY Zenon, <1>2, <1>3, <1>4, <1>5 DEF IInv

(* ReceivePrepare keeps the invariant, whether it promises, refuses or     *)
(* answers that the instance was chosen.                                   *)
LEMMA ReceivePrepareKeepsIInv ==
  ASSUME IInv, NEW a \in Acceptors, NEW i \in Instances, NEW b \in Ballots, NEW st,
         ReceivePrepare(a, i, b, st), told' = told, votes' = votes,
         \/ promises' = promises
         \/ /\ ~ Settled(a, i) /\ SafeToAcknowledge(a, i, b) /\ st = "committed"
            /\ promises' = promises \cup {PromiseMsg(a, i, b)}
  PROVE  IInv'
<1> DEFINE info == [mem[a][i] EXCEPT !.promise_ballot = b]
<1>0. TypeOK /\ b \in Ballot /\ RecordInv(a, i)
  BY Zenon, RequestsAssumption DEF IInv, RecordsInv
<1>1. told' = told
  OBVIOUS
<1>2. /\ votes' = votes
      /\ \/ promises' = promises
         \/ /\ ~ Settled(a, i) /\ SafeToAcknowledge(a, i, b) /\ st = "committed"
            /\ promises' = promises \cup {PromiseMsg(a, i, b)}
  BY Zenon
<1>3. CASE UNCHANGED accVars /\ st = "not_stored"
  BY Zenon, <1>1, <1>2, <1>3, StutterKeepsIInv DEF vars
<1>4. CASE /\ ~ Settled(a, i) /\ SafeToAcknowledge(a, i, b)
           /\ StoreInstanceInfo(a, i, info, st)
  <2>1. /\ info \in InstanceInfo /\ info.promise_ballot = b
        /\ info.value_ballot = mem[a][i].value_ballot /\ info.value = mem[a][i].value
    BY <1>0, BallotTypes DEF InstanceInfo
  <2> HIDE DEF info
  <2>2. geq(b, mem[a][i].promise_ballot)
    BY Zenon, <1>0, <1>4, SafeGeq
  <2>3. geq(b, mem[a][i].value_ballot)
    BY Zenon, <1>0, <1>4, <2>2, BallotTypes, GeqTransitive DEF RecordInv, Settled, geq
  <2>4. VoteOK(info)
    BY Zenon, <1>0, <2>1 DEF RecordInv, VoteOK
  <2>5. /\ AccTypeOK' /\ RecordsInv' /\ TrimInv' /\ ChosenAnswerIsTold'
        /\ \A c \in Acceptors, j \in Instances :
             j \notin wiped[c] => geq(disk'[c][j].promise_ballot, disk[c][j].promise_ballot)
    BY Zenon, <1>1, <1>4, <2>1, <2>2, <2>3, <2>4, StoreKeepsRecords
  <2>6. PromiseMsg(a, i, b) \in Promise
    BY Zenon, <1>0, BallotTypes DEF PromiseMsg, Promise, InstanceInfo
  <2>7. TypeOK'
    BY Zenon, <1>1, <1>2, <2>5, <2>6 DEF IInv, TypeOK
  <2>8. \A c \in Acceptors, j \in Instances :
          /\ j \in Intact(c)' => j \in Intact(c)
          /\ j \in Intact(c)' => disk'[c][j].value_ballot = disk[c][j].value_ballot
    <3>1. RecordInv(a, i) /\ ~ Settled(a, i)
      BY Zenon, <1>0, <1>4
    <3>2. wiped' = wiped /\ \A c \in Acceptors : uncommitted[c] \subseteq uncommitted'[c]
      BY Zenon, <1>4 DEF StoreInstanceInfo, IInv, TypeOK, AccTypeOK
    <3>3. \A c \in Acceptors, j \in Instances :
            \/ disk'[c][j] = disk[c][j]
            \/ c = a /\ j = i /\ disk'[c][j] = info
      BY <1>4 DEF StoreInstanceInfo, IInv, TypeOK, AccTypeOK
    <3> QED  BY Zenon, <2>1, <3>1, <3>2, <3>3 DEF Intact, RecordInv
  <2>9. st = "committed" => disk'[a][i] = info /\ Intact(a)' = Intact(a) /\ wiped' = wiped
    BY <1>4 DEF StoreInstanceInfo, IInv, TypeOK, AccTypeOK, Intact
  <2>10. wiped' = wiped
    BY Zenon, <1>4 DEF StoreInstanceInfo
  <2>11. AcksDurable'
    <3>1. ASSUME NEW p \in promises', p.iid \notin wiped'[p.aid]
          PROVE  geq(disk'[p.aid][p.iid].promise_ballot, p.ballot)
      <4>1. CASE p \in promises
        <5>1. p.aid \in Acceptors /\ p.iid \in Instances /\ p.ballot \in Ballot
          BY Zenon, <1>0, <4>1, BallotTypes
        <5>2. geq(disk[p.aid][p.iid].promise_ballot, p.ballot)
          BY Zenon, <2>10, <3>1, <4>1 DEF IInv, AcksDurable, geq
        <5>3. /\ disk[p.aid][p.iid].promise_ballot \in Ballot
              /\ disk'[p.aid][p.iid].promise_ballot \in Ballot
          BY <2>7, <5>1 DEF IInv, TypeOK, AccTypeOK, InstanceInfo
        <5> QED  BY Zenon, <2>5, <2>10, <3>1, <5>1, <5>2, <5>3, GeqTransitive DEF geq
      <4>2. CASE st = "committed" /\ p = PromiseMsg(a, i, b)
        BY Zenon, <1>0, <2>1, <2>9, <4>2, GeqReflexive DEF PromiseMsg, geq
      <4> QED  BY Zenon, <1>2, <4>1, <4>2
    <3>2. ASSUME NEW w \in votes', w.iid \in Intact(w.aid)'
          PROVE  /\ geq(disk'[w.aid][w.iid].promise_ballot, w.ballot)
                 /\ geq(disk'[w.aid][w.iid].value_ballot, w.ballot)
      <4>1. w \in votes /\ w.aid \in Acceptors /\ w.iid \in Instances /\ w.ballot \in Ballot
        BY Zenon, <1>0, <1>2, BallotTypes
      <4>2. w.iid \in Intact(w.aid) /\ w.iid \notin wiped[w.aid]
        BY Zenon, <2>8, <3>2, <4>1 DEF Intact
      <4>3. /\ geq(disk[w.aid][w.iid].promise_ballot, w.ballot)
            /\ geq(disk[w.aid][w.iid].value_ballot, w.ballot)
        BY Zenon, <4>1, <4>2 DEF IInv, AcksDurable, geq
      <4>4. /\ disk[w.aid][w.iid].promise_ballot \in Ballot
            /\ disk'[w.aid][w.iid].promise_ballot \in Ballot
        BY <2>7, <4>1 DEF IInv, TypeOK, AccTypeOK, InstanceInfo
      <4> QED  BY SMTT(40), <2>5, <2>8, <3>2, <4>1, <4>2, <4>3, <4>4, GeqTransitive DEF geq
    <3> QED  BY Zenon, <3>1, <3>2 DEF AcksDurable, geq
  <2>12. PromiseReportsDisk'
    <3> SUFFICES ASSUME NEW p \in promises', p.iid \in Intact(p.aid)',
                        ballot_greater_than(p.ballot, disk'[p.aid][p.iid].value_ballot)
                 PROVE  geq(p.value_ballot, disk'[p.aid][p.iid].value_ballot)
      BY Zenon DEF PromiseReportsDisk
    <3>1. CASE p \in promises
      BY Zenon, <1>0, <2>8, <3>1, BallotTypes DEF IInv, PromiseReportsDisk
    <3>2. CASE st = "committed" /\ p = PromiseMsg(a, i, b)
      BY Zenon, <1>0, <2>1, <2>9, <3>2, BallotTypes, GeqReflexive DEF PromiseMsg, geq
    <3> QED  BY Zenon, <1>2, <3>1, <3>2
  <2>13. PromiseReportsVotes'
    <3> SUFFICES ASSUME NEW p \in promises', NEW w \in votes',
                        p.aid = w.aid, p.iid = w.iid, p.iid \in Intact(p.aid)',
                        ballot_greater_than(p.ballot, w.ballot)
                 PROVE  geq(p.value_ballot, w.ballot)
      BY Zenon DEF PromiseReportsVotes, geq
    <3>0. w \in votes /\ w.aid \in Acceptors /\ w.iid \in Instances /\ w.ballot \in Ballot
      BY Zenon, <1>0, <1>2, BallotTypes
    <3>1. CASE p \in promises
      BY Zenon, <2>8, <3>0, <3>1 DEF IInv, PromiseReportsVotes, geq
    <3>2. CASE st = "committed" /\ p = PromiseMsg(a, i, b)
      <4>1. i \in Intact(a) /\ p.value_ballot = mem[a][i].value_ballot /\ w.aid = a /\ w.iid = i
        BY Zenon, <2>9, <3>2 DEF PromiseMsg
      <4>2. mem[a][i] = disk[a][i]
        BY Zenon, <1>0, <1>4, <4>1 DEF RecordInv
      <4> QED  BY Zenon, <3>0, <4>1, <4>2 DEF IInv, AcksDurable, geq
    <3> QED  BY Zenon, <1>2, <3>1, <3>2
  <2> QED  BY Zenon, <2>5, <2>7, <2>11, <2>12, <2>13 DEF IInv
<1> QED  BY Zenon, <1>3, <1>4 DEF ReceivePrepare

(* So does the handler, which sends the answer.                            *)
LEMMA PrepareKeepsIInv ==
  ASSUME IInv, NEW a \in Acceptors, NEW i \in Instances, NEW b \in Ballots, NEW st,
         HandlePrepare(a, i, b, st)
  PROVE  IInv'
BY Zenon, ReceivePrepareKeepsIInv, PrepareSends DEF HandlePrepare, IInv

-----------------------------------------------------------------------------
(* ReceiveAccept keeps the invariant, whether it votes, refuses or answers *)
(* that the instance was chosen.                                           *)
LEMMA ReceiveAcceptKeepsIInv ==
  ASSUME IInv, NEW a \in Acceptors, NEW i \in Instances, NEW b \in Ballots,
         NEW v \in Values, NEW st, ReceiveAccept(a, i, b, v, st), told' = told,
         promises' = promises,
         \/ votes' = votes
         \/ /\ ~ Settled(a, i) /\ SafeToAcknowledge(a, i, b) /\ st = "committed"
            /\ votes' = votes \cup {AcceptedMsg(a, i, b, v)}
  PROVE  IInv'
<1> DEFINE info == [promise_ballot |-> b, value_ballot |-> b, value |-> v]
<1>0. TypeOK /\ b \in Ballot /\ RecordInv(a, i)
  BY Zenon, RequestsAssumption DEF IInv, RecordsInv
<1>1. told' = told
  OBVIOUS
<1>2. /\ promises' = promises
      /\ \/ votes' = votes
         \/ /\ ~ Settled(a, i) /\ SafeToAcknowledge(a, i, b) /\ st = "committed"
            /\ votes' = votes \cup {AcceptedMsg(a, i, b, v)}
  BY Zenon
<1>3. CASE UNCHANGED accVars /\ st = "not_stored"
  BY Zenon, <1>1, <1>2, <1>3, StutterKeepsIInv DEF vars
<1>4. CASE /\ ~ Settled(a, i) /\ SafeToAcknowledge(a, i, b)
           /\ StoreInstanceInfo(a, i, info, st)
  <2>1. /\ info \in InstanceInfo /\ info.promise_ballot = b
        /\ info.value_ballot = b /\ info.value = v /\ VoteOK(info)
    BY Zenon, <1>0 DEF InstanceInfo, VoteOK
  <2> HIDE DEF info
  <2>2. geq(b, mem[a][i].promise_ballot) /\ geq(b, b)
    BY Zenon, <1>0, <1>4, SafeGeq, GeqReflexive DEF geq
  <2>3. geq(b, mem[a][i].value_ballot)
    BY Zenon, <1>0, <1>4, <2>2, BallotTypes, GeqTransitive DEF RecordInv, Settled, geq
  <2>4. /\ AccTypeOK' /\ RecordsInv' /\ TrimInv' /\ ChosenAnswerIsTold'
        /\ \A c \in Acceptors, j \in Instances :
             j \notin wiped[c] => geq(disk'[c][j].promise_ballot, disk[c][j].promise_ballot)
    BY Zenon, <1>1, <1>4, <2>1, <2>2, StoreKeepsRecords
  <2>5. AcceptedMsg(a, i, b, v) \in Vote
    BY Zenon DEF AcceptedMsg, Vote
  <2>6. TypeOK'
    BY Zenon, <1>1, <1>2, <2>4, <2>5 DEF IInv, TypeOK
  <2>7. wiped' = wiped /\ \A c \in Acceptors : uncommitted[c] \subseteq uncommitted'[c]
    BY Zenon, <1>4 DEF StoreInstanceInfo, IInv, TypeOK, AccTypeOK
  <2>8. \A c \in Acceptors, j \in Instances :
          \/ disk'[c][j] = disk[c][j]
          \/ c = a /\ j = i /\ disk'[c][j] = info
    BY <1>4 DEF StoreInstanceInfo, IInv, TypeOK, AccTypeOK
  <2>9. \A c \in Acceptors, j \in Instances : j \in Intact(c)' =>
          j \in Intact(c) /\ j \notin wiped[c]
    BY Zenon, <2>7 DEF Intact
  <2>10. \A c \in Acceptors, j \in Instances : j \in Intact(c)' =>
          geq(disk'[c][j].value_ballot, disk[c][j].value_ballot)
    BY Zenon, <1>0, <1>4, <2>1, <2>3, <2>8, <2>9, BallotTypes, GeqReflexive DEF RecordInv, geq
  <2>11. st = "committed" => disk'[a][i] = info
    BY <1>4 DEF StoreInstanceInfo, IInv, TypeOK, AccTypeOK
  <2>12. \A c \in Acceptors, j \in Instances :
           /\ disk'[c][j].promise_ballot \in Ballot /\ disk'[c][j].value_ballot \in Ballot
    BY Zenon, <2>6 DEF TypeOK, AccTypeOK, InstanceInfo
  <2>13. ASSUME NEW p \in promises, p.aid = a, p.iid = i, i \in Intact(a)
         PROVE  ~ ballot_greater_than(p.ballot, b)
    <3>1. mem[a][i] = disk[a][i] /\ p.ballot \in Ballot /\ i \notin wiped[a]
      BY Zenon, <1>0, <1>4, <2>13, BallotTypes DEF RecordInv, Intact
    <3>2. geq(disk[a][i].promise_ballot, p.ballot)
      BY Zenon, <2>13, <3>1 DEF IInv, AcksDurable, geq
    <3> QED  BY Zenon, <1>0, <2>2, <3>1, <3>2, BallotTypes, GeqTransitive, GeqTotal DEF geq
  <2>14. AcksDurable'
    <3>1. ASSUME NEW p \in promises', p.iid \notin wiped'[p.aid]
          PROVE  geq(disk'[p.aid][p.iid].promise_ballot, p.ballot)
      <4>1. /\ p \in promises /\ p.aid \in Acceptors /\ p.iid \in Instances
            /\ p.ballot \in Ballot /\ p.iid \notin wiped[p.aid]
        BY Zenon, <1>0, <1>2, <2>7, <3>1, BallotTypes
      <4>2. geq(disk[p.aid][p.iid].promise_ballot, p.ballot)
        BY Zenon, <4>1 DEF IInv, AcksDurable, geq
      <4> QED  BY Zenon, <1>0, <2>4, <2>12, <4>1, <4>2, BallotTypes, GeqTransitive DEF geq
    <3>2. ASSUME NEW w \in votes', w.iid \in Intact(w.aid)'
          PROVE  /\ geq(disk'[w.aid][w.iid].promise_ballot, w.ballot)
                 /\ geq(disk'[w.aid][w.iid].value_ballot, w.ballot)
      <4>1. CASE w \in votes
        <5>1. w.aid \in Acceptors /\ w.iid \in Instances /\ w.ballot \in Ballot
          BY Zenon, <1>0, <4>1, BallotTypes
        <5>2. w.iid \in Intact(w.aid) /\ w.iid \notin wiped[w.aid]
          BY Zenon, <2>9, <3>2, <5>1
        <5>3. /\ geq(disk[w.aid][w.iid].promise_ballot, w.ballot)
              /\ geq(disk[w.aid][w.iid].value_ballot, w.ballot)
          BY Zenon, <4>1, <5>2 DEF IInv, AcksDurable, geq
        <5> QED  BY SMTT(40), <1>0, <2>4, <2>10, <2>12, <3>2, <5>1, <5>2, <5>3, BallotTypes, GeqTransitive
                 DEF geq
      <4>2. CASE st = "committed" /\ w = AcceptedMsg(a, i, b, v)
        BY Zenon, <2>1, <2>2, <2>11, <4>2 DEF AcceptedMsg
      <4> QED  BY Zenon, <1>2, <4>1, <4>2
    <3> QED  BY Zenon, <3>1, <3>2 DEF AcksDurable, geq
  <2>15. PromiseReportsDisk'
    <3> SUFFICES ASSUME NEW p \in promises', p.iid \in Intact(p.aid)',
                        ballot_greater_than(p.ballot, disk'[p.aid][p.iid].value_ballot)
                 PROVE  geq(p.value_ballot, disk'[p.aid][p.iid].value_ballot)
      BY Zenon DEF PromiseReportsDisk
    <3>1. p \in promises /\ p.aid \in Acceptors /\ p.iid \in Instances /\ p.iid \in Intact(p.aid)
      BY Zenon, <1>0, <1>2, <2>9, BallotTypes
    <3>2. disk'[p.aid][p.iid] = disk[p.aid][p.iid]
      BY Zenon, <2>1, <2>8, <2>13, <3>1
    <3> QED  BY Zenon, <3>1, <3>2 DEF IInv, PromiseReportsDisk
  <2>16. PromiseReportsVotes'
    <3> SUFFICES ASSUME NEW p \in promises', NEW w \in votes',
                        p.aid = w.aid, p.iid = w.iid, p.iid \in Intact(p.aid)',
                        ballot_greater_than(p.ballot, w.ballot)
                 PROVE  geq(p.value_ballot, w.ballot)
      BY Zenon DEF PromiseReportsVotes, geq
    <3>1. p \in promises /\ p.aid \in Acceptors /\ p.iid \in Instances /\ p.iid \in Intact(p.aid)
      BY Zenon, <1>0, <1>2, <2>9, BallotTypes
    <3>2. w \in votes
      BY <1>2, <2>13, <3>1 DEF AcceptedMsg
    <3> QED  BY Zenon, <3>1, <3>2 DEF IInv, PromiseReportsVotes, geq
  <2> QED  BY Zenon, <2>4, <2>6, <2>14, <2>15, <2>16 DEF IInv
<1> QED  BY Zenon, <1>3, <1>4 DEF ReceiveAccept

(* So does the handler, which sends the answer.                            *)
LEMMA AcceptKeepsIInv ==
  ASSUME IInv, NEW a \in Acceptors, NEW i \in Instances, NEW b \in Ballots,
         NEW v \in Values, NEW st, HandleAccept(a, i, b, v, st)
  PROVE  IInv'
BY Zenon, ReceiveAcceptKeepsIInv, AcceptSends DEF HandleAccept, IInv

(* A repeat answers from memory, so its votes are the memory's: those of   *)
(* open instances, which the disk holds too.                               *)
LEMMA RepeatKeepsIInv ==
  ASSUME IInv, NEW a \in Acceptors, NEW from, NEW to, HandleRepeat(a, from, to)
  PROVE  IInv'
<1>0. TypeOK
  BY Zenon DEF IInv
<1>1. UNCHANGED <<accVars, told>>
  BY Zenon DEF HandleRepeat
<1>2. promises' = promises
  BY DEF HandleRepeat, Send, ofType, RepeatReply, ChosenMsg, AcceptedMsg
<1>3. ASSUME NEW w \in votes', w \notin votes
      PROVE  \E i \in Instances :
               /\ w = AcceptedMsg(a, i, mem[a][i].value_ballot, mem[a][i].value)
               /\ i \notin chosen[a] /\ mem[a][i].value_ballot # INVALID_BALLOT
  <2>1. PICK i \in Instances : w \in RepeatReply(a, i) /\ w.type = "ACCEPTED"
    BY Zenon, <1>3 DEF HandleRepeat, Send, ofType
  <2>2. i \notin chosen[a]
    BY <2>1 DEF RepeatReply, ChosenMsg
  <2>3. w = AcceptedMsg(a, i, mem[a][i].value_ballot, mem[a][i].value)
    BY Zenon, <2>1, <2>2 DEF RepeatReply
  <2>4. ballot_greater_than(mem[a][i].value_ballot, INVALID_BALLOT)
    BY Zenon, <2>1, <2>2 DEF RepeatReply
  <2>5. mem[a][i].value_ballot # INVALID_BALLOT
    BY Zenon, <1>0, <2>4, BallotTypes, GeqTotal, InvalidIsLeast
  <2> QED  BY Zenon, <2>2, <2>3, <2>5
<1>4. ASSUME NEW w \in votes', w \notin votes
      PROVE  /\ w \in Vote
             /\ w.iid \in Intact(w.aid) =>
                  /\ disk[w.aid][w.iid].value_ballot = w.ballot
                  /\ geq(disk[w.aid][w.iid].promise_ballot, w.ballot)
  <2>1. PICK i \in Instances :
               /\ w = AcceptedMsg(a, i, mem[a][i].value_ballot, mem[a][i].value)
               /\ i \notin chosen[a] /\ mem[a][i].value_ballot # INVALID_BALLOT
    BY Zenon, <1>3, <1>4
  <2>2. RecordInv(a, i)
    BY Zenon DEF IInv, RecordsInv
  <2>3. w \in Vote
    BY Zenon, <2>1, <2>2 DEF RecordInv, VoteOK, AcceptedMsg, Vote
  <2>4. ~ Settled(a, i)
    BY SMTT(40), <2>1, <2>2 DEF RecordInv, EmptyInfo, Settled
  <2>5. i \in Intact(a) => mem[a][i] = disk[a][i]
    BY Zenon, <2>2, <2>4 DEF RecordInv
  <2>6. w.aid = a /\ w.iid = i /\ w.ballot = mem[a][i].value_ballot
    BY Zenon, <2>1 DEF AcceptedMsg
  <2> QED  BY Zenon, <2>1, <2>2, <2>3, <2>5, <2>6 DEF RecordInv
<1>5. \A w \in votes' : w.aid \in Acceptors /\ w.iid \in Instances /\ w.ballot \in Ballot
  BY Zenon, <1>0, <1>4, BallotTypes, RequestsAssumption DEF Vote
<1>6. TypeOK'
  BY Zenon, <1>0, <1>1, <1>2, <1>4 DEF TypeOK, AccTypeOK, accVars
<1>7. RecordsInv' /\ TrimInv' /\ ChosenAnswerIsTold' /\ PromiseReportsDisk'
  <2>1. RecordsInv'
    BY SMTT(40), <1>1 DEF IInv, accVars, RecordsInv, RecordInv, VoteOK, Settled, Intact
  <2>2. TrimInv'
    BY <1>1, <1>2 DEF IInv, accVars, TrimInv
  <2>3. ChosenAnswerIsTold'
    BY Zenon, <1>1, <1>2 DEF IInv, accVars, ChosenAnswerIsTold
  <2>4. PromiseReportsDisk'
    BY Zenon, <1>1, <1>2 DEF IInv, accVars, PromiseReportsDisk, Intact
  <2> QED  BY Zenon, <2>1, <2>2, <2>3, <2>4
<1>8. AcksDurable'
  <2>1. \A c : Intact(c)' = Intact(c)
    BY Zenon, <1>1 DEF accVars, Intact
  <2>2. ASSUME NEW w \in votes', w.iid \in Intact(w.aid)
        PROVE  /\ geq(disk[w.aid][w.iid].promise_ballot, w.ballot)
               /\ geq(disk[w.aid][w.iid].value_ballot, w.ballot)
    BY Zenon, <1>4, <1>5, <2>2, GeqReflexive DEF IInv, AcksDurable, geq
  <2>3. \A p \in promises : p.iid \notin wiped[p.aid] =>
          geq(disk[p.aid][p.iid].promise_ballot, p.ballot)
    BY Zenon DEF IInv, AcksDurable, geq
  <2> QED  BY Zenon, <1>1, <1>2, <2>1, <2>2, <2>3 DEF AcksDurable, accVars, geq
<1>9. PromiseReportsVotes'
  <2> SUFFICES ASSUME NEW p \in promises, NEW w \in votes',
                      p.aid = w.aid, p.iid = w.iid, p.iid \in Intact(p.aid),
                      ballot_greater_than(p.ballot, w.ballot)
               PROVE  geq(p.value_ballot, w.ballot)
    BY Zenon, <1>1, <1>2 DEF PromiseReportsVotes, geq, Intact, accVars
  <2>1. CASE w \in votes
    BY Zenon, <2>1 DEF IInv, PromiseReportsVotes, geq
  <2>2. CASE w \notin votes
    BY Zenon, <1>4, <2>2 DEF IInv, PromiseReportsDisk
  <2> QED  BY Zenon, <2>1, <2>2
<1> QED  BY Zenon, <1>6, <1>7, <1>8, <1>9 DEF IInv

(* Acknowledgements keep their cover when the disk does not change and     *)
(* no instance becomes intact.                                             *)
LEMMA AcksKept ==
  ASSUME IInv, disk' = disk, promises' = promises, votes' = votes,
         \A c \in Acceptors : wiped[c] \subseteq wiped'[c] /\ Intact(c)' \subseteq Intact(c)
  PROVE  AcksDurable' /\ PromiseReportsDisk' /\ PromiseReportsVotes'
<1>1. \A p \in promises : p.aid \in Acceptors
  BY Zenon, BallotTypes DEF IInv
<1>2. \A w \in votes : w.aid \in Acceptors
  BY Zenon, BallotTypes DEF IInv
<1>3. AcksDurable'
  BY Zenon, <1>1, <1>2 DEF IInv, AcksDurable
<1>4. PromiseReportsDisk'
  BY Zenon, <1>1 DEF IInv, PromiseReportsDisk
<1>5. PromiseReportsVotes'
  BY Zenon, <1>1 DEF IInv, PromiseReportsVotes
<1> QED  BY Zenon, <1>3, <1>4, <1>5

-----------------------------------------------------------------------------
(* ReceiveChosen keeps the invariant: it records the chosen value, moves   *)
(* min_chosen_instance over the chosen prefix and trims behind it.         *)
LEMMA ChosenKeepsIInv ==
  ASSUME IInv, NEW a \in Acceptors, NEW i \in Instances, NEW b \in Ballots,
         NEW v \in Values, HandleChosen(a, i, b, v)
  PROVE  IInv'
<1> DEFINE c == chosen[a] \cup {i}
           k == AdvanceMinChosen(min_chosen_instance[a], c, i)
           m == [mem[a] EXCEPT ![i] = [promise_ballot |-> mem[a][i].promise_ballot,
                                       value_ballot |-> b, value |-> v]]
           t == [aid |-> a, iid |-> i, ballot |-> b, value |-> v]
<1>0. /\ TypeOK /\ AccTypeOK /\ b \in Ballot /\ b # INVALID_BALLOT /\ RecordInv(a, i)
      /\ Instances \subseteq Nat /\ INVALID_BALLOT \in Ballot
  BY RequestsAssumption, AcceptorAssumption, InvalidIsLeast DEF IInv, RecordsInv, TypeOK
<1>1. promises' = promises /\ votes' = votes /\ told' = told \cup {t} /\ t \in Told
  BY Zenon DEF HandleChosen, Told
<1>2. CASE UNCHANGED accVars /\ i \in chosen[a]
  <2>1. TypeOK'
    BY Zenon, <1>0, <1>1, <1>2 DEF TypeOK, AccTypeOK, accVars
  <2>2. RecordsInv'
    BY SMTT(40), <1>2 DEF IInv, accVars, RecordsInv, RecordInv, VoteOK, Settled, Intact
  <2>3. TrimInv' /\ ChosenAnswerIsTold'
    BY SMTT(40), <1>1, <1>2 DEF IInv, accVars, TrimInv, ChosenAnswerIsTold
  <2>4. AcksDurable' /\ PromiseReportsDisk' /\ PromiseReportsVotes'
    BY Zenon, <1>1, <1>2, AcksKept DEF accVars, Intact
  <2> QED  BY Zenon, <2>1, <2>2, <2>3, <2>4 DEF IInv
<1>3. CASE i \notin chosen[a]
  <2>1. /\ k \in Nat /\ k >= trim_iid[a] /\ trim_iid[a] = min_chosen_instance[a]
        /\ \A j \in Instances : trim_iid[a] < j /\ j <= k => j \in c
    <3>1. trim_iid[a] = min_chosen_instance[a] /\ trim_iid[a] \in Nat
      BY Zenon, <1>0 DEF IInv, TrimInv, AccTypeOK
    <3> HIDE DEF c
    <3> QED  BY Zenon, <1>0, <3>1, AdvanceMinChosenPrefix
  <2>2. m \in [Instances -> InstanceInfo]
    BY Zenon, <1>0, BallotTypes DEF AccTypeOK, InstanceInfo
  <2>3. /\ m[i] = [promise_ballot |-> mem[a][i].promise_ballot, value_ballot |-> b, value |-> v]
        /\ \A j \in Instances : j # i => m[j] = mem[a][j]
    BY Zenon, <1>0 DEF AccTypeOK
  <2>4. EmptyInfo \in InstanceInfo
    BY Zenon, <1>0 DEF EmptyInfo, InstanceInfo
  <2> HIDE DEF m, k
  <2> DEFINE Post(E) ==
          /\ trim_iid' = [trim_iid EXCEPT ![a] = k]
          /\ min_chosen_instance' = [min_chosen_instance EXCEPT ![a] = k]
          /\ mem' = [mem EXCEPT ![a] = [j \in Instances |-> IF j \in E THEN EmptyInfo ELSE m[j]]]
          /\ chosen' = [chosen EXCEPT ![a] = c \ E]
          /\ wiped' = [wiped EXCEPT ![a] = @ \cup {j \in E : j > k /\ m[j] # EmptyInfo}]
          /\ disk' = disk /\ uncommitted' = uncommitted
  <2>5. \E E \in SUBSET Instances : Post(E)
    <3>0. trim_iid[a] \in Nat /\ k \in Nat /\ k >= trim_iid[a]
      BY Zenon, <1>0, <2>1 DEF AccTypeOK
    <3>1. CASE k > trim_iid[a]
      <4> DEFINE E == {j \in Instances : j < ToTrimFrom(k)}
      <4>1. TrimTo(a, k, m, c) /\ disk' = disk /\ uncommitted' = uncommitted
            /\ min_chosen_instance' = [min_chosen_instance EXCEPT ![a] = k]
        BY SMTT(40), <1>0, <1>3, <2>1, <3>1 DEF HandleChosen, ReceiveChosen, AccTypeOK, m, k
      <4> QED  BY Zenon, <4>1 DEF TrimTo
    <3>2. CASE k <= trim_iid[a]
      <4>1. k = trim_iid[a]
        BY <3>0, <3>2
      <4>2. /\ mem' = [mem EXCEPT ![a] = m] /\ chosen' = [chosen EXCEPT ![a] = c]
            /\ min_chosen_instance' = [min_chosen_instance EXCEPT ![a] = k]
            /\ UNCHANGED <<trim_iid, wiped, disk, uncommitted>>
        BY SMTT(40), <1>0, <1>3, <2>1, <3>2 DEF HandleChosen, ReceiveChosen, AccTypeOK, m, k
      <4>3. m = [j \in Instances |-> IF j \in {} THEN EmptyInfo ELSE m[j]]
        BY Zenon, <2>2
      <4>4. trim_iid' = [trim_iid EXCEPT ![a] = k]
        BY Zenon, <1>0, <4>1, <4>2 DEF AccTypeOK
      <4>5. wiped' = [wiped EXCEPT ![a] = @ \cup {j \in {} : j > k /\ m[j] # EmptyInfo}]
        BY Zenon, <1>0, <4>2 DEF AccTypeOK
      <4>6. Post({})
        BY Zenon, <4>2, <4>3, <4>4, <4>5
      <4> HIDE DEF Post
      <4> QED  BY Zenon, <4>6
    <3>3. k > trim_iid[a] \/ k <= trim_iid[a]
      BY <3>0
    <3> HIDE DEF Post
    <3> QED  BY Zenon, <3>1, <3>2, <3>3
  <2>6. PICK E \in SUBSET Instances : Post(E)
    <3> HIDE DEF Post
    <3> QED  BY Zenon, <2>5
  <2>7. /\ trim_iid'[a] = k /\ min_chosen_instance'[a] = k
        /\ chosen'[a] = c \ E
        /\ wiped'[a] = wiped[a] \cup {j \in E : j > k /\ m[j] # EmptyInfo}
        /\ \A j \in Instances : mem'[a][j] = IF j \in E THEN EmptyInfo ELSE m[j]
    BY Zenon, <1>0, <2>6 DEF AccTypeOK
  <2>8. \A d \in Acceptors : d # a =>
          /\ trim_iid'[d] = trim_iid[d] /\ min_chosen_instance'[d] = min_chosen_instance[d]
          /\ chosen'[d] = chosen[d] /\ wiped'[d] = wiped[d] /\ mem'[d] = mem[d]
    BY Zenon, <1>0, <2>6 DEF AccTypeOK
  <2>9. AccTypeOK'
    <3>1. [j \in Instances |-> IF j \in E THEN EmptyInfo ELSE m[j]] \in [Instances -> InstanceInfo]
      BY Zenon, <2>2, <2>4
    <3>2. mem' \in [Acceptors -> [Instances -> InstanceInfo]]
      BY Zenon, <1>0, <2>6, <3>1 DEF AccTypeOK
    <3>3. chosen' \in [Acceptors -> SUBSET Instances] /\ wiped' \in [Acceptors -> SUBSET Instances]
      BY Zenon, <1>0, <2>6 DEF AccTypeOK
    <3>4. trim_iid' \in [Acceptors -> Nat] /\ min_chosen_instance' \in [Acceptors -> Nat]
      BY Zenon, <1>0, <2>1, <2>6 DEF AccTypeOK
    <3> QED  BY Zenon, <1>0, <2>6, <3>2, <3>3, <3>4 DEF AccTypeOK
  <2>10. TypeOK'
    BY Zenon, <1>0, <1>1, <2>9 DEF TypeOK
  <2> HIDE DEF Post
  <2>11. TrimInv'
    <3>1. \A d \in Acceptors : trim_iid'[d] = min_chosen_instance'[d]
      BY Zenon, <2>7, <2>8 DEF IInv, TrimInv
    <3>2. ASSUME NEW d \in Acceptors, NEW j \in Instances,
                 j <= trim_iid'[d] \/ j \in chosen'[d]
          PROVE  \E s \in told' : s.aid = d /\ s.iid = j
      <4>1. CASE d # a
        BY SMTT(40), <1>1, <2>8, <3>2, <4>1 DEF IInv, TrimInv
      <4>2. CASE d = a /\ j = i
        BY <1>1, <4>2
      <4>3. CASE d = a /\ j # i
        <5>1. j <= trim_iid[a] \/ j \in chosen[a]
          <6>1. trim_iid'[a] = k /\ chosen'[a] \subseteq c
            BY Zenon, <2>7
          <6>2. j \in c => j \in chosen[a]
            BY Zenon, <4>3
          <6>3. trim_iid[a] \in Nat /\ j \in Nat
            BY Zenon, <1>0 DEF AccTypeOK
          <6>4. j <= k => j <= trim_iid[a] \/ j \in c
            BY <2>1, <6>3
          <6> HIDE DEF c
          <6> QED  BY Zenon, <3>2, <4>3, <6>1, <6>2, <6>4
        <5> QED  BY <1>1, <4>3, <5>1 DEF IInv, TrimInv
      <4> QED  BY Zenon, <4>1, <4>2, <4>3
    <3> QED  BY Zenon, <3>1, <3>2 DEF TrimInv
  <2>12. ChosenAnswerIsTold'
    <3> SUFFICES ASSUME NEW d \in Acceptors, NEW j \in chosen'[d]
                 PROVE  [aid |-> d, iid |-> j, ballot |-> mem'[d][j].value_ballot,
                         value |-> mem'[d][j].value] \in told'
      BY Zenon DEF ChosenAnswerIsTold
    <3>1. CASE d # a
      BY Zenon, <1>1, <2>8, <3>1 DEF IInv, ChosenAnswerIsTold
    <3>2. CASE d = a /\ j = i
      BY SMTT(40), <1>1, <2>3, <2>7, <3>2
    <3>3. CASE d = a /\ j # i
      <4>1. j \in chosen[a] /\ j \in Instances /\ mem'[a][j] = mem[a][j]
        BY Zenon, <1>0, <2>3, <2>7, <3>3 DEF AccTypeOK
      <4> QED  BY Zenon, <1>1, <3>3, <4>1 DEF IInv, ChosenAnswerIsTold
    <3> QED  BY Zenon, <3>1, <3>2, <3>3
  <2>13. RecordsInv'
    <3> SUFFICES ASSUME NEW d \in Acceptors, NEW j \in Instances
                 PROVE  RecordInv(d, j)'
      BY Zenon DEF RecordsInv
    <3>0. RecordInv(d, j) /\ disk' = disk /\ uncommitted' = uncommitted
      BY Zenon, <2>6 DEF IInv, RecordsInv, Post
    <3>1. CASE d # a
      BY Zenon, <2>8, <3>0, <3>1 DEF RecordInv, VoteOK, Settled, Intact
    <3>2. CASE d = a
      <4>1. VoteOK(mem'[a][j]) /\ VoteOK(disk'[a][j])
        <5>1. VoteOK(EmptyInfo) /\ VoteOK(m[i])
          BY <2>3 DEF VoteOK, EmptyInfo
        <5> QED  BY Zenon, <2>3, <2>7, <3>0, <3>2, <5>1 DEF RecordInv
      <4>2. j \notin chosen'[a] => geq(mem'[a][j].promise_ballot, mem'[a][j].value_ballot)
        <5>1. geq(EmptyInfo.promise_ballot, EmptyInfo.value_ballot)
          BY Zenon, <1>0, GeqReflexive DEF EmptyInfo, geq
        <5> QED  BY Zenon, <2>3, <2>7, <3>0, <3>2, <5>1 DEF RecordInv
      <4>3. j <= trim_iid'[a] /\ j \notin chosen'[a] => mem'[a][j] = EmptyInfo
        <5> SUFFICES ASSUME j <= k, j \notin E, j \notin c
                     PROVE  m[j] = EmptyInfo
          BY Zenon, <2>7
        <5>1. j <= trim_iid[a]
          BY <1>0, <2>1 DEF AccTypeOK
        <5> QED  BY Zenon, <2>3, <3>0, <3>2, <5>1 DEF RecordInv
      <4>4. ASSUME ~ Settled(a, j)', j \notin wiped'[a]
            PROVE  ~ Settled(a, j) /\ j \notin wiped[a] /\ mem'[a][j] = mem[a][j]
        <5>1. j > k /\ j > trim_iid[a]
          BY SMTT(40), <1>0, <2>1, <2>7, <4>4 DEF Settled, AccTypeOK
        <5>2. CASE j \notin E
          <6>1. j \notin c /\ j \notin wiped[a]
            BY Zenon, <2>7, <4>4, <5>2 DEF Settled
          <6>2. trim_iid[a] \in Nat /\ j \in Nat
            BY Zenon, <1>0 DEF AccTypeOK
          <6>3. j # i /\ j \notin chosen[a]
            BY Zenon, <6>1
          <6>4. mem'[a][j] = mem[a][j]
            BY Zenon, <2>3, <2>7, <5>2, <6>3
          <6>5. ~ Settled(a, j)
            BY SMTT(40), <5>1, <6>2, <6>3 DEF Settled
          <6> QED  BY Zenon, <6>1, <6>4, <6>5
        <5>3. CASE j \in E
          <6>1. m[j] = EmptyInfo
            BY Zenon, <2>7, <4>4, <5>1, <5>3
          <6>2. j # i
            BY SMTT(40), <1>0, <2>3, <6>1 DEF EmptyInfo
          <6>3. mem[a][j] = EmptyInfo
            BY Zenon, <2>3, <6>1, <6>2
          <6>4. j \notin chosen[a]
            <7>1. mem[a][j].value_ballot \notin Ballots
              BY <6>3, RequestsAssumption DEF EmptyInfo
            <7>2. ASSUME j \in chosen[a] PROVE mem[a][j].value_ballot \in Ballots
              BY Zenon, <1>0, <7>2 DEF IInv, ChosenAnswerIsTold, TypeOK, Told
            <7> QED  BY Zenon, <7>1, <7>2
          <6>5. trim_iid[a] \in Nat /\ j \in Nat /\ j \notin wiped[a]
            BY Zenon, <1>0, <2>7, <4>4 DEF AccTypeOK
          <6>6. ~ Settled(a, j)
            BY <5>1, <6>4, <6>5 DEF Settled
          <6>7. mem'[a][j] = mem[a][j]
            BY Zenon, <2>7, <5>3, <6>3
          <6> QED  BY Zenon, <6>5, <6>6, <6>7
        <5> QED  BY Zenon, <5>2, <5>3
      <4>5. j \in Intact(a)' => j \notin wiped'[a] /\ j \notin uncommitted'[a]
        BY Zenon DEF Intact
      <4> QED  BY Zenon, <3>0, <3>2, <4>1, <4>2, <4>3, <4>4, <4>5 DEF RecordInv, Intact
    <3> QED  BY Zenon, <3>1, <3>2
  <2>14. AcksDurable' /\ PromiseReportsDisk' /\ PromiseReportsVotes'
    <3>1. disk' = disk /\ uncommitted' = uncommitted
      BY Zenon, <2>6 DEF Post
    <3>2. \A d \in Acceptors : wiped[d] \subseteq wiped'[d]
      BY Zenon, <2>7, <2>8
    <3> QED  BY Zenon, <1>1, <3>1, <3>2, AcksKept DEF Intact
  <2> QED  BY Zenon, <2>10, <2>11, <2>12, <2>13, <2>14 DEF IInv
<1> QED  BY Zenon, <1>2, <1>3 DEF HandleChosen, ReceiveChosen

(* The chosen prefix is trimmed as soon as it grows, so a TRIM message     *)
(* finds nothing to do.                                                    *)
LEMMA TrimKeepsIInv ==
  ASSUME IInv, NEW a \in Acceptors, NEW i \in Instances, HandleTrim(a, i)
  PROVE  IInv'
<1>1. trim_iid[a] = min_chosen_instance[a] /\ trim_iid[a] \in Nat /\ i \in Nat
  BY AcceptorAssumption DEF IInv, TrimInv, TypeOK, AccTypeOK
<1>2. UNCHANGED vars
  BY SMTT(40), <1>1 DEF HandleTrim, ReceiveTrim, vars
<1> QED  BY Zenon, <1>2, StutterKeepsIInv

(* A restart keeps it: memory is rebuilt from what is on disk.             *)
LEMMA RestartKeepsIInv ==
  ASSUME IInv, NEW a \in Acceptors, RestartAcceptor(a)
  PROVE  IInv'
<1>0. TypeOK /\ AccTypeOK /\ Instances \subseteq Nat \ {0}
  BY AcceptorAssumption DEF IInv, TypeOK
<1>1. /\ UNCHANGED <<disk, wiped, uncommitted, promises, votes, told>>
      /\ trim_iid'[a] = 0 /\ min_chosen_instance'[a] = 0 /\ chosen'[a] = {}
      /\ mem'[a] = disk[a]
      /\ \A d \in Acceptors : d # a =>
           /\ trim_iid'[d] = trim_iid[d] /\ min_chosen_instance'[d] = min_chosen_instance[d]
           /\ chosen'[d] = chosen[d] /\ mem'[d] = mem[d]
  BY Zenon, <1>0 DEF RestartAcceptor, Restart, AccTypeOK
<1>2. TypeOK'
  BY Zenon, <1>0 DEF RestartAcceptor, Restart, TypeOK, AccTypeOK
<1>3. TrimInv' /\ ChosenAnswerIsTold'
  <2>1. \A j \in Instances : ~ (j <= 0)
    BY <1>0
  <2>2. ASSUME NEW d \in Acceptors
        PROVE  trim_iid'[d] = min_chosen_instance'[d]
    BY Zenon, <1>1 DEF IInv, TrimInv
  <2>3. ASSUME NEW d \in Acceptors, NEW j \in Instances,
               j <= trim_iid'[d] \/ j \in chosen'[d]
        PROVE  \E t \in told' : t.aid = d /\ t.iid = j
    <3>1. d # a
      BY Zenon, <1>1, <2>1, <2>3
    <3> QED  BY Zenon, <1>1, <2>3, <3>1 DEF IInv, TrimInv
  <2>4. ASSUME NEW d \in Acceptors, NEW j \in chosen'[d]
        PROVE  [aid |-> d, iid |-> j, ballot |-> mem'[d][j].value_ballot,
                value |-> mem'[d][j].value] \in told'
    <3>1. d # a
      BY Zenon, <1>1
    <3> QED  BY Zenon, <1>1, <3>1 DEF IInv, ChosenAnswerIsTold
  <2> QED  BY Zenon, <2>2, <2>3, <2>4 DEF TrimInv, ChosenAnswerIsTold
<1>4. RecordsInv'
  <2> SUFFICES ASSUME NEW d \in Acceptors, NEW j \in Instances
               PROVE  RecordInv(d, j)'
    BY Zenon DEF RecordsInv
  <2>1. RecordInv(d, j)
    BY Zenon DEF IInv, RecordsInv
  <2>2. CASE d # a
    BY Zenon, <1>1, <2>1, <2>2 DEF RecordInv, VoteOK, Settled, Intact
  <2>3. CASE d = a
    <3>1. geq(disk[a][j].promise_ballot, disk[a][j].promise_ballot)
      BY Zenon, <1>0, BallotTypes, GeqReflexive DEF geq
    <3>2. ~ (j <= trim_iid'[a])
      BY <1>0, <1>1
    <3> QED  BY Zenon, <1>1, <2>1, <2>3, <3>1, <3>2 DEF RecordInv, VoteOK, Settled, Intact
  <2> QED  BY Zenon, <2>2, <2>3
<1>5. AcksDurable' /\ PromiseReportsDisk' /\ PromiseReportsVotes'
  BY Zenon, <1>1, AcksKept DEF Intact
<1> QED  BY Zenon, <1>2, <1>3, <1>4, <1>5 DEF IInv

(* The freshly opened acceptors satisfy the invariant.                     *)
LEMMA InitIInv == Init => IInv
<1> SUFFICES ASSUME Init PROVE IInv
  BY Zenon
<1>0. INVALID_BALLOT \in Ballot /\ Instances \subseteq Nat \ {0}
  BY AcceptorAssumption, InvalidIsLeast
<1>1. EmptyInfo \in InstanceInfo
  BY Zenon, <1>0 DEF EmptyInfo, InstanceInfo
<1>2. TypeOK
  BY Zenon, <1>1 DEF Init, AccInit, TypeOK, AccTypeOK
<1>3. TrimInv /\ ChosenAnswerIsTold
  BY <1>0 DEF Init, AccInit, TrimInv, ChosenAnswerIsTold
<1>4. RecordsInv
  BY Zenon, <1>0, GeqReflexive DEF Init, AccInit, RecordsInv, RecordInv, VoteOK, Settled, EmptyInfo, geq
<1>5. AcksDurable /\ PromiseReportsDisk /\ PromiseReportsVotes
  BY Zenon DEF Init, AcksDurable, PromiseReportsDisk, PromiseReportsVotes
<1> QED  BY Zenon, <1>2, <1>3, <1>4, <1>5 DEF IInv

(* Every step of an acceptor keeps the invariant.                          *)
LEMMA NextKeepsIInv == IInv /\ [Next]_vars => IInv'
<1> SUFFICES ASSUME IInv, [Next]_vars PROVE IInv'
  BY Zenon
<1>1. CASE UNCHANGED vars
  BY Zenon, <1>1, StutterKeepsIInv
<1>2. ASSUME NEW a \in Acceptors, NEW r \in PrepareRequests, NEW st \in StorageOutcomes,
             HandlePrepare(a, r[1], r[2], st)
      PROVE  IInv'
  BY Zenon, <1>2, PrepareKeepsIInv, RequestsAssumption
<1>3. ASSUME NEW a \in Acceptors, NEW r \in AcceptRequests, NEW st \in StorageOutcomes,
             HandleAccept(a, r[1], r[2], r[3], st)
      PROVE  IInv'
  BY Zenon, <1>3, AcceptKeepsIInv, RequestsAssumption
<1>4. ASSUME NEW a \in Acceptors, NEW r \in ChosenNotices, HandleChosen(a, r[1], r[2], r[3])
      PROVE  IInv'
  BY Zenon, <1>4, ChosenKeepsIInv, RequestsAssumption
<1> QED  BY Zenon, <1>1, <1>2, <1>3, <1>4, RepeatKeepsIInv, TrimKeepsIInv, RestartKeepsIInv DEF Next

(* The inductive invariant holds in every reachable state.                 *)
THEOREM Invariance == Spec => []IInv
BY InitIInv, NextKeepsIInv, PTL DEF Spec

(* Every store, message and notice keeps its type, whatever the outcome of *)
(* the LMDB transactions and wherever the process restarts.                *)
THEOREM TypeCorrect == Spec => []TypeOK
<1>1. IInv => TypeOK  BY Zenon DEF IInv
<1> QED  BY <1>1, Invariance, PTL

(* The memory standard_acceptor_receive_prepare and _accept answer from    *)
(* agrees with LMDB on every open instance no trim erased and no failed    *)
(* commit touched.                                                         *)
THEOREM Coherence == Spec => []CacheCoherent
<1>1. IInv => CacheCoherent
  BY Zenon DEF IInv, RecordsInv, RecordInv, CacheCoherent, Intact
<1> QED  BY <1>1, Invariance, PTL

(* No PROMISE or ACCEPTED message leaves before LMDB covers it, and no     *)
(* later operation or restart takes the cover away.                        *)
THEOREM Durability == Spec => []AcksDurable
<1>1. IInv => AcksDurable  BY Zenon DEF IInv
<1> QED  BY <1>1, Invariance, PTL

(* A promise reports every vote below it the acceptor ever casts.          *)
THEOREM PromisesReportVotes == Spec => []PromiseReportsVotes
<1>1. IInv => PromiseReportsVotes  BY Zenon DEF IInv
<1> QED  BY <1>1, Invariance, PTL

(* The chosen prefix covers only instances the acceptor was told of.       *)
THEOREM TrimsTold == Spec => []TrimOnlyTold
<1>1. IInv => TrimOnlyTold
  BY Zenon DEF IInv, TrimInv, TrimOnlyTold
<1> QED  BY <1>1, Invariance, PTL

(* A CHOSEN answer is one the acceptor was given.                          *)
THEOREM ChosenAnswersTold == Spec => []ChosenAnswerIsTold
<1>1. IInv => ChosenAnswerIsTold  BY Zenon DEF IInv
<1> QED  BY <1>1, Invariance, PTL
=============================================================================
