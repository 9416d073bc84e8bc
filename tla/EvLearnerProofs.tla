-------------------------- MODULE EvLearnerProofs --------------------------
(***************************************************************************)
(* What the learner delivers and trims, for every set of acceptors,        *)
(* instances, values and votes, and every quorum size.                     *)
(***************************************************************************)
EXTENDS EvLearner, PaxosLemmas, FiniteSetTheorems, NaturalsInduction,
        WellFoundedInduction, SequenceTheorems

Entry ==
  [last_update_ballot : Ballot, current_ballots_value : Values \cup {NULL},
   acks : SUBSET Acceptors, chosen : BOOLEAN]

LearnerType ==
  [current_min_instance_to_execute : Nat \ {0}, highest_instance_chosen : Nat,
   trim_iid : Nat, late_start : BOOLEAN, instances : [Instances -> Entry \cup {NULL}]]

Delivery == [iid : Nat, value : Values \cup {NULL}]

(* Some acceptor voted for the pair an entry holds.                        *)
SomeVote(i, b, v) == \E w \in votes : w.iid = i /\ w.ballot = b /\ w.value = v

(* The count of an open entry is of votes for the pair it holds, and the   *)
(* pair of a closed entry has a quorum.  A CHOSEN changes the pair of an   *)
(* entry and leaves its count, which then counts something else.           *)
EntryInv(e, i) ==
  /\ e.last_update_ballot # INVALID_BALLOT =>
       SomeVote(i, e.last_update_ballot, e.current_ballots_value)
  /\ ~ e.chosen => e.acks \subseteq VotesIn(votes, i, e.last_update_ballot, e.current_ballots_value)
  /\ e.chosen => /\ e.last_update_ballot # INVALID_BALLOT
                 /\ ChosenIn(votes, i, e.last_update_ballot, e.current_ballots_value)

EntriesInv(l) ==
  \A i \in Instances : l.instances[i] # NULL => EntryInv(l.instances[i], i)

(* What was delivered and trimmed lies below the instance l waits for.     *)
Below(l) ==
  /\ l.late_start => /\ delivered = <<>> /\ trims = {}
                     /\ l.current_min_instance_to_execute = 1
  /\ Len(delivered) < l.current_min_instance_to_execute
  /\ \A k \in 1 .. Len(delivered) :
       delivered[k].iid = (l.current_min_instance_to_execute - Len(delivered)) + (k - 1)
  /\ \A t \in trims : t < l.current_min_instance_to_execute

LearnerInv(l) == l \in LearnerType /\ EntriesInv(l) /\ Below(l)

(* A ballot carries one value.                                             *)
OneValue ==
  \A u, w \in votes : u.iid = w.iid /\ u.ballot = w.ballot => u.value = w.value

ValuesChosen ==
  \A k \in 1 .. Len(delivered) :
    \E w \in votes : /\ w.iid = delivered[k].iid /\ w.value = delivered[k].value
                     /\ Quorate(votes, w)

IInv ==
  /\ votes \subseteq PossibleVotes /\ OneValue
  /\ delivered \in Seq(Delivery) /\ trims \subseteq Int
  /\ ValuesChosen
  /\ LearnerInv(learner)

-----------------------------------------------------------------------------
(* What is known of a vote.                                                *)
LEMMA VoteTypes ==
  ASSUME IInv, NEW w \in votes
  PROVE  /\ w.aid \in Acceptors /\ w.iid \in Instances /\ w.value \in Values
         /\ w.ballot \in Ballot /\ w.ballot # INVALID_BALLOT
         /\ w.iid \in Nat \ {0}
BY Zenon, LearnerAssumption DEF IInv

(* The acceptors that voted for a pair are finitely many, and stay so when *)
(* votes are added: a quorum is not lost.                                  *)
LEMMA QuorumKept ==
  ASSUME NEW V, NEW W, V \subseteq W, W \subseteq PossibleVotes,
         NEW i, NEW b, NEW v
  PROVE  /\ VotesIn(V, i, b, v) \subseteq VotesIn(W, i, b, v)
         /\ ChosenIn(V, i, b, v) => ChosenIn(W, i, b, v)
<1>1. VotesIn(V, i, b, v) \subseteq VotesIn(W, i, b, v) /\ VotesIn(W, i, b, v) \subseteq Acceptors
  BY Zenon, LearnerAssumption DEF VotesIn
<1>2. IsFiniteSet(VotesIn(W, i, b, v))
  BY Zenon, <1>1, FS_Subset, LearnerAssumption
<1>3. /\ Cardinality(VotesIn(V, i, b, v)) <= Cardinality(VotesIn(W, i, b, v))
      /\ Cardinality(VotesIn(V, i, b, v)) \in Nat /\ Cardinality(VotesIn(W, i, b, v)) \in Nat
  BY Zenon, <1>1, <1>2, FS_Subset, FS_CardinalityType
<1> QED  BY <1>1, <1>3, LearnerAssumption DEF ChosenIn

(* Any q2 of the acceptors that voted for a pair choose it.                *)
LEMMA AcksChoose ==
  ASSUME votes \subseteq PossibleVotes, NEW i, NEW b, NEW v, NEW A,
         A \subseteq VotesIn(votes, i, b, v), Cardinality(A) >= q2
  PROVE  ChosenIn(votes, i, b, v)
<1>1. VotesIn(votes, i, b, v) \subseteq Acceptors
  BY Zenon, LearnerAssumption DEF VotesIn
<1>2. IsFiniteSet(VotesIn(votes, i, b, v))
  BY Zenon, <1>1, FS_Subset, LearnerAssumption
<1>3. /\ Cardinality(A) <= Cardinality(VotesIn(votes, i, b, v))
      /\ Cardinality(A) \in Nat /\ Cardinality(VotesIn(votes, i, b, v)) \in Nat
  BY Zenon, <1>2, FS_Subset, FS_CardinalityType
<1> QED  BY <1>3, LearnerAssumption DEF ChosenIn

-----------------------------------------------------------------------------
(* Starting late moves the learner only before anything was delivered.     *)
LEMMA LateStartKeeps ==
  ASSUME NEW l, LearnerInv(l), NEW i \in Instances
  PROVE  LearnerInv(HandleLateStart(l, i)) /\ ~ HandleLateStart(l, i).late_start
<1>0. i \in Nat \ {0} /\ i - 1 \in Nat
  BY LearnerAssumption
<1>1. CASE ~ l.late_start
  BY Zenon, <1>1 DEF HandleLateStart
<1>2. CASE l.late_start
  <2> DEFINE m == HandleLateStart(l, i)
  <2>1. m = [l EXCEPT !.late_start = FALSE, !.current_min_instance_to_execute = i,
                      !.trim_iid = i - 1]
    BY Zenon, <1>2 DEF HandleLateStart
  <2>2. m \in LearnerType /\ m.instances = l.instances
    BY Zenon, <1>0, <2>1 DEF LearnerInv, LearnerType
  <2>3. m.current_min_instance_to_execute = i /\ ~ m.late_start
    BY Zenon, <2>1 DEF LearnerInv, LearnerType
  <2>4. delivered = <<>> /\ trims = {}
    BY Zenon, <1>2 DEF LearnerInv, Below
  <2> HIDE DEF m
  <2>5. Len(delivered) = 0
    BY Zenon, <2>4
  <2>6. Below(m)
    BY <1>0, <2>3, <2>4, <2>5 DEF Below
  <2>7. EntriesInv(m)
    BY Zenon, <2>2 DEF LearnerInv, EntriesInv
  <2> QED  BY Zenon, <2>2, <2>3, <2>6, <2>7 DEF LearnerInv, m
<1> QED  BY Zenon, <1>1, <1>2 DEF LearnerInv, LearnerType

(* learner_get_instance_or_create returns an entry that counts votes.      *)
LEMMA GetOrCreateEntry ==
  ASSUME NEW l, LearnerInv(l), NEW i \in Instances
  PROVE  GetOrCreate(l, i) \in Entry /\ EntryInv(GetOrCreate(l, i), i)
<1>1. CASE l.instances[i] = NULL
  <2>1. NewInstance \in Entry
    BY Zenon, InvalidIsLeast DEF NewInstance, Entry
  <2>2. EntryInv(NewInstance, i)
    BY Zenon DEF NewInstance, EntryInv
  <2> QED  BY Zenon, <1>1, <2>1, <2>2 DEF GetOrCreate
<1>2. CASE l.instances[i] # NULL
  BY Zenon, <1>2 DEF GetOrCreate, LearnerInv, LearnerType, EntriesInv
<1> QED  BY Zenon, <1>1, <1>2

(* Counting a vote keeps the count honest: the vote is for the pair the    *)
(* entry holds, because its ballot is new or carries the same value.       *)
LEMMA CountedEntry ==
  ASSUME IInv, NEW e \in Entry, NEW w \in votes, EntryInv(e, w.iid)
  PROVE  Counted(e, w) \in Entry /\ EntryInv(Counted(e, w), w.iid)
<1> DEFINE at == NewBallot(e, w.ballot, w.value)
           acks == at.acks \cup {w.aid}
           quorum == Cardinality(acks) >= q2
           c == [at EXCEPT !.acks = acks, !.chosen = quorum]
<1>0. /\ w.aid \in Acceptors /\ w.ballot \in Ballot /\ w.ballot # INVALID_BALLOT
      /\ w.value \in Values
  BY Zenon, VoteTypes
<1>1. CASE \/ e.chosen
           \/ ~ ballot_greater_than_or_equal(w.ballot, e.last_update_ballot)
           \/ w.aid \in at.acks
  <2>1. Counted(e, w) = e
    BY Zenon, <1>1 DEF Counted
  <2> QED  BY Zenon, <2>1
<1>2. CASE /\ ~ e.chosen
           /\ ballot_greater_than_or_equal(w.ballot, e.last_update_ballot)
           /\ w.aid \notin at.acks
  <2>1. Counted(e, w) = c
    BY Zenon, <1>2 DEF Counted
  <2>2. /\ at \in Entry /\ at.last_update_ballot = w.ballot
        /\ at.current_ballots_value = w.value
        /\ at.acks \subseteq VotesIn(votes, w.iid, w.ballot, w.value)
    <3>1. CASE ballot_greater_than(w.ballot, e.last_update_ballot)
      <4>1. at = [e EXCEPT !.last_update_ballot = w.ballot,
                           !.current_ballots_value = w.value, !.acks = {}]
        BY Zenon, <3>1 DEF NewBallot
      <4> QED  BY Zenon, <1>0, <4>1 DEF Entry
    <3>2. CASE ~ ballot_greater_than(w.ballot, e.last_update_ballot)
      <4>1. at = e
        BY Zenon, <3>2 DEF NewBallot
      <4>2. e.last_update_ballot \in Ballot
        BY Zenon DEF Entry
      <4>3. w.ballot = e.last_update_ballot
        BY Zenon, <1>0, <1>2, <3>2, <4>2, GeqTotal, GeqAntisymmetric
      <4>4. PICK u \in votes : /\ u.iid = w.iid /\ u.ballot = w.ballot
                               /\ u.value = e.current_ballots_value
        BY Zenon, <1>0, <4>3 DEF EntryInv, SomeVote
      <4>5. w.value = e.current_ballots_value
        BY Zenon, <4>4 DEF IInv, OneValue
      <4> QED  BY Zenon, <1>2, <4>1, <4>3, <4>5 DEF EntryInv
    <3> QED  BY Zenon, <3>1, <3>2
  <2>3. w.aid \in VotesIn(votes, w.iid, w.ballot, w.value)
    BY Zenon DEF VotesIn
  <2> HIDE DEF at
  <2>4. acks \in SUBSET Acceptors /\ acks \subseteq VotesIn(votes, w.iid, w.ballot, w.value)
    BY Zenon, <1>0, <2>2, <2>3 DEF Entry
  <2> HIDE DEF acks
  <2>5. quorum \in BOOLEAN
    OBVIOUS
  <2>6. quorum => ChosenIn(votes, w.iid, w.ballot, w.value)
    BY Zenon, <2>4, AcksChoose DEF IInv
  <2> HIDE DEF quorum
  <2>8. /\ c \in Entry /\ c.last_update_ballot = w.ballot /\ c.current_ballots_value = w.value
        /\ c.acks = acks /\ c.chosen = quorum
    BY Zenon, <2>2, <2>4, <2>5 DEF Entry
  <2>7. SomeVote(w.iid, w.ballot, w.value)
    BY Zenon DEF SomeVote
  <2> HIDE DEF c
  <2> QED  BY Zenon, <1>0, <2>1, <2>4, <2>6, <2>7, <2>8 DEF EntryInv
<1> QED  BY Zenon, <1>1, <1>2

(* The table of l with entry e for instance i.                             *)
Put(l, i, e, h) == [l EXCEPT !.instances[i] = e, !.highest_instance_chosen = h]

(* Putting a good entry in the table keeps the learner's invariant.        *)
LEMMA PutEntry ==
  ASSUME NEW l, LearnerInv(l), NEW i \in Instances, NEW e \in Entry, EntryInv(e, i),
         NEW h \in Nat
  PROVE  LearnerInv(Put(l, i, e, h)) /\ Put(l, i, e, h).late_start = l.late_start
<1> DEFINE m == Put(l, i, e, h)
<1>0. /\ l \in LearnerType
      /\ l.instances \in [Instances -> Entry \cup {NULL}]
  BY Zenon DEF LearnerInv, LearnerType
<1>1. /\ m \in LearnerType
      /\ m.instances = [l.instances EXCEPT ![i] = e]
      /\ m.current_min_instance_to_execute = l.current_min_instance_to_execute
      /\ m.late_start = l.late_start
  BY Zenon, <1>0 DEF LearnerType, Put
<1> HIDE DEF m
<1>2. EntriesInv(m)
  BY Zenon, <1>0, <1>1 DEF LearnerInv, EntriesInv
<1>3. Below(m)
  BY Zenon, <1>1 DEF LearnerInv, Below
<1>4. LearnerInv(m)
  BY Zenon, <1>1, <1>2, <1>3 DEF LearnerInv
<1> QED  BY Zenon, <1>1, <1>4 DEF m

(* learner_receive_accepted keeps the learner's invariant.                 *)
LEMMA ReceiveAcceptedKeeps ==
  ASSUME IInv, NEW w \in votes
  PROVE  LearnerInv(ReceiveAccepted(learner, w)) /\ ~ ReceiveAccepted(learner, w).late_start
<1> DEFINE l == HandleLateStart(learner, w.iid)
           inst == Counted(GetOrCreate(l, w.iid), w)
           h == IF inst.chosen THEN Highest(l, w.iid) ELSE l.highest_instance_chosen
<1>0. w.iid \in Instances /\ w.iid \in Nat
  BY Zenon, VoteTypes
<1>1. LearnerInv(l) /\ ~ l.late_start
  BY Zenon, <1>0, LateStartKeeps DEF IInv
<1>2. CASE Outdated(l, w.iid)
  BY Zenon, <1>1, <1>2 DEF ReceiveAccepted
<1>3. CASE ~ Outdated(l, w.iid)
  <2>1. ReceiveAccepted(learner, w) = Put(l, w.iid, inst, h)
    BY Zenon, <1>3 DEF Put, ReceiveAccepted
  <2> HIDE DEF l
  <2>2. inst \in Entry /\ EntryInv(inst, w.iid)
    BY Zenon, <1>0, <1>1, GetOrCreateEntry, CountedEntry
  <2>3. h \in Nat
    BY Zenon, <1>0, <1>1 DEF Highest, LearnerInv, LearnerType
  <2> HIDE DEF inst, h
  <2>4. /\ LearnerInv(Put(l, w.iid, inst, h))
        /\ Put(l, w.iid, inst, h).late_start = l.late_start
    BY <1>0, <1>1, <2>2, <2>3, PutEntry, Zenon
  <2> QED  BY <1>1, <2>1, <2>4, Zenon
<1> QED  BY Zenon, <1>2, <1>3

(* So does learner_receive_chosen of a pair that was chosen.               *)
LEMMA ReceiveChosenKeeps ==
  ASSUME IInv, NEW w \in votes, Quorate(votes, w)
  PROVE  /\ LearnerInv(ReceiveChosen(learner, w.iid, w.ballot, w.value))
         /\ ~ ReceiveChosen(learner, w.iid, w.ballot, w.value).late_start
<1> DEFINE l == HandleLateStart(learner, w.iid)
           inst == GetOrCreate(l, w.iid)
           e == [inst EXCEPT !.chosen = TRUE, !.last_update_ballot = w.ballot,
                             !.current_ballots_value = w.value]
           h == Highest(l, w.iid)
<1>0. /\ w.iid \in Instances /\ w.iid \in Nat
      /\ w.ballot \in Ballot /\ w.ballot # INVALID_BALLOT /\ w.value \in Values
  BY Zenon, VoteTypes
<1>1. LearnerInv(l) /\ ~ l.late_start
  BY Zenon, <1>0, LateStartKeeps DEF IInv
<1>2. CASE Outdated(l, w.iid) \/ inst.chosen
  BY Zenon, <1>1, <1>2 DEF ReceiveChosen
<1>3. CASE ~ (Outdated(l, w.iid) \/ inst.chosen)
  <2>1. ReceiveChosen(learner, w.iid, w.ballot, w.value) = Put(l, w.iid, e, h)
    BY Zenon, <1>3 DEF Put, ReceiveChosen
  <2> HIDE DEF l
  <2>2. inst \in Entry
    BY Zenon, <1>0, <1>1, GetOrCreateEntry
  <2>3. h \in Nat
    BY Zenon, <1>0, <1>1 DEF Highest, LearnerInv, LearnerType
  <2> HIDE DEF inst, h
  <2>4. /\ e \in Entry /\ e.chosen /\ e.last_update_ballot = w.ballot
        /\ e.current_ballots_value = w.value
    BY Zenon, <1>0, <2>2 DEF Entry
  <2> HIDE DEF e
  <2>5. EntryInv(e, w.iid)
    BY <1>0, <2>4 DEF EntryInv, SomeVote, Quorate
  <2>6. /\ LearnerInv(Put(l, w.iid, e, h))
        /\ Put(l, w.iid, e, h).late_start = l.late_start
    BY <1>0, <1>1, <2>3, <2>4, <2>5, PutEntry, Zenon
  <2> QED  BY <1>1, <2>1, <2>6, Zenon
<1> QED  BY Zenon, <1>2, <1>3

-----------------------------------------------------------------------------
(* A non-empty set of naturals has a least element.                        *)
LEMMA LeastOf ==
  ASSUME NEW S, S \subseteq Nat, S # {}
  PROVE  \E n \in S : \A m \in S : n <= m
<1> DEFINE R == OpToRel(<, Nat)
<1>1. PICK n \in S : \A m \in S : ~ (<<m, n>> \in R)
  <2>1. IsWellFoundedOn(R, Nat)
    BY Zenon, NatLessThanWellFounded
  <2> HIDE DEF R
  <2> QED  BY Zenon, <2>1, WFMin
<1>2. \A m \in S : <<m, n>> \in R <=> m < n
  BY Zenon DEF OpToRel
<1>3. \A m \in S : ~ (m < n)
  <2> HIDE DEF R
  <2> QED  BY Zenon, <1>1, <1>2
<1> QED  BY <1>3

(* The loop around learner_deliver_next stops: there are more numbers from *)
(* the first instance on than there are instances.                         *)
LEMMA DeliverToStops ==
  ASSUME NEW l, l \in LearnerType
  PROVE  /\ DeliverTo(l) \in Nat
         /\ DeliverTo(l) >= l.current_min_instance_to_execute
         /\ \A i \in l.current_min_instance_to_execute .. (DeliverTo(l) - 1) : IsChosen(l, i)
<1> DEFINE from == l.current_min_instance_to_execute
           N == Cardinality(Instances)
           S == {n \in from .. (from + N) : ~ IsChosen(l, n)}
           P(n) == ~ IsChosen(l, n) /\ \A i \in from .. (n - 1) : IsChosen(l, i)
<1>1. from \in Nat \ {0} /\ N \in Nat
  BY Zenon, FS_CardinalityType, LearnerAssumption DEF LearnerType
<1>2. S # {}
  <2> SUFFICES ASSUME S = {} PROVE FALSE
    BY Zenon
  <2>1. (from .. (from + N)) \in SUBSET Instances
    BY Zenon DEF IsChosen
  <2>2. Cardinality(from .. (from + N)) <= N
    BY Zenon, <2>1, FS_Subset, LearnerAssumption
  <2>3. Cardinality(from .. (from + N)) = N + 1
    <3> HIDE DEF from, N
    <3>1. from \in Int /\ (from + N) \in Int /\ ~ (from > from + N)
      BY <1>1
    <3>2. (from + N) - from + 1 = N + 1
      BY <1>1
    <3> QED  BY Zenon, <3>1, <3>2, FS_Interval
  <2> HIDE DEF from, N
  <2> QED  BY <1>1, <2>2, <2>3
<1>3. S \subseteq Nat
  BY <1>1
<1>4. PICK n \in S : \A m \in S : n <= m
  <2> HIDE DEF S
  <2> QED  BY Zenon, <1>2, <1>3, LeastOf
<1>5. n \in from .. (from + N) /\ P(n)
  <2>1. ASSUME NEW i \in from .. (n - 1)
        PROVE  IsChosen(l, i)
    BY <1>1, <1>4, <2>1
  <2> QED  BY Zenon, <1>4, <2>1
<1>6. DeliverTo(l) = CHOOSE k \in from .. (from + N) : P(k)
  BY Zenon DEF DeliverTo
<1> HIDE DEF N
<1>7. DeliverTo(l) \in from .. (from + N) /\ P(DeliverTo(l))
  BY Zenon, <1>5, <1>6
<1> QED  BY <1>1, <1>7

(* What was delivered is not taken back.                                   *)
Grows ==
  /\ Len(delivered') >= Len(delivered)
  /\ \A k \in 1 .. Len(delivered) : delivered'[k] = delivered[k]

(* evlearner_deliver_next_closed keeps the invariant.                      *)
LEMMA DeliverKeepsIInv ==
  ASSUME IInv, NEW l, LearnerInv(l), ~ l.late_start, DeliverNextClosed(l),
         UNCHANGED <<trims, votes>>
  PROVE  IInv' /\ Grows
<1> DEFINE from == l.current_min_instance_to_execute
           n == DeliverTo(l)
           D == Delivers(l)
           m == Delivered(l)
<1>0. /\ l \in LearnerType /\ l.instances \in [Instances -> Entry \cup {NULL}]
      /\ from \in Nat \ {0} /\ Instances \subseteq Nat \ {0}
  BY Zenon, LearnerAssumption DEF LearnerInv, LearnerType
<1>1. /\ n \in Nat /\ n >= from
      /\ \A i \in from .. (n - 1) : IsChosen(l, i)
  BY Zenon, <1>0, DeliverToStops
<1> DEFINE T == [i \in Instances |-> IF i \in from .. (n - 1) THEN NULL ELSE l.instances[i]]
<1>2. m = [l EXCEPT !.current_min_instance_to_execute = n, !.instances = T]
  BY Zenon DEF Delivered
<1>3. D = [k \in 1 .. (n - from) |->
             [iid |-> from + k - 1, value |-> l.instances[from + k - 1].current_ballots_value]]
  BY Zenon DEF Delivers
<1>4. learner' = m /\ delivered' = delivered \o D /\ votes' = votes /\ trims' = trims
  BY Zenon DEF DeliverNextClosed
<1> HIDE DEF n, D, m
<1>5. /\ m \in LearnerType /\ m.current_min_instance_to_execute = n
      /\ m.late_start = l.late_start
      /\ \A i \in Instances : m.instances[i] = NULL \/ m.instances[i] = l.instances[i]
  <2>1. T \in [Instances -> Entry \cup {NULL}]
    BY Zenon, <1>0
  <2>2. \A i \in Instances : T[i] = NULL \/ T[i] = l.instances[i]
    BY Zenon, <1>0
  <2>3. n \in Nat \ {0}
    BY <1>0, <1>1
  <2> HIDE DEF T
  <2>4. /\ m \in LearnerType /\ m.current_min_instance_to_execute = n
        /\ m.late_start = l.late_start /\ m.instances = T
    BY Zenon, <1>0, <1>2, <2>1, <2>3 DEF LearnerType
  <2> QED  BY Zenon, <2>2, <2>4
<1>6. ASSUME NEW k \in 1 .. (n - from)
      PROVE  /\ D[k].iid = from + k - 1 /\ D[k] \in Delivery
             /\ \E w \in votes : /\ w.iid = D[k].iid /\ w.value = D[k].value
                                  /\ Quorate(votes, w)
  <2> DEFINE j == from + k - 1
             e == l.instances[j]
  <2>1. j \in from .. (n - 1) /\ j \in Nat
    BY <1>0, <1>1, <1>6
  <2>2. j \in Instances /\ e # NULL /\ e.chosen
    BY Zenon, <1>1, <2>1 DEF IsChosen
  <2>3. e \in Entry /\ EntryInv(e, j)
    BY Zenon, <1>0, <2>2 DEF LearnerInv, EntriesInv
  <2>4. D[k] = [iid |-> j, value |-> e.current_ballots_value]
    BY Zenon, <1>3, <1>6
  <2> HIDE DEF j, e
  <2>5. PICK w \in votes : /\ w.iid = j /\ w.ballot = e.last_update_ballot
                           /\ w.value = e.current_ballots_value
    BY Zenon, <2>2, <2>3 DEF EntryInv, SomeVote
  <2>6. Quorate(votes, w)
    BY Zenon, <2>2, <2>3, <2>5 DEF EntryInv, Quorate
  <2>7. e.current_ballots_value \in Values \cup {NULL}
    BY Zenon, <2>3 DEF Entry
  <2> QED  BY <2>1, <2>4, <2>5, <2>6, <2>7 DEF Delivery, j
<1>7. D \in Seq(Delivery) /\ Len(D) = n - from
  <2>1. n - from \in Nat
    BY <1>0, <1>1
  <2> HIDE DEF from
  <2>2. D \in [1 .. (n - from) -> Delivery]
    BY Zenon, <1>3, <1>6
  <2> QED  BY <2>1, <2>2
<1> DEFINE L == Len(delivered)
<1>8. /\ delivered' \in Seq(Delivery) /\ L \in Nat
      /\ Len(delivered') = L + (n - from)
      /\ \A k \in 1 .. (L + (n - from)) :
           delivered'[k] = IF k <= L THEN delivered[k] ELSE D[k - L]
  <2>1. delivered \in Seq(Delivery)
    BY Zenon DEF IInv
  <2> HIDE DEF from
  <2>2. /\ delivered \o D \in Seq(Delivery) /\ L \in Nat
        /\ Len(delivered \o D) = L + Len(D)
        /\ \A k \in 1 .. (L + Len(D)) :
             (delivered \o D)[k] = IF k <= L THEN delivered[k] ELSE D[k - L]
    BY Zenon, <1>7, <2>1, ConcatProperties, LenProperties
  <2> QED  BY Zenon, <1>4, <1>7, <2>2
<1> HIDE DEF from
<1>9. ValuesChosen'
  <2> SUFFICES ASSUME NEW k \in 1 .. (L + (n - from))
               PROVE  \E w \in votes : /\ w.iid = delivered'[k].iid
                                        /\ w.value = delivered'[k].value
                                        /\ Quorate(votes, w)
    <3>1. \A w : Quorate(votes, w)' <=> Quorate(votes, w)
      BY Zenon, <1>4 DEF Quorate, ChosenIn, VotesIn
    <3> HIDE DEF L
    <3> QED  BY Zenon, <1>4, <1>8, <3>1 DEF ValuesChosen
  <2>1. CASE k <= L
    <3>1. k \in 1 .. L /\ delivered'[k] = delivered[k]
      BY <1>8, <2>1
    <3> QED  BY Zenon, <3>1 DEF IInv, ValuesChosen
  <2>2. CASE ~ (k <= L)
    <3>1. k - L \in 1 .. (n - from) /\ delivered'[k] = D[k - L]
      BY <1>0, <1>1, <1>8, <2>2
    <3> QED  BY Zenon, <1>6, <3>1
  <2> QED  BY Zenon, <2>1, <2>2
<1>10. Below(m)'
  <2>0. /\ ~ l.late_start /\ L < from
        /\ \A k \in 1 .. L : delivered[k].iid = (from - L) + (k - 1)
        /\ \A t \in trims : t < from
    BY Zenon DEF LearnerInv, Below, from
  <2>1. ASSUME NEW k \in 1 .. (L + (n - from))
        PROVE  delivered'[k].iid = (n - (L + (n - from))) + (k - 1)
    <3>1. CASE k <= L
      <4>1. k \in 1 .. L /\ delivered'[k] = delivered[k]
        BY <1>8, <3>1
      <4>2. delivered[k].iid = (from - L) + (k - 1)
        BY Zenon, <2>0, <4>1
      <4> QED  BY <1>0, <1>1, <1>8, <4>1, <4>2
    <3>2. CASE ~ (k <= L)
      <4>1. k - L \in 1 .. (n - from) /\ delivered'[k] = D[k - L]
        BY <1>0, <1>1, <1>8, <3>2
      <4>2. D[k - L].iid = from + (k - L) - 1
        BY Zenon, <1>6, <4>1
      <4> QED  BY <1>0, <1>1, <1>8, <4>1, <4>2
    <3> QED  BY Zenon, <3>1, <3>2
  <2>2. L + (n - from) < n
    BY <1>0, <1>1, <1>8, <2>0
  <2>3. \A t \in trims : t < n
    BY <1>0, <1>1, <2>0 DEF IInv
  <2>4. m' = m
    BY Zenon
  <2> QED  BY Zenon, <1>4, <1>5, <1>8, <2>0, <2>1, <2>2, <2>3 DEF Below
<1>11. EntriesInv(learner)'
  <2>1. \A e, i : EntryInv(e, i)' <=> EntryInv(e, i)
    BY <1>4 DEF EntryInv, SomeVote, ChosenIn, VotesIn
  <2> QED  BY Zenon, <1>4, <1>5, <2>1 DEF LearnerInv, EntriesInv
<1>12. IInv'
  BY Zenon, <1>4, <1>5, <1>8, <1>9, <1>10, <1>11 DEF IInv, OneValue, LearnerInv, Below
<1>13. Grows
  <2>1. n - from \in Nat
    BY <1>0, <1>1
  <2> QED  BY <1>8, <2>1 DEF Grows
<1> QED  BY Zenon, <1>12, <1>13

-----------------------------------------------------------------------------
(* A step that leaves the learner's table and output alone.                *)
LEMMA StutterKeepsIInv ==
  ASSUME IInv, UNCHANGED <<learner, delivered, trims, votes>>
  PROVE  IInv'
<1>1. \A e, i : EntryInv(e, i)' <=> EntryInv(e, i)
  BY DEF EntryInv, SomeVote, ChosenIn, VotesIn
<1>2. \A w : Quorate(votes, w)' <=> Quorate(votes, w)
  BY Zenon DEF Quorate, ChosenIn, VotesIn
<1>3. LearnerInv(learner)'
  BY Zenon, <1>1 DEF IInv, LearnerInv, EntriesInv, Below
<1>4. ValuesChosen'
  BY Zenon, <1>2 DEF IInv, ValuesChosen
<1> QED  BY Zenon, <1>3, <1>4 DEF IInv, OneValue

(* An acceptance reaches the learner, as a broadcast or as an answer.      *)
LEMMA AcceptedKeepsIInv ==
  ASSUME IInv, NEW w \in votes, OnAccepted(w), UNCHANGED <<trims, votes>>
  PROVE  IInv' /\ Grows
<1> DEFINE l == ReceiveAccepted(learner, w)
<1>1. LearnerInv(l) /\ ~ l.late_start
  BY Zenon, ReceiveAcceptedKeeps
<1>2. CASE ClosedBy(learner, w)
  <2>1. DeliverNextClosed(l)
    BY Zenon, <1>2 DEF OnAccepted
  <2> HIDE DEF l
  <2> QED  BY Zenon, <1>1, <2>1, DeliverKeepsIInv
<1>3. CASE ~ ClosedBy(learner, w)
  <2>1. learner' = l /\ delivered' = delivered
    BY Zenon, <1>3 DEF OnAccepted
  <2> HIDE DEF l
  <2>2. \A e, i : EntryInv(e, i)' <=> EntryInv(e, i)
    BY Zenon DEF EntryInv, SomeVote, ChosenIn, VotesIn
  <2>3. \A u : Quorate(votes, u)' <=> Quorate(votes, u)
    BY Zenon DEF Quorate, ChosenIn, VotesIn
  <2>4. LearnerInv(learner)'
    BY Zenon, <1>1, <2>1, <2>2 DEF LearnerInv, EntriesInv, Below
  <2>5. ValuesChosen'
    BY Zenon, <2>1, <2>3 DEF IInv, ValuesChosen
  <2>6. Grows
    BY <2>1, LenProperties DEF IInv, Grows
  <2> QED  BY Zenon, <2>1, <2>4, <2>5, <2>6 DEF IInv, OneValue
<1> QED  BY Zenon, <1>2, <1>3

(* A CHOSEN reaches the learner.                                           *)
LEMMA ChosenKeepsIInv ==
  ASSUME IInv, NEW w \in votes, Quorate(votes, w), OnChosen(w), UNCHANGED <<trims, votes>>
  PROVE  IInv' /\ Grows
<1> DEFINE l == ReceiveChosen(learner, w.iid, w.ballot, w.value)
<1>1. LearnerInv(l) /\ ~ l.late_start
  BY Zenon, ReceiveChosenKeeps
<1>2. DeliverNextClosed(l)
  BY Zenon DEF OnChosen
<1> HIDE DEF l
<1> QED  BY Zenon, <1>1, <1>2, DeliverKeepsIInv

(* A vote breaks no quorum and no count.                                   *)
LEMMA VoteKeepsIInv ==
  ASSUME IInv, NEW w \in PossibleVotes, Vote(w)
  PROVE  IInv'
<1>1. /\ votes' = votes \cup {w} /\ UNCHANGED <<learner, delivered, trims>>
      /\ \A u \in votes : u.iid = w.iid /\ u.ballot = w.ballot => u.value = w.value
  BY Zenon DEF Vote
<1>2. votes \subseteq votes' /\ votes' \subseteq PossibleVotes
  BY Zenon, <1>1 DEF IInv
<1>3. OneValue'
  BY <1>1 DEF IInv, OneValue
<1>4. \A i, b, v : /\ VotesIn(votes, i, b, v) \subseteq VotesIn(votes', i, b, v)
                   /\ ChosenIn(votes, i, b, v) => ChosenIn(votes', i, b, v)
  BY Zenon, <1>2, QuorumKept
<1>5. ASSUME NEW e, NEW i, EntryInv(e, i)
      PROVE  EntryInv(e, i)'
  <2>1. SomeVote(i, e.last_update_ballot, e.current_ballots_value)
          => SomeVote(i, e.last_update_ballot, e.current_ballots_value)'
    BY Zenon, <1>2 DEF SomeVote
  <2> QED  BY Zenon, <1>4, <1>5, <2>1 DEF EntryInv
<1>6. LearnerInv(learner)'
  BY Zenon, <1>1, <1>5 DEF IInv, LearnerInv, EntriesInv, Below
<1>7. ValuesChosen'
  <2>1. \A u : Quorate(votes, u) => Quorate(votes, u)'
    BY Zenon, <1>4 DEF Quorate
  <2> QED  BY Zenon, <1>1, <1>2, <2>1 DEF IInv, ValuesChosen
<1> QED  BY Zenon, <1>1, <1>2, <1>3, <1>6, <1>7 DEF IInv

(* Fields of the learner that its table and its position do not depend on. *)
LEMMA TrimFieldKeepsIInv ==
  ASSUME IInv, NEW t \in Nat, learner' = [learner EXCEPT !.trim_iid = t],
         UNCHANGED <<delivered, votes>>, trims' \subseteq Int,
         \A s \in trims' : s < learner.current_min_instance_to_execute,
         learner.late_start => trims' = {}
  PROVE  IInv'
<1>1. /\ learner' \in LearnerType /\ learner'.instances = learner.instances
      /\ learner'.late_start = learner.late_start
      /\ learner'.current_min_instance_to_execute = learner.current_min_instance_to_execute
  BY Zenon DEF IInv, LearnerInv, LearnerType
<1>2. \A e, i : EntryInv(e, i)' <=> EntryInv(e, i)
  BY Zenon DEF EntryInv, SomeVote, ChosenIn, VotesIn
<1>3. \A w : Quorate(votes, w)' <=> Quorate(votes, w)
  BY Zenon DEF Quorate, ChosenIn, VotesIn
<1>4. Below(learner)'
  BY Zenon, <1>1 DEF IInv, LearnerInv, Below
<1>5. EntriesInv(learner)'
  BY Zenon, <1>1, <1>2 DEF IInv, LearnerInv, EntriesInv
<1>6. ValuesChosen'
  BY Zenon, <1>3 DEF IInv, ValuesChosen
<1> QED  BY Zenon, <1>1, <1>4, <1>5, <1>6 DEF IInv, LearnerInv, OneValue

(* The hole timer: the trim it sends is one below the instance waited for, *)
(* and it sends none before the learner has started.                       *)
LEMMA CheckHolesKeepsIInv ==
  ASSUME IInv, CheckHoles
  PROVE  IInv'
<1> DEFINE t == GetInstanceToTrim(learner)
<1>0. /\ learner.current_min_instance_to_execute \in Nat \ {0} /\ learner.trim_iid \in Nat
      /\ t = learner.current_min_instance_to_execute - 1
      /\ \A s \in trims : s < learner.current_min_instance_to_execute
      /\ learner.late_start => learner.current_min_instance_to_execute = 1
      /\ trims \subseteq Int
  BY Zenon DEF IInv, LearnerInv, LearnerType, Below, GetInstanceToTrim
<1>1. CASE UNCHANGED <<learner, trims>>
  <2>1. UNCHANGED <<learner, delivered, trims, votes>>
    BY Zenon, <1>1 DEF CheckHoles, peers
  <2> QED  BY Zenon, <2>1, StutterKeepsIInv
<1>2. CASE /\ t > learner.trim_iid /\ learner' = [learner EXCEPT !.trim_iid = t]
           /\ trims' = trims \cup {t}
  <2>1. UNCHANGED <<delivered, votes>>
    BY Zenon DEF CheckHoles, peers
  <2>2. t \in Nat /\ trims' \subseteq Int /\ ~ learner.late_start
    BY <1>0, <1>2
  <2>3. \A s \in trims' : s < learner.current_min_instance_to_execute
    BY <1>0, <1>2
  <2> HIDE DEF t
  <2> QED  BY Zenon, <1>2, <2>1, <2>2, <2>3, TrimFieldKeepsIInv
<1> QED  BY Zenon, <1>1, <1>2 DEF CheckHoles

(* Restoring a checkpoint, before anything was received or delivered.      *)
LEMMA RestoreKeepsIInv ==
  ASSUME IInv, NEW iid \in Instances, RestoreInstanceId(iid)
  PROVE  IInv'
<1>1. /\ learner = NewLearner(FALSE) /\ learner' = SetInstanceId(learner, iid)
      /\ UNCHANGED <<delivered, trims, votes>> /\ iid \in Nat \ {0}
  BY Zenon, LearnerAssumption DEF RestoreInstanceId, peers
<1>2. /\ learner.current_min_instance_to_execute = 1
      /\ learner'.current_min_instance_to_execute = iid + 1
      /\ learner' \in LearnerType /\ ~ learner'.late_start
      /\ \A i \in Instances : learner'.instances[i] = NULL
  <2>1. /\ learner.current_min_instance_to_execute = 1 /\ ~ learner.late_start
        /\ \A i \in Instances : learner.instances[i] = NULL
    BY Zenon, <1>1 DEF NewLearner
  <2>2. learner \in LearnerType
    BY Zenon DEF IInv, LearnerInv
  <2>3. learner' = [learner EXCEPT !.current_min_instance_to_execute = iid + 1,
                                   !.highest_instance_chosen = iid]
    BY Zenon, <1>1 DEF SetInstanceId
  <2>4. iid + 1 \in Nat \ {0} /\ iid \in Nat
    BY <1>1
  <2>5. /\ learner' \in LearnerType /\ learner'.current_min_instance_to_execute = iid + 1
        /\ learner'.late_start = learner.late_start /\ learner'.instances = learner.instances
    BY Zenon, <2>2, <2>3, <2>4 DEF LearnerType
  <2> QED  BY Zenon, <2>1, <2>5
<1>3. Len(delivered) = 0 /\ \A t \in trims : t \in Int /\ t < 1
  <2>1. delivered \in Seq(Delivery) /\ trims \subseteq Int /\ Below(learner)
    BY Zenon DEF IInv, LearnerInv
  <2>2. Len(delivered) < 1 /\ \A t \in trims : t < 1
    BY Zenon, <1>2, <2>1 DEF Below
  <2>3. Len(delivered) \in Nat
    BY Zenon, <2>1, LenProperties
  <2>4. Len(delivered) = 0
    BY <2>2, <2>3
  <2> QED  BY Zenon, <2>1, <2>2, <2>4
<1>4. Below(learner)'
  <2>1. delivered' = delivered /\ trims' = trims /\ Len(delivered') = 0
    BY Zenon, <1>1, <1>3
  <2>2. \A t \in trims : t < iid + 1
    BY <1>1, <1>3
  <2>3. 0 < iid + 1
    BY <1>1
  <2> QED  BY <1>2, <2>1, <2>2, <2>3 DEF Below
<1>5. EntriesInv(learner)'
  BY Zenon, <1>2 DEF EntriesInv
<1>6. ValuesChosen'
  BY <1>1, <1>3 DEF ValuesChosen
<1> QED  BY Zenon, <1>1, <1>2, <1>4, <1>5, <1>6 DEF IInv, LearnerInv, OneValue

(* A learner that was just created satisfies the invariant.                *)
LEMMA InitIInv == Init => IInv
<1> SUFFICES ASSUME Init PROVE IInv
  BY Zenon
<1>1. PICK late \in BOOLEAN : learner = NewLearner(late)
  BY Zenon DEF Init
<1>2. delivered = <<>> /\ trims = {} /\ votes = {} /\ Len(delivered) = 0
  BY Zenon DEF Init
<1>3. /\ learner \in LearnerType /\ learner.current_min_instance_to_execute = 1
      /\ \A i \in Instances : learner.instances[i] = NULL
  BY <1>1 DEF NewLearner, LearnerType
<1>4. LearnerInv(learner)
  BY <1>2, <1>3 DEF LearnerInv, EntriesInv, Below
<1> QED  BY <1>2, <1>4, EmptySeq DEF IInv, OneValue, ValuesChosen

(* Every step keeps the invariant.                                         *)
LEMMA NextKeepsIInv == IInv /\ [Next]_vars => IInv'
<1> SUFFICES ASSUME IInv, [Next]_vars PROVE IInv'
  BY Zenon
<1>1. CASE UNCHANGED vars
  BY Zenon, <1>1, StutterKeepsIInv DEF vars
<1>2. ASSUME NEW w \in PossibleVotes, Vote(w) PROVE IInv'
  BY Zenon, <1>2, VoteKeepsIInv
<1>3. ASSUME NEW a, NEW i, Forget(a, i) PROVE IInv'
  BY Zenon, <1>3, StutterKeepsIInv DEF Forget
<1>4. ASSUME NEW a \in Acceptors, NEW i \in Instances, Answer(a, i) PROVE IInv'
  <2>1. UNCHANGED <<trims, votes>>
    BY Zenon, <1>4 DEF Answer, peers
  <2>2. ASSUME NEW w \in LastVote(a, i), OnAccepted(w) PROVE IInv'
    <3>1. w \in votes
      BY Zenon DEF LastVote
    <3> QED  BY Zenon, <2>1, <2>2, <3>1, AcceptedKeepsIInv
  <2>3. ASSUME NEW w \in votes, Quorate(votes, w), OnChosen(w) PROVE IInv'
    BY Zenon, <2>1, <2>3, ChosenKeepsIInv
  <2>4. CASE UNCHANGED <<learner, delivered>>
    BY Zenon, <2>1, <2>4, StutterKeepsIInv
  <2> QED  BY Zenon, <1>4, <2>2, <2>3, <2>4 DEF Answer
<1>5. ASSUME NEW w \in votes, HandleAccepted(w) PROVE IInv'
  BY Zenon, <1>5, AcceptedKeepsIInv DEF HandleAccepted, peers
<1>6. ASSUME NEW w \in votes, HandleChosen(w) PROVE IInv'
  BY Zenon, <1>6, ChosenKeepsIInv DEF HandleChosen, peers
<1>7. ASSUME NEW t \in Instances, HandleTrim(t) PROVE IInv'
  <2>1. /\ learner' = [learner EXCEPT !.trim_iid = t] /\ t \in Nat
        /\ UNCHANGED <<delivered, trims, votes>>
    BY Zenon, <1>7, LearnerAssumption DEF HandleTrim, peers
  <2>2. /\ trims' \subseteq Int /\ (learner.late_start => trims' = {})
        /\ \A s \in trims' : s < learner.current_min_instance_to_execute
    BY Zenon, <2>1 DEF IInv, LearnerInv, Below
  <2> QED  BY Zenon, <2>1, <2>2, TrimFieldKeepsIInv
<1>8. ASSUME NEW t \in Instances, RestoreInstanceId(t) PROVE IInv'
  BY Zenon, <1>8, RestoreKeepsIInv
<1>9. CASE CheckHoles
  BY Zenon, <1>9, CheckHolesKeepsIInv
<1> QED  BY <1>1, <1>2, <1>3, <1>4, <1>5, <1>6, <1>7, <1>8, <1>9 DEF Next

-----------------------------------------------------------------------------
(* The inductive invariant holds in every reachable state.                 *)
THEOREM Invariance == Spec => []IInv
BY InitIInv, NextKeepsIInv, PTL DEF Spec

(* Every value the delivery callback is given was accepted by q2 acceptors *)
(* at one ballot of its instance, and the instances come in order, without *)
(* gap or repetition: evlearner.c hands out nothing else.                  *)
THEOREM DeliversOnlyChosen == Spec => []DeliveredIsChosen
<1>1. IInv => DeliveredIsChosen
  BY Zenon DEF IInv, ValuesChosen, LearnerInv, Below, DeliveredIsChosen
<1> QED  BY <1>1, Invariance, PTL

(* No TRIM the hole timer sends covers an instance the learner still waits *)
(* for or one from its first delivery on that was not chosen.              *)
THEOREM TrimsAreDelivered == Spec => []TrimsOnlyDelivered
<1>1. IInv => TrimsOnlyDelivered
  <2> SUFFICES ASSUME IInv, NEW t \in trims
               PROVE  /\ t < learner.current_min_instance_to_execute
                      /\ \A i \in (learner.current_min_instance_to_execute - Len(delivered)) .. t :
                           \E w \in votes : w.iid = i /\ Quorate(votes, w)
    BY Zenon DEF TrimsOnlyDelivered
  <2> DEFINE cm == learner.current_min_instance_to_execute
             L == Len(delivered)
  <2>1. /\ t \in Int /\ t < cm /\ cm \in Nat /\ L \in Nat
        /\ \A k \in 1 .. L : delivered[k].iid = (cm - L) + (k - 1)
    BY Zenon, LenProperties DEF IInv, LearnerInv, LearnerType, Below
  <2>2. ASSUME NEW i \in (cm - L) .. t
        PROVE  \E w \in votes : w.iid = i /\ Quorate(votes, w)
    <3> DEFINE k == (i - (cm - L)) + 1
    <3>1. k \in 1 .. L /\ (cm - L) + (k - 1) = i
      BY <2>1, <2>2
    <3> HIDE DEF k
    <3>2. delivered[k].iid = i
      BY Zenon, <2>1, <3>1
    <3> QED  BY Zenon, <3>1, <3>2 DEF IInv, ValuesChosen
  <2> QED  BY Zenon, <2>1, <2>2
<1> QED  BY <1>1, Invariance, PTL
-----------------------------------------------------------------------------
(* A vote decides at most the instance it is for, and never anew.          *)
LEMMA VoteDecides ==
  ASSUME IInv, NEW w \in PossibleVotes, Vote(w)
  PROVE  Log!Decide \/ UNCHANGED <<DecidedEntries, delivered>>
<1> DEFINE Pair(u) == [iid |-> u.iid, value |-> u.value]
           V == votes \cup {w}
           new == Pair(w)
<1>1. /\ votes' = V /\ delivered' = delivered
      /\ \A u, t \in V : u.iid = t.iid /\ Quorate(V, u) /\ Quorate(V, t) => u.value = t.value
      /\ votes \subseteq V /\ V \subseteq PossibleVotes
  BY Zenon DEF Vote, IInv
<1>2. ASSUME NEW u \in votes, Quorate(votes, u) PROVE Quorate(V, u)
  BY Zenon, <1>1, <1>2, QuorumKept DEF Quorate
<1>3. ASSUME NEW u \in V, Quorate(V, u) PROVE Pair(u) = new \/ Pair(u) \in DecidedEntries
  <2>1. CASE u.iid = w.iid /\ u.value = w.value
    BY Zenon, <2>1
  <2>2. CASE ~ (u.iid = w.iid /\ u.value = w.value)
    <3>1. u \in votes /\ VotesIn(V, u.iid, u.ballot, u.value) = VotesIn(votes, u.iid, u.ballot, u.value)
      BY Zenon, <2>2 DEF VotesIn
    <3>2. Quorate(votes, u)
      BY Zenon, <1>3, <3>1 DEF Quorate, ChosenIn
    <3> QED  BY Zenon, <3>1, <3>2 DEF DecidedEntries
  <2> QED  BY Zenon, <2>1, <2>2
<1>4. DecidedEntries' = {Pair(u) : u \in {t \in V : Quorate(V, t)}}
  BY Zenon, <1>1 DEF DecidedEntries, Quorate, ChosenIn, VotesIn
<1>5. DecidedEntries \subseteq DecidedEntries'
  BY Zenon, <1>2, <1>4 DEF DecidedEntries
<1>6. DecidedEntries' \subseteq DecidedEntries \cup {new}
  BY Zenon, <1>3, <1>4
<1>7. CASE DecidedEntries' = DecidedEntries
  BY Zenon, <1>1, <1>7
<1>8. CASE DecidedEntries' # DecidedEntries
  <2>1. new \notin DecidedEntries /\ new \in DecidedEntries'
        /\ DecidedEntries' = DecidedEntries \cup {new}
    BY Zenon, <1>5, <1>6, <1>8
  <2>2. PICK u \in V : Quorate(V, u) /\ Pair(u) = new
    BY Zenon, <1>4, <2>1
  <2>3. u.iid = w.iid /\ u.value = w.value
    BY Zenon, <2>2
  <2>4. ASSUME NEW d \in DecidedEntries PROVE d.iid # w.iid
    <3>1. PICK t \in votes : Quorate(votes, t) /\ d = Pair(t)
      BY Zenon DEF DecidedEntries
    <3>2. t \in V /\ Quorate(V, t)
      BY Zenon, <1>2, <3>1
    <3>3. t.iid = w.iid => t.value = w.value
      BY Zenon, <1>1, <2>2, <2>3, <3>2
    <3> QED  BY Zenon, <2>1, <3>1, <3>3
  <2>5. new \in Log!LogEntry
    BY Zenon, LearnerAssumption DEF Log!LogEntry
  <2> QED  BY Zenon, <1>1, <2>1, <2>4, <2>5 DEF Log!Decide
<1> QED  BY Zenon, <1>7, <1>8

(* A step that casts no vote extends the log or leaves it.                 *)
LEMMA GrowthDelivers ==
  ASSUME IInv, IInv', votes' = votes, Grows
  PROVE  Log!Deliver \/ UNCHANGED <<DecidedEntries, delivered>>
<1>1. DecidedEntries' = DecidedEntries
  BY Zenon DEF DecidedEntries, Quorate, ChosenIn, VotesIn
<1>2. /\ delivered \in Seq(Delivery) /\ delivered' \in Seq(Delivery)
      /\ Len(delivered) \in Nat /\ Len(delivered') \in Nat
  BY Zenon, LenProperties DEF IInv
<1>3. CASE Len(delivered') = Len(delivered)
  <2>1. delivered' = delivered
    BY Zenon, <1>2, <1>3, SeqEqual DEF Grows
  <2> QED  BY Zenon, <1>1, <2>1
<1>4. CASE Len(delivered') # Len(delivered)
  <2>1. Len(delivered') > Len(delivered)
    BY <1>2, <1>4 DEF Grows
  <2>2. ASSUME NEW k \in 1 .. Len(delivered') PROVE delivered'[k] \in DecidedEntries
    <3>1. delivered'[k] \in Delivery
      BY Zenon, <1>2, ElementOfSeq
    <3>2. PICK w \in votes' : /\ w.iid = delivered'[k].iid /\ w.value = delivered'[k].value
                             /\ Quorate(votes, w)'
      BY Zenon DEF IInv, ValuesChosen
    <3>3. delivered'[k] = [iid |-> w.iid, value |-> w.value]
      BY Zenon, <3>1, <3>2 DEF Delivery
    <3> QED  BY Zenon, <1>1, <3>2, <3>3 DEF DecidedEntries
  <2>3. ASSUME NEW k \in 1 .. (Len(delivered') - 1)
        PROVE  delivered'[k + 1].iid = delivered'[k].iid + 1
    <3> DEFINE cm == learner'.current_min_instance_to_execute
               N == Len(delivered')
    <3>1. cm \in Nat /\ \A j \in 1 .. N : delivered'[j].iid = (cm - N) + (j - 1)
      BY Zenon DEF IInv, LearnerInv, LearnerType, Below
    <3> HIDE DEF cm
    <3>2. /\ delivered'[k].iid = (cm - N) + (k - 1)
          /\ delivered'[k + 1].iid = (cm - N) + ((k + 1) - 1)
      BY <1>2, <3>1
    <3> QED  BY <1>2, <3>1, <3>2
  <2> QED  BY <1>1, <1>2, <2>1, <2>2, <2>3 DEF Log!Deliver, Grows
<1> QED  BY Zenon, <1>3, <1>4

(* Every step of the learner and its acceptors is one of the log's, or     *)
(* leaves the log as it is.                                                *)
LEMMA NextImplementsLog ==
  IInv /\ IInv' /\ [Next]_vars => [Log!Next]_<<DecidedEntries, delivered>>
<1> SUFFICES ASSUME IInv, IInv', [Next]_vars
             PROVE  Log!Next \/ UNCHANGED <<DecidedEntries, delivered>>
  BY Zenon
<1> DEFINE Goal == Log!Next \/ UNCHANGED <<DecidedEntries, delivered>>
<1>1. ASSUME votes' = votes, delivered' = delivered PROVE Goal
  BY Zenon, <1>1 DEF DecidedEntries, Quorate, ChosenIn, VotesIn
<1>2. ASSUME votes' = votes, Grows PROVE Goal
  BY Zenon, <1>2, GrowthDelivers DEF Log!Next
<1>3. ASSUME NEW w \in PossibleVotes, Vote(w) PROVE Goal
  BY Zenon, <1>3, VoteDecides DEF Log!Next
<1> HIDE DEF Goal
<1>4. ASSUME NEW a \in Acceptors, NEW i \in Instances, Answer(a, i) PROVE Goal
  <2>1. UNCHANGED <<trims, votes>>
    BY Zenon, <1>4 DEF Answer, peers
  <2>2. ASSUME NEW w \in LastVote(a, i), OnAccepted(w) PROVE Goal
    <3>1. w \in votes
      BY Zenon DEF LastVote
    <3> QED  BY Zenon, <1>2, <2>1, <2>2, <3>1, AcceptedKeepsIInv
  <2>3. ASSUME NEW w \in votes, Quorate(votes, w), OnChosen(w) PROVE Goal
    BY Zenon, <1>2, <2>1, <2>3, ChosenKeepsIInv
  <2>4. ASSUME UNCHANGED <<learner, delivered>> PROVE Goal
    BY Zenon, <1>1, <2>1, <2>4
  <2> QED  BY Zenon, <1>4, <2>2, <2>3, <2>4 DEF Answer
<1>5. ASSUME NEW w \in votes, HandleAccepted(w) PROVE Goal
  BY Zenon, <1>2, <1>5, AcceptedKeepsIInv DEF HandleAccepted, peers
<1>6. ASSUME NEW w \in votes, HandleChosen(w) PROVE Goal
  BY Zenon, <1>2, <1>6, ChosenKeepsIInv DEF HandleChosen, peers
<1>7. ASSUME UNCHANGED vars PROVE Goal
  BY Zenon, <1>1, <1>7 DEF vars
<1>8. ASSUME CheckHoles PROVE Goal
  BY Zenon, <1>1, <1>8 DEF CheckHoles, peers
<1>9. ASSUME NEW a, NEW i, Forget(a, i) PROVE Goal
  BY Zenon, <1>1, <1>9 DEF Forget
<1>10. ASSUME NEW t, HandleTrim(t) PROVE Goal
  BY Zenon, <1>1, <1>10 DEF HandleTrim, peers
<1>11. ASSUME NEW t, RestoreInstanceId(t) PROVE Goal
  BY Zenon, <1>1, <1>11 DEF RestoreInstanceId, peers
<1>12. Goal
  BY <1>3, <1>4, <1>5, <1>6, <1>7, <1>8, <1>9, <1>10, <1>11 DEF Next
<1> QED  BY Zenon, <1>12 DEF Goal

(* The learner implements the replicated log: the delivery callback gets   *)
(* decided values only, one for each instance from the first on, in order, *)
(* and nothing delivered or decided is ever taken back.                    *)
THEOREM LearnerImplementsLog == Spec => ImplementsLog
<1>1. Init => Log!Init
  BY Zenon DEF Init, Log!Init, DecidedEntries
<1> QED  BY <1>1, Invariance, NextImplementsLog, PTL DEF Spec, ImplementsLog, Log!Spec
=============================================================================
