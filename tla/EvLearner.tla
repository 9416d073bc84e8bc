----------------------------- MODULE EvLearner -----------------------------
(***************************************************************************)
(* The event loop of a learner (evpaxos/evlearner.c) among acceptors that  *)
(* vote, answer its repeats and in time forget.  The acceptors are         *)
(* reduced to their votes: each votes at rising ballots, a ballot carries  *)
(* one value and no two values are chosen in an instance.                  *)
(*                                                                         *)
(* An acceptance is sent to the learner when it is made; it may come late, *)
(* or not at all when the connection is down.                              *)
(***************************************************************************)
EXTENDS Learner, Sequences, Integers

CONSTANTS
  PossibleVotes,   \* bound: the votes acceptors may cast
  Forgetful,       \* bound: the acceptors that trims reach
  Chunks           \* paxos_config.lnr_missing_chunks_before_repeats

ASSUME LearnerAssumption ==
  /\ q2 \in Nat \ {0} /\ Chunks \in Nat
  /\ IsFiniteSet(Acceptors) /\ IsFiniteSet(Instances) /\ Instances \subseteq Nat \ {0}
  /\ NULL \notin Values /\ Forgetful \subseteq Acceptors
  /\ PossibleVotes \subseteq [aid : Acceptors, iid : Instances,
                              ballot : Ballot \ {INVALID_BALLOT}, value : Values]

VARIABLES
  learner,     \* struct learner
  delivered,   \* what the delivery callback was given, in order
  trims,       \* TRIM messages the learner sent
  asked,       \* <<acceptor, instance>> of the repeats under way
  votes,       \* the acceptances of all acceptors
  forgotten    \* <<acceptor, instance>> erased from an acceptor's memory

vars == <<learner, delivered, trims, asked, votes, forgotten>>

peers == <<votes, forgotten>>

Init ==
  /\ \E late \in BOOLEAN : learner = NewLearner(late)
  /\ delivered = <<>> /\ trims = {} /\ asked = {} /\ votes = {} /\ forgotten = {}

-----------------------------------------------------------------------------
VotesIn(V, i, b, v) == {w.aid : w \in {u \in V : u.iid = i /\ u.ballot = b /\ u.value = v}}

ChosenIn(V, i, b, v) == Cardinality(VotesIn(V, i, b, v)) >= q2

(* The votes V hold a quorum for the pair of this one.                     *)
Quorate(V, w) == ChosenIn(V, w.iid, w.ballot, w.value)

Vote(w) ==
  LET V == votes \cup {w} IN
  /\ \A u \in votes : u.aid = w.aid /\ u.iid = w.iid => ballot_greater_than(w.ballot, u.ballot)
  /\ \A u \in votes : u.iid = w.iid /\ u.ballot = w.ballot => u.value = w.value
  /\ \A u, t \in V : u.iid = t.iid /\ Quorate(V, u) /\ Quorate(V, t) => u.value = t.value
  /\ votes' = V
  /\ UNCHANGED <<learner, delivered, trims, asked, forgotten>>

(* A trim, caused by another learner or by this one, reaches acceptor a.   *)
Forget(a, i) ==
  /\ a \in Forgetful
  /\ \E w \in votes : w.iid = i /\ Quorate(votes, w)
  /\ forgotten' = forgotten \cup {<<a, i>>}
  /\ UNCHANGED <<learner, delivered, trims, asked, votes>>

-----------------------------------------------------------------------------
(* evlearner_deliver_next_closed, from state l.                            *)
DeliverNextClosed(l) ==
  /\ learner' = Delivered(l)
  /\ delivered' = delivered \o Delivers(l)

OnAccepted(w) ==
  LET l == ReceiveAccepted(learner, w) IN
  IF ClosedBy(learner, w) THEN DeliverNextClosed(l)
                          ELSE learner' = l /\ UNCHANGED delivered

OnChosen(w) == DeliverNextClosed(ReceiveChosen(learner, w.iid, w.ballot, w.value))

HandleAccepted(w) ==
  /\ OnAccepted(w)
  /\ UNCHANGED <<trims, asked, peers>>

HandleChosen(w) ==
  /\ Quorate(votes, w)
  /\ OnChosen(w)
  /\ UNCHANGED <<trims, asked, peers>>

(* TRIM messages of others are believed as they come, down as well as up.  *)
HandleTrim(t) ==
  /\ learner' = [learner EXCEPT !.trim_iid = t]
  /\ UNCHANGED <<delivered, trims, asked, peers>>

(* evlearner_check_holes: ask every acceptor for the first instances that  *)
(* are missing, or, when none is, send a trim.                             *)
CheckHoles ==
  LET from == learner.current_min_instance_to_execute
      highest == learner.highest_instance_chosen
      to == IF highest - from > Chunks THEN from + Chunks ELSE highest
      next_trim == GetInstanceToTrim(learner)
  IN /\ \/ /\ HasHoles(learner)
           /\ asked' = asked \cup (Acceptors \X {i \in Instances : from <= i /\ i <= to})
           /\ UNCHANGED <<learner, trims>>
        \/ /\ ~ HasHoles(learner) /\ next_trim > learner.trim_iid
           /\ learner' = [learner EXCEPT !.trim_iid = next_trim]
           /\ trims' = trims \cup {next_trim}
           /\ UNCHANGED asked
     /\ UNCHANGED <<delivered, peers>>

(* The last vote of a in i, if a still has one.                            *)
LastVote(a, i) ==
  {w \in votes : /\ w.aid = a /\ w.iid = i /\ <<a, i>> \notin forgotten
                 /\ \A u \in votes : u.aid = a /\ u.iid = i =>
                      ballot_greater_than_or_equal(w.ballot, u.ballot)}

(* The answer to a repeat arrives: the last vote, or a CHOSEN when the     *)
(* acceptor was told of the choice, or nothing.                            *)
Answer(a, i) ==
  /\ <<a, i>> \in asked
  /\ asked' = asked \ {<<a, i>>}
  /\ \/ \E w \in LastVote(a, i) : OnAccepted(w)
     \/ \E w \in votes : /\ w.iid = i /\ Quorate(votes, w) /\ <<a, i>> \notin forgotten
                         /\ OnChosen(w)
     \/ LastVote(a, i) = {} /\ UNCHANGED <<learner, delivered>>
  /\ UNCHANGED <<trims, peers>>

(* The application restores a checkpoint before the first message comes.   *)
(* With learner_catch_up off the first message would override it, so the   *)
(* two are not combined.                                                   *)
RestoreInstanceId(iid) ==
  /\ learner = NewLearner(FALSE)
  /\ \A i \in Instances : i <= iid => \E w \in votes : w.iid = i /\ Quorate(votes, w)
  /\ learner' = SetInstanceId(learner, iid)
  /\ UNCHANGED <<delivered, trims, asked, peers>>

Next ==
  \/ \E w \in PossibleVotes \ votes : Vote(w)
  \/ \E a \in Acceptors, i \in Instances : Forget(a, i) \/ Answer(a, i)
  \/ \E w \in votes : HandleAccepted(w) \/ HandleChosen(w)
  \/ \E t \in Instances : HandleTrim(t) \/ RestoreInstanceId(t)
  \/ CheckHoles

Spec == Init /\ [][Next]_vars

(* The hole timer is set again each time it fires, and repeats and their   *)
(* answers go over TCP connections that are up in the end.                 *)
FairSpec ==
  /\ Spec
  /\ WF_vars(CheckHoles)
  /\ \A a \in Acceptors, i \in Instances : WF_vars(Answer(a, i))

-----------------------------------------------------------------------------
(* Every value handed to the application is one that q2 acceptors accepted *)
(* at one ballot of its instance, and the instances come without gap or    *)
(* repetition, up to the one the learner waits for.                        *)
DeliveredIsChosen ==
  /\ \A k \in 1 .. Len(delivered) :
       \E w \in votes : /\ w.iid = delivered[k].iid /\ w.value = delivered[k].value
                        /\ Quorate(votes, w)
  /\ \A k \in 1 .. Len(delivered) :
       delivered[k].iid = (learner.current_min_instance_to_execute - Len(delivered)) + (k - 1)

(* The pairs of an instance and the value chosen in it.                    *)
DecidedEntries ==
  {[iid |-> w.iid, value |-> w.value] : w \in {u \in votes : Quorate(votes, u)}}

Log == INSTANCE ReplicatedLog WITH decided <- DecidedEntries, log <- delivered

(* What the learner hands to the application is a replicated log of what   *)
(* the acceptors chose: each value once, in order, without a gap from the  *)
(* first one on, never taken back.                                         *)
ImplementsLog == Log!Spec

(* A TRIM the learner sends covers no instance it still waits for, nor any *)
(* from its first delivery on that is not chosen, whatever trims of others *)
(* it was sent in between.                                                 *)
TrimsOnlyDelivered ==
  \A t \in trims :
    /\ t < learner.current_min_instance_to_execute
    /\ \A i \in (learner.current_min_instance_to_execute - Len(delivered)) .. t :
         \E w \in votes : w.iid = i /\ Quorate(votes, w)

(* The last votes for i hold a quorum at one ballot, not below the one the *)
(* learner has seen for i.                                                 *)
Answerable(i) ==
  \E w \in votes :
    /\ w.iid = i
    /\ Cardinality({a \in Acceptors : \E u \in LastVote(a, i) : u.ballot = w.ballot}) >= q2
    /\ learner.instances[i] # NULL =>
         ballot_greater_than_or_equal(w.ballot, learner.instances[i].last_update_ballot)

WaitsFor(i) ==
  learner.current_min_instance_to_execute = i /\ learner.highest_instance_chosen > i

(* A hole below the highest chosen instance is filled in the end, if from  *)
(* some time on the acceptors can answer for it.                           *)
HolesFilled == \A i \in Instances : <>[]Answerable(i) => []<> ~ WaitsFor(i)
=============================================================================
