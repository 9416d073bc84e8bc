--------------------- MODULE EvWriteAheadBallotAcceptor ---------------------
(***************************************************************************)
(* The event-loop wrapper of the write-ahead acceptor                      *)
(* (evpaxos/ev_write_ahead_ballot_acceptor.c) among open peers, which send *)
(* any request in any order and any number of times, and its two timers:   *)
(* one looks for instances that are flagged, the other writes their next   *)
(* ballots ahead.                                                          *)
(***************************************************************************)
EXTENDS WriteAheadBallotAcceptor

CONSTANTS
  PrepareRequests,  \* what the peers may send: <<iid, ballot>>,
  AcceptRequests,   \*   <<iid, ballot, value>>,
  ChosenNotices,    \*   <<iid, ballot, value>>,
  TrimNotices       \*   iid

RequestBallot == [number : Nat \ {0}, proposer_id : {n \in Nat : n < MaxProposerId}]

ASSUME WriteAheadRequestsAssumption ==
  /\ \A r \in PrepareRequests : r[1] \in Instances /\ r[2] \in RequestBallot
  /\ \A r \in AcceptRequests \cup ChosenNotices :
       r[1] \in Instances /\ r[2] \in RequestBallot /\ r[3] \in Values
  /\ TrimNotices \subseteq Nat
  /\ \A r, s \in AcceptRequests \cup ChosenNotices :    \* a ballot has one value
       r[1] = s[1] /\ r[2] = s[2] => r[3] = s[3]

VARIABLES
  checking,   \* ballot_window_check_event is pending
  writing,    \* ballot_window_iteration_event is pending
  promises,   \* PROMISE messages sent
  votes,      \* ACCEPTED messages sent
  told        \* CHOSEN messages received, with the acceptor that received them

timers == <<checking, writing>>
vars == <<accVars, timers, promises, votes, told>>

ofType(t, msgs) == {m \in msgs : m.type = t}

Send(msgs) ==
  /\ promises' = promises \cup ofType("PROMISE", msgs)
  /\ votes' = votes \cup ofType("ACCEPTED", msgs)

Init ==
  /\ AccInit
  /\ checking = [a \in Acceptors |-> TRUE] /\ writing = [a \in Acceptors |-> FALSE]
  /\ promises = {} /\ votes = {} /\ told = {}

HandlePrepare(a, i, b, st) ==
  /\ ReceivePrepare(a, i, b, st)
  /\ Send(PrepareReply(a, i, b, st))
  /\ UNCHANGED <<timers, told>>

HandleAccept(a, i, b, v, st) ==
  /\ ReceiveAccept(a, i, b, v, st)
  /\ Send(AcceptReply(a, i, b, v, st))
  /\ UNCHANGED <<timers, told>>

HandleRepeat(a, from, to) ==
  /\ Send(UNION {RepeatReply(a, i) : i \in {j \in Instances : from <= j /\ j <= to}})
  /\ UNCHANGED <<accVars, timers, told>>

HandleChosen(a, i, b, v, st) ==
  /\ ReceiveChosen(a, i, b, v, st)
  /\ told' = told \cup {[aid |-> a, iid |-> i, ballot |-> b, value |-> v]}
  /\ UNCHANGED <<timers, promises, votes>>

HandleTrim(a, iid, st) ==
  /\ ReceiveTrim(a, iid, st)
  /\ UNCHANGED <<timers, promises, votes, told>>

(* The check is not set again unless it finds something to write.          *)
CheckBallotWindowEvent(a) ==
  /\ checking[a]
  /\ checking' = [checking EXCEPT ![a] = FALSE]
  /\ writing' = [writing EXCEPT ![a] = @ \/ flagged[a] # {}]
  /\ UNCHANGED <<accVars, promises, votes, told>>

WriteBallotEvent(a) ==
  /\ writing[a]
  /\ WriteBallotWindow(a)
  /\ writing' = [writing EXCEPT ![a] = FALSE]
  /\ checking' = [checking EXCEPT ![a] = TRUE]
  /\ UNCHANGED <<promises, votes, told>>

RestartAcceptor(a, st) ==
  /\ Restart(a, st)
  /\ checking' = [checking EXCEPT ![a] = TRUE]
  /\ writing' = [writing EXCEPT ![a] = FALSE]
  /\ UNCHANGED <<promises, votes, told>>

Next ==
  \E a \in Acceptors, st \in StorageOutcomes :
    \/ \E r \in PrepareRequests : HandlePrepare(a, r[1], r[2], st)
    \/ \E r \in AcceptRequests : HandleAccept(a, r[1], r[2], r[3], st)
    \/ \E from, to \in Instances : HandleRepeat(a, from, to)
    \/ \E r \in ChosenNotices : HandleChosen(a, r[1], r[2], r[3], st)
    \/ \E i \in TrimNotices : HandleTrim(a, i, st)
    \/ CheckBallotWindowEvent(a)
    \/ WriteBallotEvent(a)
    \/ RestartAcceptor(a, st)

Spec == Init /\ [][Next]_vars

-----------------------------------------------------------------------------
(* State and messages keep their types.  In particular every ACCEPTED, the *)
(* answers to a REPEAT included, carries a value that was voted for.       *)
TypeOK ==
  /\ AccTypeOK
  /\ checking \in [Acceptors -> BOOLEAN] /\ writing \in [Acceptors -> BOOLEAN]
  /\ \A p \in promises : p.aid \in Acceptors /\ p.iid \in Instances
  /\ \A w \in votes : w.aid \in Acceptors /\ w.iid \in Instances /\ w.value \in Values

-----------------------------------------------------------------------------
(* Instances of a whose records were all written as they were meant to be. *)
Intact(a) == Instances \ (unwritten[a] \cup unfenced[a] \cup reopened[a])

(* The copy in memory holds what the disk holds, for every instance that   *)
(* is not trimmed: a written-ahead promise is taken to be on disk when it  *)
(* is in the copy.  It holds until a commit fails or the timer writes.     *)
DuplicateMirrorsDisk ==
  \A a \in Acceptors : \A i \in Instances \ (unwritten[a] \cup reopened[a]) :
    i > trim_instance[a] /\ i > disk_trim[a] => dup[a][i] = disk[a][i]

(* Every promise and every vote given is at or below the promise on disk,  *)
(* although most promises are never written, and stays so over restarts.   *)
WrittenAhead ==
  \A m \in promises \cup votes : m.iid \in Intact(m.aid) =>
    ballot_greater_than_or_equal(disk[m.aid][m.iid].promise_ballot, m.ballot)

(* A promise for a ballot reports a vote at least as high as every vote    *)
(* below that ballot the acceptor ever casts, before or after the promise, *)
(* although the promise itself is forgotten in a restart.                  *)
PromiseReportsVotes ==
  \A p \in promises, w \in votes :
    /\ p.aid = w.aid /\ p.iid = w.iid /\ p.iid \in Intact(p.aid)
    /\ ballot_greater_than(p.ballot, w.ballot)
    => ballot_greater_than_or_equal(p.value_ballot, w.ballot)

(* The two stores a CHOSEN answer may be taken from agree, on a choice the *)
(* acceptor was told of or on a vote of its own that is not below one.     *)
ChosenAnswerGrounded ==
  \A a \in Acceptors : \A i \in chosen[a] \ (unwritten[a] \cup reopened[a]) :
    /\ i > trim_instance[a] => dup[a][i].value = volatile_storage[a][i].value
    /\ \E t \in told :
         /\ t.aid = a /\ t.iid = i
         /\ ballot_greater_than_or_equal(volatile_storage[a][i].value_ballot, t.ballot)
         /\ \/ t.value = volatile_storage[a][i].value
            \/ ballot_greater_than(volatile_storage[a][i].value_ballot, t.ballot)
=============================================================================
