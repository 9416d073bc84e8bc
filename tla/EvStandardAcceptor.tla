------------------------ MODULE EvStandardAcceptor ------------------------
(***************************************************************************)
(* The event-loop wrapper of the standard acceptor                         *)
(* (evpaxos/ev_standard_acceptor.c): every handler calls one acceptor      *)
(* operation and sends what it returns.  Handlers run to completion, one   *)
(* at a time.  The peers are open: any proposer may send any prepare or    *)
(* accept, any learner any repeat, chosen or trim message, in any order    *)
(* and any number of times.                                                *)
(*                                                                         *)
(* The module remembers what the acceptors told the outside world          *)
(* (promises, votes) and what they were told (told).                       *)
(***************************************************************************)
EXTENDS StandardAcceptor

CONSTANTS
  Ballots,          \* the ballots proposers use
  PrepareRequests,  \* what the peers may send: <<iid, ballot>>,
  AcceptRequests,   \*   <<iid, ballot, value>>,
  ChosenNotices     \*   <<iid, ballot, value>>

ASSUME RequestsAssumption ==
  /\ Ballots \subseteq Ballot \ {INVALID_BALLOT}
  /\ PrepareRequests \subseteq Instances \X Ballots
  /\ AcceptRequests \subseteq Instances \X Ballots \X Values
  /\ ChosenNotices \subseteq Instances \X Ballots \X Values

VARIABLES
  promises,   \* PROMISE messages sent
  votes,      \* ACCEPTED messages sent
  told        \* CHOSEN messages received, with the acceptor that received them

vars == <<accVars, promises, votes, told>>

ofType(t, msgs) == {m \in msgs : m.type = t}

(* send_paxos_message and peers_foreach_client.                            *)
Send(msgs) ==
  /\ promises' = promises \cup ofType("PROMISE", msgs)
  /\ votes' = votes \cup ofType("ACCEPTED", msgs)

Init ==
  /\ AccInit
  /\ promises = {} /\ votes = {} /\ told = {}

HandlePrepare(a, i, b, st) ==
  /\ ReceivePrepare(a, i, b, st)
  /\ Send(PrepareReply(a, i, b, st))
  /\ UNCHANGED told

HandleAccept(a, i, b, v, st) ==
  /\ ReceiveAccept(a, i, b, v, st)
  /\ Send(AcceptReply(a, i, b, v, st))
  /\ UNCHANGED told

HandleRepeat(a, from, to) ==
  /\ Send(UNION {RepeatReply(a, i) : i \in {j \in Instances : from <= j /\ j <= to}})
  /\ UNCHANGED <<accVars, told>>

HandleChosen(a, i, b, v) ==
  /\ ReceiveChosen(a, i, b, v)
  /\ told' = told \cup {[aid |-> a, iid |-> i, ballot |-> b, value |-> v]}
  /\ UNCHANGED <<promises, votes>>

HandleTrim(a, iid) ==
  /\ ReceiveTrim(a, iid)
  /\ UNCHANGED <<promises, votes, told>>

RestartAcceptor(a) ==
  /\ Restart(a)
  /\ UNCHANGED <<promises, votes, told>>

Next ==
  \E a \in Acceptors :
    \/ \E r \in PrepareRequests, st \in StorageOutcomes :
         HandlePrepare(a, r[1], r[2], st)
    \/ \E r \in AcceptRequests, st \in StorageOutcomes :
         HandleAccept(a, r[1], r[2], r[3], st)
    \/ \E from, to \in Instances : HandleRepeat(a, from, to)
    \/ \E r \in ChosenNotices : HandleChosen(a, r[1], r[2], r[3])
    \/ \E i \in Instances : HandleTrim(a, i)
    \/ RestartAcceptor(a)

Spec == Init /\ [][Next]_vars

-----------------------------------------------------------------------------
Promise == [type : {"PROMISE"}, aid : Acceptors, iid : Instances, ballot : Ballots,
            value_ballot : Ballot, value : Values \cup {NULL}]

Vote == [type : {"ACCEPTED"}, aid : Acceptors, iid : Instances, ballot : Ballots,
         value : Values]

Told == [aid : Acceptors, iid : Instances, ballot : Ballots, value : Values]

(* State and messages keep their types: an ACCEPTED carries a value, also  *)
(* in the answers to a REPEAT, and a promise reports a value or none.      *)
TypeOK ==
  /\ AccTypeOK
  /\ promises \subseteq Promise
  /\ votes \subseteq Vote
  /\ told \subseteq Told

-----------------------------------------------------------------------------
(* While an instance is open, the memory the acceptor answers from holds   *)
(* what LMDB holds: the check `found_stable == found' that prepare used to *)
(* make (standard_acceptor.c:160), for the whole record and across         *)
(* restarts, failed transactions, chosen notices and trims.                *)
CacheCoherent ==
  \A a \in Acceptors : \A i \in Intact(a) :
    ~ Settled(a, i) => mem[a][i] = disk[a][i]

(* A ballot that was promised is on disk, at that ballot or a higher one,  *)
(* before and after any restart; so is a vote, and the vote on disk is at  *)
(* least as high.                                                          *)
AcksDurable ==
  /\ \A p \in promises : p.iid \notin wiped[p.aid] =>
       ballot_greater_than_or_equal(disk[p.aid][p.iid].promise_ballot, p.ballot)
  /\ \A w \in votes : w.iid \in Intact(w.aid) =>
       /\ ballot_greater_than_or_equal(disk[w.aid][w.iid].promise_ballot, w.ballot)
       /\ ballot_greater_than_or_equal(disk[w.aid][w.iid].value_ballot, w.ballot)

(* What proposers rely on: a promise for a ballot reports a vote at least  *)
(* as high as every vote below that ballot the acceptor ever casts, before *)
(* or after the promise, whatever restarts lie between.                    *)
PromiseReportsVotes ==
  \A p \in promises, w \in votes :
    /\ p.aid = w.aid /\ p.iid = w.iid /\ p.iid \in Intact(p.aid)
    /\ ballot_greater_than(p.ballot, w.ballot)
    => ballot_greater_than_or_equal(p.value_ballot, w.ballot)

(* A TRIM answer, and the chosen prefix it comes from, cover only          *)
(* instances the acceptor was told are chosen, although chosen marks       *)
(* arrive out of order and are erased by trims.                            *)
TrimOnlyTold ==
  \A a \in Acceptors, i \in Instances :
    i <= trim_iid[a] \/ i <= min_chosen_instance[a] =>
      \E t \in told : t.aid = a /\ t.iid = i

(* A CHOSEN answer repeats a ballot and value the acceptor was told were   *)
(* chosen; no later prepare, accept or trim gets into the record behind it. *)
ChosenAnswerIsTold ==
  \A a \in Acceptors : \A i \in chosen[a] :
    [aid |-> a, iid |-> i, ballot |-> mem[a][i].value_ballot,
     value |-> mem[a][i].value] \in told
=============================================================================
