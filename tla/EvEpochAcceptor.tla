-------------------------- MODULE EvEpochAcceptor --------------------------
(***************************************************************************)
(* The event-loop wrapper of the epoch acceptor                            *)
(* (evpaxos/ev_epoch_acceptor.c) among open peers: any proposer may send   *)
(* any prepare or accept, any learner any repeat, chosen or trim message,  *)
(* in any order and any number of times.  The handler of epoch             *)
(* notifications is not subscribed, so it is not an action.                *)
(***************************************************************************)
EXTENDS EpochAcceptor

CONSTANTS
  EpochBallotsInUse,     \* the epoch ballots proposers use
  PrepareRequests,       \* what the peers may send: <<iid, ballot>>,
  EpochPrepareRequests,  \*   <<iid, epoch ballot>>,
  EpochAcceptRequests,   \*   <<iid, epoch ballot, value>>,
  ChosenNotices          \*   <<iid, epoch ballot, value>>

ValidBallot == Ballot \ {INVALID_BALLOT}

ASSUME EpochRequestsAssumption ==
  /\ EpochBallotsInUse \subseteq [epoch : Nat \ {0}, ballot : ValidBallot]
  /\ PrepareRequests \subseteq Instances \X ValidBallot
  /\ EpochPrepareRequests \subseteq Instances \X EpochBallotsInUse
  /\ EpochAcceptRequests \subseteq Instances \X EpochBallotsInUse \X Values
  /\ ChosenNotices \subseteq Instances \X EpochBallotsInUse \X Values

VARIABLES
  promises,   \* PROMISE messages sent
  votes,      \* ACCEPTED messages sent
  told        \* CHOSEN messages received, with the acceptor that received them

vars == <<accVars, promises, votes, told>>

ofType(t, msgs) == {m \in msgs : m.type = t}

(* send_epoch_paxos_message and writeahead_epoch_paxos_peers_foreach_client. *)
Send(msgs) ==
  /\ promises' = promises \cup ofType("PROMISE", msgs)
  /\ votes' = votes \cup ofType("ACCEPTED", msgs)

Init ==
  /\ AccInit
  /\ promises = {} /\ votes = {} /\ told = {}

HandleStandardPrepare(a, i, b) ==
  /\ ReceivePrepare(a, i, b)
  /\ Send(PrepareReply(a, i, b))
  /\ UNCHANGED told

HandleEpochBallotPrepare(a, i, eb, st) ==
  /\ ReceiveEpochBallotPrepare(a, i, eb, st)
  /\ Send(EpochPrepareReply(a, i, eb, st))
  /\ UNCHANGED told

HandleEpochBallotAccept(a, i, eb, v, st) ==
  /\ ReceiveEpochBallotAccept(a, i, eb, v, st)
  /\ Send(EpochAcceptReply(a, i, eb, v))
  /\ UNCHANGED told

HandleRepeat(a, from, to) ==
  /\ Send(UNION {RepeatReply(a, i) : i \in {j \in Instances : from <= j /\ j <= to}})
  /\ UNCHANGED <<accVars, told>>

HandleEpochBallotChosen(a, i, eb, v) ==
  /\ ReceiveChosen(a, i, eb, v)
  /\ told' = told \cup {[aid |-> a, iid |-> i, epoch_ballot |-> eb, value |-> v]}
  /\ UNCHANGED <<promises, votes>>

HandleTrim(a, iid) ==
  /\ ReceiveTrim(a, iid)
  /\ UNCHANGED <<promises, votes, told>>

RestartAcceptor(a, stray, st) ==
  /\ Restart(a, stray, st)
  /\ UNCHANGED <<promises, votes, told>>

Next ==
  \E a \in Acceptors :
    \/ \E r \in PrepareRequests : HandleStandardPrepare(a, r[1], r[2])
    \/ \E r \in EpochPrepareRequests, st \in StorageOutcomes :
         HandleEpochBallotPrepare(a, r[1], r[2], st)
    \/ \E r \in EpochAcceptRequests, st \in StorageOutcomes :
         HandleEpochBallotAccept(a, r[1], r[2], r[3], st)
    \/ \E from, to \in Instances : HandleRepeat(a, from, to)
    \/ \E r \in ChosenNotices : HandleEpochBallotChosen(a, r[1], r[2], r[3])
    \/ \E i \in Instances : HandleTrim(a, i)
    \/ \E stray \in [Instances -> StrayBallots], st \in StorageOutcomes :
         RestartAcceptor(a, stray, st)

Spec == Init /\ [][Next]_vars

-----------------------------------------------------------------------------
Promise == [type : {"PROMISE"}, aid : Acceptors, iid : Instances, epoch_ballot : EpochBallot,
            last_accepted : EpochBallot, value : Values \cup {NULL}]

Vote == [type : {"ACCEPTED"}, aid : Acceptors, iid : Instances, epoch_ballot : EpochBallot,
         value : Values]

Told == [aid : Acceptors, iid : Instances, epoch_ballot : EpochBallot, value : Values]

(* State and messages keep their types: an ACCEPTED carries a value, also  *)
(* in the answers to a REPEAT, and a promise reports a value or none.      *)
TypeOK ==
  /\ AccTypeOK
  /\ promises \subseteq Promise
  /\ votes \subseteq Vote
  /\ told \subseteq Told

-----------------------------------------------------------------------------
(* The instances of a in which no answer was given below the current epoch *)
(* and neither a failed commit nor a trim lost what an answer depended on. *)
Kept(a) ==
  IF unsynced[a] THEN {} ELSE Instances \ (below[a] \cup unstored[a] \cup wiped[a])

(* Those of which a restart did not drop a vote either.                    *)
Intact(a) == Kept(a) \ forgotten[a]

(* No epoch is used before it is on disk: what an acceptor promised or     *)
(* voted in lies at or below the epoch LMDB holds, so that the next start  *)
(* opens a higher epoch.  It holds until the commit of an epoch fails.     *)
EpochWrittenAhead ==
  \A a \in Acceptors : ~ unsynced[a] =>
    /\ current_epoch[a] = disk_epoch[a]
    /\ \A m \in promises \cup votes : m.aid = a => m.epoch_ballot.epoch <= disk_epoch[a]

(* A vote that was acknowledged is on disk, or a later one is, whatever    *)
(* restarts there were before and after it, although a restart takes no    *)
(* vote back into memory: its higher epoch keeps earlier votes from being  *)
(* written over.                                                           *)
VotesDurable ==
  \A w \in votes : w.iid \in Kept(w.aid) =>
    NotBefore(disk_accepts[w.aid][w.iid].epoch_ballot, w.epoch_ballot)

(* Although promises are forgotten in a restart, a promise for an epoch    *)
(* ballot reports a vote at least as late as every vote before that epoch  *)
(* ballot the acceptor ever casts, before or after the promise.            *)
EpochPromiseReportsVotes ==
  \A p \in promises, w \in votes :
    /\ p.aid = w.aid /\ p.iid = w.iid /\ p.iid \in Intact(p.aid)
    /\ After(p.epoch_ballot, w.epoch_ballot)
    => NotBefore(p.last_accepted, w.epoch_ballot)

(* A TRIM answer covers only instances the acceptor was told are chosen.   *)
TrimOnlyTold ==
  \A a \in Acceptors, i \in Instances :
    i <= trim_instance[a] \/ i <= min_chosen_instance[a] =>
      \E t \in told : t.aid = a /\ t.iid = i

(* A CHOSEN answer repeats an epoch, ballot and value the acceptor was     *)
(* told were chosen, although the three are kept in two tables.            *)
ChosenAnswerIsTold ==
  \A a \in Acceptors : \A i \in chosen[a] :
    [aid |-> a, iid |-> i, epoch_ballot |-> last_accepts[a][i].epoch_ballot,
     value |-> last_accepts[a][i].value] \in told
=============================================================================
