---------------------- MODULE WriteAheadBallotAcceptor ----------------------
(***************************************************************************)
(* The acceptor that writes ballots ahead                                  *)
(* (paxos/writeahead_ballot_acceptor.c).  A promise is kept in memory      *)
(* only, as long as a ballot above it, the written-ahead promise, is on    *)
(* disk; that one stands for it after a restart.                           *)
(*                                                                         *)
(* Three records of an instance: volatile_storage, what the acceptor       *)
(* answers from; disk, the LMDB record (paxos/stable_storage_lmdb.c); and  *)
(* dup, the copy of it in memory (stable_storage_duplicate) that saves     *)
(* reading it.  As in StandardAcceptor an operation is an action and the   *)
(* message it hands back a state function.  The instance window of the     *)
(* code is never set and stays 0.                                          *)
(***************************************************************************)
EXTENDS PaxosTypes, FiniteSets

CONSTANTS
  StorageOutcomes,    \* what an LMDB transaction may come to, see below
  BallotWindow,       \* paxos_config.ballots_written_ahead
  MinBallotCatchup,   \* paxos_config.ballot_catchup
  MaxProposerId,      \* UINT32_MAX, above the id of every proposer
  MaxWrittenAhead     \* bound: no restart writes ahead beyond this number

(* A transaction: committed; not_begun: mdb_txn_begin fails; or            *)
(* commit_failed: mdb_put or mdb_txn_commit fails (LMDB commits no         *)
(* transaction in which a put failed), after the memory was written.       *)
ASSUME WriteAheadAssumption ==
  /\ "committed" \in StorageOutcomes
  /\ StorageOutcomes \subseteq {"committed", "not_begun", "commit_failed"}
  /\ BallotWindow \in Nat /\ MinBallotCatchup \in Nat
  /\ MaxProposerId \in Nat /\ MaxWrittenAhead \in Nat
  /\ Instances \subseteq Nat \ {0}
  /\ NULL \notin Values

VARIABLES
  trim_instance,     \* acceptor->trim_instance, the same in all three stores
  volatile_storage,  \* promises and votes the answers are computed from
  dup,               \* stable_storage_duplicate
  chosen,            \* the chosen marks of volatile_storage
  flagged,           \* instances_to_begin_new_ballot_epoch
  disk,              \* LMDB: the record of each instance
  disk_trim,         \* LMDB: TRIM_ID_KEY
  unwritten,         \* history: instances where dup got a record the disk did not
  unfenced,          \* history: instances stored with a promise below one given
  reopened           \* history: instances a lower trim took back

memVars == <<trim_instance, chosen, flagged>>
diskVars == <<disk, disk_trim>>
accVars == <<memVars, diskVars, volatile_storage, dup, unwritten, unfenced, reopened>>

AccTypeOK ==
  /\ trim_instance \in [Acceptors -> Nat] /\ disk_trim \in [Acceptors -> Nat]
  /\ volatile_storage \in [Acceptors -> [Instances -> InstanceInfo]]
  /\ dup \in [Acceptors -> [Instances -> InstanceInfo]]
  /\ disk \in [Acceptors -> [Instances -> InstanceInfo]]
  /\ chosen \in [Acceptors -> SUBSET Instances]
  /\ flagged \in [Acceptors -> SUBSET Instances]
  /\ unwritten \in [Acceptors -> SUBSET Instances]
  /\ unfenced \in [Acceptors -> SUBSET Instances]
  /\ reopened \in [Acceptors -> SUBSET Instances]

AccInit ==
  LET empty == [a \in Acceptors |-> [i \in Instances |-> EmptyInfo]]
      none == [a \in Acceptors |-> {}]
  IN /\ trim_instance = [a \in Acceptors |-> 0] /\ disk_trim = trim_instance
     /\ volatile_storage = empty /\ dup = empty /\ disk = empty
     /\ chosen = none /\ flagged = none
     /\ unwritten = none /\ unfenced = none /\ reopened = none

-----------------------------------------------------------------------------
Settled(a, i) == i <= trim_instance[a] \/ i \in chosen[a]

Promised(a, i) == volatile_storage[a][i].promise_ballot

(* Granted_Always: the promise given is not compared.                      *)
Granted_Always(a, i, b) == ~ Settled(a, i)

(* An absent promise reads back as {0,0}, below every request.             *)
Granted(a, i, b) == ~ Settled(a, i) /\ ballot_greater_than_or_equal(b, Promised(a, i))

(* The last ballot of the window that begins at number n.                  *)
WrittenAheadOf(n) == [number |-> n + BallotWindow, proposer_id |-> MaxProposerId]

(* IsWrittenAhead_Always: no prepare writes ahead before it is answered.   *)
IsWrittenAhead_Always(a, i, b) == TRUE

IsWrittenAhead(a, i, b) == ~ ballot_greater_than(b, dup[a][i].promise_ballot)

TrimMsg(a) == [type |-> "TRIM", aid |-> a, iid |-> trim_instance[a]]

(* A prepare takes the chosen value from dup, the others take it from      *)
(* volatile_storage.                                                       *)
ChosenMsg(a, i, info) ==
  [type |-> "CHOSEN", aid |-> a, iid |-> i, ballot |-> info.value_ballot, value |-> info.value]

PreemptedMsg(a, i, b) ==
  [type |-> "PREEMPTED", aid |-> a, iid |-> i,
   attempted_ballot |-> b, acceptor_current_ballot |-> Promised(a, i)]

AcceptedMsg(a, i, b, v) ==
  [type |-> "ACCEPTED", aid |-> a, iid |-> i, ballot |-> b, value |-> v]

PromiseMsg(a, i, b) ==
  [type |-> "PROMISE", aid |-> a, iid |-> i, ballot |-> b,
   value_ballot |-> volatile_storage[a][i].value_ballot,
   value |-> volatile_storage[a][i].value]

(* The reply of a request: TRIM or CHOSEN for a settled instance, msgs for *)
(* a request that is granted, otherwise PREEMPTED.                         *)
Reply(a, i, b, store, msgs) ==
  CASE i <= trim_instance[a] -> {TrimMsg(a)}
    [] i > trim_instance[a] /\ i \in chosen[a] -> {ChosenMsg(a, i, store)}
    [] Granted(a, i, b) -> msgs
    [] OTHER -> {PreemptedMsg(a, i, b)}

PrepareReply(a, i, b, st) ==
  Reply(a, i, b, dup[a][i],
        IF IsWrittenAhead(a, i, b) \/ st = "committed" THEN {PromiseMsg(a, i, b)} ELSE {})

AcceptReply(a, i, b, v, st) ==
  Reply(a, i, b, volatile_storage[a][i],
        IF st = "committed" THEN {AcceptedMsg(a, i, b, v)} ELSE {})

(* RepeatReply_NoVote: a record is sent although nothing was accepted.     *)
RepeatReply_NoVote(a, i) ==
  IF ballot_greater_than(dup[a][i].promise_ballot, INVALID_BALLOT)
  THEN {AcceptedMsg(a, i, dup[a][i].value_ballot, dup[a][i].value)} ELSE {}

(* A vote whose record holds no promise is not found.                      *)
RepeatReply(a, i) ==
  CASE i \in chosen[a] -> {ChosenMsg(a, i, volatile_storage[a][i])}
    [] /\ i \notin chosen[a]
       /\ ballot_greater_than(dup[a][i].promise_ballot, INVALID_BALLOT)
       /\ dup[a][i].value # NULL ->
         {AcceptedMsg(a, i, dup[a][i].value_ballot, dup[a][i].value)}
    [] OTHER -> {}

-----------------------------------------------------------------------------
(* StoreStable_DiskOnly: the copy in memory is not brought up to date.     *)
StoreStable_DiskOnly(a, i, info, st) ==
  /\ disk' = [disk EXCEPT ![a][i] = IF st = "committed" THEN info ELSE @]
  /\ UNCHANGED <<dup, unwritten>>

(* write_ahead_window_acceptor_store_in_stable_storage and the end of its  *)
(* transaction: dup has the record, the disk if the commit succeeds.       *)
StoreStable(a, i, info, st) ==
  /\ dup' = [dup EXCEPT ![a][i] = info]
  /\ \/ /\ st = "committed"
        /\ disk' = [disk EXCEPT ![a][i] = info]
        /\ UNCHANGED unwritten
     \/ /\ st # "committed"
        /\ unwritten' = [unwritten EXCEPT ![a] = @ \cup {i}]
        /\ UNCHANGED disk

(* new_ballot_epoch_from_ballot_number: begin a window at number n, on the *)
(* record that is on disk.                                                 *)
NewBallotEpoch(a, i, n, st) ==
  StoreStable(a, i, [disk[a][i] EXCEPT !.promise_ballot = WrittenAheadOf(n)], st)

NeedsAdjusting(a, i, b) == dup[a][i].promise_ballot.number - b.number < MinBallotCatchup

(* The promise is given at once, in memory, if it is written ahead; if     *)
(* not, once the next window is on disk.                                   *)
ReceivePrepare(a, i, b, st) ==
  \/ ~ Granted(a, i, b) /\ st = "committed" /\ UNCHANGED accVars
  \/ /\ Granted(a, i, b)
     /\ \/ /\ IsWrittenAhead(a, i, b) /\ st = "committed"
           /\ volatile_storage' = [volatile_storage EXCEPT ![a][i].promise_ballot = b]
           /\ flagged' = IF NeedsAdjusting(a, i, b)
                         THEN [flagged EXCEPT ![a] = @ \cup {i}] ELSE flagged
           /\ UNCHANGED <<disk, dup, unwritten>>
        \/ /\ ~ IsWrittenAhead(a, i, b) /\ st = "committed"
           /\ NewBallotEpoch(a, i, b.number, st)
           /\ volatile_storage' = [volatile_storage EXCEPT ![a][i].promise_ballot = b]
           /\ UNCHANGED flagged
        \/ /\ ~ IsWrittenAhead(a, i, b) /\ st = "commit_failed"
           /\ NewBallotEpoch(a, i, b.number, st)
           /\ UNCHANGED <<volatile_storage, flagged>>
        \/ /\ ~ IsWrittenAhead(a, i, b) /\ st = "not_begun"
           /\ UNCHANGED <<volatile_storage, flagged, disk, dup, unwritten>>
     /\ UNCHANGED <<trim_instance, chosen, disk_trim, unfenced, reopened>>

(* write_acceptance_to_storage: the stored promise is the one written      *)
(* ahead, also when the vote is above it.                                  *)
StoreVote(a, i, b, v, st) ==
  LET info == [promise_ballot |-> dup[a][i].promise_ballot, value_ballot |-> b, value |-> v] IN
  /\ StoreStable(a, i, info, st)
  /\ volatile_storage' = [volatile_storage EXCEPT ![a][i] = [info EXCEPT !.promise_ballot = b]]
  /\ unfenced' = IF IsWrittenAhead(a, i, b) THEN unfenced
                 ELSE [unfenced EXCEPT ![a] = @ \cup {i}]

ReceiveAccept(a, i, b, v, st) ==
  \/ ~ Granted(a, i, b) /\ st = "committed" /\ UNCHANGED accVars
  \/ Granted(a, i, b) /\ st = "not_begun" /\ UNCHANGED accVars
  \/ /\ Granted(a, i, b) /\ st # "not_begun"
     /\ StoreVote(a, i, b, v, st)
     /\ UNCHANGED <<memVars, disk_trim, reopened>>

-----------------------------------------------------------------------------
(* The chosen marks are set in volatile_storage, but it is dup that is     *)
(* asked for the first unchosen instance.                                  *)
MinUnchosenInstance == 1

(* A trim at or below the present one is ignored only if it is also not    *)
(* above the first unchosen instance: trims move down as well as up.       *)
ReceiveTrim(a, iid, st) ==
  IF st = "not_begun" \/ (iid <= trim_instance[a] /\ iid <= MinUnchosenInstance)
  THEN UNCHANGED accVars
  ELSE /\ trim_instance' = [trim_instance EXCEPT ![a] = iid]
       /\ disk_trim' = IF st = "committed" THEN [disk_trim EXCEPT ![a] = iid] ELSE disk_trim
       /\ reopened' = [reopened EXCEPT ![a] =
            @ \cup {i \in Instances : iid < i /\ i <= trim_instance[a]}]
       /\ UNCHANGED <<chosen, flagged, disk, volatile_storage, dup, unwritten, unfenced>>

(* ReceiveChosen_MarkOnly: the value is not stored.                        *)
ReceiveChosen_MarkOnly(a, i, b, v, st) ==
  /\ chosen' = [chosen EXCEPT ![a] = @ \cup {i}]
  /\ UNCHANGED <<trim_instance, flagged, diskVars, volatile_storage, dup, unwritten,
                 unfenced, reopened>>

(* The chosen ballot replaces vote and promise when it is above the vote,  *)
(* also when it is below the promise.  No result of the transaction is     *)
(* looked at; when it does not begin, the put fails.                       *)
ReceiveChosen(a, i, b, v, st) ==
  LET info == [promise_ballot |-> b, value_ballot |-> b, value |-> v] IN
  /\ chosen' = [chosen EXCEPT ![a] = @ \cup {i}]
  /\ \/ /\ ballot_greater_than(b, dup[a][i].value_ballot)
        /\ StoreStable(a, i, info, st)
        /\ volatile_storage' = [volatile_storage EXCEPT ![a][i] = info]
        /\ unfenced' = IF ballot_greater_than(disk[a][i].promise_ballot, b)
                       THEN [unfenced EXCEPT ![a] = @ \cup {i}] ELSE unfenced
     \/ /\ ~ ballot_greater_than(b, dup[a][i].value_ballot) /\ st = "committed"
        /\ UNCHANGED <<disk, volatile_storage, dup, unwritten, unfenced>>
  /\ UNCHANGED <<trim_instance, flagged, disk_trim, reopened>>

-----------------------------------------------------------------------------
(* update_flagged_ballot_windows, from the timer.  No transaction is open: *)
(* mdb_get and mdb_put fail and dup gets a window on an empty record.      *)
WriteBallotWindow(a) ==
  /\ dup' = [dup EXCEPT ![a] = [i \in Instances |->
       IF i \in flagged[a]
       THEN [EmptyInfo EXCEPT !.promise_ballot = WrittenAheadOf(Promised(a, i).number)]
       ELSE @[i]]]
  /\ unwritten' = [unwritten EXCEPT ![a] = @ \cup flagged[a]]
  /\ flagged' = [flagged EXCEPT ![a] = {}]
  /\ UNCHANGED <<trim_instance, chosen, diskVars, volatile_storage, unfenced, reopened>>

-----------------------------------------------------------------------------
(* MAX_INSTANCE_KEY: the last instance with a record on disk.              *)
InitedInstances(a) ==
  {i \in Instances : \E j \in Instances : i <= j /\ disk[a][j] # EmptyInfo}

(* on_recovery_new_epochs: what is written ahead after the next start.     *)
Recovered(a, i) ==
  [disk[a][i] EXCEPT !.promise_ballot = WrittenAheadOf(disk[a][i].promise_ballot.number)]

(* The process dies between two handlers and                               *)
(* write_ahead_window_acceptor_new runs: the records above the trim are    *)
(* read from disk into both memories, then each gets a new window, in dup  *)
(* and on disk.  Whether that is committed is not looked at.               *)
Restart(a, st) ==
  LET read == {i \in Instances : i > disk_trim[a]}
      renewed == read \cap InitedInstances(a)
  IN /\ \A i \in renewed : Recovered(a, i).promise_ballot.number <= MaxWrittenAhead
     /\ trim_instance' = [trim_instance EXCEPT ![a] = disk_trim[a]]
     /\ volatile_storage' = [volatile_storage EXCEPT ![a] =
          [i \in Instances |-> IF i \in read THEN disk[a][i] ELSE EmptyInfo]]
     /\ dup' = [dup EXCEPT ![a] =
          [i \in Instances |-> IF i \in renewed THEN Recovered(a, i) ELSE EmptyInfo]]
     /\ \/ /\ st = "committed"
           /\ disk' = [disk EXCEPT ![a] =
                [i \in Instances |-> IF i \in renewed THEN Recovered(a, i) ELSE @[i]]]
           /\ UNCHANGED unwritten
        \/ /\ st = "commit_failed"
           /\ unwritten' = [unwritten EXCEPT ![a] = @ \cup renewed]
           /\ UNCHANGED disk
     /\ chosen' = [chosen EXCEPT ![a] = {}]
     /\ flagged' = [flagged EXCEPT ![a] = {}]
     /\ UNCHANGED <<disk_trim, unfenced, reopened>>
=============================================================================
