-------------------------- MODULE StandardAcceptor --------------------------
(***************************************************************************)
(* The standard acceptor (paxos/standard_acceptor.c) over its two stores:  *)
(* the hash-mapped memory every answer is computed from                    *)
(* (paxos/hash_mapped_memory.c) and the LMDB database every promise and    *)
(* vote is written to before it is acknowledged                            *)
(* (paxos/stable_storage_lmdb.c).                                          *)
(*                                                                         *)
(* The module gives the operations of a set of acceptors: each action      *)
(* takes the acceptor, the fields of the request and, where the code       *)
(* writes to LMDB, the outcome of the transaction.  The message the        *)
(* operation hands back through `out' is a state function (PrepareReply,   *)
(* AcceptReply, RepeatReply), so that the modules which use the acceptor   *)
(* decide where it is sent.                                                *)
(***************************************************************************)
EXTENDS HashMappedMemory, FiniteSets

CONSTANT
  StorageOutcomes  \* what an LMDB transaction may come to, see below

(* The transaction of a prepare or accept:                                 *)
(*  - committed:     the put and the commit both succeed;                  *)
(*  - not_stored:    mdb_txn_begin or mdb_put fails; nothing is changed;   *)
(*  - commit_failed: the put succeeds, the memory is updated, and then     *)
(*                   mdb_txn_commit fails.                                 *)
ASSUME AcceptorAssumption ==
  /\ {"committed", "not_stored"} \subseteq StorageOutcomes
  /\ StorageOutcomes \subseteq {"committed", "not_stored", "commit_failed"}
  /\ Instances \subseteq 1 .. (IidModulus - 1)
  /\ IidModulus \in Nat
  /\ TrimBacklog \in 0 .. (IidModulus - 1)
  /\ NULL \notin Values

VARIABLES
  trim_iid,             \* a->trim_iid
  mem,                  \* last_prepares and last_accepts of the hash-mapped memory
  chosen,               \* keys of the `chosen' table
  min_chosen_instance,  \* last instance of the chosen prefix
  disk,                 \* the committed LMDB record of each instance
  wiped,                \* history: open instances whose memory a trim erased
  uncommitted           \* history: instances for which some commit failed

accVars == <<trim_iid, mem, chosen, min_chosen_instance, disk, wiped, uncommitted>>

AccTypeOK ==
  /\ trim_iid \in [Acceptors -> Nat]
  /\ mem \in [Acceptors -> [Instances -> InstanceInfo]]
  /\ chosen \in [Acceptors -> SUBSET Instances]
  /\ min_chosen_instance \in [Acceptors -> Nat]
  /\ disk \in [Acceptors -> [Instances -> InstanceInfo]]
  /\ wiped \in [Acceptors -> SUBSET Instances]
  /\ uncommitted \in [Acceptors -> SUBSET Instances]

AccInit ==
  /\ trim_iid = [a \in Acceptors |-> 0]
  /\ mem = [a \in Acceptors |-> [i \in Instances |-> EmptyInfo]]
  /\ chosen = [a \in Acceptors |-> {}]
  /\ min_chosen_instance = [a \in Acceptors |-> 0]
  /\ disk = [a \in Acceptors |-> [i \in Instances |-> EmptyInfo]]
  /\ wiped = [a \in Acceptors |-> {}]
  /\ uncommitted = [a \in Acceptors |-> {}]

(* The instances of a for which the memory has always followed the disk:   *)
(* no trim has erased the record of the instance while it was open         *)
(* (wiped), and no transaction on it failed at its commit (uncommitted).   *)
Intact(a) == Instances \ (wiped[a] \cup uncommitted[a])

-----------------------------------------------------------------------------
(* Settled_TrimOnly: the test for a chosen instance is forgotten.          *)
Settled_TrimOnly(a, i) == i <= trim_iid[a]

(* The instance is answered without looking at its ballots: it is trimmed, *)
(* or the acceptor has been told what was chosen in it.                    *)
Settled(a, i) == i <= trim_iid[a] \/ i \in chosen[a]

(* get_instance_info's return value: a promise is on record.               *)
Found(a, i) == ballot_greater_than(mem[a][i].promise_ballot, INVALID_BALLOT)

(* SafeToAcknowledge_Always: the promise on record is not compared.        *)
SafeToAcknowledge_Always(a, i, b) == TRUE

SafeToAcknowledge(a, i, b) ==
  ~ Found(a, i) \/ ballot_greater_than_or_equal(b, mem[a][i].promise_ballot)

TrimMsg(a) == [type |-> "TRIM", aid |-> a, iid |-> trim_iid[a]]

ChosenMsg(a, i) ==
  [type |-> "CHOSEN", aid |-> a, iid |-> i,
   ballot |-> mem[a][i].value_ballot, value |-> mem[a][i].value]

PreemptedMsg(a, i, b) ==
  [type |-> "PREEMPTED", aid |-> a, iid |-> i,
   attempted_ballot |-> b, acceptor_current_ballot |-> mem[a][i].promise_ballot]

(* PrepareReply_OldBallot: the promise repeats the ballot found in memory  *)
(* instead of the one just promised.                                       *)
PrepareReply_OldBallot(a, i, b, st) ==
  IF ~ Settled(a, i) /\ SafeToAcknowledge(a, i, b) /\ st = "committed"
  THEN {[type |-> "PROMISE", aid |-> a, iid |-> i, ballot |-> mem[a][i].promise_ballot,
         value_ballot |-> mem[a][i].value_ballot, value |-> mem[a][i].value]}
  ELSE {}

(* The answers a prepare and an accept share, and the ones of their own.   *)
PrepareReply(a, i, b, st) ==
  CASE i <= trim_iid[a]              -> {TrimMsg(a)}
    [] i > trim_iid[a] /\ i \in chosen[a] -> {ChosenMsg(a, i)}
    [] ~ Settled(a, i) /\ ~ SafeToAcknowledge(a, i, b) -> {PreemptedMsg(a, i, b)}
    [] ~ Settled(a, i) /\ SafeToAcknowledge(a, i, b) /\ st = "committed" ->
         {[type |-> "PROMISE", aid |-> a, iid |-> i, ballot |-> b,
           value_ballot |-> mem[a][i].value_ballot,
           value |-> IF ballot_greater_than(mem[a][i].value_ballot, INVALID_BALLOT)
                     THEN mem[a][i].value ELSE NULL]}
    [] OTHER -> {}

AcceptedMsg(a, i, b, v) ==
  [type |-> "ACCEPTED", aid |-> a, iid |-> i, ballot |-> b, value |-> v]

AcceptReply(a, i, b, v, st) ==
  CASE i <= trim_iid[a]              -> {TrimMsg(a)}
    [] i > trim_iid[a] /\ i \in chosen[a] -> {ChosenMsg(a, i)}
    [] ~ Settled(a, i) /\ ~ SafeToAcknowledge(a, i, b) -> {PreemptedMsg(a, i, b)}
    [] ~ Settled(a, i) /\ SafeToAcknowledge(a, i, b) /\ st = "committed" ->
         {AcceptedMsg(a, i, b, v)}
    [] OTHER -> {}

(* A repeat reads memory only, trimmed or not.                             *)
RepeatReply(a, i) ==
  CASE i \in chosen[a] -> {ChosenMsg(a, i)}
    [] /\ i \notin chosen[a] /\ Found(a, i)
       /\ ballot_greater_than(mem[a][i].value_ballot, INVALID_BALLOT) ->
         {AcceptedMsg(a, i, mem[a][i].value_ballot, mem[a][i].value)}
    [] OTHER -> {}

-----------------------------------------------------------------------------
(* StoreInstanceInfo_MemoryOnly: the record is not put into the database.  *)
StoreInstanceInfo_MemoryOnly(a, i, info, st) ==
  /\ mem' = IF st = "not_stored" THEN mem ELSE [mem EXCEPT ![a][i] = info]
  /\ UNCHANGED <<disk, uncommitted, trim_iid, chosen, min_chosen_instance, wiped>>

(* Write the record to LMDB and then to memory, in one transaction whose   *)
(* commit comes last.                                                      *)
StoreInstanceInfo(a, i, info, st) ==
  /\ \/ /\ st = "committed"
        /\ mem' = [mem EXCEPT ![a][i] = info]
        /\ disk' = [disk EXCEPT ![a][i] = info]
        /\ UNCHANGED uncommitted
     \/ /\ st = "commit_failed"
        /\ mem' = [mem EXCEPT ![a][i] = info]
        /\ uncommitted' = [uncommitted EXCEPT ![a] = @ \cup {i}]
        /\ UNCHANGED disk
     \/ /\ st = "not_stored"
        /\ UNCHANGED <<mem, disk, uncommitted>>
  /\ UNCHANGED <<trim_iid, chosen, min_chosen_instance, wiped>>

ReceivePrepare(a, i, b, st) ==
  \/ /\ Settled(a, i) \/ ~ SafeToAcknowledge(a, i, b)
     /\ st = "not_stored"
     /\ UNCHANGED accVars
  \/ /\ ~ Settled(a, i)
     /\ SafeToAcknowledge(a, i, b)
     /\ StoreInstanceInfo(a, i, [mem[a][i] EXCEPT !.promise_ballot = b], st)

ReceiveAccept(a, i, b, v, st) ==
  \/ /\ Settled(a, i) \/ ~ SafeToAcknowledge(a, i, b)
     /\ st = "not_stored"
     /\ UNCHANGED accVars
  \/ /\ ~ Settled(a, i)
     /\ SafeToAcknowledge(a, i, b)
     /\ StoreInstanceInfo(a, i,
          [promise_ballot |-> b, value_ballot |-> b, value |-> v], st)

-----------------------------------------------------------------------------
(* Record the trim and erase the promises, votes and chosen marks of every *)
(* instance below ToTrimFrom(iid), given the memory m and chosen marks c.  *)
TrimTo(a, iid, m, c) ==
  LET erased == {j \in Instances : j < ToTrimFrom(iid)} IN
  /\ trim_iid' = [trim_iid EXCEPT ![a] = iid]
  /\ mem' = [mem EXCEPT ![a] = [j \in Instances |-> IF j \in erased THEN EmptyInfo ELSE m[j]]]
  /\ chosen' = [chosen EXCEPT ![a] = c \ erased]
  /\ wiped' = [wiped EXCEPT ![a] = @ \cup {j \in erased : j > iid /\ m[j] # EmptyInfo}]

ReceiveTrim(a, iid) ==
  \/ /\ iid > trim_iid[a]
     /\ min_chosen_instance[a] + 1 > iid
     /\ TrimTo(a, iid, mem[a], chosen[a])
     /\ UNCHANGED <<min_chosen_instance, disk, uncommitted>>
  \/ /\ iid <= trim_iid[a] \/ min_chosen_instance[a] + 1 <= iid
     /\ UNCHANGED accVars

(* Told what was chosen in i: mark it, keep its promise, overwrite its     *)
(* vote, in memory only, then trim to the chosen prefix.                   *)
ReceiveChosen(a, i, b, v) ==
  LET c == chosen[a] \cup {i}
      k == AdvanceMinChosen(min_chosen_instance[a], c, i)
      m == [mem[a] EXCEPT ![i] = [promise_ballot |-> mem[a][i].promise_ballot,
                                  value_ballot |-> b, value |-> v]]
  IN
  \/ i \in chosen[a] /\ UNCHANGED accVars
  \/ /\ i \notin chosen[a]
     /\ min_chosen_instance' = [min_chosen_instance EXCEPT ![a] = k]
     /\ \/ k > trim_iid[a] /\ TrimTo(a, k, m, c)
        \/ /\ k <= trim_iid[a]
           /\ mem' = [mem EXCEPT ![a] = m]
           /\ chosen' = [chosen EXCEPT ![a] = c]
           /\ UNCHANGED <<trim_iid, wiped>>
     /\ UNCHANGED <<disk, uncommitted>>

-----------------------------------------------------------------------------
(* Restart_NoReload: the records on disk are not read back.                *)
Restart_NoReload(a) ==
  /\ trim_iid' = [trim_iid EXCEPT ![a] = 0]
  /\ mem' = [mem EXCEPT ![a] = [i \in Instances |-> EmptyInfo]]
  /\ chosen' = [chosen EXCEPT ![a] = {}]
  /\ min_chosen_instance' = [min_chosen_instance EXCEPT ![a] = 0]
  /\ UNCHANGED <<disk, wiped, uncommitted>>

(* The process dies between two handlers and standard_acceptor_new runs:   *)
(* every record is read back from LMDB into a fresh memory.  No trim and   *)
(* no chosen mark is ever written there, so both start from nothing.       *)
Restart(a) ==
  /\ trim_iid' = [trim_iid EXCEPT ![a] = 0]
  /\ mem' = [mem EXCEPT ![a] = disk[a]]
  /\ chosen' = [chosen EXCEPT ![a] = {}]
  /\ min_chosen_instance' = [min_chosen_instance EXCEPT ![a] = 0]
  /\ UNCHANGED <<disk, wiped, uncommitted>>
=============================================================================
