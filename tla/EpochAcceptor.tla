--------------------------- MODULE EpochAcceptor ---------------------------
(***************************************************************************)
(* The epoch acceptor (paxos/epoch_acceptor.c).  Promises are kept in      *)
(* memory only (paxos/epoch_paxos_storage.c); votes and the current epoch  *)
(* go to LMDB (paxos/epoch_stable_storage.c, paxos/stable_storage_lmdb.c). *)
(* A start raises the epoch, which is to stand for every promise that was  *)
(* forgotten.                                                              *)
(*                                                                         *)
(* As in StandardAcceptor an operation is an action, and the message it    *)
(* hands back a state function.  No peer sends a prepare or accept with    *)
(* the invalid ballot, so that an absent promise, which reads back as      *)
(* {0,0}, need not be told from one of that value.                         *)
(***************************************************************************)
EXTENDS HashMappedMemory, EpochBallots, FiniteSets

CONSTANTS
  StorageOutcomes,  \* what an LMDB transaction may come to, see below
  StrayBallots,     \* what a promise reads back as after the recovery of an instance
  MaxEpoch          \* bound: an acceptor starts no epoch above

(* A transaction: committed; not_begun: mdb_txn_begin fails; or            *)
(* commit_failed: mdb_txn_commit fails, and nothing reaches the disk.      *)
ASSUME EpochAcceptorAssumption ==
  /\ "committed" \in StorageOutcomes
  /\ StorageOutcomes \subseteq {"committed", "not_begun", "commit_failed"}
  /\ Instances \subseteq 1 .. (IidModulus - 1)
  /\ IidModulus \in Nat
  /\ TrimBacklog \in 0 .. (IidModulus - 1)
  /\ StrayBallots \subseteq Ballot /\ StrayBallots # {}
  /\ MaxEpoch \in Nat
  /\ NULL \notin Values

VARIABLES
  trim_instance,          \* acceptor->trim_instance
  current_epoch,          \* acceptor->current_epoch
  max_proposed_instance,  \* acceptor->max_proposed_instance
  last_prepares,          \* the ballot promised in each instance
  last_accepts,           \* the vote in each instance and its epoch (accepts_epochs)
  chosen,                 \* keys of the `chosen' table
  min_chosen_instance,    \* last instance of the chosen prefix
  disk_epoch,             \* LMDB: CURRENT_EPOCH_KEY
  disk_accepts,           \* LMDB: the vote in each instance
  unsynced,               \* history: an epoch was set in memory whose commit failed
  below,                  \* history: instances with an answer below the current epoch
  unstored,               \* history: instances with a vote whose commit failed
  wiped,                  \* history: open instances that a trim erased from memory
  forgotten               \* history: instances whose vote a start did not take into memory

memVars == <<trim_instance, max_proposed_instance, chosen, min_chosen_instance>>
epochVars == <<current_epoch, disk_epoch, unsynced>>
lossVars == <<unstored, wiped, forgotten>>
accVars == <<memVars, epochVars, last_prepares, last_accepts, disk_accepts, below, lossVars>>

Accepted == [epoch_ballot : EpochBallot, value : Values \cup {NULL}]

(* What get_last_accept makes of an instance without a vote.               *)
NoAccept == [epoch_ballot |-> INVALID_EPOCH_BALLOT, value |-> NULL]

AccTypeOK ==
  /\ trim_instance \in [Acceptors -> Nat]
  /\ current_epoch \in [Acceptors -> Nat]
  /\ max_proposed_instance \in [Acceptors -> Nat]
  /\ last_prepares \in [Acceptors -> [Instances -> Ballot]]
  /\ last_accepts \in [Acceptors -> [Instances -> Accepted]]
  /\ chosen \in [Acceptors -> SUBSET Instances]
  /\ min_chosen_instance \in [Acceptors -> Nat]
  /\ disk_epoch \in [Acceptors -> Nat]
  /\ disk_accepts \in [Acceptors -> [Instances -> Accepted]]
  /\ unsynced \in [Acceptors -> BOOLEAN]
  /\ below \in [Acceptors -> SUBSET Instances]
  /\ unstored \in [Acceptors -> SUBSET Instances]
  /\ wiped \in [Acceptors -> SUBSET Instances]
  /\ forgotten \in [Acceptors -> SUBSET Instances]

(* The first start, on an empty database: lmdb_get_current_epoch finds     *)
(* nothing and gives epoch 0, which is raised at once.                     *)
AccInit ==
  /\ trim_instance = [a \in Acceptors |-> 0]
  /\ current_epoch = [a \in Acceptors |-> 1]
  /\ max_proposed_instance = [a \in Acceptors |-> 0]
  /\ last_prepares = [a \in Acceptors |-> [i \in Instances |-> INVALID_BALLOT]]
  /\ last_accepts = [a \in Acceptors |-> [i \in Instances |-> NoAccept]]
  /\ chosen = [a \in Acceptors |-> {}]
  /\ min_chosen_instance = [a \in Acceptors |-> 0]
  /\ disk_epoch = [a \in Acceptors |-> 1]
  /\ disk_accepts = [a \in Acceptors |-> [i \in Instances |-> NoAccept]]
  /\ unsynced = [a \in Acceptors |-> FALSE]
  /\ below = [a \in Acceptors |-> {}]
  /\ unstored = [a \in Acceptors |-> {}]
  /\ wiped = [a \in Acceptors |-> {}]
  /\ forgotten = [a \in Acceptors |-> {}]

-----------------------------------------------------------------------------
Settled(a, i) == i <= trim_instance[a] \/ i \in chosen[a]

(* The least epoch ballot a answers in i: its epoch now and the ballot it  *)
(* promised, which may be from an earlier epoch.                           *)
MinEpochBallot(a, i) == [epoch |-> current_epoch[a], ballot |-> last_prepares[a][i]]

Found(a, i) == ballot_greater_than(last_prepares[a][i], INVALID_BALLOT)

PrepareGranted(a, i, b) ==
  /\ ~ Settled(a, i)
  /\ ballot_greater_than_or_equal(b, last_prepares[a][i]) \/ ~ Found(a, i)

(* EpochPrepareGranted_Always: the promise on record is not compared.      *)
EpochPrepareGranted_Always(a, i, eb) == ~ Settled(a, i)

EpochPrepareGranted(a, i, eb) ==
  /\ ~ Settled(a, i)
  /\ epoch_ballot_greater_than_or_equal(eb, MinEpochBallot(a, i)) \/ ~ Found(a, i)

EpochAcceptGranted(a, i, eb) ==
  /\ ~ Settled(a, i)
  /\ \/ epoch_ballot_greater_than_or_equal(eb, MinEpochBallot(a, i))
     \/ ~ Found(a, i) /\ eb.epoch >= current_epoch[a]

TrimMsg(a) == [type |-> "TRIM", aid |-> a, iid |-> trim_instance[a]]

ChosenMsg(a, i) ==
  [type |-> "CHOSEN", aid |-> a, iid |-> i,
   epoch_ballot |-> last_accepts[a][i].epoch_ballot, value |-> last_accepts[a][i].value]

PreemptedMsg(a, i, eb) ==
  [type |-> "PREEMPTED", aid |-> a, iid |-> i,
   requested |-> eb, current |-> MinEpochBallot(a, i)]

AcceptedMsg(a, i, eb, v) ==
  [type |-> "ACCEPTED", aid |-> a, iid |-> i, epoch_ballot |-> eb, value |-> v]

PromiseMsg(a, i, eb) ==
  [type |-> "PROMISE", aid |-> a, iid |-> i, epoch_ballot |-> eb,
   last_accepted |-> last_accepts[a][i].epoch_ballot, value |-> last_accepts[a][i].value]

(* The reply of every request: TRIM or CHOSEN for a settled instance, msgs *)
(* for a request that is granted, otherwise PREEMPTED.                     *)
Reply(a, i, eb, granted, msgs) ==
  CASE i <= trim_instance[a] -> {TrimMsg(a)}
    [] i > trim_instance[a] /\ i \in chosen[a] -> {ChosenMsg(a, i)}
    [] ~ Settled(a, i) /\ granted -> msgs
    [] ~ Settled(a, i) /\ ~ granted -> {PreemptedMsg(a, i, eb)}

PrepareReply(a, i, b) ==
  LET eb == [epoch |-> current_epoch[a], ballot |-> b]
  IN Reply(a, i, eb, PrepareGranted(a, i, b), {PromiseMsg(a, i, eb)})

EpochPrepareReply(a, i, eb, st) ==
  Reply(a, i, eb, EpochPrepareGranted(a, i, eb),
        IF st = "committed" THEN {PromiseMsg(a, i, eb)} ELSE {})

(* The outcome of the transaction is not looked at.                        *)
EpochAcceptReply(a, i, eb, v) ==
  Reply(a, i, eb, EpochAcceptGranted(a, i, eb), {AcceptedMsg(a, i, eb, v)})

(* RepeatReply_Always: whether there is a vote is not looked at.           *)
RepeatReply_Always(a, i) ==
  {AcceptedMsg(a, i, last_accepts[a][i].epoch_ballot, last_accepts[a][i].value)}

RepeatReply(a, i) ==
  CASE i \in chosen[a] -> {ChosenMsg(a, i)}
    [] /\ i \notin chosen[a]
       /\ ballot_greater_than(last_accepts[a][i].epoch_ballot.ballot, INVALID_BALLOT) ->
         {AcceptedMsg(a, i, last_accepts[a][i].epoch_ballot, last_accepts[a][i].value)}
    [] OTHER -> {}

-----------------------------------------------------------------------------
Proposed(a, i) ==
  max_proposed_instance' = [max_proposed_instance EXCEPT ![a] = IF i > @ THEN i ELSE @]

(* IncreaseEpoch_MemoryOnly: the epoch is not put into the database.       *)
IncreaseEpoch_MemoryOnly(a, e, st) ==
  /\ current_epoch' = [current_epoch EXCEPT ![a] = e]
  /\ UNCHANGED <<disk_epoch, unsynced>>

(* In memory before the transaction that writes it is committed, which may *)
(* fail.                                                                   *)
IncreaseEpoch(a, e, st) ==
  /\ current_epoch' = [current_epoch EXCEPT ![a] = e]
  /\ \/ /\ st = "committed"
        /\ disk_epoch' = [disk_epoch EXCEPT ![a] = e]
        /\ UNCHANGED unsynced
     \/ /\ st \in {"not_begun", "commit_failed"}
        /\ unsynced' = [unsynced EXCEPT ![a] = TRUE]
        /\ UNCHANGED disk_epoch

StorePrepare(a, i, b) == last_prepares' = [last_prepares EXCEPT ![a][i] = b]

NoteBelow(a, i, e) ==
  below' = IF e < current_epoch[a] THEN [below EXCEPT ![a] = @ \cup {i}] ELSE below

ReceivePrepare(a, i, b) ==
  \/ ~ PrepareGranted(a, i, b) /\ UNCHANGED accVars
  \/ /\ PrepareGranted(a, i, b)
     /\ Proposed(a, i)
     /\ StorePrepare(a, i, b)
     /\ UNCHANGED <<trim_instance, chosen, min_chosen_instance, epochVars,
                    last_accepts, disk_accepts, below, lossVars>>

(* A request of a higher epoch is answered once the epoch is on disk.      *)
ReceiveEpochBallotPrepare(a, i, eb, st) ==
  \/ ~ EpochPrepareGranted(a, i, eb) /\ st = "committed" /\ UNCHANGED accVars
  \/ /\ EpochPrepareGranted(a, i, eb)
     /\ Proposed(a, i)
     /\ \/ /\ eb.epoch <= current_epoch[a] /\ st = "committed"
           /\ StorePrepare(a, i, eb.ballot)
           /\ NoteBelow(a, i, eb.epoch)
           /\ UNCHANGED epochVars
        \/ /\ eb.epoch > current_epoch[a] /\ st = "committed"
           /\ IncreaseEpoch(a, eb.epoch, st)
           /\ StorePrepare(a, i, eb.ballot)
           /\ UNCHANGED below
        \/ /\ eb.epoch > current_epoch[a] /\ st = "not_begun"
           /\ UNCHANGED <<epochVars, last_prepares, below>>
        \/ /\ eb.epoch > current_epoch[a] /\ st = "commit_failed"
           /\ IncreaseEpoch(a, eb.epoch, st)
           /\ UNCHANGED <<last_prepares, below>>
     /\ UNCHANGED <<trim_instance, chosen, min_chosen_instance, last_accepts, disk_accepts,
                    lossVars>>

(* The vote and, if it is higher, its epoch are written in one             *)
(* transaction, then the vote and its promise are put into memory.  No     *)
(* result is looked at: when mdb_txn_begin fails, the puts and the commit  *)
(* fail after it, which is the same as a commit that fails.                *)
StoreAccept(a, i, eb, v, st) ==
  LET vote == [epoch_ballot |-> eb, value |-> v] IN
  /\ \/ eb.epoch > current_epoch[a] /\ IncreaseEpoch(a, eb.epoch, st)
     \/ eb.epoch <= current_epoch[a] /\ UNCHANGED epochVars
  /\ \/ /\ st = "committed"
        /\ disk_accepts' = [disk_accepts EXCEPT ![a][i] = vote]
        /\ UNCHANGED unstored
     \/ /\ st = "commit_failed"
        /\ unstored' = [unstored EXCEPT ![a] = @ \cup {i}]
        /\ UNCHANGED disk_accepts
  /\ StorePrepare(a, i, eb.ballot)
  /\ last_accepts' = [last_accepts EXCEPT ![a][i] = vote]
  /\ UNCHANGED <<wiped, forgotten>>

ReceiveEpochBallotAccept(a, i, eb, v, st) ==
  \/ ~ EpochAcceptGranted(a, i, eb) /\ st = "committed" /\ UNCHANGED accVars
  \/ /\ EpochAcceptGranted(a, i, eb)
     /\ Proposed(a, i)
     /\ StoreAccept(a, i, eb, v, st)
     /\ NoteBelow(a, i, eb.epoch)
     /\ UNCHANGED <<trim_instance, chosen, min_chosen_instance>>

-----------------------------------------------------------------------------
(* Record the trim and erase what lies below ToTrimFrom(iid), given the    *)
(* promises p, votes w and chosen marks c.                                 *)
TrimTo(a, iid, p, w, c) ==
  LET erased == {j \in Instances : j < ToTrimFrom(iid)} IN
  /\ trim_instance' = [trim_instance EXCEPT ![a] = iid]
  /\ last_prepares' = [last_prepares EXCEPT ![a] =
       [j \in Instances |-> IF j \in erased THEN INVALID_BALLOT ELSE p[j]]]
  /\ last_accepts' = [last_accepts EXCEPT ![a] =
       [j \in Instances |-> IF j \in erased THEN NoAccept ELSE w[j]]]
  /\ chosen' = [chosen EXCEPT ![a] = c \ erased]
  /\ wiped' = [wiped EXCEPT ![a] = @ \cup
       {j \in erased : j > iid /\ (p[j] # INVALID_BALLOT \/ w[j] # NoAccept)}]

ReceiveTrim(a, iid) ==
  \/ /\ iid > trim_instance[a]
     /\ min_chosen_instance[a] + 1 > iid
     /\ TrimTo(a, iid, last_prepares[a], last_accepts[a], chosen[a])
     /\ Proposed(a, iid)
     /\ UNCHANGED <<min_chosen_instance, epochVars, disk_accepts, below, unstored, forgotten>>
  \/ /\ iid <= trim_instance[a] \/ min_chosen_instance[a] + 1 <= iid
     /\ UNCHANGED accVars

(* ReceiveChosen_KeepsVote: the vote is not overwritten.                   *)
ReceiveChosen_KeepsVote(a, i, eb, v) ==
  /\ i \notin chosen[a]
  /\ chosen' = [chosen EXCEPT ![a] = @ \cup {i}]
  /\ Proposed(a, i)
  /\ UNCHANGED <<trim_instance, min_chosen_instance, epochVars, last_prepares, last_accepts,
                 disk_accepts, below, lossVars>>

(* Told what was chosen in i: mark it and overwrite its promise and vote,  *)
(* in memory only, then trim to the chosen prefix.  The trim proposes no   *)
(* instance above i.                                                       *)
ReceiveChosen(a, i, eb, v) ==
  LET c == chosen[a] \cup {i}
      k == AdvanceMinChosen(min_chosen_instance[a], c, i)
      p == [last_prepares[a] EXCEPT ![i] = eb.ballot]
      w == [last_accepts[a] EXCEPT ![i] = [epoch_ballot |-> eb, value |-> v]]
  IN
  /\ Proposed(a, i)
  /\ \/ /\ i \in chosen[a]
        /\ UNCHANGED <<trim_instance, chosen, min_chosen_instance, last_prepares,
                       last_accepts, wiped>>
     \/ /\ i \notin chosen[a]
        /\ min_chosen_instance' = [min_chosen_instance EXCEPT ![a] = k]
        /\ \/ k > trim_instance[a] /\ TrimTo(a, k, p, w, c)
           \/ /\ k <= trim_instance[a]
              /\ last_prepares' = [last_prepares EXCEPT ![a] = p]
              /\ last_accepts' = [last_accepts EXCEPT ![a] = w]
              /\ chosen' = [chosen EXCEPT ![a] = c]
              /\ UNCHANGED <<trim_instance, wiped>>
  /\ UNCHANGED <<epochVars, disk_accepts, below, unstored, forgotten>>

-----------------------------------------------------------------------------
(* Restart_TrashFiles: the start removes the files of the database.        *)
Restart_TrashFiles(a, stray, st) ==
  /\ disk_epoch[a] < MaxEpoch
  /\ IncreaseEpoch(a, disk_epoch[a] + 1, st)
  /\ disk_accepts' = [disk_accepts EXCEPT ![a] = [i \in Instances |-> NoAccept]]
  /\ last_prepares' = [last_prepares EXCEPT ![a] = [i \in Instances |-> INVALID_BALLOT]]
  /\ last_accepts' = [last_accepts EXCEPT ![a] = [i \in Instances |-> NoAccept]]
  /\ trim_instance' = [trim_instance EXCEPT ![a] = 0]
  /\ max_proposed_instance' = [max_proposed_instance EXCEPT ![a] = 0]
  /\ chosen' = [chosen EXCEPT ![a] = {}]
  /\ min_chosen_instance' = [min_chosen_instance EXCEPT ![a] = 0]
  /\ UNCHANGED <<below, lossVars>>

(* The process dies between two handlers and epoch_acceptor_new runs.      *)
(* Every vote on disk is read, but only its epoch is stored, and through   *)
(* the handle of the promises: the instance gets a promise whose ballot is *)
(* read from beyond a four-byte cell, and no vote.  That the transaction   *)
(* may fail is not noticed; when it does not begin, no read finds anything *)
(* and the epoch is counted from 0 again.  No trim is on disk.             *)
Restart(a, stray, st) ==
  LET stored == {i \in Instances : disk_accepts[a][i] # NoAccept}
      read == IF st = "not_begun" THEN {} ELSE stored
      old_epoch == IF st = "not_begun" THEN 0 ELSE disk_epoch[a]
  IN
  /\ disk_epoch[a] < MaxEpoch
  /\ IncreaseEpoch(a, old_epoch + 1, st)
  /\ last_prepares' = [last_prepares EXCEPT ![a] =
       [i \in Instances |-> IF i \in read THEN stray[i] ELSE INVALID_BALLOT]]
  /\ last_accepts' = [last_accepts EXCEPT ![a] = [i \in Instances |-> NoAccept]]
  /\ forgotten' = [forgotten EXCEPT ![a] = @ \cup stored]
  /\ trim_instance' = [trim_instance EXCEPT ![a] = 0]
  /\ max_proposed_instance' = [max_proposed_instance EXCEPT ![a] = 0]
  /\ chosen' = [chosen EXCEPT ![a] = {}]
  /\ min_chosen_instance' = [min_chosen_instance EXCEPT ![a] = 0]
  /\ UNCHANGED <<disk_accepts, below, unstored, wiped>>
=============================================================================
