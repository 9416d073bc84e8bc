----------------------------- MODULE LmdbStorage -----------------------------
(***************************************************************************)
(* The stable storage of an acceptor on LMDB (paxos/stable_storage_lmdb.c, *)
(* paxos/storage_utils.c).  One table holds the records of the instances   *)
(* under their numbers and, under three keys no instance has, the trim     *)
(* instance, the highest instance that has a record, and the epoch.        *)
(* Recovery asks for the instances between the first two of these, one by  *)
(* one: it finds the records only as long as the second is kept up.        *)
(*                                                                         *)
(* LMDB is external.  It has one writing transaction at a time, which is   *)
(* a copy of the table until it is committed; a put that fails (the map is *)
(* full) leaves the transaction unusable, so that later calls on it fail,  *)
(* the commit included; a commit may also fail by itself.                  *)
(***************************************************************************)
EXTENDS Naturals, Sequences, SequencesExt

CONSTANTS KeyModulus,   \* keys are numbers below this one, 2^32 in the code
          MaxIid,       \* bound: instances are 1 .. MaxIid
          MaxEpoch,     \* bound
          Ballots,      \* what a record says beside its instance and value
          Values,       \* with NONE, the value of length 0
          NONE

ASSUME LmdbAssumption == /\ MaxIid \in Nat \ {0}
                         /\ KeyModulus \in Nat /\ KeyModulus > MaxIid + 3
                         /\ MaxEpoch \in Nat

VARIABLES kind,         \* "standard" (the write-ahead acceptor too) or "epoch"
          db,           \* the table as committed
          txn,          \* NONE (NULL) or [view, error]
          recovered     \* the array of the last recovery, or NONE

vars == <<kind, db, txn, recovered>>

Iids == 1 .. MaxIid

(* struct paxos_accepted, struct epoch_ballot_accept.                      *)
Records == [iid : Iids, ballot : Ballots, value : Values \cup {NONE}]

(* -1, -2 and -3 as numbers without a sign.                                *)
TRIM_ID_KEY == KeyModulus - 1
MAX_INSTANCE_KEY == KeyModulus - 2
CURRENT_EPOCH_KEY == KeyModulus - 3

Keys == Iids \cup {TRIM_ID_KEY, MAX_INSTANCE_KEY, CURRENT_EPOCH_KEY}

Init == /\ kind \in {"standard", "epoch"}
        /\ db = [k \in Keys |-> NONE]
        /\ txn = NONE
        /\ recovered = NONE

-----------------------------------------------------------------------------
(* paxos_accepted_to_buffer and epoch_ballot_accept_to_buffer: the struct, *)
(* in which the value is a length and a pointer, and then the bytes; back, *)
(* the pointer is to a copy of the bytes, or stale when there are none.    *)
ToBuffer(rec) == [iid |-> rec.iid, ballot |-> rec.ballot,
                  len |-> IF rec.value = NONE THEN 0 ELSE 1,
                  bytes |-> IF rec.value = NONE THEN <<>> ELSE <<rec.value>>]

FromBuffer(buffer) == [iid |-> buffer.iid, ballot |-> buffer.ballot,
                       value |-> IF buffer.len > 0 THEN buffer.bytes[1] ELSE NONE]

-----------------------------------------------------------------------------
TxBegin ==
  /\ txn = NONE
  /\ txn' = [view |-> db, error |-> FALSE]
  /\ UNCHANGED <<kind, db, recovered>>

(* txn is NULL afterwards in every case.                                   *)
TxCommit ==
  /\ txn # NONE
  /\ txn' = NONE
  /\ \/ ~txn.error /\ db' = txn.view
     \/ UNCHANGED db
  /\ UNCHANGED <<kind, recovered>>

TxAbort ==
  /\ txn # NONE
  /\ txn' = NONE
  /\ UNCHANGED <<kind, db, recovered>>

(* The process ends, whatever it was doing, and opens the table again.     *)
Restart ==
  /\ txn' = NONE
  /\ recovered' = NONE
  /\ UNCHANGED <<kind, db>>

(* mdb_put, external.  Without a transaction it fails and nothing else     *)
(* happens, so the steps below are those with one.                         *)
Puts(t, key, data) ==
  IF t.error THEN {t}
  ELSE {[t EXCEPT !.view[key] = data], [t EXCEPT !.error = TRUE]}

(* mdb_get of one of the three keys: 0 when there is nothing.              *)
Got(view, key) == IF view[key] = NONE THEN 0 ELSE view[key]

-----------------------------------------------------------------------------
(* lmdb_storage_store_instance_info and the same for epoch ballots: the    *)
(* record, and the highest instance when this one is above it.             *)
StoreRecord(t, rec) ==
  UNION {IF ~t1.error /\ rec.iid > Got(t1.view, MAX_INSTANCE_KEY)
         THEN Puts(t1, MAX_INSTANCE_KEY, rec.iid) ELSE {t1} :
         t1 \in Puts(t, rec.iid, ToBuffer(rec))}

StoreInstanceInfo(rec) ==
  /\ kind = "standard"
  /\ txn # NONE
  /\ txn' \in StoreRecord(txn, rec)
  /\ UNCHANGED <<kind, db, recovered>>

StoreEpochBallotAccept(rec) ==
  /\ kind = "epoch"
  /\ txn # NONE
  /\ txn' \in StoreRecord(txn, rec)
  /\ UNCHANGED <<kind, db, recovered>>

(* lmdb_storage_put_trim_instance asserts that the put succeeds.           *)
PutTrimInstance(iid) ==
  /\ kind = "standard"
  /\ txn # NONE
  /\ \E t \in Puts(txn, TRIM_ID_KEY, iid) :
       \/ ~t.error /\ txn' = t /\ UNCHANGED recovered
       \/ t.error /\ txn' = NONE /\ recovered' = NONE
  /\ UNCHANGED <<kind, db>>

StoreCurrentEpoch(epoch) ==
  /\ kind = "epoch"
  /\ txn # NONE
  /\ txn' \in Puts(txn, CURRENT_EPOCH_KEY, epoch)
  /\ UNCHANGED <<kind, db, recovered>>

-----------------------------------------------------------------------------
(* lmdb_storage_get_all_untrimmed_instances_info: from the instance after  *)
(* the trim instance to the highest one, those that have a record.  When   *)
(* the gets fail, trim and record alike, the array is empty.               *)
(* AllUntrimmed_BelowMax: up to the highest instance, without it.          *)
AllUntrimmed_BelowMax(view) ==
  LET iids == [k \in 1 .. MaxIid |-> k]
      wanted(i) == /\ i > Got(view, TRIM_ID_KEY)
                   /\ i < Got(view, MAX_INSTANCE_KEY)
                   /\ view[i] # NONE
      found == SelectSeq(iids, wanted)
  IN [k \in DOMAIN found |-> FromBuffer(view[found[k]])]

AllUntrimmed(view) ==
  LET iids == [k \in 1 .. MaxIid |-> k]
      wanted(i) == /\ i > Got(view, TRIM_ID_KEY)
                   /\ i <= Got(view, MAX_INSTANCE_KEY)
                   /\ view[i] # NONE
      found == SelectSeq(iids, wanted)
  IN [k \in DOMAIN found |-> FromBuffer(view[found[k]])]

GetAllUntrimmed ==
  /\ recovered' = IF txn = NONE THEN <<>>
                  ELSE IF txn.error THEN <<>> ELSE AllUntrimmed(txn.view)
  /\ UNCHANGED <<kind, db, txn>>

Next ==
  \/ TxBegin
  \/ TxCommit
  \/ TxAbort
  \/ Restart
  \/ \E rec \in Records : StoreInstanceInfo(rec)
  \/ \E rec \in Records : StoreEpochBallotAccept(rec)
  \/ \E iid \in Iids : PutTrimInstance(iid)
  \/ \E epoch \in 1 .. MaxEpoch : StoreCurrentEpoch(epoch)
  \/ GetAllUntrimmed

Spec == Init /\ [][Next]_vars

-----------------------------------------------------------------------------
(* The table as the acceptors see it, without the key of the highest       *)
(* instance.                                                               *)
Seen(view) ==
  [records |-> [i \in Iids |-> IF view[i] = NONE THEN NONE ELSE FromBuffer(view[i])],
   trim |-> Got(view, TRIM_ID_KEY),
   epoch |-> Got(view, CURRENT_EPOCH_KEY)]

(* The table is the stable storage the acceptors rely on: a transaction is *)
(* applied as a whole or not at all, also when one of the two puts of a    *)
(* record fails, and a recovery finds every record above the trim instance *)
(* that was committed, with its value, and none besides                    *)
(* (lmdb_storage_store_instance_info, lmdb_storage_tx_commit,              *)
(* lmdb_storage_get_all_untrimmed_instances_info).                         *)
Stable == INSTANCE StableStorage WITH
  Epochs <- 0 .. MaxEpoch,
  stable <- Seen(db),
  working <- IF txn = NONE THEN NONE ELSE Seen(txn.view),
  failed <- IF txn = NONE THEN FALSE ELSE txn.error,
  recovered <- IF recovered = NONE THEN NONE ELSE Range(recovered)

ImplementsStableStorage == Stable!Spec
=============================================================================
