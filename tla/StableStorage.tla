---------------------------- MODULE StableStorage ----------------------------
(***************************************************************************)
(* What the acceptors take their stable storage to be: records, a trim     *)
(* instance and an epoch, changed by transactions that are applied as a    *)
(* whole or not at all.  A transaction in which a write failed, and a      *)
(* caller without a transaction, read nothing.                             *)
(***************************************************************************)
EXTENDS Naturals

CONSTANTS Iids,         \* instances
          Records,      \* what may be stored for an instance
          Epochs,
          NONE

VARIABLES stable,       \* what has been committed
          working,      \* what the open transaction sees, or NONE
          failed,       \* whether a write of it failed
          recovered     \* what the last recovery found, or NONE

vars == <<stable, working, failed, recovered>>

Init == /\ stable = [records |-> [i \in Iids |-> NONE], trim |-> 0, epoch |-> 0]
        /\ working = NONE
        /\ failed = FALSE
        /\ recovered = NONE

Begin == /\ working = NONE
         /\ working' = stable
         /\ failed' = FALSE
         /\ UNCHANGED <<stable, recovered>>

Write == /\ working # NONE
         /\ \/ \E i \in Iids, r \in Records : working' = [working EXCEPT !.records[i] = r]
            \/ \E n \in Iids \cup {0} : working' = [working EXCEPT !.trim = n]
            \/ \E e \in Epochs : working' = [working EXCEPT !.epoch = e]
         /\ failed' \in {failed, TRUE}
         /\ UNCHANGED <<stable, recovered>>

(* Nothing above the trim instance is missing, nothing else is there.      *)
Untrimmed(store) ==
  {store.records[i] : i \in {j \in Iids : j > store.trim /\ store.records[j] # NONE}}

Recover == /\ recovered' = IF working = NONE \/ failed THEN {} ELSE Untrimmed(working)
           /\ UNCHANGED <<stable, working, failed>>

Commit == /\ working # NONE
          /\ ~failed
          /\ stable' = working
          /\ working' = NONE
          /\ UNCHANGED <<failed, recovered>>

(* An abort, a commit that fails, or the end of the process.               *)
Lose == /\ working' = NONE
        /\ failed' = FALSE
        /\ recovered' \in {recovered, NONE}
        /\ UNCHANGED stable

Next == Begin \/ Write \/ Recover \/ Commit \/ Lose

Spec == Init /\ [][Next]_vars
=============================================================================
