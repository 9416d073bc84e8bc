---------------------------- MODULE ReplicatedLog ----------------------------
(***************************************************************************)
(* What a learner promises the application: a log of chosen values, one    *)
(* for each instance, in the order of the instances.  It may start at any  *)
(* instance; from there on it has no gap and is never taken back.          *)
(***************************************************************************)
EXTENDS Integers, Sequences

CONSTANTS Instances, Values

VARIABLES
  decided,   \* the choices made so far
  log        \* what the application was given

LogEntry == [iid : Instances, value : Values]

Init == decided = {} /\ log = <<>>

(* An instance is decided, once.                                           *)
Decide ==
  \E e \in LogEntry :
    /\ \A d \in decided : d.iid # e.iid
    /\ decided' = decided \cup {e}
    /\ UNCHANGED log

(* The log grows by decided entries, each for the instance after the one   *)
(* before it.                                                              *)
Deliver ==
  /\ Len(log') > Len(log)
  /\ \A k \in 1 .. Len(log) : log'[k] = log[k]
  /\ \A k \in (Len(log) + 1) .. Len(log') : log'[k] \in decided
  /\ \A k \in 1 .. (Len(log') - 1) : log'[k + 1].iid = log'[k].iid + 1
  /\ UNCHANGED decided

Next == Decide \/ Deliver

Spec == Init /\ [][Next]_<<decided, log>>
=============================================================================
