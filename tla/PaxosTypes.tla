----------------------------- MODULE PaxosTypes -----------------------------
(***************************************************************************)
(* What the processes have in common (paxos/include/paxos_types.h and      *)
(* paxos/paxos_message_conversion.c): the sets ids, instances and values   *)
(* come from, the requests of the two phases, and the record an acceptor   *)
(* keeps of an instance.  Replies are defined where they are built.        *)
(***************************************************************************)
EXTENDS Ballots

CONSTANTS
  Acceptors,     \* acceptor ids
  Instances,     \* instance ids (iid_t) in use
  Values,        \* paxos values clients submit
  NULL           \* {0, NULL}: no value

PrepareMsg(i, b) == [type |-> "PREPARE", iid |-> i, ballot |-> b]

AcceptMsg(i, b, v) == [type |-> "ACCEPT", iid |-> i, ballot |-> b, value |-> v]

(* struct paxos_accepted without its ids.  A missing promise and a missing *)
(* acceptance read back as {0,0} and {0,NULL}, so "absent" is EmptyInfo.   *)
InstanceInfo ==
  [promise_ballot : Ballot, value_ballot : Ballot, value : Values \cup {NULL}]

EmptyInfo ==
  [promise_ballot |-> INVALID_BALLOT, value_ballot |-> INVALID_BALLOT, value |-> NULL]
=============================================================================
