---------------------------- MODULE MCEvLearner ----------------------------
(***************************************************************************)
(* Three acceptors.  In instance 1 the first proposer's v1 competes with   *)
(* v2 at a higher ballot; the second instance has one proposal.            *)
(***************************************************************************)
EXTENDS EvLearner

CONSTANTS a1, a2, a3, v1, v2

b1 == [number |-> 1, proposer_id |-> 0]
b2 == [number |-> 2, proposer_id |-> 1]

MCPossibleVotes ==
  [aid : {a1, a2}, iid : {1}, ballot : {b1}, value : {v1}]
  \cup [aid : {a2, a3}, iid : {1}, ballot : {b2}, value : {v1, v2}]
  \cup [aid : {a1, a2}, iid : {2}, ballot : {b1}, value : {v2}]
=============================================================================
