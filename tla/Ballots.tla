------------------------------ MODULE Ballots ------------------------------
(***************************************************************************)
(* Ballots of paxos/ballot.c: a round number and the id of the proposer    *)
(* that owns the round, compared number first and proposer second.  Both   *)
(* are uint32_t in the code; no operation on ballots here can wrap before  *)
(* 2^32 rounds, so they are naturals.                                      *)
(***************************************************************************)
EXTENDS Naturals

Ballot == [number : Nat, proposer_id : Nat]

(* {0, 0}: "no ballot"; a zeroed record carries it.                        *)
INVALID_BALLOT == [number |-> 0, proposer_id |-> 0]

ballot_equal(l, r) ==
    l.proposer_id = r.proposer_id /\ l.number = r.number

ballot_greater_than(l, r) ==
    \/ l.number > r.number
    \/ l.number = r.number /\ l.proposer_id > r.proposer_id

ballot_greater_than_or_equal(l, r) ==
    \/ l.number > r.number
    \/ l.number = r.number /\ l.proposer_id >= r.proposer_id
=============================================================================
