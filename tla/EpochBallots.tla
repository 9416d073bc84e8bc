---------------------------- MODULE EpochBallots ----------------------------
(***************************************************************************)
(* Epoch ballots (paxos/epoch_ballot.c): a ballot and the epoch it is used *)
(* in.                                                                     *)
(***************************************************************************)
EXTENDS Ballots

EpochBallot == [epoch : Nat, ballot : Ballot]

INVALID_EPOCH_BALLOT == [epoch |-> 0, ballot |-> INVALID_BALLOT]

epoch_ballot_equal(l, r) == l.epoch = r.epoch /\ ballot_equal(l.ballot, r.ballot)

(* As the code has it: a lower epoch does not make l smaller when its      *)
(* ballot is greater, so two epoch ballots can each exceed the other.      *)
epoch_ballot_greater_than(l, r) ==
  l.epoch > r.epoch \/ ballot_greater_than(l.ballot, r.ballot)

epoch_ballot_greater_than_or_equal(l, r) ==
  epoch_ballot_equal(l, r) \/ epoch_ballot_greater_than(l, r)

-----------------------------------------------------------------------------
(* The order the algorithm needs: epoch first, ballot second.              *)
After(l, r) ==
  \/ l.epoch > r.epoch
  \/ l.epoch = r.epoch /\ ballot_greater_than(l.ballot, r.ballot)

NotBefore(l, r) ==
  \/ l.epoch > r.epoch
  \/ l.epoch = r.epoch /\ ballot_greater_than_or_equal(l.ballot, r.ballot)
=============================================================================
