---------------------------- MODULE MCEpochPaxos ----------------------------
(***************************************************************************)
(* Instances of EpochPaxos for TLC.                                        *)
(***************************************************************************)
EXTENDS EpochPaxos, TLC

CONSTANTS v1, v2, a1, a2, a3

MCClientOf == (v1 :> 0) @@ (v2 :> 1)
OneClient == v1 :> 0
AcceptorSymmetry == Permutations(Acceptors)
MCStrayBallots == {INVALID_BALLOT}

(* A reply its proposer would drop now it drops for ever: ballots only     *)
(* grow, and so does the epoch at one ballot, an instance is opened once,  *)
(* and chosen and trimmed instances stay so.  States that differ in such   *)
(* replies only are identified.                                            *)
Live(m) ==
  CASE m.type = "PROMISE" -> ~ PromiseIgnored(proposer[m.epoch_ballot.ballot.proposer_id], m)
    [] m.type = "PREEMPTED" -> RequestPending(proposer[m.requested.ballot.proposer_id], m)
    [] OTHER -> TRUE

View == <<propVars, accVars, lnrVars, unsent, histVars, {m \in msgs : Live(m)}>>
=============================================================================
