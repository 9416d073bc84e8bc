--------------------------- MODULE MCStandardPaxos ---------------------------
(***************************************************************************)
(* Two proposers, three acceptors, one contended instance.                 *)
(***************************************************************************)
EXTENDS StandardPaxos, TLC

CONSTANTS v1, v2, a1, a2, a3

MCSubmitted == (0 :> <<v1>>) @@ (1 :> <<v2>>)
AcceptorSymmetry == Permutations(Acceptors)

(* A reply its proposer would drop now it drops for ever: ballots only     *)
(* grow, an instance is opened once, and chosen and trimmed instances stay *)
(* so.  States that differ in such replies only are identified.            *)
Live(m) ==
  CASE m.type = "PROMISE" -> ReceivePromise(proposer[m.ballot.proposer_id], m)
                               # proposer[m.ballot.proposer_id]
    [] m.type = "PREEMPTED" -> Preempts(proposer[m.attempted_ballot.proposer_id], m)
    [] m.type = "TRIM" -> \E p \in Proposers : m.iid > proposer[p].trim_instance
    [] OTHER -> TRUE

View == <<propVars, accVars, ignored, {m \in msgs : Live(m)}>>
=============================================================================
