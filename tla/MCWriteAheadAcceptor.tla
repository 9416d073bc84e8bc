------------------------ MODULE MCWriteAheadAcceptor ------------------------
(***************************************************************************)
(* Instances of EvWriteAheadBallotAcceptor for TLC.                        *)
(***************************************************************************)
EXTENDS EvWriteAheadBallotAcceptor

CONSTANTS v1, v2

b1 == [number |-> 1, proposer_id |-> 1]
b2 == [number |-> 2, proposer_id |-> 2]
b3 == [number |-> 3, proposer_id |-> 1]

MCPrepareRequests == {<<3, b1>>, <<3, b2>>, <<3, b3>>}
MCAcceptRequests == {<<3, b1, v1>>, <<3, b2, v2>>}
MCChosenNotices == {<<3, b1, v1>>}

(* Messages are only recorded, and no property is about those of an        *)
(* instance that is no longer intact.                                      *)
Live(msgs) == {m \in msgs : m.iid \in Intact(m.aid)}

View == <<accVars, timers, Live(promises), Live(votes), told>>
=============================================================================
