-------------------------- MODULE MCEpochAcceptor --------------------------
(***************************************************************************)
(* Instances of EvEpochAcceptor for TLC.  Instance 1 exists to be chosen   *)
(* and trimmed; instance 2 is contended in two epochs.  A ballot carries   *)
(* one value in an epoch.                                                  *)
(***************************************************************************)
EXTENDS EvEpochAcceptor

CONSTANTS v1, v2

b1 == [number |-> 1, proposer_id |-> 1]
b2 == [number |-> 2, proposer_id |-> 2]

eb(e, b) == [epoch |-> e, ballot |-> b]

MCStrayBallots == {INVALID_BALLOT, b1}
MCEpochBallots == {eb(e, b) : e \in 1 .. 2, b \in {b1, b2}}
MCPrepareRequests == {<<2, b2>>}
MCEpochPrepareRequests == {<<2, eb(1, b2)>>, <<2, eb(2, b1)>>}
MCEpochAcceptRequests == {<<2, eb(1, b1), v1>>, <<2, eb(2, b1), v2>>}
MCChosenNotices == {<<1, eb(1, b1), v1>>, <<2, eb(2, b1), v2>>}

(* No step reads the history variables, and the properties read them by    *)
(* way of Kept and Intact only, which only shrink: states that agree on    *)
(* these and on all else are one.                                          *)
View ==
  <<memVars, epochVars, last_prepares, last_accepts, disk_accepts, promises, votes, told,
    [a \in Acceptors |-> Kept(a)], [a \in Acceptors |-> Intact(a)]>>
=============================================================================
