------------------------ MODULE MCStandardAcceptor ------------------------
(***************************************************************************)
(* Instances of EvStandardAcceptor for TLC.  The ballots belong to two     *)
(* proposers and differ in the number, or only in the proposer.  Each      *)
(* ballot carries one value per instance.  Instance 1 exists to be chosen  *)
(* and trimmed; instance 2 is contended.                                   *)
(***************************************************************************)
EXTENDS EvStandardAcceptor

CONSTANTS v1, v2

b11 == [number |-> 1, proposer_id |-> 1]
b12 == [number |-> 1, proposer_id |-> 2]
b21 == [number |-> 2, proposer_id |-> 1]

MCBallots == {b11, b12, b21}
MCPrepareRequests == {<<1, b11>>, <<2, b11>>, <<2, b21>>}
MCAcceptRequests == {<<2, b11, v1>>, <<2, b12, v2>>}
MCChosenNotices == {<<1, b11, v1>>, <<2, b12, v2>>}
=============================================================================
