CONSTANTS
  Acceptors = {1}
  Instances = {1, 2}
  v1 = v1
  v2 = v2
  Values = {v1, v2}
  NULL = NULL
  StorageOutcomes = {"committed", "not_stored", "commit_failed"}
  TrimBacklog = 2
  IidModulus = 8
  Ballots <- MCBallots
  PrepareRequests <- MCPrepareRequests
  AcceptRequests <- MCAcceptRequests
  ChosenNotices <- MCChosenNotices
SPECIFICATION Spec
INVARIANTS TypeOK CacheCoherent AcksDurable PromiseReportsVotes TrimOnlyTold ChosenAnswerIsTold
