CONSTANTS
  Acceptors = {1}
  Instances = {1, 2}
  v1 = v1
  v2 = v2
  Values = {v1, v2}
  NULL = NULL
  StorageOutcomes = {"committed", "not_begun", "commit_failed"}
  TrimBacklog = 2
  IidModulus = 8
  MaxEpoch = 2
  StrayBallots <- MCStrayBallots
  EpochBallotsInUse <- MCEpochBallots
  PrepareRequests <- MCPrepareRequests
  EpochPrepareRequests <- MCEpochPrepareRequests
  EpochAcceptRequests <- MCEpochAcceptRequests
  ChosenNotices <- MCChosenNotices
SPECIFICATION Spec
VIEW View
INVARIANTS TypeOK EpochWrittenAhead VotesDurable EpochPromiseReportsVotes TrimOnlyTold ChosenAnswerIsTold
