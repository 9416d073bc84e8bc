CONSTANTS
  Acceptors = {1}
  Instances = {2, 3}
  v1 = v1
  v2 = v2
  Values = {v1, v2}
  NULL = NULL
  StorageOutcomes = {"committed", "not_begun", "commit_failed"}
  BallotWindow = 1
  MinBallotCatchup = 1
  MaxProposerId = 3
  MaxWrittenAhead = 4
  PrepareRequests <- MCPrepareRequests
  AcceptRequests <- MCAcceptRequests
  ChosenNotices <- MCChosenNotices
  TrimNotices = {2, 3}
VIEW View
SPECIFICATION Spec
INVARIANTS TypeOK DuplicateMirrorsDisk WrittenAhead PromiseReportsVotes ChosenAnswerGrounded
