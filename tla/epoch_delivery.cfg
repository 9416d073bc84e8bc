CONSTANTS
  a1 = a1
  a2 = a2
  a3 = a3
  v1 = v1
  v2 = v2
  Acceptors = {a1}
  Instances = {1, 2}
  Values = {v1}
  NULL = NULL
  NOP = NOP
  GARBAGE = GARBAGE
  AwaitHoles = TRUE
  ReproposeValues = FALSE
  Proposers = {0}
  q1 = 1
  q2 = 1
  FallBehindJump = 0
  BallotIncrement = 1
  BallotBias = 1
  PreexecWindowMin = 1
  PreexecWindowMax = 2
  StorageOutcomes = {"committed"}
  StrayBallots <- MCStrayBallots
  MaxEpoch = 1
  TrimBacklog = 0
  IidModulus = 8
  ClientOf <- OneClient
  Chunks = 0
  Late = {v1}
  MaxDraw = 1
  MaxBallot = 2
SPECIFICATION FairSpec
PROPERTIES ValuesDelivered ImplementsLog
INVARIANTS ClosedIsDecided TrimmedIsDelivered
CHECK_DEADLOCK FALSE
