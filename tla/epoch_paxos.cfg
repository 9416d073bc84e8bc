CONSTANTS
  a1 = a1
  a2 = a2
  a3 = a3
  v1 = v1
  v2 = v2
  Acceptors = {a1, a2}
  Instances = {1}
  Values = {v1, v2}
  NULL = NULL
  NOP = NOP
  GARBAGE = GARBAGE
  AwaitHoles = TRUE
  ReproposeValues = FALSE
  Proposers = {0, 1}
  q1 = 1
  q2 = 2
  FallBehindJump = 0
  BallotIncrement = 1
  BallotBias = 1
  PreexecWindowMin = 1
  PreexecWindowMax = 1
  StorageOutcomes = {"committed"}
  StrayBallots <- MCStrayBallots
  MaxEpoch = 2
  TrimBacklog = 0
  IidModulus = 8
  ClientOf <- MCClientOf
  Chunks = 0
  Late = {}
  MaxDraw = 1
  MaxBallot = 3
SYMMETRY AcceptorSymmetry
VIEW View
SPECIFICATION VoteSpec
CONSTRAINT Sound
INVARIANTS AgreementIfSound OneValueIfSound ClosedIfSound DeliveredIfSound
CHECK_DEADLOCK FALSE
