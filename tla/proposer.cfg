CONSTANTS
  a1 = a1
  v1 = v1
  w = w
  Acceptors = {a1}
  Instances = {1, 2}
  Values = {v1}
  Foreign = w
  ForeignId = 2
  NULL = NULL
  NOP = NOP
  GARBAGE = GARBAGE
  AwaitHoles = TRUE
  ReproposeValues = FALSE
  Proposers = {1}
  q1 = 1
  q2 = 1
  FallBehindJump = 0
  BallotIncrement = 1
  BallotBias = 1
  MaxDraw = 1
  MaxBallot = 2
  RoundRobinBackoff = FALSE
  PreexecWindowMin = 1
  PreexecWindowMax = 2
VIEW View
SPECIFICATION Spec
INVARIANTS NoValueLost NoValueStranded OneValuePerBallot
CHECK_DEADLOCK FALSE
