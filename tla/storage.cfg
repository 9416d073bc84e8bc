CONSTANTS
  NONE = NONE
  v1 = v1
  Values <- MCValues
  Ballots <- MCBallots
  KeyModulus = 8
  MaxIid = 3
  MaxEpoch = 1
SPECIFICATION Spec
PROPERTY ImplementsStableStorage
