CONSTANTS
  a1 = a1
  a2 = a2
  a3 = a3
  v1 = v1
  v2 = v2
  Acceptors = {a1, a2, a3}
  Instances = {1, 2}
  Values = {v1, v2}
  NULL = NULL
  q2 = 2
  Chunks = 0
  Forgetful = {a2}
  PossibleVotes <- MCPossibleVotes
SPECIFICATION FairSpec
INVARIANTS DeliveredIsChosen TrimsOnlyDelivered
PROPERTIES HolesFilled ImplementsLog
CHECK_DEADLOCK FALSE
