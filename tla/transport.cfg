CONSTANTS
  GARBAGE = GARBAGE
  c1 = c1
  Connectors <- MCConnectors
  Partner <- MCPartner
  Scenarios <- MCScenarios
  MaxConnections = 3
  MaxBroadcasts = 2
  AcceptorCount = 4
  Self = 2
  Group = 3
SPECIFICATION Spec
INVARIANT ClientsAreLive
PROPERTIES ImplementsChannel GroupIsFixed Reconnects SentIsHandled
CHECK_DEADLOCK FALSE
