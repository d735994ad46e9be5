CONSTANTS
  Conns <- TwoConns
  Pairings <- EightPairings
  Loopback = {TRUE}
  HalfOpen = TRUE
  MaxQueue = 2
  Faults <- LostConnections
  MaxFaults = 1
SPECIFICATION FairSpec
PROPERTIES
  WorkerComesBack
CHECK_DEADLOCK FALSE
