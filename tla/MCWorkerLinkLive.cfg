CONSTANTS
  Conns <- TwoConns
  Pairings <- EightPairings
  Loopback = {TRUE}
  HalfOpen = FALSE
  MaxQueue = 2
  Faults <- AllFaults
  MaxFaults = 3
SPECIFICATION FairSpec
INVARIANTS
  KeysAgree
  RegisteredIsReachable
PROPERTIES
  WorkerComesBack
CHECK_DEADLOCK FALSE
