CONSTANTS
  c1 = c1
  w1 = w1
  w2 = w2
  Tasks = {c1}
  Workers = {w1, w2}
  Silent = {}
  NoWorker = NoWorker
  NoLease = NoLease
  MaxRetries = 3
  Leases = {1}
  DefaultLease = 1
  MaxAttempts = 9
  SimWorkers = {}
  SimFallback = NoWorker
  Pools = {1}
  MaxLoop = 2
  ChunkTimeout = 1
  MaxDrops = 0
  MaxCopies = 0
  MaxCrashes = 0
SPECIFICATION DispatchSpec
INVARIANTS
  CurrentOrderCarriesItsAttempt
CHECK_DEADLOCK FALSE
