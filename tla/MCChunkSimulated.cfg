CONSTANTS
  c1 = c1
  c2 = c2
  w1 = w1
  s1 = s1
  Tasks = {c1, c2}
  Workers = {s1, w1}
  Silent = {}
  NoWorker = NoWorker
  NoLease = NoLease
  MaxRetries = 3
  Leases = {1}
  DefaultLease = 1
  MaxAttempts = 9
  SimWorkers = {s1}
  SimFallback = s1
  Pools = {1, 2}
  MaxLoop = 1
  ChunkTimeout = 1
  MaxDrops = 0
  MaxCopies = 0
  MaxCrashes = 0
SPECIFICATION DispatchSpec
SYMMETRY Symmetry
INVARIANTS
  PoolServesQueue
  ProgressAddsUp
CHECK_DEADLOCK FALSE
