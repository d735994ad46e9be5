CONSTANTS
  t1 = t1
  t2 = t2
  w1 = w1
  s1 = s1
  n = n
  Tasks = {t1, t2}
  Workers = {s1, w1}
  Silent = {}
  NoWorker = NoWorker
  NoLease = NoLease
  MaxRetries = 3
  Leases = {1}
  DefaultLease = 1
  MaxAttempts = 5
  Names = {n}
  SimWorkers = {s1}
  Timeout = 1
  MaxRecent = 2
  MaxEvents = 2
SPECIFICATION FairSingleSpec
INVARIANTS
  ReservationsBalanced
  RunningIsAwaited
PROPERTIES
  ImplementsContract
  RequestsAnswered
  OrphansAreReclaimed
CHECK_DEADLOCK FALSE
