CONSTANTS
  t1 = t1
  t2 = t2
  w1 = w1
  w2 = w2
  Tasks = {t1, t2}
  Workers = {w1, w2}
  Silent = {}
  NoWorker = NoWorker
  NoLease = NoLease
  MaxRetries = 2
  Leases = {1}
  DefaultLease = 0
  MaxAttempts = 3
SPECIFICATION Spec
SYMMETRY Symmetry
INVARIANTS
  
  RetryBudget
  AttemptFencing
  
  DependenciesAcyclic

  
CHECK_DEADLOCK FALSE
