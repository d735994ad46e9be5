CONSTANTS
  a = a
  b = b
  c = c
  in = in
  x = x
  y = y
  z = z
  w1 = w1
  w2 = w2
  Stages = {a, b, c}
  Artifacts = {in, x, y, z}
  Workers = {w1, w2}
  NoWorker = NoWorker
  NoDag = NoDag
  Descriptors <- OnlyChain
  MaxAttempts = 3
SPECIFICATION Spec
SYMMETRY Symmetry
INVARIANTS
  FailedAfterItsAttempts
