CONSTANTS
  a = a
  b = b
  c = c
  in = in
  x = x
  y = y
  z = z
  w1 = w1
  w2 = w2
  Stages = {a, b, c}
  Artifacts = {in, x, y, z}
  Workers = {w1, w2}
  NoWorker = NoWorker
  NoDag = NoDag
  Descriptors <- Regular
  MaxAttempts = 2
SPECIFICATION Spec
SYMMETRY Symmetry
INVARIANTS
  DependenciesFirst
  NeverStuck
  InputsHeld
  FreedWhenConsumed
PROPERTIES
  CompletedOnce
