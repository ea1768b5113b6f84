CONSTANTS
  Batches = {b1, b2}
  Scopes = {s1}
  NoBatch = NoBatch
  MaxVersion = 2
  Workers = {w1, w2}
  Publishers = {p1}
  NoWorker = NoWorker
  MaxAttempts = 2
SPECIFICATION Spec
SYMMETRY Symmetry
CONSTRAINT Bound
INVARIANTS
  CompletedWasProcessed
PROPERTIES
  CatalogSpec
  JobsAreLeased
  StaleWorkerHarmless
CHECK_DEADLOCK FALSE
