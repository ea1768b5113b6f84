CONSTANTS
  Batches = {b1}
  Scopes = {s1}
  NoBatch = NoBatch
  MaxVersion = 1
  Workers = {w1, w2}
  Publishers = {p1}
  NoWorker = NoWorker
  MaxAttempts = 3
SPECIFICATION HistorySpec
SYMMETRY Symmetry
PROPERTIES
  PersistedIsReconciled
CHECK_DEADLOCK FALSE
