CONSTANTS
  Batches = {b1, b2}
  Scopes = {s1}
  NoBatch = NoBatch
  MaxVersion = 2
  Workers = {w1}
  Publishers = {p1}
  NoWorker = NoWorker
  MaxAttempts = 1
SPECIFICATION HistorySpec
SYMMETRY Symmetry
PROPERTIES
  ReviewedVersionReplaced
CHECK_DEADLOCK FALSE
