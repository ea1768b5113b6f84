CONSTANTS
  Batches = {b1, b2}
  Scopes = {s1}
  NoBatch = NoBatch
  MaxVersion = 2
  Workers = {w1}
  Publishers = {p1, p2}
  NoWorker = NoWorker
  MaxAttempts = 1
SPECIFICATION RetentionSpec
SYMMETRY Symmetry
PROPERTIES
  PublishedNeverSelected
CHECK_DEADLOCK FALSE
