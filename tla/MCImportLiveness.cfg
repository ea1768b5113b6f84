CONSTANTS
  Batches = {b1}
  Scopes = {s1}
  NoBatch = NoBatch
  MaxVersion = 2
  Workers = {w1, w2}
  Publishers = {p1}
  NoWorker = NoWorker
  MaxAttempts = 3
SPECIFICATION FairSpec
PROPERTIES
  JobSettles
CHECK_DEADLOCK FALSE
