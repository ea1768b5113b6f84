CONSTANTS
  Batches = {b1}
  Scopes = {s1}
  NoBatch = NoBatch
  MaxVersion = 1
  Workers = {w1}
  Publishers = {p1, p2}
  NoWorker = NoWorker
  MaxAttempts = 2
SPECIFICATION Spec
SYMMETRY Symmetry
PROPERTIES
  PublishedNotProcessed
CHECK_DEADLOCK FALSE
