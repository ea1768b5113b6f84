CONSTANTS
  Batches = {b1, b2, b3}
  Scopes = {s1, s2}
  NoBatch = NoBatch
  MaxVersion = 3
  PageSizes = {1, 2}
SPECIFICATION Bounded
SYMMETRY Symmetry
INVARIANTS
  PointerConsistent
  HistoryInLine
  DraftsTogether
  OffersAreAccepted
  HistoryAddsUp
PROPERTIES
  OnlyPublicationReveals
  DeletionKeepsHistory
CHECK_DEADLOCK FALSE
