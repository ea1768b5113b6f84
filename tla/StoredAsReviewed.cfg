CONSTANTS
  Users = {u1, u2}
  Teams = {t1}
  DialerNames = {n1, n2}
  Hours = {h1, h2}
  Calls = {1, 2}
  MaxRows = 3
SPECIFICATION PreviewSpec
INVARIANTS
  StoredAsReviewed
CHECK_DEADLOCK FALSE
