CONSTANTS
  Users = {u1, u2}
  Teams = {t1, t2}
  DialerNames = {n1, n2}
  AmericanNames = {o1}
  Customers = {m1, m2}
  LastDate = 2
  MaxOutcomes = 2
  MaxMoves = 2
  MaxFiles = 2
SPECIFICATION MetricSpec
INVARIANT CountedOnce
CHECK_DEADLOCK FALSE
