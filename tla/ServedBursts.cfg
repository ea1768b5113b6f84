CONSTANTS
  Records = {x1, x2}
  Staff = {s1, s2}
  PoolLimit = 2
  MaxChanges = 1
SPECIFICATION FairCasework
PROPERTIES
  RequestsAnswered
CHECK_DEADLOCK FALSE
