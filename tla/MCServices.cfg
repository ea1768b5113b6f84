CONSTANTS
  Users = {u1, u2}
  Teams = {t1, t2}
  DialerNames = {n1, n2}
  Admins = {a1, a2}
  RowCount = 2
  Requests = {q1, q2}
  Hours = {h1, h2}
  Calls = {1, 2}
  MaxRows = 3
  MaxActive = 2
  TablePageSize = 1
  Records = {x1}
  Staff = {s1, s2}
  PoolLimit = 2
  MaxChanges = 2
  Attempts = {c1, c2}
  Identifiers = {i1, i2}
  Limit = 1
  MaxTime = 6
  Loads = {l1, l2}
  MaxEdits = 3
  AmericanNames = {o1, o2}
  Customers = {m1, m2}
  LastDate = 2
  MaxOutcomes = 2
  MaxMoves = 2
  MaxFiles = 2
  MonthLengths <- FiveMonths
  Forward = 214
  Backward = 285
  FirstHour = 200
  LastHour = 424
  DailyUpTo = 3
  WeeklyUpTo = 8
  TrendMonths = 3
  Persons = {1, 2, 3}
  NoProfile = 0
  MaxLinks = 1
SPECIFICATION ServicesSpec
SYMMETRY Symmetry
VIEW View
INVARIANTS
  AdminRemains
  OneLiveLink
  TemporaryOpensNoSession
  OneTeamAndOwner
  TeamScreensAgree
  OneConfirmation
  PreviewTellsTruth
  HistoryComplete
  AtMostLimit
  ScreensAgree
  ManagersAddUp
  MetricsAddUp
  DashboardsAgree
  CalendarTiles
  
PROPERTIES
  ChangesAreGuarded
  NeverBackwards
  PayUnaffected
  NightsInTurn
CHECK_DEADLOCK FALSE
