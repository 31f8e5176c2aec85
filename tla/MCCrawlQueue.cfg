SPECIFICATION Spec
CONSTANTS
  Names = {n1, n2}
  Pollers = {q1, q2}
  Handlers = {h1}
  Lease = 1
  Backoff <- MCBackoff
  RecentAge = 1
  WeekAge = 2
  MaxAge = 1
  MaxWait = 1
  MaxSkew = 1
  None = None
  MaxLimit = 2
  MaxNow = 4
SYMMETRY Symmetry
INVARIANTS
  TypeOK
  LeaseRespected
  NoFutureReports
  NeverLost
  NextIsAccounted
PROPERTIES
  LeaseExclusive
  OldestFirst
