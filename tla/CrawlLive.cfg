SPECIFICATION FairSpec
CONSTANTS
  Names = {n1, n2}
  Pollers = {q1}
  Handlers = {h1}
  Lease = 1
  Backoff <- MCBackoff
  RecentAge = 1
  WeekAge = 2
  MaxAge = 1
  MaxWait = 1
  MaxSkew = 1
  None = None
  MaxLimit = 1
  MaxNow = 3
PROPERTIES
  DueIsServed
