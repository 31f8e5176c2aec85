SPECIFICATION Spec
CONSTANTS
  Names = {a, b}
  LastPage = 1
  Pollers = {q1, q2}
  Reporters = {r1, r2}
  Lease = 1
  CrawlAge = 1
  MaxLimit = 2
  None = None
  MaxRequests = 3
  MaxNow = 4
SYMMETRY Symmetry
INVARIANTS
  TypeOK
  PagesAccounted
  PagesReturn
PROPERTIES
  EarlyRestartOnlyByOverlap
  DoubleHandOutOnlyByOverlap
