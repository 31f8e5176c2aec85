SPECIFICATION Spec
CONSTANTS
  n1 = n1
  n2 = n2
  h1 = h1
  h2 = h2
  raw = raw
  packed = packed
  other = other
  text = text
  word = word
  None = None
  Names = {n1, n2}
  Handlers = {h1, h2}
  Contents = {raw, packed, other}
  Encoded = {packed, other}
  Reported = {packed}
  MeaningOf <- MCMeaningOf
  StartPids = {3}
  StartRows <- MCStartRows
  StartResps = 2
  MaxPid = 5
  MaxResp = 4
  MaxReports = 2
  MaxRuns = 2
SYMMETRY Symmetry
INVARIANTS
  TypeOK
  HistoryKeepsItsPlayer
  HistoryKeepsItsResponse
  FreshIdsAreFree
  ForeignKeyComesBack
