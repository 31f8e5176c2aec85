SPECIFICATION Spec
CONSTANTS
  r1 = r1
  r2 = r2
  bare = bare
  vain = vain
  clad = clad
  young = young
  all = all
  some = some
  odd = odd
  lost = lost
  Handlers = {r1, r2}
  Updates = {bare, vain, clad, young}
  ItemsOf <- MCItemsOf
  KindOf <- MCKindOf
  StatsOf <- MCStatsOf
  LevelOf <- MCLevelOf
  Gone = Gone
  None = None
  Batches <- MCBatches
  Questions = {all, some, odd, lost}
  BookOf <- MCBookOf
  BookKind <- MCBookKind
  MaxOf <- MCMaxOf
  Rowless = {5}
  Strengths = {2, 3}
  Limit = 2
  Size = 2
  ResultAge = 1
  ServersAge = 2
  Base = 4
  Width = 1024
  MaxWork = 4
SYMMETRY HandlerSymmetry
INVARIANTS
  TypeOK
  TargetsAreBest
  NudesAreBest
  AskedOnce
  StatesAreReused
PROPERTIES
  CacheHoldsSets
  RenewedOnlyByOverlap
