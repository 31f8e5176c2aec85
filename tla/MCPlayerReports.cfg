SPECIFICATION Spec
CONSTANTS
  r1 = r1
  r2 = r2
  r3 = r3
  g1 = g1
  d1 = d1
  d2 = d2
  low = low
  high = high
  none = none
  removed = removed
  Names = {n1, n2}
  Handlers = {w1, w2}
  Responses <- MCResponses
  Guilds <- MCGuilds
  Descriptions <- MCDescriptions
  ProfileOf <- MCProfileOf
  GuildOf <- MCGuildOf
  DescriptionOf <- MCDescriptionOf
  Removed = removed
  None = none
  MaxTime = 2
  MaxReports = 3
  MaxPid = 5
SYMMETRY NameAndHandlerSymmetry
INVARIANTS
  TypeOK
  RowIsLastEntry
  ChangedShowsProfile
  LinksResolve
  WritersExclude
  WaitsGoUp
PROPERTIES
  CommitIsAnnounced
  OnlyARaceGoesBack
  Atomic
