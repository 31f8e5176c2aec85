SPECIFICATION Spec
CONSTANTS
  r1 = r1
  r2 = r2
  r3 = r3
  g1 = g1
  d1 = d1
  d2 = d2
  low = low
  high = high
  none = none
  removed = removed
  Names = {n1}
  Handlers = {w1, w2}
  Responses <- MCResponses
  Guilds <- MCGuilds
  Descriptions <- MCDescriptions
  ProfileOf <- MCProfileOf
  GuildOf <- MCGuildOf
  DescriptionOf <- MCDescriptionOf
  Removed = removed
  None = none
  MaxTime = 2
  MaxReports = 2
  MaxPid = 3
PROPERTIES
  ReportedPlayerIsPresent
