SPECIFICATION FairSpec
CONSTANTS
  p1 = p1
  p2 = p2
  s1 = s1
  s2 = s2
  a = a
  b = b
  bare = bare
  clad = clad
  young = young
  Servers = {s1, s2}
  Players = {p1, p2}
  HomeOf <- TwoServers
  Idents = {a, b}
  Updates = {bare, clad}
  ItemsOf <- MCItemsOf
  KindOf <- MCKindOf
  Gone = Gone
  None = None
  Todo = Todo
  Done = Done
  BatchSize = 1
  MaxSends = 2
PROPERTIES
  UpdatesAreTaken
  BatchesAreApplied
