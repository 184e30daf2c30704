SPECIFICATION Spec
CONSTANTS
  s1 = s1  s2 = s2  g1 = g1  g2 = g2
  Servers = {s1, s2}
  GroupIds = {g1, g2}
  NoGroup = NoGroup
  Infos <- Changes
  Handlers = {h1, h2}
  NoOne = NoOne
  Capacity = 1
  MaxSets = 2
INVARIANT
  ConnsReturned
CHECK_DEADLOCK FALSE
