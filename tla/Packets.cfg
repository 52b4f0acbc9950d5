CONSTANTS
  None = None
  d1 = d1
  d2 = d2
  n1 = n1
  n2 = n2
  r1 = r1
  r2 = r2
  g1 = g1
  all = all
  p1 = p1
  p2 = p2
  Nodes <- BothNodes
  Addresses <- Either
  Routers <- BothRouters
  Groups <- AGroup
  Everyone = all
  Packets <- Two
  Offered <- Asked
  FirstLimit = 1
  MaxConcurrent = 1
  Paths <- DirectOrNot
SPECIFICATION Spec
INVARIANTS
  TypeOK
  SecurityKept
  AnsweredAsAsked
  NoPlaceLost
PROPERTIES
  NamesOneDevice
SYMMETRY Alike
