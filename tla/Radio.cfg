CONSTANTS
  None = None
  t1 = t1
  t2 = t2
  c1 = c1
  c2 = c2
  Tasks <- Both
  Channels <- TwoChannels
  Count = 2
  MaxSessions = 2
  MaxId = 8
  MaxEvents = 1
  MaxPipe = 2
SPECIFICATION Spec
INVARIANTS
  TypeOK
  OwnEventsOnly
  StartsFromIdle
  ScanComplete
  KeyBeforeWindow
  PermitTruthful
SYMMETRY Alike
CHECK_DEADLOCK FALSE
