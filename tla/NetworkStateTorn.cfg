CONSTANTS
  None = None
  d1 = d1
  d2 = d2
  Counters <- OneCounter
  Devices <- OneDevice
  BatchSize = 1
  Margin = 1
  MaxCounter = 3
  MaxKey = 1
  MaxMoves = 0
  MaxPipe = 2
SPECIFICATION Spec
INVARIANTS
  RestartNeverRollsBack
