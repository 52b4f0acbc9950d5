CONSTANTS
  None = None
  d1 = d1
  d2 = d2
  Counters <- OneCounter
  Devices <- TwoDevices
  BatchSize = 1
  Margin = 1
  MaxCounter = 2
  MaxKey = 1
  MaxMoves = 0
  MaxPipe = 2
SPECIFICATION Spec
INVARIANTS
  TypeOK
  CountersFresh
  KeysSurvive
SYMMETRY Either
