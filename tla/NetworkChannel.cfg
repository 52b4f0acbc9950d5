CONSTANTS
  None = None
  d1 = d1
  d2 = d2
  Counters <- OneCounter
  Devices <- OneDevice
  BatchSize = 1
  Margin = 0
  MaxCounter = 0
  MaxKey = 2
  MaxMoves = 2
  MaxPipe = 2
SPECIFICATION Spec
INVARIANTS
  BeaconsCurrent
PROPERTIES
  ChannelKept
