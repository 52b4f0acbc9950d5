CONSTANTS
  None = None
  unicast = unicast
  ackUnicast = ackUnicast
  broadcast = broadcast
  request = request
  stream = stream
  Calls <- Sending
  Kind <- MCKind
  MaxId = 4
  MaxEvents = 0
SPECIFICATION Spec
INVARIANTS
  TruthfulOutcome
  NoOrphanWait
  AbandonedIsCancelled
CHECK_DEADLOCK FALSE
