CONSTANTS
  None = None
  unicast = unicast
  ackUnicast = ackUnicast
  broadcast = broadcast
  request = request
  stream = stream
  Calls <- SendAndStream
  Kind <- MCKind
  MaxId = 2
  MaxEvents = 2
SPECIFICATION Spec
INVARIANTS
  TypeOK
  NoStaleEntry
  LossReported
  StreamExact
PROPERTIES
  NoReportAfterDisconnect
  SettledOnce
  PromiseKept
CHECK_DEADLOCK FALSE
