CONSTANTS
  None = None
  unicast = unicast
  ackUnicast = ackUnicast
  broadcast = broadcast
  request = request
  stream = stream
  Calls <- Streaming
  Kind <- MCKind
  MaxId = 1
  MaxEvents = 1
SPECIFICATION FairSpec
PROPERTIES
  StreamsEndAfterLoss
CHECK_DEADLOCK FALSE
