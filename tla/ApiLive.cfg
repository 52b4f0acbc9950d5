CONSTANTS
  None = None
  unicast = unicast
  ackUnicast = ackUnicast
  broadcast = broadcast
  request = request
  stream = stream
  Calls <- SendAndRequest
  Kind <- MCKind
  MaxId = 3
  MaxEvents = 0
SPECIFICATION FairSpec
PROPERTIES
  SendsEnd
  RequestsEndAfterLoss
CHECK_DEADLOCK FALSE
