CONSTANTS
  NumRequests = 2
  ServerIds = {}
  AckTimeout = 1
  MaxRetransmit = 2
  TransmitSpan = 3
  ServerSpan = 1
  Lifetime = 1
SPECIFICATION Spec
PROPERTIES
  RequestsConclude
  SyncReturns
