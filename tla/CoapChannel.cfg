CONSTANTS
  NumRequests = 2
  ServerIds <- MCServerIds
  AckTimeout = 1
  MaxRetransmit = 1
  TransmitSpan = 2
  ServerSpan = 0
  Lifetime = 1
SPECIFICATION Spec
INVARIANTS
  TypeOK
  AcksAreHonest
PROPERTY
  ExchangeImplemented
