CONSTANTS
  Size = 2
  Bytes = {0, 1}
  Stale = Stale
  MaxPut = 3
SPECIFICATION Spec
INVARIANTS
  TypeOK
  TxArmed
  RxArmed
PROPERTIES
  StreamsImplemented
  CallsReturn
