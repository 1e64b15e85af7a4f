CONSTANT
  NumPids <- MCNumPids
SPECIFICATION Spec
INVARIANTS
  TypeOK
  ServerHoldsInside
  BatchCounted
  StartupGate
PROPERTIES
  UplinkImplemented
  ServerServed
  BodyRecurs
