CONSTANTS
  NumSlots = 2
  Values = {a, b}
  Blank = Blank
  Torn = Torn
SPECIFICATION Spec
INVARIANTS
  TypeOK
  CounterDecides
PROPERTY
  RegisterImplemented
