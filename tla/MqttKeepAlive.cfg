CONSTANTS
  ClockSize = 5
  KeepAlive = 1
  MaxAge = 3
  Messages <- MCMessages
  Kind <- MCKind
SPECIFICATION Spec
PROPERTY
  KeepAliveHonoured
