CONSTANTS
  Others <- MCOthers
  SystemQueueSize = 2
  AppQueueSize = 2
  MaxCalls = 2
  MaxEvents = 2
SPECIFICATION Spec
INVARIANT
  TypeOK
PROPERTIES
  CallsServed
  CallsReturn
