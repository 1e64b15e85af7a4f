CONSTANT
  NumPids <- MCNumPids
SPECIFICATION Spec
INVARIANT
  LockedFramesIntact
