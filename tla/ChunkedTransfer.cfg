CONSTANTS
  f1 = f1
  f2 = f2
  f3 = f3
  Files = {f1, f2, f3}
  Length <- MCLength
  MaxChunks = 4
  Flight = 2
  Timeout = 2
  MaxOffers = 2
  Nothing = Nothing
SPECIFICATION Spec
INVARIANTS
  TypeOK
  FinishedWhole
  WatchdogArmed
  RepairAsks
PROPERTIES
  SavesBelong
  UpdateConcludes
