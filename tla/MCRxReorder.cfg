CONSTANTS
  Payloads = {p1, p2}
  None = None
  Dropped = Dropped
  MOD = 6
  WIN = 3
  MAX_LATE = 1
SPECIFICATION Spec
SYMMETRY Symmetry
INVARIANTS
  TypeOK
  StoresInWindow
  SlotsExact
  DeliveredIsPast
  PayloadsConserved
  BufferedIsWatched
CHECK_DEADLOCK FALSE
