CONSTANTS
  Threads = {t1, t2}
  SIZE = 12
  HDR = 1
  MIN = 2
  GUARD = 1
  Sizes = {1, 3, 5}
SPECIFICATION Spec
INVARIANTS
  TypeOK
  Chained
  HolesPlugged
  LowestFree
  RequestsFit
  UntrimmedGuarded
PROPERTIES
  FailsOnlyFull
  PromiseSpec
CHECK_DEADLOCK FALSE
