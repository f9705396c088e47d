CONSTANTS
  Threads = {t1}
  SIZE = 12
  HDR = 1
  MIN = 2
  GUARD = 1
  Sizes = {1, 3}
SPECIFICATION Spec
INVARIANTS
  NeverSpins
