\* Several works, none scheduled while it is queued.
CONSTANTS
  Works = {w1, w2, w3}
  NULL = NULL
  Threads = {t1, t2, t3}
  SIZE_MOD = 4
  SEM_MAX = 4
  Requeue = FALSE
  MAX_PENDING = 3
SPECIFICATION FairSpec
INVARIANTS
  TypeOK
  ListIsFifo
  NoLostWakeup
PROPERTIES
  FifoSpec
