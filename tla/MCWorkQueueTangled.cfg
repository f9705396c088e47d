\* Two works of the timer tasklet, scheduled again while queued.
CONSTANTS
  Works = {w1, w2}
  NULL = NULL
  Threads = {t1, t2}
  SIZE_MOD = 8
  SEM_MAX = 4
  Requeue = TRUE
  MAX_PENDING = 3
SPECIFICATION FairSpec
INVARIANTS
  NoLostWakeup
