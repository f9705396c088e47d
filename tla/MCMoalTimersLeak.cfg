\* moal_free_timer after moal_stop_timer.
CONSTANTS
  TIMER_MAX = 2
  WHEEL = 2
  TIME_MOD = 4
  Delays = {1, 2}
  Opts = {"ONE_SHOT"}
  Callers = {}
  MAX_SIGNAL = 1
  Users = {u1, u2}
  Nobody = Nobody
  SETUP_DLY = 1
SPECIFICATION MoalFairSpec
INVARIANTS
  NoTimerLeaked
CHECK_DEADLOCK FALSE
