\* Two users of two timers, which expire on the same tick or on two, up to
\* the first fault.
CONSTANTS
  TIMER_MAX = 2
  WHEEL = 1
  TIME_MOD = 3
  Delays = {2}
  Opts = {"ONE_SHOT"}
  Callers = {}
  MAX_SIGNAL = 1
  Users = {u1, u2}
  Nobody = Nobody
  SETUP_DLY = 2
SPECIFICATION MoalFairSpec
INVARIANTS
  MoalTypeOK
  RunningIsArmed
PROPERTIES
  StartedGoesOff
CHECK_DEADLOCK FALSE
