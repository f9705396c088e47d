\* Three periodic timers on two spokes, and a thread in mod_timer: the lists
\* stay well formed, and TimerService's promise is kept.
CONSTANTS
  TIMER_MAX = 3
  WHEEL = 2
  TIME_MOD = 4
  Delays = {3}
  Opts = {"PERIODIC"}
  Callers = {c1}
  MAX_SIGNAL = 1
SPECIFICATION FairSpec
INVARIANTS
  WheelConsistent
PROPERTIES
  ServiceSpec
