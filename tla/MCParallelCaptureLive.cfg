\* Liveness: a block queued behind the one being sent, and one to fill.
CONSTANTS
  MEM_PART = 3
  MAX_QUE = 3
  BUF_SIZE = 2
  WRAP = 8
  IDLE = 1
  POLL = 1
  CHUNK = 1
  LINK_TRIES = 2
  LinkLo = 1
  LinkHi = 2
  MAX_LATE = 1
  MAX_BYTES = 2
SPECIFICATION FairSpec
PROPERTIES
  IdleBlockClosed
  QueueServed
