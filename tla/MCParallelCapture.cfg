\* Safety: two blocks, four bytes, every interleaving of the interrupt.
CONSTANTS
  MEM_PART = 2
  MAX_QUE = 2
  BUF_SIZE = 3
  WRAP = 6
  IDLE = 1
  POLL = 1
  CHUNK = 1
  LINK_TRIES = 2
  LinkLo = 5
  LinkHi = 2
  MAX_LATE = 1
  MAX_BYTES = 4
SPECIFICATION Spec
INVARIANTS
  TypeOK
  BlockOwnership
  NoFillWhileSending
  SendInBounds
  PostNeverFails
  WireInOrder
  NoSilentLoss
