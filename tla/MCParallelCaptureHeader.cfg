\* What the code does after the header has failed to send.
CONSTANTS
  MEM_PART = 2
  MAX_QUE = 2
  BUF_SIZE = 2
  WRAP = 6
  IDLE = 1
  POLL = 1
  CHUNK = 1
  LINK_TRIES = 2
  LinkLo = 1
  LinkHi = 2
  MAX_LATE = 1
  MAX_BYTES = 2
SPECIFICATION FairSpec
PROPERTIES
  NoSendAfterFailure
