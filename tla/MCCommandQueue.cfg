CONSTANTS
  Callers = {0, 1}
  Nodes = {n1, n2}
  None = None
  Freed = Freed
  SEM_MAX = 2
  MAX_WORKS = 1
  MAX_LOST = 1
SPECIFICATION FairSpec
INVARIANTS
  TypeOK
  NodesConserved
  RequestLive
  AnswersMatch
  CurrentIsWatched
  WakeupsOwed
PROPERTIES
  CallEnds
