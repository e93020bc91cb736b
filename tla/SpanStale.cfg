CONSTANTS
  Thread = {t1, t2}
  Base = {0, 1}
  SpanLen = 3
  Tier = "medium"
  RefillBatch = 2
  EmptyCap = 0
  ColdCap = 0
  FlushChunk = 2
  Requests = {"malloc"}
  NoSpan = NoSpan
  NoThread = NoThread
SYMMETRY Symmetry
SPECIFICATION Spec
INVARIANTS ReleasesToOwner
