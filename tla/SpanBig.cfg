CONSTANTS
  Thread = {t1, t2}
  Base = {0, 1, 3}
  SpanLen = 2
  Tier = "big"
  RefillBatch = 2
  EmptyCap = 1
  ColdCap = 0
  FlushChunk = 2
  Requests = {"malloc"}
  NoSpan = NoSpan
  NoThread = NoThread
SYMMETRY Symmetry
SPECIFICATION Spec
INVARIANTS ReleasesToOwner
