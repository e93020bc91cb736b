CONSTANTS
  Thread = {t1, t2}
  Base = {0, 3}
  SpanLen = 3
  Tier = "medium"
  RefillBatch = 2
  EmptyCap = 0
  ColdCap = 1
  FlushChunk = 2
  Requests = {"calloc"}
  NoSpan = NoSpan
  NoThread = NoThread
SYMMETRY Symmetry
SPECIFICATION Spec
INVARIANTS Exclusive CountsExact NoSpanLost
PROPERTIES ImplementsContract
