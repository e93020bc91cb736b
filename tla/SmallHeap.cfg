CONSTANTS
  Thread = {t1, t2}
  Page = {p1, p2}
  NoThread = NoThread
  NoPage = NoPage
  Capacity = 2
  RefillBatch = 3
  EmptyPageCache = 0
  ColdPageSlots = 1
  FlushChunk = 2
  GroupBatch = 1
  Budget = 2
  DiscardOutcomes <- AnyDiscard
SYMMETRY Symmetry
SPECIFICATION Spec
INVARIANTS Exclusive UsedExact FreeListExact Pinned NoPageLost CallocReadsZero
