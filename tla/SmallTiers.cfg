CONSTANTS
  Thread = {t1, t2}
  Page = {p1, p2, p3}
  NoThread = NoThread
  NoPage = NoPage
  Capacity = 1
  RefillBatch = 2
  EmptyPageCache = 1
  ColdPageSlots = 1
  FlushChunk = 2
  GroupBatch = 1
  Budget = 2
  DiscardOutcomes <- WindowsDiscard
SPECIFICATION FairSpec
INVARIANTS SafetyInv
PROPERTIES ImplementsContract LockReleased
