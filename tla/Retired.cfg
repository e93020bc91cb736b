CONSTANTS
  Thread = {t1, t2}
  Block = {b1, b2}
  SlotCount = 2
  SlotBytes = 1
  Usize = 4
SPECIFICATION FairSpec
INVARIANTS InOnePlace CountSettles
PROPERTIES CallReturns
