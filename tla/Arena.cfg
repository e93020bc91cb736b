CONSTANTS
  Thread = {t1, t2}
  NoThread = NoThread
  Size = 3
  HoleSlots = 2
  HoleCap = 3
  ExactMax = 1
  MaxRequest = 2
SPECIFICATION FairSpec
INVARIANTS Exclusive Accounted InUseIntact TableExact
PROPERTIES CallReturns TakesBestFit
