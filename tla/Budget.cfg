CONSTANTS
  Small = {3, 5}
  Medium = {7}
  Big = {10}
  RefillBatch = 2
  SpanBatch = 2
  SlotBytes = 7
  DefaultBudget = 9
  MinBudget = 8
  Budgets = {0}
  MaxEpoch = 1
  NoCache = NoCache
SPECIFICATION FairSpec
INVARIANTS BytesExact
PROPERTIES FreeSettles TrimEnds
