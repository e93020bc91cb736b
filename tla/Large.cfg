CONSTANTS
  Thread = {t1, t2}
  One = {a, b}
  Two = {c, d}
  Three = {}
  Region <- MCRegion
  PagesOf <- MCPagesOf
  ArenaRegion = {a, c}
  Shard = {s1}
  StashSlots = 1
  StashCap = 1
  HugeFrom = 2
  HugeCap = 2
  HotSlots = 3
  HotCap = 4
  ColdSlots = 1
  ColdCap = 1
  ExactMax = 1
  DiscardOutcomes <- MCDiscardOutcomes
  Requests = {"malloc", "calloc"}
  NoRegion = NoRegion
SYMMETRY ThreadSymmetry
SPECIFICATION Spec
INVARIANTS InOnePlace Recognised NoFault IndexExact
PROPERTY ImplementsContract
