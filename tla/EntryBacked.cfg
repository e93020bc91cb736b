CONSTANTS
  Ptr = {p1, p2}
  Sizes <- SomeSizes
  Resizes <- SomeSizes
  Aligns = {1, 64, 131072}
  Counts = {1, 3}
  USIZE_MAX = 16777215
  Powers <- PowersTo24
  NoBlock = NoBlock
  NoLayout = NoLayout
SPECIFICATION Spec
INVARIANTS SizeBacked
