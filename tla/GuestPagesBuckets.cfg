CONSTANTS
  Mon = {m1, m2}
  RamPages = 1
  TablePages = 1
  Frame = {f1, f2, f3, f4, h1}
  High = {h1}
  BucketSize = 2
  None = None
  Uncleared <- OneFrame
SPECIFICATION Spec
SYMMETRY Symmetry
INVARIANTS
  PoolAccounted
