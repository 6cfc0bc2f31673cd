CONSTANTS
  Mon = {m1, m2}
  RamPages = 2
  TablePages = 1
  Frame = {f1, f2, f3}
  High = {}
  BucketSize = 2
  None = None
  Uncleared <- OneFrame
SPECIFICATION Spec
SYMMETRY Symmetry
INVARIANTS
  TypeOK
  OneOwner
  MappingsExact
