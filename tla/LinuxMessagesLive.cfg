CONSTANTS
  Producer = {p1}
  Size = {1, 2}
  Capacity = 2
  MaxMessages = 3
  MaxIo = 1
  MaxBoots = 1
SPECIFICATION FairSpec
PROPERTIES
  Delivered
  RunReturns
