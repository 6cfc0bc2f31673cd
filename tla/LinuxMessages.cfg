CONSTANTS
  Producer = {p1, p2}
  Size = {1, 3}
  Capacity = 2
  MaxMessages = 3
  MaxIo = 1
  MaxBoots = 2
SPECIFICATION Spec
SYMMETRY Symmetry
INVARIANTS
  TypeOK
  SleepsOnLeftovers
  GuestsApart
PROPERTIES
  ImplementsChannel
