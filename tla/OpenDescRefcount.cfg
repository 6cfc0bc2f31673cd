CONSTANTS
  Desc = {d1, d2, d3}
  Mon = {m1}
  Module = {conet}
  Console = None
  Conet = {conet}
  Daemon = {}
  Limit = 1
  MaxSend = 1
  MaxReads = 1
  Oversize = FALSE
  None = None
SPECIFICATION Spec
SYMMETRY Symmetry
INVARIANTS
  RefcountIsConnections
