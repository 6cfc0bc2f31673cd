CONSTANTS
  Desc = {d1, d2}
  Mon = {m1}
  Module = {console, conet}
  Console = None
  Conet = {conet}
  Daemon = {}
  Limit = 0
  MaxSend = 3
  MaxReads = 2
  Oversize = FALSE
  None = None
SPECIFICATION FairSpec
PROPERTIES
  ThrottleEnds
  ClosedIsFreed
