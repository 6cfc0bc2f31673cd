CHECK_DEADLOCK FALSE
CONSTANTS
  Desc = {d1, d2}
  Mon = {m1}
  Module = {printk}
  Console = None
  Conet = {}
  Daemon = {d1, d2}
  Limit = 0
  MaxSend = 2
  MaxReads = 1
  Oversize = FALSE
  None = None
SPECIFICATION FairSpec
PROPERTIES
  ThrottleEnds
