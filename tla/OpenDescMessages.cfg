CONSTANTS
  Desc = {d1, d2}
  Mon = {m1}
  Module = {console, conet}
  Console = console
  Conet = {conet}
  Daemon = {}
  Limit = 1
  MaxSend = 3
  MaxReads = 2
  Oversize = TRUE
  None = None
SPECIFICATION Spec
INVARIANTS
  NoLostWakeup
  QueueBound
  EofMissesOnlyStaleReads
  RacesAreLockless
PROPERTIES
  ImplementsChannels
CHECK_DEADLOCK FALSE
