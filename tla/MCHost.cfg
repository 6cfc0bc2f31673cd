CONSTANTS
  d1 = d1
  d2 = d2
  console = console
  Child = {console}
  Launched <- MCLaunched
  Monitor <- MCMonitor
  HostAmount = 160
  RamSize <- MCRamSize
  Enabled = {"block", "fs"}
  Pidfile = {d1}
  Executes = {d1}
  Faulty = {d1}
  Stoppable = {d1}
  MaxReboots <- MCMaxReboots
  HelperKind = {"tap", "serial", "bridge"}
  HelperLimit = 1
  Numbers = 7
  MaxTries = 2
SPECIFICATION ProcessSpec
CHECK_DEADLOCK FALSE
CONSTRAINT Apart
INVARIANTS
  ProcessTypeOK
  LeaksAreKnown
  HostmemAccounted
  ExitLeavesNothing
  HelpersExact
PROPERTIES
  StopEnds
  HelpersServe
