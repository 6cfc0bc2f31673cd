CONSTANTS
  w1 = w1
  w2 = w2
  m1 = m1
  m2 = m2
  Writer = {w1, w2}
  LogOwner <- MCLogOwner
  LogHandle = {"h"}
  Slot = {s1, s2}
  StartSize = 2
  MaxSize = 8
  MaxFill = 0
  ReadSize = 1
  BlkMonitor = {m1, m2}
  AsyncEnabled = {m1}
  MaxUse = 2
  Tag = {1}
  MaxResets = 1
  ProbeMin = 1
  ProbeMax = 4
  MaxBit = 4
  ScsiMonitor = {m1, m2}
  Resized = {m1}
  Shared = {m1}
  QueueSize = 1
  ScsiTag = {t1}
  MaxScsiResets = 1
  FileName = {f}
  DirName = {d, e}
  MaxIno = 4
  MaxOpens = 1
  ConetUser = {u1, u2}
  Adapter = {a1, a2}
  PoolSize = 2
  MaxWork = 1
  ConX = 1
  ConY = 2
  ConMaxY = 5
  ConCell = {1}
  ConClient = {k1, k2}
  MaxConOps = 2
  TapSender = {n1}
  PacketQueueSize = 1
  IrpQueueSize = 2
  MaxReads = 2
  MaxPackets = 2
  MaxSessions = 2
  Connection <- MCConnection
  RcvSpace = 2
  SndSpace = 2
  NetRoom = 1
  Datagram <- MCDatagram
  Boot <- MCBoot
  Exchange <- MCExchange
  Mtu = 2
  Expire = 3
  FragTtl = 2
  NbAddr = 2
  TimeMod = 8
  CommandLine <- MCCommandLine
  LastUnit = 1
  BootRoom = 1
  MaxText = 4
  Scene <- MCScene
  MaxControls = 2
  Host = {"a", "b", "s"}
  Course <- MCCourse
  Frame <- MCFrame
SPECIFICATION GuestDevicesSpec
CHECK_DEADLOCK FALSE
CONSTRAINT Sizing
INVARIANT EveryDeviceSized
