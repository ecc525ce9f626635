CONSTANTS
  c1 = c1
  c2 = c2
  CPUs <- MCCPUs
  NFrames = 6
  Conventional <- MCConventional
  Reserved <- MCReserved
  BitmapBits = 5
  WordBits = 2
  MaxTrack = 1
  StaleFrees = TRUE
  HeapLimit = 12
  PageUnits = 4
  HeapSizes <- MCSizes
  HeapAligns <- MCAligns
  SchedCpus <- MCCPUs
  Pids <- MCPids
  TaskSlots = 2
  QueueSize = 1
  Slice = 1
  Urgent <- MCUrgent
  StealAbove = 0
  LogSize = 4
  LineMax = 4
  FlushMax = 2
  LogMessages <- MCMessages
  Sectors = {0, 1}
  SectorData = {0, 1}
  Zeroed = 0
  IdxMod = 4
  TxDescs = 2
  RxDescs = 3
  RingSize = 4
  Packets = {f1, f2}
  MaxSent = 5
  Runt = runt
SYMMETRY Symmetry
SPECIFICATION KernelSpec
INVARIANTS OneOwner CountIsExact BlocksDisjoint SlotsExclusive DevicesFaithful
  AllocFailsOnlyWhenEmpty
