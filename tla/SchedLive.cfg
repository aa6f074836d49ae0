SPECIFICATION FairSpec
CONSTANTS
  a = a
  b = b
  c1 = c1
  d = d
  e = e
  x = x
  y = y
  NoPcb = NoPcb
  Programs <- Two
  Clones <- NoClones
  Levels <- OneLevel
  Shapes <- LongShapes
  StartTicks <- Starts
  InterruptTicks <- FirstTick
  NumCores = 1
  NumThreads = 1
  Quantum = 2
  ReadyCapacity = 3
  TickModulus = 2
  MaxTick = 9
  MaxMissed = 2
  Policy = "RR"
  SyncMode = "CLOCK"
PROPERTIES AllComplete ShutdownAccounted
