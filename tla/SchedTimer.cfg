SPECIFICATION Spec
CONSTANTS
  a = a
  b = b
  c1 = c1
  d = d
  e = e
  x = x
  y = y
  NoPcb = NoPcb
  Programs <- Two
  Clones <- NoClones
  Levels <- OneLevel
  Shapes <- PairShapes
  StartTicks <- LateStarts
  InterruptTicks <- AnyTick
  NumCores = 1
  NumThreads = 1
  Quantum = 2
  ReadyCapacity = 2
  TickModulus = 1000
  MaxTick = 11
  MaxMissed = 1
  Policy = "RR"
  SyncMode = "TIMER"
SYMMETRY Permuted
INVARIANTS TtlCountsWork
PROPERTIES ImplementsLifecycle
