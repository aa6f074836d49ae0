SPECIFICATION Spec
CONSTANTS
  a = a
  b = b
  c1 = c1
  d = d
  e = e
  x = x
  y = y
  NoPcb = NoPcb
  Programs <- Three
  Clones <- NoClones
  Levels <- OneLevel
  Shapes <- AllShapes
  StartTicks <- Starts
  InterruptTicks <- AnyTick
  NumCores = 2
  NumThreads = 1
  Quantum = 2
  ReadyCapacity = 3
  TickModulus = 1000
  MaxTick = 14
  MaxMissed = 1
  Policy = "RR"
  SyncMode = "CLOCK"
SYMMETRY Permuted
INVARIANTS TypeOK NeverLost NoDanglingPcb TtlCountsWork
PROPERTIES ExpiryGrantsQuantum SpentLeaves ImplementsLifecycle
