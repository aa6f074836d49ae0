SPECIFICATION Spec
CONSTANTS
  a = a
  b = b
  c1 = c1
  d = d
  e = e
  x = x
  y = y
  NoPcb = NoPcb
  Programs <- Three
  Clones <- NoClones
  Levels <- ThreeLevels
  Shapes <- PairShapes
  StartTicks <- Starts
  InterruptTicks <- LastTick
  NumCores = 1
  NumThreads = 2
  Quantum = 6
  ReadyCapacity = 4
  TickModulus = 1000
  MaxTick = 14
  MaxMissed = 1
  Policy = "BFS"
  SyncMode = "CLOCK"
SYMMETRY Permuted
INVARIANTS AtMostOnePlace CopiesMirrorThreads DeadlinesUnambiguous
PROPERTIES EarliestDeadlineFirst ImplementsLifecycle
