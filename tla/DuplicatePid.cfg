SPECIFICATION Spec
CONSTANTS
  a = a
  b = b
  c1 = c1
  d = d
  e = e
  x = x
  y = y
  NoPcb = NoPcb
  Programs <- Four
  Clones <- TwoClones
  Levels <- TwoLevels
  Shapes <- LongShapes
  StartTicks <- Starts
  InterruptTicks <- LastTick
  NumCores = 1
  NumThreads = 1
  Quantum = 2
  ReadyCapacity = 4
  TickModulus = 1000
  MaxTick = 8
  MaxMissed = 1
  Policy = "PRIO"
  SyncMode = "CLOCK"
SYMMETRY Permuted
INVARIANTS PidsUnique
