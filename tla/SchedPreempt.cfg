SPECIFICATION Spec
CONSTANTS
  a = a
  b = b
  c1 = c1
  d = d
  e = e
  x = x
  y = y
  NoPcb = NoPcb
  Programs <- Five
  Clones <- TwoClones
  Levels <- ThreeLevels
  Shapes <- LongShapes
  StartTicks <- Starts
  InterruptTicks <- LastTick
  NumCores = 1
  NumThreads = 2
  Quantum = 2
  ReadyCapacity = 5
  TickModulus = 1000
  MaxTick = 12
  MaxMissed = 1
  Policy = "PRIO"
  SyncMode = "CLOCK"
SYMMETRY Permuted
INVARIANTS AtMostOnePlace NoDanglingPcb MostUrgentExecutes
PROPERTIES ArrivalsNotStranded
