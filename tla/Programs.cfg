SPECIFICATION Spec
CONSTANTS
  Null = Null
  NumRegisters = 4
  AddressSpace = 64
  WordsPerPage = 4
  KernelFrames = 2
  TotalFrames = 9
  MaxFiles = 3
  ReadyCapacity = 2
  NumThreads = 2
  MinTtl = 3
  MaxTtl = 7
  FileContents <- AllFiles
  Draws <- BothDraws
INVARIANTS TypeOK FramesAccounted KeepsInside ComputesItsSums
PROPERTIES TtlSuffices ImplementsPrivateMachine
