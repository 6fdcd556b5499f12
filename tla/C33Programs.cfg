SPECIFICATION Spec
CONSTANTS
  ByteW = 3
  AddrSpace = 2048
  IramSize = 128
  IoBase = 256
  IoSize = 64
  SemihostEnd = 512
  SramBase = 512
  SramWindow = 64
  SramSize = 32
  FlashBase = 1024
  FlashSize = 48
  IoKind <- MCIoKind
  ExtW = 5
  ImmW = 2
  BranchW = 4
  NumRegs = 4
  Values <- MCValues
  Wides <- MCWides
  Exts <- MCExts
  Spots <- MCSpots
  Operands <- MCOperands
  Watches <- MCWatches
INVARIANT ProgramsCompute
INVARIANT MacPathsAgree
INVARIANT AccessesAreExact
PROPERTY SlotIsOneCycle
CHECK_DEADLOCK FALSE
