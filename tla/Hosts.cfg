SPECIFICATION Spec
CONSTANTS
  IRAM_SIZE = 2
  SRAM_BASE = 4
  SRAM_SIZE = 16
  FLASH_BASE = 32
  Parts <- MCParts
  HEADER = 2
  CHUNK = 3
  RtcPeriod = 7
  ResetHz = 6
  HALF = 4
  RegNames <- MCRegNames
  TextLength = 3
  Fps = 3
  SampleRate = 5
  SECTOR = 2
  MAXDIR = 2
  MAXFAT = 6
  ImageSectors = 7
  Asked <- MCAsked
  Proper <- MCProper
  Paths <- MCPaths
  HostSet <- MCHostSet
INVARIANTS
  ImageIsLoaded
  SessionIsFramed
  StopsAreRight
  VerdictStands
  CycleReadsAgree
  ScriptRunsOnTime
  ProgressIsKept
  TicksAreTimely
PROPERTY
  ImplementsFileStore
