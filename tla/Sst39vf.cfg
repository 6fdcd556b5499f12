SPECIFICATION Spec
CONSTANTS
  NumWords = 8
  WordsPerSector = 2
  WordsPerBlock = 4
  CMD_ADDR_1 = 1
  CMD_ADDR_2 = 2
  BusWrites <- MCBusWrites
  MaxAlterations = 2
INVARIANTS
  ProgramAfterExitTakesEffect
  AlteredSectorsAreDirty
PROPERTIES
  OnlyUnlockedWritesAlter
