SPECIFICATION Spec
CHECK_DEADLOCK FALSE
CONSTANTS
  NumSectors = 3
  Contents = {save, erased}
  Erased = erased
  Torn = torn
  EraseSpans <- MCEraseSpans
  Hosts <- MCHosts
  MaxOps = 2
INVARIANTS
  LossOnlyByOverlapOrFailure
  SingleThreadedExitSavesAll
PROPERTIES
  WritesReachTheFile
