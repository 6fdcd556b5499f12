SPECIFICATION Spec
CONSTANTS
  Size = 4
  Wants <- MCWants
  MaxResets = 2
  MaxSamples = 5
INVARIANTS
  NoDataRace
PROPERTIES
  ImplementsFifo
  EverySampleIsHeard
