SPECIFICATION StubSpec
CONSTANTS
  MaxRuns = 3
INVARIANTS
  ExecutesOnlyForRun
PROPERTIES
  AnswersOwnRun
  WaitingRunIsAnswered
