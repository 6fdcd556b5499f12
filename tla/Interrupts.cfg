SPECIFICATION Spec
CONSTANTS
  NumSources = 2
  Timers <- MCTimers
  Keys <- MCKeys
  Sounds <- MCSounds
  MaxLevel = 2
  PriorityMaps <- MCPriorityMaps
  MaxDepth = 1
INVARIANTS
  NestingRises
  SkippedPollMissesNothing
