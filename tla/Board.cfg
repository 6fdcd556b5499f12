SPECIFICATION Spec
CONSTANTS
  Workloads = {"clock", "rtc", "periods", "keys", "lanes"}
  Stores <- MCStores
  Controls <- MCControls
  SwapAB = TRUE
  UConsole = TRUE
  Pads = {"p1", "p2"}
  Joysticks = {"j1"}
  Start <- MCStart
  MaxHost <- MCMaxHost
  Period <- MCPeriod
  NmiPeriod <- MCNmiPeriod
  MaxCycles = 10
  MaxLate = 5
  MaxStores <- MCMaxStores
  MaxEvents = 5
INVARIANTS
  ClockIsFollowed
  RtcKeepsTime
  PeriodsHold
  ButtonsFollowEvents
PROPERTIES
  StoresStayInLane
CHECK_DEADLOCK FALSE
