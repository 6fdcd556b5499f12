SPECIFICATION Spec
CHECK_DEADLOCK FALSE
CONSTANTS
  EVENT_INTERVAL = 2
  MIN_TICK_BURST = 1
  RtcPeriod <- MCRtcPeriod
  TimerPeriods = {1, 3}
  Costs = {1}
  Frame <- MCFrame
  Gating = FALSE
  Requests = {1}
  Past = 1
INVARIANTS
  EventsOnTime
PROPERTIES
  ButtonsArePolled
  DueTimersFire
