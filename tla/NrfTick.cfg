CONSTANTS
  Interval = 3
  Supervision = 15
  MaxDelay = 2
  MaxBuild = 2
  Horizon = 12
SPECIFICATION Spec
INVARIANT TickEveryMillisecond
CHECK_DEADLOCK FALSE
