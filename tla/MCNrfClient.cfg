CONSTANTS
  Interval = 3
  Supervision = 15
  MaxDelay = 2
  MaxBuild = 2
  Horizon = 22
SPECIFICATION Spec
INVARIANT TypeOK
INVARIANT SuspendedOnlyWhenCutOff
INVARIANT ExitLeavesNoEntry
PROPERTY GivenUpIsNotKeptAlive
PROPERTY BeatsAreSpaced
CHECK_DEADLOCK FALSE
