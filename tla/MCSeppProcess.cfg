CONSTANT MaxSignals = 2
SPECIFICATION FairSpec
INVARIANT TypeOK
INVARIANT SafeUntilTakenDown
INVARIANT StopProtectsSbi
INVARIANT FreedOnlyWhenStopped
PROPERTY SignalEndsProcess
CHECK_DEADLOCK FALSE
