CONSTANTS
    Text = {t1, t2}
    Interval = 1
    MaxClock = 2
    MaxCalls = 3
SPECIFICATION LFairSpec
INVARIANTS LTypeOK FlushIsTruthful CleanShutdownLosesNothing DigestsInStep
PROPERTIES QueueDrains ShutdownEnds
CHECK_DEADLOCK FALSE
