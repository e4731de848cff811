SPECIFICATION FairSpec
CONSTANTS
    N = 2
    Functional <- TwoCores
    BootCpu = 0
    t1 = t1
    t2 = t2
    Timer <- TwoTimers
    None = None
    MaxTick = 2
    MaxCalls = 3
    MaxPower = 2
INVARIANTS
    NoLostTimeout
    ListedWhereQueued
PROPERTIES
    DequeuedStaysOff
    EveryTimerExpires
CHECK_DEADLOCK FALSE
