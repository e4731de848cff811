SPECIFICATION LiveSpec
CONSTANTS
    c1 = c1
    c2 = c2
    t1 = t1
    t2 = t2
    t3 = t3
    None = None
    Idle = Idle
    CPU = {c1, c2}
    Thread = {t1, t2, t3}
    Priority = {1}
    Home <- SharedHome
    Urgency <- SameUrgency
    MayStart = {t1, t2}
    MayMove <- SharedMoves
    MayYieldTo <- SharedYields
    MayUpdate = {}
    MayBlock = {}
    MayDie = {t2}

PROPERTIES AffinityChangeEnds KilledExits ReadyRuns
CHECK_DEADLOCK FALSE
