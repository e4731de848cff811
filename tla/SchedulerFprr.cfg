SPECIFICATION Spec
CONSTANTS
    c1 = c1
    c2 = c2
    t1 = t1
    t2 = t2
    t3 = t3
    None = None
    Idle = Idle
    CPU = {c1, c2}
    Thread = {t1, t2, t3}
    Priority = {1, 2}
    Home <- ProxiedHome
    Urgency <- SameUrgency
    MayStart = {t1, t2, t3}
    MayMove <- ProxiedMoves
    MayYieldTo <- ProxiedYields
    MayUpdate = {t1}
    MayBlock = {t2}
    MayDie = {}
INVARIANTS OneCorePerThread RunQueuesExact NoLostReschedule YielderWaits 
CHECK_DEADLOCK FALSE
