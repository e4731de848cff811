SPECIFICATION FairSpec
CONSTANTS
    c1 = c1
    c2 = c2
    c3 = c3
    CPU <- Cores
    TicketRange = 5
    Nobody = Nobody
INVARIANTS
    MutualExclusion
    NoMissedWakeup
PROPERTIES
    ImplementsFifoLock EveryTicketServed
