SPECIFICATION FairSpec
CONSTANTS
    c1 = c1
    c2 = c2
    c3 = c3
    e1 = e1
    e2 = e2
    CPU = {c1, c2}
    Entry = {e1, e2}
    MayEnqueue <- OneEntryEach
    Readers = {}
    Events <- BothLeave
    Boot = c1
    CountRange = 16
    FirstGeneration = 0
    MaxOffline = 0
INVARIANTS ReadersActive
PROPERTIES EveryUpdateRuns
