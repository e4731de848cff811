\* Two flags: one may be masked or acknowledged automatically while the other
\* is not.
SPECIFICATION LiveSpec
CONSTANTS
    Source <- MCSource
    Flag = {f1, f2}
    NotLoaded = NotLoaded
INVARIANTS
    RingNotified
PROPERTIES
    RingKept RingServed
CHECK_DEADLOCK FALSE
