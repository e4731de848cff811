SPECIFICATION LiveSpec
CONSTANTS
    Source <- MCSource
    NoMsg = NoMsg
    Msg = {m1}
    Depth = 2
    Bindable = {"send", "rcv"}
    MaxConfigs = 1
INVARIANTS
    ReceiverNotified
    SenderNotified
PROPERTIES
    AssertionKept
    ImplementsFifo
    WaitingSenderWoken
CHECK_DEADLOCK FALSE
