SPECIFICATION LiveSpec
CONSTANTS
    Source <- MCSource
    NoMsg = NoMsg
    Msg = {m1}
    Depth = 2
    Bindable = {"send", "rcv"}
    MaxConfigs = 0
PROPERTIES
    FlushDeassertsSend
CHECK_DEADLOCK FALSE
