SPECIFICATION FairSpec
CONSTANTS
    c1 = c1
    c2 = c2
    c3 = c3
    v1 = v1
    v2 = v2
    CPU <- TwoCores
    BootCpu = c1
    Vcpu <- TwoVcpus
    None = None
    MaxRetries = 2
    MayRefuse = TRUE
    MayFail = TRUE
    MaxCalls = 5
INVARIANTS
    VotesExact
    NoVoteForgotten
    UnvotedCoreWoken
PROPERTIES
    VotedCoreComesOnlineOrWaits
CHECK_DEADLOCK FALSE
