SPECIFICATION FairSpec
CONSTANTS
    MaxPort = 5
    WordSize = 8
    Configs <- SomeConfigs
    Seekers = {k}
    Clients = {c, d}
    MaxProbes = 1
    ProbeWindow = 1
INVARIANTS
    TypeOK
    RunningTellsTruth
    SpawnsOnlyFreshThreads
    ProbesBounded
PROPERTIES
    StopReturns
    RequestAnswered
    StalledClientBlocksNobody
    StalledClientIsReleased
