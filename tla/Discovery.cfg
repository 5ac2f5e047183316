SPECIFICATION FairSpec
CONSTANTS
    MaxPort = 7
    WordSize = 16
    Interfaces <- SomeInterfaces
    Datagrams <- SomeDatagrams
    Rates = {1, 2}
    Payload = 2
    MaxArrivals = 3
\* The call ends: nothing happens after it returned.
CHECK_DEADLOCK FALSE
INVARIANTS
    TypeOK
    SelectedIsFastest
    ErrorsTellApart
    ProbedOnce
    StreamsFollowPort
PROPERTY CallReturns
