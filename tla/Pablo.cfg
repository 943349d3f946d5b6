SPECIFICATION FairSpec
CONSTANTS
    DefaultLimit = 1
    DefaultDelay = 1
    FileMax = 4
    ServiceMax = 3
    ArgMax = 1
    UintMax = 25
    Files <- AllFiles
    Pid = {1, 2, 3}
    MaxForkFailures = 1
INVARIANTS
    ProcessesAccounted
    StartOrder
    RestartBound
    SettledIsFinal
PROPERTIES
    BootDecides
    Settles
