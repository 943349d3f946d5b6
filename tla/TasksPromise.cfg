SPECIFICATION FairFrom
CONSTANTS
    Task = {a, b, c}
    NoTask = NoTask
    MaxPid = 3
    ExitArg = {257}
    WaitArg <- AnyChildOnly
    StatusArg = {TRUE}
    Fpu = {"clean", "dirty"}
    CleanFpu = "clean"
VIEW RunState
INVARIANTS
    PidsUnique
PROPERTIES
    ImplementsProcesses
    ExitReachesParent
    RunnableRuns
