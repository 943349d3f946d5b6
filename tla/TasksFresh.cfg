SPECIFICATION FreshSpec
CONSTANTS
    Task = {a, b, c, d, e}
    NoTask = NoTask
    MaxPid = 6
    ExitArg = {257}
    WaitArg <- AllWaitArgs
    StatusArg = {TRUE, FALSE}
    Fpu = {"clean"}
    CleanFpu = "clean"
SYMMETRY SymTasks
VIEW ControlState
INVARIANTS
    TypeOK
    CurrentRuns
    WaiterHasLiveChild
    WaiterHasNoZombie
    SleeperLeavesRunner
    HaltsWhenAllDead
