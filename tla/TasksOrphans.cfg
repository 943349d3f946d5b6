SPECIFICATION FreshSpec
CONSTANTS
    Task = {a, b, c}
    NoTask = NoTask
    MaxPid = 4
    ExitArg = {257}
    WaitArg <- AllWaitArgs
    StatusArg = {TRUE, FALSE}
    Fpu = {"clean"}
    CleanFpu = "clean"
SYMMETRY SymTasks
VIEW ControlState
INVARIANT OrphansReapable
