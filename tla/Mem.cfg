CONSTANTS
    Pages = 9
    PerTable = 2
    Program <- MCProgram
    MmapBase = 1
    MmapEnd = 3
    UserEnd = 4
    IndexPages = 5
    AddressPages = 10
    KernelMax = 1
    Task = {t1, t2, t3}
    Val = {0, 1}
    Link = Link

SPECIFICATION Spec
SYMMETRY TaskSymmetry
VIEW PageState
INVARIANTS PagesHeldOnce RunsInItsSpace NextIsFree
PROPERTY ImplementsPrivateMemory
