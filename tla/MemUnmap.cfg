CONSTANTS
    Pages = 8
    PerTable = 2
    Program <- MCProgram
    MmapBase = 1
    MmapEnd = 3
    UserEnd = 4
    IndexPages = 5
    AddressPages = 10
    KernelMax = 1
    Task = {t1, t2}
    Val = {0, 1}
    Link = Link

SPECIFICATION Spec
SYMMETRY TaskSymmetry
INVARIANT ProgramStays
