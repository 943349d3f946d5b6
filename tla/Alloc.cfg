CONSTANTS
    Header = 1
    ArenaHeader = 1
    ArenaSize = 8
    PageSize = 4
    MmapBase = 1
    MmapEnd = 25
    Sizes = {0, 3, 4, 7}

SPECIFICATION Spec
INVARIANTS WellFormed
PROPERTY ImplementsHeapRegions
