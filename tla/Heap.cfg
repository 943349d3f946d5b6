CONSTANTS
    PageSize = 5
    class_size <- ClassSizes
    RangeSize = 3
    Pages = 4
    WindowBase = 8
    WindowEnd = 12
    PerTable = 2
    Sizes = {0, 3, 4, 5}
    MaxLive = 4

SPECIFICATION Spec
VIEW Shape
INVARIANTS
    WellFormed
PROPERTIES
    FreeLosesNothing
    ImplementsHeapRegions
