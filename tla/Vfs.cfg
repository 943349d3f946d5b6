SPECIFICATION TarSpec
CONSTANTS
    Root = root
    Vnode = {root, v1, v2, v3}
    NoNode = NoNode
    a = a
    b = b
    long = long
    Name = {a, b, long}
    TooLong = {long}
    NoName = NoName
    File = {f1, f2}
    Path <- AllPaths
    Archive <- AllArchives
    Zero = Zero
    Data = Data
    FileMax = 1
SYMMETRY Symmetry
VIEW LiveView
INVARIANTS LifetimesCounted LinksAgree NamesUnique OneTree
PROPERTIES ImplementsTree ImplementsFileNames LoadsArchive
CHECK_DEADLOCK FALSE
