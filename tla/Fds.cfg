CONSTANTS
    Task = {t1, t2}
    Std = 1
    FdCount = 1
    FdMax = 2
    Files = 4
    Pipes = 1
    PIPE_SIZE = 2
    Byte = {0, 1}
    InputSize = 2
    Newline = 1
    Return = Return
    Erase = Erase
    MaxKeys = 4
    None = None

SPECIFICATION Spec
SYMMETRY TaskSymmetry
INVARIANTS TypeOK FilesCounted PipesCounted
PROPERTY ImplementsBytePipes
