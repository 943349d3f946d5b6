SPECIFICATION FileSpec
CONSTANTS
    PageSize = 2
    FileMax = 4
    ReadChunk = 1
    Byte = {0, 1}
    File = {f1, f2}
    NoPage = NoPage
INVARIANT ReadsReturnContent
