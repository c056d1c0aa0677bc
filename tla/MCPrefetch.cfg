SPECIFICATION FairSpec
CONSTANTS
    Media <- MCMedia
    MaxOffset = 5
    InitialChunk = 1
    ChunkBytes = 2
    WindowBytes = 3
    MaxRead = 2
    StartOffset = 0
INVARIANTS
    IInv
PROPERTIES
    ImplementsByteSource
    ReadReturnsEventually
    DropTerminates
