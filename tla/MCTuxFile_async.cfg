\* Frontend writes and reads beside the asynchronous flusher.
CONSTANTS
    b1 = b1  b2 = b2  b3 = b3   v1 = v1  v2 = v2
    NoBuf = NoBuf
    Bufs <- MCBufs
    Prealloc <- MCPrealloc2
    MaxBuffers = 2
    MaxEvict = 1
    Idx <- MCIdx
    Vals <- MCVals
    BlockUnits = 2
    FileUnits = 4
    MaxExtent = 2
    MaxDelta = 2
    MaxIo = 3
    AsyncBackend = TRUE
SPECIFICATION Spec
INVARIANT TypeOK ReadCoherent CommitMatchesSnapshot RefcountExact
PROPERTY NoWriteToStableBuffer DeltaCommits
