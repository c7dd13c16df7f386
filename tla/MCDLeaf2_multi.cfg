\* Writes of up to 3 single-block segments: the only bound at which a
\* full leaf takes part of a write, a temporary hole, and a split before
\* the loop writes the rest.
CONSTANTS
    EntriesPerLeaf = 5
    NLogical = 5
    SegBlocks <- MCSegBlocks3
    SegCounts <- MCSegCounts1
    MaxSegs = 3
    MaxWriteLen = 3
    LoopBound = 2
    ReadSegs = 2
    OneLeafWrites = TRUE
    TUXKEY_LIMIT = 100
    NoReq = NoReq
SPECIFICATION Spec

PROPERTY WriteDoesRequest
