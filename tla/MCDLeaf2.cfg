CONSTANTS
    EntriesPerLeaf = 5
    NLogical = 5
    SegBlocks <- MCSegBlocks
    SegCounts <- MCSegCounts
    MaxSegs = 2
    MaxWriteLen = 2
    LoopBound = 2
    ReadSegs = 2
    OneLeafWrites = TRUE
    TUXKEY_LIMIT = 100
    NoReq = NoReq
SPECIFICATION Spec
INVARIANT TypeOK LeafFormat SplitAssertsHold ReadBack WriteLoopBounded
PROPERTY DMapRefined ChopDefersMapped
