CONSTANTS
    BlockSize = 26
    EntriesPerLeaf = 2
    Inums <- MCInums
    AttrSizes <- MCAttrSizes
    ChopLens = {1}
    TUXKEY_LIMIT = 100
    NoReq = NoReq
SPECIFICATION Spec
INVARIANT SplitMergeInverse
