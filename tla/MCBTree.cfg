\* Writes, chops and delta commits with and without unify on a small volume.
CONSTANTS
    Blocks <- MCBlocks
    NoBlock = 0
    Keys <- MCKeys
    LeafCap = 1
    NodeCap = 2
    ChopLens = {1, 2, 4}
    TUXKEY_LIMIT = 4
    InsertCanFail = FALSE
    MaxDelta = 2
SPECIFICATION Spec
INVARIANT TreeWellFormed BlocksAccounted CowImageKept ReplayRebuildsBnodes
