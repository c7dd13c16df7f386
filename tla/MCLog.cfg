\* Six log blocks, 22 payload bytes per block, two records per delta.
CONSTANTS
    BlockSize <- MCBlockSize
    Phys <- MCPhys
    LogKinds <- MCLogKinds
    RecsPerDelta = 2
    MaxLogBlocks = 3
    UnifyThreshold = 2
    PageVals = 2
    CountBits = 1
    AllocCanFail = FALSE
SPECIFICATION Spec
INVARIANT TypeOK ReplayRecovers LogSpaceAccounted
