\* Two tasks changing one inode under i_mutex, two values, deltas modulo 4.
CONSTANTS
    w1 = w1
    w2 = w2
    v1 = v1
    v2 = v2
    None = None
    Writers <- MCWriters
    Vals <- MCVals
    Ops <- MCLockedOps
    DeltaMod = 4
SPECIFICATION Spec
INVARIANT TypeOK ForkedSlotPresent
PROPERTY BackendSeesItsDelta
