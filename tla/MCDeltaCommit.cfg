\* Two writers, one fsync caller, a delta counter of three bits.
CONSTANTS
    w1 = w1
    w2 = w2
    s1 = s1
    None = None
    Writers <- MCWriters
    Syncers <- MCSyncers
    DeltaMod = 8
SPECIFICATION Spec
INVARIANT SlotRefsExact
PROPERTY DeltaRefinement SyncCompletes DirtyCommitted
