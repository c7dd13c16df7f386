---------------------------- MODULE MCIattrFork ----------------------------
EXTENDS IattrFork
CONSTANTS w1, w2, v1, v2
MCWriters == {w1, w2}
MCVals == {v1, v2}
\* Operations that hold i_mutex, and a data-only change.
MCLockedOps == {"setsize", "data"}
\* The same with a timestamp update that does not take i_mutex.
MCAllOps == {"setsize", "touch", "data"}
=============================================================================
