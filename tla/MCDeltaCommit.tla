---------------------------- MODULE MCDeltaCommit ----------------------------
EXTENDS DeltaCommit

CONSTANTS w1, w2, s1

MCWriters == {w1, w2}
MCSyncers == {s1}
=============================================================================
