------------------------------- MODULE MCLog -------------------------------
EXTENDS Log
\* Physical blocks 1 .. 6 for the log.
MCPhys == 1 .. 6
\* A bnode-sized record and a leaf-sized one.
MCLogKinds == {"BALLOC", "LEAF_FREE"}
\* Two BALLOC records exactly fill a block: 16 + 2 * 11.
MCBlockSize == 38
=============================================================================
