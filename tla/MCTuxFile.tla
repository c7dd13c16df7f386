----------------------------- MODULE MCTuxFile -----------------------------
(* Model-checking instance of TuxFile: a pool of MaxBuffers preallocated   *)
(* heads plus one spare malloc slot, a two-block file, two data tags.      *)
EXTENDS TuxFile

CONSTANTS b1, b2, b3, v1, v2

MCBufs == {b1, b2, b3}
MCPrealloc1 == {b1}
MCPrealloc2 == {b1, b2}
MCVals == {v1, v2}
MCIdx == 0 .. 1
=============================================================================
