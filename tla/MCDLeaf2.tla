------------------------------ MODULE MCDLeaf2 ------------------------------
(* A file of 5 logical blocks.  MCDLeaf2.cfg writes segments of 1 or 2     *)
(* blocks from two allocation runs, at most 2 per write; MCDLeaf2_multi.cfg *)
(* writes up to 3 single-block segments from three runs, the only way a    *)
(* leaf of 5 extents takes part of a write before it splits.               *)
EXTENDS DLeaf2

MCSegBlocks == {1, 4}
MCSegCounts == {1, 2}

MCSegBlocks3 == {1, 4, 7}
MCSegCounts1 == {1}
=============================================================================
