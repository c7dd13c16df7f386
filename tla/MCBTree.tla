------------------------------ MODULE MCBTree -------------------------------
(* A volume of a few blocks, keys 0 .. 2, leaves of one key and bnodes of *)
(* two entries: enough for a root split to a tree of depth 2 and for      *)
(* chops that merge leaves and bnodes and drop the root level again.      *)
EXTENDS BTree

MCBlocks == 1..8
MCKeys == 0..2
=============================================================================
