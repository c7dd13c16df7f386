-------------------------------- MODULE DMap --------------------------------
(***************************************************************************)
(* What a file's data btree promises its callers: a map from each logical *)
(* block to the physical block that holds it, 0 for a hole.  A write of   *)
(* a segment list maps [start, start + total) to the segments' blocks in  *)
(* order; a chop from start (len TUXKEY_LIMIT, the only chop dleaf2       *)
(* supports) turns everything from start on into a hole.  This is the     *)
(* B+tree round-trip law of the specification, stated for the dtree;      *)
(* DLeaf2 implements it.                                                   *)
(***************************************************************************)
EXTENDS Naturals, Sequences

CONSTANTS Logical,      \* the logical blocks of the file
          Requests,     \* the writes callers may issue: [start, segs]
          ChopStarts    \* where a truncate may chop

VARIABLE dmap

(* The block a segment list puts at logical l when it starts at s. *)
RECURSIVE SegBlock(_, _, _)
SegBlock(s, segs, l) ==
    IF segs = <<>> THEN 0
    ELSE IF l < s + Head(segs).count THEN Head(segs).block + (l - s)
    ELSE SegBlock(s + Head(segs).count, Tail(segs), l)

RECURSIVE SegTotal(_)
SegTotal(segs) == IF segs = <<>> THEN 0 ELSE Head(segs).count + SegTotal(Tail(segs))

Init == dmap = [l \in Logical |-> 0]

Write(start, segs) ==
    dmap' = [l \in Logical |->
               IF start <= l /\ l < start + SegTotal(segs)
               THEN SegBlock(start, segs, l) ELSE dmap[l]]

Chop(start) == dmap' = [l \in Logical |-> IF l >= start THEN 0 ELSE dmap[l]]

Next ==
    \/ \E r \in Requests : Write(r.start, r.segs)
    \/ \E s \in ChopStarts : Chop(s)

Spec == Init /\ [][Next]_dmap
=============================================================================
