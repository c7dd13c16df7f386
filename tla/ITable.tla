------------------------------- MODULE ITable -------------------------------
(***************************************************************************)
(* What the inode table promises its callers: a map from inode number to   *)
(* the size of the attribute record stored for it (0 = no inode).  A       *)
(* write replaces one record, a chop of [start, start + len) leaves a hole *)
(* there and nothing else changes.  This is the B+tree round-trip law of   *)
(* the specification, stated for the inode btree; ILeaf implements it.     *)
(***************************************************************************)
EXTENDS Naturals

CONSTANTS Inums, AttrSizes, ChopLens

VARIABLE itable

TypeOK == itable \in [Inums -> {0} \cup AttrSizes]

Init == itable = [i \in Inums |-> 0]

Write(inum, size) == itable' = [itable EXCEPT ![inum] = size]

Chop(start, len) ==
    itable' = [i \in Inums |-> IF start <= i /\ i < start + len THEN 0 ELSE itable[i]]

Next ==
    \/ \E inum \in Inums, size \in AttrSizes : Write(inum, size)
    \/ \E start \in Inums, len \in ChopLens : Chop(start, len)

Spec == Init /\ [][Next]_itable
=============================================================================
