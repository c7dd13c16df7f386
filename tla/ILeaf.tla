------------------------------- MODULE ILeaf --------------------------------
(***************************************************************************)
(* The inode table btree at leaf level (src/kernel/ileaf.c driven by the   *)
(* generic engine of src/kernel/btree.c).                                  *)
(*                                                                         *)
(* An ileaf holds the attributes of the inodes ibase .. ibase+count-1.     *)
(* Its dict grows down from the end of the block: dict[i] (the code's      *)
(* *(dict - i)) is the end offset in table of the attributes of inode      *)
(* ibase+i-1, so the record of slot at is table[dict[at]+1 .. dict[at+1]]  *)
(* and an empty slot repeats the previous offset.  Offsets are __be16, so  *)
(* arithmetic on them wraps modulo 2^16.  An attribute record is           *)
(* abstracted to its length, every byte holding the inode number it        *)
(* belongs to, so that a record read back from the wrong place shows.      *)
(*                                                                         *)
(* The index above the leaves is the sequence of (key, leaf) entries of a  *)
(* one-level tree in key order: bnode fan-out, index splits and depth      *)
(* changes belong to the engine and are not modelled here.  btree_write   *)
(* runs its loop (leaf_write, or leaf split and retry) one iteration per   *)
(* step under btree->lock; btree_chop walks the leaves in one step.        *)
(***************************************************************************)
EXTENDS Integers, Sequences, SequencesExt, FiniteSets

CONSTANTS
    BlockSize,        \* sb->blocksize
    EntriesPerLeaf,   \* btree->entries_per_leaf, a power of two
    Inums,            \* inode numbers written and chopped: 0 .. n
    AttrSizes,        \* encoded_size() of the attributes written
    ChopLens,         \* lengths passed to btree_chop
    TUXKEY_LIMIT,     \* a key above every inode number
    NoReq             \* no btree_write in progress

ASSUME Inums = 0..(Cardinality(Inums) - 1) /\ TUXKEY_LIMIT > Cardinality(Inums)

Header == 16          \* sizeof(struct ileaf)
DictEntry == 2        \* sizeof(__be16)
U16 == 65536

VARIABLES
    leaves,           \* the index: a sequence of [key, leaf] in bnode order
    wr                \* the btree_write request being written, or NoReq

vars == <<leaves, wr>>

Garbage == <<-1>>   \* what a lookup through a corrupt dict returns

Attrs(inum, n) == [j \in 1..n |-> inum]    \* encode() of inode inum, n bytes

EmptyLeaf == [ibase |-> 0, dict |-> <<>>, table |-> <<>>]

(* ----------------------------- ileaf.c ------------------------------- *)

atdict(L, at) == IF at = 0 THEN 0 ELSE L.dict[at]

icount(L) == Len(L.dict)

ileaf_need(L) == atdict(L, icount(L)) + icount(L) * DictEntry

ileaf_free(L) == BlockSize - ileaf_need(L) - Header

ileaf_lookup(L, inum) ==
    IF inum >= L.ibase /\ inum - L.ibase < icount(L)
    THEN LET at == inum - L.ibase
             offset == atdict(L, at)
             limit == L.dict[at + 1]
         IN IF offset <= limit /\ limit <= Len(L.table)
            THEN SubSeq(L.table, offset + 1, limit)
            ELSE Garbage
    ELSE <<>>

isinorder(L) == \A i \in 1..icount(L) : atdict(L, i - 1) <= L.dict[i]

RECURSIVE TrimCount(_, _)
TrimCount(d, c) == IF c > 1 /\ d[c] = d[c - 1] THEN TrimCount(d, c - 1) ELSE c

ileaf_trim(L) ==
    LET c == TrimCount(L.dict, icount(L))
        count == IF c = 1 /\ L.dict[1] = 0 THEN 0 ELSE c
    IN [L EXCEPT !.dict = SubSeq(L.dict, 1, count)]

(* The leaf after the resize and encode of ileaf_write, or NULL. *)
NULL == [null |-> TRUE]

(* Mutant: the free-space check leaves out the dictionary extension. *)
ileaf_resize_noextend(L, inum, newsize) ==
    LET count == icount(L)
        at == inum - L.ibase
        grow == at + 1 > count
        offset == IF grow THEN atdict(L, count) ELSE atdict(L, at)
        size == IF grow THEN 0 ELSE L.dict[at + 1] - offset
        limit == atdict(L, count)
        dict == IF grow THEN L.dict \o [j \in 1..(at + 1 - count) |-> limit] ELSE L.dict
    IN IF \/ grow /\ (at + 1) * DictEntry >= BlockSize
          \/ ileaf_free(L) < newsize - size
       THEN NULL
       ELSE [L EXCEPT
               !.dict = [j \in 1..Len(dict) |->
                           IF j > at THEN (dict[j] + newsize - size) % U16 ELSE dict[j]],
               !.table = SubSeq(L.table, 1, offset) \o Attrs(inum, newsize)
                           \o SubSeq(L.table, offset + size + 1, limit)]

(* Mutant: "Adjust dict" moves only the resized slot's own end offset. *)
ileaf_resize_ownslot(L, inum, newsize) ==
    LET count == icount(L)
        at == inum - L.ibase
        grow == at + 1 > count
        extend_dict == IF grow THEN (at + 1 - count) * DictEntry ELSE 0
        offset == IF grow THEN atdict(L, count) ELSE atdict(L, at)
        size == IF grow THEN 0 ELSE L.dict[at + 1] - offset
        limit == atdict(L, count)
        dict == IF grow THEN L.dict \o [j \in 1..(at + 1 - count) |-> limit] ELSE L.dict
    IN IF \/ grow /\ (at + 1) * DictEntry >= BlockSize
          \/ ileaf_free(L) < newsize - size + extend_dict
       THEN NULL
       ELSE [L EXCEPT
               !.dict = [j \in 1..Len(dict) |->
                           IF j = at + 1 THEN (dict[j] + newsize - size) % U16 ELSE dict[j]],
               !.table = SubSeq(L.table, 1, offset) \o Attrs(inum, newsize)
                           \o SubSeq(L.table, offset + size + 1, limit)]

ileaf_resize(L, inum, newsize) ==
    LET count == icount(L)
        at == inum - L.ibase
        grow == at + 1 > count
        extend_dict == IF grow THEN (at + 1 - count) * DictEntry ELSE 0
        offset == IF grow THEN atdict(L, count) ELSE atdict(L, at)
        size == IF grow THEN 0 ELSE L.dict[at + 1] - offset
        limit == atdict(L, count)
        dict == IF grow THEN L.dict \o [j \in 1..(at + 1 - count) |-> limit] ELSE L.dict
        diff == newsize - size
    IN IF \/ grow /\ (at + 1) * DictEntry >= BlockSize
          \/ ileaf_free(L) < newsize - size + extend_dict
       THEN NULL
       ELSE [L EXCEPT
               !.dict = [j \in 1..Len(dict) |->
                           IF j > at THEN (dict[j] + diff) % U16 ELSE dict[j]],
               !.table = SubSeq(L.table, 1, offset) \o Attrs(inum, newsize)
                           \o SubSeq(L.table, offset + size + 1, limit)]

ileaf_split_hint(L, key) ==
    IF key >= L.ibase + icount(L)
    THEN (key \div EntriesPerLeaf) * EntriesPerLeaf
    ELSE L.ibase + icount(L) \div 2

(* Mutant: dest is rebased at the rounded hint whether or not it lies
   above the leaf's last slot. *)
ileaf_split_round(L, hint0) ==
    LET hint == IF hint0 = L.ibase THEN hint0 + 1 ELSE hint0
        count == icount(L)
        at == IF hint >= L.ibase THEN Min({hint - L.ibase, count}) ELSE count
        split == atdict(L, at)
    IN << ileaf_trim([L EXCEPT !.dict = SubSeq(L.dict, 1, at),
                               !.table = SubSeq(L.table, 1, split)]),
          [ibase |-> (hint \div EntriesPerLeaf) * EntriesPerLeaf,
           dict |-> [j \in 1..(count - at) |-> (L.dict[at + j] - split) % U16],
           table |-> SubSeq(L.table, split + 1, atdict(L, count))] >>

(* <<from, dest>> after ileaf_split(hint); the key of dest is dest.ibase. *)
ileaf_split(L, hint0) ==
    LET hint == IF hint0 = L.ibase THEN hint0 + 1 ELSE hint0
        count == icount(L)
        \* min_t(tuxkey_t, hint - ibase, count): the u64 difference wraps
        at == IF hint >= L.ibase THEN Min({hint - L.ibase, count}) ELSE count
        split == atdict(L, at)
        free == atdict(L, count)
        round == (hint \div EntriesPerLeaf) * EntriesPerLeaf
        dest == [ibase |-> IF round > L.ibase + count THEN round ELSE hint,
                 dict |-> [j \in 1..(count - at) |-> (L.dict[at + j] - split) % U16],
                 table |-> SubSeq(L.table, split + 1, free)]
        from == ileaf_trim([L EXCEPT !.dict = SubSeq(L.dict, 1, at),
                                     !.table = SubSeq(L.table, 1, split)])
    IN <<from, dest>>

(* [ok, leaf]: whether from was absorbed, and the leaf into after it. *)
ileaf_merge(into, from) ==
    LET fromcount == icount(from)
        count == icount(into)
        hole == from.ibase - into.ibase + count
        need_size == hole * DictEntry + ileaf_need(from)
        limit == atdict(into, count)
        filled == into.dict \o [j \in 1..hole |-> limit]
        adjusted == [j \in 1..Len(filled) |->
                       IF limit # 0 /\ j <= fromcount
                       THEN (filled[j] + limit) % U16 ELSE filled[j]]
    IN CASE fromcount = 0 -> [ok |-> TRUE, leaf |-> into]
         [] ileaf_free(into) < need_size -> [ok |-> FALSE, leaf |-> into]
         [] OTHER -> [ok |-> TRUE,
                      leaf |-> [into EXCEPT
                                  !.dict = adjusted \o from.dict,
                                  !.table = into.table
                                      \o SubSeq(from.table, 1, atdict(from, fromcount))]]

(* Mutant: the dict adjustment starts at the first chopped slot's start. *)
ileaf_chop_from_at(L, start, len) ==
    LET count == icount(L)
        at == start - L.ibase
        n == Min({len, count - at})
        startp == atdict(L, at)
        endp == atdict(L, at + n)
    IN IF start < L.ibase \/ at + 1 > count \/ startp = endp
       THEN L
       ELSE ileaf_trim([L EXCEPT
               !.dict = [j \in 1..count |->
                           IF j >= at THEN (L.dict[j] - (endp - startp)) % U16 ELSE L.dict[j]],
               !.table = SubSeq(L.table, 1, startp)
                           \o SubSeq(L.table, endp + 1, atdict(L, count))])

ileaf_chop(L, start, len) ==
    LET count == icount(L)
        at == start - L.ibase
        n == Min({len, count - at})
        startp == atdict(L, at)
        endp == atdict(L, at + n)
        size == endp - startp
    IN IF start < L.ibase \/ at + 1 > count \/ startp = endp
       THEN L
       ELSE ileaf_trim([L EXCEPT
               !.dict = [j \in 1..count |->
                           IF j > at THEN (L.dict[j] - size) % U16 ELSE L.dict[j]],
               !.table = SubSeq(L.table, 1, startp)
                           \o SubSeq(L.table, endp + 1, atdict(L, count))])

(* ileaf_find_free: the first empty slot at or after key, within range. *)
RECURSIVE FirstHole(_, _, _)
FirstHole(L, at, offset) ==
    IF at < icount(L)
    THEN IF L.dict[at + 1] = offset THEN at ELSE FirstHole(L, at + 1, L.dict[at + 1])
    ELSE at

NotFound == -1

(* Mutant: the slot at key is taken as free without looking at it. *)
ileaf_find_free_noscan(L, key_limit, key, len) ==
    IF key < Min({key_limit, key + len}) THEN key ELSE NotFound

ileaf_find_free(L, key_limit, key, len) ==
    LET top == Min({key_limit, key + len})
        at == IF key >= L.ibase /\ key - L.ibase < icount(L)
              THEN FirstHole(L, key - L.ibase, atdict(L, key - L.ibase))
              ELSE key - L.ibase
    IN IF L.ibase + at < top THEN L.ibase + at ELSE NotFound

(* ----------------------------- btree.c ------------------------------- *)

(* bnode_lookup: the entry before the first later entry whose key is above
   key; the key of the first entry is never compared. *)
btree_probe(key) ==
    LET above == {i \in 2..Len(leaves) : leaves[i].key > key}
    IN IF above = {} THEN Len(leaves) ELSE Min(above) - 1

cursor_next_key(i) == IF i < Len(leaves) THEN leaves[i + 1].key ELSE TUXKEY_LIMIT

btree_read(inum) == ileaf_lookup(leaves[btree_probe(inum)].leaf, inum)

(* btree_traverse(key, len, ileaf_find_free) from the leaf at index i. *)
RECURSIVE btree_traverse(_, _, _)
btree_traverse(i, key0, len0) ==
    LET bottom == leaves[i].key
        limit == cursor_next_key(i)
        len == IF key0 < bottom THEN len0 - Min({len0, bottom - key0}) ELSE len0
        key == IF key0 < bottom THEN bottom ELSE key0
        r == ileaf_find_free(leaves[i].leaf, limit, key, len)
    IN CASE key0 < bottom /\ len = 0 -> NotFound
         [] r # NotFound -> r
         [] key + len <= limit \/ i = Len(leaves) -> NotFound
         [] OTHER -> btree_traverse(i + 1, key, len)

Init ==
    /\ leaves = <<[key |-> 0, leaf |-> EmptyLeaf]>>   \* alloc_empty_btree
    /\ wr = NoReq

(* A caller takes btree->lock and starts btree_write of one inode's
   attributes at the leaf btree_probe finds. *)
WriteBegin(inum, size) ==
    /\ wr = NoReq
    /\ wr' = [inum |-> inum, size |-> size]
    /\ UNCHANGED leaves

(* Mutant: ileaf_write encodes the record but does not consume the key
   range (no key->start++, key->len--). *)
btree_write_nolen ==
    /\ wr # NoReq
    /\ LET i == btree_probe(wr.inum)
           r == ileaf_resize(leaves[i].leaf, wr.inum, wr.size)
       IN /\ r # NULL
          /\ leaves' = [leaves EXCEPT ![i].leaf = r]
          /\ UNCHANGED wr

(* One iteration of the btree_write loop in which ileaf_write finds room. *)
btree_write ==
    /\ wr # NoReq
    /\ LET i == btree_probe(wr.inum)
           r == ileaf_resize(leaves[i].leaf, wr.inum, wr.size)
       IN /\ r # NULL
          /\ leaves' = [leaves EXCEPT ![i].leaf = r]
          /\ wr' = NoReq

(* One iteration in which ileaf_write returns "need split": btree_leaf_split
   at ileaf_split_hint and insert_leaf of the new leaf after this one. *)
btree_leaf_split ==
    /\ wr # NoReq
    /\ LET i == btree_probe(wr.inum)
           L == leaves[i].leaf
           s == ileaf_split(L, ileaf_split_hint(L, wr.inum))
       IN /\ ileaf_resize(L, wr.inum, wr.size) = NULL
          /\ leaves' = SubSeq(leaves, 1, i - 1)
                       \o << [key |-> leaves[i].key, leaf |-> s[1]],
                            [key |-> s[2].ibase, leaf |-> s[2]] >>
                       \o SubSeq(leaves, i + 1, Len(leaves))
          /\ UNCHANGED wr

(* The leaf walk of btree_chop: acc holds the leaves already walked (its
   last one is leafprev once walked), rest the leaves from the cursor on. *)
RECURSIVE ChopWalk(_, _, _, _, _, _)
ChopWalk(acc, rest, start0, len0, limit, walked) ==
    LET e == Head(rest)
        this_key == e.key
        start == IF start0 < this_key THEN this_key ELSE start0
        len == IF start0 < this_key THEN len0 - (this_key - start0) ELSE len0
        L == ileaf_chop(e.leaf, start, len)
        m == IF walked THEN ileaf_merge(acc[Len(acc)].leaf, L) ELSE [ok |-> FALSE]
        acc2 == IF m.ok THEN [acc EXCEPT ![Len(acc)].leaf = m.leaf]
                ELSE Append(acc, [e EXCEPT !.leaf = L])
        next_key == IF Len(rest) > 1 THEN rest[2].key ELSE TUXKEY_LIMIT
    IN IF next_key >= limit THEN acc2 \o Tail(rest)
       ELSE ChopWalk(acc2, Tail(rest), start, len, limit, TRUE)

btree_chop(start, len) ==
    /\ wr = NoReq
    /\ LET i == btree_probe(start)
       IN leaves' = ChopWalk(SubSeq(leaves, 1, i - 1), SubSeq(leaves, i, Len(leaves)),
                             start, len, start + len, FALSE)
    /\ UNCHANGED wr

Next ==
    \/ \E inum \in Inums, size \in AttrSizes : WriteBegin(inum, size)
    \/ btree_write
    \/ btree_leaf_split
    \/ \E start \in Inums, len \in ChopLens : btree_chop(start, len)

(* btree_write holds the lock and loops until the record is written. *)
Spec == Init /\ [][Next]_vars /\ WF_vars(btree_write \/ btree_leaf_split)

(* ---------------------------- properties ----------------------------- *)

Leaf == [ibase : Nat, dict : Seq(0..(U16 - 1)), table : Seq(Inums)]

TypeOK ==
    /\ leaves \in Seq([key : Nat, leaf : Leaf])
    /\ \A i \in 1..Len(leaves) : ileaf_free(leaves[i].leaf) >= 0
    /\ wr \in {NoReq} \cup [inum : Inums, size : AttrSizes]

(* The index stays a search tree: keys strictly increase from 0, every
   leaf's ibase is at or above its key, its slots end by the next key and
   its dict offsets never decrease (ileaf_check's isinorder), which is what the asserts of btree_leaf_split (this_key < newkey <
   next_key), btree_write and ileaf_merge (ibase(from) > ibase(into)) rely
   on after any mix of splits and chops. *)
KeysOrdered ==
    /\ leaves[1].key = 0
    /\ \A i \in 1..Len(leaves) :
         /\ leaves[i].key <= leaves[i].leaf.ibase
         /\ leaves[i].leaf.ibase + icount(leaves[i].leaf) <= cursor_next_key(i)
         /\ i > 1 => leaves[i - 1].key < leaves[i].key
         /\ isinorder(leaves[i].leaf)

(* The inode table as the callers see it, through btree_read. *)
AbsTable == [inum \in Inums |-> Len(btree_read(inum))]

ITable == INSTANCE ITable WITH itable <- AbsTable

(* Between btree_write calls the leaves implement the inode map of ITable:
   a write replaces exactly one record, a chop leaves exactly its range
   empty, and splits change nothing a reader sees. *)
ITableRefined == ITable!Spec

(* ileaf_find_free through btree_traverse returns the least inode number at
   or after the goal that has no attributes, across leaf boundaries, gaps
   between ibase + count and the next key, and holes left by chops. *)
FindFreeCorrect ==
    \A goal \in Inums :
        btree_traverse(btree_probe(goal), goal, TUXKEY_LIMIT - goal)
          = Min({inum \in goal..Cardinality(Inums) :
                   inum \notin Inums \/ AbsTable[inum] = 0})

(* Splitting any leaf of the tree at any hint and merging the two halves
   back with ileaf_merge gives the leaf back: the halves are the leaf's own
   slots on either side of dest's ibase, so the hole merge fills before the
   right half is ibase(from) - ibase(into) - count(into) slots, and the
   right half's offsets move up by the left half's bytes. *)
SplitMergeInverse ==
    \A i \in 1..Len(leaves), hint \in Inums :
        LET s == ileaf_split(leaves[i].leaf, hint)
            m == ileaf_merge(s[1], s[2])
        IN m.ok => m.leaf = leaves[i].leaf

(* The btree_write loop ends: splitting at ileaf_split_hint eventually
   leaves room for the record. *)
WriteCompletes == wr # NoReq ~> wr = NoReq
=============================================================================
