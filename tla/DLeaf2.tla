------------------------------- MODULE DLeaf2 -------------------------------
(***************************************************************************)
(* A file's data btree at leaf level (src/kernel/dleaf2.c driven by the    *)
(* generic engine of src/kernel/btree.c).                                  *)
(*                                                                         *)
(* A dleaf2 is its table of diskextent2 entries, each [logical, physical]; *)
(* the version bits are left out, as the code ignores them (the FIXME at   *)
(* the top of dleaf2.c).  An entry maps logical .. next entry's logical-1  *)
(* to physical, physical+1, ..., or is a hole when physical is 0; the last *)
(* entry is the sentinel, a hole to the next leaf.  Indices into the table *)
(* are 0-based as in the code: entry j is E(L, j).                         *)
(*                                                                         *)
(* The index above the leaves is a one-level sequence of [key, leaf] in    *)
(* key order, as in ILeaf.  btree_write runs its loop one iteration per    *)
(* step; btree_chop walks the leaves in one step.  What a chop passes to  *)
(* defer_bfree is the result of ChopResult and is checked there; the      *)
(* sb->defree stash it goes to is modelled in Log, and nothing in the      *)
(* btree reads it, so it is not a variable here.                           *)
(***************************************************************************)
EXTENDS Integers, Sequences, SequencesExt, FiniteSets

CONSTANTS
    EntriesPerLeaf,   \* btree->entries_per_leaf, set by dleaf2_btree_init
    NLogical,         \* the file's logical blocks are 0 .. NLogical-1
    SegBlocks,        \* first blocks the caller's seg_alloc hands out
    SegCounts,        \* block counts of one segment
    MaxSegs,          \* most segments in one dleaf_req
    MaxWriteLen,      \* bound: most blocks in one dleaf_req
    LoopBound,        \* most iterations a btree_write loop may take
    ReadSegs,         \* seg_max of a read request
    OneLeafWrites,    \* callers keep a write inside the leaf holding its start
    TUXKEY_LIMIT,     \* a key above every logical block
    NoReq             \* no btree_write in progress

Logical == 0..(NLogical - 1)

ASSUME TUXKEY_LIMIT > NLogical /\ EntriesPerLeaf >= 3

VARIABLES
    leaves,           \* the index: a sequence of [key, leaf] in bnode order
    wr,               \* the btree_write request being written, or NoReq
    amap              \* ghost: the block map as callers last saw it

vars == <<leaves, wr, amap>>

Ext(logical, physical) == [logical |-> logical, physical |-> physical]

E(L, j) == L[j + 1]

(* dleaf2_lookup_index: the first entry whose logical equals index, else   *)
(* the one before the first above it; Len(L) when index is past them all.  *)
dleaf2_lookup_index(L, index) ==
    LET above == {j \in 0..(Len(L) - 1) : E(L, j).logical >= index}
    IN IF above = {} THEN Len(L)
       ELSE LET j == Min(above)
            IN IF E(L, j).logical = index THEN j ELSE j - 1

(* seg_total_count over the segments from index idx (1-based) on. *)
SegTotal(segs, idx) ==
    FoldLeft(LAMBDA acc, s : acc + s.count, 0, SubSeq(segs, idx, Len(segs)))

(* The logical start of segment k of a request whose next segment is idx. *)
SegStart(rq, k) == rq.start + SegTotal(SubSeq(rq.segs, rq.idx, rq.idx + k - 2), 1)

(* Mutant: end_physical is the overwritten entry's own block, without   *)
(* the offset of limit into it.                                          *)
EndPhysical_nooffset(ex, limit) == ex.physical

(* The block of the sentinel at limit when the write ends inside entry   *)
(* ex: the rest of ex from limit on, or a hole.                          *)
EndPhysical(ex, limit) == IF ex.physical # 0 THEN ex.physical + limit - ex.logical ELSE 0

(* Mutant: the split test lets a leaf take one entry more than fits. *)
NeedSplit_offbyone(need) == need > EntriesPerLeaf + 1

NeedSplit(need) == need > EntriesPerLeaf

(* Mutant: the hint is the entry at dex_start, not the one after it. *)
SplitHint_atstart(L0, dex_start, start) ==
    IF dex_start < Len(L0) - 1 THEN E(L0, dex_start).logical ELSE start

(* The split hint when not one segment fits: the entry after dex_start    *)
(* unless that is the sentinel, else key->start.                          *)
SplitHint(L0, dex_start, start) ==
    IF dex_start + 1 < Len(L0) - 1 THEN E(L0, dex_start + 1).logical ELSE start

(* Mutant: no temporary hole is put after the filled segments. *)
TempHole_none(rest_segs, key_start) == <<>>

(* The temporary hole from the first segment left for after the split. *)
TempHole(rest_segs, key_start) == IF rest_segs > 0 THEN <<Ext(key_start, 0)>> ELSE <<>>

(* Mutant: the fill loop advances key->start but not rq->seg_idx. *)
FillAdvance_noidx(rq, nfill, key_start) ==
    [rq EXCEPT !.start = key_start, !.len = rq.start + rq.len - key_start]

(* The request after the fill loop: key and seg_idx past nfill segments. *)
FillAdvance(rq, nfill, key_start) ==
    [rq EXCEPT !.start = key_start, !.len = rq.start + rq.len - key_start,
               !.idx = rq.idx + nfill]

(* dleaf2_write: the leaf after the write, the request after it (key and  *)
(* seg_idx advanced), whether a split is needed and the split hint.       *)
(* seg_alloc returns every block it is asked for.                          *)
dleaf2_write(L, key_bottom, rq) ==
    LET L0 == IF L = <<>> THEN <<Ext(key_bottom, 0)>> ELSE L   \* init_sentinel
        count == Len(L0)
        limit == rq.start + rq.len
        write_segs == Len(rq.segs) - rq.idx + 1
        ds == dleaf2_lookup_index(L0, rq.start)
        dex_start == IF ds < count /\ E(L0, ds).logical < rq.start THEN ds + 1 ELSE ds
        dex_end == dleaf2_lookup_index(L0, limit)
        inside == dex_end < count
        between == IF ~inside THEN dex_end - dex_start
                   ELSE IF dex_end < dex_start THEN 0 ELSE dex_end - dex_start + 1
        end_physical == IF inside THEN EndPhysical(E(L0, dex_end), limit) ELSE 0
        need == write_segs + 1 + dex_start + (IF inside THEN count - dex_end - 1 ELSE 0)
        need_split == NeedSplit(need)
        rest0 == need - EntriesPerLeaf
        rest_segs == IF need_split THEN rest0 + 1 ELSE 0
        nfill == write_segs - rest_segs            \* segments put in this pass
        filled == [k \in 1..nfill |-> Ext(SegStart(rq, k), rq.segs[rq.idx + k - 1].block)]
        key_start == SegStart(rq, nfill + 1)
        hole == TempHole(rest_segs, key_start)
        L1 == SubSeq(L0, 1, dex_start) \o filled \o hole \o <<Ext(limit, end_physical)>>
                \o SubSeq(L0, dex_start + between + 1, count)
    IN IF need_split /\ rest0 >= write_segs
       THEN [leaf |-> L0, rq |-> rq, split |-> TRUE,
             hint |-> SplitHint(L0, dex_start, rq.start)]
       ELSE [leaf |-> L1,
             rq |-> FillAdvance(rq, nfill, key_start),
             split |-> need_split,
             hint |-> E(L1, Len(L1) \div 2).logical]     \* dleaf2_split_at_center

(* Mutant: the leaf keeps the entries before the split point and gets no *)
(* new sentinel.                                                         *)
dleaf2_split_nosentinel(L, hint) ==
    LET dex == dleaf2_lookup_index(L, hint)
    IN IF dex = Len(L)
       THEN [from |-> L, into |-> <<>>, key |-> E(L, Len(L) - 1).logical]
       ELSE [from |-> SubSeq(L, 1, dex), into |-> SubSeq(L, dex + 1, Len(L)),
             key |-> E(L, dex).logical]

(* dleaf2_split: <<from, into, key>>; a hint past the last entry moves     *)
(* nothing and returns the sentinel's logical.                             *)
dleaf2_split(L, hint) ==
    LET count == Len(L)
        dex == dleaf2_lookup_index(L, hint)
    IN IF dex = count
       THEN [from |-> L, into |-> <<>>, key |-> E(L, count - 1).logical]
       ELSE [from |-> SubSeq(L, 1, dex) \o <<Ext(E(L, dex).logical, 0)>>,
             into |-> SubSeq(L, dex + 1, count),
             key |-> E(L, dex).logical]

(* dleaf2_merge of from into into: ok = 0 when the entries do not fit. *)
dleaf2_merge(into, from) ==
    LET into_count == Len(into)
        from_count == Len(from)
        into_ex == E(into, into_count - 1)
        from_ex == E(from, 0)
        can_merge == IF from_ex.physical = 0 \/ into_ex.logical = from_ex.logical
                     THEN 1 ELSE 0
    IN CASE from_count <= 1 -> [ok |-> TRUE, leaf |-> into]
         [] into_count = 0 -> [ok |-> TRUE, leaf |-> from]
         [] into_count + from_count - can_merge > EntriesPerLeaf -> [ok |-> FALSE, leaf |-> into]
         [] from_ex.physical = 0 -> [ok |-> TRUE, leaf |-> into \o Tail(from)]
         [] into_ex.logical = from_ex.logical ->
                [ok |-> TRUE, leaf |-> SubSeq(into, 1, into_count - 1) \o from]
         [] OTHER -> [ok |-> TRUE, leaf |-> into \o from]

(* The extents the loop of dleaf2_chop passes to defer_bfree, from entry  *)
(* k on, with start and block carried from the entry before.              *)
RECURSIVE ChopFree(_, _, _, _)
ChopFree(L, k, start, block) ==
    IF k >= Len(L) THEN <<>>
    ELSE LET ex == E(L, k)
             count == ex.logical - start
         IN (IF block # 0 /\ count # 0 THEN <<[block |-> block, count |-> count]>> ELSE <<>>)
            \o ChopFree(L, k + 1, ex.logical, ex.physical)

(* Mutant: the first extent freed starts at the entry's own block. *)
ChopBlock_nooffset(ex, start) == ex.physical

(* The block of the chop point: entry ex's block offset to start. *)
ChopBlock(ex, start) == ex.physical + (start - ex.logical)

(* dleaf2_chop(start, TUXKEY_LIMIT): the leaf and the extents freed. *)
dleaf2_chop(L, start0) ==
    LET count == Len(L)
        dex0 == dleaf2_lookup_index(L, start0)
        ex == E(L, dex0)
        at_start == start0 = ex.logical
        prev_hole == at_start /\ dex0 > 0 /\ E(L, dex0 - 1).physical = 0
        dex == IF prev_hole THEN dex0 - 1 ELSE dex0
        start == IF ~at_start /\ ex.physical = 0 THEN ex.logical ELSE start0
        need_sentinel == ~at_start /\ ex.physical # 0
        L1 == IF at_start /\ ~prev_hole THEN [L EXCEPT ![dex + 1] = Ext(start, 0)] ELSE L
        L2 == IF need_sentinel THEN [L1 EXCEPT ![dex + 2] = Ext(start, 0)] ELSE L1
    IN IF count = 0 \/ dex0 >= count - 1
       THEN [leaf |-> L, freed |-> <<>>]
       ELSE [leaf |-> SubSeq(L2, 1, dex + 1 + (IF need_sentinel THEN 1 ELSE 0)),
             freed |-> ChopFree(L, dex + 1, start, ChopBlock(ex, start))]

(* The do-while loop of dleaf2_read from entry dex on: a segment up to each *)
(* next entry while key->len, seg_max and the table last.                   *)
RECURSIVE ReadLoop(_, _, _, _, _, _)
ReadLoop(L, dex, physical, start, len, segs) ==
    LET next == E(L, dex)
        count == Min({len, next.logical - start})
        segs2 == Append(segs, [start |-> start, count |-> count, block |-> physical])
    IN IF len - count > 0 /\ Len(segs2) < ReadSegs /\ dex + 1 < Len(L)
       THEN ReadLoop(L, dex + 1, next.physical, start + count, len - count, segs2)
       ELSE [start |-> start + count, len |-> len - count, segs |-> segs2]

(* Mutant: a read from inside an extent starts at the extent's block. *)
ReadPhysical_nooffset(ex, start) == ex.physical

(* The block a read from start inside entry ex begins at, 0 for a hole. *)
ReadPhysical(ex, start) == IF ex.physical # 0 THEN ex.physical + start - ex.logical ELSE 0

(* dleaf2_read of [start, start+len) from a leaf whose next key is        *)
(* key_limit: the segments filled, a hole block being 0.                  *)
dleaf2_read(L, key_limit, start, len) ==
    LET dex == dleaf2_lookup_index(L, start)
        ex == E(L, dex)
        r == IF dex >= Len(L) - 1
             THEN [start |-> start, len |-> len, segs |-> <<>>]
             ELSE ReadLoop(L, dex + 1,
                           ReadPhysical(ex, start),
                           start, len, <<>>)
    IN IF r.start < key_limit /\ r.len > 0 /\ Len(r.segs) < ReadSegs   \* fill_seg
       THEN Append(r.segs, [start |-> r.start,
                            count |-> Min({r.len, key_limit - r.start}), block |-> 0])
       ELSE r.segs

(* ---------------------------- the engine ------------------------------ *)

btree_probe(key) ==
    LET above == {i \in 2..Len(leaves) : leaves[i].key > key}
    IN IF above = {} THEN Len(leaves) ELSE Min(above) - 1

cursor_next_key(i) == IF i < Len(leaves) THEN leaves[i + 1].key ELSE TUXKEY_LIMIT

(* btree_read of [start, NLogical): the segments of the leaf holding start. *)
btree_read(start) ==
    LET i == btree_probe(start)
    IN dleaf2_read(leaves[i].leaf, cursor_next_key(i), start, NLogical - start)

(* The block the tree maps logical l to: the entry of l's leaf whose range *)
(* [logical, next logical) holds l, 0 for a hole or past the sentinel.     *)
TreeMap ==
    [l \in Logical |->
        LET L == leaves[btree_probe(l)].leaf
            at == {j \in 0..(Len(L) - 2) : E(L, j).logical <= l /\ l < E(L, j + 1).logical}
        IN IF at = {} THEN 0
           ELSE LET ex == E(L, Max(at))
                IN IF ex.physical = 0 THEN 0 ELSE ex.physical + l - ex.logical]

Init ==
    /\ leaves = <<[key |-> 0, leaf |-> <<>>]>>    \* alloc_empty_btree, dleaf2_init
    /\ wr = NoReq
    /\ amap = [l \in Logical |-> 0]

(* The segment lists a caller's dleaf_req may carry: distinct first blocks. *)
Segs == UNION {[1..n -> [block : SegBlocks, count : SegCounts]] : n \in 1..MaxSegs}

(* A caller takes the lock and starts btree_write of segs at start.  With *)
(* OneLeafWrites the range ends by the next key of the leaf   *)
(* holding start, as btree_write serves one leaf (its FIXME) and          *)
(* dleaf2_write never looks at key_limit.                                 *)
WriteBegin(start, segs) ==
    /\ wr = NoReq
    /\ Cardinality({segs[k].block : k \in DOMAIN segs}) = Len(segs)
    /\ start + SegTotal(segs, 1) <= NLogical
    /\ SegTotal(segs, 1) <= MaxWriteLen
    /\ OneLeafWrites => start + SegTotal(segs, 1) <= cursor_next_key(btree_probe(start))
    /\ wr' = [start |-> start, len |-> SegTotal(segs, 1), segs |-> segs, idx |-> 1,
              iter |-> 0]
    /\ UNCHANGED <<leaves, amap>>

(* One iteration of the btree_write loop in which dleaf2_write fits: the *)
(* request is written and key->len is 0.                                   *)
btree_write ==
    /\ wr # NoReq
    /\ LET i == btree_probe(wr.start)
           r == dleaf2_write(leaves[i].leaf, leaves[i].key, wr)
       IN /\ ~r.split
          /\ leaves' = [leaves EXCEPT ![i].leaf = r.leaf]
          /\ wr' = NoReq
          /\ amap' = TreeMap'

(* The asserts on a split of leaf i: dleaf2_split's count >= 3 and       *)
(* btree_leaf_split's this_key < newkey < next_key; the code aborts when   *)
(* one fails.                                                              *)
SplitAsserts(i, L, newkey) ==
    /\ Len(L) >= 3
    /\ leaves[i].key < newkey
    /\ newkey < cursor_next_key(i)

(* Mutant: btree_leaf_split returns without splitting the leaf. *)
btree_leaf_split_nosplit ==
    /\ wr # NoReq
    /\ LET i == btree_probe(wr.start)
           r == dleaf2_write(leaves[i].leaf, leaves[i].key, wr)
       IN /\ r.split
          /\ leaves' = [leaves EXCEPT ![i].leaf = r.leaf]
          /\ wr' = [wr EXCEPT !.start = r.rq.start, !.len = r.rq.len, !.idx = r.rq.idx,
                               !.iter = wr.iter + 1]
    /\ UNCHANGED amap

(* One iteration in which dleaf2_write asks for a split: what it wrote    *)
(* stays, then btree_leaf_split splits the leaf at the hint and           *)
(* insert_leaf adds the new leaf after it; the loop goes on.               *)
btree_leaf_split ==
    /\ wr # NoReq
    /\ LET i == btree_probe(wr.start)
           r == dleaf2_write(leaves[i].leaf, leaves[i].key, wr)
           s == dleaf2_split(r.leaf, r.hint)
       IN /\ r.split
          /\ SplitAsserts(i, r.leaf, s.key)
          /\ leaves' = InsertAt([leaves EXCEPT ![i].leaf = s.from], i + 1,
                                [key |-> s.key, leaf |-> s.into])
          /\ wr' = [wr EXCEPT !.start = r.rq.start, !.len = r.rq.len, !.idx = r.rq.idx,
                               !.iter = wr.iter + 1]
    /\ UNCHANGED amap

(* The leaf walk of btree_chop(start, TUXKEY_LIMIT): each leaf from the    *)
(* probe on is chopped from max(start, its key) and merged into the last   *)
(* leaf kept when dleaf2_merge lets it; the walk reaches the last leaf.    *)
RECURSIVE ChopWalk(_, _, _, _, _)
ChopWalk(acc, rest, start0, walked, freed) ==
    IF rest = <<>> THEN [leaves |-> acc, freed |-> freed]
    ELSE
    LET e == Head(rest)
        start == IF start0 < e.key THEN e.key ELSE start0
        c == dleaf2_chop(e.leaf, start)
        m == IF walked THEN dleaf2_merge(acc[Len(acc)].leaf, c.leaf) ELSE [ok |-> FALSE]
        acc2 == IF m.ok THEN [acc EXCEPT ![Len(acc)].leaf = m.leaf]
                ELSE Append(acc, [e EXCEPT !.leaf = c.leaf])
    IN ChopWalk(acc2, Tail(rest), start, TRUE, freed \o c.freed)

(* The leaves and the extents freed by btree_chop(start, TUXKEY_LIMIT). *)
ChopResult(start) ==
    LET i == btree_probe(start)
    IN ChopWalk(SubSeq(leaves, 1, i - 1), SubSeq(leaves, i, Len(leaves)), start, FALSE, <<>>)

(* The blocks of a list of (block, count) extents, as a bag. *)
BlocksOf(exts) ==
    [b \in UNION {{x.block + o : o \in 0..(x.count - 1)} : x \in Range(exts)} |->
       Cardinality({k \in DOMAIN exts : b - exts[k].block \in 0..(exts[k].count - 1)})]

btree_chop(start) ==
    /\ wr = NoReq
    /\ leaves' = ChopResult(start).leaves
    /\ amap' = TreeMap'
    /\ UNCHANGED wr

Next ==
    \/ \E start \in Logical, segs \in Segs : WriteBegin(start, segs)
    \/ btree_write
    \/ btree_leaf_split
    \/ \E start \in Logical : btree_chop(start)

(* btree_write loops under the lock until key->len is 0. *)
Spec == Init /\ [][Next]_vars /\ WF_vars(btree_write \/ btree_leaf_split)

(* ---------------------------- properties ----------------------------- *)

Extent == [logical : Nat, physical : Nat]

TypeOK ==
    /\ leaves \in Seq([key : Nat, leaf : Seq(Extent)])
    /\ \A i \in 1..Len(leaves) : Len(leaves[i].leaf) <= EntriesPerLeaf
    /\ wr = NoReq \/ wr.idx \in 1..(Len(wr.segs) + 1)

(* Every leaf is what dleaf2_sniff and the asserts of btree_write,         *)
(* dleaf2_lookup_index and dleaf2_merge take it to be after any mix of     *)
(* writes, splits and chops: keys rise from 0, a non-empty leaf starts at  *)
(* its key, its logicals do not decrease and stay below the next key, and  *)
(* it ends in a hole sentinel.                                             *)
LeafFormat ==
    /\ leaves[1].key = 0
    /\ \A i \in 1..Len(leaves) :
         LET L == leaves[i].leaf
         IN /\ i > 1 => leaves[i - 1].key < leaves[i].key
            /\ L # <<>> =>
                 /\ E(L, 0).logical = leaves[i].key
                 /\ E(L, Len(L) - 1).physical = 0
                 /\ E(L, Len(L) - 1).logical <= cursor_next_key(i)
                 /\ \A j \in 1..(Len(L) - 1) : E(L, j - 1).logical <= E(L, j).logical

(* A btree_write never reaches a split whose asserts fail: the hint       *)
(* dleaf2_write chooses when the leaf is full lies strictly inside the    *)
(* leaf's key range, and the leaf has the two extents and sentinel that     *)
(* dleaf2_split needs.                                                     *)
SplitAssertsHold ==
    wr # NoReq =>
      LET i == btree_probe(wr.start)
          r == dleaf2_write(leaves[i].leaf, leaves[i].key, wr)
      IN r.split => SplitAsserts(i, r.leaf, dleaf2_split(r.leaf, r.hint).key)

(* What btree_read hands the caller agrees with the map the writes and   *)
(* chops so far define (amap): every segment of dleaf2_read, a hole or a  *)
(* run of blocks, names for each of its logical blocks the block the map   *)
(* gives it, and a read from any block returns a segment starting there.   *)
ReadBack ==
    wr = NoReq =>
      \A start \in Logical :
        LET segs == btree_read(start)
        IN /\ segs # <<>> /\ segs[1].start = start /\ segs[1].count > 0
           /\ \A k \in DOMAIN segs : \A o \in 0..(segs[k].count - 1) :
                segs[k].start + o \in Logical =>
                  amap[segs[k].start + o] =
                    (IF segs[k].block = 0 THEN 0 ELSE segs[k].block + o)

(* The tree implements DMap: each finished btree_write loop maps         *)
(* [start, start+len) to the request's segments and leaves the rest, and    *)
(* each chop holes everything from its start, as the map read from the     *)
(* tree (TreeMap, recorded in amap) shows.                                 *)
Requests == {[start |-> s, segs |-> g] : s \in Logical, g \in Segs}

DMap == INSTANCE DMap WITH dmap <- amap, ChopStarts <- Logical

DMapRefined == DMap!Spec

(* The logical block a request in progress started at: its key advances *)
(* past each segment written.                                            *)
ReqStart(w) == w.start - SegTotal(SubSeq(w.segs, 1, w.idx - 1), 1)

(* Each btree_write loop, once key->len reaches 0, has done exactly the   *)
(* caller's request: the blocks of its segments in order from its start,   *)
(* the rest of the map untouched, however many splits and partial fills   *)
(* it took.  DMapRefined lets a write step match any request; this pins   *)
(* it to the one the caller made.                                         *)
WriteDoesRequest ==
    [][wr # NoReq /\ wr' = NoReq => DMap!Write(ReqStart(wr), wr.segs)]_vars

(* The mapped blocks from logical start on, as a bag. *)
MappedFrom(m, start) ==
    [b \in {m[l] : l \in {x \in Logical : x >= start /\ m[x] # 0}} |->
       Cardinality({l \in Logical : l >= start /\ m[l] = b})]

(* A chop passes to defer_bfree exactly the blocks it unmaps, each once:   *)
(* none of the file's blocks leaks and none is freed twice, whichever      *)
(* entry the chop starts in and whichever leaves it walks and merges.      *)
ChopDefersMapped ==
    [][\A start \in Logical :
         btree_chop(start) =>
            BlocksOf(ChopResult(start).freed) = MappedFrom(amap, start)]_vars

(* A btree_write that has begun finishes.  From a state with a write in *)
(* progress only its loop can step (WriteBegin and btree_chop wait for the *)
(* lock), every such state has a step (deadlock is checked), and no loop   *)
(* takes more than LoopBound splits: under the fairness of Spec the loop   *)
(* reaches key->len = 0 and the write returns, whatever the leaf holds.    *)
WriteLoopBounded == wr # NoReq => wr.iter <= LoopBound

====
