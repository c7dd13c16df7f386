---------------------------------- MODULE Log ----------------------------------
(***************************************************************************)
(* The log writer and the deferred-free stashes of src/kernel/log.c, with  *)
(* the delta and unify cycle that drives them.  The backend appends typed  *)
(* records to log blocks cached in the logmap (log_begin / log_end); at    *)
(* delta staging log_finish() closes the last block and tux3_logmap_io()   *)
(* gives every block a physical address from the allocator, chains it to   *)
(* the previous one through logchain, writes it, defers its free to the    *)
(* next unify (defer_bfree on deunify) and adds it to super.logcount.  The *)
(* commit writes the superblock, then drains defree into the allocator.    *)
(* A unify re-logs deunify as BFREE_RELOG records, moves it to defree and  *)
(* starts a new chain.                                                     *)
(*                                                                         *)
(* A crash can happen at any state: the durable_* variables are what the   *)
(* last written superblock and the device hold, and replay (section 4.8 of *)
(* the specification) walks durable_count blocks back from durable_chain.  *)
(* Records carry their type and, for the re-logged frees, the stash value. *)
(* The commit and unify steps are in commit.c, which is not under src/;    *)
(* they follow the specification (sections 4.7, 4.8).                      *)
(***************************************************************************)
EXTENDS Naturals, Sequences, SequencesExt, FiniteSets

CONSTANTS
    BlockSize,        \* sb->blocksize, in bytes
    Phys,             \* physical blocks the allocator can give the log
    LogKinds,         \* record types the tree operations log
    RecsPerDelta,     \* bound: tree records logged per delta
    MaxLogBlocks,     \* bound: logmap blocks per delta (lognext)
    UnifyThreshold,   \* a delta starting with logcount >= this unifies
    PageVals,         \* u64 values per stash page (PAGE_SIZE / 8)
    CountBits,        \* width of the count field of a stash value
    AllocCanFail      \* alloc_page() in stash_value may return NULL

ASSUME Phys \subseteq (Nat \ {0})

\* log_size[]: the length of each record type, type byte included.
log_size == [BALLOC |-> 11, BFREE |-> 11, BFREE_ON_UNIFY |-> 11,
             BFREE_RELOG |-> 11, LEAF_REDIRECT |-> 13, LEAF_FREE |-> 7,
             BNODE_REDIRECT |-> 13, BNODE_ROOT |-> 26, BNODE_SPLIT |-> 15,
             BNODE_ADD |-> 19, BNODE_UPDATE |-> 19, BNODE_MERGE |-> 13,
             BNODE_DEL |-> 15, BNODE_ADJUST |-> 19, BNODE_FREE |-> 7,
             ORPHAN_ADD |-> 9, ORPHAN_DEL |-> 9, FREEBLOCKS |-> 7,
             UNIFY |-> 1, DELTA |-> 1]

\* struct logblock: magic, bytes, unused, logchain.
LogHeader == 16
NoBuf == -1
NoBlock == 0
\* What replay decodes from the zeroed tail of a block.
Junk == [kind |-> "ZERO", arg |-> 0]

VARIABLES
    lw,              \* the log writer: logbuf, logpos, logtop, lognext, blocks
    super_logchain,  \* sb->super.logchain in memory
    super_logcount,  \* sb->super.logcount in memory
    disk,            \* the device: [recs, bytes, chain] per physical block
    durable_chain,   \* the superblock on disk: logchain
    durable_count,   \* the superblock on disk: logcount
    freeblks,        \* the allocator's free log blocks
    deunify,         \* sb->deunify: pages of stash values
    defree,          \* sb->defree: pages of stash values
    bphase,          \* backend: "log", "io"
    io_idx,          \* tux3_logmap_io: the next logmap block to place
    io_count,        \* tux3_logmap_io: blocks still to place
    nrec,            \* tree records logged in this delta
    stream,          \* ghost: records logged in this unify cycle
    durable_stream   \* ghost: records of the cycle as of the last commit

vars == <<lw, super_logchain, super_logcount, disk, durable_chain,
          durable_count, freeblks, deunify, defree, bphase, io_idx, io_count,
          nrec, stream, durable_stream>>

Rec(k, a) == [kind |-> k, arg |-> a]
Blank == [recs |-> <<>>, bytes |-> 0, chain |-> NoBlock]

-----------------------------------------------------------------------------
(* The log writer, as operators on lw.  A NULL logpos/logtop is 0.        *)

\* Mutant: the length taken from the start of the block, header included.
log_finish_hdr(L) ==
    IF L.buf = NoBuf THEN L
    ELSE [L EXCEPT !.blk[L.buf].bytes = L.pos,
                   !.buf = NoBuf, !.pos = 0, !.top = 0]

\* log_drop() and log_finish(): record the payload length of the current
\* block (the tail is zeroed) and release it.
log_finish(L) ==
    IF L.buf = NoBuf THEN L
    ELSE [L EXCEPT !.blk[L.buf].bytes = L.pos - LogHeader,
                   !.buf = NoBuf, !.pos = 0, !.top = 0]

\* log_next(), with log_begin's new header: blockget the next logmap block.
log_next(L) ==
    [L EXCEPT !.buf = L.next, !.next = L.next + 1, !.pos = LogHeader,
              !.top = BlockSize, !.blk[L.next] = Blank]

\* log_begin(): open a new block when the record does not fit.
log_begin(L, bytes) ==
    IF L.pos + bytes > L.top THEN log_next(log_finish(L)) ELSE L

\* The record is stored at logpos; log_end() moves logpos past it.
log_end(L, r) ==
    [L EXCEPT !.blk[L.buf].recs = Append(@, r),
              !.pos = L.pos + log_size[r.kind]]

\* log_intent() and the log_u*_u48() writers.
log_put(L, r) == log_end(log_begin(L, log_size[r.kind]), r)

\* Several records in order.
log_puts(L, rs) == FoldLeft(log_put, L, rs)

\* log_finish_cycle(sb, 0): the block must be finished; lognext restarts.
log_finish_cycle(L) == [L EXCEPT !.next = 0]

\* The writer fits in the logmap bound after logging rs.
Fits(L) == L.next <= MaxLogBlocks

-----------------------------------------------------------------------------
(* Stashes: a queue of pages of values.  An outcome is [err, s].          *)

StashVals(S) == FlattenSeq(S)

\* stash_value(): a new page when the last one is full (or none exists).
stash_value(S, v) ==
    IF S = <<>> \/ Len(Last(S)) = PageVals
    THEN {[err |-> FALSE, s |-> Append(S, <<v>>)]}
         \cup (IF AllocCanFail THEN {[err |-> TRUE, s |-> S]} ELSE {})
    ELSE {[err |-> FALSE, s |-> [S EXCEPT ![Len(S)] = Append(@, v)]]}

DeferLimit == 2 ^ CountBits - 1

\* Mutant: the block is not advanced past the stashed part.
defer_bfree_noadvance(S, block, count) ==
    LET c == IF count < DeferLimit THEN count ELSE DeferLimit
    IN {[err |-> o.err, s |-> o.s] :
          o \in stash_value(S, [count |-> c, block |-> block])}

\* defer_bfree(): split the extent into values of at most DeferLimit blocks.
RECURSIVE defer_bfree(_, _, _)
defer_bfree(S, block, count) ==
    IF count = 0 THEN {[err |-> FALSE, s |-> S]}
    ELSE LET c == IF count < DeferLimit THEN count ELSE DeferLimit
         IN UNION {IF o.err THEN {o} ELSE defer_bfree(o.s, block + c, count - c) :
                   o \in stash_value(S, [count |-> c, block |-> block])}

\* The blocks a list of stash values names.
ValBlocks(vs) == UNION {{vs[i].block + j : j \in 0 .. vs[i].count - 1} :
                        i \in DOMAIN vs}

\* The number of blocks a list of stash values names, with repeats.
SumCounts(vs) == FoldSeq(LAMBDA v, n : v.count + n, 0, vs)

\* unstash() with an actor that cannot fail: every value is applied, all
\* pages but the last are freed and the last is kept empty.
unstash(S) == IF S = <<>> THEN <<>> ELSE <<<<>>>>

-----------------------------------------------------------------------------

Init ==
    /\ lw = [buf |-> NoBuf, pos |-> 0, top |-> 0, next |-> 0,
             blk |-> [i \in 0 .. MaxLogBlocks - 1 |-> Blank]]
    /\ super_logchain = NoBlock /\ super_logcount = 0
    /\ disk = [p \in Phys |-> Blank]
    /\ durable_chain = NoBlock /\ durable_count = 0
    /\ freeblks = Phys
    /\ deunify = <<>> /\ defree = <<>>
    /\ bphase = "log" /\ io_idx = 0 /\ io_count = 0 /\ nrec = 0
    /\ stream = <<>> /\ durable_stream = <<>>

DeltaStart == lw.buf = NoBuf /\ lw.next = 0 /\ nrec = 0
MustUnify == DeltaStart /\ super_logcount >= UnifyThreshold

\* A tree operation of the backend logs a record (log_balloc, log_bfree,
\* log_leaf_redirect, ...): log_begin, the encoding, log_end.
LogRecord(k) ==
    LET r == Rec(k, 0) IN
    /\ bphase = "log" /\ ~MustUnify /\ nrec < RecsPerDelta
    /\ Fits(log_put(lw, r))
    /\ lw' = log_put(lw, r)
    /\ nrec' = nrec + 1
    /\ stream' = Append(stream, r)
    /\ UNCHANGED <<super_logchain, super_logcount, disk, durable_chain,
                   durable_count, freeblks, deunify, defree, bphase, io_idx,
                   io_count, durable_stream>>

\* The unify at the start of a delta: log_unify, then stash_walk(deunify)
\* re-logging each value as BFREE_RELOG (log_bfree_relog), then
\* unstash(deunify) moving each value to defree with stash_value; the
\* new cycle's chain and count start empty.
RECURSIVE MoveAll(_, _)
MoveAll(S, vs) ==
    IF vs = <<>> THEN {[err |-> FALSE, s |-> S]}
    ELSE UNION {IF o.err THEN {o} ELSE MoveAll(o.s, Tail(vs)) :
                o \in stash_value(S, Head(vs))}

Unify ==
    LET relog == <<Rec("UNIFY", 0)>> \o
                 [i \in DOMAIN StashVals(deunify) |->
                    Rec("BFREE_RELOG", StashVals(deunify)[i])]
    IN
    /\ bphase = "log" /\ DeltaStart /\ super_logcount > 0
    /\ Fits(log_puts(lw, relog))
    /\ \E o \in MoveAll(defree, StashVals(deunify)) :
         /\ ~o.err
         /\ defree' = o.s
    /\ lw' = log_puts(lw, relog)
    /\ deunify' = unstash(deunify)
    /\ super_logchain' = NoBlock /\ super_logcount' = 0
    /\ stream' = relog
    /\ UNCHANGED <<disk, durable_chain, durable_count, freeblks, bphase,
                   io_idx, io_count, nrec, durable_stream>>

\* Delta staging: log_finish(), then the logmap's dirty blocks 0 ..
\* lognext - 1 go to tux3_logmap_io as one bufvec.
Stage ==
    /\ bphase = "log" /\ ~MustUnify
    /\ lw' = log_finish(lw)
    /\ io_idx' = 0 /\ io_count' = log_finish(lw).next
    /\ bphase' = "io"
    /\ UNCHANGED <<super_logchain, super_logcount, disk, durable_chain,
                   durable_count, freeblks, deunify, defree, nrec, stream,
                   durable_stream>>

\* balloc_partial(): the free run at the lowest free block, at most count
\* blocks long; fewer when the free space is fragmented.
RECURSIVE RunFrom(_, _)
RunFrom(b, count) == IF count > 0 /\ b \in freeblks THEN 1 + RunFrom(b + 1, count - 1) ELSE 0
Segs(count) ==
    IF freeblks = {} THEN {}
    ELSE LET b == CHOOSE x \in freeblks : \A y \in freeblks : x <= y
         IN {[block |-> b, count |-> RunFrom(b, count)]}

\* The blocks of a segment, each chained to the one placed before it.
Placed(seg) ==
    [p \in {seg.block + j : j \in 0 .. seg.count - 1} |->
       [recs  |-> lw.blk[io_idx + p - seg.block].recs,
        bytes |-> lw.blk[io_idx + p - seg.block].bytes,
        chain |-> IF p = seg.block THEN super_logchain ELSE p - 1]]

\* Mutant: logcount grows by what remains rather than by the segment.
tux3_logmap_io_remaining ==
    /\ bphase = "io" /\ io_count > 0
    /\ \E seg \in Segs(io_count) :
         /\ freeblks' = freeblks \ DOMAIN Placed(seg)
         /\ disk' = Placed(seg) @@ disk
         /\ super_logchain' = seg.block + seg.count - 1
         /\ \E o \in defer_bfree(deunify, seg.block, seg.count) : deunify' = o.s
         /\ super_logcount' = super_logcount + io_count
         /\ io_count' = io_count - seg.count
         /\ io_idx' = io_idx + seg.count
    /\ UNCHANGED <<lw, durable_chain, durable_count, defree, bphase, nrec,
                   stream, durable_stream>>

\* One pass of tux3_logmap_io's loop: balloc_partial() gives a segment;
\* each block's logchain is the previous chain head and becomes the head;
\* the segment is written (__tux3_volmap_io); defer_bfree(deunify) is
\* called with its error ignored; logcount grows by the segment.
tux3_logmap_io ==
    /\ bphase = "io" /\ io_count > 0
    /\ \E seg \in Segs(io_count) :
         /\ freeblks' = freeblks \ DOMAIN Placed(seg)
         /\ disk' = Placed(seg) @@ disk
         /\ super_logchain' = seg.block + seg.count - 1
         /\ \E o \in defer_bfree(deunify, seg.block, seg.count) : deunify' = o.s
         /\ super_logcount' = super_logcount + seg.count
         /\ io_count' = io_count - seg.count
         /\ io_idx' = io_idx + seg.count
    /\ UNCHANGED <<lw, durable_chain, durable_count, defree, bphase, nrec,
                   stream, durable_stream>>

\* The commit: the superblock is written, log_finish_cycle(sb, 0) resets
\* lognext, and unstash(defree) hands the deferred blocks to the allocator.
Commit ==
    /\ bphase = "io" /\ io_count = 0
    /\ durable_chain' = super_logchain /\ durable_count' = super_logcount
    /\ durable_stream' = stream
    /\ lw.buf = NoBuf
    /\ lw' = log_finish_cycle(lw)
    /\ freeblks' = freeblks \cup ValBlocks(StashVals(defree))
    /\ defree' = unstash(defree)
    /\ bphase' = "log" /\ nrec' = 0
    /\ UNCHANGED <<super_logchain, super_logcount, disk, deunify, io_idx,
                   io_count, stream>>

Next ==
    \/ \E k \in LogKinds : LogRecord(k)
    \/ Unify \/ Stage \/ tux3_logmap_io \/ Commit

Spec == Init /\ [][Next]_vars

-----------------------------------------------------------------------------
(* Replay, and the properties.                                            *)

\* The records replay decodes from a block: while the offset is below the
\* recorded byte count; past the stored records it reads the zeroed tail.
RECURSIVE DecodeFrom(_, _, _)
DecodeFrom(recs, off, bytes) ==
    IF off >= bytes THEN <<>>
    ELSE IF recs = <<>> THEN <<Junk>>
    ELSE <<Head(recs)>> \o DecodeFrom(Tail(recs), off + log_size[Head(recs).kind], bytes)

\* count blocks back along logchain from b, newest first.
RECURSIVE ChainWalk(_, _)
ChainWalk(b, n) ==
    IF n = 0 THEN <<>>
    ELSE IF b \notin Phys THEN <<NoBlock>>
    ELSE <<b>> \o ChainWalk(disk[b].chain, n - 1)

Replay ==
    LET ch == Reverse(ChainWalk(durable_chain, durable_count)) IN
    FlattenSeq([i \in DOMAIN ch |->
                  IF ch[i] \in Phys THEN DecodeFrom(disk[ch[i]].recs, 0, disk[ch[i]].bytes)
                  ELSE <<Junk>>])

TypeOK ==
    /\ lw.buf \in {NoBuf} \cup 0 .. MaxLogBlocks - 1
    /\ lw.pos \in 0 .. BlockSize /\ lw.top \in {0, BlockSize}
    /\ lw.next \in 0 .. MaxLogBlocks
    /\ \A i \in DOMAIN lw.blk : lw.blk[i].bytes \in 0 .. BlockSize - LogHeader
    /\ super_logchain \in {NoBlock} \cup Phys
    /\ durable_chain \in {NoBlock} \cup Phys
    /\ freeblks \subseteq Phys
    /\ bphase \in {"log", "io"}
    /\ \A v \in Range(StashVals(deunify)) \cup Range(StashVals(defree)) :
         v.count \in 1 .. DeferLimit

\* After a crash at any point, replaying the log from the superblock on
\* disk yields exactly the records of the unify cycle up to the last
\* commit, in the order they were logged: log_begin/log_finish record
\* every block's length, tux3_logmap_io chains the blocks and counts
\* them, and no block the superblock still reaches is reused.
ReplayRecovers == Replay = durable_stream

\* Every log block is exactly one of: free in the allocator, deferred to
\* the next unify (deunify), or deferred to the next commit (defree); no
\* block is leaked by tux3_logmap_io or unify and none is freed twice.
LogSpaceAccounted ==
    LET du == ValBlocks(StashVals(deunify))
        df == ValBlocks(StashVals(defree))
    IN
    /\ freeblks \cup du \cup df = Phys
    /\ freeblks \cap du = {} /\ freeblks \cap df = {} /\ du \cap df = {}
    /\ SumCounts(StashVals(deunify)) + SumCounts(StashVals(defree))
         = Cardinality(du) + Cardinality(df)

=============================================================================
