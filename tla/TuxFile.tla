------------------------------ MODULE TuxFile ------------------------------
(***************************************************************************)
(* One regular file of tux3 through the userland buffer cache: tuxread and *)
(* tuxwrite (src/filemap.c), the block fork of a buffer the backend still  *)
(* owns (src/buffer_fork.c), and the writeback of a delta's dirty buffers  *)
(* (src/buffer_writeback.c), driven either by the synchronous userland     *)
(* commit or by the asynchronous flusher of kernel/commit_flusher_hack.c.  *)
(*                                                                         *)
(* Sizes and positions are in units; a block is BlockUnits units.          *)
(*   disk      the block contents map_region()/devio would read back       *)
(*   durable   the image of the last committed delta                       *)
(*   view      ghost: what the file holds for a reader now                 *)
(*   snap_*    ghost: i_size and view when the backend's delta was closed  *)
(***************************************************************************)
EXTENDS BufferCache

CONSTANTS
    Vals,          \* tags of written data
    BlockUnits,    \* sb->blocksize
    FileUnits,     \* sb->s_maxbytes
    MaxExtent,     \* MAX_EXTENT, the readahead window
    MaxDelta,      \* bound on delta transitions
    MaxIo,         \* bound on the length of one tuxread/tuxwrite
    AsyncBackend   \* TRUE: flusher runs beside the frontend; FALSE: userland

VARIABLES cache, disk, durable, isize, view,
          delta, marshal_delta, commit_running, snap_size, snap_view

vars == <<cache, disk, durable, isize, view,
          delta, marshal_delta, commit_running, snap_size, snap_view>>

Block == SUBSET Vals

\* (i_size + blockmask) >> blockbits
SizeBlocks(size) == (size + BlockUnits - 1) \div BlockUnits

LOCAL MinOf(a, b) == IF a < b THEN a ELSE b
LOCAL MaxOf(a, b) == IF a > b THEN a ELSE b

-----------------------------------------------------------------------------
(* Read side: guess_readahead() and the read completions.                 *)

\* The loop of guess_readahead(): pin EMPTY or absent buffers from idx up
\* to limit, stop at the first present non-empty one or when the pool fails.
RECURSIVE ReadAhead(_, _, _, _)
ReadAhead(c, idx, limit, got) ==
    IF idx >= limit THEN [c |-> c, got |-> got]
    ELSE LET p == peekblk(c, idx) IN
         IF p.buf # NoBuf
         THEN IF c.state[p.buf] # EMPTY
              THEN [c |-> blockput(p.c, p.buf), got |-> got]
              ELSE ReadAhead(p.c, idx + 1, limit, Append(got, p.buf))
         ELSE LET g == blockget(c, idx) IN
              IF g.buf = NoBuf THEN [c |-> g.c, got |-> got]
              ELSE ReadAhead(g.c, idx + 1, limit, Append(got, g.buf))

\* Mutant: a read completion that keeps the readahead reference.
ReadEndio_noput(c, b, dsk) ==
    [c EXCEPT !.state[b] = CLEAN, !.data[b] = dsk[c.index[b]]]

\* filemap_read_endio / filemap_hole_endio: CLEAN with the block read back
\* (a hole reads as zeroes), then drop the readahead reference.
ReadEndio(c, b, dsk) ==
    blockput([c EXCEPT !.state[b] = CLEAN, !.data[b] = dsk[c.index[b]]], b)

\* filemap_extent_io(MAP_READ): readahead from index, every pinned buffer
\* mapped (data or hole) and completed.
filemap_read(c, index, dsk, size) ==
    LET limit == MinOf(SizeBlocks(size), index + MaxExtent)
        first == blockget(c, index)
        ra    == ReadAhead(first.c, index + 1, limit, <<first.buf>>)
    IN FoldLeft(LAMBDA cc, b : ReadEndio(cc, b, dsk), ra.c, ra.got)

\* blockread(): blockget, and read the buffer in when it is EMPTY.
blockread(c, i, dsk, size) ==
    LET g == blockget(c, i) IN
    IF g.buf = NoBuf \/ g.c.state[g.buf] # EMPTY THEN g
    ELSE [c |-> filemap_read(g.c, i, dsk, size), buf |-> g.buf]

\* The block loop of tuxio() for a read: blockread each block and put it;
\* a failed blockread ends the loop with -EIO.
RECURSIVE ReadLoop(_, _, _, _, _)
ReadLoop(c, pos, tail, dsk, size) ==
    IF tail = 0 THEN c
    ELSE LET from == pos % BlockUnits
             some == IF from + tail > BlockUnits THEN BlockUnits - from ELSE tail
             r    == blockread(c, pos \div BlockUnits, dsk, size)
         IN IF r.buf = NoBuf THEN r.c
            ELSE ReadLoop(blockput(r.c, r.buf), pos + some, tail - some, dsk, size)
-----------------------------------------------------------------------------
(* Write side: the block loop of tuxio() for a write.                     *)

\* memcpy(bufdata(clone) + from, data, some): a full block is replaced, a
\* partial one keeps what it held.
Put(old, v, full) == IF full THEN {v} ELSE old \cup {v}

\* One pass per block: blockget for a full block, blockread otherwise, then
\* blockdirty(buffer, delta), copy, blockput(clone).  A failed get/read or a
\* failed fork (blockput(buffer)) ends the loop with the blocks before it
\* written.  s = [c, pos, view, err].
RECURSIVE WriteLoop(_, _, _, _)
WriteLoop(s, tail, v, d) ==
    IF tail = 0 \/ s.err THEN s
    ELSE LET idx  == s.pos \div BlockUnits
             from == s.pos % BlockUnits
             some == IF from + tail > BlockUnits THEN BlockUnits - from ELSE tail
             full == some = BlockUnits
             g    == IF full THEN blockget(s.c, idx)
                     ELSE blockread(s.c, idx, disk, isize)
             f    == blockdirty(g.c, g.buf, d)
         IN IF g.buf = NoBuf THEN [s EXCEPT !.c = g.c, !.err = TRUE]
            ELSE IF f.buf = NoBuf
            THEN [s EXCEPT !.c = blockput(f.c, g.buf), !.err = TRUE]
            ELSE WriteLoop(
                   [c    |-> blockput([f.c EXCEPT !.data[f.buf] = Put(@, v, full)],
                                      f.buf),
                    pos  |-> s.pos + some,
                    view |-> [s.view EXCEPT ![idx] = Put(@, v, full)],
                    err  |-> FALSE], tail - some, v, d)

-----------------------------------------------------------------------------
(* Writeback: one pass of the flush_list() loop.                          *)

ByIndex(c, S) == SetToSortSeq(S, LAMBDA a, b : c.index[a] < c.index[b])

\* bufvec_contig_collect(): length of the run of consecutive indices that
\* starts the sorted list s, stopping before a gap or a block outside i_size.
RECURSIVE ContigLen(_, _, _, _)
ContigLen(c, s, k, outside) ==
    IF k = Len(s) THEN k
    ELSE IF c.index[s[k + 1]] >= outside \/ c.index[s[k + 1]] # c.index[s[k]] + 1
         THEN k
         ELSE ContigLen(c, s, k + 1, outside)

\* Mutant: the first block outside i_size computed as i_size >> blockbits.
FlushRun_floor(c, dsk, size, d) ==
    LET s       == ByIndex(c, DirtyList(c, d))
        outside == size \div BlockUnits
        n       == IF c.index[s[1]] >= outside THEN 0 ELSE ContigLen(c, s, 1, outside)
        run     == SubSeq(s, 1, n)
        cancel  == IF n < Len(s) /\ c.index[s[n + 1]] >= outside
                   THEN SubSeq(s, n + 1, Len(s)) ELSE <<>>
        Endio(cc, b) == clear_buffer_dirty_for_endio(cc, b)
    IN [c    |-> FoldLeft(Endio, FoldLeft(Endio, c, cancel), run),
        disk |-> [j \in DOMAIN dsk |->
                    IF \E k \in 1 .. n : c.index[run[k]] = j
                    THEN c.data[run[CHOOSE k \in 1 .. n : c.index[run[k]] = j]]
                    ELSE dsk[j]]]

\* list_sort by index, collect one run (cancelling every dirty buffer from
\* the first one fully outside i_size on), write the run out and complete
\* it with clear_buffer_dirty_for_endio().  Returns [c, disk].
FlushRun(c, dsk, size, d) ==
    LET s       == ByIndex(c, DirtyList(c, d))
        outside == SizeBlocks(size)
        n       == IF c.index[s[1]] >= outside THEN 0 ELSE ContigLen(c, s, 1, outside)
        run     == SubSeq(s, 1, n)
        cancel  == IF n < Len(s) /\ c.index[s[n + 1]] >= outside
                   THEN SubSeq(s, n + 1, Len(s)) ELSE <<>>
        Endio(cc, b) == clear_buffer_dirty_for_endio(cc, b)
    IN [c    |-> FoldLeft(Endio, FoldLeft(Endio, c, cancel), run),
        disk |-> [j \in DOMAIN dsk |->
                    IF \E k \in 1 .. n : c.index[run[k]] = j
                    THEN c.data[run[CHOOSE k \in 1 .. n : c.index[run[k]] = j]]
                    ELSE dsk[j]]]

\* flush_list() run to the end: passes until the delta's list is empty.
RECURSIVE FlushAll(_, _, _, _)
FlushAll(c, dsk, size, d) ==
    IF DirtyList(c, d) = {} THEN [c |-> c, disk |-> dsk]
    ELSE LET r == FlushRun(c, dsk, size, d) IN FlushAll(r.c, r.disk, size, d)

-----------------------------------------------------------------------------
(* The system.                                                            *)

NoBlocks == [i \in Idx |-> {}]

\* init_buffers() + preallocate_buffers() on a fresh file system holding an
\* empty file: every head on the free list, buffer_count = 0, no dirty data.
Init ==
    /\ cache = [state   |-> [b \in Bufs |-> FREED],
                count   |-> [b \in Bufs |-> 0],
                index   |-> [b \in Bufs |-> 0],
                data    |-> [b \in Bufs |-> {}],
                dirtied |-> [b \in Bufs |-> 0],
                hashed  |-> {},
                lru     |-> <<>>,
                freed   |-> SetToSeq(Prealloc),
                nbuf    |-> 0]
    /\ disk = NoBlocks
    /\ durable = NoBlocks
    /\ isize = 0
    /\ view = NoBlocks
    /\ delta = 0
    /\ marshal_delta = 0
    /\ commit_running = FALSE
    /\ snap_size = 0
    /\ snap_view = NoBlocks

\* tuxwrite(): change_begin; tuxio(write); change_end.  The -EFBIG return
\* for pos + len > s_maxbytes changes nothing.  After the loop i_size grows
\* to the last position written.
Write(pos, len, v) ==
    /\ pos + len <= FileUnits
    /\ LET r == WriteLoop([c |-> cache, pos |-> pos, view |-> view, err |-> FALSE],
                          len, v, delta)
       IN /\ cache' = r.c
          /\ view' = r.view
          /\ isize' = MaxOf(isize, r.pos)
    /\ UNCHANGED <<disk, durable, delta, marshal_delta, commit_running,
                   snap_size, snap_view>>

\* tuxread(): a read at or past i_size returns 0 at once; otherwise the
\* length is clipped to i_size and the blocks are read through the cache.
Read(pos, len) ==
    /\ pos < isize
    /\ cache' = ReadLoop(cache, pos, MinOf(len, isize - pos), disk, isize)
    /\ UNCHANGED <<disk, durable, isize, view, delta, marshal_delta,
                   commit_running, snap_size, snap_view>>

\* Mutant: a delta transition that does not test TUX3_COMMIT_RUNNING_BIT.
Transition_unlocked ==
    /\ AsyncBackend
    /\ delta < MaxDelta
    /\ commit_running' = TRUE
    /\ marshal_delta' = delta
    /\ delta' = delta + 1
    /\ snap_size' = isize
    /\ snap_view' = view
    /\ UNCHANGED <<cache, disk, durable, isize, view>>

\* try_delta_transition_until_delta(): the writeback worker wins
\* TUX3_COMMIT_RUNNING_BIT and runs delta_transition(): the frontend moves
\* to delta + 1 and the backend owns delta.  The backend's view of i_size is
\* the one tux3_iattrdirty() saved for that delta.
Transition ==
    /\ AsyncBackend
    /\ delta < MaxDelta
    /\ ~commit_running
    /\ commit_running' = TRUE
    /\ marshal_delta' = delta
    /\ delta' = delta + 1
    /\ snap_size' = isize
    /\ snap_view' = view
    /\ UNCHANGED <<cache, disk, durable, isize, view>>

\* Mutant: the backend flushes the frontend's dirty list (delta, not
\* marshal_delta).
FlushStep_wronglist ==
    /\ AsyncBackend
    /\ commit_running
    /\ DirtyList(cache, delta) # {}
    /\ LET r == FlushRun(cache, disk, snap_size, delta)
       IN cache' = r.c /\ disk' = r.disk
    /\ UNCHANGED <<durable, isize, view, delta, marshal_delta, commit_running,
                   snap_size, snap_view>>

\* flush_delta() -> flush_list(): one pass of its loop over the dirty
\* buffers of marshal_delta, beside the frontend.
FlushStep ==
    /\ AsyncBackend
    /\ commit_running
    /\ DirtyList(cache, marshal_delta) # {}
    /\ LET r == FlushRun(cache, disk, snap_size, marshal_delta)
       IN cache' = r.c /\ disk' = r.disk
    /\ UNCHANGED <<durable, isize, view, delta, marshal_delta, commit_running,
                   snap_size, snap_view>>

\* The end of flush_delta(): the list is written, the delta is committed and
\* TUX3_COMMIT_RUNNING_BIT is cleared.
FlushDone ==
    /\ AsyncBackend
    /\ commit_running
    /\ DirtyList(cache, marshal_delta) = {}
    /\ commit_running' = FALSE
    /\ durable' = disk
    /\ UNCHANGED <<cache, disk, isize, view, delta, marshal_delta,
                   snap_size, snap_view>>

\* The userland commit (force_delta / sync_super): transition and the whole
\* flush of the closed delta in one call, nothing running beside it.
SyncCommit ==
    /\ ~AsyncBackend
    /\ delta < MaxDelta
    /\ LET r == FlushAll(cache, disk, isize, delta)
       IN /\ cache' = r.c
          /\ disk' = r.disk
          /\ durable' = r.disk
    /\ marshal_delta' = delta
    /\ delta' = delta + 1
    /\ snap_size' = isize
    /\ snap_view' = view
    /\ UNCHANGED <<isize, view, commit_running>>

\* Writes at any unit position; reads block-aligned (a reader's offset
\* within a block does not change what the cache does).
Positions == 0 .. (FileUnits - 1)
Lengths   == 1 .. MaxIo
ReadPositions == {p \in Positions : p % BlockUnits = 0}

Next ==
    \/ \E pos \in Positions, len \in Lengths, v \in Vals : Write(pos, len, v)
    \/ \E pos \in ReadPositions, len \in Lengths : Read(pos, len)
    \/ Transition
    \/ FlushStep
    \/ FlushDone
    \/ SyncCommit

\* The writeback worker, once it owns a delta, is scheduled until the delta
\* is on disk (tux3_wb_writeback runs flush_delta to its end).
Fairness == WF_vars(FlushStep) /\ WF_vars(FlushDone)

Spec == Init /\ [][Next]_vars /\ Fairness

-----------------------------------------------------------------------------
(* Properties.                                                            *)

TypeOK ==
    /\ cache.state \in [Bufs -> BufferStates]
    /\ cache.count \in [Bufs -> Nat]
    /\ cache.index \in [Bufs -> Idx]
    /\ cache.data \in [Bufs -> Block]
    /\ cache.dirtied \in [Bufs -> 0 .. MaxDelta]
    /\ cache.hashed \subseteq Bufs
    /\ cache.lru \in Seq(Bufs) /\ cache.freed \in Seq(Bufs)
    /\ cache.nbuf \in Nat
    /\ disk \in [Idx -> Block] /\ durable \in [Idx -> Block]
    /\ view \in [Idx -> Block] /\ snap_view \in [Idx -> Block]
    /\ isize \in 0 .. FileUnits /\ snap_size \in 0 .. FileUnits
    /\ delta \in 0 .. MaxDelta /\ marshal_delta \in 0 .. MaxDelta
    /\ commit_running \in BOOLEAN

\* A reader gets what was last written: every hashed non-EMPTY buffer of a
\* block holds the block's current contents, and a block with no such buffer
\* reads it back from disk.  Broken by an eviction or a fork that loses the
\* newest copy, or by a flush that writes stale data under it.
ReadCoherent ==
    \A i \in Idx :
        LET live == {b \in Lookup(cache, i) : cache.state[b] # EMPTY}
        IN /\ \A b \in live : cache.data[b] = view[i]
           /\ live = {} => disk[i] = view[i]

\* When no commit is running, the committed image is exactly the file as it
\* was when its delta was closed: no write of a later delta leaks into it
\* and none of that delta is missing (blockdirty fork vs flush_list).
CommitMatchesSnapshot ==
    ~commit_running => durable = snap_view

\* After every handler the only references left are the hash link and, for
\* a forked buffer still dirty, the backend's: a buffer is FREED exactly when
\* its count is 0, and hashed exactly when it is on the LRU.  Broken by a
\* lost blockput on any path (fork, endio, readahead, ENOMEM).
RefcountExact ==
    \A b \in Bufs :
        /\ cache.count[b] = (IF b \in cache.hashed THEN 1 ELSE 0)
                          + (IF b \notin cache.hashed /\ buffer_dirty(cache, b)
                             THEN 1 ELSE 0)
        /\ (cache.state[b] = FREED) <=> (cache.count[b] = 0)
        /\ (b \in cache.hashed) <=> Contains(cache.lru, b)

\* buffer_count counts exactly the live buffers and never passes
\* max_buffers, however forks, readahead and eviction interleave.
PoolBound ==
    /\ cache.nbuf = Cardinality({b \in Bufs : cache.state[b] # FREED})
    /\ cache.nbuf <= MaxBuffers

\* A step never changes the data of a buffer that is dirty for a delta other
\* than the frontend's: that buffer belongs to the backend's flush.
NoWriteToStableBuffer ==
    [][\A b \in Bufs :
         buffer_dirty(cache, b) /\ cache.dirtied[b] # delta
            => cache'.data[b] = cache.data[b]]_vars

\* A delta the backend has taken is eventually committed
\* (flush_list terminates and flush_delta ends).
DeltaCommits == commit_running ~> ~commit_running

\* The userland bufferfork_to_invalidate() never forks; it asserts
\* buffer_can_modify() for every hashed buffer truncate_buffers_range() may
\* meet, on the grounds (its comment) that there is no async backend.  This
\* states that claim: no hashed buffer is ever dirty for a delta other than
\* the frontend's, so a truncate at any moment would pass the assertion.
TruncateNeverForks ==
    \A b \in cache.hashed : buffer_can_modify(cache, b, delta)

=============================================================================
