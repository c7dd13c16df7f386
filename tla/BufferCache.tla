---------------------------- MODULE BufferCache ----------------------------
(***************************************************************************)
(* The userland buffer cache of tux3 (src/buffer.c, src/buffer_fork.c).    *)
(*                                                                         *)
(* The cache is one record c so that the calls of a handler compose the    *)
(* way they do in C (blockget; blockdirty; blockput):                      *)
(*   c.state[b]   buffer->state: FREED, EMPTY, CLEAN, or DIRTY + delta % 2 *)
(*   c.count[b]   buffer->count                                            *)
(*   c.index[b]   buffer->index                                            *)
(*   c.data[b]    buffer->data, abstracted to the set of write tags that   *)
(*                make up the block ({} is a zero block)                   *)
(*   c.hashed     the buffers linked on map->hash (one map: the file)      *)
(*   c.lru        lru_buffers, oldest first                                *)
(*   c.freed      buffers[BUFFER_FREED], the free list, oldest first       *)
(*   c.nbuf       buffer_count                                             *)
(*   c.dirtied[b] ghost: the full delta number the buffer was dirtied for  *)
(* An operator that may fail returns [c |-> cache, buf |-> b or NoBuf].    *)
(***************************************************************************)
EXTENDS Naturals, Sequences, SequencesExt, FiniteSets

CONSTANTS
    Bufs,        \* buffer heads: the preallocated pool plus spare malloc slots
    Prealloc,    \* the heads preallocate_buffers() puts on the free list
    MaxBuffers,  \* max_buffers
    MaxEvict,    \* max_evict (0: new_buffer evicts every reclaimable buffer)
    Idx,         \* block indices of the file
    NoBuf        \* NULL / ERR_PTR(-ENOMEM)

ASSUME Prealloc \subseteq Bufs /\ Cardinality(Prealloc) = MaxBuffers
ASSUME NoBuf \notin Bufs

\* enum { BUFFER_FREED, BUFFER_EMPTY, BUFFER_CLEAN, BUFFER_DIRTY, ... }
FREED == 0
EMPTY == 1
CLEAN == 2
DIRTY == 3
BUFFER_DIRTY_STATES == 2
BufferStates == 0 .. (DIRTY + BUFFER_DIRTY_STATES - 1)

\* tux3_bufsta_delta / has_delta / get_delta (kernel/tux3_fork.h helpers)
BufSta(delta) == DIRTY + (delta % BUFFER_DIRTY_STATES)
HasDelta(s) == s >= DIRTY
buffer_dirty(c, b) == HasDelta(c.state[b])

\* buffer_already_dirty(): dirtied for the same delta, compared modulo 2
buffer_already_dirty(c, b, delta) ==
    HasDelta(c.state[b]) /\ c.state[b] = BufSta(delta)

\* buffer_can_modify(): clean, empty or dirtied for the same delta
buffer_can_modify(c, b, delta) ==
    ~HasDelta(c.state[b]) \/ c.state[b] = BufSta(delta)

\* The buffers of the file's dirty list for delta (tux3_dirty_buffers()).
DirtyList(c, delta) == {b \in Bufs : c.state[b] = BufSta(delta)}

\* Hash bucket walk: the hashed buffers of index i.
Lookup(c, i) == {b \in c.hashed : c.index[b] = i}

get_bh(c, b) == [c EXCEPT !.count[b] = @ + 1]

\* free_buffer(): back on the free list, buffer_count--.
free_buffer(c, b) ==
    [c EXCEPT !.state[b] = FREED, !.freed = Append(@, b), !.nbuf = @ - 1]

\* blockput(): drop a reference, free the buffer when it was the last one.
blockput(c, b) ==
    IF c.count[b] = 1
    THEN free_buffer([c EXCEPT !.count[b] = 0], b)
    ELSE [c EXCEPT !.count[b] = @ - 1]

\* insert_buffer_hash(): the hash link holds a reference; LRU tail.
insert_buffer_hash(c, b) ==
    [c EXCEPT !.count[b] = @ + 1, !.hashed = @ \cup {b},
              !.lru = Append(@, b)]

\* remove_buffer_hash(): unlink from LRU and hash, put the hash reference.
remove_buffer_hash(c, b) ==
    blockput([c EXCEPT !.lru = Remove(@, b), !.hashed = @ \ {b}], b)

\* Mutant: reclaim_buffer() without the !buffer_dirty() test.
reclaimable_anystate(c, b) ==
    c.count[b] = 1 /\ b \in c.hashed

\* reclaim_buffer(): only the hash holds it and it is not dirty.
reclaimable(c, b) ==
    c.count[b] = 1 /\ ~buffer_dirty(c, b) /\ b \in c.hashed

reclaim_buffer(c, b) ==
    IF reclaimable(c, b) THEN remove_buffer_hash(c, b) ELSE c

\* new_buffer() eviction loop over lru_buffers: stop once ++count == max_evict.
RECURSIVE EvictLRU(_, _, _)
EvictLRU(c, victims, n) ==
    IF victims = <<>> THEN c
    ELSE LET v == Head(victims) IN
         IF ~reclaimable(c, v) THEN EvictLRU(c, Tail(victims), n)
         ELSE IF n + 1 = MaxEvict THEN reclaim_buffer(c, v)
         ELSE EvictLRU(reclaim_buffer(c, v), Tail(victims), n + 1)

\* Buffer heads never malloc'ed (not live and not on the free list).
Unallocated(c) == {b \in Bufs : c.state[b] = FREED /\ ~Contains(c.freed, b)}

\* have_buffer: count = 1, set_buffer_empty(), buffer_count++.
HaveBuffer(c, b) ==
    [c |-> [c EXCEPT !.count[b] = 1, !.state[b] = EMPTY,
                     !.freed = Remove(@, b), !.nbuf = @ + 1],
     buf |-> b]

\* Mutant: the pool-full test of new_buffer() written with ">".
ExpandPool_gt(c) ==
    IF c.nbuf > MaxBuffers \/ Unallocated(c) = {}
    THEN [c |-> c, buf |-> NoBuf]
    ELSE HaveBuffer(c, CHOOSE b \in Unallocated(c) : TRUE)

\* "expand buffer pool": -ENOMEM at max_buffers, else malloc (which fails
\* when no head is left).
ExpandPool(c) ==
    IF c.nbuf = MaxBuffers \/ Unallocated(c) = {}
    THEN [c |-> c, buf |-> NoBuf]
    ELSE HaveBuffer(c, CHOOSE b \in Unallocated(c) : TRUE)

\* After the eviction loop: retry the free list, else expand the pool.
RetryFreed(c) ==
    IF c.freed # <<>> THEN HaveBuffer(c, Head(c.freed)) ELSE ExpandPool(c)

\* new_buffer(): take the free list head; when the pool is full evict from
\* the LRU and retry the free list; then expand the pool.
new_buffer(c) ==
    IF c.freed # <<>> THEN HaveBuffer(c, Head(c.freed))
    ELSE IF c.nbuf >= MaxBuffers THEN RetryFreed(EvictLRU(c, c.lru, 0))
    ELSE ExpandPool(c)

\* peekblk(): hash lookup, takes a reference, LRU untouched.
peekblk(c, i) ==
    IF Lookup(c, i) = {} THEN [c |-> c, buf |-> NoBuf]
    ELSE LET b == CHOOSE b \in Lookup(c, i) : TRUE
         IN [c |-> get_bh(c, b), buf |-> b]

\* The miss path of blockget(): a new buffer n for index i goes on the hash.
HashNew(n, i) ==
    IF n.buf = NoBuf THEN n
    ELSE [c |-> insert_buffer_hash([n.c EXCEPT !.index[n.buf] = i], n.buf),
          buf |-> n.buf]

\* blockget(): hit moves to the LRU tail; miss makes a hashed EMPTY buffer.
blockget(c, i) ==
    IF Lookup(c, i) # {}
    THEN LET b == CHOOSE b \in Lookup(c, i) : TRUE
         IN [c |-> get_bh([c EXCEPT !.lru = Append(Remove(@, b), b)], b),
             buf |-> b]
    ELSE HashNew(new_buffer(c), i)
\* Mutant: the dirty state written without masking the delta.
tux3_mark_buffer_dirty_nomask(c, b, delta) ==
    IF buffer_already_dirty(c, b, delta) THEN c
    ELSE [c EXCEPT !.state[b] = DIRTY + delta, !.dirtied[b] = delta]

\* __tux3_mark_buffer_dirty() (kernel side, not in src/): put the buffer on
\* the dirty list of delta unless it is already dirty for it.
tux3_mark_buffer_dirty(c, b, delta) ==
    IF buffer_already_dirty(c, b, delta) THEN c
    ELSE [c EXCEPT !.state[b] = BufSta(delta), !.dirtied[b] = delta]

\* The fork of blockdirty() into the new buffer n: copy data and index,
\* the clone takes the old buffer's hash slot and is marked dirty.
ForkTo(n, b, newdelta) ==
    IF n.buf = NoBuf THEN n
    ELSE LET cl == n.buf
             c1 == [n.c EXCEPT !.data[cl] = n.c.data[b],
                               !.index[cl] = n.c.index[b]]
         IN [c |-> tux3_mark_buffer_dirty(
                      insert_buffer_hash(remove_buffer_hash(c1, b), cl),
                      cl, newdelta),
             buf |-> cl]

\* Mutant: blockdirty() that never forks and redirties in place.
blockdirty_nofork(c, b, newdelta) ==
    [c |-> tux3_mark_buffer_dirty(c, b, newdelta), buf |-> b]

\* blockdirty(): a buffer dirty for another delta is owned by the backend,
\* so it is forked: the clone takes its data, index and hash slot, and the
\* caller's reference on the old buffer passes to the backend.
blockdirty(c, b, newdelta) ==
    IF buffer_dirty(c, b) /\ buffer_already_dirty(c, b, newdelta)
    THEN [c |-> c, buf |-> b]
    ELSE IF ~buffer_dirty(c, b)
    THEN [c |-> tux3_mark_buffer_dirty(c, b, newdelta), buf |-> b]
    ELSE ForkTo(new_buffer(c), b, newdelta)

\* Mutant: write completion that forgets to unpin a forked buffer.
clear_buffer_dirty_for_endio_noput(c, b) == [c EXCEPT !.state[b] = CLEAN]

\* clear_buffer_dirty_for_endio(err = 0): clean; a forked (unhashed) buffer
\* drops the reference blockdirty() left to the backend and is freed.
clear_buffer_dirty_for_endio(c, b) ==
    LET c1 == [c EXCEPT !.state[b] = CLEAN]
    IN IF b \notin c.hashed THEN blockput(c1, b) ELSE c1
=============================================================================
