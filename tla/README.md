# TLA+ models of tux3-fuse

These modules model the tux3 copy-on-write file system engine in `src/`.

## 1. The system: parts, state, operations and interactions

tux3 commits changes in **deltas**. The *frontend* runs file operations inside a change window. It dirties buffers for the current delta. The *backend* takes a closed delta and writes its dirty buffers, log blocks and superblock. Buffers of the closed delta are stable. A frontend write to one of them *forks* it: the frontend gets a copy and the backend keeps the original.

| Part | Source | State it keeps | Operations |
|---|---|---|---|
| Buffer cache | `buffer.c`, `buffer.h` | per buffer `state` (FREED, EMPTY, CLEAN, DIRTY+delta%2), `count`, `index`, `data`; hash buckets; `lru_buffers`; per-state lists (FREED is the free list); `buffer_count`, `max_buffers`, `max_evict` | `new_buffer` (free list, then LRU eviction, then `-ENOMEM`), `blockget`, `peekblk`, `blockread`, `blockput`, `insert/remove_buffer_hash`, `reclaim_buffer`, `truncate_buffers_range`, `invalidate_buffers`, state setters, `clear_buffer_dirty_for_endio` |
| Block fork | `buffer_fork.c` | none of its own | `blockdirty` (fork if dirty for another delta), `bufferfork_to_invalidate` (an assertion only) |
| Buffer writeback | `buffer_writeback.c` | a `bufvec` per flush: candidate list, contiguous run, I/O list | `flush_list` (sort by index, `bufvec_contig_collect`, `map->io(WRITE)`), cancel of blocks outside `i_size`, `bufvec_io` |
| File data I/O | `filemap.c` | the inode's `i_size`, file position | `tuxread`/`tuxwrite` via `tuxio`'s block loop, `guess_readahead`, `filemap_extent_io`, the read/hole/clean/write completions |
| Delta flusher | `kernel/commit_flusher_hack.c`, `writeback.c` | `sb->marshal_delta`, `backend_state` bits COMMIT_RUNNING and COMMIT_PENDING | `try_delta_transition_until_delta`, `tux3_wb_writeback` → `flush_delta`; periodic flush; `sync_super` → `force_delta` (userland) |
| Inode attribute fork | `kernel/writeback_iattrfork.c` | per inode attribute delta plus a per-delta copy (`idata`) | `tux3_iattrdirty` (frontend), `tux3_iattr_read_and_clear` (backend) |
| Log, stash, deferred free | `kernel/log.c` | `logbuf`, `logpos`/`logtop`, `lognext`, `logchain`, `logcount`; stash pages; `defree`/`deunify` | `log_begin`/`log_finish`/`log_next`, record writers, `tux3_logmap_io`, `stash_value`, `unstash`, `stash_walk`, `defer_bfree` |
| B+tree | `kernel/btree.c` | bnodes of (key, block) entries, root and depth, cursor path | probe, traverse, `cursor_redirect`, `insert_leaf` and `bnode_split`, `btree_chop` and merges, `btree_write`/`read`, replay |
| Data leaf / inode leaf | `kernel/dleaf2.c`, `kernel/ileaf.c` | leaf layout | split, merge, chop, write, read, lookup, find_free |
| Inode cache | `inode.c`, `writeback.c` | inode hash, `i_count`, `i_state` (I_NEW, I_BAD, I_FREEING, I_DIRTY), the delta's dirty inode list | `iget5_locked`, `ilookup5`, `insert_inode_locked4`, `__iget`/`ihold`/`iput`, `iget_failed`, `mark_inode_dirty`, `inode_leak_check`, `tuxtruncate` |
| Device I/O, compression, kernel shims | `diskio.c`, `utility.c`, `compression.c`, `libklib/` | none that matters | pread/pwrite loops, LZO strides, nlink helpers |

**How they interact.**
1. A `tuxwrite` takes a buffer per block from the cache (`blockget`, or `blockread` for a partial block).
2. It calls `blockdirty` for the frontend delta, which may fork.
3. It copies the data in and releases the buffer.
4. When the write ends, it grows `i_size`.
5. The flusher wins COMMIT_RUNNING and moves the frontend to the next delta.
6. `flush_delta` calls `flush_list` on the closed delta's dirty list. Each completion marks a buffer clean; a forked buffer is also released, and so freed.
7. Meanwhile the frontend keeps writing into the new delta.

In the userland build, `sync_super` performs steps 5 and 6 at once between calls.

**The hard behaviours.**
- The frontend and the flusher interleave over the same block (the fork).
- The dirty state keeps the delta only modulo 2.
- The buffer pool is bounded: eviction, `-ENOMEM` midway through a fork, a readahead or a multi-block write.
- Reference counts pass between frontend and backend.
- The flush uses the `i_size` of its own delta.
- Every delta the flusher starts must end.
- The log splits deferred frees into 16-bit counts and chains its blocks in reverse.
- B-tree redirect, split and merge must keep parents consistent.

**What makes each part correct.**
- Cache: every reader sees the last write; references balance; the pool bound holds.
- Fork: a stable buffer is never modified, and commits contain exactly their delta.
- Writeback: every dirty block of the delta inside `i_size` is written, and the flush terminates.
- Iattr fork: the backend sees the attributes as of its delta.
- Log: the records encode the frees exactly, and the chain reaches every log block.
- B-tree: keys stay ordered and separators stay consistent with children.

## 2. Plan

Modules, with the most important behaviour first:

1. **BufferCache** + **TuxFile** (done): the cache, the fork, readahead, the tuxio loops, flush_list, and both commit drivers (async flusher, sync userland).
2. **DeltaAbstract** + **DeltaCommit** (done): change windows of several writers against the writeback worker, COMMIT_RUNNING/PENDING, the static delta refs, fsync, the periodic and background flushes; DeltaCommit refines DeltaAbstract.
3. **IattrFork** (done): `tux3_iattrdirty` vs `tux3_iattr_read_and_clear`. This justifies TuxFile's `snap_size` for serialised changes. It also shows the unlocked timestamp race named by the FIXME.
4. **Log** (done): `log_begin` boundaries, the `tux3_logmap_io` chain and count, stash/unstash, and `defer_bfree`'s split. The check is replay from the durable superblock after a crash at any point.
5. **BTree** (done): redirect, insert with bnode split and new root, chop with leaf and bnode merges and root drop, over abstract leaves, with the delta commit and unify that free what a redirect defers.
6. **ILeaf** + **ITable** (done): the inode leaf's resize, split, merge, chop, lookup and find_free as operators, driven by `btree_write`'s loop, `btree_leaf_split` and `btree_chop` over a one-level index; ILeaf refines ITable. **DLeaf2** + **DMap** (done): the data leaf's extents under the same engine; DLeaf2 refines DMap.
7. **InodeCache** (done, without `tuxtruncate`): hash, refcount, `-EBUSY`, dirty pinning, the commit's clear of dirty inodes.

Abstract specs worth stating:
- "DeltaAbstract" (done): what the delta engine promises.
- "AtomicFile", a file whose committed image moves from one delta's snapshot to the next. TuxFile refines it, with `durable` mapped to the abstract image.
- "ITable" (done): the inode btree as a map from inode number to attribute size, with write and chop.
- "DMap" (done): the data btree as a map from logical to physical block, with write and chop.

## 3. Modules

### BufferCache.tla
These are pure operators over one record `c`, so that a handler's calls compose the way they do in C:

| Field | Meaning |
|---|---|
| `state` | as in `buffer.h` |
| `count` | the reference count |
| `index` | the block index |
| `data` | the set of write tags the block holds; `{}` is a zero block |
| `hashed` | the buffers on the hash |
| `lru` | the LRU list |
| `freed` | the free list |
| `nbuf` | `buffer_count` |
| `dirtied` | a ghost: the full delta number |

Operations return `[c, buf]` when they can fail:
- `new_buffer` translates the three stages of the C function, including the `++count == max_evict` stop and the malloc path. The pool is the preallocated heads plus one spare head, which only a bug can use.
- `blockdirty` forks exactly as `buffer_fork.c` does: new clone, copy, `remove_buffer_hash(old)`, `insert_buffer_hash(clone)`, mark dirty. The caller's reference passes to the backend.
- `clear_buffer_dirty_for_endio` releases a forked buffer.

### TuxFile.tla (EXTENDS BufferCache)
Variables:

| Variable | Meaning |
|---|---|
| `cache` | the buffer cache |
| `disk` | the block contents that reads through `map_region` see |
| `durable` | the last committed image |
| `isize` | the file size |
| `view` | ghost: the file's current contents |
| `delta` | the frontend delta |
| `marshal_delta` | the backend delta |
| `commit_running` | TUX3_COMMIT_RUNNING_BIT |
| `snap_size`, `snap_view` | ghost: the file when the backend's delta closed |

Actions:
- `Write(pos, len, v)`: `tuxwrite`. This is the whole `tuxio` loop. Each block does blockget or blockread, then blockdirty, copy, blockput. A failure ends the loop. `i_size` then grows to the last position written.
- `Read(pos, len)`: `tuxread`. Each block does blockread (with `guess_readahead` and the completions), then blockput.
- `Transition`: `try_delta_transition_until_delta` with `delta_transition`.
- `FlushStep`: one pass of `flush_list` (sort, collect a run, cancel blocks outside `i_size`, write, complete).
- `FlushDone`: the end of `flush_delta`.
- `SyncCommit`: `sync_super`/`force_delta`, all of the above in one step, userland only.

The constant `AsyncBackend` selects the driver.

### DeltaAbstract.tla
What the delta engine promises, with no slots, bits or worker loop. Variables: the frontend `delta`, `marshal`, a `phase` (`idle`, `drain`, `flush`), `held[w]` (the delta of writer w's open change window), `dirty_in` (deltas with ended, uncommitted changes), and per fsync caller `sync` and `need`.
- `Begin(w)` joins the frontend delta, or the marshalled one while it drains.
- `ATransition` moves the frontend on; `StartFlush` requires that no window holds the marshalled delta; `Commit` removes it from `dirty_in`.
- `Complete(s)` returns an fsync only when every delta it needed is committed.

### DeltaCommit.tla
The engine under the asynchronous flusher of `src/kernel/commit_flusher_hack.c`, kernel >= 3.10 (the delayed work item). `delta_get`, `delta_put`, `delta_transition`, `change_end` and `flush_delta` are in `commit.c`, which is not in `src/`; they are modelled from the specification (§4.7, §5) and marked so in the map.

| Variable | Meaning |
|---|---|
| `cur`, `slot_delta`, `slot_ref` | `sb->current_delta` and the two static `delta_refs` |
| `marshal_delta`, `running`, `pending` | `sb->marshal_delta`, COMMIT_RUNNING, COMMIT_PENDING |
| `wpc`, `wslot`, `wdelta` | each writer: idle, pointer read, window open; its delta_ref and delta |
| `fpc`, `fret`, `fwork`, `fdelta`, `wrote` | the worker: its position, the caller `tux3_wb_writeback` returns to, the work item, the delta it read, `wrote != 0` |
| `queued`, `work_list` | `wb->dwork` queued; `bdi->work_list` |
| `sync`, `need`, `dirty_in` | fsync callers; ghosts for what a sync needs and what is dirty |

Actions:
- Writers: `delta_get_ptr` (rcu_dereference), `delta_get_inc` (`atomic_inc_not_zero`, retry on zero), `change_end` (dirty, wake the flusher if nothing was dirty, `delta_put`).
- `sync_current_delta`: queue a work item with a completion and wait.
- Worker: `tux3_writeback_workfn`; `do_writeback_work`/`do_writeback_nowork` (the work loop); `OldNotExpired`, `OldNothingOld`, `OldFlush` (the three outcomes of `tux3_wb_check_old_data_flush`); `tux3_wb_check_background_flush`; `workfn_loop` (the `do ... while` and the requeue).
- `tux3_wb_writeback`: `wb_get_delta`, `try_delta_transition_until_delta` (with `delta_transition`), `wb_wait_pending`, `flush_delta`, `wb_return`.

Delta counters wrap modulo `DeltaMod`, and `delta_after_eq` compares them by the sign of the difference. Compared as plain integers (`delta_after_eq_nowrap`), an fsync issued after the counter wraps waits forever, which breaks `SyncCompletes` and `DirtyCommitted`; `DeltaRefinement` and `SlotRefsExact` do not notice it.

### IattrFork.tla
The attribute fork of `src/kernel/writeback_iattrfork.c` for one inode. The delta cycle around it is DeltaAbstract's: windows open on the frontend delta, and one delta drains and is flushed at a time.

| Variable | Meaning |
|---|---|
| `is_reg` | `S_ISREG(i_mode)`, chosen in Init |
| `attrs` | the live `i_size` and `i_mtime`, which stand for all of `idata` |
| `ista` | the iattr bits of `tuxnode->flags`: 0 is clean, otherwise 1 + delta % 2 |
| `ddc` | `ddc[0..1].idata`: `present` and the copied attributes |
| `delta`, `marshal`, `bphase` | the frontend delta, the marshalled delta, and the backend (idle or draining) |
| `wpc`, `wdelta`, `wop`, `wval`, `i_mutex` | each task's window, with its delta, operation and value; the holder of `i_mutex` |
| `dirtied`, `frozen`, `committed` | ghosts: the deltas the inode is dirty for, the attributes as the marshalled delta leaves them, and what the backend read |

Actions:
- `change_begin`: takes `i_mutex` unless the operation is a timestamp update.
- `tux3_iattrdirty`: the unlocked early return is folded into the locked test that repeats it. Then the copy to slot `old_delta`, then the state update.
- `change_attr`: the unlocked store of `tuxio` (`i_mtime`) or of a size change.
- `change_end`.
- `Transition`.
- `tux3_iattr_read_and_clear`: the backend's read for a delta the inode is dirty for, once that delta's windows have drained.

The operations are:
- `setsize` (under `i_mutex`);
- `touch` (`file_update_time` without `i_mutex`);
- `data` (data only, no attribute change; a regular file only, as lines 81-85 say).

### Log.tla
The backend's log writer and the deferred-free stashes of `src/kernel/log.c`, inside the delta and unify cycle. That cycle is `commit.c`, which is not in `src/`, so it follows spec §4.7-4.8 and is marked spec_modelled.

| Variable | Meaning |
|---|---|
| `lw` | `logbuf`, `logpos`, `logtop` and `lognext` (NULL is 0), and the logmap blocks' records and `bytes` |
| `super_logchain`, `super_logcount` | `sb->super` in memory |
| `disk`, `durable_chain`, `durable_count` | the device blocks (records, `bytes`, `logchain`) and the superblock last written |
| `freeblks` | the allocator's free blocks |
| `deunify`, `defree` | the stashes, as lists of pages of `(count, block)` values |
| `bphase`, `io_idx`, `io_count` | the backend: logging or in `tux3_logmap_io`, and the loop's position |
| `stream`, `durable_stream` | ghosts: the records of the unify cycle, now and as of the last commit |

Actions:
- `LogRecord(k)`: one record writer (`log_balloc`, `log_leaf_free`, ...). It runs `log_begin` (which may do `log_finish` and `log_next`), stores the record, then `log_end`.
- `Unify`: at the start of a delta.
  1. Log the `UNIFY` record.
  2. `stash_walk(deunify)` re-logs each value as `BFREE_RELOG`.
  3. `unstash(deunify)` moves the values to `defree`.
  4. The in-memory chain and count restart.
- `Stage`: `log_finish`, then hand the logmap's blocks to `tux3_logmap_io`.
- `tux3_logmap_io`: one pass of its loop.
  1. `balloc_partial` returns a segment: the lowest free block and the free run from it (balloc.c is not in `src/`).
  2. The segment's blocks are chained and written.
  3. `defer_bfree(deunify)` is called, with its error ignored.
  4. `logcount` grows.
- `Commit`: write the superblock, `log_finish_cycle`, then `unstash(defree)` into the allocator.

`ReplayRecovers` walks `durable_count` blocks back from `durable_chain`. For each block it decodes records until the recorded `bytes`. Past the stored records it reads the zeroed tail as junk. The result must equal `durable_stream`.

### ITable.tla
The abstract inode table: a function from each inode number to the size of its attribute record (0 = no inode). `Write(inum, size)` replaces one record; `Chop(start, len)` empties `[start, start+len)`. This is the B+tree round-trip law of spec.md, stated for the inode btree.

### ILeaf.tla
The inode btree: `kernel/ileaf.c` as operators over leaf records, and the parts of `kernel/btree.c` that drive them.

| Variable | Meaning |
|---|---|
| `leaves` | the leaf level, in key order: each element is the index key and the leaf (`ibase`, the attribute `table` bytes, the `dict` of cumulative end offsets, each modulo 2^16 as `__be16`) |
| `wr` | a `btree_write` in progress (inode number and new size), or `NoReq` |

Attribute bytes are abstracted to the inode number repeated `size` times, so `btree_read` tells one record from another and a byte misplaced by a resize or chop shows. The bnode levels above the leaves are one sequence of `(key, leaf)`; `btree_probe` is `bnode_lookup`'s "last key ≤ k" over it and `cursor_next_key` the following key.

Operators, each one C function: `atdict`, `icount`, `ileaf_need`, `ileaf_free`, `ileaf_lookup`, `isinorder`, `ileaf_trim`, `ileaf_resize` (overflow and free-space checks, dict extension, shifting later offsets), `ileaf_split_hint`, `ileaf_split` (the split point, the dest base, the dict rebased), `ileaf_merge` (as written, including its hole and adjust arithmetic), `ileaf_chop`, `ileaf_find_free`, `btree_traverse` (RECURSIVE over the leaves from a cursor).

Actions:
- `WriteBegin(inum, size)`: a caller starts `btree_write` (the callers are not in `src/`).
- `btree_write`: one pass of its loop that succeeds: `ileaf_resize` returns space and the record is stored.
- `btree_leaf_split`: the pass where resize returned NULL: the leaf splits at `ileaf_split_hint` and the new leaf is inserted with key `ibase` of the upper half; the loop then retries.
- `btree_chop(start, len)`: the whole walk in one step (RECURSIVE `ChopWalk`): each leaf from the probe is chopped with the range adjusted to its key, merged into its left neighbour when it fits, until the next key passes the limit.

`KeysOrdered` says the index keys increase, every leaf's `ibase` is its index key, and every leaf passes `ileaf_check`'s `isinorder` (the dict does not decrease). `AbsTable` maps the tree to ITable (the length of `btree_read(inum)`), and `ITableRefined` checks that `Spec` implements `ITable!Spec`. `FindFreeCorrect` compares `btree_traverse` with `ileaf_find_free` against the least inode number ≥ goal with no record. `SplitMergeInverse` is spec.md's law that a merge undoes a split, for every reachable leaf and every hint.

### DMap.tla
The abstract data btree of a file: a function from each logical block to its physical block (0 for a hole). `Write(start, segs)` maps `[start, start + total)` to the segments' blocks in order and leaves the rest; `Chop(start)` holes everything from `start` on. `dleaf2_chop` supports only `len == TUXKEY_LIMIT`, so `Chop` has no length.

### DLeaf2.tla
The data btree: `kernel/dleaf2.c` as operators over a leaf, under the same engine of `kernel/btree.c` as ILeaf.

| Variable | Meaning |
|---|---|
| `leaves` | the leaf level in key order: each element is the index key and the leaf's table of `[logical, physical]` entries, whose last entry is the sentinel |
| `wr` | the `dleaf_req` of a `btree_write` in progress: `key.start`, `key.len`, the segments, `seg_idx`, and a count of loop iterations; or `NoReq` |
| `amap` | ghost: the block map as callers last saw it, set from the tree when a write loop ends and after a chop |

Version bits are left out: the code ignores them (the FIXME at the top of `dleaf2.c`). Table indices are 0-based, as in C: entry j is `E(L, j)`.

Operators:
- `dleaf2_lookup_index`.
- `dleaf2_write`, with `init_sentinel` and the head, middle and tail overwrite (`dex_start`, `dex_end`, `between`, `need`). It also covers the whole-split request with its hint, and the partial fill with the temporary hole. Its steps that a bug could get wrong are their own operators: `EndPhysical`, `NeedSplit`, `SplitHint`, `TempHole` and `FillAdvance`.
- `dleaf2_split`.
- `dleaf2_merge`, with its `can_merge` overflow check.
- `dleaf2_chop`, with the previous-hole sentinel, the hole chop point and the new sentinel. `ChopBlock` and `ChopFree` give what it passes to `defer_bfree`.
- `dleaf2_read`, with its do-while loop `ReadLoop` and `fill_seg`.

Actions:
- `WriteBegin(start, segs)`: a caller starts `btree_write`. `seg_alloc` returns every block asked for. With `OneLeafWrites` the range stays inside the leaf holding `start`: `btree_write` serves one leaf, per its FIXME.
- `btree_write`: the loop iteration in which `dleaf2_write` needs no split; the write loop ends.
- `btree_leaf_split`: an iteration in which `dleaf2_write` asks for a split. What it wrote stays, the leaf splits at the hint and the new leaf is inserted; the loop continues with the request as `dleaf2_write` left it. It is guarded by the asserts of `dleaf2_split` and `btree_leaf_split` (`SplitAsserts`).
- `btree_chop(start)`: the whole leaf walk in one step (it runs under `btree->lock`), chopping each leaf and merging it into the previous one when it fits.

What a chop passes to `defer_bfree` is checked at the step (`ChopDefersMapped`). The `sb->defree` stash itself is modelled in Log, and nothing in the btree reads it.

`TreeMap` reads the map out of the tree as `btree_probe` and the entry lookup would. `DMapRefined` checks `Spec` against `DMap!Spec` with `dmap <- amap`. `WriteDoesRequest` pins each finished write to the caller's own request. `ReadBack` compares every `btree_read` with the map. `LeafFormat` is what `dleaf2_sniff` and the asserts assume of a leaf. `SplitAssertsHold` says no write reaches a split whose assert fails. `WriteLoopBounded` is the termination argument (see Fairness in DLeaf2).

### MCDLeaf2.tla
Instantiates DLeaf2 with a 5-block file and the segment sets of its two passing configurations.

### BTree.tla
The index levels of `btree.c`, which ILeaf and DLeaf2 flatten into one sorted sequence. A leaf is abstracted to the set of keys it maps (its layout is ILeaf's and DLeaf2's concern); a bnode is the sequence of its `(key, block)` entries, and every block of the volume is a leaf or a bnode. The state is one record `bt`, so that each operation is an operator from state to state, with a cursor `[s, path]` whose `path` is the list of `(block, next)` levels that `cursor_push`/`cursor_pop` keep.

| Variable | Meaning |
|---|---|
| `bt.blk`, `bt.free` | block contents and the allocator's free blocks (`new_block` takes the least) |
| `bt.root` | `btree->root`: block and depth |
| `bt.dirty`, `bt.unify` | leaves dirty in this delta (`leaf_need_redirect`), bnodes dirty in this unify (`bnode_need_redirect`) |
| `bt.defree`, `bt.deunify` | `sb->defree` and `sb->deunify` |
| `bt.rep` | the bnode log of the unify cycle, kept as the image its replay rebuilds (`img`: block to entries) `got`, the blocks whose buffers the replay itself filled, and `ok`, FALSE once a replay assert would fire |
| `cimage`, `uimage` | ghosts: the leaves as the last delta commit wrote them, the bnodes as the last unify wrote them |
| `delta` | delta commits so far, bounded by `MaxDelta` |

Actions:
- `Write(key)`: `btree_write` for one key, whole: `btree_probe`, `cursor_redirect` of the path, `leaf_write`; if the leaf is full, `btree_leaf_split` (a new leaf, `insert_leaf`, which adds the entry to the parent if `bcount < entries_per_node` and otherwise splits the bnode with `child_is_left` choosing the half the cursor stays on, up to `new_root`), then the retry. `btree_write` returns a set of outcomes, because `new_block` may find the volume full: `-ENOSPC` from the redirect or the leaf split leaves the tree as it was at that point; from `new_node` inside `insert_leaf` it is allowed only with `InsertCanFail`.
- `Chop(start, len)`: `btree_chop`, whole: the leaf loop (`cursor_redirect`, `leaf_chop` with the range adjusted to the leaf, `try_leaf_merge` into the previous leaf and `remove_index`, which runs `adjust_parent_sep` when the first entry of a bnode goes), then `pop_levels` with `try_bnode_merge` of finished bnodes, `cursor_advance_down` back to a leaf, and finally `chop_root`, which drops root levels with one entry. Merged blocks are freed with `bfree` at once, as the code does (they are known redirected).
- `DeltaCommit(unify)`: the commit in `commit.c` (not under `src/`, modelled from §4.7 of the specification): `defree` goes back to the allocator and `dirty` is cleared; a unify first moves `deunify` to the allocator and clears `unify`.

The bnode log: every change of a bnode writes its record as the code does (`log_bnode_redirect` and `log_bnode_update` in `cursor_redirect`, `log_bnode_add`, `log_bnode_split` and `log_bnode_root` in `insert_leaf`, `log_bnode_adjust` in `adjust_parent_sep`, `log_bnode_merge` in `try_bnode_merge`). `remove_index` does not log: it collects the key of the first removed entry and a count in the chop cursor's `cii[level]`, and the pop of that level writes one `log_bnode_del(start, count)` before trying the merge. Replay (`replay_bnode_*`) runs the records in log order from the bnodes of the last unify, so the model applies each record to `bt.rep` when it is written, and a unify restarts `bt.rep` from the bnodes it writes. The lookups of `add_func`, `update_func`, `del_func` and `adjust_func` are `bnode_lookup`, and their key asserts, the merge's fit assert and a record naming a block the replay has not filled set `ok` to FALSE. The change, split and merge records `vol_getblk` their blocks without reading them ("replay should already dirty the buffer"), so they must name a block that an earlier replayed redirect, root or split filled (`bt.rep.got`); only a redirect reads a block of the unify image.

Each call is one step: the caller holds `btree->lock`, and the backend that commits is the thread running the call.

`TreeWellFormed` says the tree reached from the root has the same depth everywhere, no bnode holds more than `entries_per_node` entries, the first key of each bnode is its lower bound, keys increase and stay below the parent's next separator, every leaf key lies in its range, and the blocks counted from `bcount` are exactly the reachable ones (no block is shared). It also catches a cursor left on the wrong half after a leaf split: `btree_leaf_split_keepswap`, which keeps the left half when `key = newkey`, writes the key below its separator and breaks it in 7 states. `BlocksAccounted` says every block is in exactly one of: free, reachable, `defree`, `deunify`. `CowImageKept` says no block of the last committed leaves or unified bnodes has been changed or freed: copy-on-write must reach every block on the path before a change, and a block freed by a redirect must wait for the commit that makes its clone durable (a leaf) or for the unify (a bnode). `ReplayRebuildsBnodes` is §5's claim for tree records: replaying the bnode records since the last unify over that unify's bnodes rebuilds every bnode of the tree in memory, and no replay assert fires. A delta commit makes the records durable but not the bnodes, so this is what a mount recovers after a crash at any commit.

### MCBTree.tla
8 blocks, keys 0..2, leaves of one key, bnodes of two entries, chops of 1, 2 and 4 keys.

### MCTuxFile.tla
This module gives TLC the model values: buffer heads `b1..b3`, data tags `v1, v2`, a two-block file.

### InodeCache.tla
The userland inode cache of `inode.c`, with `__mark_inode_dirty` and `clear_inode` of `writeback.c`.

State:
- `ic`, one record: `alloc` (the `struct tux3_inode`s malloc has handed out), `inum`, `count` (`i_count`), `state` (`i_state`), `hash` (the hash chain, head first), and `ok`, which a failed `assert()` sets to FALSE.
- `held[o]`: the references the callers hold on inode `o`.

All inums share one chain: `test()` compares the inum, so the bucket `hash()` picks does not change what a lookup returns. Only the order within the chain matters, and `hlist_add_head` is kept.

Each C function is an operator from cache to cache, composed as the C calls compose: `insert_inode_hash`, `remove_inode_hash`, `new_inode`, `free_inode`, `make_bad_inode`, `unlock_new_inode`, `iget_failed`, `__iget`, `ihold`, `find_inode`, `iget5_locked`, `insert_inode_locked4` (RECURSIVE for its rescan), `iput`, `clear_inode`, `mark_inode_dirty` and `generic_drop_inode`.

The callers are in `kernel/inode.c` and `kernel/writeback.c`, which are not in the tree. They are modelled from §4.6 of the specification and the comments of `inode.c`:
- `tux3_drop_inode`: a good, dirty inode stays on the dirty list; otherwise `generic_drop_inode`;
- `tux3_evict_inode`: `clear_inode`;
- `clear_dirty_inode`: `iget_if_dirty`, clear the dirty state, `iput`.

Actions, one per call of a caller; userland is single-threaded, so the calls of different callers interleave in every order:
- `Iget(i, o, readOK)`: `tux3_iget`. It runs `iget5_locked`; `o` is the memory `new_inode` gets, or NULL when malloc fails. A new inode is read from the inode table: on success it is unlocked, on failure `iget_failed` runs.
- `Ilookup(i)`: `ilookup5`, with its userland assertion.
- `Create(i, o)`: `tux_create_inode`. It runs `new_inode` and then `insert_inode_locked4`. On success the inode is dirtied and unlocked; on `-EBUSY` it is made bad and put.
- `Ihold(o)`, `Iput(o)` and `MarkInodeDirty(o)`, by a caller that holds `o`.
- `ClearDirtyInodes`: the commit's `tux3_clear_dirty_inodes`, over every dirty inode.
- `inode_leak_check`: the unmount's check, once nothing is held and nothing is dirty.

### MCInodeCache.tla
Three inode objects and inums 1..4.

## 4. Runs

| Run | Config | What it shows |
|---|---|---|
| `file_async` | `MCTuxFile_async.cfg` | Pool of 2 heads (+1 spare), MaxEvict 1, 2 blocks of 2 units, writes of 1–3 units at any offset, 2 transitions, async flusher. Checks TypeOK, ReadCoherent, CommitMatchesSnapshot, RefcountExact, NoWriteToStableBuffer and DeltaCommits. About 41k states. |
| `file_sync` | `MCTuxFile_sync.cfg` | The userland build: a pool of 1 head, so every access to the other block evicts or fails. Checks CommitMatchesSnapshot under the synchronous commit; `file_async` checks the cache invariants. |
| `delta_async` | `MCDeltaCommit.cfg` | Two writers, one fsync caller, 3-bit deltas. Checks SlotRefsExact, DeltaRefinement (DeltaAbstract's `ASpec`), SyncCompletes and DirtyCommitted. About 168k states. |
| `iattr_locked` | `MCIattrFork.cfg` | Two tasks under `i_mutex` (sizes and data-only writes), two values, deltas modulo 4, regular file or not. Checks TypeOK, ForkedSlotPresent (the assertion at line 151) and BackendSeesItsDelta (the header's claim). About 1.05M states. |
| `log_replay` | `MCLog.cfg` | 6 physical blocks, blocks of 22 payload bytes (two BALLOC records fill one exactly), at most 2 records and 3 log blocks per delta, a unify once `logcount` reaches 2, pages of 2 values, and a 1-bit count field, so every extent of more than one block splits. Checks TypeOK, ReplayRecovers and LogSpaceAccounted. About 240k states. |
| `ileaf_tree` | `MCILeaf.cfg` | Blocks of 26 bytes (16-byte header: two one-byte records and their dict fill a leaf), at most 2 entries per leaf, inodes 0..4, sizes 1 and 2, one-inode chops. Checks TypeOK, KeysOrdered, FindFreeCorrect, ITableRefined and WriteCompletes. About 22k states; trees of 3 and more leaves, gaps between leaves and empty leaves are reached. |
| `ileaf_split_hint` | `MCILeaf_hint.cfg` | **Violation.** With up to 4 entries per leaf, `ileaf_split_hint` rounds the split key below the leaf's `ibase`; KeysOrdered fails in 8 steps (the assertion at `btree.c:1345`). |
| `ileaf_merge` | `MCILeaf_merge.cfg` | **Violation.** SplitMergeInverse: merging the two halves of a split does not give back the leaf. |
| `dleaf2_tree` | `MCDLeaf2.cfg` | 5 logical blocks, 5 entries per leaf, segments of 1 or 2 blocks from two runs, at most 2 segments and 2 blocks per write, chops from any block. Checks TypeOK, LeafFormat, SplitAssertsHold, ReadBack, WriteLoopBounded, DMapRefined and ChopDefersMapped. About 160k states. |
| `inode_cache` | `MCInodeCache.cfg` | Callers' `iget`, `ilookup`, create, `ihold`, `iput` and `mark_inode_dirty` in every order, with malloc running out, failed inode reads, `-EBUSY` creates, delta commits and the unmount leak check. Checks TypeOK, RefcountExact, CacheSettled, OneLiveInode, NoAssertFires and DirtyStaysPinned. About 29k states. |
| `dleaf2_partial` | `MCDLeaf2_multi.cfg` | Up to 3 single-block segments from three runs: a full leaf takes part of the write, a temporary hole and a split, and the loop writes the rest. Checks WriteDoesRequest (`dleaf2_tree` checks LeafFormat). About 176k states. |
| `btree_cow` | `MCBTree.cfg` | 8 blocks, keys 0..2, one key per leaf, two entries per bnode, chops of 1, 2 and 4 keys, 2 delta commits with or without unify. Checks TreeWellFormed, BlocksAccounted, CowImageKept and ReplayRebuildsBnodes. About 128k states; depth 2 (a root split), a full volume, leaf merges, a bnode removed and the root drop are reached. |

Why these bounds are enough:
- Two blocks give a contiguous run, a gap-free multi-block write, and readahead past the first block.
- Two units per block give partial and full block writes.
- Two data tags tell a write of one delta from the next.
- A pool of 2 with a fork makes `-ENOMEM` reachable on the fork (three buffers needed) and on readahead.
- Two transitions are enough for the delta-parity alias: delta 0 and delta 2.

Why the DeltaCommit bounds are enough:
- Two writers let one window stay open while another late-joins.
- Two `delta_refs` slots are the code's own constant, and a 3-bit counter wraps within the search.
- One fsync caller is enough to serve a work item while another flush is in progress.

Why the IattrFork bounds are enough:
- Deltas modulo 4 make the two-slot state alias (d and d+2) and wrap.
- Two values tell a change of one delta from the next.
- Two tasks let a draining delta's window stay open while the next delta's window runs.

Why the Log bounds are enough:
- The 1-bit count field scales down the 16-bit one. The split loop in `defer_bfree` runs the same way whatever the width.
- These have each been confirmed reachable:
  - segments shorter than the request, from fragmented free space;
  - a delta of two log blocks;
  - an exactly full block;
  - a stash of two pages;
  - a reused block;
  - a durable chain of 3 blocks.

Why the ILeaf bounds are enough:
- A 26-byte block holds exactly two small records, so every second write splits and the free-space check in `ileaf_resize` is hit on both sides.
- Two entries per leaf keep the split hint at or above `ibase` (the passing run); four reach the rounding bug (the violation run).
- Five inodes give three leaves, so a find_free crosses leaf boundaries and gaps. Chops are of one inode (`ChopLens = {1}`, as the callers do), so in `ileaf_tree` a chop never walks past its first leaf and `ileaf_merge` is not reached; merging is examined only by the `ileaf_merge` run, which expects a violation.

Why the DLeaf2 bounds are enough:
- With 5 entries per leaf and 5 blocks, a leaf of three extents and a sentinel fills up. Each of these has been confirmed reachable:
  - whole splits;
  - splits that move nothing (the hint past the last entry);
  - chops inside an extent and at an entry after a hole;
  - a real merge when a chop walks two leaves;
  - extents of two blocks, overwritten in the middle;
  - reads that stop at `seg_max`.
- Partial fills need a write of at least three segments (the fill loop stops `rest_segs + 1` segments early). `dleaf2_partial` gives them at the price of single-block segments; one configuration with both is beyond five minutes.
- Three leaves are not reached at 5 blocks, so the walk over more than two leaves is only exercised in ILeaf.

Why the InodeCache bounds are enough:
- Three objects and four inums let malloc run out while an inum is still uncached, so `iget5_locked` returns NULL.
- Two free objects let a create collide with a cached inum, so `insert_inode_locked4` returns `-EBUSY`.
- Two references per inode let one caller put its inode while another still holds it, and `ihold` run.
- Every inode can be dirty with `i_count` 0 and then be found again by `iget`, `ilookup` and a colliding create, each of which `__iget`s it.

Why the BTree bounds are enough:
- A root split needs a full root of 2 bnodes over full leaves: with one key per leaf and two entries per bnode, three keys give depth 2 in 8 blocks, and the clones of a redirected path then fill the volume, so `-ENOSPC` from `new_block` is reached.
- Two delta commits, with and without unify, let a tree written in one delta be redirected in the next, so `defree`, `deunify` and both images are exercised.
- A merge of two bnodes that does not end in the root drop needs depth 3 and is not reached; the merge itself and the root drop are.

**Fairness in BTree.** None: every property is a safety property, and `btree_write` and `btree_chop` are single steps.

**Fairness in InodeCache.** None is assumed. Every property is a safety property. The cache has no loop that must end: `insert_inode_locked4`'s rescan is unreachable, because nothing unhashes an inode between its `__iget` and the test.

**Fairness in DLeaf2.** `btree_write` and `btree_leaf_split` are weakly fair together, for the same reason as in ILeaf. Checking `~>` under that fairness makes TLC evaluate ENABLED of these actions in every state, far beyond the time limit. Termination is therefore checked as safety:
- while a write is in progress, only its loop may step (`WriteBegin` and `btree_chop` wait for `wr = NoReq`);
- deadlock is checked, so every such state has a step;
- `WriteLoopBounded` bounds the iterations.

A run of the loop thus ends within `LoopBound + 1` steps, which under weak fairness it takes.

**Fairness in ILeaf.** `btree_write` and `btree_leaf_split` are weakly fair together: once a write has begun, the loop under `btree->lock` either stores the record or splits and retries, and waits on nothing else.

Every property has a mutant that TLC catches. The mutants are listed in `PROJECT.json`:
- reclaim without the dirty test;
- fork without copy-on-write;
- endio without the forked `blockput`;
- transition without the COMMIT_RUNNING test;
- flushing the wrong delta's list;
- `i_size >> bits` for the round-up;
- the flush started without waiting for COMMIT_PENDING;
- `atomic_inc` for `atomic_inc_not_zero` in `delta_get`;
- a work item freed instead of completed;
- the workfn requeued only for pending work, not for dirty inodes;
- the dirty state written without the delta mask;
- the iattr state stored without `tux3_delta()`;
- a clean regular file's copy made to the current slot rather than `delta - 1`;
- the backend leaving the iattr state dirty after reading from the inode;
- `log_finish` recording the length with the header included;
- `logcount` increased by the remaining count rather than by the segment;
- `defer_bfree` not advancing the block after a split;
- `ileaf_resize` whose free-space check leaves out the dict extension;
- `ileaf_resize` that moves only the resized slot's own end offset;
- `ileaf_split` that rebases the new leaf at the rounded hint whatever it is;
- `ileaf_find_free` that takes the slot at the goal as free without looking;
- `ileaf_write` that stores the record but does not consume the key range;
- the split test of `dleaf2_write` off by one (`need > entries_per_leaf + 1`);
- `dleaf2_split` without the new sentinel;
- the split hint at `dex_start` instead of the entry after it;
- `dleaf2_read` starting inside an extent without the offset;
- `btree_leaf_split` returning without splitting;
- `end_physical` without the offset of `limit` into the entry;
- the first block `dleaf2_chop` frees without the offset of `start`;
- the fill loop advancing `key.start` but not `seg_idx`;
- `find_inode` returning the match without `__iget`;
- the last `iput` freeing without `remove_inode_hash`;
- `insert_inode_locked4` hashing without scanning;
- `iget_failed` without `unlock_new_inode`;
- `tux3_drop_inode` ignoring the dirty list;
- the commit putting a dirty inode without `iget_if_dirty`;
- `child_is_left` as `next < entries + half`;
- `try_leaf_merge` without the `bfree` of the merged leaf;
- `cursor_redirect` deferring an old bnode on `defree` instead of `deunify`;
- `remove_index` recording the key of the last removed entry in `cii` instead of the first.

**Fairness in DeltaCommit.**
- The worker's steps are weakly fair: the workqueue runs a queued work item, and nothing in `tux3_wb_writeback` waits on anything but COMMIT_PENDING.
- `delta_get_inc` and `change_end` are weakly fair for each writer: a change window always ends. Opening a window is not fair: a writer may never start one.
- `OldFlush` is strongly fair. Once the interval has passed, `last_old_flush` is reset, so the next check within the interval falls through to the background flush. Only "no inode is old yet" avoids a flush, and an inode that stays dirty becomes old.

**Fairness in TuxFile.** The weak fairness is on `FlushStep` and `FlushDone` only. Once the writeback worker holds COMMIT_RUNNING, `tux3_wb_writeback` runs `flush_delta` to its end, and nothing in it waits for the frontend. No fairness is assumed for transitions or for frontend calls.

## 5. Findings

**The unlocked timestamp race.** The FIXME at `writeback_iattrfork.c:29` says timestamps are updated without `i_mutex`. With `Ops <- MCAllOps` in `MCIattrFork.cfg`, the unlocked timestamp update is included, and TLC finds BackendSeesItsDelta violated in 8 steps:
1. A timestamp change of delta d is still open at the transition.
2. A change of d+1 forks the attributes into slot d and sets the state to d+1.
3. The d change then stores `i_mtime` into the inode.
4. The backend of d reads the fork and commits d without that timestamp. The next delta carries it instead.

In the userland build `tuxio` sets `i_mtime` inside its own window, and the front end is single-threaded, so this needs the kernel's unlocked `file_update_time`. For that reason it is recorded under its hazard rather than as a run.

**Ignored -ENOMEM from defer_bfree.** `stash_value` returns -ENOMEM when `alloc_page` fails. The callers ignore it:
- `tux3_logmap_io` (`log.c:246`);
- `btree.c:765`, `btree.c:770`, `btree.c:1510`, `btree.c:1528`;
- `dleaf2.c:393`.

With `AllocCanFail = TRUE` in `MCLog.cfg`, TLC violates LogSpaceAccounted in 4 steps: a written, chained and counted log block never reaches `deunify`, so no unify frees it. The spec (§7) says resource exhaustion surfaces to the caller. It is recorded under the `log.c:246` hazard rather than as a run.

**The inode leaf split hint.** When the key being written lies past the leaf's last slot, `ileaf_split_hint` (`ileaf.c:505`) returns `key & ~(entries_per_leaf - 1)`. When that rounded key is at or below the leaf's `ibase` (a leaf whose range does not start on a multiple of `entries_per_leaf`, or is short of it), the new leaf's key falls below, or equal to, the key of the leaf being split, and the assertion at `btree.c:1345` fails. Run `ileaf_split_hint` shows it with 4 entries per leaf. With 4 KiB blocks, `entries_per_leaf` is 64, and a leaf holds fewer than 64 records once they average more than about 60 bytes.

**The inode leaf merge.** `ileaf_merge` (`ileaf.c:343`) computes the hole as `from->ibase - into->ibase + count` where it needs `- count`, and at `ileaf.c:368` adds the shift to `into`'s entries (`dict - i`) instead of `from`'s. Run `ileaf_merge` shows a merged leaf that differs from the one split.

**Disagreements outside the run set.** These five were found while modelling. Each sits outside the callers' or the build's contract, so none is a run; `PROJECT.json` records each under its hazard.
- *Truncate assertion.* `bufferfork_to_invalidate` (`buffer_fork.c:57-71`) asserts `buffer_can_modify` instead of forking, while §4.1 of the specification says truncate forks if needed. Its comment says userland has no asynchronous backend. With the flusher of `commit_flusher_hack.c`, `TruncateNeverForks` in TuxFile fails in 3 states: write, then transition.
- *Inode leaf range chop.* `ileaf_chop` (`ileaf.c:416`) subtracts the chopped bytes from every later dict entry. The entries of chopped slots before the last then wrap below the start. A chop of 2 inodes leaves dict `<1, 65535, 1>`. The callers chop one inode at a time, and so do the ILeaf runs.
- *Data leaf split hint.* When no segment fits, `dleaf2_write` (`dleaf2.c:545-551`) hints the entry after `dex_start`, else `key->start`. With 4 entries per leaf, the split then lands on the leaf's own key, and `btree.c:1345` asserts. `dleaf2_btree_init` gives at least 31 entries, and at 5 the hint is sound (`dleaf2_tree`).
- *Writes across a leaf boundary.* `btree_write` serves one leaf (its FIXME at `btree.c:1363`), and `dleaf2_write` never reads `key_limit`. Consider a 2-block write at 1 into a leaf whose next key is 2. The first leaf gets a sentinel at 3, while lookups of block 2 go to the next leaf. A read from 1 and a read from 2 then disagree. The DLeaf2 runs keep the callers' one-leaf contract (`OneLeafWrites`).
- *ENOSPC inside insert_leaf.* When `new_node` fails while `insert_leaf` grows a new root (`btree.c:1285`), it returns the error after the leaf split and the bnode split are done, and `btree_write` passes it up (the `FIXME: error handling` at `btree.c:1391`). With `InsertCanFail = TRUE` in `MCBTree.cfg`, BlocksAccounted fails in 6 steps: write 0, write 1 (a leaf split), a commit, write 0, write 2. The new leaf and the new bnode are never linked, their blocks leak, and key 1, moved to them, is lost.

## 6. Not modelled, and why

- In TuxFile, `map_region` is abstracted: every block maps, and a hole reads as zero. DLeaf2 models the dtree itself, but the two are not composed yet.
- Truncate itself is not modelled yet. `tux3_truncate` is not in `src/`, and its chop semantics need the dtree module.
- Device errors are not modelled; every completion with `err` does `assert(0)`.
- Compression, `diskio.c`, the debug and paranoia paths, and `invalidate_buffers` (test only) are left out.
- The sub-steps of one `flush_list` pass are atomic in the model: collect, I/O and completion. The userland I/O is synchronous inside that pass.
- The < 3.10 kthread variant of the flusher (`tux3_writeback_thread`) runs the same `tux3_do_writeback`, so it is not modelled separately. The bdi accounting hooks and the setup and teardown of the flusher hold no state that the engine reads.
- `tux3_wb_writeback`'s early return before replay ends (`MS_ACTIVE`) is not modelled: mount and replay are outside the model.
- `tux3_iattr_adjust_for_btree` only sets DATA_BTREE_BIT in the backend's private copy. The attributes other than `i_size` and `i_mtime` are copied the same way, so they are folded into those two.
- In Log, the following are not modelled:
  - the discard path of `log_finish_cycle`;
  - a volmap write error inside `tux3_logmap_io` (the commit abort after it is in `commit.c`);
  - unstash actors that fail;
  - `destroy_defer_bfree` (unmount);
  - the byte encodings of payloads (`encode16/32/48`);
  - records of types other than BALLOC, LEAF_FREE, UNIFY and BFREE_RELOG. They go through the same `log_begin`/`log_end` with another size.
- In ILeaf and DLeaf2 the index is one sorted sequence; the bnode levels, `cursor_redirect` and block allocation are BTree's, which abstracts the leaves to key sets. The two are not composed: a leaf of BTree holds one key, and the layout properties are checked on the flat models. `ileaf_enumerate` and the unused `ileaf_split_at` paths are left out, and a chop is a single step (it runs under `btree->lock`).
- In InodeCache, the following are not modelled:
  - `tuxtruncate` and `tux3_truncate_partial_block`: file data, TuxFile's concern, and `tux3_truncate` is not in `src/`;
  - `i_size_read`/`i_size_write` and `tux_setup_inode`: field stores and the choice of the io callback;
  - `i_nlink` and orphan inodes: there is no unlink in `src/`;
  - `I_FREEING` as a state seen by another caller. In userland an inode is I_FREEING only inside the `iput` that frees it, so `insert_inode_locked4`'s skip of I_FREEING inodes and its rescan are never taken.
- In DLeaf2:
  - partial allocation by `seg_alloc` (the `recheck` path) and its error return are not modelled;
  - version bits and the read strides (`init_stride`/`add_stride`, compression bookkeeping) are left out;
  - the bnode levels are not modelled, as in ILeaf;
  - `dleaf2_resize` is folded into the sequence splice of `dleaf2_write`.
- In BTree, the following are not modelled:
  - the record dispatch of replay (`replay.c`, not under `src/`), and the leaf and allocation records (`log_leaf_*`, `log_balloc`, `log_bnode_free`), which change no bnode; the bnode records and `replay_bnode_*` are modelled;
  - `free_empty_btree`, `show_tree` and `cursor_check` (teardown and debug);
  - `-ENOMEM` of the cursor allocation, which returns before any change;
  - the bytes of the records and their place in log blocks, which Log models.
