----------------------------- MODULE InodeCache -----------------------------
(***************************************************************************)
(* The userland inode cache of src/inode.c: the inode hash, reference     *)
(* counting (__iget, ihold, iput), iget5_locked, ilookup5,                *)
(* insert_inode_locked4 and the I_NEW / I_BAD / I_FREEING states, with    *)
(* __mark_inode_dirty and clear_inode of src/writeback.c.                 *)
(*                                                                         *)
(* The callers live in kernel/inode.c and kernel/writeback.c, which are   *)
(* not in the tree; tux3_iget, tux_create_inode, tux3_drop_inode,         *)
(* tux3_evict_inode and tux3_clear_dirty_inodes are modelled from the     *)
(* specification (section 4.6) and the comments of inode.c.               *)
(*                                                                         *)
(* The whole cache is one record so that the library functions compose   *)
(* as operators from cache to cache, as the C calls do.  Userland is      *)
(* single-threaded: each action is one call of a caller, and the callers' *)
(* calls interleave in every order.  held[o] counts the references the    *)
(* callers hold on inode object o.  A failed assert() sets ok to FALSE.   *)
(***************************************************************************)
EXTENDS Integers, Sequences, SequencesExt, FiniteSets, FiniteSetsExt

CONSTANTS
    Objs,       \* struct tux3_inode memory that malloc can hand out
    Inums,      \* inode numbers
    NoObj,      \* NULL
    NoInum,     \* TUX_INVALID_INO, the inum of an inode before tux_set
    MaxRefs     \* bound on the references callers hold on one inode

VARIABLES
    ic,         \* [alloc, inum, count, state, hash, ok]: the cache
    held        \* held[o]: references the callers hold on o

vars == <<ic, held>>

Flags == {"I_NEW", "I_BAD", "I_FREEING", "I_DIRTY"}
EBUSY == 16

\* assert(): a failed one aborts the program; the model records it.
assert(c, cond) == [c EXCEPT !.ok = @ /\ cond]

\* !inode_unhashed(inode): the inode is on its hash chain.
Hashed(c, o) == \E k \in 1..Len(c.hash) : c.hash[k] = o

\* insert_inode_hash / hlist_add_head: a new entry goes to the chain head.
\* All inums share one chain: test() compares the inum, so which bucket
\* hash() picks does not change what a lookup returns.
insert_inode_hash(c, o) == [c EXCEPT !.hash = <<o>> \o @]

\* remove_inode_hash: unlink if hashed.
remove_inode_hash(c, o) == [c EXCEPT !.hash = SelectSeq(@, LAMBDA x : x # o)]

\* new_inode: malloc, inode_init (i_count 1, i_state 0), new_map.  The
\* caller passes NoObj when malloc or new_map fails.
new_inode(c, o) ==
    [c EXCEPT !.alloc = @ \cup {o}, !.inum[o] = NoInum,
              !.count[o] = 1, !.state[o] = {}]

\* free_inode: clear I_BAD, free_map, free.
free_inode(c, o) == [c EXCEPT !.alloc = @ \ {o}, !.state[o] = @ \ {"I_BAD"}]

\* make_bad_inode: unhash, set I_BAD.
make_bad_inode(c, o) ==
    LET c1 == remove_inode_hash(c, o)
    IN  [c1 EXCEPT !.state[o] = @ \cup {"I_BAD"}]

\* unlock_new_inode: assert I_NEW, clear it.
unlock_new_inode(c, o) ==
    [assert(c, "I_NEW" \in c.state[o]) EXCEPT !.state[o] = @ \ {"I_NEW"}]

\* __iget: never on I_FREEING; i_count 0 only for a dirty inode.
__iget(c, o) ==
    [assert(c, "I_FREEING" \notin c.state[o]
               /\ (c.count[o] = 0 => "I_DIRTY" \in c.state[o]))
        EXCEPT !.count[o] = @ + 1]

\* ihold: caller already holds a reference.
ihold(c, o) ==
    [assert(c, "I_FREEING" \notin c.state[o] /\ c.count[o] >= 1)
        EXCEPT !.count[o] = @ + 1]

\* __mark_inode_dirty(inode, I_DIRTY): tux3_dirty_inode puts the inode on
\* the delta's dirty list (the I_DIRTY flag here), then i_state |= flags.
mark_inode_dirty(c, o) == [c EXCEPT !.state[o] = @ \cup {"I_DIRTY"}]

\* clear_inode: i_state = I_FREEING, every other flag dropped.
clear_inode(c, o) == [c EXCEPT !.state[o] = {"I_FREEING"}]

\* Mutant: the drop policy ignores the dirty list (generic_drop_inode).
tux3_drop_inode_nodirty(c, o) == TRUE

\* generic_drop_inode: "we don't cache inode", always drop.
generic_drop_inode(c, o) == TRUE

\* tux3_drop_inode (kernel/inode.c): a good inode that is dirty stays on
\* the dirty list; otherwise generic_drop_inode.
tux3_drop_inode(c, o) ==
    /\ "I_BAD" \in c.state[o] \/ "I_DIRTY" \notin c.state[o]
    /\ generic_drop_inode(c, o)

\* tux3_evict_inode (kernel/inode.c): release the mapping and btree
\* resources, then clear_inode.
tux3_evict_inode(c, o) == clear_inode(c, o)

\* Mutant: the last iput frees the inode without unhashing it.
iput_keephash(c, o) ==
    IF o = NoObj THEN c
    ELSE LET c1 == [c EXCEPT !.count[o] = @ - 1]
         IN  IF c1.count[o] # 0 \/ ~tux3_drop_inode(c1, o) THEN c1
             ELSE free_inode(tux3_evict_inode(c1, o), o)

\* iput: NULL is a no-op; on the last reference assert !I_NEW, then keep
\* the inode if tux3_drop_inode refuses, else evict, unhash and free.
iput(c, o) ==
    IF o = NoObj THEN c
    ELSE LET c1 == [c EXCEPT !.count[o] = @ - 1]
         IN  IF c1.count[o] # 0 THEN c1
             ELSE LET c2 == assert(c1, "I_NEW" \notin c1.state[o])
                  IN  IF ~tux3_drop_inode(c2, o) THEN c2
                      ELSE free_inode(remove_inode_hash(tux3_evict_inode(c2, o), o), o)

\* Mutant: iget_failed puts the inode without unlock_new_inode.
iget_failed_nounlock(c, o) == iput(make_bad_inode(c, o), o)

\* iget_failed: make_bad_inode, unlock_new_inode, iput.
iget_failed(c, o) == iput(unlock_new_inode(make_bad_inode(c, o), o), o)

\* Mutant: find_inode returns the match without taking a reference.
find_inode_noget(c, i) ==
    LET k == SelectInSeq(c.hash, LAMBDA x : c.inum[x] = i)
    IN  [c |-> c, inode |-> IF k = 0 THEN NoObj ELSE c.hash[k]]

\* find_inode: first entry of the chain whose test() matches (the inum),
\* __iget on it.  Result [c, inode].
find_inode(c, i) ==
    LET k == SelectInSeq(c.hash, LAMBDA x : c.inum[x] = i)
    IN  IF k = 0 THEN [c |-> c, inode |-> NoObj]
        ELSE [c |-> __iget(c, c.hash[k]), inode |-> c.hash[k]]

\* iget5_locked: find_inode, else new_inode (o, or NoObj when it fails),
\* set() (tux_set stores the inum and returns 0), I_NEW, add to the hash.
iget5_locked(c, i, o) ==
    LET f == find_inode(c, i)
    IN  IF f.inode # NoObj THEN f
        ELSE IF o = NoObj THEN [c |-> c, inode |-> NoObj]
        ELSE LET c1 == [new_inode(c, o) EXCEPT !.inum[o] = i]
             IN  [c |-> insert_inode_hash([c1 EXCEPT !.state[o] = {"I_NEW"}], o),
                  inode |-> o]

\* Mutant: insert_inode_locked4 hashes the inode without scanning.
insert_inode_locked4_noscan(c, o, i) ==
    [c |-> insert_inode_hash([c EXCEPT !.state[o] = @ \cup {"I_NEW"}], o), err |-> 0]

\* insert_inode_locked4: scan the chain for a matching inode that is not
\* I_FREEING; none: set I_NEW, add to the hash, return 0.  Else __iget it;
\* if it is still hashed iput and return -EBUSY, else iput and rescan
\* (with no wait_on_inode in userland the old inode is always still
\* hashed).  Result [c, err].
RECURSIVE insert_inode_locked4(_, _, _)
insert_inode_locked4(c, o, i) ==
    LET k == SelectInSeq(c.hash, LAMBDA x : c.inum[x] = i
                                           /\ "I_FREEING" \notin c.state[x])
    IN  IF k = 0
        THEN [c |-> insert_inode_hash([c EXCEPT !.state[o] = @ \cup {"I_NEW"}], o),
              err |-> 0]
        ELSE LET old == c.hash[k]
                 c1 == __iget(c, old)
             IN  IF Hashed(c1, old) THEN [c |-> iput(c1, old), err |-> EBUSY]
                 ELSE insert_inode_locked4(iput(c1, old), o, i)

\* Mutant: the dirty inode is put without iget_if_dirty first.
clear_dirty_inode_noget(c, o) == iput([c EXCEPT !.state[o] = @ \ {"I_DIRTY"}], o)

\* tux3_clear_dirty_inode (kernel/writeback.c): iget_if_dirty (= __iget)
\* keeps the inode alive, clear its dirty state and take it off the dirty
\* list, then iput, which frees it if that was the last pin.
clear_dirty_inode(c, o) ==
    iput([__iget(c, o) EXCEPT !.state[o] = @ \ {"I_DIRTY"}], o)

Dirty(c) == {o \in c.alloc : "I_DIRTY" \in c.state[o]}
FreeObjs(c) == Objs \ c.alloc
Give(o) == [held EXCEPT ![o] = @ + 1]

Init ==
    /\ ic = [alloc |-> {}, inum |-> [o \in Objs |-> NoInum],
             count |-> [o \in Objs |-> 0], state |-> [o \in Objs |-> {}],
             hash |-> <<>>, ok |-> TRUE]
    /\ held = [o \in Objs |-> 0]

\* tux3_iget (kernel/inode.c): iget5_locked; NULL is -ENOMEM.  A cached
\* inode is returned as is.  A new one is read from the inode table: on
\* success tux_setup_inode and unlock_new_inode, on failure iget_failed.
Iget(i, o, readOK) ==
    LET r == iget5_locked(ic, i, o)
    IN  /\ r.inode # NoObj => held[r.inode] < MaxRefs
        /\ CASE r.inode = NoObj ->
                    ic' = r.c /\ held' = held
             [] "I_NEW" \notin r.c.state[r.inode] ->
                    ic' = r.c /\ held' = Give(r.inode)
             [] readOK ->
                    ic' = unlock_new_inode(r.c, r.inode) /\ held' = Give(r.inode)
             [] OTHER ->
                    ic' = iget_failed(r.c, r.inode) /\ held' = held

\* ilookup5: find_inode; in userland the result is never I_NEW.
Ilookup(i) ==
    LET r == find_inode(ic, i)
    IN  /\ r.inode # NoObj
        /\ held[r.inode] < MaxRefs
        /\ ic' = assert(r.c, "I_NEW" \notin ic.state[r.inode])
        /\ held' = Give(r.inode)

\* tux_create_inode (kernel/inode.c): new_inode, alloc_inum stores the
\* inum and calls insert_inode_locked4.  On success the new inode is
\* dirtied and unlocked and the caller holds it; on -EBUSY it is made bad
\* and put.
Create(i, o) ==
    LET c1 == [new_inode(ic, o) EXCEPT !.inum[o] = i]
        r == insert_inode_locked4(c1, o, i)
    IN  IF r.err = 0
        THEN /\ ic' = unlock_new_inode(mark_inode_dirty(r.c, o), o)
             /\ held' = Give(o)
        ELSE /\ ic' = iput(make_bad_inode(r.c, o), o)
             /\ held' = held

\* ihold by a caller that holds a reference.
Ihold(o) ==
    /\ 1 <= held[o] /\ held[o] < MaxRefs
    /\ ic' = ihold(ic, o)
    /\ held' = Give(o)

\* iput by a caller that holds a reference.
Iput(o) ==
    /\ held[o] >= 1
    /\ ic' = iput(ic, o)
    /\ held' = [held EXCEPT ![o] = @ - 1]

\* mark_inode_dirty by a caller that holds the inode.
MarkInodeDirty(o) ==
    /\ held[o] >= 1
    /\ ic' = mark_inode_dirty(ic, o)
    /\ held' = held

\* The delta commit (sync_super -> force_delta) ends with
\* tux3_clear_dirty_inodes over every inode of the delta's dirty list.
ClearDirtyInodes ==
    /\ Dirty(ic) # {}
    /\ ic' = FoldSet(LAMBDA o, c : clear_dirty_inode(c, o), ic, Dirty(ic))
    /\ held' = held

\* inode_leak_check at unmount, once the callers have put every inode and
\* the last delta has committed: assert that the hash is empty.
inode_leak_check ==
    /\ \A o \in Objs : held[o] = 0
    /\ Dirty(ic) = {}
    /\ ic' = assert(ic, ic.hash = <<>>)
    /\ held' = held

Next ==
    \/ \E i \in Inums, readOK \in BOOLEAN :
          \/ \E o \in FreeObjs(ic) : Iget(i, o, readOK)
          \/ FreeObjs(ic) = {} /\ Iget(i, NoObj, readOK)
    \/ \E i \in Inums : Ilookup(i)
    \/ \E i \in Inums, o \in FreeObjs(ic) : Create(i, o)
    \/ \E o \in Objs : Ihold(o) \/ Iput(o) \/ MarkInodeDirty(o)
    \/ ClearDirtyInodes
    \/ inode_leak_check

Spec == Init /\ [][Next]_vars

-----------------------------------------------------------------------------
(* Properties                                                              *)

\* Type invariant.  Callers never hold more than MaxRefs references, so
\* i_count stays in 0..MaxRefs between calls.
TypeOK ==
    /\ ic.alloc \subseteq Objs
    /\ ic.inum \in [Objs -> Inums \cup {NoInum}]
    /\ ic.count \in [Objs -> 0..MaxRefs]
    /\ ic.state \in [Objs -> SUBSET Flags]
    /\ ic.hash \in Seq(Objs)
    /\ ic.ok \in BOOLEAN
    /\ held \in [Objs -> 0..MaxRefs]

\* i_count of every allocated inode equals the references its callers
\* hold (find_inode, ihold and iput each move both by one; the commit's
\* iget_if_dirty / iput pair leaves them equal), and nobody holds a
\* reference to freed memory.
RefcountExact ==
    \A o \in Objs :
        /\ o \in ic.alloc => ic.count[o] = held[o]
        /\ held[o] > 0 => o \in ic.alloc

\* Between calls every cached inode is hashed, neither I_NEW, I_BAD nor
\* I_FREEING, and pinned by a reference or by the dirty list, and every
\* hash entry is allocated.  So __iget's "i_count == 0 only for a dirty
\* inode" holds for whatever find_inode returns, and inode_leak_check
\* passes once the callers have put their inodes and the delta committed.
CacheSettled ==
    /\ \A k \in 1..Len(ic.hash) : ic.hash[k] \in ic.alloc
    /\ \A o \in ic.alloc :
          /\ Hashed(ic, o)
          /\ ic.state[o] \cap {"I_NEW", "I_BAD", "I_FREEING"} = {}
          /\ ic.count[o] > 0 \/ "I_DIRTY" \in ic.state[o]

\* The hash never holds two inodes of one inum: iget5_locked finds the
\* cached one and insert_inode_locked4 refuses a second with -EBUSY, so
\* every caller of one inum shares one struct inode.
OneLiveInode ==
    \A j, k \in 1..Len(ic.hash) :
        j # k => ic.inum[ic.hash[j]] # ic.inum[ic.hash[k]]

\* No assert() of the cache fires: __iget and ihold on live inodes,
\* unlock_new_inode only on I_NEW, the last iput and ilookup5 never on
\* I_NEW, and inode_leak_check finds the hash empty at unmount.
NoAssertFires == ic.ok

\* A dirty inode is freed only by the delta commit that writes it out:
\* iput's last reference leaves it on the dirty list (spec section 4.6,
\* "dirty inodes stay pinned").
DirtyStaysPinned ==
    [][\A o \in Dirty(ic) : o \notin ic'.alloc => ClearDirtyInodes]_vars

====
