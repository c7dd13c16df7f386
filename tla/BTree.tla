------------------------------- MODULE BTree --------------------------------
(***************************************************************************)
(* The generic btree engine of src/kernel/btree.c: bnode index levels     *)
(* above abstract leaves, copy-on-write redirection of the cursor path,   *)
(* leaf and bnode splits up to a new root, and range chop with leaf and   *)
(* bnode merges, separator adjustment and root drop.                      *)
(*                                                                         *)
(* A block holds either a leaf, abstracted to the set of keys it maps     *)
(* (ileaf.c and dleaf2.c are modelled in ILeaf and DLeaf2), or a bnode,   *)
(* the sequence of its index entries (key, child block).  The tree state  *)
(* is one record, so that every operation is an operator from state to   *)
(* state, as the code is a function of the cursor and the buffers.  Leaf  *)
(* buffers are dirty per delta (buffer_dirty), bnode buffers per unify    *)
(* (buffer_already_dirty(buffer, sb->unify)); sb->defree and sb->deunify  *)
(* are the deferred-free lists.  cimage and uimage are the images the     *)
(* disk holds: the leaves of the last delta commit and the bnodes of the  *)
(* last unify, from which log replay rebuilds the tree.                   *)
(*                                                                         *)
(* Each btree_write and btree_chop is one step: the caller holds          *)
(* btree->lock, and the backend that commits deltas is the thread that    *)
(* runs them, so no commit falls between two steps of one call.           *)
(***************************************************************************)
EXTENDS Integers, Sequences, SequencesExt, FiniteSets, FiniteSetsExt

CONSTANTS
    Blocks,         \* volume blocks the tree can allocate: 1 .. n
    NoBlock,        \* no block: a NULL buffer
    Keys,           \* keys written and chopped
    LeafCap,        \* keys an abstract leaf holds before leaf_write asks to split
    NodeCap,        \* sb->entries_per_node
    ChopLens,       \* lengths passed to btree_chop
    TUXKEY_LIMIT,   \* a key above every key
    InsertCanFail,  \* whether new_node may fail with ENOSPC inside insert_leaf
    MaxDelta        \* bound on sb->delta: the delta commits a run explores

ASSUME NoBlock \notin Blocks /\ NodeCap >= 2 /\ LeafCap >= 1
ASSUME \A k \in Keys : 0 <= k /\ k < TUXKEY_LIMIT

VARIABLES
    bt,       \* [blk, free, root, dirty, unify, defree, deunify]
    cimage,   \* leaf block -> keys, as the last delta commit wrote them
    uimage,   \* bnode block -> entries, as the last unify wrote them
    delta     \* sb->delta, counting delta commits

vars == <<bt, cimage, uimage, delta>>

Leaf(S) == [t |-> "leaf", keys |-> S]
Node(E) == [t |-> "node", e |-> E]
Entry(key, block) == [key |-> key, block |-> block]

bcount(s, b) == Len(s.blk[b].e)

(* new_block: balloc of one block, the lowest free one; NoBlock is the    *)
(* -ENOSPC of a full volume.                                               *)
new_block(s) == IF s.free = {} THEN NoBlock ELSE Min(s.free)

(* The blocks of the subtree of b, h levels above the leaves.             *)
RECURSIVE Subtree(_, _, _)
Subtree(s, b, h) ==
    IF h = 0 THEN {b}
    ELSE {b} \cup UNION {Subtree(s, s.blk[b].e[i].block, h - 1) :
                           i \in 1..bcount(s, b)}

Reachable(s) == Subtree(s, s.root.block, s.root.depth)
LeavesOf(s) == {b \in Reachable(s) : s.blk[b].t = "leaf"}
NodesOf(s) == {b \in Reachable(s) : s.blk[b].t = "node"}

(***************************************************************************)
(* The cursor: path[level + 1] = [b, n] is the bnode of level and the     *)
(* number of its entries the cursor has passed (path[level].next -        *)
(* entries), so entry n is the one followed down; leaf is the leaf        *)
(* buffer, NoBlock once popped.  A cursor record also carries the tree    *)
(* state s and the error err of the call.                                  *)
(***************************************************************************)
centries(c, level) == c.s.blk[c.path[level + 1].b].e
level_finished(c, level) == c.path[level + 1].n = Len(centries(c, level))

RECURSIVE level_next_key(_, _)
level_next_key(c, level) ==
    IF level < 0 THEN TUXKEY_LIMIT
    ELSE IF ~level_finished(c, level)
         THEN centries(c, level)[c.path[level + 1].n + 1].key
         ELSE level_next_key(c, level - 1)

cursor_next_key(c) == level_next_key(c, c.s.root.depth - 1)
cursor_this_key(c) ==
    centries(c, c.s.root.depth - 1)[c.path[c.s.root.depth].n].key

(* bnode_lookup: the entry before the first one beyond key; the first     *)
(* entry's key is never looked at.                                         *)
bnode_lookup(E, key) ==
    LET beyond == {i \in 2..Len(E) : E[i].key > key}
    IN IF beyond = {} THEN Len(E) ELSE Min(beyond) - 1

(***************************************************************************)
(* The bnode log and its replay.  Every change of a bnode writes a record *)
(* (log_bnode_*, log.c), and replay_bnode_* redoes it on the volmap       *)
(* buffers at mount, starting from the bnodes the last unify wrote.  The  *)
(* log of a unify cycle is kept as rep.img, the bnode image its replay    *)
(* rebuilds: replay runs the records in log order, so appending a record  *)
(* is applying it.  rep.got is the set of blocks whose buffers the      *)
(* replay itself has filled (redirect target, new root, split dst): the   *)
(* other records vol_getblk their blocks without reading them, so they    *)
(* must name one of these.  rep.ok turns FALSE when a replay assert would *)
(* fire or a record names a block the replay has not filled.              *)
(***************************************************************************)
replay_fail(r) == [r EXCEPT !.ok = FALSE]

(* replay_bnode_change: vol_getblk of the bnode, change, unify-dirty.     *)
(* The buffer must hold a bnode the replay filled already ("replay should *)
(* already dirty the buffer", e.g. by redirect), and holds is the         *)
(* change's assert.                                                       *)
has_bnode(r, b) == b \in r.got /\ r.img[b] # <<>>

replay_bnode_change(r, b, holds, E) ==
    IF holds THEN [r EXCEPT !.img[b] = E] ELSE replay_fail(r)

(* lookup(key) must find the entry of key itself (the asserts).           *)
found(E, key) == E[bnode_lookup(E, key)].key = key

replay_bnode_redirect(r, oldblock, newblock) ==
    IF oldblock \notin DOMAIN r.img THEN replay_fail(r)
    ELSE [r EXCEPT !.img = (newblock :> r.img[oldblock]) @@ @,
                   !.got = @ \cup {newblock}]

replay_bnode_root(r, root, left, right, rkey) ==
    [r EXCEPT !.img = (root :> <<Entry(0, left), Entry(rkey, right)>>) @@ @,
              !.got = @ \cup {root}]

replay_bnode_split(r, src, pos, dst) ==
    IF src \notin r.got THEN replay_fail(r)
    ELSE LET E == r.img[src]
         IN [r EXCEPT !.img = (dst :> SubSeq(E, pos + 1, Len(E)))
                                @@ [@ EXCEPT ![src] = SubSeq(E, 1, pos)],
                      !.got = @ \cup {dst}]

replay_bnode_add(r, parent, child, key) ==
    IF ~has_bnode(r, parent) THEN replay_fail(r)
    ELSE LET E == r.img[parent]
         IN replay_bnode_change(r, parent, TRUE,
                InsertAt(E, bnode_lookup(E, key) + 1, Entry(key, child)))

replay_bnode_update(r, parent, child, key) ==
    IF ~has_bnode(r, parent) THEN replay_fail(r)
    ELSE LET E == r.img[parent]
         IN replay_bnode_change(r, parent, found(E, key),
                [E EXCEPT ![bnode_lookup(E, key)].block = child])

replay_bnode_merge(r, src, dst) ==
    IF {src, dst} \subseteq r.got
       /\ Len(r.img[dst]) + Len(r.img[src]) <= NodeCap
    THEN [r EXCEPT !.img[dst] = @ \o r.img[src]]
    ELSE replay_fail(r)

replay_bnode_del(r, bnode, key, count) ==
    IF ~has_bnode(r, bnode) THEN replay_fail(r)
    ELSE LET E == r.img[bnode]
             n == bnode_lookup(E, key)
         IN replay_bnode_change(r, bnode, found(E, key),
                SubSeq(E, 1, n - 1) \o SubSeq(E, n + count, Len(E)))

replay_bnode_adjust(r, bnode, from, to) ==
    IF ~has_bnode(r, bnode) THEN replay_fail(r)
    ELSE LET E == r.img[bnode]
         IN replay_bnode_change(r, bnode, found(E, from),
                [E EXCEPT ![bnode_lookup(E, from)].key = to])

log_bnode_redirect(s, oldblock, newblock) ==
    [s EXCEPT !.rep = replay_bnode_redirect(@, oldblock, newblock)]
log_bnode_root(s, root, left, right, rkey) ==
    [s EXCEPT !.rep = replay_bnode_root(@, root, left, right, rkey)]
log_bnode_split(s, src, pos, dst) ==
    [s EXCEPT !.rep = replay_bnode_split(@, src, pos, dst)]
log_bnode_add(s, parent, child, key) ==
    [s EXCEPT !.rep = replay_bnode_add(@, parent, child, key)]
log_bnode_update(s, parent, child, key) ==
    [s EXCEPT !.rep = replay_bnode_update(@, parent, child, key)]
log_bnode_merge(s, src, dst) ==
    [s EXCEPT !.rep = replay_bnode_merge(@, src, dst)]
log_bnode_del(s, bnode, key, count) ==
    [s EXCEPT !.rep = replay_bnode_del(@, bnode, key, count)]
log_bnode_adjust(s, bnode, from, to) ==
    [s EXCEPT !.rep = replay_bnode_adjust(@, bnode, from, to)]

RECURSIVE probe_from(_, _, _)
probe_from(c, b, key) ==
    LET E == c.s.blk[b].e
        n == bnode_lookup(E, key)
        c1 == [c EXCEPT !.path = Append(@, [b |-> b, n |-> n])]
    IN IF Len(c1.path) = c.s.root.depth THEN [c1 EXCEPT !.leaf = E[n].block]
       ELSE probe_from(c1, E[n].block, key)

btree_probe(s, key) ==
    probe_from([s |-> s, path |-> <<>>, leaf |-> NoBlock, err |-> "ok"],
               s.root.block, key)

(***************************************************************************)
(* cursor_redirect, root to leaf: a clean leaf, or a bnode not dirty for  *)
(* this unify, is copied to a new block (level_redirect_blockput), the    *)
(* clone is marked dirty (leaf) or unify-dirty (bnode), the old block is  *)
(* deferred to sb->defree or sb->deunify, and btree->root or the parent's *)
(* entry is pointed at the clone.  -ENOSPC from new_block returns with    *)
(* the levels above already redirected.                                    *)
(***************************************************************************)
leaf_need_redirect(s, b) == b \notin s.dirty

bnode_need_redirect(s, b) == b \notin s.unify

defer_old_defree(s, is_leaf, buf) == [s EXCEPT !.defree = @ \cup {buf}]

(* defer_bfree of the redirected block: a leaf's to sb->defree, a bnode's *)
(* to sb->deunify.                                                         *)
defer_old(s, is_leaf, buf) ==
    IF is_leaf THEN [s EXCEPT !.defree = @ \cup {buf}]
    ELSE [s EXCEPT !.deunify = @ \cup {buf}]

RECURSIVE redirect_from(_, _)
redirect_from(c, level) ==
    IF level > c.s.root.depth THEN c
    ELSE
      LET s == c.s
          is_leaf == level = s.root.depth
          buf == IF is_leaf THEN c.leaf ELSE c.path[level + 1].b
          redirect == IF is_leaf THEN leaf_need_redirect(s, buf)
                      ELSE bnode_need_redirect(s, buf)
          clone == new_block(s)
          s0 == [s EXCEPT !.free = @ \ {clone},
                          !.blk[clone] = s.blk[buf],
                          !.dirty = IF is_leaf THEN @ \cup {clone} ELSE @,
                          !.unify = IF is_leaf THEN @ ELSE @ \cup {clone}]
          s1 == defer_old(IF is_leaf THEN s0 ELSE log_bnode_redirect(s0, buf, clone),
                          is_leaf, buf)
          p == IF level = 0 THEN c.path[1] ELSE c.path[level]
          s2 == IF level = 0 THEN [s1 EXCEPT !.root.block = clone]
                ELSE log_bnode_update([s1 EXCEPT !.blk[p.b].e[p.n].block = clone],
                                      p.b, clone, s1.blk[p.b].e[p.n].key)
          c1 == IF is_leaf THEN [c EXCEPT !.s = s2, !.leaf = clone]
                ELSE [c EXCEPT !.s = s2, !.path[level + 1].b = clone]
      IN IF ~redirect THEN redirect_from(c, level + 1)
         ELSE IF clone = NoBlock THEN [c EXCEPT !.err = "ENOSPC"]
         ELSE redirect_from(c1, level + 1)

cursor_redirect(c) == redirect_from(c, 0)

(***************************************************************************)
(* insert_leaf: the new child goes in after the entry the cursor follows  *)
(* (bnode_add_index at at->next).  A full bnode is split at half =        *)
(* count / 2 (bnode_split); the half holding the cursor gets the entry    *)
(* (child_is_left = at->next <= entries + half) and the new bnode climbs  *)
(* with key entries[half].key.  A split root gets a new root of two       *)
(* entries and the tree one more level.  keep says whether the cursor     *)
(* stays on the left child or moves to the new one.                       *)
(***************************************************************************)
bnode_add_index(E, n, child, childkey) ==
    InsertAt(E, n + 1, Entry(childkey, child))

child_is_left_lt(n, half) == n < half

(* at->next <= parent->entries + half                                     *)
child_is_left(n, half) == n <= half

new_root(c, childkey, childblock) ==
    LET nb == new_block(c.s)
        left_node == c.path[1].b # childblock
    IN IF nb = NoBlock THEN [c EXCEPT !.err = "ENOSPC_insert"]
       ELSE [c EXCEPT
               !.s = log_bnode_root(@, nb, c.s.root.block, childblock, childkey),
               !.s.free = @ \ {nb},
               !.s.blk[nb] = Node(<<Entry(0, c.s.root.block),
                                    Entry(childkey, childblock)>>),
               !.s.unify = @ \cup {nb},
               !.s.root = [block |-> nb, depth |-> @.depth + 1],
               !.path = <<[b |-> nb, n |-> IF left_node THEN 1 ELSE 2]>> \o @]

(* bcount(parent) < entries_per_node                                      *)
bnode_has_room(E) == Len(E) < NodeCap

RECURSIVE insert_level(_, _, _, _, _)
insert_level(c, level, childkey, childblock, keep) ==
    IF level < 0 THEN new_root(c, childkey, childblock)
    ELSE
      LET at == c.path[level + 1]
          E == c.s.blk[at.b].e
          nb == new_block(c.s)
          half == Len(E) \div 2
          newkey == E[half + 1].key
          is_left == child_is_left(at.n, half)
          pos == IF is_left THEN at.n ELSE at.n - half
          left == SubSeq(E, 1, half)
          right == SubSeq(E, half + 1, Len(E))
          c1 == [c EXCEPT
                   !.s.free = @ \ {nb},
                   !.s.blk[at.b] = Node(IF is_left
                       THEN bnode_add_index(left, pos, childblock, childkey)
                       ELSE left),
                   !.s.blk[nb] = Node(IF is_left THEN right
                       ELSE bnode_add_index(right, pos, childblock, childkey)),
                   !.s.unify = @ \cup {at.b, nb},
                   !.s = log_bnode_add(log_bnode_split(@, at.b, half, nb),
                                       IF is_left THEN at.b ELSE nb,
                                       childblock, childkey),
                   !.path[level + 1] =
                       [b |-> IF is_left THEN at.b ELSE nb,
                        n |-> IF keep THEN pos ELSE pos + 1]]
      IN IF bnode_has_room(E)
         THEN [c EXCEPT
                 !.s.blk[at.b] = Node(bnode_add_index(E, at.n, childblock, childkey)),
                 !.s.unify = @ \cup {at.b},
                 !.s = log_bnode_add(@, at.b, childblock, childkey),
                 !.path[level + 1].n = IF keep THEN @ ELSE @ + 1]
         ELSE IF nb = NoBlock THEN [c EXCEPT !.err = "ENOSPC_insert"]
         ELSE insert_level(c1, level - 1, newkey, nb, is_left)

insert_leaf(c, childkey, childblock, keep) ==
    insert_level(IF keep THEN c ELSE [c EXCEPT !.leaf = childblock],
                 c.s.root.depth - 1, childkey, childblock, keep)

(***************************************************************************)
(* btree_leaf_split: new_leaf, then leaf_split at newkey moves the keys   *)
(* at or above newkey to it, and insert_leaf keeps the cursor on the half *)
(* that holds key.  The leaf operations promise this_key < newkey <       *)
(* next_key (the asserts) and room for key in its half; SplitKeys are the *)
(* newkeys that keep that promise.                                         *)
(***************************************************************************)
SplitKeys(c, key) ==
    LET L == c.s.blk[c.leaf].keys
    IN {nk \in (cursor_this_key(c) + 1)..(cursor_next_key(c) - 1) :
          Cardinality(IF key < nk THEN {x \in L : x < nk}
                      ELSE {x \in L : x >= nk}) < LeafCap}

(* Mutant: the cursor kept on the left half also when key = newkey.     *)
btree_leaf_split_keepswap(c, key, newkey) ==
    LET nb == new_block(c.s)
        L == c.s.blk[c.leaf].keys
        c1 == [c EXCEPT !.s.free = @ \ {nb},
                        !.s.blk[c.leaf] = Leaf({x \in L : x < newkey}),
                        !.s.blk[nb] = Leaf({x \in L : x >= newkey}),
                        !.s.dirty = @ \cup {nb}]
    IN insert_leaf(c1, newkey, nb, key <= newkey)

btree_leaf_split(c, key, newkey) ==
    LET nb == new_block(c.s)
        L == c.s.blk[c.leaf].keys
        c1 == [c EXCEPT !.s.free = @ \ {nb},
                        !.s.blk[c.leaf] = Leaf({x \in L : x < newkey}),
                        !.s.blk[nb] = Leaf({x \in L : x >= newkey}),
                        !.s.dirty = @ \cup {nb}]
    IN insert_leaf(c1, newkey, nb, key < newkey)

leaf_need_split(c, key) ==
    key \notin c.s.blk[c.leaf].keys /\ Cardinality(c.s.blk[c.leaf].keys) >= LeafCap

leaf_write(c, key) ==
    [c EXCEPT !.s.blk[c.leaf] = Leaf(@.keys \cup {key}),
              !.s.dirty = @ \cup {c.leaf}]

(* btree_probe then btree_write of one key: the outcomes of the call.     *)
btree_write(s, key) ==
    LET c == cursor_redirect(btree_probe(s, key))
    IN IF c.err # "ok" THEN {c}
       ELSE IF ~leaf_need_split(c, key) THEN {leaf_write(c, key)}
       ELSE IF new_block(c.s) = NoBlock THEN {[c EXCEPT !.err = "ENOSPC"]}
       ELSE {LET c1 == btree_leaf_split(c, key, nk)
             IN IF c1.err # "ok" THEN c1 ELSE leaf_write(c1, key) :
               nk \in SplitKeys(c, key)}

(***************************************************************************)
(* btree_chop.  The chop cursor also carries prev[level], the last bnode  *)
(* kept at each level, leafprev, the last leaf kept, and start, len,      *)
(* limit and done of the loop.  cursor->level is Len(path) - 1 once the   *)
(* leaf is popped.                                                        *)
(***************************************************************************)
clevel(c) == Len(c.path) - 1

cursor_level_this_key(c) == centries(c, clevel(c))[c.path[clevel(c) + 1].n].key
cursor_level_next_key(c) == level_next_key(c, clevel(c))

(* cursor_advance_down: follow the next entry, to a bnode or the leaf.    *)
cursor_advance_down(c) ==
    LET level == clevel(c)
        child == centries(c, level)[c.path[level + 1].n + 1].block
        c1 == [c EXCEPT !.path[level + 1].n = @ + 1]
    IN IF level < c.s.root.depth - 1
       THEN [c1 EXCEPT !.path = Append(@, [b |-> child, n |-> 0])]
       ELSE [c1 EXCEPT !.leaf = child]

RECURSIVE advance_to_leaf(_)
advance_to_leaf(c) ==
    IF c.leaf # NoBlock THEN c ELSE advance_to_leaf(cursor_advance_down(c))

(* adjust_parent_sep: set the separator of the subtree to newsep, and     *)
(* climb while the entry set is the first of its bnode.                   *)
RECURSIVE adjust_parent_sep(_, _, _)
adjust_parent_sep(c, level, newsep) ==
    IF level < 0 THEN c
    ELSE LET at == c.path[level + 1]
             c1 == [c EXCEPT !.s = log_bnode_adjust(@, at.b, @.blk[at.b].e[at.n].key, newsep),
                             !.s.blk[at.b].e[at.n].key = newsep,
                             !.s.unify = @ \cup {at.b}]
         IN IF at.n # 1 THEN c1 ELSE adjust_parent_sep(c1, level - 1, newsep)

(* remove_index that keeps the key of the last removed entry in cii.     *)
remove_index_laststart(c) ==
    LET level == clevel(c)
        at == c.path[level + 1]
        E1 == RemoveAt(centries(c, level), at.n)
        c1 == [c EXCEPT !.cii[level] =
                          [start |-> centries(c, level)[at.n].key,
                           count |-> @.count + 1],
                        !.s.blk[at.b] = Node(E1),
                        !.path[level + 1].n = @ - 1,
                        !.s.unify = @ \cup {at.b}]
    IN IF level = 0 \/ at.n - 1 = Len(E1) THEN c1
       ELSE IF at.n - 1 # 0 THEN c1
       ELSE adjust_parent_sep(c1, level - 1, E1[1].key)

(* remove_index: drop the entry the cursor followed at its level; when it *)
(* was the first entry and more follow, the separators above take the key *)
(* of the new first entry.  The removal is not logged here: cii[level]    *)
(* collects the key of the first removed entry and a count, and the pop   *)
(* of the level logs them as one log_bnode_del.                           *)
remove_index(c) ==
    LET level == clevel(c)
        at == c.path[level + 1]
        E1 == RemoveAt(centries(c, level), at.n)
        c1 == [c EXCEPT !.cii[level] =
                          [start |-> IF @.count = 0 THEN centries(c, level)[at.n].key
                                     ELSE @.start,
                           count |-> @.count + 1],
                        !.s.blk[at.b] = Node(E1),
                        !.path[level + 1].n = @ - 1,
                        !.s.unify = @ \cup {at.b}]
    IN IF level = 0 \/ at.n - 1 = Len(E1) THEN c1
       ELSE IF at.n - 1 # 0 THEN c1
       ELSE adjust_parent_sep(c1, level - 1, E1[1].key)

(* leaf_chop of an abstract leaf: the keys in [start, start + len).       *)
leaf_chop(S, start, len) == {k \in S : k < start \/ k >= start + len}

(* leaf_merge succeeds when the keys of both leaves fit one leaf.         *)
leaf_merge_fits(s, into, from) ==
    Cardinality(s.blk[into].keys \cup s.blk[from].keys) <= LeafCap

(* try_leaf_merge: on success from is bfree()d at once, not deferred, as  *)
(* the code knows it was redirected in this chop.                          *)
try_leaf_merge_nofree(c, into, from) ==
    [c EXCEPT !.s.blk[into] = Leaf(@.keys \cup c.s.blk[from].keys)]

try_leaf_merge(c, into, from) ==
    [c EXCEPT !.s.blk[into] = Leaf(@.keys \cup c.s.blk[from].keys),
              !.s.free = @ \cup {from}]

bnode_merge_fits(s, into, from) == bcount(s, into) + bcount(s, from) <= NodeCap

try_bnode_merge(c, into, from) ==
    [c EXCEPT !.s.blk[into] = Node(@.e \o c.s.blk[from].e),
              !.s.free = @ \cup {from},
              !.s = log_bnode_merge(@, from, into)]

(* The pop loop: while done or the level is finished, pop the bnode and   *)
(* merge it into prev[level], removing its index, or keep it as prev.     *)
RECURSIVE pop_levels(_)
pop_levels(c) ==
    IF Len(c.path) = 0 \/ ~(c.done \/ level_finished(c, clevel(c))) THEN c
    ELSE
      LET level == clevel(c)
          buf == c.path[level + 1].b
          ciil == c.cii[level]
          c1 == [c EXCEPT !.path = SubSeq(@, 1, level),
                          !.s = IF ciil.count > 0
                                THEN log_bnode_del(@, buf, ciil.start, ciil.count)
                                ELSE @,
                          !.cii[level] = [start |-> 0, count |-> 0]]
          c2 == IF c.prev[level] # NoBlock /\ bnode_merge_fits(c.s, c.prev[level], buf)
                THEN remove_index(try_bnode_merge(c1, c.prev[level], buf))
                ELSE [c1 EXCEPT !.prev[level] = buf]
      IN IF level = 0 THEN c2 ELSE pop_levels(c2)

(* chop_root: drop levels while the root has a single entry.              *)
RECURSIVE chop_root(_)
chop_root(c) ==
    IF c.s.root.depth > 1 /\ bcount(c.s, c.prev[0]) = 1
    THEN chop_root([c EXCEPT !.s.root = [block |-> c.prev[1], depth |-> @.depth - 1],
                             !.s.free = @ \cup {c.prev[0]},
                             !.prev = [l \in 0..(c.s.root.depth - 2) |-> c.prev[l + 1]]])
    ELSE c

(* One pass of the leaf loop, in its order: cursor_redirect, pop the     *)
(* leaf, clip start and len to it, leaf_chop, merge into leafprev, the    *)
(* done test, the pop loop, and down to the next leaf or chop_root.       *)
(* Each part is an operator of the cursor the part before returns.        *)
chop_leaf_clip(c, leafbuf) ==
    LET this_key == cursor_level_this_key(c)
        start1 == IF c.start < this_key THEN this_key ELSE c.start
        len1 == IF c.start < this_key /\ c.limit < TUXKEY_LIMIT
                THEN c.len - (this_key - c.start) ELSE c.len
    IN [c EXCEPT !.start = start1, !.len = len1,
                 !.s.blk[leafbuf] = Leaf(leaf_chop(@.keys, start1, len1)),
                 !.s.dirty = @ \cup {leafbuf}]

chop_leaf_merge(c, leafbuf) ==
    IF c.leafprev # NoBlock /\ leaf_merge_fits(c.s, c.leafprev, leafbuf)
    THEN remove_index(try_leaf_merge(c, c.leafprev, leafbuf))
    ELSE [c EXCEPT !.leafprev = leafbuf]

chop_leaf_done(c) ==
    IF cursor_level_next_key(c) >= c.limit THEN [c EXCEPT !.done = TRUE] ELSE c

RECURSIVE chop_leaves(_)
chop_leaf_next(c) ==
    IF Len(c.path) = 0 THEN chop_root(c) ELSE chop_leaves(advance_to_leaf(c))

chop_leaf_pass(r) ==
    IF r.err # "ok" THEN r
    ELSE chop_leaf_next(pop_levels(chop_leaf_done(
           chop_leaf_merge(chop_leaf_clip([r EXCEPT !.leaf = NoBlock], r.leaf), r.leaf))))

chop_leaves(c) == chop_leaf_pass(cursor_redirect(c))

btree_chop(s, start, len) ==
    LET p == btree_probe(s, start)
    IN chop_leaves([s |-> p.s, path |-> p.path, leaf |-> p.leaf, err |-> "ok",
                    prev |-> [l \in 0..(s.root.depth - 1) |-> NoBlock],
                    cii |-> [l \in 0..(s.root.depth - 1) |-> [start |-> 0, count |-> 0]],
                    leafprev |-> NoBlock, start |-> start, len |-> len,
                    limit |-> IF len >= TUXKEY_LIMIT THEN TUXKEY_LIMIT ELSE start + len,
                    done |-> FALSE])

-----------------------------------------------------------------------------
(* alloc_empty_btree, as the committed and unified image: a root bnode of *)
(* one entry (key 0) over an empty leaf.                                   *)
Init ==
    LET rootb == Min(Blocks)
        leafb == Min(Blocks \ {rootb})
    IN /\ bt = [blk |-> [b \in Blocks |->
                           IF b = rootb THEN Node(<<Entry(0, leafb)>>) ELSE Leaf({})],
                free |-> Blocks \ {rootb, leafb},
                root |-> [block |-> rootb, depth |-> 1],
                dirty |-> {}, unify |-> {}, defree |-> {}, deunify |-> {},
                rep |-> [img |-> (rootb :> <<Entry(0, leafb)>>), got |-> {}, ok |-> TRUE]]
       /\ cimage = [b \in {leafb} |-> {}]
       /\ uimage = [b \in {rootb} |-> <<Entry(0, leafb)>>]
       /\ delta = 0

Write(key) ==
    \E o \in btree_write(bt, key) :
        /\ InsertCanFail \/ o.err # "ENOSPC_insert"
        /\ bt' = o.s
        /\ UNCHANGED <<cimage, uimage, delta>>

(* A delta commit (commit.c, not under src/): the dirty leaves are        *)
(* written and sb->defree is drained into the allocator.  A unifying      *)
(* delta also writes the unify-dirty bnodes and first moves sb->deunify   *)
(* to sb->defree.                                                          *)
DeltaCommit(unify) ==
    /\ delta < MaxDelta
    /\ delta' = delta + 1
    /\ bt' = [bt EXCEPT !.dirty = {},
                        !.unify = IF unify THEN {} ELSE @,
                        !.free = @ \cup bt.defree \cup (IF unify THEN bt.deunify ELSE {}),
                        !.defree = {},
                        !.deunify = IF unify THEN {} ELSE @,
                        !.rep = IF unify THEN [@ EXCEPT !.img = [b \in NodesOf(bt) |-> bt.blk[b].e],
                                                        !.got = {}]
                                ELSE @]
    /\ cimage' = [b \in LeavesOf(bt) |-> bt.blk[b].keys]
    /\ uimage' = IF unify THEN [b \in NodesOf(bt) |-> bt.blk[b].e] ELSE uimage

Chop(start, len) ==
    /\ bt' = btree_chop(bt, start, len).s
    /\ UNCHANGED <<cimage, uimage, delta>>

Next ==
    \/ \E key \in Keys : Write(key)
    \/ \E start \in Keys, len \in ChopLens : Chop(start, len)
    \/ \E unify \in BOOLEAN : DeltaCommit(unify)

Spec == Init /\ [][Next]_vars

-----------------------------------------------------------------------------
RECURSIVE WellFormed(_, _, _, _, _)
WellFormed(s, b, h, lo, hi) ==
    IF h = 0 THEN s.blk[b].t = "leaf" /\ \A k \in s.blk[b].keys : lo <= k /\ k < hi
    ELSE LET E == s.blk[b].e
         IN /\ s.blk[b].t = "node" /\ 1 <= Len(E) /\ Len(E) <= NodeCap
            /\ E[1].key = lo
            /\ \A i \in 2..Len(E) : E[i - 1].key < E[i].key /\ E[i].key < hi
            /\ \A i \in 1..Len(E) :
                 WellFormed(s, E[i].block, h - 1, E[i].key,
                            IF i = Len(E) THEN hi ELSE E[i + 1].key)

(* After every write, chop and commit the index is a search tree that     *)
(* bnode_lookup can trust: every level is at the same depth, the first    *)
(* key of a bnode is its separator in the parent, keys increase, every    *)
(* leaf's keys lie between its separator and the next (the bottom/limit   *)
(* assert of btree_write), no bnode holds more than entries_per_node      *)
(* entries (insert_leaf's full test), and no block is the child of two    *)
(* entries.  It is what insert_leaf's choice of the half for the new     *)
(* entry, the merges of btree_chop and adjust_parent_sep must keep.       *)
TreeWellFormed ==
    /\ WellFormed(bt, bt.root.block, bt.root.depth, 0, TUXKEY_LIMIT)
    /\ Cardinality(Reachable(bt))
         = 1 + MapThenSumSet(LAMBDA b : bcount(bt, b), NodesOf(bt))

(* Every block is in exactly one place: free in the allocator, in the     *)
(* tree, on sb->defree or on sb->deunify.  A split, redirect or merge     *)
(* that loses a block leaks it; a bfree of a block still in the tree, or  *)
(* of one on a deferred list, lets balloc hand it out twice.              *)
BlocksAccounted ==
    LET places == <<bt.free, Reachable(bt), bt.defree, bt.deunify>>
    IN \A b \in Blocks : Cardinality({i \in 1..4 : b \in places[i]}) = 1

(* Copy on write: the leaves the last delta commit wrote and the bnodes   *)
(* the last unify wrote, which replay starts from, are neither handed     *)
(* back to the allocator nor changed in memory before the next commit     *)
(* (for leaves) or unify (for bnodes) writes their replacements.  It is   *)
(* what cursor_redirect's need-redirect tests and the immediate bfree of  *)
(* try_leaf_merge, try_bnode_merge and the root drop rely on.             *)
CowImageKept ==
    /\ \A b \in DOMAIN cimage : b \notin bt.free /\ bt.blk[b] = Leaf(cimage[b])
    /\ \A b \in DOMAIN uimage : b \notin bt.free /\ bt.blk[b] = Node(uimage[b])

(* Crash recovery of the index: replaying the bnode records logged since  *)
(* the last unify, over the bnodes that unify wrote, rebuilds every bnode *)
(* of the tree as it is in memory, and no replay assert fires.  A delta   *)
(* commit makes the records durable and not the bnodes, so this is what a *)
(* mount after a crash at any commit recovers.  It needs every change of  *)
(* a bnode logged, in order, with the keys and positions the replay       *)
(* lookups find again: the redirects and parent updates of                *)
(* cursor_redirect, the adds and splits of insert_leaf, the new root, and *)
(* btree_chop's adjusts, merges and the deletes remove_index collects in  *)
(* cii.                                                                    *)
ReplayRebuildsBnodes ==
    /\ bt.rep.ok
    /\ \A b \in NodesOf(bt) : b \in DOMAIN bt.rep.img /\ bt.rep.img[b] = bt.blk[b].e

====
