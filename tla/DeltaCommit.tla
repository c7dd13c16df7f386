----------------------------- MODULE DeltaCommit -----------------------------
(***************************************************************************)
(* The delta engine under the asynchronous flusher of                      *)
(* src/kernel/commit_flusher_hack.c (kernel >= 3.10: a delayed work item   *)
(* runs tux3_writeback_workfn).                                            *)
(*                                                                         *)
(* Frontend change windows pin a delta through change_begin/change_end,    *)
(* that is delta_get/delta_put on one of the TUX3_MAX_DELTA static         *)
(* delta_refs.  delta_get reads sb->current_delta and then takes a         *)
(* reference with atomic_inc_not_zero, retrying on zero; both steps are    *)
(* separate, so a transition can happen between them.  The writeback      *)
(* worker moves the frontend to the next delta under COMMIT_RUNNING, waits *)
(* for COMMIT_PENDING (set by the last delta_put of the old delta) and     *)
(* flushes.  delta_get, delta_put, delta_transition and flush_delta live   *)
(* in commit.c, which is not in this repository: they are modelled from    *)
(* the specification (sections 4.7 and 5).                                 *)
(*                                                                         *)
(* Deltas are unsigned and wrap: they are kept modulo DeltaMod, and        *)
(* delta_after_eq compares them as the kernel does, by the sign of the     *)
(* difference.                                                             *)
(***************************************************************************)
EXTENDS Naturals, Sequences, FiniteSets

CONSTANTS
    Writers,    \* frontend tasks that open change windows
    Syncers,    \* tasks calling sync_current_delta (fsync)
    DeltaMod,   \* 2^(width of a delta counter) in the model
    None        \* no delta / no work item

ASSUME DeltaMod >= 4 /\ DeltaMod % 2 = 0

VARIABLES
    cur,            \* sb->current_delta: index of a delta_refs slot
    slot_delta,     \* delta_refs[i].delta
    slot_ref,       \* delta_refs[i].refcount
    marshal_delta,  \* sb->marshal_delta
    running,        \* TUX3_COMMIT_RUNNING_BIT
    pending,        \* TUX3_COMMIT_PENDING_BIT
    wpc,            \* writer: "idle", "ptr" (pointer read), "in" (window open)
    wslot,          \* the delta_ref a writer read or holds
    wdelta,         \* delta_ref->delta of the writer's window
    fpc,            \* the worker's program counter
    fret,           \* where tux3_wb_writeback returns: "work", "old", "bg"
    fwork,          \* the work item being served (a syncer or None)
    fdelta,         \* the delta tux3_wb_writeback read
    wrote,          \* tux3_do_writeback's wrote # 0
    queued,         \* the delayed work wb->dwork is queued
    work_list,      \* bdi->work_list
    sync,           \* syncer: "idle" or "wait" (in wait_for_completion)
    need,           \* ghost: deltas with ended changes when a sync started
    dirty_in        \* ghost: deltas holding ended, uncommitted changes

vars == <<cur, slot_delta, slot_ref, marshal_delta, running, pending,
          wpc, wslot, wdelta, fpc, fret, fwork, fdelta, wrote, queued,
          work_list, sync, need, dirty_in>>

TUX3_MAX_DELTA == 2
Slots == 0 .. TUX3_MAX_DELTA - 1
Deltas == 0 .. DeltaMod - 1
TUX3_INIT_DELTA == 1

\* Mutant: the counters compared as if they never wrapped.
delta_after_eq_nowrap(a, b) == a >= b

\* delta_after_eq(a, b): (int)(a - b) >= 0 on the wrapped counter.
delta_after_eq(a, b) == (a - b + DeltaMod) % DeltaMod < DeltaMod \div 2

Inc(d) == (d + 1) % DeltaMod

\* wb_has_dirty_io(): some inode is on the dirty list.
HasDirtyIo == dirty_in # {}

Init ==
    /\ cur = 0
    /\ slot_delta = [s \in Slots |-> IF s = 0 THEN TUX3_INIT_DELTA ELSE 0]
    /\ slot_ref = [s \in Slots |-> IF s = 0 THEN 1 ELSE 0]
    /\ marshal_delta = TUX3_INIT_DELTA - 1
    /\ running = FALSE
    /\ pending = FALSE
    /\ wpc = [w \in Writers |-> "idle"]
    /\ wslot = [w \in Writers |-> 0]
    /\ wdelta = [w \in Writers |-> 0]
    /\ fpc = "idle"
    /\ fret = "work"
    /\ fwork = None
    /\ fdelta = 0
    /\ wrote = FALSE
    /\ queued = FALSE
    /\ work_list = <<>>
    /\ sync = [s \in Syncers |-> "idle"]
    /\ need = [s \in Syncers |-> {}]
    /\ dirty_in = {}

-----------------------------------------------------------------------------
(* Frontend: change_begin / change_end.                                   *)

\* delta_get(), first half: rcu_dereference(sb->current_delta).
delta_get_ptr(w) ==
    /\ wpc[w] = "idle"
    /\ wpc' = [wpc EXCEPT ![w] = "ptr"]
    /\ wslot' = [wslot EXCEPT ![w] = cur]
    /\ UNCHANGED <<cur, slot_delta, slot_ref, marshal_delta, running, pending,
                   wdelta, fpc, fret, fwork, fdelta, wrote, queued,
                   work_list, sync, need, dirty_in>>

\* Mutant: delta_get() with atomic_inc() instead of atomic_inc_not_zero().
delta_get_inc_plain(w) ==
    /\ wpc[w] = "ptr"
    /\ slot_ref' = [slot_ref EXCEPT ![wslot[w]] = @ + 1]
    /\ wdelta' = [wdelta EXCEPT ![w] = slot_delta[wslot[w]]]
    /\ wpc' = [wpc EXCEPT ![w] = "in"]
    /\ UNCHANGED <<cur, slot_delta, marshal_delta, running, pending, wslot,
                   fpc, fret, fwork, fdelta, wrote, queued, work_list, sync,
                   need, dirty_in>>

\* delta_get(), second half: atomic_inc_not_zero(&delta_ref->refcount); on
\* zero the loop reads sb->current_delta again.
delta_get_inc(w) ==
    /\ wpc[w] = "ptr"
    /\ IF slot_ref[wslot[w]] # 0
       THEN /\ slot_ref' = [slot_ref EXCEPT ![wslot[w]] = @ + 1]
            /\ wdelta' = [wdelta EXCEPT ![w] = slot_delta[wslot[w]]]
            /\ wpc' = [wpc EXCEPT ![w] = "in"]
            /\ UNCHANGED wslot
       ELSE /\ wslot' = [wslot EXCEPT ![w] = cur]
            /\ UNCHANGED <<slot_ref, wdelta, wpc>>
    /\ UNCHANGED <<cur, slot_delta, marshal_delta, running, pending,
                   fpc, fret, fwork, fdelta, wrote, queued, work_list, sync,
                   need, dirty_in>>

\* delta_put(): the last reference sets TUX3_COMMIT_PENDING_BIT and wakes
\* the waiters (schedule_flush_delta()).
PutRef(ref, s) == [ref EXCEPT ![s] = @ - 1]
PutPending(ref, s) == pending \/ ref[s] = 1

\* change_end(): the change is on its delta's dirty lists, the inode is
\* dirty (which queues wb->dwork when no inode was dirty before), delta_put.
change_end(w) ==
    /\ wpc[w] = "in"
    /\ slot_ref' = PutRef(slot_ref, wslot[w])
    /\ pending' = PutPending(slot_ref, wslot[w])
    /\ dirty_in' = dirty_in \cup {wdelta[w]}
    /\ queued' = (queued \/ ~HasDirtyIo)
    /\ wpc' = [wpc EXCEPT ![w] = "idle"]
    /\ wslot' = [wslot EXCEPT ![w] = 0]
    /\ wdelta' = [wdelta EXCEPT ![w] = 0]
    /\ UNCHANGED <<cur, slot_delta, marshal_delta, running,
                   fpc, fret, fwork, fdelta, wrote, work_list, sync, need>>

-----------------------------------------------------------------------------
(* fsync: sync_current_delta -> sync_inodes_sb.                           *)

\* sync_inodes_sb(): queue a work item with a completion, kick the
\* delayed work, wait for the completion.
sync_current_delta(s) ==
    /\ sync[s] = "idle"
    /\ sync' = [sync EXCEPT ![s] = "wait"]
    /\ need' = [need EXCEPT ![s] = dirty_in]
    /\ work_list' = Append(work_list, s)
    /\ queued' = TRUE
    /\ UNCHANGED <<cur, slot_delta, slot_ref, marshal_delta, running, pending,
                   wpc, wslot, wdelta, fpc, fret, fwork, fdelta, wrote,
                   dirty_in>>

-----------------------------------------------------------------------------
(* The worker: tux3_writeback_workfn -> tux3_do_writeback.                *)

WorkerVars == <<fpc, fret, fwork, fdelta, wrote, queued, work_list>>
FrontVars == <<wpc, wslot, wdelta, sync, need>>
DeltaVars == <<cur, slot_delta, slot_ref, marshal_delta, running, pending,
               dirty_in>>

\* The workqueue runs the queued wb->dwork: tux3_do_writeback() starts.
tux3_writeback_workfn ==
    /\ fpc = "idle" /\ queued
    /\ queued' = FALSE
    /\ fpc' = "works"
    /\ wrote' = FALSE
    /\ UNCHANGED <<fret, fwork, fdelta, work_list>>
    /\ UNCHANGED FrontVars /\ UNCHANGED DeltaVars

\* Call tux3_wb_writeback() and come back to ret.
Call(ret) == fpc' = "wb_get" /\ fret' = ret

\* The loop of tux3_do_writeback(): get_next_work_item(), write back.
do_writeback_work ==
    /\ fpc = "works" /\ work_list # <<>>
    /\ fwork' = Head(work_list)
    /\ work_list' = Tail(work_list)
    /\ Call("work")
    /\ UNCHANGED <<fdelta, wrote, queued>>
    /\ UNCHANGED FrontVars /\ UNCHANGED DeltaVars

do_writeback_nowork ==
    /\ fpc = "works" /\ work_list = <<>>
    /\ fpc' = "old"
    /\ UNCHANGED <<fret, fwork, fdelta, wrote, queued, work_list>>
    /\ UNCHANGED FrontVars /\ UNCHANGED DeltaVars

\* tux3_wb_check_old_data_flush(): before the interval it returns 0; after
\* it, 1 when no inode is old enough, else a kupdate writeback.  Which of
\* these the clock gives is a free choice, except that old data needs
\* dirty io.
OldNotExpired ==
    /\ fpc = "old"
    /\ fpc' = "bg"
    /\ UNCHANGED <<fret, fwork, fdelta, wrote, queued, work_list>>
    /\ UNCHANGED FrontVars /\ UNCHANGED DeltaVars

OldNothingOld ==
    /\ fpc = "old"
    /\ fpc' = "bg"
    /\ wrote' = TRUE
    /\ UNCHANGED <<fret, fwork, fdelta, queued, work_list>>
    /\ UNCHANGED FrontVars /\ UNCHANGED DeltaVars

OldFlush ==
    /\ fpc = "old" /\ HasDirtyIo
    /\ Call("old")
    /\ UNCHANGED <<fwork, fdelta, wrote, queued, work_list>>
    /\ UNCHANGED FrontVars /\ UNCHANGED DeltaVars

\* tux3_wb_check_background_flush(): a wakeup that wrote nothing is taken
\* for memory pressure and writes back.
tux3_wb_check_background_flush ==
    /\ fpc = "bg"
    /\ IF wrote THEN fpc' = "loop" /\ UNCHANGED fret ELSE Call("bg")
    /\ UNCHANGED <<fwork, fdelta, wrote, queued, work_list>>
    /\ UNCHANGED FrontVars /\ UNCHANGED DeltaVars

\* Mutant: the delayed work requeued only for pending work items.
workfn_loop_noredirty ==
    /\ fpc = "loop"
    /\ IF work_list # <<>>
       THEN fpc' = "works" /\ wrote' = FALSE /\ UNCHANGED queued
       ELSE fpc' = "idle" /\ UNCHANGED <<queued, wrote>>
    /\ UNCHANGED <<fret, fwork, fdelta, work_list>>
    /\ UNCHANGED FrontVars /\ UNCHANGED DeltaVars

\* The end of tux3_writeback_workfn: do { } while (!list_empty(work_list)),
\* then requeue the delayed work when work or dirty io remains.
workfn_loop ==
    /\ fpc = "loop"
    /\ IF work_list # <<>>
       THEN fpc' = "works" /\ wrote' = FALSE /\ UNCHANGED queued
       ELSE /\ fpc' = "idle"
            /\ queued' = (queued \/ HasDirtyIo)
            /\ UNCHANGED wrote
    /\ UNCHANGED <<fret, fwork, fdelta, work_list>>
    /\ UNCHANGED FrontVars /\ UNCHANGED DeltaVars

-----------------------------------------------------------------------------
(* tux3_wb_writeback(): transition, wait for the drain, flush_delta.      *)

\* delta_get(); delta = delta_ref->delta; delta_put().  Only this worker
\* moves sb->current_delta, so its own reference is never the last one.
wb_get_delta ==
    /\ fpc = "wb_get"
    /\ fdelta' = slot_delta[cur]
    /\ fpc' = "wb_trans"
    /\ UNCHANGED <<fret, fwork, wrote, queued, work_list>>
    /\ UNCHANGED FrontVars /\ UNCHANGED DeltaVars

\* delta_transition(): initialise the next static delta_ref with one
\* reference, make it current, marshal the old delta and drop its initial
\* reference (delta_put(), which may set COMMIT_PENDING at once).
Transit(c) ==
    LET nx == (c + 1) % TUX3_MAX_DELTA IN
    /\ slot_delta' = [slot_delta EXCEPT ![nx] = Inc(slot_delta[c])]
    /\ slot_ref' = [PutRef(slot_ref, c) EXCEPT ![nx] = 1]
    /\ pending' = PutPending(slot_ref, c)
    /\ cur' = nx
    /\ marshal_delta' = slot_delta[c]

\* wait_for_transition() -> try_delta_transition_until_delta(): done when
\* marshal_delta is already at delta; otherwise win COMMIT_RUNNING, recheck,
\* and delta_transition().  While another commit holds the bit it sleeps.
try_delta_transition_until_delta ==
    /\ fpc = "wb_trans"
    /\ delta_after_eq(marshal_delta, fdelta) \/ ~running
    /\ IF delta_after_eq(marshal_delta, fdelta)
       THEN UNCHANGED <<cur, slot_delta, slot_ref, marshal_delta, running,
                        pending>>
       ELSE /\ running' = TRUE
            /\ Transit(cur)
    /\ fpc' = "wb_pending"
    /\ fdelta' = 0
    /\ UNCHANGED <<fret, fwork, wrote, queued, work_list, dirty_in>>
    /\ UNCHANGED FrontVars

\* Mutant: the flush started without waiting for COMMIT_PENDING.
wb_wait_pending_nowait ==
    /\ fpc = "wb_pending"
    /\ pending' = FALSE
    /\ fpc' = "wb_flush"
    /\ UNCHANGED <<cur, slot_delta, slot_ref, marshal_delta, running,
                   dirty_in>>
    /\ UNCHANGED <<fret, fwork, fdelta, wrote, queued, work_list>>
    /\ UNCHANGED FrontVars

\* wait_event(delta_event_wq, COMMIT_PENDING); clear_bit(COMMIT_PENDING).
wb_wait_pending ==
    /\ fpc = "wb_pending"
    /\ pending
    /\ pending' = FALSE
    /\ fpc' = "wb_flush"
    /\ UNCHANGED <<cur, slot_delta, slot_ref, marshal_delta, running,
                   dirty_in>>
    /\ UNCHANGED <<fret, fwork, fdelta, wrote, queued, work_list>>
    /\ UNCHANGED FrontVars

\* flush_delta(): the marshalled delta is written and committed, then
\* COMMIT_RUNNING is cleared and the waiters are woken.
flush_delta ==
    /\ fpc = "wb_flush"
    /\ dirty_in' = dirty_in \ {marshal_delta}
    /\ running' = FALSE
    /\ fpc' = "wb_ret"
    /\ UNCHANGED <<cur, slot_delta, slot_ref, marshal_delta, pending>>
    /\ UNCHANGED <<fret, fwork, fdelta, wrote, queued, work_list>>
    /\ UNCHANGED FrontVars

\* Mutant: the work item freed instead of completed.
wb_return_nocomplete ==
    /\ fpc = "wb_ret"
    /\ wrote' = TRUE
    /\ fpc' = CASE fret = "work" -> "works"
                [] fret = "old"  -> "bg"
                [] fret = "bg"   -> "loop"
    /\ fwork' = None /\ fret' = "work"
    /\ UNCHANGED <<sync, fdelta, queued, work_list>>
    /\ UNCHANGED <<wpc, wslot, wdelta, need>> /\ UNCHANGED DeltaVars

\* tux3_wb_writeback() returns 1 into wrote; in the work loop the caller
\* completes work->done; back to the caller.
wb_return ==
    /\ fpc = "wb_ret"
    /\ wrote' = TRUE
    /\ sync' = IF fret = "work" /\ fwork \in Syncers
               THEN [sync EXCEPT ![fwork] = "idle"] ELSE sync
    /\ fpc' = CASE fret = "work" -> "works"
                [] fret = "old"  -> "bg"
                [] fret = "bg"   -> "loop"
    /\ fwork' = None /\ fret' = "work"
    /\ UNCHANGED <<fdelta, queued, work_list>>
    /\ UNCHANGED <<wpc, wslot, wdelta, need>> /\ UNCHANGED DeltaVars

-----------------------------------------------------------------------------

Next ==
    \/ \E w \in Writers : delta_get_ptr(w) \/ delta_get_inc(w) \/ change_end(w)
    \/ \E s \in Syncers : sync_current_delta(s)
    \/ tux3_writeback_workfn \/ do_writeback_work \/ do_writeback_nowork
    \/ OldNotExpired \/ OldNothingOld \/ OldFlush
    \/ tux3_wb_check_background_flush \/ workfn_loop
    \/ wb_get_delta \/ try_delta_transition_until_delta
    \/ wb_wait_pending \/ flush_delta \/ wb_return

\* The workqueue runs the worker whenever it can step; a writer in a window
\* ends it (delta_get's retry and change_end do not block).  Old data ages:
\* a check that keeps finding dirty data finds old data at last.
Fairness ==
    /\ WF_vars(tux3_writeback_workfn \/ do_writeback_work \/ do_writeback_nowork
               \/ tux3_wb_check_background_flush \/ workfn_loop
               \/ wb_get_delta \/ try_delta_transition_until_delta
               \/ wb_wait_pending \/ flush_delta \/ wb_return)
    /\ WF_vars(OldNotExpired \/ OldNothingOld \/ OldFlush)
    /\ SF_vars(OldFlush)
    /\ \A w \in Writers : WF_vars(delta_get_inc(w)) /\ WF_vars(change_end(w))

Spec == Init /\ [][Next]_vars /\ Fairness

-----------------------------------------------------------------------------
(* Properties.                                                            *)

\* The refcount of every static delta_ref is exactly its open windows plus
\* the initial reference of the current one, and every open window is on
\* the delta its delta_ref holds.  delta_transition() re-initialises the
\* next slot with atomic_set(refcount, 1): this breaks when a slot is
\* reused while a window of its old delta is still open.
SlotRefsExact ==
    \A s \in Slots :
        /\ slot_ref[s] = Cardinality({w \in Writers : wpc[w] = "in" /\ wslot[w] = s})
                         + (IF s = cur THEN 1 ELSE 0)
        /\ \A w \in Writers :
              wpc[w] = "in" /\ wslot[w] = s => wdelta[w] = slot_delta[s]

\* The refinement: slots, bits and the worker loop implement DeltaAbstract.
\* The abstract phase is read off COMMIT_RUNNING and the worker's position.
Abs == INSTANCE DeltaAbstract WITH
    delta    <- slot_delta[cur],
    marshal  <- marshal_delta,
    phase    <- IF ~running THEN "idle"
                ELSE IF fpc = "wb_flush" THEN "flush" ELSE "drain",
    held     <- [w \in Writers |-> IF wpc[w] = "in" THEN wdelta[w] ELSE None],
    dirty_in <- dirty_in,
    sync     <- sync,
    need     <- need

\* Every behaviour of the engine is one of DeltaAbstract: a change window
\* joins the frontend delta or a draining one, a delta is flushed only once
\* its windows are closed (delta_get's inc_not_zero against the wait for
\* COMMIT_PENDING), and a sync returns only once the changes that ended
\* before it are committed.
DeltaRefinement == Abs!ASpec

\* Every fsync returns: its work item is served and completed.
SyncCompletes == \A s \in Syncers : sync[s] = "wait" ~> sync[s] = "idle"

\* Every ended change is committed at last, with no fsync asking for it:
\* the workfn requeues itself while an inode is dirty.
DirtyCommitted == \A d \in Deltas : d \in dirty_in ~> d \notin dirty_in

=============================================================================
