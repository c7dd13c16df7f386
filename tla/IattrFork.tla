------------------------------ MODULE IattrFork ------------------------------
(***************************************************************************)
(* The inode attribute fork of src/kernel/writeback_iattrfork.c, for one   *)
(* inode.  Frontend tasks change its attributes inside change windows;     *)
(* before the first change of a delta tux3_iattrdirty() copies the stable  *)
(* attributes into the per-delta slot ddc[delta % 2].idata.  The backend   *)
(* of the marshalled delta, once the delta's windows are drained, reads    *)
(* them with tux3_iattr_read_and_clear(): from the inode if the iattr      *)
(* state still names its delta (or is clean), else from the forked slot.   *)
(*                                                                         *)
(* The delta engine is abstracted to DeltaAbstract's: windows open on the  *)
(* frontend delta, one delta drains and is flushed at a time.              *)
(* Operations that hold i_mutex (write, setattr) are serialised on the     *)
(* inode (the userland front end, tuxwrite and tuxtruncate, is single-     *)
(* threaded, which serialises them as well); a kernel timestamp update     *)
(* (file_update_time) does not take i_mutex.                               *)
(***************************************************************************)
EXTENDS Naturals, FiniteSets

CONSTANTS
    Writers,     \* frontend tasks
    Vals,        \* attribute values
    DeltaMod,    \* the delta counter wraps modulo DeltaMod
    Ops,         \* the operations a window may do (see OpKinds)
    None

ASSUME Ops \subseteq {"setsize", "touch", "data"} /\ DeltaMod % 2 = 0

\* "setsize": i_size under i_mutex (tuxwrite, setattr);
\* "touch":   i_mtime with no i_mutex (the FIXME of line 29);
\* "data":    data pages or the dtree only, no attribute change; only a
\*            regular file does this (a directory dirties its timestamps
\*            with its data blocks, lines 81-85).
Attrs == {"i_size", "i_mtime"}
AttrOf(op) == IF op = "setsize" THEN "i_size" ELSE "i_mtime"
TakesMutex(op) == op # "touch"

VARIABLES
    is_reg,      \* S_ISREG(inode->i_mode)
    attrs,       \* the live inode attributes
    ista,        \* iattr state in tuxnode->flags: 0 clean, else 1 + delta % 2
    ddc,         \* ddc[i].idata: [present, attrs]
    delta,       \* the frontend delta
    marshal,     \* the marshalled delta
    bphase,      \* backend: "idle" or "drain"
    wpc,         \* writer: "idle", "begun", "forked", "changed"
    wdelta,      \* the delta of a writer's window
    wop,         \* the operation of a writer's window
    wval,        \* the value it writes
    i_mutex,     \* the holder of inode->i_mutex, or None
    dirtied,     \* ghost: the inode is dirty for these deltas
    frozen,      \* ghost: the attributes as of the end of marshal
    committed    \* ghost: what the backend read for marshal

vars == <<is_reg, attrs, ista, ddc, delta, marshal, bphase, wpc, wdelta,
          wop, wval, i_mutex, dirtied, frozen, committed>>

TUX3_MAX_DELTA == 2
tux3_delta(d) == d % TUX3_MAX_DELTA

\* TUX3_DEFINE_STATE_FNS(iattr): has_delta, get_delta, update, clear.
iattrsta_has_delta(s) == s # 0
iattrsta_get_delta(s) == s - 1
\* Mutant: the delta stored without its reduction to a slot number.
iattrsta_update_nomod(d) == 1 + d
iattrsta_update(d) == 1 + tux3_delta(d)
iattrsta_clear == 0

Slots == 0 .. TUX3_MAX_DELTA - 1
Deltas == 0 .. DeltaMod - 1
Prev(d) == (d + DeltaMod - 1) % DeltaMod
AttrVals == [Attrs -> Vals]
Invalid == [present |-> FALSE, a |-> CHOOSE a \in AttrVals : TRUE]

Init ==
    /\ is_reg \in BOOLEAN
    /\ attrs \in AttrVals
    /\ ista = iattrsta_clear
    /\ ddc = [i \in Slots |-> Invalid]
    /\ delta = 1 /\ marshal = 0 /\ bphase = "idle"
    /\ wpc = [w \in Writers |-> "idle"]
    /\ wdelta = [w \in Writers |-> 0]
    /\ wop = [w \in Writers |-> CHOOSE o \in Ops : TRUE]
    /\ wval = [w \in Writers |-> CHOOSE v \in Vals : TRUE]
    /\ i_mutex = None
    /\ dirtied = {}
    /\ frozen = attrs
    /\ committed = attrs

-----------------------------------------------------------------------------
(* Frontend.                                                              *)

\* mutex_lock(i_mutex) when the operation takes it; change_begin().
change_begin(w, op, v) ==
    /\ wpc[w] = "idle"
    /\ op = "data" => is_reg
    /\ TakesMutex(op) => i_mutex = None
    /\ i_mutex' = IF TakesMutex(op) THEN w ELSE i_mutex
    /\ wpc' = [wpc EXCEPT ![w] = IF op = "data" THEN "forked" ELSE "begun"]
    /\ wdelta' = [wdelta EXCEPT ![w] = delta]
    /\ wop' = [wop EXCEPT ![w] = op]
    /\ wval' = [wval EXCEPT ![w] = v]
    /\ UNCHANGED <<is_reg, attrs, ista, ddc, delta, marshal, bphase,
                   dirtied, frozen, committed>>

\* Mutant: the copy for a clean regular file taken from the current slot.
tux3_iattrdirty_sameslot(w) ==
    LET d   == wdelta[w]
        old == IF is_reg /\ ~iattrsta_has_delta(ista)
               THEN tux3_delta(d) ELSE iattrsta_get_delta(ista)
    IN
    /\ wpc[w] = "begun"
    /\ IF iattrsta_has_delta(ista) /\ iattrsta_get_delta(ista) = tux3_delta(d)
       THEN UNCHANGED <<ddc, ista>>
       ELSE /\ ddc' = IF (is_reg \/ iattrsta_has_delta(ista)) /\ old # tux3_delta(d)
                      THEN [ddc EXCEPT ![old] = [present |-> TRUE, a |-> attrs]]
                      ELSE ddc
            /\ ista' = iattrsta_update(d)
    /\ wpc' = [wpc EXCEPT ![w] = "forked"]
    /\ UNCHANGED <<is_reg, attrs, delta, marshal, bphase, wdelta, wop, wval,
                   i_mutex, dirtied, frozen, committed>>

\* tux3_iattrdirty(): nothing to do if dirtied on this delta; otherwise,
\* under tuxnode->lock, a regular file or a dirty inode copies the stable
\* attributes to the slot of the delta they belong to (idata_copy) when
\* that delta differs, and the state is set to this delta.  The unlocked
\* first test reads the state the locked part reads again: it is folded in.
tux3_iattrdirty(w) ==
    LET d   == wdelta[w]
        old == IF is_reg /\ ~iattrsta_has_delta(ista)
               THEN tux3_delta(Prev(d)) ELSE iattrsta_get_delta(ista)
    IN
    /\ wpc[w] = "begun"
    /\ IF iattrsta_has_delta(ista) /\ iattrsta_get_delta(ista) = tux3_delta(d)
       THEN UNCHANGED <<ddc, ista>>
       ELSE /\ ddc' = IF (is_reg \/ iattrsta_has_delta(ista)) /\ old # tux3_delta(d)
                      THEN [ddc EXCEPT ![old] = [present |-> TRUE, a |-> attrs]]
                      ELSE ddc
            /\ ista' = iattrsta_update(d)
    /\ wpc' = [wpc EXCEPT ![w] = "forked"]
    /\ UNCHANGED <<is_reg, attrs, delta, marshal, bphase, wdelta, wop, wval,
                   i_mutex, dirtied, frozen, committed>>

\* The change itself, with no tuxnode->lock: the attribute is written.  A
\* window of the draining delta also changes what that delta ends with.
change_attr(w) ==
    /\ wpc[w] = "forked"
    /\ IF wop[w] = "data"
       THEN UNCHANGED <<attrs, frozen>>
       ELSE /\ attrs' = [attrs EXCEPT ![AttrOf(wop[w])] = wval[w]]
            /\ frozen' = IF bphase = "drain" /\ wdelta[w] = marshal
                         THEN [frozen EXCEPT ![AttrOf(wop[w])] = wval[w]]
                         ELSE frozen
    /\ dirtied' = dirtied \cup {wdelta[w]}
    /\ wpc' = [wpc EXCEPT ![w] = "changed"]
    /\ UNCHANGED <<is_reg, ista, ddc, delta, marshal, bphase, wdelta, wop,
                   wval, i_mutex, committed>>

\* change_end(); mutex_unlock(i_mutex).
change_end(w) ==
    /\ wpc[w] = "changed"
    /\ wpc' = [wpc EXCEPT ![w] = "idle"]
    /\ i_mutex' = IF i_mutex = w THEN None ELSE i_mutex
    /\ UNCHANGED <<is_reg, attrs, ista, ddc, delta, marshal, bphase, wdelta,
                   wop, wval, dirtied, frozen, committed>>

-----------------------------------------------------------------------------
(* Backend.                                                               *)

\* The delta transition: the frontend moves on; the attributes as they
\* stand are those of the marshalled delta unless one of its windows is
\* still open.
Transition ==
    /\ bphase = "idle"
    /\ marshal' = delta
    /\ delta' = (delta + 1) % DeltaMod
    /\ bphase' = "drain"
    /\ frozen' = attrs
    /\ UNCHANGED <<is_reg, attrs, ista, ddc, wpc, wdelta, wop, wval, i_mutex,
                   dirtied, committed>>

Drained == \A w \in Writers : wpc[w] = "idle" \/ wdelta[w] # marshal

\* Mutant: the state is left dirty after reading from the inode.
tux3_iattr_read_noclear ==
    /\ bphase = "drain" /\ Drained
    /\ IF marshal \in dirtied
       THEN /\ IF ~iattrsta_has_delta(ista)
                  \/ iattrsta_get_delta(ista) = tux3_delta(marshal)
               THEN committed' = attrs
               ELSE committed' = ddc[tux3_delta(marshal)].a
            /\ ddc' = [ddc EXCEPT ![tux3_delta(marshal)].present = FALSE]
       ELSE UNCHANGED <<committed, ddc>>
    /\ dirtied' = dirtied \ {marshal}
    /\ bphase' = "idle"
    /\ UNCHANGED <<is_reg, attrs, ista, delta, marshal, wpc, wdelta, wop,
                   wval, i_mutex, frozen>>

\* The flush of the inode for the marshalled delta, when it is dirty for
\* it: tux3_iattr_read_and_clear() under tuxnode->lock.  If the state is
\* clean or names this delta the inode's own attributes are read and the
\* state is cleared; otherwise the forked slot is read.  Then the slot is
\* poisoned (present = TUX3_INVALID_PRESENT).
tux3_iattr_read_and_clear ==
    /\ bphase = "drain" /\ Drained
    /\ IF marshal \in dirtied
       THEN /\ IF ~iattrsta_has_delta(ista)
                  \/ iattrsta_get_delta(ista) = tux3_delta(marshal)
               THEN committed' = attrs /\ ista' = iattrsta_clear
               ELSE committed' = ddc[tux3_delta(marshal)].a /\ UNCHANGED ista
            /\ ddc' = [ddc EXCEPT ![tux3_delta(marshal)].present = FALSE]
       ELSE UNCHANGED <<committed, ddc, ista>>
    /\ dirtied' = dirtied \ {marshal}
    /\ bphase' = "idle"
    /\ UNCHANGED <<is_reg, attrs, delta, marshal, wpc, wdelta, wop, wval,
                   i_mutex, frozen>>

Next ==
    \/ \E w \in Writers :
         \/ \E op \in Ops, v \in Vals : change_begin(w, op, v)
         \/ tux3_iattrdirty(w) \/ change_attr(w) \/ change_end(w)
    \/ Transition
    \/ tux3_iattr_read_and_clear

Spec == Init /\ [][Next]_vars

-----------------------------------------------------------------------------
(* Properties.                                                            *)

TypeOK ==
    /\ is_reg \in BOOLEAN /\ attrs \in AttrVals
    /\ ista \in 0 .. TUX3_MAX_DELTA
    /\ ddc \in [Slots -> [present : BOOLEAN, a : AttrVals]]
    /\ delta \in Deltas /\ marshal \in Deltas /\ bphase \in {"idle", "drain"}
    /\ wpc \in [Writers -> {"idle", "begun", "forked", "changed"}]
    /\ wdelta \in [Writers -> Deltas] /\ wop \in [Writers -> Ops]
    /\ wval \in [Writers -> Vals] /\ i_mutex \in Writers \cup {None}
    /\ dirtied \subseteq Deltas
    /\ frozen \in AttrVals /\ committed \in AttrVals

\* The claim of the file's header: the backend of delta d reads the inode's
\* attributes exactly as the changes of d (and of no later delta) left
\* them, whether it takes them from the inode or from the forked slot.
BackendSeesItsDelta ==
    [][bphase = "drain" /\ bphase' = "idle" /\ marshal \in dirtied
       => committed' = frozen]_vars

\* The assertion of tux3_iattr_read_and_clear(): when the state names
\* another delta, the slot of the marshalled delta holds a fork.
ForkedSlotPresent ==
    bphase = "drain" /\ Drained /\ marshal \in dirtied
    /\ iattrsta_has_delta(ista) /\ iattrsta_get_delta(ista) # tux3_delta(marshal)
    => ddc[tux3_delta(marshal)].present

=============================================================================
