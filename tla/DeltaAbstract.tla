---------------------------- MODULE DeltaAbstract ----------------------------
(***************************************************************************)
(* What the delta engine promises, with no reference counts, slots, bits   *)
(* or worker loop.  A change window joins the frontend delta, or the       *)
(* delta being marshalled while that one still drains; a delta is flushed  *)
(* only once no window holds it; a sync returns only once every change     *)
(* that had ended before it was asked for is committed.                    *)
(*                                                                         *)
(* Delta numbers are unsigned and wrap: they live in 0 .. DeltaMod - 1.    *)
(***************************************************************************)
EXTENDS Naturals

CONSTANTS Writers, Syncers, DeltaMod, None

ASSUME None \notin 0 .. DeltaMod - 1

VARIABLES
    delta,      \* the frontend delta
    marshal,    \* the delta the backend took last
    phase,      \* "idle", "drain" (windows of marshal may remain), "flush"
    held,       \* held[w]: the delta of w's open change window, or None
    dirty_in,   \* deltas holding ended changes that are not committed
    sync,       \* sync[s]: "idle" or "wait"
    need        \* need[s]: the deltas sync s must see committed

absvars == <<delta, marshal, phase, held, dirty_in, sync, need>>

Deltas == 0 .. DeltaMod - 1
Next1(d) == (d + 1) % DeltaMod

AInit ==
    /\ delta \in Deltas
    /\ marshal = (delta + DeltaMod - 1) % DeltaMod
    /\ phase = "idle"
    /\ held = [w \in Writers |-> None]
    /\ dirty_in = {}
    /\ sync = [s \in Syncers |-> "idle"]
    /\ need = [s \in Syncers |-> {}]

\* A window opens on the frontend delta, or late on a draining one.
Begin(w) ==
    /\ held[w] = None
    /\ \E d \in {delta} \cup (IF phase = "drain" THEN {marshal} ELSE {}) :
         held' = [held EXCEPT ![w] = d]
    /\ UNCHANGED <<delta, marshal, phase, dirty_in, sync, need>>

\* A window closes; its change belongs to its delta.
End(w) ==
    /\ held[w] # None
    /\ held' = [held EXCEPT ![w] = None]
    /\ dirty_in' = dirty_in \cup {held[w]}
    /\ UNCHANGED <<delta, marshal, phase, sync, need>>

\* The backend takes the frontend delta; the frontend moves on.
ATransition ==
    /\ phase = "idle"
    /\ marshal' = delta
    /\ delta' = Next1(delta)
    /\ phase' = "drain"
    /\ UNCHANGED <<held, dirty_in, sync, need>>

\* The flush starts only once no window holds the marshalled delta.
StartFlush ==
    /\ phase = "drain"
    /\ \A w \in Writers : held[w] # marshal
    /\ phase' = "flush"
    /\ UNCHANGED <<delta, marshal, held, dirty_in, sync, need>>

\* The marshalled delta is committed.
Commit ==
    /\ phase = "flush"
    /\ phase' = "idle"
    /\ dirty_in' = dirty_in \ {marshal}
    /\ UNCHANGED <<delta, marshal, held, sync, need>>

Request(s) ==
    /\ sync[s] = "idle"
    /\ sync' = [sync EXCEPT ![s] = "wait"]
    /\ need' = [need EXCEPT ![s] = dirty_in]
    /\ UNCHANGED <<delta, marshal, phase, held, dirty_in>>

\* A sync returns once what it needs is on disk.
Complete(s) ==
    /\ sync[s] = "wait"
    /\ need[s] \cap dirty_in = {}
    /\ sync' = [sync EXCEPT ![s] = "idle"]
    /\ UNCHANGED <<delta, marshal, phase, held, dirty_in, need>>

ANext ==
    \/ \E w \in Writers : Begin(w) \/ End(w)
    \/ ATransition \/ StartFlush \/ Commit
    \/ \E s \in Syncers : Request(s) \/ Complete(s)

ASpec == AInit /\ [][ANext]_absvars

=============================================================================
