----------------------------- MODULE TurnRecord -----------------------------
(***************************************************************************)
(* The record of one turn in the thread store and the tasks that read,     *)
(* change and write it back without a lock between load_turn and           *)
(* save_turn: the monitor, which attaches items while the turn runs and    *)
(* saves the final status (monitor.rs, monitor_persist.rs), steer_turn     *)
(* calls (turn_control.rs) and the recovery of a restart (manager.rs).     *)
(*                                                                         *)
(* Every store call locks the connection for itself: it is one step.  The  *)
(* item that a steer adds has the name of the steer.  Left out: the inbox  *)
(* row of a steer (never drained), usage, timestamps and error texts.      *)
(***************************************************************************)
EXTENDS Naturals, FiniteSets

CONSTANTS
    Steers,      \* steer_turn calls
    Items,       \* items the monitor attaches
    NoItem,
    MaxCrashes   \* bound on process deaths

ASSUME NamesAssumption ==
    IsFiniteSet(Steers) /\ IsFiniteSet(Items) /\ Steers \cap Items = {} /\ NoItem \notin Items
ASSUME CrashesAssumption == MaxCrashes \in Nat

VARIABLES
    up,        \* the manager is open
    rec,       \* turns table: [status, items: item_ids, steer_count]
    rows,      \* items table: ids that have a row
    active,    \* the turn is the active_turn of its thread
    mon,       \* the monitor: [pc, snap: the record it loaded, item]
    steer,     \* steer -> [pc, snap]
    replied,   \* history: steers that returned Ok
    crashes

vars == <<up, rec, rows, active, mon, steer, replied, crashes>>

Ids     == Steers \cup Items
Ended   == {"Completed", "Failed", "Interrupted"}
Records == [status : {"InProgress"} \cup Ended, items : SUBSET Ids, steer_count : Nat]

Fresh == [status |-> "InProgress", items |-> {}, steer_count |-> 0]

\* start_turn_promoted has saved the record, activated the turn and spawned the
\* monitor.
Init ==
    /\ up = TRUE
    /\ rec = Fresh
    /\ rows = {}
    /\ active = TRUE
    /\ mon = [pc |-> "run", snap |-> Fresh, item |-> NoItem]
    /\ steer = [s \in Steers |-> [pc |-> "idle", snap |-> Fresh]]
    /\ replied = {}
    /\ crashes = 0

-----------------------------------------------------------------------------
(* The monitor. *)

MonitorAt(l) == up /\ mon.pc = l
MonitorTo(l) == mon' = [mon EXCEPT !.pc = l]

\* Mutant of SaveItem: the record names the item before it has a row.
SaveItemLater(i) ==
    /\ MonitorAt("run") /\ i \notin rows \cup rec.items
    /\ mon' = [mon EXCEPT !.pc = "load", !.item = i]
    /\ UNCHANGED <<up, rec, rows, active, steer, replied, crashes>>

\* save_item_and_attach_blocking: the row, then load_turn, then save_turn.
SaveItem(i) ==
    /\ MonitorAt("run") /\ i \notin rows \cup rec.items
    /\ rows' = rows \cup {i}
    /\ mon' = [mon EXCEPT !.pc = "load", !.item = i]
    /\ UNCHANGED <<up, rec, active, steer, replied, crashes>>

LoadToAttach ==
    /\ MonitorAt("load")
    /\ mon' = [mon EXCEPT !.pc = IF mon.item \in rec.items THEN "run" ELSE "attach", !.snap = rec]
    /\ UNCHANGED <<up, rec, rows, active, steer, replied, crashes>>

Attach ==
    /\ MonitorAt("attach")
    /\ rec' = [mon.snap EXCEPT !.items = @ \cup {mon.item}]
    /\ MonitorTo("run")
    /\ UNCHANGED <<up, rows, active, steer, replied, crashes>>

\* The loop is over: reload immediately before the save.
LoadToEnd ==
    /\ MonitorAt("run")
    /\ mon' = [mon EXCEPT !.pc = "end", !.snap = rec]
    /\ UNCHANGED <<up, rec, rows, active, steer, replied, crashes>>

SaveEnd(status) ==
    /\ MonitorAt("end")
    /\ rec' = [mon.snap EXCEPT !.status = status]
    /\ MonitorTo("clear")
    /\ UNCHANGED <<up, rows, active, steer, replied, crashes>>

ClearActive ==
    /\ MonitorAt("clear")
    /\ active' = FALSE
    /\ MonitorTo("done")
    /\ UNCHANGED <<up, rec, rows, steer, replied, crashes>>

\* An error of the store: the monitor ends where it is, the turn stays active.
MonitorFails ==
    /\ up /\ mon.pc # "done"
    /\ MonitorTo("done")
    /\ UNCHANGED <<up, rec, rows, active, steer, replied, crashes>>

-----------------------------------------------------------------------------
(* steer_turn. *)

SteerAt(s, l) == up /\ steer[s].pc = l
SteerTo(s, l) == steer' = [steer EXCEPT ![s].pc = l]

\* The active lock, then engine.steer, which fails when the engine is gone.
CheckActive(s) ==
    /\ SteerAt(s, "idle")
    /\ \/ active /\ SteerTo(s, "load")
       \/ SteerTo(s, "done")
    /\ UNCHANGED <<up, rec, rows, active, mon, replied, crashes>>

Steered(r, s) == [r EXCEPT !.steer_count = @ + 1, !.items = @ \cup {s}]

LoadToSteer(s) ==
    /\ SteerAt(s, "load")
    /\ steer' = [steer EXCEPT ![s] = [pc |-> "save", snap |-> Steered(rec, s)]]
    /\ UNCHANGED <<up, rec, rows, active, mon, replied, crashes>>

\* prompt.promoted was emitted in between; now save_turn, and then save_item.
SaveSteered(s) ==
    /\ SteerAt(s, "save")
    /\ rec' = steer[s].snap
    /\ SteerTo(s, "row")
    /\ UNCHANGED <<up, rows, active, mon, replied, crashes>>

SaveSteerItem(s) ==
    /\ SteerAt(s, "row")
    /\ rows' = rows \cup {s}
    /\ SteerTo(s, "done")
    /\ replied' = replied \cup {s}
    /\ UNCHANGED <<up, rec, active, mon, crashes>>

\* An error of the store: what was saved so far stays.
SteerFails(s) ==
    /\ up /\ steer[s].pc \in {"load", "save", "row"}
    /\ SteerTo(s, "done")
    /\ UNCHANGED <<up, rec, rows, active, mon, replied, crashes>>

-----------------------------------------------------------------------------
(* Crash and restart. *)

Crash ==
    /\ up /\ up' = FALSE
    /\ crashes < MaxCrashes /\ crashes' = crashes + 1
    /\ active' = FALSE
    /\ mon' = [mon EXCEPT !.pc = "done"]
    /\ steer' = [s \in Steers |-> [steer[s] EXCEPT !.pc = "done"]]
    /\ UNCHANGED <<rec, rows, replied>>

\* Mutants of Recovered: the items are read before the turn is saved, so that
\* a failed start changes nothing; recovered turns get a status of their own.
RecoveredIfComplete(r) ==
    IF r.items \subseteq rows THEN [r EXCEPT !.status = "Interrupted"] ELSE r
RecoveredAsNew(r) == [r EXCEPT !.status = "Recovered"]

Recovered(r) == [r EXCEPT !.status = "Interrupted"]

\* recover_interrupted_state: a turn in progress is saved as Interrupted, then
\* each of its items is loaded; a missing row fails the start-up.
Restart ==
    /\ ~up
    /\ IF rec.status = "InProgress"
       THEN rec' = Recovered(rec) /\ up' = (rec.items \subseteq rows)
       ELSE rec' = rec /\ up' = TRUE
    /\ UNCHANGED <<rows, active, mon, steer, replied, crashes>>

-----------------------------------------------------------------------------
MonitorStep ==
    \/ \E i \in Items : SaveItem(i)
    \/ LoadToAttach \/ Attach \/ LoadToEnd \/ (\E st \in Ended : SaveEnd(st))
    \/ ClearActive \/ MonitorFails

SteerStep(s) ==
    \/ CheckActive(s) \/ LoadToSteer(s) \/ SaveSteered(s) \/ SaveSteerItem(s)
    \/ SteerFails(s)

Next == MonitorStep \/ (\E s \in Steers : SteerStep(s)) \/ Crash \/ Restart

Spec == Init /\ [][Next]_vars

\* The desktop shell starts a sidecar that is not running again.
FairSpec == Spec /\ WF_vars(Restart)

-----------------------------------------------------------------------------
(* Properties. *)

\* Shapes of the variables.
TypeOK ==
    /\ up \in BOOLEAN /\ active \in BOOLEAN
    /\ rec \in Records /\ rows \subseteq Ids
    /\ mon \in [pc : {"run", "load", "attach", "end", "clear", "done"},
                snap : Records, item : Items \cup {NoItem}]
    /\ steer \in [Steers -> [pc : {"idle", "load", "save", "row", "done"}, snap : Records]]
    /\ replied \subseteq Steers
    /\ crashes \in 0..MaxCrashes

\* steer_count and item_ids never disagree about the number of steers, although
\* concurrent load/save pairs lose updates: they lose both or none.
CountMatchesItems == rec.steer_count = Cardinality(rec.items \cap Steers)

\* Whatever snapshot is written back last, an item of the monitor is named in
\* the record only after its row was saved, so that readers can load it.
AttachedHaveRows == rec.items \cap Items \subseteq rows

\* A crash can leave the id of a steer's item without a row and make the next
\* start-up fail; the manager still opens in the end.
OpensAgain == ~up ~> up

-----------------------------------------------------------------------------
(* What a comment says and the code does not keep. *)

\* "Reload immediately before save so concurrent steer_turn writes
\* (steer_count, item_ids) are not overwritten by a stale snapshot": a steer that
\* returned Ok stays in the record.
SteersSurvive == replied \subseteq rec.items

=============================================================================
