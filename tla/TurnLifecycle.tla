--------------------------- MODULE TurnLifecycle ---------------------------
(***************************************************************************)
(* The life of the turns of one thread in the runtime orchestrator         *)
(* (crates/runtime-orchestrator/src/runtime_threads): start_turn admits a  *)
(* prompt to the durable inbox, starts a turn when the thread is idle or   *)
(* queues the prompt behind the running one; a monitor task follows each   *)
(* turn, records its end and drains the next queued prompt; interrupts,    *)
(* manual compactions, engine unloads, failing steps and process restarts  *)
(* happen in between.                                                      *)
(*                                                                         *)
(* Every step below is one critical section of the code (the `active`      *)
(* mutex, the `coordinators` mutex, one statement on the SQLite store or   *)
(* one channel operation); whatever lies between two awaits of different   *)
(* tasks may interleave.  A turn is named by the prompt it was started     *)
(* for: only the task that wins promote_session_input saves a turn record. *)
(* Abstracted: prompt text, items, token usage, thread.status events and   *)
(* the deltas a turn streams.                                              *)
(***************************************************************************)
EXTENDS Naturals, Sequences, FiniteSets

CONSTANTS
    Calls,          \* POST /turns requests; each carries one prompt
    Compactions,    \* POST /compact requests
    NoTurn,
    Deliveries,     \* StartTurnRequest.delivery values: "none", "queue", "steer"
    Serial,         \* TRUE: a client sends a request only after the last reply
    MaxEngines,     \* bound on engine spawns
    MaxInterrupts,  \* bound on interrupt_turn calls
    MaxUnloads,     \* bound on evictions and config refreshes
    MaxFailures,    \* bound on failing steps and on clients that hang up
    MaxCrashes      \* bound on process deaths

Turns == Calls \cup Compactions

ASSUME TurnsAssumption ==
    /\ IsFiniteSet(Calls) /\ IsFiniteSet(Compactions)
    /\ Calls \cap Compactions = {} /\ NoTurn \notin Turns
ASSUME DeliveriesAssumption ==
    Deliveries \subseteq {"none", "queue", "steer"} /\ Serial \in BOOLEAN
ASSUME BoundsAssumption ==
    /\ MaxEngines \in Nat \ {0} /\ MaxInterrupts \in Nat /\ MaxUnloads \in Nat
    /\ MaxFailures \in Nat /\ MaxCrashes \in Nat

VARIABLES
    up,        \* the sidecar process is alive
    row,       \* session_input: call -> [st, seq, delivery]
    turn,      \* turns table: turn -> status, "none" if there is no record
    active,    \* ActiveThreadState.active_turn: [turn, interrupt_requested]
    loaded,    \* the engine in ActiveThreads.engines, 0 if none
    refresh,   \* ActiveThreadState.pending_config_refresh
    co,        \* the coordinator's Entry: [draining, pending, interrupt_seq, wake_seq]
    eng,       \* engine -> [ops, run, cancel, events, live, closing]
    spawned,   \* engines spawned so far
    proc,      \* process -> [pc, adm: the admission it starts, h: its EngineHandle]
    req,       \* call -> [seq, delivery]: locals of start_turn
    stat,      \* turn -> turn_status of its monitor
    intr,      \* the interrupt_turn call in flight: [pc, seq, turn]
    reply,     \* history: call -> what start_turn / compact_thread returned
    started,   \* history: turn -> number of ops an engine accepted for it
    ended,     \* history: turn -> number of turn.completed events
    dropped,   \* history: turns whose starting task or monitor ended early
    budget     \* [interrupts, unloads, failures, crashes] used so far

store == <<row, turn>>
mem   == <<active, loaded, refresh>>
engs  == <<eng, spawned>>
procs == <<proc, req, stat>>
hist  == <<reply, started, ended, dropped>>
vars  == <<up, store, mem, co, engs, procs, intr, hist, budget>>

Client(t)  == <<"client", t>>
Monitor(t) == <<"monitor", t>>
Procs      == {"client", "monitor"} \X Turns
Engines    == 1..MaxEngines

Ended      == {"Completed", "Failed", "Interrupted"}
NoActive   == [turn |-> NoTurn, interrupt_requested |-> FALSE]
NoEntry    == [draining |-> FALSE, pending |-> "none", interrupt_seq |-> 0, wake_seq |-> 0]
Resting    == [pc |-> "idle", adm |-> NoTurn, h |-> 0]
Finished   == [pc |-> "done", adm |-> NoTurn, h |-> 0]
NoIntr     == [pc |-> "idle", seq |-> 0, turn |-> NoTurn]
FreshEngine == [ops |-> <<>>, run |-> NoTurn, cancel |-> FALSE, events |-> <<>>,
                live |-> TRUE, closing |-> FALSE]

Max(a, b) == IF a > b THEN a ELSE b
At(p, l) == up /\ proc[p].pc = l
\* A task that is done has no locals left.
Goto(p, l) == proc' = [proc EXCEPT ![p] = IF l = "done" THEN Finished ELSE [@ EXCEPT !.pc = l]]
Spend(what) == budget' = [budget EXCEPT ![what] = @ + 1]

Init ==
    /\ up = TRUE
    /\ row = [c \in Calls |-> [st |-> "none", seq |-> 0, delivery |-> "queue"]]
    /\ turn = [t \in Turns |-> "none"]
    /\ active = NoActive /\ loaded = 0 /\ refresh = FALSE
    /\ co = NoEntry
    /\ eng = [e \in Engines |-> FreshEngine] /\ spawned = 0
    /\ proc = [p \in Procs |-> Resting]
    /\ req = [c \in Calls |-> [seq |-> 0, delivery |-> "none"]]
    /\ stat = [t \in Turns |-> "Completed"]
    /\ intr = NoIntr
    /\ reply = [t \in Turns |-> "none"]
    /\ started = [t \in Turns |-> 0]
    /\ ended = [t \in Turns |-> 0]
    /\ dropped = {}
    /\ budget = [interrupts |-> 0, unloads |-> 0, failures |-> 0, crashes |-> 0]

-----------------------------------------------------------------------------
(* TurnCoordinator: the entry of this thread.  A removed entry is the      *)
(* default one; `current` is only ever written and is left out.            *)

Coalesce(left, right) == IF left = "Run" \/ right = "Run" THEN "Run" ELSE "Wake"

\* request_run: an entry that drains already only records the demand.
RequestRunEntry(e) ==
    IF e.draining THEN [e EXCEPT !.pending = Coalesce(@, "Run")]
                  ELSE [e EXCEPT !.draining = TRUE]

Suppressed(e, seq) == seq <= e.interrupt_seq

\* request_wake of a sequence number that is not suppressed.
RequestWakeEntry(e, seq) ==
    LET w == [e EXCEPT !.wake_seq = Max(@, seq)]
    IN IF e.draining THEN [w EXCEPT !.pending = Coalesce(@, "Wake")]
                     ELSE [w EXCEPT !.draining = TRUE]

\* finish_drain: what is left of the entry, and whether a follow-up is due.
FollowUp(e) == e.draining /\ e.pending # "none"

FinishDrainEntry(e) ==
    IF ~e.draining THEN e
    ELSE IF e.pending = "none" THEN NoEntry ELSE [e EXCEPT !.pending = "none"]

\* interrupt: raise the boundary and drop an older pending wake.
InterruptEntry(e, seq) ==
    LET b == Max(e.interrupt_seq, seq)
    IN [e EXCEPT !.interrupt_seq = b,
                 !.pending = IF @ = "Wake" /\ e.wake_seq <= b THEN "none" ELSE @]

-----------------------------------------------------------------------------
(* The prompt inbox (session_input). *)

Rows == {c \in Calls : row[c].st # "none"}

\* COALESCE(MAX(admitted_seq), 0) + 1: a read, nothing is reserved.
NextSeq == IF Rows = {} THEN 1
           ELSE 1 + row[CHOOSE c \in Rows : \A d \in Rows : row[d].seq <= row[c].seq].seq

PendingQueue == {c \in Rows : row[c].st = "pending" /\ row[c].delivery = "queue"}

\* next_pending_queue: a pending queue row with the least admitted_seq.
OldestPending == {c \in PendingQueue : \A d \in PendingQueue : row[c].seq <= row[d].seq}

-----------------------------------------------------------------------------
(* start_turn and compact_thread, up to start_turn_promoted. *)

Waiting(p) == proc[p].pc \in {"idle", "done"}

MaySend == Serial => \A t \in Turns : Waiting(Client(t))

\* A request returns to its client.
Answer(t, l, outcome) ==
    /\ Goto(Client(t), l)
    /\ reply' = [reply EXCEPT ![t] = outcome]

\* allocate_session_input_seq; its error is that of Admit: nothing is stored.
StartTurn(c, delivery) ==
    /\ At(Client(c), "idle") /\ MaySend
    /\ req' = [req EXCEPT ![c] = [seq |-> NextSeq, delivery |-> delivery]]
    /\ Goto(Client(c), "admit")
    /\ UNCHANGED <<up, store, mem, co, engs, stat, intr, hist, budget>>

\* admit_session_input: a missing delivery is stored as queue.
Admit(c) ==
    /\ At(Client(c), "admit")
    /\ row' = [row EXCEPT ![c] = [st |-> "pending", seq |-> req[c].seq,
                delivery |-> IF req[c].delivery = "steer" THEN "steer" ELSE "queue"]]
    /\ Goto(Client(c), "check")
    /\ UNCHANGED <<up, turn, mem, co, engs, req, stat, intr, hist, budget>>

\* The active lock is taken to read active_turn and released again.
CheckActive(c) ==
    /\ At(Client(c), "check")
    /\ \/ /\ active.turn # NoTurn
          /\ req[c].delivery # "queue"
          /\ Answer(c, "done", "busy")
       \/ /\ active.turn # NoTurn
          /\ req[c].delivery = "queue"
          /\ Goto(Client(c), "wake") /\ reply' = reply
       \/ /\ active.turn = NoTurn
          /\ Goto(Client(c), "run") /\ reply' = reply
    /\ UNCHANGED <<up, store, mem, co, engs, req, stat, intr, started, ended, dropped, budget>>

RequestWake(c) ==
    /\ At(Client(c), "wake")
    /\ IF Suppressed(co, req[c].seq)
       THEN Answer(c, "done", "suppressed") /\ co' = co
       ELSE Goto(Client(c), "queued") /\ reply' = reply /\ co' = RequestWakeEntry(co, req[c].seq)
    /\ UNCHANGED <<up, store, mem, engs, req, stat, intr, started, ended, dropped, budget>>

\* prompt.admitted is emitted and the running turn is loaded for the answer.
AnswerQueued(c) ==
    /\ At(Client(c), "queued")
    /\ Answer(c, "done", "queued")
    /\ UNCHANGED <<up, store, mem, co, engs, req, stat, intr, started, ended, dropped, budget>>

\* The action request_run returns is ignored: the caller starts its turn anyway.
RequestRun(c) ==
    /\ At(Client(c), "run")
    /\ co' = RequestRunEntry(co)
    /\ proc' = [proc EXCEPT ![Client(c)] = [pc |-> "load", adm |-> c, h |-> 0]]
    /\ UNCHANGED <<up, store, mem, engs, req, stat, intr, hist, budget>>

CompactThread(k) ==
    /\ At(Client(k), "idle") /\ MaySend
    /\ proc' = [proc EXCEPT ![Client(k)] = [pc |-> "load", adm |-> k, h |-> 0]]
    /\ UNCHANGED <<up, store, mem, co, engs, req, stat, intr, hist, budget>>

-----------------------------------------------------------------------------
(* start_turn_promoted, run by a client's request or by a monitor's drain, *)
(* and the steps compact_thread shares with it.                            *)

\* What follows ensure_engine_loaded: the inbox for a prompt, the check for a
\* running turn for a compaction.
AfterLoad(t) == IF t \in Calls THEN "promote" ELSE "idle?"

\* ensure_engine_loaded: the cached engine, or none and a new one is spawned.
EnsureLoaded(p) ==
    /\ At(p, "load")
    /\ proc' = [proc EXCEPT ![p].pc = IF loaded # 0 THEN AfterLoad(proc[p].adm) ELSE "spawn",
                            ![p].h = loaded]
    /\ UNCHANGED <<up, store, mem, co, engs, req, stat, intr, hist, budget>>

\* The new engine is inserted without a second look: an engine another task
\* loaded meanwhile, and its active_turn, are overwritten.
InsertEngine(p) ==
    /\ At(p, "spawn")
    /\ spawned < MaxEngines
    /\ spawned' = spawned + 1
    /\ loaded' = spawned' /\ active' = NoActive /\ refresh' = FALSE
    /\ proc' = [proc EXCEPT ![p].pc = AfterLoad(proc[p].adm), ![p].h = spawned']
    /\ UNCHANGED <<up, store, co, eng, req, stat, intr, hist, budget>>

CompactCheck(k) ==
    /\ At(Client(k), "idle?")
    /\ IF active.turn # NoTurn THEN Answer(k, "done", "busy")
                               ELSE Goto(Client(k), "save") /\ reply' = reply
    /\ UNCHANGED <<up, store, mem, co, engs, req, stat, intr, started, ended, dropped, budget>>

\* A task ends early: a turn it had already saved is left as it is.
Leave(p) ==
    /\ Goto(p, "done")
    /\ dropped' = IF proc[p].pc \in {"activate", "send", "rollback", "report", "unset"}
                  THEN dropped \cup {proc[p].adm} ELSE dropped

\* It gives up with an error: a request answers it, a drain only logs it.
GiveUp(p) ==
    /\ Leave(p)
    /\ reply' = IF p[1] = "client" THEN [reply EXCEPT ![p[2]] = "error"] ELSE reply

Proceed(p, l) == Goto(p, l) /\ UNCHANGED <<reply, dropped>>

\* Mutant of PromoteRow: the UPDATE lacks AND promoted_seq IS NULL.
PromoteAnyRow(p) ==
    /\ row' = [row EXCEPT ![proc[p].adm].st = "promoted"]
    /\ Proceed(p, "save")

\* UPDATE session_input ... WHERE promoted_seq IS NULL; no row, no turn.
PromoteRow(p) ==
    IF row[proc[p].adm].st = "pending"
    THEN /\ row' = [row EXCEPT ![proc[p].adm].st = "promoted"]
         /\ Proceed(p, "save")
    ELSE GiveUp(p) /\ row' = row

Promote(p) ==
    /\ At(p, "promote")
    /\ PromoteRow(p)
    /\ UNCHANGED <<up, turn, mem, co, engs, req, stat, intr, started, ended, budget>>

\* save_item, save_turn, save_thread: the turn is InProgress.
SaveTurn(p) ==
    /\ At(p, "save")
    /\ turn' = [turn EXCEPT ![proc[p].adm] = "InProgress"]
    /\ Goto(p, "activate")
    /\ UNCHANGED <<up, row, mem, co, engs, req, stat, intr, hist, budget>>

\* Set active_turn; bail out if the engine was unloaded meanwhile.
Activate(p) ==
    /\ At(p, "activate")
    /\ IF loaded = 0 THEN GiveUp(p) /\ active' = active
       ELSE /\ active' = [turn |-> proc[p].adm, interrupt_requested |-> FALSE]
            /\ Proceed(p, "send")
    /\ UNCHANGED <<up, store, loaded, refresh, co, engs, req, stat, intr,
                   started, ended, budget>>

\* engine.start_turn / engine.send: the op enters the engine's channel, unless
\* its receiver is gone, and a monitor is spawned.
SendOp(p) ==
    /\ At(p, "send")
    /\ LET t == proc[p].adm
           e == proc[p].h
       IN /\ eng[e].live
          /\ eng' = [eng EXCEPT ![e].ops = Append(@, t)]
          /\ started' = [started EXCEPT ![t] = @ + 1]
          /\ proc' = [proc EXCEPT ![p] = Finished,
                          ![Monitor(t)] = [pc |-> "receive", adm |-> NoTurn, h |-> e]]
    /\ reply' = IF p[1] = "client" THEN [reply EXCEPT ![p[2]] = "ok"] ELSE reply
    /\ UNCHANGED <<up, store, mem, co, spawned, req, stat, intr, ended, dropped, budget>>

\* The op is refused (the receiver is gone, or, as a failure, its parameters
\* are invalid): start_turn_promoted rolls back, compact_thread just returns.
Refused(p) == IF proc[p].adm \in Calls THEN Proceed(p, "rollback") ELSE GiveUp(p)

\* Mutant of SendFails: the monitor is spawned before the op is sent.
SendFailsMonitored(p) ==
    /\ At(p, "send") /\ ~eng[proc[p].h].live /\ proc[p].adm \in Calls
    /\ proc' = [proc EXCEPT ![p].pc = "rollback",
                    ![Monitor(proc[p].adm)] = [pc |-> "receive", adm |-> NoTurn, h |-> proc[p].h]]
    /\ UNCHANGED <<up, store, mem, co, engs, req, stat, intr, hist, budget>>

SendFails(p) ==
    /\ At(p, "send")
    /\ \/ ~eng[proc[p].h].live /\ budget' = budget
       \/ /\ eng[proc[p].h].live
          /\ budget.failures < MaxFailures /\ Spend("failures")
    /\ Refused(p)
    /\ UNCHANGED <<up, store, mem, co, engs, req, stat, intr, started, ended>>

\* Another step fails (spawn, store, events or parameter preparation): `?`
\* leaves everything done so far as it is.
StartFails(p) ==
    /\ up /\ proc[p].pc \in {"admit", "queued", "load", "spawn", "promote", "save", "activate",
                            "rollback", "report", "unset"}
    /\ budget.failures < MaxFailures /\ Spend("failures")
    /\ GiveUp(p)
    /\ UNCHANGED <<up, store, mem, co, engs, req, stat, intr, started, ended>>

\* The client of a request hangs up: its handler awaits start_turn or
\* compact_thread itself and is dropped with it at the next await.  A store
\* write that spawn_blocking runs (promote to save, rollback) is not dropped.
HangUp(t) ==
    LET p == Client(t) IN
    /\ up /\ proc[p].pc \in {"check", "wake", "queued", "run", "load", "spawn", "idle?", "promote",
                            "activate", "send", "report", "unset", "undrain"}
    /\ budget.failures < MaxFailures /\ Spend("failures")
    /\ Leave(p)
    /\ UNCHANGED <<up, store, mem, co, engs, req, stat, intr, reply, started, ended>>

\* rollback_failed_turn_start: the record, its event, active_turn, the drain.
RollbackSave(p) ==
    /\ At(p, "rollback")
    /\ turn' = [turn EXCEPT ![proc[p].adm] = "Failed"]
    /\ Goto(p, "report")
    /\ UNCHANGED <<up, row, mem, co, engs, req, stat, intr, hist, budget>>

RollbackReport(p) ==
    /\ At(p, "report")
    /\ ended' = [ended EXCEPT ![proc[p].adm] = @ + 1]
    /\ Goto(p, "unset")
    /\ UNCHANGED <<up, store, mem, co, engs, req, stat, intr, reply, started, dropped, budget>>

RollbackClear(p) ==
    /\ At(p, "unset")
    /\ active' = IF active.turn = proc[p].adm THEN NoActive ELSE active
    /\ Goto(p, "undrain")
    /\ UNCHANGED <<up, store, loaded, refresh, co, engs, req, stat, intr, hist, budget>>

RollbackDrain(p) ==
    /\ At(p, "undrain")
    /\ co' = FinishDrainEntry(co)
    /\ GiveUp(p)
    /\ UNCHANGED <<up, store, mem, engs, req, stat, intr, started, ended, budget>>

-----------------------------------------------------------------------------
(* monitor_turn. *)

\* Mutant of Receive: the monitor drains the channel and keeps the last event.
ReceiveAll(t) ==
    LET p == Monitor(t)
        e == proc[p].h
    IN /\ At(p, "receive")
       /\ eng[e].events # <<>>
       /\ stat' = [stat EXCEPT ![t] = eng[e].events[Len(eng[e].events)]]
       /\ eng' = [eng EXCEPT ![e].events = <<>>]
       /\ Goto(p, "flag")
       /\ UNCHANGED <<up, store, mem, co, spawned, req, intr, hist, budget>>

\* Receive the next TurnComplete of the engine; the event does not say for
\* which monitor it is, and every monitor of the engine shares the channel.
Receive(t) ==
    LET p == Monitor(t)
        e == proc[p].h
    IN /\ At(p, "receive")
       /\ eng[e].events # <<>>
       /\ stat' = [stat EXCEPT ![t] = Head(eng[e].events)]
       /\ eng' = [eng EXCEPT ![e].events = Tail(@)]
       /\ Goto(p, "flag")
       /\ UNCHANGED <<up, store, mem, co, spawned, req, intr, hist, budget>>

\* The channel is closed: Completed, or Failed after an Error event.
ChannelClosed(t, status) ==
    LET p == Monitor(t)
        e == proc[p].h
    IN /\ At(p, "receive")
       /\ eng[e].events = <<>> /\ ~eng[e].live
       /\ stat' = [stat EXCEPT ![t] = status]
       /\ Goto(p, "flag")
       /\ UNCHANGED <<up, store, mem, co, engs, req, intr, hist, budget>>

\* is_interrupt_requested overrides the status the engine reported.
ReadFlag(t) ==
    /\ At(Monitor(t), "flag")
    /\ stat' = [stat EXCEPT ![t] =
                    IF active = [turn |-> t, interrupt_requested |-> TRUE]
                    THEN "Interrupted" ELSE @]
    /\ Goto(Monitor(t), "final")
    /\ UNCHANGED <<up, store, mem, co, engs, req, intr, hist, budget>>

SaveFinal(t) ==
    /\ At(Monitor(t), "final")
    /\ turn' = [turn EXCEPT ![t] = stat[t]]
    /\ Goto(Monitor(t), "emit")
    /\ UNCHANGED <<up, row, mem, co, engs, req, stat, intr, hist, budget>>

EmitCompleted(t) ==
    /\ At(Monitor(t), "emit")
    /\ ended' = [ended EXCEPT ![t] = @ + 1]
    /\ Goto(Monitor(t), "clear")
    /\ UNCHANGED <<up, store, mem, co, engs, req, stat, intr, reply, started, dropped, budget>>

\* Mutant of ClearedActive: active_turn is left alone.
KeepActive(t) == active

\* The active lock: clear active_turn if it is still this turn.
ClearedActive(t) == IF active.turn = t THEN NoActive ELSE active

ClearActive(t) ==
    /\ At(Monitor(t), "clear")
    /\ active' = ClearedActive(t)
    /\ refresh' = FALSE
    /\ Goto(Monitor(t), IF loaded # 0 /\ refresh THEN "unload" ELSE "drain")
    /\ UNCHANGED <<up, store, loaded, co, engs, req, stat, intr, hist, budget>>

\* Under the lock the engine leaves the map; Shutdown is sent once it is released.
Unloaded ==
    /\ loaded' = 0 /\ refresh' = FALSE
    /\ eng' = [eng EXCEPT ![loaded].closing = TRUE]
    /\ UNCHANGED <<active, spawned>>

\* Op::Shutdown (NoTurn) enters the channel behind the ops already sent.
SendShutdown(e) ==
    /\ up /\ eng[e].closing
    /\ eng' = [eng EXCEPT ![e].closing = FALSE, ![e].ops = Append(@, NoTurn)]
    /\ UNCHANGED <<up, store, mem, co, spawned, procs, intr, hist, budget>>

\* unload_idle_thread_engine, refused while a turn is active.
UnloadAfterTurn(t) ==
    /\ At(Monitor(t), "unload")
    /\ \/ /\ loaded # 0 /\ active.turn = NoTurn
          /\ Unloaded
          /\ proc' = [proc EXCEPT ![Monitor(t)].pc = "shutdown", ![Monitor(t)].h = loaded]
       \/ /\ loaded = 0 \/ active.turn # NoTurn
          /\ UNCHANGED <<mem, engs>>
          /\ Goto(Monitor(t), "drain")
    /\ UNCHANGED <<up, store, co, req, stat, intr, hist, budget>>

\* It returns when Shutdown is in the channel.
UnloadReturns(t) ==
    /\ At(Monitor(t), "shutdown")
    /\ ~eng[proc[Monitor(t)].h].closing
    /\ Goto(Monitor(t), "drain")
    /\ UNCHANGED <<up, store, mem, co, engs, req, stat, intr, hist, budget>>

\* drain_queued_turn
FinishDrain(t) ==
    /\ At(Monitor(t), "drain")
    /\ co' = FinishDrainEntry(co)
    /\ Goto(Monitor(t), IF FollowUp(co) THEN "next" ELSE "done")
    /\ UNCHANGED <<up, store, mem, engs, req, stat, intr, hist, budget>>

NextPending(t) ==
    /\ At(Monitor(t), "next")
    /\ \/ /\ PendingQueue = {}
          /\ Goto(Monitor(t), "done")
       \/ \E c \in OldestPending :
            proc' = [proc EXCEPT ![Monitor(t)] = [pc |-> "load", adm |-> c, h |-> 0]]
    /\ UNCHANGED <<up, store, mem, co, engs, req, stat, intr, hist, budget>>

\* A store or event write of the monitor fails: it logs the error and ends.
MonitorFails(t) ==
    /\ up /\ proc[Monitor(t)].pc \in {"receive", "flag", "final", "emit", "clear"}
    /\ budget.failures < MaxFailures /\ Spend("failures")
    /\ Goto(Monitor(t), "done")
    /\ dropped' = dropped \cup {t}
    /\ UNCHANGED <<up, store, mem, co, engs, req, stat, intr, reply, started, ended>>

-----------------------------------------------------------------------------
(* interrupt_turn, one call at a time. *)

\* The boundary is 0 if the next sequence number cannot be read: unwrap_or(0).
InterruptTurn(t) ==
    /\ up /\ intr.pc = "idle"
    /\ turn[t] # "none"
    /\ budget.interrupts < MaxInterrupts
    /\ \E failed \in 0..1 :
        /\ budget.failures + failed <= MaxFailures
        /\ budget' = [budget EXCEPT !.interrupts = @ + 1, !.failures = @ + failed]
        /\ intr' = [pc |-> "boundary", seq |-> IF failed = 0 THEN NextSeq ELSE 0, turn |-> t]
    /\ UNCHANGED <<up, store, mem, co, engs, procs, hist>>

\* The boundary is raised whether or not the turn turns out to be active.
RaiseBoundary ==
    /\ up /\ intr.pc = "boundary"
    /\ co' = InterruptEntry(co, intr.seq)
    /\ intr' = [intr EXCEPT !.pc = "flag"]
    /\ UNCHANGED <<up, store, mem, engs, procs, reply, started, ended, dropped, budget>>

FlagTurn ==
    /\ up /\ intr.pc = "flag"
    /\ intr' = NoIntr
    /\ IF loaded # 0 /\ active.turn = intr.turn
       THEN /\ active' = [active EXCEPT !.interrupt_requested = TRUE]
            /\ eng' = [eng EXCEPT ![loaded].cancel = TRUE]
       ELSE UNCHANGED <<active, eng>>
    /\ UNCHANGED <<up, store, loaded, refresh, co, spawned, procs, reply, started, ended, dropped,
                   budget>>

-----------------------------------------------------------------------------
(* Engines: Engine::run takes one op at a time. *)

\* SendMessage replaces the cancellation token before it does anything else.
EngineTake(e) ==
    /\ up /\ eng[e].live /\ eng[e].run = NoTurn /\ eng[e].ops # <<>>
    /\ LET t == Head(eng[e].ops) IN
        eng' = [eng EXCEPT ![e].ops = Tail(@),
                           ![e].run = t,
                           ![e].live = (t # NoTurn),
                           ![e].cancel = IF t \in Calls THEN FALSE ELSE @]
    /\ UNCHANGED <<up, store, mem, co, spawned, procs, intr, hist, budget>>

\* A cancelled turn ends Interrupted unless it was just about to end anyway;
\* a compaction does not look at the token.
EngineComplete(e, status) ==
    /\ up /\ eng[e].run # NoTurn
    /\ status = "Interrupted" => eng[e].cancel /\ eng[e].run \in Calls
    /\ eng' = [eng EXCEPT ![e].run = NoTurn, ![e].events = Append(@, status)]
    /\ UNCHANGED <<up, store, mem, co, spawned, procs, intr, hist, budget>>

\* LRU pressure from another thread, or a config change on this one, while no
\* turn is active.
Unload ==
    /\ up /\ loaded # 0 /\ active.turn = NoTurn
    /\ budget.unloads < MaxUnloads /\ Spend("unloads")
    /\ Unloaded
    /\ UNCHANGED <<up, store, co, procs, intr, hist>>

\* schedule_config_engine_refresh while a turn is active.
DeferRefresh ==
    /\ up /\ loaded # 0 /\ active.turn # NoTurn /\ ~refresh
    /\ budget.unloads < MaxUnloads /\ Spend("unloads")
    /\ refresh' = TRUE
    /\ UNCHANGED <<up, store, active, loaded, co, engs, procs, intr, hist>>

-----------------------------------------------------------------------------
(* Crash and restart. *)

\* The store survives; tasks, engines, coordinators and locks do not.  A call
\* in flight is never answered.
Crash ==
    /\ up /\ up' = FALSE
    /\ budget.crashes < MaxCrashes /\ Spend("crashes")
    /\ active' = NoActive /\ loaded' = 0 /\ refresh' = FALSE
    /\ co' = NoEntry
    /\ eng' = [e \in Engines |-> FreshEngine]
    /\ proc' = [p \in Procs |-> IF proc[p].pc = "idle" THEN Resting ELSE Finished]
    /\ intr' = NoIntr
    /\ UNCHANGED <<store, spawned, req, stat, hist>>

\* Mutants of Recover: nothing is recovered; recovered turns get a status of
\* their own.
RecoverNothing(s) == s
RecoverAsNew(s) == [t \in Turns |-> IF s[t] = "InProgress" THEN "Recovered" ELSE s[t]]

\* recover_interrupted_state: incomplete turns become Interrupted.
Recover(s) == [t \in Turns |-> IF s[t] = "InProgress" THEN "Interrupted" ELSE s[t]]

\* RuntimeThreadManager::open; pending rows of the inbox are left alone.
Restart ==
    /\ ~up /\ up' = TRUE
    /\ turn' = Recover(turn)
    /\ UNCHANGED <<row, mem, co, engs, procs, intr, hist, budget>>

-----------------------------------------------------------------------------
ClientStep(c) ==
    \/ Admit(c) \/ CheckActive(c) \/ RequestWake(c) \/ AnswerQueued(c) \/ RequestRun(c)

StartStep(p) ==
    \/ EnsureLoaded(p) \/ InsertEngine(p) \/ Promote(p) \/ SaveTurn(p) \/ Activate(p)
    \/ SendOp(p) \/ SendFails(p)
    \/ RollbackSave(p) \/ RollbackReport(p) \/ RollbackClear(p) \/ RollbackDrain(p)

MonitorStep(t) ==
    \/ Receive(t) \/ (\E s \in {"Completed", "Failed"} : ChannelClosed(t, s))
    \/ ReadFlag(t) \/ SaveFinal(t) \/ EmitCompleted(t)
    \/ ClearActive(t) \/ UnloadAfterTurn(t) \/ UnloadReturns(t)
    \/ FinishDrain(t) \/ NextPending(t)

EngineStep(e) == SendShutdown(e) \/ EngineTake(e) \/ \E s \in Ended : EngineComplete(e, s)

Next ==
    \/ \E c \in Calls, d \in Deliveries : StartTurn(c, d)
    \/ \E c \in Calls : ClientStep(c)
    \/ \E k \in Compactions : CompactThread(k) \/ CompactCheck(k)
    \/ \E p \in Procs : StartStep(p) \/ StartFails(p)
    \/ \E t \in Turns : HangUp(t) \/ MonitorStep(t) \/ MonitorFails(t) \/ InterruptTurn(t)
    \/ RaiseBoundary \/ FlagTurn
    \/ \E e \in Engines : EngineStep(e)
    \/ Unload \/ DeferRefresh
    \/ Crash \/ Restart

Spec == Init /\ [][Next]_vars

(***************************************************************************)
(* Fairness: handlers are polled until they are done or their client hangs *)
(* up, spawned tasks and engine loops until they are done; the model call  *)
(* behind EngineComplete is assumed to return.                             *)
(***************************************************************************)
Fairness ==
    /\ \A c \in Calls : WF_vars(ClientStep(c))
    /\ \A p \in Procs : WF_vars(StartStep(p))
    /\ \A t \in Turns : WF_vars(MonitorStep(t))
    /\ \A e \in Engines : WF_vars(EngineStep(e))
    /\ WF_vars(Restart)

FairSpec == Spec /\ Fairness

-----------------------------------------------------------------------------
(* Properties. *)

\* Shapes of the variables; a promoted prompt has a place in the inbox.
TypeOK ==
    /\ up \in BOOLEAN /\ refresh \in BOOLEAN
    /\ row \in [Calls -> [st : {"none", "pending", "promoted"}, seq : Nat,
                          delivery : {"queue", "steer"}]]
    /\ turn \in [Turns -> {"none", "InProgress"} \cup Ended]
    /\ active \in [turn : Turns \cup {NoTurn}, interrupt_requested : BOOLEAN]
    /\ loaded \in 0..spawned /\ spawned \in 0..MaxEngines
    /\ co \in [draining : BOOLEAN, pending : {"none", "Run", "Wake"},
               interrupt_seq : Nat, wake_seq : Nat]
    /\ eng \in [Engines -> [ops : Seq(Turns \cup {NoTurn}), run : Turns \cup {NoTurn},
                            cancel : BOOLEAN, events : Seq(Ended), live : BOOLEAN,
                            closing : BOOLEAN]]
    /\ proc \in [Procs -> [pc : {"idle", "admit", "check", "wake", "queued", "run", "load", "spawn",
                                 "idle?", "promote", "save", "activate", "send", "rollback",
                                 "report", "unset", "undrain", "receive", "flag", "final",
                                 "emit", "clear", "unload", "shutdown", "drain", "next", "done"},
                           adm : Turns \cup {NoTurn}, h : 0..spawned]]
    /\ stat \in [Turns -> Ended]

\* A prompt is handed to an engine at most once, and only after its inbox row
\* was promoted, although start_turn and a drain may both pick the same row and
\* the process may restart in between.
PromptRunsOnce ==
    \A c \in Calls : started[c] <= 1 /\ (started[c] = 1 => row[c].st = "promoted")

\* turn.completed is emitted at most once per turn: by its monitor or by the
\* rollback of a start that failed, never by both.
CompletedOnce == \A t \in Turns : ended[t] <= 1

\* A turn record that has reached an end never changes again: no late start,
\* monitor, rollback or restart recovery rewrites it.
EndedTurnsStay == [][\A t \in Turns : turn[t] \in Ended => turn'[t] = turn[t]]_turn

\* In a running process a turn is InProgress only while the task that starts it
\* or its monitor is alive, unless that very task failed at a later step or was
\* dropped with its client: losing a race, an unload, a refused op, a drain or a
\* restart never leaves a turn shown as running with everybody gone.
Starting(t) ==
    \E p \in Procs : proc[p].adm = t /\ proc[p].pc \in {"activate", "send", "rollback"}

InProgressIsWatched ==
    up => \A t \in Turns : turn[t] = "InProgress" =>
            \/ Starting(t)
            \/ proc[Monitor(t)].pc \in {"receive", "flag", "final"}
            \/ t \in dropped

\* The thread is busy with a turn only while somebody is left to clear
\* active_turn, unless that very task failed at a later step or was dropped with
\* its client: start_turn then answers "Thread already has an active turn" as
\* long as that engine stays loaded, and nothing else ever leads there.
BusyIsTemporary ==
    \A t \in Turns : active.turn = t =>
        \/ \E p \in Procs :
            proc[p].adm = t /\ proc[p].pc \in {"send", "rollback", "report", "unset"}
        \/ proc[Monitor(t)].pc \in {"receive", "flag", "final", "emit", "clear"}
        \/ t \in dropped

\* A monitor never waits for an event that cannot come: however many monitors
\* share the channel of an engine and take each other's events, there is still
\* an event, a running or waiting op, or the channel is closed.
NoMonitorStarves ==
    \A t \in Turns : proc[Monitor(t)].pc = "receive" =>
        LET e == eng[proc[Monitor(t)].h]
        IN e.events # <<>> \/ e.run # NoTurn \/ e.ops # <<>> \/ ~e.live

\* Every turn that an engine accepted comes to an end, in its record, however
\* unloads, overwritten engines, shared event channels and restarts interfere.
AcceptedTurnEnds ==
    \A t \in Turns : started[t] > 0 ~> (turn[t] \in Ended \/ t \in dropped)

-----------------------------------------------------------------------------
(* What the orchestrator promises to its clients: TurnLife. *)

Life == INSTANCE TurnLife WITH inbox <- [c \in Calls |-> row[c].st]

\* The tasks that start, monitor, roll back and drain turns, the engines that
\* come and go under them and the restarts implement the life of a turn: its
\* record is created once and only for a promoted prompt, an engine accepts it
\* once and only while it is InProgress, it gets one end, announced at most once
\* and only after it was stored, and a request is answered at most once, with ok
\* exactly when it sent the op and with anything but an error only once its
\* prompt is stored.
ImplementsTurnLife == Life!Spec

-----------------------------------------------------------------------------
(* What comments, tests and docs say and the code does not keep. *)

\* "Guarantees at most one active drain chain per thread": two turns of one
\* thread are never in progress together.
OneDrainChain ==
    \A t, u \in Turns : (turn[t] = "InProgress" /\ turn[u] = "InProgress") => t = u

\* "After a turn completes, promote the next queued prompt if any": a prompt
\* answered with `queued` is promoted in the end.
QueuedPromptRuns == \A c \in Calls : reply[c] = "queued" ~> row[c].st = "promoted"

=============================================================================
