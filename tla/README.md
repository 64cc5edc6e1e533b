# A TLA+ model of the zagens runtime

zagens is a desktop coding agent: a Tauri shell supervises a Rust *sidecar*
process; the sidecar serves an HTTP API, keeps threads and turns in SQLite,
runs one *engine* per loaded thread and a durable queue of background tasks.
This directory models the parts of the sidecar and of the shell whose correctness
depends on interleavings, failing steps and process deaths, checks them with TLC
and proves the central facts with TLAPS.

## 1. Inventory

Layers, bottom up (`crates/…`):

| Component | State it keeps | Operations | What is hard about it |
|---|---|---|---|
| **Background task manager** `runtime-server/src/task_manager` | queue, task records, cancellation tokens behind one mutex; `queue.json` and one file per task | `add_task`, `cancel_task`, `clear_terminal_tasks`, `record_tool_metadata`, `worker_loop`, `finish_task`, `load_state` | several files written one at a time; crash or failed write in between; `Notify` wake-ups; cancel against completion |
| **Turn coordinator** `runtime-orchestrator/…/turn_coordinator.rs` | per thread: draining, pending demand, interrupt boundary | `request_run`, `request_wake`, `finish_drain`, `interrupt` | demands are coalesced; entries come and go |
| **Turn lifecycle** `…/turn_lifecycle.rs`, `engine_load.rs` | inbox rows, turn records, `active_turn` | `start_turn`, `start_turn_promoted`, `drain_queued_turn`, `rollback_failed_turn_start`, `ensure_engine_loaded` | a dozen awaits between the check and the activation; failure of any step; handlers dropped with their client |
| **Turn control** `…/turn_control.rs` | as above | `interrupt_turn`, `compact_thread`, `steer_turn` | act on a turn that starts or ends at the same time |
| **Turn monitor** `…/monitor.rs`, `engine_host.rs` | the turn's status, items, pending approvals | one task per turn | shares its engine's event channel with other monitors; clears what the next turn sets |
| **Prompt inbox** `thread_store_sqlite.rs` (`session_input`) | rows with a sequence number, delivery, promotion | admit, promote, next pending | sequence numbers are read, not reserved |
| **Engine cache** `…/active.rs`, `thread_config.rs` | loaded engines, LRU order, deferred refresh | evict, unload, refresh | an engine disappears between two critical sections of a start |
| **Engine op loop** `core/src/engine/op_loop.rs`, `handle.rs` | op channel, event channel, cancellation token | `SendMessage`, `CompactContext`, `Shutdown` | the token is replaced when a turn begins |
| **Approvals** `runtime-server/src/core/engine/approval.rs`, `…/manager.rs`, `…/monitor.rs` | pending approvals, decision channel, session cache | request, resolve, time out | two deadlines, late answers, decisions left in the channel |
| **Automation manager** `runtime-server/src/automation_manager.rs`, `night_queue_automation.rs` | one file per automation and per run; a mutex around the manager | `create/update/pause/resume/delete_automation`, `run_now`, `scheduler_tick`, `reconcile_run_statuses` | a launch, its run and the next slot are three writes; copies of records are held across awaits |
| **Night queue** `runtime-server/src/night_queue` | one file of tasks under a lock file; a registry of cancel tokens | `enqueue`, `run_pending`, `retry_task`, `cancel_task`, `reclaim_stale_running`, stop | several processes and batches over one file; a lock that another process may take away; copies of tasks written back after hours |
| **Sidecar supervisor** `desktop/src/sidecar.rs` | the child process, health counters, restart permit and flag | probe, reclaim, spawn, watch, restart, back off | hanging, dying and orphaned sidecars; coalesced restart requests; running turns |
| Turn machine and turn loop `core/src/engine` | phase of the live turn | stream, tools, budget, end | long sequences of legal events |
| Sub-agent manager, shell manager | children and their results | spawn, wait, cancel, kill | limits, results after the parent ended |
| SSE, event log | event sequence | append, replay, follow | backlog against live events |
| HTTP API, LLM clients, MCP, tools, config, secrets, hooks, UI | – | – | I/O, parsing, presentation |

How they interact: the HTTP API and the model's own tools call the task manager
and the orchestrator. The orchestrator loads an engine, sends it ops over a
channel and spawns one monitor per turn which receives the engine's events,
writes the turn to the store, emits events and starts the next queued prompt. The
task executor runs a task as a turn on a thread of its own. The automation scheduler
adds tasks to the task manager, or tasks and batches to the night queue. The
supervisor restarts a dead sidecar, and one whose configuration changed; the store and
the files are all that survives.

What makes each part correct:

* task manager – an acknowledged addition or cancellation is never lost, a task
  is run by one worker at a time and never after it finished, every
  acknowledged task ends;
* coordinator, lifecycle, monitor – a prompt runs at most once, a turn ends
  exactly once and its record then stays, the thread is not busy for ever, every
  accepted turn ends, queued prompts are run, interrupts stop what they name;
* turn record – however many writers hold an old copy of it, its fields agree with
  each other and its items can be loaded; the store opens again after a crash;
* approvals – a call is executed only by a right the user gave, a request is decided
  once, what the user was told about an answer is not turned into its opposite;
* supervisor – one sidecar at a time, a sidecar is given up neither too early nor never,
  no change of the configuration is forgotten;
* night queue – a task is executed once, none stays running, a verdict or a
  cancellation stays, as long as no two operations work on documents of different age;
* automations – a slot is launched once, due slots are handled, runs come to an end, what
  was deleted stays deleted;
* the parts still to be modelled – see section 7.

`PROJECT.json` lists the components with their files, and the hazards at the
lines where they bite.

## 2. Modules

| Module | Models |
|---|---|
| `TaskManager` | the background task manager |
| `TaskLife` | what the task manager promises: the life of a task, in memory and on disk |
| `TaskManagerProofs` | theorems about `TaskManager`, with their lemmas; it implements `TaskLife` |
| `TurnLifecycle` | coordinator, lifecycle, control, monitor, inbox and engine of one thread |
| `TurnLife` | what the orchestrator promises the clients of one thread: the life of a turn |
| `TurnLifecycleProofs` | theorems about `TurnLifecycle` |
| `TurnLifeProofs` | it implements `TurnLife`, and no monitor waits in vain |
| `TurnRecord` | the stored record of one turn and those who read, change and write it back |
| `TurnRecordProofs` | theorems about `TurnRecord` |
| `Approvals` | the handshake that asks the user before a tool runs |
| `ApprovalLife` | what the user who is asked is promised: the life of a question |
| `ApprovalsProofs` | theorems about `Approvals`; it implements `ApprovalLife` |
| `Supervisor`, `SupervisorProofs` | the shell's supervision of the sidecar process |
| `NightLife` | what the night queue promises its user: the life of an entry |
| `NightQueue`, `NightQueueProofs` | the file of the night queue and the batches that work on it; they implement `NightLife` |
| `Automations`, `AutomationsProofs` | scheduled automations, composed with `TaskLife` |
| `MC…` | the instances for TLC, with symmetry sets where there are any |

### TaskManager

State. `tasks`, `queue`, `running_cancel` are the fields of `ManagerState`;
`cancelled` holds the ids whose token is cancelled; `worker` and `permit` are the
worker loops and tokio's `Notify`; `dtasks` and `dqueue` are the files. A record
is abstracted to its status.

Every operation takes the state mutex, changes memory, and writes files while it
holds it. The model keeps that order. The first step of an operation (`AddTask`,
`CancelTask`, `PopTask`, `FinishTask`, …) needs the mutex free, changes memory
and says in `holder`, `wqueue` and `wtasks` which files are still to be written.
`WriteQueue` and `WriteTask` write them one by one (`persist_all_locked` writes
`queue.json` first; the task files come out of a hash map, hence in any order).
`Return` ends the operation: it releases the mutex, and for `add_task` notifies a
worker; nothing can tell the release from the notification that follows it
without an await. `WriteFails` is the `?` that leaves an operation with memory
changed and files half written, `Crash` a process death anywhere, and `Restart` is
`start_with_executor`: it loads the files, re-queues what was running, mends the
queue and persists everything; `WriteFails` during that persist aborts the start.
One file is written atomically (`write_atomic`: temporary file, sync, rename).

`worker_loop` is `PopTask`/`PopEmpty` (its locked section), `Notified` (the wait)
and, around the executor, `ApplyExecutionEvent` and `FinishTask`. `history`
variables record what callers were told: `acked` (an Ok from `add_task`), `stopped`
and `asked` (an Ok from `cancel_task` of a queued or of a running task) and
`cleared`.

### TaskLife

What the clients of the task manager may rely on: `get_task` shows a status that only
goes forward, `add_task` answers Ok when the task would survive a crash, a file holds the
status of a known task, and a restart loads the files, with a running task queued
again. It has no queue, no workers and no order of writes. `TaskManager` is
related to it by `life <- tasks, saved <- dtasks` (`ImplementsTaskLife`, checked and
proved); `Automations` uses it in place of the task manager.

### TurnLifecycle

One thread. `row` and `turn` are the two tables of the store; `active`, `loaded`
and `refresh` are the thread's `ActiveThreadState`; `co` is the coordinator's
entry (the default entry when the map has none); `eng` has, for every engine ever
spawned, its op channel, the op it runs, its cancellation token, its event channel
and whether it still receives. A turn has the name of the request it serves, because
only the task whose `promote_session_input` updates the row goes on to save a turn.

Every action is one critical section: one lock of `active`, one lock of
`coordinators`, one store call, or one channel operation. `proc` gives each
request and each monitor its program counter:

* a request: `StartTurn` (reads a sequence number) → `Admit` → `CheckActive` →
  `RequestWake` → `AnswerQueued`, or `RequestRun` and the start;
* a start, by a request or by a draining monitor: `EnsureLoaded` → `InsertEngine`
  → `Promote` → `SaveTurn` → `Activate` → `SendOp`, or `SendFails` and the
  rollback: `RollbackSave` → `RollbackReport` → `RollbackClear` → `RollbackDrain`;
* both may end early. `StartFails` is the `?` of any step, from the reading of the
  sequence number (`turn_lifecycle.rs:47`, `:57`; nothing is stored then) through the event
  after a wake (`:78`) to the event of a rollback (`:316`); it answers the request with an error
  (`GiveUp`). `HangUp` is the client that goes away: the handlers
  (`runtime_api/threads.rs:1041`, `:1154`) await `start_turn` and `compact_thread`
  themselves and are dropped at any await, without a rollback or an answer. Store writes that
  `spawn_blocking` runs go on; so does everything in a monitor's drain, which has no client.
  Whoever leaves a saved turn behind, in either way, is remembered in `dropped` (`Leave`);
* a compaction: `CompactThread` → `EnsureLoaded` → `CompactCheck` → the same
  saving, activation and sending, but no rollback;
* a monitor: `Receive` or `ChannelClosed` → `ReadFlag` → `SaveFinal` →
  `EmitCompleted` → `ClearActive` → `UnloadAfterTurn` → `FinishDrain` →
  `NextPending` → a start; `MonitorFails` is its error path;
* an interrupt: `InterruptTurn` → `RaiseBoundary` → `FlagTurn`; when the sequence number
  cannot be read, the boundary is 0 (`turn_control.rs:30`);
* engines: `EngineTake`, `EngineComplete`, `SendShutdown`; the cache: `Unload`,
  `DeferRefresh`; `Crash` and `Restart` (`recover_interrupted_state`).

Left out: items, token usage, prompt text, streamed deltas, `thread.status` events;
`edit_last_turn`. `steer_turn` and the approvals have modules of their own.

### TurnLife

What a client of one thread may rely on: a prompt is stored before its request is answered with
anything but an error (`Admit`), leaves the queue once (`Promote`), gets one turn record
(`Begin`) which one engine accepts (`Accept`) or none does (`Fail`), which ends once (`End`) and
is announced at most once, afterwards (`Announce`), be it the end of a turn or its failure; a
request gets at most one answer, ok only if it sent the op itself, busy, queued or suppressed
(`Refuse`) only when its prompt is in the inbox, an error at any time; a restart ends what is in
progress and touches nothing else. It has no tasks, locks, engines or coordinator.
`TurnLifecycle` is related to it by `inbox <- [c \in Calls |-> row[c].st]`; the other variables
are the store's and the history variables of the same name (`ImplementsTurnLife`, checked and
proved). `Conclusions` is what a client can infer from one look. What `TurnLife` leaves open is
left open by the code: a turn may be accepted for a request that was refused (a drain starts it
later), a request may never be answered, and an error, a hang-up or a crash may come between the
end of a turn and its announcement, which then never comes.

### TurnRecord

Zooms into what is one step in `TurnLifecycle`: `load_turn` and `save_turn` each lock
the connection, and three kinds of tasks change a record between the two. `rec` is
the row of the turn, `rows` the ids that have a row in the items table, `mon.snap` and
`steer[s].snap` the copies that have been loaded and not yet written back.

* the monitor: `SaveItem` → `LoadToAttach` → `Attach`
  (`save_item_and_attach_blocking`), then `LoadToEnd` → `SaveEnd` → `ClearActive`;
* a steer: `CheckActive` → `LoadToSteer` → `SaveSteered` → `SaveSteerItem`: the
  record names the item before the item has a row;
* `MonitorFails` and `SteerFails` are the `?` of any step, `Crash` and `Restart`
  the death of the process and `recover_interrupted_state`, which saves the turn and then
  fails on an item without a row. The next start succeeds because the turn is no
  longer in progress.

A steer that loaded the record before the end and saves it after leaves a turn that
is over `InProgress`, until the next restart mends it. The model has these
behaviours; no property forbids them, since no text says what a late steer may do.

### Approvals

The engine waits in `await_tool_approval` for a decision about one call (`wait`) and
notes a `verdict` for it; its channel `chan` survives calls and turns, and a decision
for another call is discarded (`Receive`). All calls of a step that need an approval ask first,
one after the other; then the batch is executed (`ExecuteBatch`) and looks at the memory of the
session before the verdict (`Passes`, `tool_plans_exec.rs:576`), so that a call the user denied
runs when he approved its key for the session with a later call of the same step. `ran` says
what became of each call. The monitor takes `ApprovalRequired`: it denies when its turn is not
the active one (`TakeRequest`), then reads the flags of the turn a second time (`ReadFlags`) and
approves what `auto_approve` covers, or registers the request in `pending` and only then emits
the event and starts a timer (`ArmTimer`; `EmitFails` between the two). `TimerFires` and
`ResolveApproval` race to remove the entry; whoever does puts a decision in `out`,
from where `Send` moves it to the channel. `TimedOut` is the engine's own deadline,
`Cancelled` its token. `NextTurn` begins another turn with what the last one left:
pending entries, timers, unread events and decisions. After `Displace` the map holds
another engine or none; the user's answer goes there, is thrown away, and in the first case
the client is told `ok: true` all the same.

`decided`, `answer` and `ok` are history: decisions taken, what the user answered, and
which approvals were answered with `ok: true`. Left out: elevation requests,
user-input requests, descriptions, and the check that the URL names the thread
and turn of the request (a mismatch puts the entry back under the same lock).

`ApprovalLife` keeps the questions that are `Open`, the decisions that are `Underway`, the
call that waits, the memory of the session and the fate of the calls; it has no channels,
monitor, timers, turns or displaced engines. A question is closed once (`Answer`, `CloseFor`), a
decision is obeyed by the call it is about (`Obey`) or thrown away (`Discard`), a call that stops
waiting may leave its question open (`GiveUp`), as the code does, and a call runs (`Perform`)
only if its verdict or the memory of the session lets it. `Open` is read from
the event channel and `pending_approvals`, `Underway` from `out` and the channel.
`ImplementsApprovalLife` and `Finality` (what was said stays said) are theorems and no properties
of `approvals`, whose symmetry they would forbid; TLC found both to hold without symmetry on
two smaller instances: two calls of one key, and three calls with `MaxDisplaced = 0`.

### Supervisor

`pc` is where `start_and_monitor` is; `child`, `life` and `mine` are the processes: the
`Child` it holds, their states, and which of them know this shell's token; `restart`,
`shutdown` and `force_now` are the two `Notify` permits and the flag.

* one round: `Probe` → `Reclaim` → `Spawn` → `Ready`, or `NoReady` → `Retry` until
  `ReadyByHttp`; `SpawnFails` and the last `Retry` end the supervisor;
* the watch is a biased select: `Stop`, then `RestartRequested`, then `HealthCheck`.
  A check is answered by the pong over stdin/stdout or over HTTP, or it raises a counter;
* a restart request: `Debounce` → `CheckForce` → `CountTurns` → `PollAgain` or
  `ConfigKill`. A health restart: `Reclaim` → `Tally` → the backoff or the next round;
* the commands (`SaveSettings`, `StoreForce`, `NotifyForce`), `Quit`, `ShellExits` (no
  destructor runs; a living sidecar is left behind) and `ShellStarts` with a new token;
* the processes: `Bind` (a port in use ends the sidecar), `Die`, `Hang` with or without
  its ping loop, `Revive`.

`Reclaim` ignores whether the kill worked and waits for the port only so long
(`sidecar.rs:500-572`): it may leave the listeners, and then the spawn meets a port that is
in use. `MaxKept` bounds how often, and `OrphanReclaimed` excuses a supervisor that gave
up after such a reclaim.

`stale`, `misses`, `forces`, `forcedKills`, `recent` and `paused` are history. The port is
one (`--port` is fixed); logs, the environment and the web view's events are left out.

### NightQueue

A step is one operation of the store, from load to save, or one access to the registry of cancel
tokens. The lock file is meant to keep the operations apart and does not: `queue_lock_stale`
(`store.rs:60-62`) takes a lock for stale whenever `fs::metadata` fails, which is what a waiter
sees just after an ordinary release, and `remove_file` (`:39`) then removes the lock a third
contender has created in the meantime; the `Drop` of `:55` removes whatever lock is there when
an operation without one ends. `LoseLock` is that, and also a lock older than 120 s: the
operation `late.who` keeps the document it has loaded (`Loaded`), others save meanwhile, and it
saves last. `GoBy` remembers in `misread` the tasks whose entry had changed when an operation,
late or not, went by its document. `RunsOnce`, `RunningHasBatch`, `FinishedStays` and the
refinement exclude exactly these tasks, since for them the code promises nothing; what a late
operation does to all others is covered. That a claim is not "atomic", as the comment at
`store.rs:113` has it, shows as a state with `runs[t] = 2` and `t \in misread`. `status` is the
file; `reg` and `cancelled` are the registry of the sidecar (`OwnRegistry`: a command-line
process has its own); `batch[b]` holds the locals of one call of `run_pending`: `BeginRun` →
`Claim` → `NextTask` → `Start` → `Executed` → `Gated` → `Finish` or `MarkCanceled` → `Restore` →
`FinalizeRun` → `EndRun`. The handlers that take more than one step are `CancelLoad` →
`CancelStop` → `CancelMark` and `Stop` → `ReclaimStaleRunning`. `Fail` is any `?` of a batch,
`EditFails` an error of a handler, `HangUp` the handler dropped with its client; a failing save,
`CliDies` and `Crash` leave the file as it was or truncated (`fs::write`). Not modelled: a
half-written file that does not parse, and a load that meets the truncated file of a save under
way. Batches that automations spawn are batches of the sidecar.

`NightLife` is the same file without batches, tokens, registry and processes: an entry
is added with a new id, claimed only while pending and by one at a time, begun once and
while claimed, and laid down with a verdict, which a user's cancellation or removal
outlives; what was claimed and not begun is released, and whoever has claimed something
may be cut off, with the file as it was or empty. `Claimed`, the union of what
the batches hold, and `abandoned` are its `claimed` and `lost`. `Reliable` is what the user
may believe in the morning. That `NightQueue` implements it (`ImplementsNightLife`) is a
theorem and no property of `night_queue`: TLC found it to hold on the instance of that
run, but checking every step against `NightLife` triples its time. It says that every step is one
of `NightLife` until `misread` names a task.

### Automations

`autos` and `runs` are the files; `op` is the holder of the mutex with its locals, as the mutex
is held over the awaits of a tick and of `run_now`. A tick: `BeginTick` (lists the records) →
for each `NotDue`, `SkipFired`, or `LaunchDue` → `TaskAdded` → `SaveRun` → `SaveAutomation` →
`EndTick` → `Reconcile`…. `RunNow` takes the same launch. Requests that write one record are one
step (`write_json_atomic` renames). `DeleteAutomation` removes the record and `RemoveRun` the
runs, one by one in any order; an error or a crash in between (`automation_manager.rs:986-993`)
leaves runs that reconciliation, going by the records, never settles, which is why `RunSettles`
speaks of kept automations. `NightEnds` is `mark_run_finished` of a batch that was spawned.
`WriteFails` is the `?` of any of them, the computation of the next slot included, `HangUp` the
dropped handler of `run_now`, `Crash` and `Restart` those of `TaskLife`, whose other actions are
`TaskEnds` and `TaskFile`.

Abstracted: a recurring rule is a period, an ONCE rule a date; an automation's kind is
chosen when it is launched, since an update may change it at any time; the clock is
monotone; the time of a `run_now` never equals a scheduled slot. The branch of the tick
for an active record without a slot is left out, because `ActiveHasSlot` proves that
there is none.

## 3. Runs

| Run | Instance | Shows |
|---|---|---|
| `task_manager` | 2 tasks, 2 workers, 1 fault, fairness | the queue agrees with the records, nothing acknowledged is lost or run again, every acknowledged task ends, and the manager implements `TaskLife` |
| `turn_races` | 2 requests with delivery `queue`, 2 engines, 1 interrupt, 1 unload, 1 failing step or hang-up | no prompt runs twice; monitors that share a channel never wait in vain |
| `turn_faults` | 1 request, 1 compaction, 1 each of unload, failing step or hang-up, crash, fairness | the turns implement `TurnLife`; every turn in progress is followed or recovered, unless the task that had it failed or was dropped; every accepted turn ends in its record |
| `turn_one_chain` | 2 concurrent requests | **violated**: two turns at once |
| `turn_queued` | 3 requests, fairness | **violated**: a queued prompt is never run |
| `turn_record` | 2 steers, 2 items, 1 crash, fairness of the restart | the items of the record have rows, the store opens again |
| `turn_record_steers` | 1 steer | **violated**: the monitor's final save drops a steer that was answered Ok |
| `approvals` | 3 calls, two with one key and one auto-approved, 1 displaced engine | calls run by right, are decided once, and answers are kept |
| `supervisor` | 2 processes, 2 requests, 1 fault, 1 exit of the shell, 1 turn, 1 reclaim in vain, fairness | one sidecar at a time, patience with a busy one, none with a broken one; configuration changes arrive |
| `supervisor_backoff` | 1 process, 4 faults, the limits of the code | **violated**: no pause after rapid crashes |
| `night_queue` | 2 tasks, 2 of 3 batches (2 of the sidecar, 1 of the command line), 1 stop or cancellation at a time, 1 fault or lost lock | no task is executed twice or left running and verdicts stay, but for entries misread without the lock |
| `automations` | 1 automation, 1 task, a recurring and a ONCE rule, 1 `run_now`, 1 fault, fairness | a slot is launched once, due slots are handled, runs settle, also after half a deletion |

Deadlock checking is off in all of them: the system may stop once every request
of the instance has been served (bounded inputs), and a dead process without
budget left for a fault simply idles.

**Bounds.** Two tasks and two workers are enough for a task that is queued while
another is popped, cancelled or cleared; one fault is a failed write or a crash at any
point, the writes of a restart included. In the turn runs
two requests make the races between a start and another start and between a start
and a drain; a third (`turn_queued`) makes two prompts wait behind one turn. Two
engines make an insertion that overwrites another, and an unload followed by a
reload; `InsertEngine` is disabled beyond that bound, so in `turn_faults` the
two turns and one unload can need no more than two loads before a crash and none of the
started turns waits for one. The budget of faults is one of each kind; a client that hangs up
counts as a failing step. `turn_races` sends only requests with delivery `queue`, which reach
every action the other deliveries reach but the refusal; `turn_faults` has all of them. Two steers
and two items let any two writers of a record hold copies of different age. Three
calls let a late decision for the first meet the wait of the second and a remembered
key approve it, while the third is approved by the monitor itself; each call asks
once, so the number of turns needs no bound.

In `supervisor`, the limits of refused and of timed-out checks are both 2 (2 and 12 in
the code) and one retry stands for 60; two requests coalesce, or come one after the
other, before and during a start-up. `MaxRapid` is 0 there, although the code has 3,
only to make the pause happen at all: with 3 it is unreachable, which is what
`supervisor_backoff` shows with the limits of the code. In `night_queue`, two batches of
the sidecar replace each other, or one of them competes with one of another process
(`MaxRuns` is 2); one operation at a time may be late, and one save may overtake it
(`MaxOvertaken`), which is enough for two claims of one task and for a verdict that is
overwritten. In
`automations`, the limits 25, 100 and 20 of the code (runs looked through for a slot,
runs reconciled, slots skipped) are 1, 2 and 1; three runs are a run of each of two
slots and one of `run_now`, and a fourth does not add a state.

**Symmetry.** Requests, calls with one key and the batches of the sidecar are
interchangeable. The runs with liveness use no symmetry.

The largest instances take TLC one to two and a half minutes: `approvals` 4.8 million states,
`turn_races` 1.35 million, `automations` 420,000, `supervisor` 290,000, `turn_faults` 240,000.

**Fairness.** Tasks of the tokio runtime are polled until they end, and handlers until they
end or their client hangs up, which is no step of theirs, so the steps of
requests, starts, monitors, engines, the supervisor and the scheduler are weakly fair. In
`TaskManager` the steps of
a worker that need the mutex are strongly fair, because tokio's `Mutex` hands it out
in the order of requests. `Finish`, `EngineComplete` and `TurnEnds` assume that a model
call returns (it has time-outs), `Restart`, also in `turn_record` and `automations`, that
the shell restarts a dead sidecar, as `Supervisor` shows it does. `TaskEnds` of
`Automations` is what `AckedFinishes` says. `NotifyForce` follows `StoreForce` without an
await. No fairness is assumed of clients, interrupts, unloads, faults, or of a user who
should start the shell again.

### What the violated runs say

Each contradicts a sentence of a comment, a test or a document, quoted in
`PROJECT.json` under `findings`:

1. `turn_one_chain` – `start_turn` looks at `active_turn`, releases the lock and
   sets `active_turn` many awaits later; the coordinator's answer to `request_run` is
   ignored. Two requests can start two turns of one thread.
2. `turn_queued` – one drain follows one demand, but demands coalesce and prompts do
   not; and a wake that comes just after `finish_drain` opens an entry that nobody
   drains.
3. `turn_record_steers` – the monitor reloads the record "immediately before save",
   but load and save are two critical sections; a steer saved between them is lost.
4. `supervisor_backoff` – the list of recent crashes is cleared by every start that
   becomes ready, so it never holds more than one and the pause never comes.

Seen in the models and recorded as hazards: a request refused because the thread is busy leaves
its prompt in the inbox, where a later drain finds it (`turn_lifecycle.rs:57`); the boundary of
an interrupt is the number the next prompt gets (`turn_coordinator.rs:81`); the engine forgets a
cancellation that came before it took the op (`message_handlers.rs:31`); the engine's approval
deadline passes before the monitor's timer, so an approval answered with `ok: true` in between
continues nothing; a call that was denied runs when its key is approved for the session by a
later call of the same step (`tool_plans_exec.rs:576`); a client that hangs up while its turn is
started leaves a turn in progress and a thread that is busy until its engine is replaced
(`runtime_api/threads.rs:1041`); the lock of the night queue may be taken from its holder
(`store.rs:60`); half a deletion of an automation leaves open runs
(`automation_manager.rs:986`); a batch of the night queue that was replaced removes the
registration of its successor (`run_control.rs:36`); the run of a night batch stays Running
after a crash (`automation_manager.rs:1252`).

## 4. What is proved

Theorems of the unbounded specifications; `PROJECT.json` lists them, each with the property
of a run that it generalises, where a run checks it.

| Module | Theorems | For every |
|---|---|---|
| `TaskManagerProofs` | `Typing`, `Exclusion`, `NoRerun`, `Finality`, `Cancellation`, `Durability`, `Refinement`, `QueueExact`, `Wakeups`, `CancelHonoured` | finite set of tasks, set of workers, number of faults |
| `TurnLifecycleProofs` | `Typing`, `PromptsRunOnce`, `CompletionOnce`, `EndedStay`, `Watched`, `BusyPasses` | finite sets of prompts and compactions, number of engines, interrupts, unloads and faults |
| `TurnLifeProofs` | `NoStarvation`, `TurnRefinement`, `ClientConclusions` | the same |
| `TurnRecordProofs` | `Typing`, `Counting`, `Rows` | finite sets of steers and items, number of crashes |
| `ApprovalsProofs` | `Typing`, `SingleDecision`, `RightfulExecution`, `AnswersKept`, `ApprovalRefinement`, `SaidStays` | finite set of calls, keys, number of displaced engines |
| `SupervisorProofs` | `Typing`, `Alone`, `Forcing`, `NeverAdopts`, `Patience`, `NothingForgotten` | set of process ids, limits and budgets |
| `NightQueueProofs` | `Typing`, `OneExecution`, `NothingLeftRunning`, `VerdictsStay`, `NightRefinement`, `MorningReport` | set of batches, number of tasks and faults |
| `AutomationsProofs` | `Typing`, `ActiveHasSlot`, `OneLaunch`, `Deletion` | sets of automations and tasks, rules, limits and budgets |

Assumptions: the named `ASSUME`s of each module (for `TaskManager`: the tasks are a finite
set without `NoTask`, there is a worker, the bound is a number), evaluated by TLC in each run.

For `TaskManager` the argument goes in layers, each an inductive invariant on top of the last:

* `TypeInv` – `TypeOK` and that an operation about a task has a task in `arg`. The
  queue stays a sequence of tasks through `Retain` and `LoadQueue`
  (lemmas `RetainFacts`, `LoadQueueFacts`).
* `ExecInv` – adds: tasks that are known, in memory or on disk, were issued
  (`IssuedInv`: `AddTask` cannot reuse an id that is still on disk); an executing
  worker has a Running task and an idle one none (`WorkerInv`); a dead process
  has empty memory (`DownInv`); while a clear is in progress, what it is about to
  forget is terminal (`ClearInv`); and `ExclusiveExecution`. None is inductive alone:
  the clear removes records from memory, and only `ClearInv` says that no worker is
  running them.
* `FinishInv` – adds `FinishedNeverReruns`. Lemma `LifeCycleStep` says what one
  step may do to one task, in memory and on disk together; the history theorem
  `Finality` is a consequence.
* `AckInv` – adds that a task between `AddTask` and its acknowledgement is still to
  be written or on disk (`HoldInv`), the same for a cancellation (`StoppedInv`), and
  `AckedNeverLost`. `Cancellation` and `Durability` follow.
* `Refinement` – under `AckInv`, each action is a step of `TaskLife` or a stutter: the first
  step of an operation is its effect on memory, each write a `Save`, and `Return` of
  `AddTask` the acknowledgement.

Three more stand on `ExecInv`. `QueueInv` is `QueueMatchesStatus` itself, inductive once a new
id is known to be in no queue (`IssuedInv`) and a task that finishes to be Running
(`ExclusiveExecution`). `WakeInv` adds `NoLostWakeup`: only `Return` acknowledges a task and it
notifies, and a worker falls asleep only on an empty queue or after it took the permit, in which
case it pops. `StopInv` says where the cancellation of a running task is remembered: its entry
is in `running_cancel`, so the token is found, and the token stays cancelled until the task has
left Running for good or the process has died: `CancelHonoured` speaks of one run of the
process, and a restart queues the task again.

For `TurnLifecycle` the properties are far from inductive, as two tasks may load,
promote and start at the same time, and the whole safety of the turn hangs on one `UPDATE`:

* `TypeInv` – `TypeOK`, what a task at each place of `start_turn_promoted` holds (a prompt
  or a compaction, an engine handle), and that all sequence numbers lie below some
  number. The latter makes the maximum of `NextSeq` exist, by well-foundedness of `<`, although
  the inbox is not known to be finite.
* `LifeInv` – for each turn: before its prompt is promoted (or its compaction has
  passed the check) there is no record, no op, no monitor and nobody who starts it; at
  most one task ever starts it (`OneStarter`); that task finds it unstarted, not yet announced and
  with the record its own steps have left, InProgress or, after `RollbackSave`, Failed
  (`StarterInv`); a monitor before `emit` finds it InProgress and without an end
  (`WatcherInv`). `BirthLife`, `AdvanceLife`, `WatchLife` and `MoveLife` are the kinds of
  steps, and `OthersLife` says that they leave the other turns alone.
  `PromptsRunOnce`, `CompletionOnce` and `EndedStay` follow.
* `WatchInv` – the two properties `InProgressIsWatched` and `BusyIsTemporary`,
  inductive given `LifeInv`: the step that sends the op hands the turn to a monitor that
  has not run yet, which only `StarterInv` knows. Both except the turns in `dropped`, whose
  starter returned an error or was dropped with its client after it had saved the turn.
* `FeedInv` – for `NoMonitorStarves`. The property speaks of one monitor, but all
  monitors of an engine take events from one channel, so an invariant about one monitor and
  its event cannot hold. What holds is a count: an engine that still receives has at least
  as many waiting ops, running turns and unread events (`Supply`) as monitors wait for it
  (`Receivers`). `SendOp` adds one to each side, `Receive` takes one from each, the engine's
  own steps only move an op from one place to the next, and Shutdown, behind the ops
  already sent, closes the channel. Lemma `FeedKeep` covers the steps that start no
  monitor. With it, `AcceptedTurnEnds` depends on nothing but the fairness of
  engines and monitors.
* `SideInv` – what the refinement needs besides: a request that was answered is done and one
  that is past `Admit` has its prompt in the inbox (`AnswerInv`); a monitor exists only
  for a turn that was accepted, and announces only an end that is stored (`AcceptedInv`,
  which uses that an end stays).
* `TurnRefinement` – under `IInv` and `SideInv`, each action is a step of `TurnLife` or a
  stutter (`LifeSteps`): the promotion, the saved record, the op sent, the rollback, the final
  save and the event are its steps, a task that gives up is the `Refuse` of its own
  request or nothing (`LifeGiveUp`), and the rest is invisible. `ClientConclusions` then
  follows from the steps of `TurnLife` alone (`ConclusionsStep`).

`CompletedOnce` and `EndedTurnsStay` have no run of their own: `ImplementsTurnLife`, which
TLC checks, says both, and `CompletionOnce` and `EndedStay` prove them directly.

For `TurnRecord` an invariant of the record alone is not inductive, because old copies
are written back. `CountInv` and `RowInv` therefore speak of all `Copies`, the record
and every snapshot; lemma `CopiesMade` says what the copies of the next state can be
(an old one, one with a waiting steer added, one with a saved item added, one with another
status), and both invariants follow from it. `CountInv` also needs that a steer which
has not loaded the record is in no copy, so that its id is counted once.

For `Approvals` a request is in one place at a time (`PlaceInv`): not asked, in the event
channel, taken by the monitor, pending, or decided, and before that nobody has answered it.
`RightInv` says of every decision on its way (`Decisions`) that it is the only one for its call
and carries the right it was taken by. Neither is inductive without the other. Three lemmas
describe the kinds of steps, `Deciding`, `Keeping` and `Ending`, and each action is an instance
of one of them, or of a short argument of its own. For the refinement of `ApprovalLife`, a
decision must leave the system when it is received: `Sole` says that it is in one place, and is
inductive because a new one is about a call that has none (`LifeDecides`). `SaidStays` then
needs that a call that waits has no verdict (`Waiting`, which follows from the steps of
`ApprovalLife` alone) and, for what is remembered and for answers, `RightInv` and `PlaceInv`. A
displaced engine's client is told ok for a decision that does not exist: what `AnswerKept` needs
there is that nobody else may decide that call any more.

For `Supervisor`, `OneSidecar` needs to know at which `pc` a child is held and that `mine`
has no living process besides it; `NeverAdopts` is a consequence. `Forcing` counts a
flag that is set as a forced restart still to come. For `Patience`, `misses` bounds both
counters whenever the supervisor watches, as the start of a watch resets all three.
`NothingForgotten` is the safety behind `ConfigApplied`: a changed configuration
has a permit, or a round of the loop ahead that ends in a spawn, unless the supervisor has
stopped or given up; a force flag is about to be notified, has its permit, or is about to be
read. It is not inductive alone: that a round without a child cannot adopt a stale sidecar
needs `OneSidecar`. What is left for TLC is that the rounds go on.

For `NightQueue`, the invariant speaks of the tasks outside `misread`. Of the document of a
late operation it only says that it has no task that did not exist: in all other entries that
are not misread the document agrees with the file when the operation goes by it (`GoByFacts`), so
that an operation needs no lock where nobody has changed what it read. It says who may hold a
task: what a batch has claimed and not
started has never been executed, at most one batch holds a task, and a task that is
pending is held by none and has not been executed. A batch that was cut off keeps
nothing, which is why `abandoned` remembers its tasks. The refinement of `NightLife` uses
the same invariant: the handlers touch no batch (`LifeEdit`), a batch that goes on keeps
what it holds (`LifeMove`), one that lays a task down or gives the rest back holds that much
less and nobody else holds it (`GivesUp`, `LifeLayDown`, `LifeRestore`), and one that fails, is
dropped or dies is cut off (`LifeCutOff`). That a verdict is laid down only by
the batch that executed the task, over whatever tokens were confused, is `runs[t] = 1` at
that point. `MorningReport` joins what the invariant says of each status.

For `Automations`, the invariant relates what was launched to the records: a launch whose
run is on disk has its slot in that run; while a run is being made, it is the last one
begun and for the next slot of its automation; and no launched slot is beyond the next
slot of an active automation. So when a due slot was launched before, its run is on disk
and found by `Fired`, unless it has no record or too many came after it. The mutex gives
the rest: what its holder has listed and not handled yet is what the files hold,
from which `Deletion` follows. A deletion takes the runs away in any order, so the invariant about
launched slots excepts deleted automations; that they stay deleted keeps it inductive.

Only model-checked: liveness (`AckedFinishes`, `AcceptedTurnEnds`, `OpensAgain`,
`ConfigApplied`, `BrokenIsReplaced`, `OrphanReclaimed`, `DueIsHandled`, `RunSettles`), which
is beyond this prover.

## 5. Mutants

Definitions named `…AsStored`, `…AnyRow`, `Keep…` and the like, marked as mutants,
are wrong versions of the definition after them: a lost `WHERE` clause, a
notification without a permit, a status that is not recovered. Each property of a
passing run is violated when one of them replaces the original.

## 6. Abstractions worth knowing

* `Automations` over `TaskLife` and not over `TaskManager`: the refinement makes what is shown
  of the former hold of the latter, safety by the proof and the liveness it needs by
  `AckedFinishes`.
* One thread in `TurnLifecycle`: threads share only the LRU cache, which appears as
  `Unload`, possible whenever the code allows an eviction.
* One interrupt call is in flight at a time.
* In `TurnLifecycle`, `spawn_blocking` store calls that group several statements
  (`save_item`, `save_turn`, `save_thread`) are one step and the promotion before
  them is its own; nothing writes a turn between its final load and save.
  `TurnRecord` takes these apart, and shows that a late steer does exactly that, so
  `ImplementsTurnLife` holds of turns that nobody steers.
* In `Approvals` deadlines may pass at any moment after they were set.
* A monitor's `Error` event only decides whether a closed channel ends the turn
  Completed or Failed, so `ChannelClosed` may choose either.

## 7. Plan

Done: the task manager and the turn lifecycle with their abstract specifications, the turn's
record, approvals, the supervisor, the night queue and automations, and the proofs of all their
safety properties; the task manager, the turns, approvals and the night queue implement their
abstract specifications. Next, in this order:

1. An abstract specification of `Supervisor`, the life of a sidecar.
2. Sub-agent and shell managers: spawn limits, cancellation, results after the end of the
   parent's turn.
3. Event replay: the backlog of a stream against live events.
4. The live turn machine and the loop guard, as functions checked against a
   reference definition.

### Not modelled

HTTP routing, LLM clients, MCP transport, the tools, configuration, secrets, hooks, the
sandbox and the user interface: I/O, parsing and presentation without a protocol of
their own, and by far most of the lines of the repository (the web UI and the tools alone
are some 120,000 of them). The modules above cover the files that hold
state shared by several tasks, processes or restarts; the share of all lines they map is
therefore small. `edit_last_turn`, elevation and user-input requests and the text of a
steer are left out of modules that model their neighbours, as said there.
