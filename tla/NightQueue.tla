----------------------------- MODULE NightQueue -----------------------------
(***************************************************************************)
(* The night queue of a workspace (crates/runtime-server/src/night_queue): *)
(* one JSON file of tasks, changed under a lock file by the handlers of    *)
(* the HTTP API, by batches the sidecar runs and by batches of the command *)
(* line, each a process of its own; and the registry of cancel tokens that *)
(* the sidecar keeps for its batches.                                      *)
(*                                                                         *)
(* A step is one operation of the store, from load to save, or one access  *)
(* to the registry.  The lock file does not keep two operations apart: a   *)
(* waiter whose fs::metadata fails, because the holder has just released   *)
(* the lock, takes the lock for stale and removes whatever lies there by   *)
(* then.  The operation whose lock it was goes on with the document it has *)
(* loaded, beside those that follow, and saves it late.                    *)
(*                                                                         *)
(* Abstracted: prompts, snapshots, worktrees and the event log; the        *)
(* contents of the gate.                                                   *)
(***************************************************************************)
EXTENDS Naturals, FiniteSets

CONSTANTS
    MaxTasks,       \* bound on the tasks ever enqueued
    Batches,        \* calls of run_pending
    CliBatches,     \* those made by the command line
    NoBatch,
    MaxRequests,    \* bound on the stops and cancellations served at a time
    MaxRuns,        \* bound on the batches that begin
    MaxParallel,    \* bound on RunOptions.max_parallel
    MaxOvertaken,   \* bound on the saves that overtake an operation without its lock
    MaxFaults       \* bound on failed operations, lost locks and processes that die

ASSUME BatchesAssumption == CliBatches \subseteq Batches /\ NoBatch \notin Batches
ASSUME BoundsAssumption ==
    /\ MaxTasks \in Nat /\ MaxParallel \in Nat \ {0}
    /\ MaxRequests \in Nat /\ MaxRuns \in Nat
    /\ MaxOvertaken \in Nat /\ MaxFaults \in Nat

VARIABLES
    status,     \* id -> status in the file, "Absent" if it is not there
    issued,     \* ids handed out; file order is id order
    reg,        \* the batch whose token the sidecar has registered
    cancelled,  \* batches whose token is cancelled
    batch,      \* batch -> [pc, todo, cur, final], its locals
    cancel,     \* the cancel request being served: [pc, task]
    stop,       \* stop_night_queue found no batch and is going to reclaim
    late,       \* the operation that has lost its lock, one at a time (bound): [who, doc, by],
                \* the document it has loaded and the saves that have overtaken it
    misread,    \* history: tasks whose entry had changed when an operation went by the
                \* document it had loaded
    runs,       \* history: id -> executions begun
    abandoned,  \* history: tasks of batches that were cut off
    faults

file == <<status, issued>>
api  == <<cancel, stop>>
race == <<late, misread>>
hist == <<runs, abandoned>>
vars == <<file, reg, cancelled, batch, api, race, hist, faults>>

Ids       == 1..MaxTasks
Finished  == {"Passed", "Failed", "RolledBack", "Canceled"}
Statuses  == Finished \cup {"Absent", "Pending", "Running"}
Empty     == [t \in Ids |-> "Absent"]
Sidecar   == Batches \ CliBatches
\* Whoever edits the file, beside the batches: the requests of an instance of the
\* handlers, of which one may be late.
Clients   == {"client", "another client"}
NoLate    == [who |-> "nobody", doc |-> Empty, by |-> 0]
NoTask    == 0
NoRequest == [pc |-> "none", task |-> NoTask]

Locals(pc)  == [pc |-> pc, todo |-> {}, cur |-> NoTask, final |-> "Absent"]
Goto(b, pc) == batch' = [batch EXCEPT ![b].pc = pc]
Held(b)     == (batch[b].todo \cup {batch[b].cur}) \ {NoTask}

\* The batches of B come to `pc` without restore_pending.
Leave(B, pc) ==
    /\ batch' = [b \in Batches |-> IF b \in B THEN Locals(pc) ELSE batch[b]]
    /\ abandoned' = abandoned \cup UNION {Held(b) : b \in B}

\* An error leaves the loop through `?`.
Abort(b) == Leave({b}, "end")

Init ==
    /\ status = [t \in Ids |-> "Absent"] /\ issued = 0
    /\ reg = NoBatch /\ cancelled = {}
    /\ batch = [b \in Batches |-> Locals("idle")]
    /\ cancel = NoRequest /\ stop = FALSE
    /\ late = NoLate /\ misread = {}
    /\ runs = [t \in Ids |-> 0] /\ abandoned = {}
    /\ faults = 0

-----------------------------------------------------------------------------
(* The store. *)

\* load: the file as it is, or as it was for the operation that has lost its lock.
Loaded(who) == IF late.who = who THEN late.doc ELSE status

\* The operations of W are over.
Over(W) == late' = IF late.who \in W THEN NoLate ELSE late

\* The operation goes by what it has loaded, although the entries it differs in have
\* changed in the file.
GoBy(who) == misread' = misread \cup {t \in Ids : Loaded(who)[t] # status[t]}

\* save writes the whole document.
Save(who, doc) ==
    /\ GoBy(who)
    /\ status' = doc
    /\ \/ late.who \in {who, "nobody"} /\ Over({who})
       \/ /\ late.who \notin {who, "nobody"} /\ late.by < MaxOvertaken
          /\ late' = [late EXCEPT !.by = @ + 1]

\* An early return or a refusal, without a save.
Return(who) == GoBy(who) /\ Over({who}) /\ UNCHANGED status

-----------------------------------------------------------------------------
(* Handlers and commands that edit the file. *)

Push(c) ==
    /\ issued < MaxTasks
    /\ issued' = issued + 1
    /\ Save(c, [Loaded(c) EXCEPT ![issued + 1] = "Pending"])
    /\ UNCHANGED <<reg, cancelled, batch, api, hist, faults>>

Enqueue(c) == Push(c)

\* retry_task: a copy under a new id; the old entry stays.
RetryTask(c, t) == Loaded(c)[t] \in Finished /\ Push(c)

RemoveTask(c, t) ==
    /\ Loaded(c)[t] \notin {"Absent", "Running"}
    /\ Save(c, [Loaded(c) EXCEPT ![t] = "Absent"])
    /\ UNCHANGED <<issued, reg, cancelled, batch, api, hist, faults>>

ClearFinished(c) ==
    /\ \E t \in Ids : Loaded(c)[t] \in Finished
    /\ Save(c, [t \in Ids |-> IF Loaded(c)[t] \in Finished THEN "Absent" ELSE Loaded(c)[t]])
    /\ UNCHANGED <<issued, reg, cancelled, batch, api, hist, faults>>

\* A request for what the document does not hold, or holds in another status.
Refuse(c) ==
    /\ late.who = c
    /\ Return(c)
    /\ UNCHANGED <<issued, reg, cancelled, batch, api, hist, faults>>

\* request_stop cancels the registered token, if there is one.
RequestStop == cancelled' = IF reg = NoBatch THEN cancelled ELSE cancelled \cup {reg}

\* The requests to stop or to cancel that are under way.
Requests == {h \in {"cancel"} : cancel # NoRequest} \cup {h \in {"reclaim"} : stop}

\* cancel_night_queue_task loads the file without the lock; if the task was
\* running it stops whatever batch is registered; then it marks the task.
CancelLoad(t) ==
    /\ cancel = NoRequest /\ Cardinality(Requests) < MaxRequests
    /\ status[t] # "Absent"
    /\ cancel' = [pc |-> IF status[t] = "Running" THEN "stop" ELSE "mark", task |-> t]
    /\ UNCHANGED <<file, reg, cancelled, batch, stop, race, hist, faults>>

CancelStop ==
    /\ cancel.pc = "stop"
    /\ RequestStop
    /\ cancel' = [cancel EXCEPT !.pc = "mark"]
    /\ UNCHANGED <<file, reg, batch, stop, race, hist, faults>>

CancelMark ==
    /\ cancel.pc = "mark"
    /\ cancel' = NoRequest
    /\ LET doc == Loaded("cancel") IN
        IF doc[cancel.task] \in {"Pending", "Running", "Canceled"}
        THEN Save("cancel", [doc EXCEPT ![cancel.task] = "Canceled"])
        ELSE Return("cancel")
    /\ UNCHANGED <<issued, reg, cancelled, batch, stop, hist, faults>>

\* stop_night_queue
Stop ==
    /\ ~stop /\ Cardinality(Requests) < MaxRequests
    /\ RequestStop
    /\ stop' = (reg = NoBatch)
    /\ UNCHANGED <<file, reg, batch, cancel, race, hist, faults>>

\* reclaim_stale_running, although a batch may have begun in the meantime, or
\* may run in another process.
ReclaimStaleRunning ==
    /\ stop /\ stop' = FALSE
    /\ LET doc == Loaded("reclaim") IN
        IF \E t \in Ids : doc[t] = "Running"
        THEN Save("reclaim", [t \in Ids |-> IF doc[t] = "Running" THEN "Canceled" ELSE doc[t]])
        ELSE Return("reclaim")
    /\ UNCHANGED <<issued, reg, cancelled, batch, cancel, hist, faults>>

-----------------------------------------------------------------------------
(* run_pending, one store operation or one await at a time. *)

\* Mutant of OwnRegistry: all processes share one registry.
SharedRegistry(b) == FALSE

\* The registry is a static of the process: that of a command-line process holds
\* one batch and nobody stops it.
OwnRegistry(b) == b \in CliBatches

\* begin_run: a batch that is registered already loses its token and is told to
\* stop.
BeginRun(b) ==
    /\ batch[b].pc = "idle" /\ Cardinality({c \in Batches : batch[c].pc # "idle"}) < MaxRuns
    /\ Goto(b, "claim")
    /\ IF OwnRegistry(b) THEN UNCHANGED <<reg, cancelled>> ELSE RequestStop /\ reg' = b
    /\ UNCHANGED <<file, api, race, hist, faults>>

\* Mutant of Claimable: a task that was left running is claimed as well.
ClaimUnfinished(doc) == {t \in Ids : doc[t] \in {"Pending", "Running"}}

Claimable(doc) == {t \in Ids : doc[t] = "Pending"}

\* The first `max` of the claimable tasks in file order.
First(doc, max) == {t \in Claimable(doc) : Cardinality({u \in Claimable(doc) : u < t}) < max}

\* claim_pending_tasks
Claim(b) ==
    /\ batch[b].pc = "claim"
    /\ \E max \in 1..MaxParallel :
        LET S == First(Loaded(b), max) IN
        /\ Save(b, [t \in Ids |-> IF t \in S THEN "Running" ELSE Loaded(b)[t]])
        /\ batch' = [batch EXCEPT ![b].todo = S, ![b].pc = IF S = {} THEN "end" ELSE "next"]
    /\ UNCHANGED <<issued, reg, cancelled, api, hist, faults>>

\* After the loop: restore_ids, if there are any, then finalize_run.
AfterLoop(b) == IF batch[b].todo = {} THEN "final" ELSE "restore"

\* The head of the loop: once the token is cancelled, all that is left goes to
\* restore_ids.
NextTask(b) ==
    /\ batch[b].pc = "next"
    /\ IF batch[b].todo = {} \/ b \in cancelled
       THEN Goto(b, AfterLoop(b))
       ELSE \E t \in batch[b].todo :
              /\ \A u \in batch[b].todo : t <= u
              /\ batch' = [batch EXCEPT ![b].pc = "start", ![b].cur = t, ![b].todo = @ \ {t}]
    /\ UNCHANGED <<file, reg, cancelled, api, race, hist, faults>>

\* Mutant of Protected: the slot is overwritten whatever it holds.
NotProtected(s) == FALSE

\* persist_task does not overwrite the cancellation by a user.
Protected(s) == s = "Canceled"

\* persist_task for a task that the document holds.
Persist(b, t, s) ==
    IF Protected(Loaded(b)[t]) THEN Return(b) ELSE Save(b, [Loaded(b) EXCEPT ![t] = s])

\* The start is recorded and the agent begins, also for a task that has been
\* canceled since it was claimed; one that was removed ends the batch.
Start(b) ==
    /\ batch[b].pc = "start"
    /\ LET t == batch[b].cur IN
        IF Loaded(b)[t] = "Absent"
        THEN Abort(b) /\ Return(b) /\ UNCHANGED runs
        ELSE /\ Persist(b, t, "Running")
             /\ runs' = [runs EXCEPT ![t] = @ + 1]
             /\ Goto(b, "exec") /\ UNCHANGED abandoned
    /\ UNCHANGED <<issued, reg, cancelled, api, faults>>

\* run_queue_exec_agent returns; its error may say "canceled" by itself.
Executed(b) ==
    /\ batch[b].pc = "exec"
    /\ \/ Goto(b, "mark")
       \/ b \notin cancelled /\ Goto(b, "gate")
       \/ b \notin cancelled
          /\ batch' = [batch EXCEPT ![b].pc = "finish", ![b].final = "Failed"]
    /\ UNCHANGED <<file, reg, cancelled, api, race, hist, faults>>

\* run_gate returns; a task that does not pass is rolled back.
Gated(b) ==
    /\ batch[b].pc = "gate"
    /\ IF b \in cancelled THEN Goto(b, "mark")
       ELSE \E s \in {"Passed", "RolledBack"} :
                batch' = [batch EXCEPT ![b].pc = "finish", ![b].final = s]
    /\ UNCHANGED <<file, reg, cancelled, api, race, hist, faults>>

\* mark_canceled; with skip_rest the loop takes no further task.
MarkCanceled(b) ==
    /\ batch[b].pc = "mark"
    /\ LET t == batch[b].cur IN
        IF Loaded(b)[t] = "Absent" THEN Return(b)
        ELSE Save(b, [Loaded(b) EXCEPT ![t] = "Canceled"])
    /\ batch' = [batch EXCEPT ![b].pc = AfterLoop(b), ![b].cur = NoTask]
    /\ UNCHANGED <<issued, reg, cancelled, api, hist, faults>>

Finish(b) ==
    /\ batch[b].pc = "finish"
    /\ LET t == batch[b].cur IN
        IF Loaded(b)[t] = "Absent"
        THEN Abort(b) /\ Return(b)
        ELSE /\ Persist(b, t, batch[b].final)
             /\ batch' = [batch EXCEPT ![b] = [Locals("next") EXCEPT !.todo = batch[b].todo]]
             /\ UNCHANGED abandoned
    /\ UNCHANGED <<issued, reg, cancelled, api, runs, faults>>

\* Mutant of Restorable: nothing is restored once the token is cancelled.
RestorableUnlessStopped(b) ==
    IF b \in cancelled THEN {} ELSE {t \in batch[b].todo : Loaded(b)[t] = "Running"}

\* Claimed and not started, unless a user has canceled it.
Restorable(b) == {t \in batch[b].todo : Loaded(b)[t] = "Running"}

\* restore_pending
Restore(b) ==
    /\ batch[b].pc = "restore"
    /\ IF Restorable(b) = {} THEN Return(b)
       ELSE Save(b, [t \in Ids |-> IF t \in Restorable(b) THEN "Pending" ELSE Loaded(b)[t]])
    /\ batch' = [batch EXCEPT ![b].pc = "final", ![b].todo = {}]
    /\ UNCHANGED <<issued, reg, cancelled, api, hist, faults>>

\* finalize_run writes the time of the run, and all that it has loaded with it; then
\* the briefing, which changes nothing that is modelled.
FinalizeRun(b) ==
    /\ batch[b].pc = "final"
    /\ Save(b, Loaded(b))
    /\ Goto(b, "end")
    /\ UNCHANGED <<issued, reg, cancelled, api, hist, faults>>

\* end_run removes the registration, be it this batch's or a later one's.
EndRun(b) ==
    /\ batch[b].pc = "end"
    /\ Goto(b, "done")
    /\ reg' = IF OwnRegistry(b) THEN reg ELSE NoBatch
    /\ cancelled' = cancelled \ {b}
    /\ UNCHANGED <<file, api, race, hist, faults>>

-----------------------------------------------------------------------------
(* Faults. *)

Fault == faults < MaxFaults /\ faults' = faults + 1

StorePcs == {"claim", "start", "mark", "finish", "restore", "final"}

\* Who may be between load and save.
Working ==
    {"client"} \cup {b \in Batches : batch[b].pc \in StorePcs}
               \cup {h \in {"cancel"} : cancel.pc = "mark"} \cup {h \in {"reclaim"} : stop}

\* The lock of an operation that has loaded the file is removed as stale, by the
\* waiter that queue_lock_stale misleads or because it is older than
\* QUEUE_LOCK_STALE.
LoseLock(who) ==
    /\ Fault
    /\ late = NoLate /\ who \in Working
    /\ late' = [who |-> who, doc |-> status, by |-> 0]
    /\ UNCHANGED <<file, reg, cancelled, batch, api, misread, hist>>

\* What a failing or dying writer leaves of the file: fs::write truncates it first,
\* and an empty file reads as an empty queue.
LeavesFile == status' \in {status, Empty}

\* A worktree, a gate or the store fails, the latter also when the lock cannot be
\* had within QUEUE_LOCK_MAX_WAIT.  The error of mark_canceled is ignored.
Fail(b) ==
    /\ Fault
    /\ IF batch[b].pc = "gate" THEN UNCHANGED status ELSE LeavesFile
    /\ \/ batch[b].pc \in {"claim", "start", "gate", "finish", "restore", "final"} /\ Abort(b)
       \/ /\ batch[b].pc = "mark"
          /\ batch' = [batch EXCEPT ![b].pc = AfterLoop(b), ![b].cur = NoTask]
          /\ abandoned' = abandoned \cup {batch[b].cur}
    /\ Over({b})
    /\ UNCHANGED <<issued, reg, cancelled, api, misread, runs>>

\* An operation of a handler or a command fails.
EditFails ==
    /\ Fault
    /\ LeavesFile
    /\ \/ \E c \in Clients : Over({c}) /\ UNCHANGED api
       \/ cancel.pc = "mark" /\ cancel' = NoRequest /\ Over({"cancel"}) /\ UNCHANGED stop
       \/ stop /\ stop' = FALSE /\ Over({"reclaim"}) /\ UNCHANGED cancel
    /\ UNCHANGED <<issued, reg, cancelled, batch, misread, hist>>

\* The client of a run request hangs up: the handler is dropped where it awaits
\* and the registration stays.
HangUp(b) ==
    /\ Fault
    /\ b \in Sidecar /\ batch[b].pc \in {"exec", "gate"}
    /\ Leave({b}, "done")
    /\ UNCHANGED <<file, reg, cancelled, api, race, runs>>

Active == {b \in Batches : batch[b].pc \notin {"idle", "done"}}

CliDies(b) ==
    /\ Fault
    /\ b \in CliBatches \cap Active
    /\ Leave({b}, "done") /\ LeavesFile /\ Over({b})
    /\ UNCHANGED <<issued, reg, cancelled, api, misread, runs>>

\* A late edit may be that of a command, and goes on.
Crash ==
    /\ Fault
    /\ Leave(Sidecar \cap Active, "done") /\ LeavesFile
    /\ Over(Sidecar \cup {"cancel", "reclaim"})
    /\ reg' = NoBatch /\ cancelled' = {}
    /\ cancel' = NoRequest /\ stop' = FALSE
    /\ UNCHANGED <<issued, misread, runs>>

-----------------------------------------------------------------------------
Edit ==
    \/ \E c \in Clients :
        \/ Enqueue(c) \/ ClearFinished(c) \/ Refuse(c)
        \/ \E t \in Ids : RetryTask(c, t) \/ RemoveTask(c, t)
    \/ CancelStop \/ CancelMark \/ Stop \/ ReclaimStaleRunning
    \/ \E t \in Ids : CancelLoad(t)

Step(b) ==
    \/ BeginRun(b) \/ Claim(b) \/ NextTask(b) \/ Start(b) \/ Executed(b) \/ Gated(b)
    \/ MarkCanceled(b) \/ Finish(b) \/ Restore(b) \/ FinalizeRun(b) \/ EndRun(b)

Next ==
    \/ Edit \/ EditFails \/ Crash
    \/ \E b \in Batches : Step(b) \/ Fail(b) \/ HangUp(b) \/ CliDies(b)
    \/ \E who \in Working : LoseLock(who)

Spec == Init /\ [][Next]_vars

-----------------------------------------------------------------------------
(* Properties. *)

Pcs == {"idle", "claim", "next", "start", "exec", "gate", "mark", "finish", "restore", "final",
        "end", "done"}

Operators == Batches \cup Clients \cup {"cancel", "reclaim", "nobody"}

\* Shapes of the variables.
TypeOK ==
    /\ status \in [Ids -> Statuses] /\ issued \in 0..MaxTasks
    /\ reg \in Sidecar \cup {NoBatch} /\ cancelled \subseteq Sidecar
    /\ batch \in [Batches -> [pc : Pcs, todo : SUBSET Ids, cur : Ids \cup {NoTask},
                              final : Statuses]]
    /\ cancel = NoRequest \/ cancel \in [pc : {"stop", "mark"}, task : Ids]
    /\ stop \in BOOLEAN
    /\ late \in [who : Operators, doc : [Ids -> Statuses], by : 0..MaxOvertaken]
    /\ misread \subseteq Ids
    /\ runs \in [Ids -> Nat] /\ abandoned \subseteq Ids
    /\ faults \in 0..MaxFaults

\* The agent, which edits the workspace unattended, executes no task twice,
\* whatever is claimed, restored, stopped, reclaimed or left by a dead process;
\* and a verdict is only ever given to a task that was executed.  The only exception
\* is the lock: a task whose entry had changed when an operation went by the
\* document it had loaded (claim_pending_tasks of a second holder).
RunsOnce ==
    \A t \in Ids \ misread :
        /\ runs[t] <= 1
        /\ status[t] \in {"Passed", "Failed", "RolledBack"} => runs[t] = 1

\* A task is not left "running" by a batch that came to its regular end: every
\* running task belongs to a batch that is active, or that was cut off, unless an
\* operation has gone by an old state of its entry.
RunningHasBatch ==
    \A t \in Ids \ misread :
        status[t] = "Running" => t \in abandoned \/ \E b \in Batches : t \in Held(b)

\* A verdict or a cancellation that is in the file stays: a batch that still
\* executes the task does not overwrite it, and nothing makes it pending again,
\* neither now nor later, unless an operation that has lost its lock goes by the
\* entry as it was before.
FinishedStays ==
    [][\A t \in Ids \ misread' :
            status[t] \in Finished => status'[t] \in {status[t], "Absent"}]_vars

-----------------------------------------------------------------------------
(* What the queue promises to its user: NightLife. *)

\* What some batch holds.
Claimed == UNION {Held(b) : b \in Batches}

Life == INSTANCE NightLife WITH
    Tasks <- Ids, entry <- status, used <- 1..issued, claimed <- Claimed, lost <- abandoned

\* The batches of several processes over one file, with tokens that reach the
\* wrong batch, copies that are written back late and registrations that are
\* removed too early, implement the life of a task as long as no operation goes by
\* an entry that has changed since: it is claimed by one at a time, begun once and
\* only while claimed, gets its verdict only after that and only while nobody has
\* canceled or removed it, and becomes pending again only if it was never begun.
ImplementsNightLife == Life!Init /\ [][misread' = {} => Life!Next]_(Life!vars)

=============================================================================
