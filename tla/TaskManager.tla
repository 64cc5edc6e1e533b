---------------------------- MODULE TaskManager ----------------------------
(***************************************************************************)
(* The durable background-task queue of the sidecar                        *)
(* (crates/runtime-server/src/task_manager).  A pool of workers pops task  *)
(* ids from an in-memory queue guarded by one mutex; every operation under *)
(* the mutex rewrites queue.json and the task files one atomic file at a   *)
(* time, so the process can die, or a write can fail, between two of them. *)
(* After a restart load_state rebuilds memory from those files.            *)
(*                                                                         *)
(* Abstracted: a task record is its status; prompts, timelines, artifacts  *)
(* and tool metadata are left out.  TaskManager::shutdown is not modelled: *)
(* nothing in the repository calls it.                                     *)
(***************************************************************************)
EXTENDS Naturals, Sequences, FiniteSets

CONSTANTS
    Tasks,      \* the ids Uuid::new_v4 may hand out
    Workers,    \* the worker_count spawned worker loops
    NoTask,     \* "no task"
    MaxFaults   \* bound on crashes plus failed file writes

ASSUME TasksAssumption == IsFiniteSet(Tasks) /\ NoTask \notin Tasks
ASSUME WorkersAssumption == Workers # {}
ASSUME FaultsAssumption == MaxFaults \in Nat

VARIABLES
    up,             \* the sidecar process is alive
    tasks,          \* ManagerState.tasks: id -> status, "Absent" if unknown
    queue,          \* ManagerState.queue
    running_cancel, \* ids with an entry in ManagerState.running_cancel
    cancelled,      \* ids whose current cancellation token is cancelled
    worker,         \* worker -> [pc, task]
    permit,         \* the stored permit of tokio's Notify
    holder,         \* the operation that holds the state mutex, "free" if none
    arg,            \* the task that operation is about
    wqueue,         \* queue.json still has to be written by the holder
    wtasks,         \* task files still to be written (or removed) by the holder
    dtasks,         \* tasks/<id>.json: id -> status, "Absent" if no file
    dqueue,         \* queue.json
    issued,         \* history: ids handed out by add_task
    acked,          \* history: ids whose add_task returned Ok
    stopped,        \* history: ids whose cancel_task of a queued task returned Ok
    asked,          \* history: ids whose cancel_task of a running task returned Ok
    cleared,        \* history: ids removed by clear_terminal_tasks
    faults          \* crashes and failed writes so far

memory  == <<tasks, queue, running_cancel, cancelled>>
pool    == <<worker, permit>>
mutex   == <<holder, arg, wqueue, wtasks>>
disk    == <<dtasks, dqueue>>
history == <<issued, acked, stopped, asked, cleared>>
vars    == <<up, memory, pool, mutex, disk, history, faults>>

Terminal == {"Completed", "Failed", "Canceled"}
Status   == {"Absent", "Queued", "Running"} \cup Terminal
Holders  == {"free", "boot", "add", "cancel", "stop", "start", "skip",
             "record", "finish", "clear"}

Ids(s)   == {s[i] : i \in DOMAIN s}
Known    == {t \in Tasks : tasks[t] # "Absent"}
Distinct(s) == \A i, j \in DOMAIN s : s[i] = s[j] => i = j

\* The ids of S in some order: load_state sorts the missing ids, which are random.
Orderings(S) == {s \in [1..Cardinality(S) -> S] : Ids(s) = S /\ Distinct(s)}

\* Mutant of Retain: the predicate keeps everything.
RetainAll(s, keep) == {s}

\* VecDeque::retain: the ids of s that are in keep, in the order of s (a set
\* with one element, since the ids of a queue are distinct).
Retain(s, keep) ==
    {r \in Orderings(Ids(s) \cap keep) :
        \A i, j \in DOMAIN r : i < j =>
            \E m, n \in DOMAIN s : m < n /\ s[m] = r[i] /\ s[n] = r[j]}

Idle(w)  == worker[w].pc = "waiting"

Init ==
    /\ up = TRUE
    /\ tasks = [t \in Tasks |-> "Absent"]
    /\ queue = <<>>
    /\ running_cancel = {}
    /\ cancelled = {}
    /\ worker = [w \in Workers |-> [pc |-> "pop", task |-> NoTask]]
    /\ permit = FALSE
    /\ holder = "free" /\ arg = NoTask /\ wqueue = FALSE /\ wtasks = {}
    /\ dtasks = [t \in Tasks |-> "Absent"]
    /\ dqueue = <<>>
    /\ issued = {} /\ acked = {} /\ stopped = {} /\ asked = {} /\ cleared = {}
    /\ faults = 0

-----------------------------------------------------------------------------
(* The mutex and the files written while it is held. *)

\* Mutants of PersistAll: finished records, or all records, are not rewritten.
PersistUnfinished(op, t, status) ==
    /\ holder' = op /\ arg' = t
    /\ wqueue' = TRUE
    /\ wtasks' = {u \in Tasks : status[u] \in {"Queued", "Running"}}

PersistQueueOnly(op, t, status) ==
    /\ holder' = op /\ arg' = t
    /\ wqueue' = TRUE
    /\ wtasks' = {}

\* persist_all_locked: queue.json first, then every task file.
PersistAll(op, t, status) ==
    /\ holder' = op /\ arg' = t
    /\ wqueue' = TRUE
    /\ wtasks' = {u \in Tasks : status[u] # "Absent"}

\* persist_task_locked of one record.
PersistOne(op, t) ==
    /\ holder' = op /\ arg' = t
    /\ wqueue' = FALSE
    /\ wtasks' = {t}

Release == holder' = "free" /\ arg' = NoTask /\ wqueue' = FALSE /\ wtasks' = {}

\* Mutant of NotifyOne: notify_waiters, which stores no permit.
NotifyWaiters ==
    /\ worker' = [w \in Workers |->
                    IF Idle(w) THEN [worker[w] EXCEPT !.pc = "pop"] ELSE worker[w]]
    /\ permit' = permit

\* Notify::notify_one: wake one waiter, or store a permit.
NotifyOne ==
    \/ \E w \in Workers :
        /\ Idle(w)
        /\ worker' = [worker EXCEPT ![w].pc = "pop"]
        /\ permit' = permit
    \/ /\ \A w \in Workers : ~Idle(w)
       /\ permit' = TRUE
       /\ worker' = worker

WriteQueue ==
    /\ up /\ wqueue
    /\ holder = "clear" => wtasks = {}
    /\ dqueue' = queue
    /\ wqueue' = FALSE
    /\ UNCHANGED <<up, memory, pool, holder, arg, wtasks, dtasks, history, faults>>

WriteTask(t) ==
    /\ up /\ ~wqueue /\ holder # "clear"
    /\ t \in wtasks
    /\ dtasks' = [dtasks EXCEPT ![t] = tasks[t]]
    /\ wtasks' = wtasks \ {t}
    /\ UNCHANGED <<up, memory, pool, holder, arg, wqueue, dqueue, history, faults>>

\* The process dies: what is not on disk is gone.
LoseMemory ==
    /\ up' = FALSE
    /\ tasks' = [t \in Tasks |-> "Absent"]
    /\ queue' = <<>>
    /\ running_cancel' = {} /\ cancelled' = {}
    /\ worker' = [w \in Workers |-> [pc |-> "pop", task |-> NoTask]]
    /\ permit' = FALSE

\* A write fails: `?` leaves the operation with an error and drops the guard.
\* add_task has not notified yet; a failed first persist aborts the start-up.
WriteFails ==
    /\ up /\ (wqueue \/ wtasks # {})
    /\ holder = "clear" => wtasks = {}
    /\ faults < MaxFaults
    /\ faults' = faults + 1
    /\ IF holder = "boot" THEN LoseMemory ELSE UNCHANGED <<up, memory, pool>>
    /\ Release
    /\ UNCHANGED <<disk, history>>

\* All files are written: the operation returns Ok and drops the guard.
Return ==
    /\ up /\ holder # "free" /\ ~wqueue /\ wtasks = {}
    /\ Release
    /\ IF holder = "add" THEN NotifyOne ELSE UNCHANGED pool
    /\ acked' = IF holder = "add" THEN acked \cup {arg} ELSE acked
    /\ stopped' = IF holder = "cancel" THEN stopped \cup {arg} ELSE stopped
    /\ asked' = IF holder = "stop" THEN asked \cup {arg} ELSE asked
    /\ UNCHANGED <<up, memory, disk, issued, cleared, faults>>

Lock == up /\ holder = "free"

-----------------------------------------------------------------------------
(* Operations of the API and of the model-visible tools. *)

AddTask(t) ==
    /\ Lock
    /\ t \notin issued
    /\ queue' = Append(queue, t)
    /\ tasks' = [tasks EXCEPT ![t] = "Queued"]
    /\ issued' = issued \cup {t}
    /\ PersistAll("add", t, tasks')
    /\ UNCHANGED <<up, running_cancel, cancelled, pool, disk, acked, stopped,
                   asked, cleared, faults>>

CancelTask(t) ==
    /\ Lock
    /\ t \in Known
    /\ \/ /\ tasks[t] = "Queued"
          /\ tasks' = [tasks EXCEPT ![t] = "Canceled"]
          /\ queue' \in Retain(queue, Tasks \ {t})
          /\ cancelled' = cancelled
          /\ PersistAll("cancel", t, tasks')
       \/ /\ tasks[t] = "Running"
          /\ cancelled' = cancelled \cup ({t} \cap running_cancel)
          /\ UNCHANGED <<tasks, queue>>
          /\ PersistAll("stop", t, tasks)
       \/ /\ tasks[t] \in Terminal
          /\ UNCHANGED <<tasks, queue, cancelled>>
          /\ PersistAll("record", t, tasks)
    /\ UNCHANGED <<up, running_cancel, pool, disk, history, faults>>

RecordToolMetadata(t) ==
    /\ Lock
    /\ t \in Known
    /\ PersistOne("record", t)
    /\ UNCHANGED <<up, memory, pool, disk, history, faults>>

\* clear_terminal_tasks collects the terminal ids, then forgets them one by
\* one, removing each file, and rewrites queue.json at the end.
ClearTerminalTasks ==
    /\ Lock
    /\ \E t \in Tasks : tasks[t] \in Terminal
    /\ holder' = "clear" /\ arg' = NoTask /\ wqueue' = TRUE
    /\ wtasks' = {t \in Tasks : tasks[t] \in Terminal}
    /\ UNCHANGED <<up, memory, pool, disk, history, faults>>

\* remove_file may fail: the record is then forgotten but its file stays, and
\* the operation returns an error (removed = FALSE).
ClearOne(t, removed) ==
    /\ up /\ holder = "clear"
    /\ t \in wtasks
    /\ tasks' = [tasks EXCEPT ![t] = "Absent"]
    /\ queue' \in Retain(queue, Tasks \ {t})
    /\ running_cancel' = running_cancel \ {t}
    /\ cleared' = cleared \cup {t}
    /\ \/ /\ removed
          /\ dtasks' = [dtasks EXCEPT ![t] = "Absent"]
          /\ wtasks' = wtasks \ {t}
          /\ UNCHANGED <<holder, arg, wqueue, faults>>
       \/ /\ ~removed /\ faults < MaxFaults
          /\ faults' = faults + 1
          /\ dtasks' = dtasks
          /\ Release
    /\ UNCHANGED <<up, cancelled, pool, dqueue, issued, acked, stopped, asked>>

-----------------------------------------------------------------------------
(* The worker loop. *)

\* The locked section of worker_loop: pop an id and mark it Running.  An id
\* that is no longer queued is dropped, only queue.json is rewritten, and the
\* worker goes on to wait for a notification.
PopTask(w) ==
    /\ Lock
    /\ worker[w].pc = "pop"
    /\ queue # <<>>
    /\ queue' = Tail(queue)
    /\ LET t == Head(queue) IN
        IF tasks[t] = "Queued"
        THEN /\ tasks' = [tasks EXCEPT ![t] = "Running"]
             /\ running_cancel' = running_cancel \cup {t}
             /\ cancelled' = cancelled \ {t}
             /\ worker' = [worker EXCEPT ![w] = [pc |-> "exec", task |-> t]]
             /\ PersistAll("start", t, tasks')
        ELSE /\ UNCHANGED <<tasks, running_cancel, cancelled>>
             /\ worker' = [worker EXCEPT ![w].pc = "idle"]
             /\ holder' = "skip" /\ arg' = NoTask /\ wqueue' = TRUE /\ wtasks' = {}
    /\ UNCHANGED <<up, permit, disk, history, faults>>

PopEmpty(w) ==
    /\ Lock
    /\ worker[w].pc = "pop"
    /\ queue = <<>>
    /\ worker' = [worker EXCEPT ![w].pc = "idle"]
    /\ UNCHANGED <<up, memory, permit, mutex, disk, history, faults>>

\* notify.notified().await: take the stored permit or start waiting.
Notified(w) ==
    /\ up /\ worker[w].pc = "idle"
    /\ worker' = [worker EXCEPT ![w].pc = IF permit THEN "pop" ELSE "waiting"]
    /\ permit' = FALSE
    /\ UNCHANGED <<up, memory, mutex, disk, history, faults>>

\* run_task handles an event of the executor: the task file is rewritten.
ApplyExecutionEvent(w) ==
    /\ Lock
    /\ worker[w].pc = "exec"
    /\ worker[w].task \in Known
    /\ PersistOne("record", worker[w].task)
    /\ UNCHANGED <<up, memory, pool, disk, history, faults>>

\* Mutant of FinalStatus: the token is not consulted.
FinalStatusAsReturned(t, result) == result

\* finish_task: a cancelled token turns Completed into Canceled.
FinalStatus(t, result) ==
    IF t \in cancelled /\ result = "Completed" THEN "Canceled" ELSE result

\* The executor returned `result`.  Writing the result artifact may fail, and
\* then finish_task leaves before it persists anything (artifact = FALSE).
FinishTask(w, result, artifact) ==
    /\ Lock
    /\ worker[w].pc = "exec"
    /\ LET t == worker[w].task IN
        /\ running_cancel' = running_cancel \ {t}
        /\ cancelled' = cancelled \ {t}
        /\ IF t \in Known
           THEN /\ tasks' = [tasks EXCEPT ![t] = FinalStatus(t, result)]
                /\ \/ /\ artifact
                      /\ PersistAll("finish", t, tasks')
                      /\ faults' = faults
                   \/ /\ ~artifact /\ faults < MaxFaults
                      /\ faults' = faults + 1
                      /\ UNCHANGED mutex
           ELSE /\ artifact
                /\ UNCHANGED <<tasks, mutex, faults>>
    /\ worker' = [worker EXCEPT ![w] = [pc |-> "pop", task |-> NoTask]]
    /\ UNCHANGED <<up, queue, permit, disk, history>>

-----------------------------------------------------------------------------
(* Crash and restart. *)

Crash ==
    /\ up /\ faults < MaxFaults
    /\ faults' = faults + 1
    /\ LoseMemory
    /\ Release
    /\ UNCHANGED <<disk, history>>

\* Mutants of Recovered: running tasks stay Running; get a status of their
\* own; failed tasks are retried as well.
RecoveredAsStored(s) == s
RecoveredAsNew(s) == [t \in Tasks |-> IF s[t] = "Running" THEN "Recovered" ELSE s[t]]
RecoveredRetrying(s) ==
    [t \in Tasks |-> IF s[t] \in {"Running", "Failed"} THEN "Queued" ELSE s[t]]

\* load_state: a task that was running is queued again.
Recovered(s) == [t \in Tasks |-> IF s[t] = "Running" THEN "Queued" ELSE s[t]]

\* load_state: the file's order for ids that are queued, then the missing ones.
LoadQueue(s, q) ==
    LET queued == {t \in Tasks : s[t] = "Queued"}
    IN UNION {{kept \o missing : missing \in Orderings(queued \ Ids(q))} :
                kept \in Retain(q, queued)}

Restart ==
    /\ ~up
    /\ up' = TRUE
    /\ tasks' = Recovered(dtasks)
    /\ queue' \in LoadQueue(tasks', dqueue)
    /\ running_cancel' = {} /\ cancelled' = {}
    /\ worker' = [w \in Workers |-> [pc |-> "pop", task |-> NoTask]]
    /\ permit' = FALSE
    /\ PersistAll("boot", NoTask, tasks')
    /\ asked' = {}
    /\ UNCHANGED <<disk, issued, acked, stopped, cleared, faults>>

-----------------------------------------------------------------------------
Write == WriteQueue \/ \E t \in Tasks : WriteTask(t)

Clear == \E t \in Tasks, removed \in BOOLEAN : ClearOne(t, removed)

Pop(w) == PopTask(w) \/ PopEmpty(w)

Finish(w) ==
    \E result \in Terminal, artifact \in BOOLEAN : FinishTask(w, result, artifact)

Next ==
    \/ \E t \in Tasks : AddTask(t) \/ CancelTask(t) \/ RecordToolMetadata(t)
    \/ ClearTerminalTasks \/ Clear
    \/ Write \/ WriteFails \/ Return
    \/ \E w \in Workers : Pop(w) \/ Notified(w) \/ ApplyExecutionEvent(w) \/ Finish(w)
    \/ Crash \/ Restart

Spec == Init /\ [][Next]_vars

(***************************************************************************)
(* Fairness.  tokio's Mutex hands the lock to waiters in FIFO order, so an *)
(* operation that keeps asking for it gets it although others take it in   *)
(* between: strong fairness for the lock-taking steps of a worker.  The    *)
(* holder never awaits while it writes.  Finish assumes that the executor  *)
(* returns; Restart that the desktop shell respawns a dead sidecar.        *)
(***************************************************************************)
Fairness ==
    /\ WF_vars(Write) /\ WF_vars(Clear) /\ WF_vars(Return) /\ WF_vars(Restart)
    /\ \A w \in Workers :
        SF_vars(Pop(w)) /\ WF_vars(Notified(w)) /\ SF_vars(Finish(w))

FairSpec == Spec /\ Fairness

-----------------------------------------------------------------------------
(* Properties. *)

\* Shapes of the variables; only known tasks are about to be written.
TypeOK ==
    /\ up \in BOOLEAN /\ permit \in BOOLEAN /\ wqueue \in BOOLEAN
    /\ tasks \in [Tasks -> Status] /\ dtasks \in [Tasks -> Status]
    /\ queue \in Seq(Tasks) /\ dqueue \in Seq(Tasks)
    /\ running_cancel \subseteq Tasks /\ cancelled \subseteq Tasks
    /\ worker \in [Workers -> [pc : {"pop", "idle", "waiting", "exec"},
                               task : Tasks \cup {NoTask}]]
    /\ holder \in Holders /\ arg \in Tasks \cup {NoTask}
    /\ wtasks \subseteq Known
    /\ issued \subseteq Tasks /\ acked \subseteq issued
    /\ stopped \subseteq Tasks /\ asked \subseteq Tasks /\ cleared \subseteq Tasks
    /\ faults \in 0..MaxFaults

\* The in-memory queue lists exactly the Queued tasks, each once: after every
\* cancel, clear, failed write and restart (load_state) no queued task is
\* missing from the queue and no stale id is left in it for worker_loop to skip.
QueueMatchesStatus ==
    up => /\ Ids(queue) = {t \in Tasks : tasks[t] = "Queued"}
          /\ Distinct(queue)

\* A task is Running exactly while one worker executes it: two workers never
\* run the same task, and no task is Running with nobody working on it.
ExclusiveExecution ==
    /\ \A t \in Tasks :
        tasks[t] = "Running" <=> \E w \in Workers : worker[w] = [pc |-> "exec", task |-> t]
    /\ \A v, w \in Workers :
        (worker[v].pc = "exec" /\ worker[v].task = worker[w].task) => v = w

\* Once cancel_task of a queued task has returned Ok the task never waits for a
\* worker or runs again, not even after a crash and load_state.
CanceledNeverRuns == \A t \in stopped : tasks[t] \notin {"Queued", "Running"}

\* A task whose file records a terminal status is never executed again, however
\* the process dies and restarts between the writes of persist_all_locked.
FinishedNeverReruns ==
    \A t \in Tasks : dtasks[t] \in Terminal => tasks[t] \in {dtasks[t], "Absent"}

\* A terminal status in a task file changes only by the removal of the file.
TerminalIsFinal ==
    [][\A t \in Tasks :
        dtasks[t] \in Terminal => dtasks'[t] \in {dtasks[t], "Absent"}]_vars

\* A task whose add_task returned Ok has a file, and is known to a running
\* manager, until clear_terminal_tasks forgets it.
AckedNeverLost ==
    \A t \in acked \ cleared : dtasks[t] # "Absent" /\ (up => tasks[t] # "Absent")

\* No lost wakeup: while an acknowledged task waits in the queue, a worker is
\* awake and will look at the queue again, or a permit is stored for the next
\* worker that waits.
NoLostWakeup ==
    (up /\ acked \cap Ids(queue) # {}) =>
        permit \/ \E w \in Workers : worker[w].pc \in {"pop", "exec"}

\* A running task whose cancellation was acknowledged in this run of the
\* process does not end as Completed, even if its executor had finished first.
CancelWins == \A t \in asked : tasks[t] # "Completed"

\* Every acknowledged task reaches a terminal status (or is cleared after it
\* did), across crashes, failed writes and lost notifications.
AckedFinishes ==
    \A t \in Tasks : t \in acked ~> (tasks[t] \in Terminal \/ t \in cleared)

-----------------------------------------------------------------------------
(* What the manager promises: TaskLife, its records and its files.         *)

Life == INSTANCE TaskLife WITH life <- tasks, saved <- dtasks

\* The queue, the workers, the wakeups and the files written one by one under
\* the mutex implement the life of a task: ids are fresh, add_task answers Ok
\* only for a task with a file, a status only moves forward, a restart resumes
\* exactly what the files say, and no other step changes a record or a file.
ImplementsTaskLife == Life!Spec

=============================================================================
