---------------------------- MODULE Automations ----------------------------
(***************************************************************************)
(* Scheduled automations (crates/runtime-server/src/automation_manager.rs):*)
(* the records in their directory, the runs recorded for each of them, the *)
(* scheduler that launches what is due, and the requests of the HTTP API   *)
(* and of the model-visible tools.  One tokio mutex around the manager     *)
(* serialises them; it is held across the awaits of a tick and of run_now. *)
(*                                                                         *)
(* The task manager is the one its clients may rely on, module TaskLife.   *)
(* Abstracted: the calendar (a recurring rule is a period); what an        *)
(* automation launches, a task, a night-queue task or a batch of the night *)
(* queue, which an update may change at any time; updated_at, last_run_at. *)
(***************************************************************************)
EXTENDS Naturals, FiniteSets

CONSTANTS
    Autos,          \* ids of automations that are ever created
    Tasks,          \* ids of tasks that add_task may hand out
    NoId,
    Outcomes,       \* statuses with which tasks and batches end
    Periods, Dates, \* periods of the recurring rules, dates of the ONCE rules
    MaxCatchup,     \* MAX_CATCHUP_STEPS
    SlotLimit,      \* runs that scheduler_tick looks through for a slot
    ReconcileLimit, \* runs that reconcile_run_statuses looks at
    Horizon,        \* bound on the clock
    MaxRuns,        \* bound on the runs ever begun
    MaxManual,      \* bound on run_now
    MaxFaults       \* bound on failed writes, lost clients and process deaths

ASSUME IdsAssumption == NoId \notin Autos \cup Tasks
ASSUME OutcomesAssumption == Outcomes \subseteq {"Completed", "Failed", "Canceled"}
ASSUME BoundsAssumption ==
    /\ Periods \cup Dates \subseteq Nat \ {0}
    /\ {MaxCatchup, Horizon, MaxRuns, MaxManual, MaxFaults} \subseteq Nat
    /\ {SlotLimit, ReconcileLimit} \subseteq Nat \ {0}

VARIABLES
    autos,          \* id -> the record in its file
    runs,           \* run -> the record in its file; runs are numbered by created_at
    begun,          \* number of runs begun
    op,             \* the holder of the mutex and its locals
    nights,         \* runs whose night-queue batch is executing in this process
    now,            \* the clock
    launched,       \* history: [run, auto, slot] whose work was started
    manual, faults, \* counters of the bounds
    up, life, saved, issued, acked      \* of the task manager

disk   == <<autos, runs>>
bounds == <<manual, faults>>
tasks  == <<up, life, saved, issued, acked>>
vars   == <<disk, begun, op, nights, now, launched, bounds, tasks>>

Life == INSTANCE TaskLife

-----------------------------------------------------------------------------
None      == 0      \* no slot: no next_run_at, or a run that is not scheduled
Runs      == 1..MaxRuns
Open      == {"Queued", "Running"}
Settled   == {"Completed", "Failed", "Canceled"}
Once      == [period : {0}, at : Dates]
Every     == [period : Periods, at : {0}]
Schedules == Once \cup Every

Blank == [status |-> "New", next |-> None, rule |-> [period |-> 0, at |-> 0]]
NoRun == [auto |-> NoId, slot |-> None, status |-> "Absent", task |-> NoId]

\* The mutex is free, or held with: the records as listed and those not handled
\* yet, the run being made, the runs to reconcile or to delete, and `now` of the tick.
Idle == [pc |-> "free", list |-> [a \in Autos |-> Blank], todo |-> {}, run |-> 0,
         rec |-> NoRun, check |-> {}, now |-> 0]

Free == up /\ op.pc = "free"

Kept(a) == autos[a].status \in {"Active", "Paused"}

\* next_after_opt: strictly after `t`, None once a ONCE rule is exhausted.  A rule
\* from which no slot can be computed at `t` (bail!) fails the request, which then
\* changes nothing, or the tick, as WriteFails does.
NextAfter(rule, t) ==
    IF rule.period > 0 THEN t + rule.period
    ELSE IF rule.at > t THEN rule.at ELSE None

\* Mutant of AfterFire: the slot that has fired is kept.
KeepSlot(auto, due) == auto

\* apply_next_run_after_fire: elapsed slots are skipped, at most MaxCatchup of
\* them; an exhausted rule pauses the automation.
AfterFire(auto, due) ==
    IF auto.rule.period = 0 THEN [auto EXCEPT !.next = None, !.status = "Paused"]
    ELSE LET missed == (now - due) \div auto.rule.period
             skipped == IF missed < MaxCatchup THEN missed ELSE MaxCatchup
         IN  [auto EXCEPT !.next = due + (skipped + 1) * auto.rule.period]

\* list_runs: the last `n` runs of an automation.
Recorded(a) == {r \in Runs : runs[r].auto = a}
LastRuns(a, n) == {r \in Recorded(a) : Cardinality({q \in Recorded(a) : q > r}) < n}

Init ==
    /\ autos = [a \in Autos |-> Blank]
    /\ runs = [r \in Runs |-> NoRun] /\ begun = 0
    /\ op = Idle /\ nights = {} /\ now = 0
    /\ launched = {} /\ manual = 0 /\ faults = 0
    /\ Life!Init

-----------------------------------------------------------------------------
(* Requests that write one record while they hold the mutex. *)

CreateAutomation(a) ==
    /\ Free /\ autos[a].status = "New"
    /\ \E rule \in Schedules, status \in {"Active", "Paused"} :
        LET next == IF status = "Active" THEN NextAfter(rule, now) ELSE None IN
        /\ status = "Active" => next # None
        /\ autos' = [autos EXCEPT ![a] = [status |-> status, next |-> next, rule |-> rule]]
    /\ UNCHANGED <<runs, begun, op, nights, now, launched, bounds, tasks>>

\* A new rule gives an active automation its next slot or, exhausted, pauses it.
WithRule(auto, rule) ==
    LET next == NextAfter(rule, now) IN
    IF auto.status # "Active" THEN [auto EXCEPT !.rule = rule]
    ELSE [auto EXCEPT !.rule = rule, !.next = next,
                      !.status = IF next = None THEN "Paused" ELSE "Active"]

\* Resuming gives a slot strictly after `now`, pausing takes it away.
WithStatus(auto, status) ==
    [auto EXCEPT !.status = status,
                 !.next = IF status = "Paused" THEN None ELSE NextAfter(auto.rule, now)]

\* update_automation, whose error leaves the file as it is.
Save(a, auto) ==
    /\ Free /\ Kept(a)
    /\ autos' = [autos EXCEPT ![a] = auto]
    /\ UNCHANGED <<runs, begun, op, nights, now, launched, bounds, tasks>>

\* A request that changes the status too does what the two do one after the other.
UpdateAutomation(a) == \E rule \in Schedules : Save(a, WithRule(autos[a], rule))

PauseAutomation(a) == Save(a, WithStatus(autos[a], "Paused"))

ResumeAutomation(a) ==
    /\ NextAfter(autos[a].rule, now) # None
    /\ Save(a, WithStatus(autos[a], "Active"))

\* The holder goes through the runs of S, or gives the mutex back.
Through(S, pc) == op' = IF S = {} THEN Idle ELSE [Idle EXCEPT !.pc = pc, !.check = S]

\* Mutant of DeleteAutomation: the request does not wait for the mutex.
DeleteUnlocked(a) ==
    /\ up /\ Kept(a)
    /\ autos' = [autos EXCEPT ![a] = [Blank EXCEPT !.status = "Deleted"]]
    /\ runs' = [r \in Runs |-> IF r \in Recorded(a) THEN NoRun ELSE runs[r]]
    /\ UNCHANGED <<begun, op, nights, now, launched, bounds, tasks>>

\* delete_automation removes the file of the record, then the runs one by one.
DeleteAutomation(a) ==
    /\ Free /\ Kept(a)
    /\ autos' = [autos EXCEPT ![a] = [Blank EXCEPT !.status = "Deleted"]]
    /\ Through(Recorded(a), "delete")
    /\ UNCHANGED <<runs, begun, nights, now, launched, bounds, tasks>>

RemoveRun(r) ==
    /\ up /\ op.pc = "delete" /\ r \in op.check
    /\ runs' = [runs EXCEPT ![r] = NoRun]
    /\ Through(op.check \ {r}, "delete")
    /\ UNCHANGED <<autos, begun, nights, now, launched, bounds, tasks>>

-----------------------------------------------------------------------------
(* Launching: execute_automation_run, for scheduler_tick and for run_now. *)

Run(a, slot, status, task) ==
    [auto |-> a, slot |-> slot, status |-> status, task |-> task]

\* The next run is made by the holder of the mutex, whose locals are `o` so far.
Begin(run, pc, o) ==
    /\ begun < MaxRuns /\ begun' = begun + 1
    /\ op' = [o EXCEPT !.pc = pc, !.run = begun + 1, !.rec = run]
    /\ UNCHANGED <<autos, now, faults>>

Starts(a, slot) ==
    launched' = launched \cup {[run |-> begun + 1, auto |-> a, slot |-> slot]}

\* add_task is called.
LaunchTask(a, slot, o) ==
    /\ Starts(a, slot)
    /\ \E t \in Tasks : Life!Create(t) /\ Begin(Run(a, slot, "Queued", t), "adding", o)
    /\ UNCHANGED <<runs, nights>>

\* A task is added to the night queue.
LaunchEnqueue(a, slot, o) ==
    /\ Starts(a, slot)
    /\ Begin(Run(a, slot, "Completed", NoId), "record", o)
    /\ UNCHANGED <<runs, nights, tasks>>

\* The run is recorded and a batch of the night queue is spawned.
LaunchNight(a, slot, o) ==
    /\ Starts(a, slot)
    /\ Begin(Run(a, slot, "Running", NoId), "record", o)
    /\ runs' = [runs EXCEPT ![begun + 1] = Run(a, slot, "Running", NoId)]
    /\ nights' = nights \cup {begun + 1}
    /\ UNCHANGED tasks

\* add_task or the night queue refuses.
Refused(a, slot, o) ==
    /\ Begin(Run(a, slot, "Failed", NoId), "record", o)
    /\ UNCHANGED <<runs, nights, launched, tasks>>

Launch(a, slot, o) ==
    \/ LaunchTask(a, slot, o) \/ LaunchEnqueue(a, slot, o)
    \/ LaunchNight(a, slot, o) \/ Refused(a, slot, o)

\* add_task answers.
TaskAdded ==
    /\ up /\ op.pc = "adding"
    /\ \/ /\ Life!Acknowledge(op.rec.task)
          /\ op' = [op EXCEPT !.pc = "record", !.rec.status = "Running"]
       \/ /\ op' = [op EXCEPT !.pc = "record", !.rec.status = "Failed", !.rec.task = NoId]
          /\ UNCHANGED tasks
    /\ UNCHANGED <<disk, begun, nights, now, launched, bounds>>

SaveRun ==
    /\ up /\ op.pc = "record"
    /\ runs' = [runs EXCEPT ![op.run] = op.rec]
    /\ op' = [op EXCEPT !.pc = "advance"]
    /\ UNCHANGED <<autos, begun, nights, now, launched, bounds, tasks>>

\* The record is written back: by a tick with the next slot, by run_now as it was.
SaveAutomation ==
    /\ up /\ op.pc = "advance"
    /\ LET a == op.rec.auto IN
        IF op.rec.slot = None
        THEN autos' = [autos EXCEPT ![a] = op.list[a]] /\ op' = Idle
        ELSE /\ autos' = [autos EXCEPT ![a] = AfterFire(op.list[a], op.rec.slot)]
             /\ op' = [op EXCEPT !.pc = "tick", !.run = 0, !.rec = NoRun]
    /\ UNCHANGED <<runs, begun, nights, now, launched, bounds, tasks>>

RunNow(a) ==
    /\ Free /\ Kept(a)
    /\ manual < MaxManual /\ manual' = manual + 1
    /\ Launch(a, None, [Idle EXCEPT !.list = autos])

-----------------------------------------------------------------------------
(* The scheduler. *)

BeginTick ==
    /\ Free
    /\ op' = [Idle EXCEPT !.pc = "tick", !.list = autos, !.now = now,
                          !.todo = {a \in Autos : Kept(a)}]
    /\ UNCHANGED <<disk, begun, nights, now, launched, bounds, tasks>>

Handled(a) == [op EXCEPT !.todo = @ \ {a}]

\* An active record always has a slot (NextIffActive), so that the branch for one
\* without is left out.
Due(a) == /\ up /\ op.pc = "tick" /\ a \in op.todo
          /\ op.list[a].status = "Active" /\ op.list[a].next <= op.now

NotDue(a) ==
    /\ up /\ op.pc = "tick" /\ a \in op.todo /\ ~Due(a)
    /\ op' = Handled(a)
    /\ UNCHANGED <<disk, begun, nights, now, launched, bounds, tasks>>

\* Mutant of Fired: every due slot is launched.
NeverFired(a) == FALSE

\* A run exists for the slot.
Fired(a) == \E r \in LastRuns(a, SlotLimit) : runs[r].slot = op.list[a].next

SkipFired(a) ==
    /\ Due(a) /\ Fired(a)
    /\ autos' = [autos EXCEPT ![a] = AfterFire(op.list[a], op.list[a].next)]
    /\ op' = Handled(a)
    /\ UNCHANGED <<runs, begun, nights, now, launched, bounds, tasks>>

LaunchDue(a) ==
    /\ Due(a) /\ ~Fired(a)
    /\ Launch(a, op.list[a].next, Handled(a))
    /\ UNCHANGED manual

Unsettled(a) == {r \in LastRuns(a, ReconcileLimit) :
                    runs[r].status \in Open /\ runs[r].task # NoId}

\* reconcile_run_statuses follows the tick, also one that failed; it goes by the
\* records, and passes over the runs of one that was deleted.
ToReconcile ==
    Through(UNION {Unsettled(a) : a \in {b \in Autos : Kept(b)}}, "reconcile")

EndTick ==
    /\ up /\ op.pc = "tick" /\ op.todo = {}
    /\ ToReconcile
    /\ UNCHANGED <<disk, begun, nights, now, launched, bounds, tasks>>

\* Mutant of Mirrored: a run whose task is unknown is left as it is.
MirroredIfKnown(r) ==
    LET s == life[runs[r].task] IN IF s = "Absent" THEN runs[r].status ELSE s

\* Mutant of Mirrored: the status as the manager tells it.
MirroredAsTold(r) == life[runs[r].task]

\* The status of the task, "Failed" if the manager does not know it.
Mirrored(r) == LET s == life[runs[r].task] IN IF s = "Absent" THEN "Failed" ELSE s

Reconcile(r) ==
    /\ up /\ op.pc = "reconcile" /\ r \in op.check
    /\ runs' = [runs EXCEPT ![r].status = Mirrored(r)]
    /\ Through(op.check \ {r}, "reconcile")
    /\ UNCHANGED <<autos, begun, nights, now, launched, bounds, tasks>>

\* The batch of a night-queue run ends: mark_run_finished takes the mutex; the
\* run may be gone with its automation.
NightEnds(r) ==
    /\ Free /\ r \in nights
    /\ nights' = nights \ {r}
    /\ \E s \in Outcomes \ {"Canceled"} :
        runs' = IF runs[r].status = "Absent" THEN runs ELSE [runs EXCEPT ![r].status = s]
    /\ UNCHANGED <<autos, begun, op, now, launched, bounds, tasks>>

-----------------------------------------------------------------------------
(* Faults and the environment. *)

Fault == faults < MaxFaults /\ faults' = faults + 1

\* A write, or the computation of the next slot, fails: `?` leaves a tick with all
\* that is left of it, or a deletion with the runs that are left.
WriteFails ==
    /\ Fault /\ up
    /\ \/ /\ op.pc \in {"record", "advance"} \/ \E a \in Autos : Due(a)
          /\ IF op.pc # "tick" /\ op.rec.slot = None THEN op' = Idle ELSE ToReconcile
       \/ op.pc \in {"reconcile", "delete"} /\ op' = Idle
    /\ UNCHANGED <<disk, begun, nights, now, launched, manual, tasks>>

\* The client of run_now hangs up while add_task is awaited.
HangUp ==
    /\ Fault /\ up
    /\ op.pc = "adding" /\ op.rec.slot = None
    /\ op' = Idle
    /\ UNCHANGED <<disk, begun, nights, now, launched, manual, tasks>>

Crash ==
    /\ Fault
    /\ Life!Crash
    /\ op' = Idle /\ nights' = {}
    /\ UNCHANGED <<disk, begun, now, launched, manual>>

Restart == Life!Recover /\ UNCHANGED <<disk, begun, op, nights, now, launched, bounds>>

Clock ==
    /\ now < Horizon /\ now' = now + 1
    /\ UNCHANGED <<disk, begun, op, nights, launched, bounds, tasks>>

\* The task manager by itself.
TaskEnds(t) ==
    /\ \E s \in Outcomes \cup {"Running"} : Life!Advance(t, s)
    /\ UNCHANGED <<disk, begun, op, nights, now, launched, bounds>>

TaskFile(t) ==
    /\ Life!Save(t) \/ Life!Forget(t)
    /\ UNCHANGED <<disk, begun, op, nights, now, launched, bounds>>

-----------------------------------------------------------------------------
Request ==
    \E a \in Autos :
        \/ CreateAutomation(a) \/ UpdateAutomation(a) \/ PauseAutomation(a)
        \/ ResumeAutomation(a) \/ DeleteAutomation(a) \/ RunNow(a)

Deleting == \E r \in Runs : RemoveRun(r)

Scheduler ==
    \/ BeginTick \/ EndTick
    \/ TaskAdded \/ SaveRun \/ SaveAutomation
    \/ \E a \in Autos : NotDue(a) \/ SkipFired(a) \/ LaunchDue(a)
    \/ \E r \in Runs : Reconcile(r)

Environment ==
    \/ Clock \/ Crash \/ Restart \/ WriteFails \/ HangUp
    \/ \E r \in Runs : NightEnds(r)
    \/ \E t \in Tasks : TaskEnds(t) \/ TaskFile(t)

Next == Request \/ Deleting \/ Scheduler \/ Environment

Spec == Init /\ [][Next]_vars

\* The sidecar comes up again, the loop of spawn_scheduler goes on, as does a deletion,
\* which awaits nothing, and every task comes to its end, as
\* TaskManager!AckedFinishes says.
Fairness ==
    /\ WF_vars(Restart) /\ WF_vars(Scheduler \/ Deleting)
    /\ \A t \in Tasks : WF_vars(TaskEnds(t))

FairSpec == Spec /\ Fairness

-----------------------------------------------------------------------------
(* Properties. *)

Slots == Nat

RunRecs == {NoRun} \cup
    [auto : Autos, slot : Slots, status : Open \cup Settled, task : Tasks \cup {NoId}]

AutoRecs == [status : {"New", "Active", "Paused", "Deleted"}, next : Slots,
             rule : Schedules \cup {Blank.rule}]

Pcs == {"free", "tick", "adding", "record", "advance", "reconcile", "delete"}

\* Shapes of the variables.
TypeOK ==
    /\ autos \in [Autos -> AutoRecs] /\ runs \in [Runs -> RunRecs] /\ begun \in 0..MaxRuns
    /\ op \in [pc : Pcs, list : [Autos -> AutoRecs], todo : SUBSET Autos, run : 0..MaxRuns,
               rec : RunRecs, check : SUBSET Runs, now : 0..Horizon]
    /\ nights \subseteq Runs /\ now \in 0..Horizon
    /\ launched \subseteq [run : Runs, auto : Autos, slot : Slots]
    /\ manual \in 0..MaxManual /\ faults \in 0..MaxFaults

\* An automation that is shown as active has a slot at which it will fire, and one
\* that is paused has none that a later resume would find already elapsed.
NextIffActive == \A a \in Autos : autos[a].status = "Active" <=> autos[a].next # None

\* The work of a slot is started a second time only if the first start left no
\* record of itself, or so many runs were recorded since that the scheduler does
\* not look that far back; ticks, updates, resumes and crashes may come in between.
\* (A deletion takes the records away in any order.)
SlotFiredOnce ==
    \A x, y \in launched :
        /\ x.auto = y.auto /\ x.slot = y.slot /\ x.slot # None /\ x.run < y.run
        => \/ runs[x.run].status = "Absent" \/ autos[x.auto].status = "Deleted"
           \/ Cardinality({q \in Recorded(x.auto) : x.run < q /\ q < y.run}) >= SlotLimit

\* Nothing brings a deleted automation back, although a tick, run_now and the end
\* of a night batch write records that they have read before, and although runs of
\* it may be left over.
DeletedForGood ==
    [][\A a \in Autos : autos[a].status = "Deleted" => autos'[a].status = "Deleted"]_vars

\* An active automation does not sit on a slot that is due.
DueIsHandled ==
    \A a \in Autos, d \in 1..Horizon :
        (autos[a].status = "Active" /\ autos[a].next = d /\ d <= now)
            ~> (autos[a].status # "Active" \/ autos[a].next # d)

\* A recorded run of a task comes to its end, although the task or the sidecar may
\* be gone, unless newer runs push it out of what is reconciled or its automation
\* is deleted: a deletion that fails or dies half-way leaves open runs for ever.
RunSettles ==
    \A r \in Runs :
        (runs[r].status \in Open /\ runs[r].task # NoId)
            ~> \/ runs[r].status \notin Open
               \/ r \notin LastRuns(runs[r].auto, ReconcileLimit)
               \/ ~Kept(runs[r].auto)

=============================================================================
