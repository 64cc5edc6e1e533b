------------------------- MODULE TaskManagerProofs -------------------------
(***************************************************************************)
(* Proofs that the safety properties of TaskManager hold for every set of  *)
(* tasks, every pool of workers and every number of crashes and failed     *)
(* writes.                                                                 *)
(***************************************************************************)
EXTENDS TaskManager, FiniteSetTheorems, TLAPS

-----------------------------------------------------------------------------
(* The queue. *)

\* The sequences load_state and retain build list the ids of S, each once.
LEMMA OrderingsFacts ==
    ASSUME NEW S \in SUBSET Tasks, NEW s \in Orderings(S)
    PROVE  s \in Seq(Tasks) /\ Ids(s) = S /\ Distinct(s)
<1>1. IsFiniteSet(S)
  BY FS_Subset, TasksAssumption
<1>2. Cardinality(S) \in Nat
  BY <1>1, FS_CardinalityType
<1>3. s \in [1..Cardinality(S) -> S] /\ Ids(s) = S /\ Distinct(s)
  BY DEF Orderings
<1>4. s \in Seq(S)
  BY <1>2, <1>3
<1> QED
  BY <1>3, <1>4

\* VecDeque::retain keeps exactly the ids it is asked to keep.
LEMMA RetainFacts ==
    ASSUME NEW q \in Seq(Tasks), NEW keep, NEW r \in Retain(q, keep)
    PROVE  r \in Seq(Tasks) /\ Ids(r) = Ids(q) \cap keep /\ Distinct(r)
<1>1. Ids(q) \cap keep \in SUBSET Tasks
  BY DEF Ids
<1>2. r \in Orderings(Ids(q) \cap keep)
  BY DEF Retain
<1> QED
  BY <1>1, <1>2, OrderingsFacts

\* Two sequences without common ids can be put one behind the other.
LEMMA ConcatFacts ==
    ASSUME NEW r \in Seq(Tasks), NEW s \in Seq(Tasks),
           Distinct(r), Distinct(s), Ids(r) \cap Ids(s) = {}
    PROVE  r \o s \in Seq(Tasks) /\ Ids(r \o s) = Ids(r) \cup Ids(s) /\ Distinct(r \o s)
<1>1. r \o s \in Seq(Tasks) /\ Len(r \o s) = Len(r) + Len(s)
  OBVIOUS
<1>2. \A i \in 1..Len(r) + Len(s) :
        (r \o s)[i] = IF i <= Len(r) THEN r[i] ELSE s[i - Len(r)]
  OBVIOUS
<1>3. DOMAIN (r \o s) = 1..Len(r) + Len(s) /\ DOMAIN r = 1..Len(r) /\ DOMAIN s = 1..Len(s)
      /\ Len(r) \in Nat /\ Len(s) \in Nat
  BY <1>1
<1>4. \A i \in 1..Len(r) : i \in 1..Len(r) + Len(s) /\ (r \o s)[i] = r[i]
  BY <1>2, <1>3
<1>5. \A j \in 1..Len(s) : Len(r) + j \in 1..Len(r) + Len(s) /\ (r \o s)[Len(r) + j] = s[j]
  BY <1>2, <1>3
<1>6. \A i \in 1..Len(r) + Len(s) :
        \/ i \in 1..Len(r)
        \/ i - Len(r) \in 1..Len(s) /\ i = Len(r) + (i - Len(r))
  BY <1>3
<1>7. Ids(r \o s) = Ids(r) \cup Ids(s)
  BY <1>3, <1>4, <1>5, <1>6 DEF Ids
<1>8. Distinct(r \o s)
  <2> SUFFICES ASSUME NEW i \in 1..Len(r) + Len(s), NEW j \in 1..Len(r) + Len(s),
                      (r \o s)[i] = (r \o s)[j]
               PROVE  i = j
    BY <1>3 DEF Distinct
  <2>1. CASE i \in 1..Len(r) /\ j \in 1..Len(r)
    BY <2>1, <1>3, <1>4 DEF Distinct
  <2>2. CASE i \notin 1..Len(r) /\ j \notin 1..Len(r)
    <3>1. i - Len(r) \in 1..Len(s) /\ j - Len(r) \in 1..Len(s)
      BY <2>2, <1>6
    <3>2. s[i - Len(r)] = s[j - Len(r)]
      BY <2>2, <1>2, <1>3
    <3>3. i - Len(r) = j - Len(r)
      BY <3>1, <3>2, <1>3 DEF Distinct
    <3> QED
      BY <3>3, <1>3
  <2>3. CASE i \in 1..Len(r) /\ j \notin 1..Len(r)
    <3>1. (r \o s)[i] \in Ids(r)
      BY <2>3, <1>3, <1>4 DEF Ids
    <3>2. (r \o s)[j] \in Ids(s)
      BY <2>3, <1>3, <1>5, <1>6 DEF Ids
    <3> QED
      BY <3>1, <3>2
  <2>4. CASE i \notin 1..Len(r) /\ j \in 1..Len(r)
    <3>1. (r \o s)[j] \in Ids(r)
      BY <2>4, <1>3, <1>4 DEF Ids
    <3>2. (r \o s)[i] \in Ids(s)
      BY <2>4, <1>3, <1>5, <1>6 DEF Ids
    <3> QED
      BY <3>1, <3>2
  <2> QED
    BY <2>1, <2>2, <2>3, <2>4
<1> QED
  BY <1>1, <1>7, <1>8

\* load_state's queue lists exactly the queued records, each once.
LEMMA LoadQueueFacts ==
    ASSUME NEW s \in [Tasks -> Status], NEW q \in Seq(Tasks), NEW r \in LoadQueue(s, q)
    PROVE  r \in Seq(Tasks) /\ Ids(r) = {t \in Tasks : s[t] = "Queued"} /\ Distinct(r)
<1> DEFINE queued == {t \in Tasks : s[t] = "Queued"}
<1>1. PICK kept \in Retain(q, queued), missing \in Orderings(queued \ Ids(q)) :
        r = kept \o missing
  BY DEF LoadQueue
<1>2. kept \in Seq(Tasks) /\ Ids(kept) = Ids(q) \cap queued /\ Distinct(kept)
  BY RetainFacts
<1>3. missing \in Seq(Tasks) /\ Ids(missing) = queued \ Ids(q) /\ Distinct(missing)
  BY OrderingsFacts
<1>4. Ids(kept) \cap Ids(missing) = {} /\ Ids(kept) \cup Ids(missing) = queued
  BY <1>2, <1>3
<1> QED
  BY <1>1, <1>2, <1>3, <1>4, ConcatFacts

\* push_back and pop_front on a queue without duplicates.
LEMMA AppendFacts ==
    ASSUME NEW q \in Seq(Tasks), NEW t \in Tasks
    PROVE  /\ Append(q, t) \in Seq(Tasks)
           /\ Ids(Append(q, t)) = Ids(q) \cup {t}
           /\ Distinct(q) /\ t \notin Ids(q) => Distinct(Append(q, t))
<1>1. /\ Append(q, t) \in Seq(Tasks) /\ Len(q) \in Nat
      /\ DOMAIN q = 1..Len(q) /\ DOMAIN Append(q, t) = 1..Len(q) + 1
  OBVIOUS
<1>2. \A i \in 1..Len(q) + 1 : Append(q, t)[i] = IF i = Len(q) + 1 THEN t ELSE q[i]
  OBVIOUS
<1>3. Ids(Append(q, t)) = Ids(q) \cup {t}
  <2>1. \A x \in Ids(Append(q, t)) : x \in Ids(q) \cup {t}
    BY <1>1, <1>2 DEF Ids
  <2>2. \A i \in 1..Len(q) : i \in 1..Len(q) + 1 /\ Append(q, t)[i] = q[i]
    BY <1>1, <1>2
  <2>3. Len(q) + 1 \in 1..Len(q) + 1 /\ Append(q, t)[Len(q) + 1] = t
    BY <1>1, <1>2
  <2>4. \A x \in Ids(q) \cup {t} : x \in Ids(Append(q, t))
    BY <1>1, <2>2, <2>3 DEF Ids
  <2> QED
    BY <2>1, <2>4
<1>4. ASSUME Distinct(q), t \notin Ids(q)  PROVE Distinct(Append(q, t))
  BY <1>1, <1>2, <1>4 DEF Distinct, Ids
<1> QED
  BY <1>1, <1>3, <1>4

LEMMA TailFacts ==
    ASSUME NEW q \in Seq(Tasks), q # <<>>
    PROVE  /\ Head(q) \in Tasks /\ Tail(q) \in Seq(Tasks)
           /\ Head(q) \in Ids(q) /\ Ids(Tail(q)) \subseteq Ids(q)
           /\ Distinct(q) => Ids(Tail(q)) = Ids(q) \ {Head(q)} /\ Distinct(Tail(q))
<1>1. /\ Len(q) \in Nat /\ Len(q) >= 1 /\ DOMAIN q = 1..Len(q)
      /\ Head(q) = q[1] /\ Head(q) \in Tasks /\ Tail(q) \in Seq(Tasks)
      /\ DOMAIN Tail(q) = 1..Len(q) - 1
  OBVIOUS
<1>2. \A i \in 1..Len(q) - 1 : Tail(q)[i] = q[i + 1] /\ i + 1 \in 1..Len(q)
  OBVIOUS
<1>3. Head(q) \in Ids(q)
  BY <1>1 DEF Ids
<1>4. Ids(Tail(q)) \subseteq Ids(q)
  BY <1>1, <1>2 DEF Ids
<1>5. ASSUME Distinct(q)  PROVE Ids(Tail(q)) = Ids(q) \ {Head(q)} /\ Distinct(Tail(q))
  <2>1. Head(q) \notin Ids(Tail(q))
    BY <1>1, <1>2, <1>5 DEF Ids, Distinct
  <2>2. \A i \in 1..Len(q) : i = 1 \/ (i - 1 \in 1..Len(q) - 1 /\ Tail(q)[i - 1] = q[i])
    BY <1>1, <1>2
  <2>3. \A x \in Ids(q) : x = Head(q) \/ x \in Ids(Tail(q))
    BY <1>1, <2>2 DEF Ids
  <2>4. Distinct(Tail(q))
    BY <1>1, <1>2, <1>5 DEF Distinct
  <2> QED
    BY <1>4, <2>1, <2>3, <2>4
<1> QED
  BY <1>1, <1>3, <1>4, <1>5

-----------------------------------------------------------------------------
(* Typing.  add_task acknowledges the id it handed out, cancel_task the task *)
(* it was asked about: the argument of the lock holder is part of the type.  *)

ArgType ==
    /\ holder = "add" => arg \in issued
    /\ holder \in {"cancel", "stop"} => arg \in Tasks

TypeInv == TypeOK /\ ArgType

LEMMA EmptyQueue == <<>> \in Seq(Tasks)
  OBVIOUS

LEMMA FaultCount ==
    ASSUME faults \in 0..MaxFaults, faults < MaxFaults
    PROVE  faults + 1 \in 0..MaxFaults
  BY FaultsAssumption

LEMMA TypeInit == Init => TypeInv
<1> SUFFICES ASSUME Init  PROVE TypeInv
  OBVIOUS
<1>1. faults \in 0..MaxFaults
  BY FaultsAssumption DEF Init
<1>2. queue \in Seq(Tasks) /\ dqueue \in Seq(Tasks)
  BY EmptyQueue DEF Init
<1> QED
  BY <1>1, <1>2 DEF Init, TypeInv, TypeOK, ArgType, Known, Status, Terminal, Holders

LEMMA NotifyOneType ==
    ASSUME TypeOK, NotifyOne
    PROVE  /\ worker' \in [Workers -> [pc : {"pop", "idle", "waiting", "exec"},
                                       task : Tasks \cup {NoTask}]]
           /\ permit' \in BOOLEAN
  BY DEF TypeOK, NotifyOne, Idle

LEMMA LoseMemoryType ==
    ASSUME LoseMemory
    PROVE  /\ up' \in BOOLEAN /\ permit' \in BOOLEAN
           /\ tasks' \in [Tasks -> Status] /\ queue' \in Seq(Tasks)
           /\ running_cancel' \subseteq Tasks /\ cancelled' \subseteq Tasks
           /\ worker' \in [Workers -> [pc : {"pop", "idle", "waiting", "exec"},
                                       task : Tasks \cup {NoTask}]]
  BY EmptyQueue DEF LoseMemory, Status

LEMMA TypeStep == TypeInv /\ [Next]_vars => TypeInv'
<1> SUFFICES ASSUME TypeInv, [Next]_vars  PROVE TypeInv'
  OBVIOUS
<1> USE DEF TypeInv, TypeOK, ArgType, Known, Status, Terminal, Holders
<1>1. CASE UNCHANGED vars
  BY <1>1 DEF vars, memory, pool, mutex, disk, history
<1>2. ASSUME NEW t \in Tasks, AddTask(t)  PROVE TypeInv'
  BY <1>2, AppendFacts DEF AddTask, PersistAll, Lock, pool, disk
<1>3. ASSUME NEW t \in Tasks, CancelTask(t)  PROVE TypeInv'
  BY <1>3, RetainFacts DEF CancelTask, PersistAll, Lock, pool, disk, history
<1>4. ASSUME NEW t \in Tasks, RecordToolMetadata(t)  PROVE TypeInv'
  BY <1>4 DEF RecordToolMetadata, PersistOne, Lock, memory, pool, disk, history
<1>5. CASE ClearTerminalTasks
  BY <1>5 DEF ClearTerminalTasks, Lock, memory, pool, disk, history
<1>6. ASSUME NEW t \in Tasks, NEW removed \in BOOLEAN, ClearOne(t, removed)  PROVE TypeInv'
  <2>1. queue' \in Seq(Tasks)
    BY <1>6, RetainFacts DEF ClearOne
  <2>2. faults' \in 0..MaxFaults
    BY <1>6, FaultCount DEF ClearOne
  <2> QED
    BY <1>6, <2>1, <2>2 DEF ClearOne, Release, pool
<1>7. CASE WriteQueue
  BY <1>7 DEF WriteQueue, memory, pool, history
<1>8. ASSUME NEW t \in Tasks, WriteTask(t)  PROVE TypeInv'
  BY <1>8 DEF WriteTask, memory, pool, history
<1>9. CASE WriteFails
  <2>1. faults' \in 0..MaxFaults
    BY <1>9, FaultCount DEF WriteFails
  <2>2. CASE holder = "boot"
    BY <1>9, <2>1, <2>2, LoseMemoryType DEF WriteFails, Release, disk, history
  <2>3. CASE holder # "boot"
    BY <1>9, <2>1, <2>3 DEF WriteFails, Release, memory, pool, disk, history
  <2> QED
    BY <2>2, <2>3
<1>10. CASE Return
  BY <1>10, NotifyOneType DEF Return, Release, memory, pool, disk
<1>11. ASSUME NEW w \in Workers, PopTask(w)  PROVE TypeInv'
  <2>1. Head(queue) \in Tasks /\ queue' \in Seq(Tasks)
    BY <1>11, TailFacts DEF PopTask
  <2>2. /\ tasks' \in [Tasks -> Status]
        /\ wtasks' \subseteq {t \in Tasks : tasks'[t] # "Absent"}
    <3>1. CASE tasks[Head(queue)] = "Queued"
      BY <1>11, <2>1, <3>1 DEF PopTask, PersistAll
    <3>2. CASE tasks[Head(queue)] # "Queued"
      BY <1>11, <2>1, <3>2 DEF PopTask
    <3> QED
      BY <3>1, <3>2
  <2>3. worker' \in [Workers -> [pc : {"pop", "idle", "waiting", "exec"},
                                 task : Tasks \cup {NoTask}]]
    <3>1. PICK t \in Tasks : t = Head(queue)
      BY <2>1
    <3>2. \/ worker' = [worker EXCEPT ![w] = [pc |-> "exec", task |-> t]]
          \/ worker' = [worker EXCEPT ![w].pc = "idle"]
      BY <1>11, <3>1 DEF PopTask
    <3>3. [pc |-> "exec", task |-> t] \in [pc : {"pop", "idle", "waiting", "exec"},
                                           task : Tasks \cup {NoTask}]
      OBVIOUS
    <3>4. [worker[w] EXCEPT !.pc = "idle"] \in [pc : {"pop", "idle", "waiting", "exec"},
                                               task : Tasks \cup {NoTask}]
      OBVIOUS
    <3> QED
      BY <3>2, <3>3, <3>4, Zenon
  <2>4. /\ running_cancel' \subseteq Tasks /\ cancelled' \subseteq Tasks
        /\ holder' \in {"start", "skip"} /\ arg' \in Tasks \cup {NoTask} /\ wqueue' = TRUE
    BY <1>11, <2>1 DEF PopTask, PersistAll
  <2>5. UNCHANGED <<up, permit, disk, history, faults>>
    BY <1>11 DEF PopTask
  <2> QED
    BY <2>1, <2>2, <2>3, <2>4, <2>5 DEF disk, history
<1>12. ASSUME NEW w \in Workers, PopEmpty(w)  PROVE TypeInv'
  BY <1>12 DEF PopEmpty, Lock, memory, mutex, disk, history
<1>13. ASSUME NEW w \in Workers, Notified(w)  PROVE TypeInv'
  BY <1>13 DEF Notified, memory, mutex, disk, history
<1>14. ASSUME NEW w \in Workers, ApplyExecutionEvent(w)  PROVE TypeInv'
  BY <1>14 DEF ApplyExecutionEvent, PersistOne, Lock, memory, pool, disk, history
<1>15. ASSUME NEW w \in Workers, NEW result \in Terminal, NEW artifact \in BOOLEAN,
              FinishTask(w, result, artifact)
       PROVE  TypeInv'
  <2>1. faults' \in 0..MaxFaults
    BY <1>15, FaultCount DEF FinishTask
  <2> QED
    BY <1>15, <2>1
       DEF FinishTask, FinalStatus, PersistAll, Lock, mutex, disk, history
<1>16. CASE Crash
  <2>1. faults' \in 0..MaxFaults
    BY <1>16, FaultCount DEF Crash
  <2> QED
    BY <1>16, <2>1, LoseMemoryType DEF Crash, Release, disk, history
<1>17. CASE Restart
  <2>1. tasks' \in [Tasks -> Status]
    BY <1>17 DEF Restart, Recovered
  <2>2. queue' \in Seq(Tasks)
    BY <1>17, <2>1, LoadQueueFacts DEF Restart
  <2> QED
    BY <1>17, <2>1, <2>2 DEF Restart, PersistAll, disk
<1> QED
  BY <1>1, <1>2, <1>3, <1>4, <1>5, <1>6, <1>7, <1>8, <1>9, <1>10, <1>11, <1>12,
     <1>13, <1>14, <1>15, <1>16, <1>17
     DEF Next, Clear, Write, Pop, Finish

\* Every reachable state of the task manager is well typed; in particular the
\* records that are about to be written are known ones, and only ids that
\* add_task handed out are ever acknowledged.
THEOREM Typing == Spec => []TypeOK
<1>1. Init => TypeInv
  BY TypeInit
<1>2. TypeInv /\ [Next]_vars => TypeInv'
  BY TypeStep
<1>3. TypeInv => TypeOK
  BY DEF TypeInv
<1> QED
  BY <1>1, <1>2, <1>3, PTL DEF Spec

-----------------------------------------------------------------------------
(* Only ids that add_task handed out have a record or a file; an id is never *)
(* handed out twice.                                                         *)

IssuedInv ==
    \A t \in Tasks : (tasks[t] # "Absent" \/ dtasks[t] # "Absent") => t \in issued

LEMMA IssuedStep ==
    ASSUME TypeInv, TypeInv', IssuedInv, [Next]_vars
    PROVE  IssuedInv'
<1>a. ASSUME \A t \in Tasks : tasks'[t] = "Absent" \/ tasks[t] # "Absent",
             dtasks' = dtasks, issued' = issued
      PROVE  IssuedInv'
  BY <1>a DEF IssuedInv
<1>1. CASE UNCHANGED vars
  BY <1>1 DEF IssuedInv, vars, memory, disk, history
<1>2. ASSUME NEW t \in Tasks, AddTask(t)  PROVE IssuedInv'
  BY <1>2 DEF AddTask, disk, IssuedInv, TypeInv, TypeOK
<1>3. ASSUME NEW t \in Tasks, CancelTask(t)  PROVE IssuedInv'
  <2>1. dtasks' = dtasks /\ issued' = issued
    BY <1>3 DEF CancelTask, disk, history
  <2>2. \A u \in Tasks : tasks'[u] = "Absent" \/ tasks[u] # "Absent"
    BY <1>3 DEF CancelTask, Known, TypeInv, TypeOK
  <2> QED
    BY <2>1, <2>2, <1>a
<1>4. ASSUME NEW t \in Tasks, RecordToolMetadata(t)  PROVE IssuedInv'
  BY <1>4, <1>a DEF RecordToolMetadata, memory, disk, history
<1>5. CASE ClearTerminalTasks
  BY <1>5, <1>a DEF ClearTerminalTasks, memory, disk, history
<1>6. ASSUME NEW t \in Tasks, NEW removed \in BOOLEAN, ClearOne(t, removed)  PROVE IssuedInv'
  <2>1. /\ tasks' = [tasks EXCEPT ![t] = "Absent"] /\ issued' = issued
        /\ dtasks' = dtasks \/ dtasks' = [dtasks EXCEPT ![t] = "Absent"]
    BY <1>6 DEF ClearOne
  <2> QED
    BY <2>1 DEF IssuedInv, TypeInv, TypeOK
<1>7. CASE WriteQueue
  BY <1>7, <1>a DEF WriteQueue, memory, history
<1>8. ASSUME NEW t \in Tasks, WriteTask(t)  PROVE IssuedInv'
  BY <1>8 DEF WriteTask, memory, history, IssuedInv, TypeInv, TypeOK
<1>9. CASE WriteFails
  <2>1. dtasks' = dtasks /\ issued' = issued
    BY <1>9 DEF WriteFails, disk, history
  <2>2. \A u \in Tasks : tasks'[u] = "Absent" \/ tasks[u] # "Absent"
    BY <1>9 DEF WriteFails, LoseMemory, memory
  <2> QED
    BY <2>1, <2>2, <1>a
<1>10. CASE Return
  BY <1>10, <1>a DEF Return, memory, disk
<1>11. ASSUME NEW w \in Workers, PopTask(w)  PROVE IssuedInv'
  <2>1. PICK t \in Tasks : t = Head(queue)
    BY <1>11, TailFacts DEF PopTask, TypeInv, TypeOK
  <2>2. tasks' = tasks \/ (tasks[t] = "Queued" /\ tasks' = [tasks EXCEPT ![t] = "Running"])
    BY <1>11, <2>1 DEF PopTask
  <2>3. dtasks' = dtasks /\ issued' = issued
    BY <1>11 DEF PopTask, disk, history
  <2>4. \A u \in Tasks : tasks'[u] = "Absent" \/ tasks[u] # "Absent"
    BY <2>2 DEF TypeInv, TypeOK
  <2> QED
    BY <2>3, <2>4, <1>a
<1>12. ASSUME NEW w \in Workers, PopEmpty(w)  PROVE IssuedInv'
  BY <1>12, <1>a DEF PopEmpty, memory, disk, history
<1>13. ASSUME NEW w \in Workers, Notified(w)  PROVE IssuedInv'
  BY <1>13, <1>a DEF Notified, memory, disk, history
<1>14. ASSUME NEW w \in Workers, ApplyExecutionEvent(w)  PROVE IssuedInv'
  BY <1>14, <1>a DEF ApplyExecutionEvent, memory, disk, history
<1>15. ASSUME NEW w \in Workers, NEW result \in Terminal, NEW artifact \in BOOLEAN,
              FinishTask(w, result, artifact)
       PROVE  IssuedInv'
  <2>1. dtasks' = dtasks /\ issued' = issued
    BY <1>15 DEF FinishTask, disk, history
  <2>2. \A u \in Tasks : tasks'[u] = "Absent" \/ tasks[u] # "Absent"
    BY <1>15 DEF FinishTask, Known, TypeInv, TypeOK
  <2> QED
    BY <2>1, <2>2, <1>a
<1>16. CASE Crash
  BY <1>16, <1>a DEF Crash, LoseMemory, disk, history
<1>17. CASE Restart
  BY <1>17 DEF Restart, Recovered, disk, IssuedInv, TypeInv, TypeOK
<1> QED
  BY <1>1, <1>2, <1>3, <1>4, <1>5, <1>6, <1>7, <1>8, <1>9, <1>10, <1>11, <1>12,
     <1>13, <1>14, <1>15, <1>16, <1>17
     DEF Next, Clear, Write, Pop, Finish

-----------------------------------------------------------------------------
(* Execution.  That no two workers run the same task needs three more facts: *)
(* a worker has a task exactly while it executes one, memory is empty while  *)
(* the process is down, and clear_terminal_tasks only forgets records that   *)
(* are terminal.                                                             *)

WorkerInv == \A w \in Workers : worker[w].pc = "exec" <=> worker[w].task \in Tasks

DownInv == ~up => holder = "free" /\ \A t \in Tasks : tasks[t] = "Absent"

ClearInv == holder = "clear" => \A t \in wtasks : tasks[t] \in Terminal

ExecInv == TypeInv /\ IssuedInv /\ WorkerInv /\ DownInv /\ ClearInv /\ ExclusiveExecution

LEMMA ExecInit == Init => ExecInv
<1> SUFFICES ASSUME Init  PROVE ExecInv
  OBVIOUS
<1>1. TypeInv
  BY TypeInit
<1> QED
  BY <1>1, TasksAssumption
     DEF Init, ExecInv, IssuedInv, WorkerInv, DownInv, ClearInv, ExclusiveExecution

LEMMA LoseMemoryExec ==
    ASSUME LoseMemory, Release
    PROVE  (WorkerInv /\ DownInv /\ ClearInv /\ ExclusiveExecution)'
  BY TasksAssumption
     DEF LoseMemory, Release, WorkerInv, DownInv, ClearInv, ExclusiveExecution

\* A worker that executes nothing may change its place in worker_loop.
LEMMA WorkerPause ==
    ASSUME TypeOK, WorkerInv, ExclusiveExecution, tasks' = tasks,
           NEW w \in Workers, NEW l \in {"pop", "idle", "waiting"},
           worker[w].pc # "exec", worker' = [worker EXCEPT ![w].pc = l]
    PROVE  (WorkerInv /\ ExclusiveExecution)'
<1>1. \A v \in Workers : /\ worker'[v].task = worker[v].task
                         /\ worker'[v].pc = "exec" <=> worker[v].pc = "exec"
  BY DEF TypeOK
<1>2. \A v \in Workers : /\ worker[v] = [pc |-> worker[v].pc, task |-> worker[v].task]
                         /\ worker'[v] = [pc |-> worker'[v].pc, task |-> worker'[v].task]
  BY DEF TypeOK
<1>3. \A t \in Tasks, v \in Workers :
        worker'[v] = [pc |-> "exec", task |-> t] <=> worker[v] = [pc |-> "exec", task |-> t]
  BY <1>1, <1>2
<1> QED
  BY <1>1, <1>3 DEF WorkerInv, ExclusiveExecution

\* NotifyOne only moves workers that wait, which have no task.
LEMMA NotifyOneExec ==
    ASSUME TypeOK, WorkerInv, ExclusiveExecution, NotifyOne, tasks' = tasks
    PROVE  (WorkerInv /\ ExclusiveExecution)'
<1>1. CASE worker' = worker
  BY <1>1 DEF WorkerInv, ExclusiveExecution
<1>2. ASSUME NEW w \in Workers, Idle(w), worker' = [worker EXCEPT ![w].pc = "pop"]
      PROVE  (WorkerInv /\ ExclusiveExecution)'
  BY <1>2, WorkerPause DEF Idle
<1> QED
  BY <1>1, <1>2 DEF NotifyOne

LEMMA ExecStep == ExecInv /\ [Next]_vars => ExecInv'
<1> SUFFICES ASSUME ExecInv, [Next]_vars  PROVE ExecInv'
  OBVIOUS
<1>0. TypeInv /\ TypeInv' /\ IssuedInv /\ IssuedInv'
  BY TypeStep, IssuedStep DEF ExecInv
<1> DEFINE Goal == (WorkerInv /\ DownInv /\ ClearInv /\ ExclusiveExecution)'
<1> SUFFICES Goal
  BY <1>0 DEF ExecInv
<1>a. ASSUME UNCHANGED <<tasks, worker, up>>, up,
             holder' = "clear" => \A t \in wtasks' : tasks[t] \in Terminal
      PROVE  Goal
  BY <1>a DEF ExecInv, WorkerInv, DownInv, ClearInv, ExclusiveExecution
<1>1. CASE UNCHANGED vars
  BY <1>1 DEF vars, memory, pool, mutex, ExecInv, WorkerInv, DownInv, ClearInv,
              ExclusiveExecution
<1>b. ASSUME worker' = worker, up' = up, up, holder' # "clear",
             \A t \in Tasks : tasks'[t] = "Running" <=> tasks[t] = "Running"
      PROVE  Goal
  BY <1>b DEF ExecInv, WorkerInv, DownInv, ClearInv, ExclusiveExecution
<1>2. ASSUME NEW t \in Tasks, AddTask(t)  PROVE Goal
  <2>1. /\ worker' = worker /\ up' = up /\ up /\ holder' # "clear"
        /\ t \notin issued /\ tasks' = [tasks EXCEPT ![t] = "Queued"]
    BY <1>2 DEF AddTask, PersistAll, Lock, pool
  <2>2. tasks[t] = "Absent"
    BY <2>1, <1>0 DEF IssuedInv
  <2>3. \A u \in Tasks : tasks'[u] = "Running" <=> tasks[u] = "Running"
    BY <2>1, <2>2, <1>0 DEF TypeInv, TypeOK
  <2> QED
    BY <2>1, <2>3, <1>b
<1>3. ASSUME NEW t \in Tasks, CancelTask(t)  PROVE Goal
  <2>1. worker' = worker /\ up' = up /\ up /\ holder' # "clear"
    BY <1>3 DEF CancelTask, PersistAll, Lock, pool
  <2>2. \A u \in Tasks : tasks'[u] = "Running" <=> tasks[u] = "Running"
    BY <1>3, <1>0 DEF CancelTask, TypeInv, TypeOK
  <2> QED
    BY <2>1, <2>2, <1>b
<1>4. ASSUME NEW t \in Tasks, RecordToolMetadata(t)  PROVE Goal
  BY <1>4, <1>a DEF RecordToolMetadata, PersistOne, Lock, memory, pool
<1>5. CASE ClearTerminalTasks
  BY <1>5, <1>a DEF ClearTerminalTasks, Lock, memory, pool
<1>6. ASSUME NEW t \in Tasks, NEW removed \in BOOLEAN, ClearOne(t, removed)  PROVE Goal
  <2>1. worker' = worker /\ up' = up /\ up
    BY <1>6 DEF ClearOne, pool
  <2>2. tasks' = [tasks EXCEPT ![t] = "Absent"] /\ tasks[t] \in Terminal
    BY <1>6 DEF ClearOne, ExecInv, ClearInv
  <2>3. \A u \in Tasks : tasks'[u] = "Running" <=> tasks[u] = "Running"
    BY <2>2, <1>0 DEF TypeInv, TypeOK, Terminal
  <2>4. (WorkerInv /\ DownInv /\ ExclusiveExecution)'
    BY <2>1, <2>3 DEF ExecInv, WorkerInv, DownInv, ExclusiveExecution
  <2>5. holder' = "clear" => wtasks' = wtasks \ {t} /\ holder = "clear"
    BY <1>6 DEF ClearOne, Release
  <2>6. ClearInv'
    BY <2>2, <2>5, <1>0 DEF ExecInv, ClearInv, TypeInv, TypeOK, Known
  <2> QED
    BY <2>4, <2>6
<1>7. CASE WriteQueue
  BY <1>7, <1>a DEF WriteQueue, memory, pool, ExecInv, ClearInv
<1>8. ASSUME NEW t \in Tasks, WriteTask(t)  PROVE Goal
  BY <1>8, <1>a DEF WriteTask, memory, pool, ExecInv, ClearInv
<1>9. CASE WriteFails
  <2>1. CASE holder = "boot"
    BY <1>9, <2>1, LoseMemoryExec DEF WriteFails
  <2>2. CASE holder # "boot"
    BY <1>9, <2>2, <1>a DEF WriteFails, Release, memory, pool
  <2> QED
    BY <2>1, <2>2
<1>10. CASE Return
  <2>1. tasks' = tasks /\ up' = up /\ up /\ holder' = "free"
    BY <1>10 DEF Return, Release, memory
  <2>2. CASE holder = "add"
    <3>1. (WorkerInv /\ ExclusiveExecution)'
      BY <1>10, <1>0, <2>1, <2>2, NotifyOneExec DEF Return, ExecInv, TypeInv
    <3> QED
      BY <2>1, <3>1 DEF DownInv, ClearInv
  <2>3. CASE holder # "add"
    BY <1>10, <2>1, <2>3, <1>a DEF Return, pool
  <2> QED
    BY <2>2, <2>3
<1>11. ASSUME NEW w \in Workers, PopTask(w)  PROVE Goal
  <2>1. PICK t \in Tasks : t = Head(queue)
    BY <1>11, <1>0, TailFacts DEF PopTask, TypeInv, TypeOK
  <2>2. up' = up /\ up /\ holder' # "clear" /\ worker[w].pc = "pop"
    BY <1>11 DEF PopTask, PersistAll, Lock
  <2>3. CASE tasks[t] = "Queued"
    <3>1. /\ tasks' = [tasks EXCEPT ![t] = "Running"]
          /\ worker' = [worker EXCEPT ![w] = [pc |-> "exec", task |-> t]]
      BY <1>11, <2>1, <2>3 DEF PopTask
    <3>2. /\ tasks'[t] = "Running" /\ \A u \in Tasks \ {t} : tasks'[u] = tasks[u]
          /\ worker'[w] = [pc |-> "exec", task |-> t]
          /\ \A v \in Workers \ {w} : worker'[v] = worker[v]
      BY <3>1, <1>0 DEF TypeInv, TypeOK
    <3>3. \A v \in Workers : worker[v].task # t
      <4> SUFFICES ASSUME NEW v \in Workers, worker[v].task = t  PROVE FALSE
        OBVIOUS
      <4>1. worker[v].pc = "exec"
        BY DEF ExecInv, WorkerInv
      <4>2. worker[v] = [pc |-> "exec", task |-> t]
        BY <4>1, <1>0 DEF TypeInv, TypeOK
      <4> QED
        BY <4>2, <2>3 DEF ExecInv, ExclusiveExecution
    <3>4. WorkerInv'
      BY <3>2 DEF ExecInv, WorkerInv
    <3>5. ExclusiveExecution'
      <4>1. ASSUME NEW u \in Tasks
            PROVE  tasks'[u] = "Running" <=>
                    \E v \in Workers : worker'[v] = [pc |-> "exec", task |-> u]
        <5>1. CASE u = t
          BY <5>1, <3>2
        <5>2. CASE u # t
          <6>1. worker[w] # [pc |-> "exec", task |-> u] /\ worker'[w] # [pc |-> "exec", task |-> u]
            BY <2>2, <3>2, <5>2
          <6> QED
            BY <5>2, <6>1, <3>2 DEF ExecInv, ExclusiveExecution
        <5> QED
          BY <5>1, <5>2
      <4>2. \A v, x \in Workers :
              (worker'[v].pc = "exec" /\ worker'[v].task = worker'[x].task) => v = x
        BY <3>2, <3>3 DEF ExecInv, ExclusiveExecution
      <4> QED
        BY <4>1, <4>2 DEF ExclusiveExecution
    <3> QED
      BY <2>2, <3>4, <3>5 DEF DownInv, ClearInv
  <2>4. CASE tasks[t] # "Queued"
    <3>1. tasks' = tasks /\ worker' = [worker EXCEPT ![w].pc = "idle"]
      BY <1>11, <2>1, <2>4 DEF PopTask
    <3>2. (WorkerInv /\ ExclusiveExecution)'
      BY <2>2, <3>1, <1>0, WorkerPause DEF ExecInv, TypeInv
    <3> QED
      BY <2>2, <3>2 DEF DownInv, ClearInv
  <2> QED
    BY <2>3, <2>4
<1>12. ASSUME NEW w \in Workers, PopEmpty(w)  PROVE Goal
  <2>1. /\ up' = up /\ up /\ holder' # "clear" /\ tasks' = tasks
        /\ worker[w].pc # "exec" /\ worker' = [worker EXCEPT ![w].pc = "idle"]
    BY <1>12 DEF PopEmpty, Lock, memory, mutex
  <2>2. (WorkerInv /\ ExclusiveExecution)'
    BY <2>1, <1>0, WorkerPause DEF ExecInv, TypeInv
  <2> QED
    BY <2>1, <2>2 DEF DownInv, ClearInv
<1>13. ASSUME NEW w \in Workers, Notified(w)  PROVE Goal
  <2>1. /\ up' = up /\ up /\ tasks' = tasks /\ UNCHANGED mutex
        /\ worker[w].pc # "exec"
        /\ \/ worker' = [worker EXCEPT ![w].pc = "pop"]
           \/ worker' = [worker EXCEPT ![w].pc = "waiting"]
    BY <1>13 DEF Notified, memory
  <2>2. (WorkerInv /\ ExclusiveExecution)'
    BY <2>1, <1>0, WorkerPause DEF ExecInv, TypeInv
  <2> QED
    BY <2>1, <2>2 DEF ExecInv, DownInv, ClearInv, mutex
<1>14. ASSUME NEW w \in Workers, ApplyExecutionEvent(w)  PROVE Goal
  BY <1>14, <1>a DEF ApplyExecutionEvent, PersistOne, Lock, memory, pool
<1>15. ASSUME NEW w \in Workers, NEW result \in Terminal, NEW artifact \in BOOLEAN,
              FinishTask(w, result, artifact)
       PROVE  Goal
  <2> DEFINE t == worker[w].task
  <2>1. /\ up' = up /\ up /\ holder' # "clear" /\ worker[w].pc = "exec"
        /\ worker' = [worker EXCEPT ![w] = [pc |-> "pop", task |-> NoTask]]
    BY <1>15 DEF FinishTask, PersistAll, Lock, mutex
  <2>2. t \in Tasks /\ worker[w] = [pc |-> "exec", task |-> t]
    BY <2>1, <1>0 DEF ExecInv, WorkerInv, TypeInv, TypeOK
  <2>3. tasks[t] = "Running"
    BY <2>2 DEF ExecInv, ExclusiveExecution
  <2>4. PICK s \in Terminal : tasks' = [tasks EXCEPT ![t] = s]
    BY <1>15, <2>2, <2>3 DEF FinishTask, Known, FinalStatus, Terminal
  <2>5. /\ tasks'[t] # "Running" /\ \A u \in Tasks \ {t} : tasks'[u] = tasks[u]
        /\ worker'[w] = [pc |-> "pop", task |-> NoTask]
        /\ \A v \in Workers \ {w} : worker'[v] = worker[v]
    BY <2>1, <2>2, <2>4, <1>0 DEF TypeInv, TypeOK, Terminal
  <2>6. \A v \in Workers \ {w} : worker[v].task # t
    BY <2>1 DEF ExecInv, ExclusiveExecution
  <2>7. WorkerInv'
    BY <2>5, TasksAssumption DEF ExecInv, WorkerInv
  <2>8. ASSUME NEW u \in Tasks
        PROVE  tasks'[u] = "Running" <=>
                 \E v \in Workers : worker'[v] = [pc |-> "exec", task |-> u]
    <3>1. worker'[w] # [pc |-> "exec", task |-> u]
      BY <2>5
    <3>2. CASE u = t
      BY <3>1, <3>2, <2>5, <2>6
    <3>3. CASE u # t
      <4>1. worker[w] # [pc |-> "exec", task |-> u]
        BY <2>2, <3>3
      <4> QED
        BY <4>1, <3>1, <3>3, <2>5 DEF ExecInv, ExclusiveExecution
    <3> QED
      BY <3>2, <3>3
  <2>9. \A v, x \in Workers :
          (worker'[v].pc = "exec" /\ worker'[v].task = worker'[x].task) => v = x
    BY <2>5, <2>7, TasksAssumption DEF ExecInv, ExclusiveExecution, WorkerInv
  <2> QED
    BY <2>1, <2>7, <2>8, <2>9 DEF ExclusiveExecution, DownInv, ClearInv
<1>16. CASE Crash
  BY <1>16, LoseMemoryExec DEF Crash
<1>17. CASE Restart
  <2>1. \A t \in Tasks : tasks'[t] # "Running"
    BY <1>17, <1>0 DEF Restart, Recovered, TypeInv, TypeOK
  <2>2. \A w \in Workers : worker'[w] = [pc |-> "pop", task |-> NoTask]
    BY <1>17 DEF Restart
  <2>3. up' = TRUE /\ holder' = "boot"
    BY <1>17 DEF Restart, PersistAll
  <2> QED
    BY <2>1, <2>2, <2>3, TasksAssumption
       DEF WorkerInv, DownInv, ClearInv, ExclusiveExecution
<1> QED
  BY <1>0, <1>1, <1>2, <1>3, <1>4, <1>5, <1>6, <1>7, <1>8, <1>9, <1>10, <1>11, <1>12,
     <1>13, <1>14, <1>15, <1>16, <1>17
     DEF Next, Clear, Write, Pop, Finish, ExecInv

\* A task is Running exactly while one worker executes it: worker_loop never
\* gives one task to two workers, and neither a failed persist nor a restart
\* leaves a task Running with nobody working on it.
THEOREM Exclusion == Spec => []ExclusiveExecution
<1>1. Init => ExecInv
  BY ExecInit
<1>2. ExecInv /\ [Next]_vars => ExecInv'
  BY ExecStep
<1>3. ExecInv => ExclusiveExecution
  BY DEF ExecInv
<1> QED
  BY <1>1, <1>2, <1>3, PTL DEF Spec

-----------------------------------------------------------------------------
(* What a step does to one task, in memory and on disk. *)

LifeCycle(t) ==
    \/ tasks'[t] = tasks[t] /\ dtasks'[t] = dtasks[t]
    \/ /\ t \notin issued /\ t \in issued' /\ up'
       /\ tasks'[t] = "Queued" /\ dtasks'[t] = dtasks[t]
    \/ tasks[t] = "Queued" /\ tasks'[t] \in {"Running", "Canceled"} /\ dtasks'[t] = dtasks[t]
    \/ tasks[t] = "Running" /\ tasks'[t] \in Terminal /\ dtasks'[t] = dtasks[t]
    \/ tasks[t] # "Absent" /\ tasks'[t] = tasks[t] /\ dtasks'[t] = tasks[t]
    \/ /\ tasks[t] \in Terminal /\ t \in cleared'
       /\ tasks'[t] = "Absent" /\ dtasks'[t] \in {dtasks[t], "Absent"}
    \/ ~up' /\ tasks'[t] = "Absent" /\ dtasks'[t] = dtasks[t]
    \/ ~up /\ tasks'[t] = Recovered(dtasks)[t] /\ dtasks'[t] = dtasks[t]

LEMMA LifeCycleStep ==
    ASSUME ExecInv, [Next]_vars, NEW u \in Tasks
    PROVE  LifeCycle(u)
<1>0. TypeOK /\ WorkerInv /\ ClearInv /\ ExclusiveExecution
  BY DEF ExecInv, TypeInv
<1>a. ASSUME tasks' = tasks, dtasks' = dtasks  PROVE LifeCycle(u)
  BY <1>a DEF LifeCycle
<1>1. CASE UNCHANGED vars
  BY <1>1, <1>a DEF vars, memory, disk
<1>2. ASSUME NEW t \in Tasks, AddTask(t)  PROVE LifeCycle(u)
  BY <1>2, <1>0 DEF AddTask, Lock, disk, LifeCycle, TypeOK
<1>3. ASSUME NEW t \in Tasks, CancelTask(t)  PROVE LifeCycle(u)
  BY <1>3, <1>0 DEF CancelTask, disk, LifeCycle, TypeOK
<1>4. ASSUME NEW t \in Tasks, RecordToolMetadata(t)  PROVE LifeCycle(u)
  BY <1>4, <1>a DEF RecordToolMetadata, memory, disk
<1>5. CASE ClearTerminalTasks
  BY <1>5, <1>a DEF ClearTerminalTasks, memory, disk
<1>6. ASSUME NEW t \in Tasks, NEW removed \in BOOLEAN, ClearOne(t, removed)
      PROVE  LifeCycle(u)
  <2>1. /\ tasks' = [tasks EXCEPT ![t] = "Absent"] /\ t \in cleared'
        /\ dtasks' = dtasks \/ dtasks' = [dtasks EXCEPT ![t] = "Absent"]
        /\ tasks[t] \in Terminal
    BY <1>6, <1>0 DEF ClearOne, ClearInv
  <2> QED
    BY <2>1, <1>0 DEF LifeCycle, TypeOK
<1>7. CASE WriteQueue
  BY <1>7, <1>a DEF WriteQueue, memory
<1>8. ASSUME NEW t \in Tasks, WriteTask(t)  PROVE LifeCycle(u)
  BY <1>8, <1>0 DEF WriteTask, memory, LifeCycle, TypeOK, Known
<1>9. CASE WriteFails
  BY <1>9 DEF WriteFails, LoseMemory, memory, disk, LifeCycle
<1>10. CASE Return
  BY <1>10, <1>a DEF Return, memory, disk
<1>11. ASSUME NEW w \in Workers, PopTask(w)  PROVE LifeCycle(u)
  <2>1. PICK t \in Tasks : t = Head(queue)
    BY <1>11, <1>0, TailFacts DEF PopTask, TypeOK
  <2>2. tasks' = tasks \/ (tasks[t] = "Queued" /\ tasks' = [tasks EXCEPT ![t] = "Running"])
    BY <1>11, <2>1 DEF PopTask
  <2>3. dtasks' = dtasks
    BY <1>11 DEF PopTask, disk
  <2> QED
    BY <2>2, <2>3, <1>0 DEF LifeCycle, TypeOK
<1>12. ASSUME NEW w \in Workers, PopEmpty(w)  PROVE LifeCycle(u)
  BY <1>12, <1>a DEF PopEmpty, memory, disk
<1>13. ASSUME NEW w \in Workers, Notified(w)  PROVE LifeCycle(u)
  BY <1>13, <1>a DEF Notified, memory, disk
<1>14. ASSUME NEW w \in Workers, ApplyExecutionEvent(w)  PROVE LifeCycle(u)
  BY <1>14, <1>a DEF ApplyExecutionEvent, memory, disk
<1>15. ASSUME NEW w \in Workers, NEW result \in Terminal, NEW artifact \in BOOLEAN,
              FinishTask(w, result, artifact)
       PROVE  LifeCycle(u)
  <2> DEFINE t == worker[w].task
  <2>1. t \in Tasks /\ worker[w] = [pc |-> "exec", task |-> t]
    BY <1>15, <1>0 DEF FinishTask, WorkerInv, TypeOK
  <2>2. tasks[t] = "Running"
    BY <2>1, <1>0 DEF ExclusiveExecution
  <2>3. PICK s \in Terminal : tasks' = [tasks EXCEPT ![t] = s]
    BY <1>15, <2>1, <2>2 DEF FinishTask, Known, FinalStatus, Terminal
  <2>4. dtasks' = dtasks
    BY <1>15 DEF FinishTask, disk
  <2> QED
    BY <2>1, <2>2, <2>3, <2>4, <1>0 DEF LifeCycle, TypeOK
<1>16. CASE Crash
  BY <1>16 DEF Crash, LoseMemory, disk, LifeCycle
<1>17. CASE Restart
  BY <1>17 DEF Restart, disk, LifeCycle
<1> QED
  BY <1>1, <1>2, <1>3, <1>4, <1>5, <1>6, <1>7, <1>8, <1>9, <1>10, <1>11, <1>12,
     <1>13, <1>14, <1>15, <1>16, <1>17
     DEF Next, Clear, Write, Pop, Finish

-----------------------------------------------------------------------------
(* Finished tasks stay finished. *)

FinishInv == ExecInv /\ FinishedNeverReruns

LEMMA FinishStep == FinishInv /\ [Next]_vars => FinishInv'
<1> SUFFICES ASSUME FinishInv, [Next]_vars  PROVE FinishInv'
  OBVIOUS
<1>1. ExecInv /\ ExecInv'
  BY ExecStep DEF FinishInv
<1>2. ASSUME NEW t \in Tasks, dtasks'[t] \in Terminal
      PROVE  tasks'[t] \in {dtasks'[t], "Absent"}
  <2>1. LifeCycle(t)
    BY <1>1, LifeCycleStep
  <2>2. dtasks[t] \in Terminal => tasks[t] \in {dtasks[t], "Absent"}
    BY DEF FinishInv, FinishedNeverReruns
  <2>3. dtasks[t] # "Absent" => t \in issued
    BY <1>1 DEF ExecInv, IssuedInv
  <2>4. Recovered(dtasks)[t] = IF dtasks[t] = "Running" THEN "Queued" ELSE dtasks[t]
    BY DEF Recovered
  <2> QED
    BY <1>2, <2>1, <2>2, <2>3, <2>4 DEF LifeCycle, Terminal
<1> QED
  BY <1>1, <1>2 DEF FinishInv, FinishedNeverReruns

LEMMA FinishInit == Init => FinishInv
  BY ExecInit DEF Init, FinishInv, FinishedNeverReruns, Terminal

\* A task whose file records a terminal status is never queued or executed
\* again, wherever crashes and failed writes cut persist_all_locked short.
THEOREM NoRerun == Spec => []FinishedNeverReruns
<1>1. FinishInv => FinishedNeverReruns
  BY DEF FinishInv
<1> QED
  BY FinishInit, FinishStep, <1>1, PTL DEF Spec

\* The terminal status in a task file is final: no step replaces it by another
\* status; only clear_terminal_tasks removes the file.
THEOREM Finality == Spec => TerminalIsFinal
<1>1. FinishInv /\ [Next]_vars =>
        [\A t \in Tasks : dtasks[t] \in Terminal => dtasks'[t] \in {dtasks[t], "Absent"}]_vars
  <2> SUFFICES ASSUME FinishInv, [Next]_vars, NEW t \in Tasks, dtasks[t] \in Terminal
               PROVE  dtasks'[t] \in {dtasks[t], "Absent"}
    OBVIOUS
  <2>1. LifeCycle(t)
    BY LifeCycleStep DEF FinishInv
  <2> QED
    BY <2>1 DEF FinishInv, FinishedNeverReruns, LifeCycle
<1> QED
  BY FinishInit, FinishStep, <1>1, PTL DEF Spec, TerminalIsFinal

-----------------------------------------------------------------------------
(* Acknowledged operations.  add_task and cancel_task answer Ok after they   *)
(* have written the record: until then it is in the set still to be written. *)

HoldInv ==
    /\ holder = "add" => /\ arg \in issued /\ tasks[arg] # "Absent"
                         /\ arg \in wtasks \/ dtasks[arg] # "Absent"
    /\ holder = "cancel" => /\ arg \in Tasks /\ tasks[arg] = "Canceled"
                            /\ arg \in wtasks \/ dtasks[arg] = "Canceled"

StoppedInv ==
    \A t \in stopped : /\ t \in issued
                        /\ tasks[t] \in {"Canceled", "Absent"}
                        /\ dtasks[t] \in {"Canceled", "Absent"}

AckInv == FinishInv /\ HoldInv /\ StoppedInv /\ AckedNeverLost

\* Only Return acknowledges; the other histories only grow.
LEMMA HistoryStep ==
    ASSUME [Next]_vars
    PROVE  /\ issued \subseteq issued' /\ cleared \subseteq cleared'
           /\ Return \/ (acked' = acked /\ stopped' = stopped)
  BY DEF Next, vars, history, AddTask, CancelTask, RecordToolMetadata, ClearTerminalTasks,
         Clear, ClearOne, Write, WriteQueue, WriteTask, WriteFails, Return, Pop, PopTask,
         PopEmpty, Notified, ApplyExecutionEvent, Finish, FinishTask, Crash, Restart

\* An operation other than add_task and cancel_task of a queued task takes or
\* releases the mutex without touching the facts of HoldInv.
LEMMA HoldStep ==
    ASSUME ExecInv, ExecInv', HoldInv, [Next]_vars
    PROVE  HoldInv'
<1>0. TypeInv /\ DownInv
  BY DEF ExecInv
<1>a. ASSUME holder' \notin {"add", "cancel"}  PROVE HoldInv'
  BY <1>a DEF HoldInv
<1>b. ASSUME UNCHANGED <<holder, arg, wtasks, tasks, dtasks, issued>>  PROVE HoldInv'
  BY <1>b DEF HoldInv
<1>1. CASE UNCHANGED vars
  BY <1>1, <1>b DEF vars, mutex, memory, disk, history
<1>2. ASSUME NEW t \in Tasks, AddTask(t)  PROVE HoldInv'
  <2>1. holder' = "add" /\ arg' = t /\ t \in issued' /\ tasks'[t] = "Queued"
    BY <1>2, <1>0 DEF AddTask, PersistAll, TypeInv, TypeOK
  <2>2. t \in wtasks'
    BY <1>2, <2>1 DEF AddTask, PersistAll
  <2> QED
    BY <2>1, <2>2 DEF HoldInv
<1>3. ASSUME NEW t \in Tasks, CancelTask(t)  PROVE HoldInv'
  <2>1. CASE tasks[t] = "Queued"
    <3>1. holder' = "cancel" /\ arg' = t /\ tasks'[t] = "Canceled"
      BY <1>3, <2>1, <1>0 DEF CancelTask, PersistAll, TypeInv, TypeOK, Terminal
    <3>2. t \in wtasks'
      BY <1>3, <2>1, <3>1 DEF CancelTask, PersistAll, Terminal
    <3> QED
      BY <3>1, <3>2 DEF HoldInv
  <2>2. CASE tasks[t] # "Queued"
    BY <1>3, <2>2, <1>a DEF CancelTask, PersistAll
  <2> QED
    BY <2>1, <2>2
<1>4. ASSUME NEW t \in Tasks, RecordToolMetadata(t)  PROVE HoldInv'
  BY <1>4, <1>a DEF RecordToolMetadata, PersistOne
<1>5. CASE ClearTerminalTasks
  BY <1>5, <1>a DEF ClearTerminalTasks
<1>6. ASSUME NEW t \in Tasks, NEW removed \in BOOLEAN, ClearOne(t, removed)  PROVE HoldInv'
  BY <1>6, <1>a DEF ClearOne, Release
<1>7. CASE WriteQueue
  BY <1>7, <1>b DEF WriteQueue, memory, history
<1>8. ASSUME NEW t \in Tasks, WriteTask(t)  PROVE HoldInv'
  <2>1. /\ UNCHANGED <<holder, arg, tasks, issued>> /\ wtasks' = wtasks \ {t}
        /\ dtasks' = [dtasks EXCEPT ![t] = tasks[t]]
    BY <1>8 DEF WriteTask, memory, history
  <2>2. dtasks'[t] = tasks[t] /\ \A u \in Tasks \ {t} : dtasks'[u] = dtasks[u]
    BY <2>1, <1>0 DEF TypeInv, TypeOK
  <2>3. issued \subseteq Tasks
    BY <1>0 DEF TypeInv, TypeOK
  <2> QED
    BY <2>1, <2>2, <2>3 DEF HoldInv
<1>9. CASE WriteFails
  BY <1>9, <1>a DEF WriteFails, Release
<1>10. CASE Return
  BY <1>10, <1>a DEF Return, Release
<1>11. ASSUME NEW w \in Workers, PopTask(w)  PROVE HoldInv'
  BY <1>11, <1>a DEF PopTask, PersistAll
<1>12. ASSUME NEW w \in Workers, PopEmpty(w)  PROVE HoldInv'
  BY <1>12, <1>b DEF PopEmpty, memory, mutex, disk, history
<1>13. ASSUME NEW w \in Workers, Notified(w)  PROVE HoldInv'
  BY <1>13, <1>b DEF Notified, memory, mutex, disk, history
<1>14. ASSUME NEW w \in Workers, ApplyExecutionEvent(w)  PROVE HoldInv'
  BY <1>14, <1>a DEF ApplyExecutionEvent, PersistOne
<1>15. ASSUME NEW w \in Workers, NEW result \in Terminal, NEW artifact \in BOOLEAN,
              FinishTask(w, result, artifact)
       PROVE  HoldInv'
  BY <1>15, <1>a DEF FinishTask, PersistAll, Lock, mutex
<1>16. CASE Crash
  BY <1>16, <1>a DEF Crash, Release
<1>17. CASE Restart
  BY <1>17, <1>a DEF Restart, PersistAll
<1> QED
  BY <1>1, <1>2, <1>3, <1>4, <1>5, <1>6, <1>7, <1>8, <1>9, <1>10, <1>11, <1>12,
     <1>13, <1>14, <1>15, <1>16, <1>17
     DEF Next, Clear, Write, Pop, Finish

LEMMA AckStep == AckInv /\ [Next]_vars => AckInv'
<1> SUFFICES ASSUME AckInv, [Next]_vars  PROVE AckInv'
  OBVIOUS
<1>1. FinishInv /\ FinishInv' /\ ExecInv /\ ExecInv'
  BY FinishStep DEF AckInv, FinishInv
<1>2. TypeOK /\ TypeOK' /\ IssuedInv /\ DownInv
  BY <1>1 DEF ExecInv, TypeInv
<1>3. HoldInv'
  BY <1>1, HoldStep DEF AckInv
<1>4. ASSUME NEW t \in Tasks
      PROVE  Recovered(dtasks)[t] = IF dtasks[t] = "Running" THEN "Queued" ELSE dtasks[t]
  BY DEF Recovered
<1>5. ASSUME Return
      PROVE  /\ UNCHANGED <<tasks, dtasks, up, issued, cleared>> /\ up /\ wtasks = {}
             /\ acked' = IF holder = "add" THEN acked \cup {arg} ELSE acked
             /\ stopped' = IF holder = "cancel" THEN stopped \cup {arg} ELSE stopped
  BY <1>5 DEF Return, memory, disk
<1>6. StoppedInv'
  <2>1. CASE Return
    <3>1. holder = "cancel" =>
            arg \in issued /\ tasks[arg] = "Canceled" /\ dtasks[arg] = "Canceled"
      BY <2>1, <1>5, <1>2 DEF AckInv, HoldInv, IssuedInv
    <3> QED
      BY <2>1, <1>5, <3>1 DEF AckInv, StoppedInv
  <2>2. CASE ~Return
    <3> SUFFICES ASSUME NEW t \in stopped
                 PROVE  /\ t \in issued'
                        /\ tasks'[t] \in {"Canceled", "Absent"}
                        /\ dtasks'[t] \in {"Canceled", "Absent"}
      BY <2>2, HistoryStep DEF StoppedInv
    <3>1. /\ t \in issued /\ t \in issued' /\ t \in Tasks
          /\ tasks[t] \in {"Canceled", "Absent"} /\ dtasks[t] \in {"Canceled", "Absent"}
      BY <1>2, HistoryStep DEF AckInv, StoppedInv, TypeOK
    <3>2. LifeCycle(t)
      BY <1>1, <3>1, LifeCycleStep
    <3> QED
      BY <3>1, <3>2, <1>4 DEF LifeCycle
  <2> QED
    BY <2>1, <2>2
<1>7. AckedNeverLost'
  <2>1. CASE Return
    <3>1. holder = "add" => tasks[arg] # "Absent" /\ dtasks[arg] # "Absent"
      BY <2>1, <1>5 DEF AckInv, HoldInv
    <3> QED
      BY <2>1, <1>5, <3>1 DEF AckInv, AckedNeverLost
  <2>2. CASE ~Return
    <3> SUFFICES ASSUME NEW t \in acked, t \notin cleared'
                 PROVE  dtasks'[t] # "Absent" /\ (up' => tasks'[t] # "Absent")
      BY <2>2, HistoryStep DEF AckedNeverLost
    <3>1. t \in issued /\ t \in Tasks /\ t \notin cleared
      BY <1>2, HistoryStep DEF TypeOK
    <3>2. dtasks[t] # "Absent" /\ (up => tasks[t] # "Absent")
      BY <3>1 DEF AckInv, AckedNeverLost
    <3>3. LifeCycle(t)
      BY <1>1, <3>1, LifeCycleStep
    <3>4. up' => up \/ tasks' = Recovered(dtasks)
      BY DEF Next, vars, AddTask, CancelTask, RecordToolMetadata, ClearTerminalTasks,
             Clear, ClearOne, Write, WriteQueue, WriteTask, WriteFails, Return, Pop, PopTask,
             PopEmpty, Notified, ApplyExecutionEvent, Finish, FinishTask, Crash, Restart,
             LoseMemory
    <3> QED
      BY <3>1, <3>2, <3>3, <3>4, <1>4 DEF LifeCycle, Terminal
  <2> QED
    BY <2>1, <2>2
<1> QED
  BY <1>1, <1>3, <1>6, <1>7 DEF AckInv

LEMMA AckInit == Init => AckInv
  BY FinishInit DEF Init, AckInv, HoldInv, StoppedInv, AckedNeverLost

\* Once cancel_task of a queued task has answered Ok, the task never waits for
\* a worker or runs again, in this process or in one that reloads its file.
THEOREM Cancellation == Spec => []CanceledNeverRuns
<1>1. AckInv => CanceledNeverRuns
  BY DEF AckInv, StoppedInv, CanceledNeverRuns
<1> QED
  BY AckInit, AckStep, <1>1, PTL DEF Spec

\* A task whose add_task answered Ok has a file, and a record in a running
\* manager, until clear_terminal_tasks forgets it.
THEOREM Durability == Spec => []AckedNeverLost
<1>1. AckInv => AckedNeverLost
  BY DEF AckInv
<1> QED
  BY AckInit, AckStep, <1>1, PTL DEF Spec

-----------------------------------------------------------------------------
(* The manager implements TaskLife: its records are the lives, its files are *)
(* what a restart resumes from.                                              *)

LEMMA LifeStep == AckInv /\ [Next]_vars => [Life!Next]_(Life!vars)
<1> SUFFICES ASSUME AckInv, [Next]_vars  PROVE Life!Next \/ UNCHANGED Life!vars
  OBVIOUS
<1>0. /\ TypeOK /\ WorkerInv /\ ClearInv /\ ExclusiveExecution /\ HoldInv
      /\ Terminal = Life!Terminal
  BY DEF AckInv, FinishInv, ExecInv, TypeInv, Terminal, Life!Terminal
<1>a. ASSUME UNCHANGED <<up, tasks, dtasks, issued, acked>>  PROVE UNCHANGED Life!vars
  BY <1>a DEF Life!vars
<1>b. ASSUME NEW t \in Tasks, NEW s \in Terminal \cup {"Running"}, Life!Advance(t, s)
      PROVE  Life!Next
  BY <1>0, <1>b DEF Life!Next
<1>c. ASSUME LoseMemory, up, UNCHANGED <<dtasks, issued, acked>>  PROVE Life!Next
  BY <1>c DEF LoseMemory, Life!Crash, Life!Next
<1>1. CASE UNCHANGED vars
  BY <1>1, <1>a DEF vars, memory, disk, history
<1>2. ASSUME NEW t \in Tasks, AddTask(t)  PROVE Life!Next
  <2>1. Life!Create(t)
    BY <1>2 DEF AddTask, Lock, disk, Life!Create
  <2> QED
    BY <2>1 DEF Life!Next
<1>3. ASSUME NEW t \in Tasks, CancelTask(t)  PROVE Life!Next \/ UNCHANGED Life!vars
  <2>1. UNCHANGED <<up, dtasks, issued, acked>> /\ up
    BY <1>3 DEF CancelTask, Lock, disk, history
  <2>2. CASE tasks[t] = "Queued"
    <3>1. Life!Advance(t, "Canceled")
      BY <1>3, <2>1, <2>2 DEF CancelTask, Terminal, Life!Advance
    <3> QED
      BY <3>1, <1>b DEF Terminal
  <2>3. CASE tasks[t] # "Queued"
    BY <1>3, <2>1, <2>3, <1>a DEF CancelTask
  <2> QED
    BY <2>2, <2>3
<1>4. ASSUME NEW t \in Tasks, RecordToolMetadata(t)  PROVE UNCHANGED Life!vars
  BY <1>4, <1>a DEF RecordToolMetadata, memory, disk, history
<1>5. CASE ClearTerminalTasks
  BY <1>5, <1>a DEF ClearTerminalTasks, memory, disk, history
<1>6. ASSUME NEW t \in Tasks, NEW removed \in BOOLEAN, ClearOne(t, removed)
      PROVE  Life!Next
  <2>1. tasks[t] \in Terminal
    BY <1>6, <1>0 DEF ClearOne, ClearInv
  <2>2. Life!Forget(t)
    BY <1>6, <2>1, <1>0 DEF ClearOne, Life!Forget
  <2> QED
    BY <2>2 DEF Life!Next
<1>7. CASE WriteQueue
  BY <1>7, <1>a DEF WriteQueue, memory, history
<1>8. ASSUME NEW t \in Tasks, WriteTask(t)  PROVE Life!Next
  <2>1. Life!Save(t)
    BY <1>8, <1>0 DEF WriteTask, memory, history, TypeOK, Known, Life!Save
  <2> QED
    BY <2>1 DEF Life!Next
<1>9. CASE WriteFails
  <2>1. up /\ UNCHANGED <<dtasks, issued, acked>>
    BY <1>9 DEF WriteFails, disk, history
  <2>2. LoseMemory \/ UNCHANGED <<up, memory>>
    BY <1>9 DEF WriteFails
  <2> QED
    BY <2>1, <2>2, <1>a, <1>c DEF memory
<1>10. CASE Return
  <2>1. /\ UNCHANGED <<up, tasks, dtasks, issued>> /\ up /\ wtasks = {}
        /\ acked' = IF holder = "add" THEN acked \cup {arg} ELSE acked
    BY <1>10 DEF Return, memory, disk
  <2>2. CASE holder = "add"
    <3>1. arg \in Tasks /\ tasks[arg] # "Absent" /\ dtasks[arg] # "Absent"
      BY <2>1, <2>2, <1>0 DEF HoldInv, TypeOK
    <3>2. Life!Acknowledge(arg)
      BY <2>1, <2>2, <3>1 DEF Life!Acknowledge
    <3> QED
      BY <3>1, <3>2 DEF Life!Next
  <2>3. CASE holder # "add"
    BY <2>1, <2>3, <1>a
  <2> QED
    BY <2>2, <2>3
<1>11. ASSUME NEW w \in Workers, PopTask(w)  PROVE Life!Next \/ UNCHANGED Life!vars
  <2>1. PICK t \in Tasks : t = Head(queue)
    BY <1>11, <1>0, TailFacts DEF PopTask, TypeOK
  <2>2. UNCHANGED <<up, dtasks, issued, acked>> /\ up
    BY <1>11 DEF PopTask, Lock, disk, history
  <2>3. CASE tasks[t] = "Queued"
    <3>1. Life!Advance(t, "Running")
      BY <1>11, <2>1, <2>2, <2>3 DEF PopTask, Life!Advance
    <3> QED
      BY <3>1, <1>b
  <2>4. CASE tasks[t] # "Queued"
    BY <1>11, <2>1, <2>2, <2>4, <1>a DEF PopTask
  <2> QED
    BY <2>3, <2>4
<1>12. ASSUME NEW w \in Workers, PopEmpty(w)  PROVE UNCHANGED Life!vars
  BY <1>12, <1>a DEF PopEmpty, memory, disk, history
<1>13. ASSUME NEW w \in Workers, Notified(w)  PROVE UNCHANGED Life!vars
  BY <1>13, <1>a DEF Notified, memory, disk, history
<1>14. ASSUME NEW w \in Workers, ApplyExecutionEvent(w)  PROVE UNCHANGED Life!vars
  BY <1>14, <1>a DEF ApplyExecutionEvent, memory, disk, history
<1>15. ASSUME NEW w \in Workers, NEW result \in Terminal, NEW artifact \in BOOLEAN,
              FinishTask(w, result, artifact)
       PROVE  Life!Next
  <2>1. PICK t \in Tasks : t = worker[w].task /\ worker[w] = [pc |-> "exec", task |-> t]
    BY <1>15, <1>0 DEF FinishTask, WorkerInv, TypeOK
  <2>2. tasks[t] = "Running"
    BY <2>1, <1>0 DEF ExclusiveExecution
  <2>3. PICK s \in Terminal : tasks' = [tasks EXCEPT ![t] = s]
    BY <1>15, <2>1, <2>2 DEF FinishTask, Known, FinalStatus, Terminal
  <2>4. Life!Advance(t, s)
    BY <1>15, <2>2, <2>3, <1>0 DEF FinishTask, Lock, disk, history, Life!Advance
  <2> QED
    BY <2>4, <1>b
<1>16. CASE Crash
  BY <1>16, <1>c DEF Crash, disk, history
<1>17. CASE Restart
  <2>1. Life!Recover
    BY <1>17 DEF Restart, Recovered, disk, Life!Recover
  <2> QED
    BY <2>1 DEF Life!Next
<1> QED
  BY <1>1, <1>2, <1>3, <1>4, <1>5, <1>6, <1>7, <1>8, <1>9, <1>10, <1>11, <1>12,
     <1>13, <1>14, <1>15, <1>16, <1>17
     DEF Next, Clear, Write, Pop, Finish

\* TaskManager implements TaskLife: whatever the queue, the workers and the
\* file writes do, and wherever crashes and failed writes cut them short, a
\* step of the manager is a step of the life of one task, or no step at all.
THEOREM Refinement == Spec => ImplementsTaskLife
<1>1. Init => Life!Init
  BY DEF Init, Life!Init
<1> QED
  BY <1>1, AckInit, AckStep, LifeStep, PTL DEF Spec, Life!Spec, ImplementsTaskLife

-----------------------------------------------------------------------------
(* The queue and the statuses. *)

QueueInv == ExecInv /\ QueueMatchesStatus

Waiting == {t \in Tasks : tasks[t] = "Queued"}

LEMMA QueueInit == Init => QueueInv
<1> SUFFICES ASSUME Init  PROVE QueueInv
  OBVIOUS
<1>1. DOMAIN queue = {}
  BY DEF Init
<1>2. Ids(queue) = {} /\ Distinct(queue)
  BY <1>1 DEF Ids, Distinct
<1> QED
  BY <1>2, ExecInit DEF Init, QueueInv, QueueMatchesStatus

LEMMA QueueStep == QueueInv /\ [Next]_vars => QueueInv'
<1> SUFFICES ASSUME QueueInv, [Next]_vars  PROVE QueueMatchesStatus'
  BY ExecStep DEF QueueInv
<1>0. ExecInv /\ TypeOK /\ TypeOK' /\ QueueMatchesStatus
  BY TypeStep DEF QueueInv, ExecInv, TypeInv
<1>q. ASSUME up  PROVE Ids(queue) = Waiting /\ Distinct(queue)
  BY <1>0, <1>q DEF QueueMatchesStatus, Waiting
<1>g. ASSUME up' => Ids(queue') = Waiting' /\ Distinct(queue')
      PROVE  QueueMatchesStatus'
  BY <1>g DEF QueueMatchesStatus, Waiting, Ids, Distinct
<1>a. ASSUME UNCHANGED <<tasks, queue, up>>  PROVE QueueMatchesStatus'
  BY <1>0, <1>a DEF QueueMatchesStatus, Ids, Distinct
<1>r. ASSUME NEW t \in Tasks, NEW s \in Status, up, s # "Queued",
             tasks' = [tasks EXCEPT ![t] = s], queue' \in Retain(queue, Tasks \ {t})
      PROVE  QueueMatchesStatus'
  <2>1. Ids(queue') = Ids(queue) \cap (Tasks \ {t}) /\ Distinct(queue')
    BY <1>0, <1>r, RetainFacts DEF TypeOK
  <2>2. Waiting' = Waiting \ {t}
    BY <1>0, <1>r DEF Waiting, TypeOK
  <2> QED
    BY <1>q, <1>r, <2>1, <2>2, <1>g DEF Waiting
<1>1. CASE UNCHANGED vars
  BY <1>1, <1>a DEF vars, memory
<1>2. ASSUME NEW t \in Tasks, AddTask(t)  PROVE QueueMatchesStatus'
  <2>1. /\ up /\ up' = up /\ t \notin issued /\ queue' = Append(queue, t)
        /\ tasks' = [tasks EXCEPT ![t] = "Queued"]
    BY <1>2 DEF AddTask, Lock
  <2>2. tasks[t] = "Absent"
    BY <1>0, <2>1 DEF ExecInv, IssuedInv
  <2>3. t \notin Ids(queue)
    BY <1>q, <2>1, <2>2 DEF Waiting
  <2>4. Ids(queue') = Ids(queue) \cup {t} /\ Distinct(queue')
    BY <1>0, <1>q, <2>1, <2>3, AppendFacts DEF TypeOK
  <2>5. Waiting' = Waiting \cup {t}
    BY <1>0, <2>1 DEF Waiting, TypeOK
  <2> QED
    BY <1>q, <2>1, <2>4, <2>5, <1>g
<1>3. ASSUME NEW t \in Tasks, CancelTask(t)  PROVE QueueMatchesStatus'
  <2>1. up /\ up' = up
    BY <1>3 DEF CancelTask, Lock
  <2>2. CASE tasks[t] = "Queued"
    <3>1. /\ tasks' = [tasks EXCEPT ![t] = "Canceled"]
          /\ queue' \in Retain(queue, Tasks \ {t})
      BY <1>3, <2>2 DEF CancelTask, Terminal
    <3> QED
      BY <2>1, <3>1, <1>r DEF Status, Terminal
  <2>3. CASE tasks[t] # "Queued"
    BY <1>3, <2>1, <2>3, <1>a DEF CancelTask
  <2> QED
    BY <2>2, <2>3
<1>4. ASSUME NEW t \in Tasks, RecordToolMetadata(t)  PROVE QueueMatchesStatus'
  BY <1>4, <1>a DEF RecordToolMetadata, memory
<1>5. CASE ClearTerminalTasks
  BY <1>5, <1>a DEF ClearTerminalTasks, memory
<1>6. ASSUME NEW t \in Tasks, NEW removed \in BOOLEAN, ClearOne(t, removed)
      PROVE  QueueMatchesStatus'
  <2>1. /\ up /\ tasks' = [tasks EXCEPT ![t] = "Absent"]
        /\ queue' \in Retain(queue, Tasks \ {t})
    BY <1>6 DEF ClearOne
  <2> QED
    BY <2>1, <1>r DEF Status
<1>7. CASE WriteQueue
  BY <1>7, <1>a DEF WriteQueue, memory
<1>8. ASSUME NEW t \in Tasks, WriteTask(t)  PROVE QueueMatchesStatus'
  BY <1>8, <1>a DEF WriteTask, memory
<1>9. CASE WriteFails
  <2>1. CASE holder = "boot"
    BY <1>9, <2>1 DEF WriteFails, LoseMemory, QueueMatchesStatus
  <2>2. CASE holder # "boot"
    BY <1>9, <2>2, <1>a DEF WriteFails, memory
  <2> QED
    BY <2>1, <2>2
<1>10. CASE Return
  BY <1>10, <1>a DEF Return, memory
<1>11. ASSUME NEW w \in Workers, PopTask(w)  PROVE QueueMatchesStatus'
  <2>1. up /\ up' = up /\ queue # <<>> /\ queue' = Tail(queue)
    BY <1>11 DEF PopTask, Lock
  <2>2. PICK t \in Tasks : t = Head(queue)
    BY <1>0, <2>1, TailFacts DEF TypeOK
  <2>3. t \in Ids(queue) /\ Ids(queue') = Ids(queue) \ {t} /\ Distinct(queue')
    BY <1>0, <1>q, <2>1, <2>2, TailFacts DEF TypeOK
  <2>4. tasks[t] = "Queued"
    BY <1>q, <2>1, <2>3 DEF Waiting
  <2>5. tasks' = [tasks EXCEPT ![t] = "Running"]
    BY <1>11, <2>2, <2>4 DEF PopTask
  <2>6. Waiting' = Waiting \ {t}
    BY <1>0, <2>5 DEF Waiting, TypeOK
  <2> QED
    BY <1>q, <2>1, <2>3, <2>6, <1>g
<1>12. ASSUME NEW w \in Workers, PopEmpty(w)  PROVE QueueMatchesStatus'
  BY <1>12, <1>a DEF PopEmpty, memory
<1>13. ASSUME NEW w \in Workers, Notified(w)  PROVE QueueMatchesStatus'
  BY <1>13, <1>a DEF Notified, memory
<1>14. ASSUME NEW w \in Workers, ApplyExecutionEvent(w)  PROVE QueueMatchesStatus'
  BY <1>14, <1>a DEF ApplyExecutionEvent, memory
<1>15. ASSUME NEW w \in Workers, NEW result \in Terminal, NEW artifact \in BOOLEAN,
              FinishTask(w, result, artifact)
       PROVE  QueueMatchesStatus'
  <2>1. up /\ up' = up /\ queue' = queue /\ worker[w].pc = "exec"
    BY <1>15 DEF FinishTask, Lock
  <2>2. PICK t \in Tasks : worker[w] = [pc |-> "exec", task |-> t]
    BY <2>1, <1>0 DEF ExecInv, WorkerInv, TypeOK
  <2>3. tasks[t] = "Running"
    BY <1>0, <2>2 DEF ExecInv, ExclusiveExecution
  <2>4. PICK s \in Terminal : tasks' = [tasks EXCEPT ![t] = s]
    BY <1>15, <2>2, <2>3 DEF FinishTask, Known, FinalStatus, Terminal
  <2>5. Waiting' = Waiting
    BY <1>0, <2>3, <2>4 DEF Waiting, TypeOK, Terminal
  <2> QED
    BY <1>q, <2>1, <2>5, <1>g
<1>16. CASE Crash
  BY <1>16 DEF Crash, LoseMemory, QueueMatchesStatus
<1>17. CASE Restart
  <2>1. tasks' \in [Tasks -> Status] /\ queue' \in LoadQueue(tasks', dqueue)
    BY <1>0, <1>17 DEF Restart, TypeOK
  <2>2. Ids(queue') = {t \in Tasks : tasks'[t] = "Queued"} /\ Distinct(queue')
    BY <1>0, <2>1, LoadQueueFacts DEF TypeOK
  <2> QED
    BY <2>2, <1>g DEF Waiting
<1> QED
  BY <1>1, <1>2, <1>3, <1>4, <1>5, <1>6, <1>7, <1>8, <1>9, <1>10, <1>11, <1>12,
     <1>13, <1>14, <1>15, <1>16, <1>17
     DEF Next, Clear, Write, Pop, Finish

\* The queue of a running manager lists exactly the Queued tasks, each once:
\* no cancel_task, clear_terminal_tasks, failed persist or load_state leaves a
\* queued task out of it, or a stale id in it.
THEOREM QueueExact == Spec => []QueueMatchesStatus
<1>1. Init => QueueInv
  BY QueueInit
<1>2. QueueInv /\ [Next]_vars => QueueInv'
  BY QueueStep
<1>3. QueueInv => QueueMatchesStatus
  BY DEF QueueInv
<1> QED
  BY <1>1, <1>2, <1>3, PTL DEF Spec

-----------------------------------------------------------------------------
(* Wakeups.  Only Return acknowledges an id, and it notifies; a worker goes  *)
(* back to sleep only after it has seen an empty queue or found no permit,   *)
(* which leaves the worker that the invariant promises to somebody else.     *)

WakeInv == QueueInv /\ NoLostWakeup

Awake == permit \/ \E w \in Workers : worker[w].pc \in {"pop", "exec"}

LEMMA WakeStep == WakeInv /\ [Next]_vars => WakeInv'
<1> SUFFICES ASSUME WakeInv, [Next]_vars  PROVE NoLostWakeup'
  BY QueueStep DEF WakeInv
<1>0. /\ QueueInv /\ ExecInv /\ TypeOK /\ TypeOK' /\ NoLostWakeup
  BY TypeStep DEF WakeInv, QueueInv, ExecInv, TypeInv
<1>k. ASSUME Awake'  PROVE NoLostWakeup'
  BY <1>k DEF NoLostWakeup, Awake
<1>a. ASSUME UNCHANGED <<worker, permit, up>>,
             acked' \cap Ids(queue') \subseteq acked \cap Ids(queue)
      PROVE  NoLostWakeup'
  BY <1>0, <1>a DEF NoLostWakeup, Ids
<1>b. ASSUME UNCHANGED <<worker, permit, up, acked, queue>>  PROVE NoLostWakeup'
  BY <1>a, <1>b DEF Ids
<1>1. CASE UNCHANGED vars
  BY <1>1, <1>b DEF vars, memory, pool, history
<1>2. ASSUME NEW t \in Tasks, AddTask(t)  PROVE NoLostWakeup'
  <2>1. /\ UNCHANGED <<worker, permit, up, acked>> /\ t \notin issued
        /\ queue' = Append(queue, t)
    BY <1>2 DEF AddTask, pool
  <2>2. t \notin acked /\ Ids(queue') = Ids(queue) \cup {t}
    BY <1>0, <2>1, AppendFacts DEF TypeOK
  <2> QED
    BY <2>1, <2>2, <1>a
<1>3. ASSUME NEW t \in Tasks, CancelTask(t)  PROVE NoLostWakeup'
  <2>1. UNCHANGED <<worker, permit, up, acked>>
    BY <1>3 DEF CancelTask, pool, history
  <2>2. queue' = queue \/ queue' \in Retain(queue, Tasks \ {t})
    BY <1>3 DEF CancelTask
  <2>3. CASE queue' = queue
    BY <2>1, <2>3, <1>b
  <2>4. CASE queue' \in Retain(queue, Tasks \ {t})
    <3>1. Ids(queue') = Ids(queue) \cap (Tasks \ {t})
      BY <1>0, <2>4, RetainFacts DEF TypeOK
    <3> QED
      BY <2>1, <3>1, <1>a
  <2> QED
    BY <2>2, <2>3, <2>4
<1>4. ASSUME NEW t \in Tasks, RecordToolMetadata(t)  PROVE NoLostWakeup'
  BY <1>4, <1>b DEF RecordToolMetadata, memory, pool, history
<1>5. CASE ClearTerminalTasks
  BY <1>5, <1>b DEF ClearTerminalTasks, memory, pool, history
<1>6. ASSUME NEW t \in Tasks, NEW removed \in BOOLEAN, ClearOne(t, removed)
      PROVE  NoLostWakeup'
  <2>1. UNCHANGED <<worker, permit, up, acked>> /\ queue' \in Retain(queue, Tasks \ {t})
    BY <1>6 DEF ClearOne, pool
  <2>2. Ids(queue') = Ids(queue) \cap (Tasks \ {t})
    BY <1>0, <2>1, RetainFacts DEF TypeOK
  <2> QED
    BY <2>1, <2>2, <1>a
<1>7. CASE WriteQueue
  BY <1>7, <1>b DEF WriteQueue, memory, pool, history
<1>8. ASSUME NEW t \in Tasks, WriteTask(t)  PROVE NoLostWakeup'
  BY <1>8, <1>b DEF WriteTask, memory, pool, history
<1>9. CASE WriteFails
  <2>1. CASE holder = "boot"
    BY <1>9, <2>1 DEF WriteFails, LoseMemory, NoLostWakeup
  <2>2. CASE holder # "boot"
    BY <1>9, <2>2, <1>b DEF WriteFails, memory, pool, history
  <2> QED
    BY <2>1, <2>2
<1>10. CASE Return
  <2>1. UNCHANGED <<up, queue>>
    BY <1>10 DEF Return, memory
  <2>2. CASE holder = "add"
    <3>1. NotifyOne
      BY <1>10, <2>2 DEF Return
    <3>2. Awake'
      BY <1>0, <3>1 DEF NotifyOne, Awake, TypeOK
    <3> QED
      BY <3>2, <1>k
  <2>3. CASE holder # "add"
    BY <1>10, <2>1, <2>3, <1>b DEF Return, pool
  <2> QED
    BY <2>2, <2>3
<1>11. ASSUME NEW w \in Workers, PopTask(w)  PROVE NoLostWakeup'
  <2>1. up /\ queue # <<>>
    BY <1>11 DEF PopTask, Lock
  <2>2. PICK t \in Tasks : t = Head(queue) /\ t \in Ids(queue)
    BY <1>0, <2>1, TailFacts DEF TypeOK
  <2>3. tasks[t] = "Queued"
    BY <1>0, <2>1, <2>2 DEF QueueInv, QueueMatchesStatus
  <2>4. worker' = [worker EXCEPT ![w] = [pc |-> "exec", task |-> t]]
    BY <1>11, <2>2, <2>3 DEF PopTask
  <2>5. worker'[w].pc = "exec"
    BY <1>0, <2>4 DEF TypeOK
  <2> QED
    BY <2>5, <1>k DEF Awake
<1>12. ASSUME NEW w \in Workers, PopEmpty(w)  PROVE NoLostWakeup'
  <2>1. queue' = <<>>
    BY <1>12 DEF PopEmpty, memory
  <2>2. Ids(queue') = {}
    BY <2>1 DEF Ids
  <2> QED
    BY <2>2 DEF NoLostWakeup, Ids
<1>13. ASSUME NEW w \in Workers, Notified(w)  PROVE NoLostWakeup'
  <2>1. /\ UNCHANGED <<up, queue, acked>> /\ worker[w].pc = "idle"
        /\ worker' = [worker EXCEPT ![w].pc = IF permit THEN "pop" ELSE "waiting"]
    BY <1>13 DEF Notified, memory, history
  <2>2. CASE permit
    <3>1. worker'[w].pc = "pop"
      BY <1>0, <2>1, <2>2 DEF TypeOK
    <3> QED
      BY <3>1, <1>k DEF Awake
  <2>3. CASE ~permit
    <3>1. \A v \in Workers : worker[v].pc \in {"pop", "exec"} => worker'[v] = worker[v]
      BY <1>0, <2>1 DEF TypeOK
    <3>2. CASE \E v \in Workers : worker[v].pc \in {"pop", "exec"}
      BY <3>1, <3>2, <1>k DEF Awake
    <3>3. CASE ~ \E v \in Workers : worker[v].pc \in {"pop", "exec"}
      BY <1>0, <2>1, <2>3, <3>3 DEF NoLostWakeup, Ids
    <3> QED
      BY <3>2, <3>3
  <2> QED
    BY <2>2, <2>3
<1>14. ASSUME NEW w \in Workers, ApplyExecutionEvent(w)  PROVE NoLostWakeup'
  BY <1>14, <1>b DEF ApplyExecutionEvent, memory, pool, history
<1>15. ASSUME NEW w \in Workers, NEW result \in Terminal, NEW artifact \in BOOLEAN,
              FinishTask(w, result, artifact)
       PROVE  NoLostWakeup'
  <2>1. worker' = [worker EXCEPT ![w] = [pc |-> "pop", task |-> NoTask]]
    BY <1>15 DEF FinishTask
  <2>2. worker'[w].pc = "pop"
    BY <1>0, <2>1 DEF TypeOK
  <2> QED
    BY <2>2, <1>k DEF Awake
<1>16. CASE Crash
  BY <1>16 DEF Crash, LoseMemory, NoLostWakeup
<1>17. CASE Restart
  <2>1. \A w \in Workers : worker'[w].pc = "pop"
    BY <1>17 DEF Restart
  <2> QED
    BY <2>1, <1>k, WorkersAssumption DEF Awake
<1> QED
  BY <1>1, <1>2, <1>3, <1>4, <1>5, <1>6, <1>7, <1>8, <1>9, <1>10, <1>11, <1>12,
     <1>13, <1>14, <1>15, <1>16, <1>17
     DEF Next, Clear, Write, Pop, Finish

\* No lost wakeup: however many workers there are and whatever else takes the
\* mutex, an acknowledged task that waits is seen by a worker that is awake or
\* by the next one that would go to sleep on Notify.
THEOREM Wakeups == Spec => []NoLostWakeup
<1>1. Init => WakeInv
  BY QueueInit DEF WakeInv, NoLostWakeup, Init
<1>2. WakeInv /\ [Next]_vars => WakeInv'
  BY WakeStep
<1>3. WakeInv => NoLostWakeup
  BY DEF WakeInv
<1> QED
  BY <1>1, <1>2, <1>3, PTL DEF Spec

-----------------------------------------------------------------------------
(* Cancellation of a running task.  A running task has its entry in          *)
(* running_cancel, so cancel_task finds the token; the token stays cancelled *)
(* until finish_task looks at it, because a task is started only once and a  *)
(* restart, which forgets the tokens, answers no earlier call.               *)

AskedInv ==
    /\ \A t \in Tasks : tasks[t] = "Running" => t \in running_cancel
    /\ holder = "stop" => tasks[arg] = "Running" /\ arg \in cancelled
    /\ \A t \in asked : /\ t \in issued
                       /\ \/ tasks[t] \in {"Absent", "Failed", "Canceled"}
                          \/ tasks[t] = "Running" /\ t \in cancelled

StopInv == ExecInv /\ AskedInv

LEMMA StopInit == Init => StopInv
  BY ExecInit DEF Init, StopInv, AskedInv

LEMMA StopStep == StopInv /\ [Next]_vars => StopInv'
<1> SUFFICES ASSUME StopInv, [Next]_vars  PROVE AskedInv'
  BY ExecStep DEF StopInv
<1>0. /\ ExecInv /\ TypeInv /\ TypeInv' /\ TypeOK /\ TypeOK' /\ AskedInv /\ IssuedInv
  BY TypeStep DEF StopInv, ExecInv, TypeInv
<1>a. ASSUME UNCHANGED <<tasks, running_cancel, cancelled, asked, issued>>,
             holder' = "stop" => holder = "stop" /\ arg' = arg
      PROVE  AskedInv'
  BY <1>0, <1>a DEF AskedInv
<1>l. ASSUME LoseMemory, Release, asked' = asked, issued' = issued  PROVE AskedInv'
  BY <1>0, <1>l DEF AskedInv, LoseMemory, Release, TypeOK
<1>1. CASE UNCHANGED vars
  BY <1>1, <1>a DEF vars, memory, mutex, history
<1>2. ASSUME NEW t \in Tasks, AddTask(t)  PROVE AskedInv'
  <2>1. /\ UNCHANGED <<running_cancel, cancelled, asked>> /\ holder' = "add"
        /\ t \notin issued /\ issued' = issued \cup {t}
        /\ tasks' = [tasks EXCEPT ![t] = "Queued"]
    BY <1>2 DEF AddTask, PersistAll
  <2>2. tasks'[t] = "Queued" /\ \A u \in Tasks \ {t} : tasks'[u] = tasks[u]
    BY <1>0, <2>1 DEF TypeOK
  <2>3. \A u \in asked : u \in Tasks /\ u # t
    BY <1>0, <2>1 DEF AskedInv, TypeOK
  <2> QED
    BY <1>0, <2>1, <2>2, <2>3 DEF AskedInv
<1>3. ASSUME NEW t \in Tasks, CancelTask(t)  PROVE AskedInv'
  <2>1. UNCHANGED <<running_cancel, asked, issued>>
    BY <1>3 DEF CancelTask, history
  <2>2. CASE tasks[t] = "Queued"
    <3>1. /\ tasks' = [tasks EXCEPT ![t] = "Canceled"] /\ cancelled' = cancelled
          /\ holder' = "cancel"
      BY <1>3, <2>2 DEF CancelTask, Terminal, PersistAll
    <3>2. tasks'[t] = "Canceled" /\ \A u \in Tasks \ {t} : tasks'[u] = tasks[u]
      BY <1>0, <3>1 DEF TypeOK
    <3> QED
      BY <1>0, <2>1, <3>1, <3>2 DEF AskedInv, TypeOK
  <2>3. CASE tasks[t] = "Running"
    <3>1. /\ tasks' = tasks /\ cancelled' = cancelled \cup ({t} \cap running_cancel)
          /\ holder' = "stop" /\ arg' = t
      BY <1>3, <2>3 DEF CancelTask, Terminal, PersistAll
    <3>2. t \in cancelled'
      BY <1>0, <2>3, <3>1 DEF AskedInv
    <3> QED
      BY <1>0, <2>1, <2>3, <3>1, <3>2 DEF AskedInv
  <2>4. CASE tasks[t] \in Terminal
    BY <1>3, <2>1, <2>4, <1>a DEF CancelTask, Terminal, PersistAll
  <2> QED
    BY <1>3, <2>2, <2>3, <2>4 DEF CancelTask
<1>4. ASSUME NEW t \in Tasks, RecordToolMetadata(t)  PROVE AskedInv'
  BY <1>4, <1>a DEF RecordToolMetadata, PersistOne, memory, history
<1>5. CASE ClearTerminalTasks
  BY <1>5, <1>a DEF ClearTerminalTasks, memory, history
<1>6. ASSUME NEW t \in Tasks, NEW removed \in BOOLEAN, ClearOne(t, removed)
      PROVE  AskedInv'
  <2>1. /\ UNCHANGED <<cancelled, asked, issued>> /\ holder' # "stop"
        /\ tasks' = [tasks EXCEPT ![t] = "Absent"]
        /\ running_cancel' = running_cancel \ {t}
    BY <1>6 DEF ClearOne, Release
  <2>2. tasks'[t] = "Absent" /\ \A u \in Tasks \ {t} : tasks'[u] = tasks[u]
    BY <1>0, <2>1 DEF TypeOK
  <2> QED
    BY <1>0, <2>1, <2>2 DEF AskedInv, TypeOK
<1>7. CASE WriteQueue
  BY <1>7, <1>a DEF WriteQueue, memory, history
<1>8. ASSUME NEW t \in Tasks, WriteTask(t)  PROVE AskedInv'
  BY <1>8, <1>a DEF WriteTask, memory, history
<1>9. CASE WriteFails
  <2>1. CASE holder = "boot"
    BY <1>9, <2>1, <1>l DEF WriteFails, history
  <2>2. CASE holder # "boot"
    BY <1>9, <2>2, <1>a DEF WriteFails, Release, memory, history
  <2> QED
    BY <2>1, <2>2
<1>10. CASE Return
  <2>1. UNCHANGED <<tasks, running_cancel, cancelled, issued>> /\ holder' = "free"
    BY <1>10 DEF Return, Release, memory
  <2>2. CASE holder = "stop"
    <3>1. asked' = asked \cup {arg} /\ arg \in Tasks
      BY <1>0, <1>10, <2>2 DEF Return, TypeInv, ArgType
    <3>2. arg \in issued /\ tasks[arg] = "Running" /\ arg \in cancelled
      BY <1>0, <2>2, <3>1 DEF AskedInv, IssuedInv
    <3> QED
      BY <1>0, <2>1, <3>1, <3>2 DEF AskedInv
  <2>3. CASE holder # "stop"
    BY <1>10, <2>1, <2>3, <1>a DEF Return
  <2> QED
    BY <2>2, <2>3
<1>11. ASSUME NEW w \in Workers, PopTask(w)  PROVE AskedInv'
  <2>1. queue # <<>> /\ UNCHANGED <<asked, issued>> /\ holder' # "stop"
    BY <1>11 DEF PopTask, PersistAll, history
  <2>2. PICK t \in Tasks : t = Head(queue)
    BY <1>0, <2>1, TailFacts DEF TypeOK
  <2>3. CASE tasks[t] = "Queued"
    <3>1. /\ tasks' = [tasks EXCEPT ![t] = "Running"]
          /\ running_cancel' = running_cancel \cup {t} /\ cancelled' = cancelled \ {t}
      BY <1>11, <2>2, <2>3 DEF PopTask
    <3>2. tasks'[t] = "Running" /\ \A u \in Tasks \ {t} : tasks'[u] = tasks[u]
      BY <1>0, <3>1 DEF TypeOK
    <3>3. \A u \in asked : u \in Tasks /\ u # t
      BY <1>0, <2>3 DEF AskedInv, TypeOK
    <3> QED
      BY <1>0, <2>1, <3>1, <3>2, <3>3 DEF AskedInv
  <2>4. CASE tasks[t] # "Queued"
    BY <1>11, <2>1, <2>2, <2>4, <1>a DEF PopTask
  <2> QED
    BY <2>3, <2>4
<1>12. ASSUME NEW w \in Workers, PopEmpty(w)  PROVE AskedInv'
  BY <1>12, <1>a DEF PopEmpty, memory, mutex, history
<1>13. ASSUME NEW w \in Workers, Notified(w)  PROVE AskedInv'
  BY <1>13, <1>a DEF Notified, memory, mutex, history
<1>14. ASSUME NEW w \in Workers, ApplyExecutionEvent(w)  PROVE AskedInv'
  BY <1>14, <1>a DEF ApplyExecutionEvent, PersistOne, memory, history
<1>15. ASSUME NEW w \in Workers, NEW result \in Terminal, NEW artifact \in BOOLEAN,
              FinishTask(w, result, artifact)
       PROVE  AskedInv'
  <2>1. /\ UNCHANGED <<asked, issued>> /\ holder = "free" /\ holder' # "stop"
        /\ worker[w].pc = "exec"
    BY <1>15 DEF FinishTask, PersistAll, Lock, mutex, history
  <2>2. PICK t \in Tasks : worker[w] = [pc |-> "exec", task |-> t]
    BY <2>1, <1>0 DEF ExecInv, WorkerInv, TypeOK
  <2>3. tasks[t] = "Running"
    BY <1>0, <2>2 DEF ExecInv, ExclusiveExecution
  <2>4. /\ tasks' = [tasks EXCEPT ![t] = FinalStatus(t, result)]
        /\ running_cancel' = running_cancel \ {t} /\ cancelled' = cancelled \ {t}
    BY <1>15, <2>2, <2>3 DEF FinishTask, Known
  <2>5. /\ tasks'[t] = FinalStatus(t, result) /\ tasks'[t] # "Running"
        /\ \A u \in Tasks \ {t} : tasks'[u] = tasks[u]
    BY <1>0, <2>4 DEF TypeOK, FinalStatus, Terminal
  <2>6. t \in asked => tasks'[t] \in {"Failed", "Canceled"}
    BY <1>0, <2>3, <2>5 DEF AskedInv, FinalStatus, Terminal
  <2> QED
    BY <1>0, <2>1, <2>4, <2>5, <2>6 DEF AskedInv, TypeOK
<1>16. CASE Crash
  BY <1>16, <1>l DEF Crash, history
<1>17. CASE Restart
  <2>1. asked' = {} /\ holder' = "boot" /\ tasks' = Recovered(dtasks)
    BY <1>17 DEF Restart, PersistAll
  <2>2. \A t \in Tasks : tasks'[t] # "Running"
    BY <2>1 DEF Recovered
  <2> QED
    BY <2>1, <2>2 DEF AskedInv
<1> QED
  BY <1>1, <1>2, <1>3, <1>4, <1>5, <1>6, <1>7, <1>8, <1>9, <1>10, <1>11, <1>12,
     <1>13, <1>14, <1>15, <1>16, <1>17
     DEF Next, Clear, Write, Pop, Finish

\* A running task whose cancellation was acknowledged does not end as
\* Completed: the token finish_task consults is the one cancel_task cancelled.
THEOREM CancelHonoured == Spec => []CancelWins
<1>1. Init => StopInv
  BY StopInit
<1>2. StopInv /\ [Next]_vars => StopInv'
  BY StopStep
<1>3. StopInv => CancelWins
  BY DEF StopInv, AskedInv, CancelWins
<1> QED
  BY <1>1, <1>2, <1>3, PTL DEF Spec

=============================================================================
