-------------------------- MODULE NightQueueProofs --------------------------
(***************************************************************************)
(* Proofs that the safety properties of NightQueue hold for any number of  *)
(* tasks, batches, failures and dying processes.                           *)
(*                                                                         *)
(* The argument, task by task, for those that no operation has misread:    *)
(* what a batch holds nobody else holds, and in the file it is running,    *)
(* canceled or gone, so that no other batch can claim it; what is pending, *)
(* and what a batch still has to do, was never executed.  An operation     *)
(* that has lost its lock breaks this only for the entries in which its    *)
(* document differs from the file.                                         *)
(***************************************************************************)
EXTENDS NightQueue, TLAPS

Recs == [pc : Pcs, todo : SUBSET Ids, cur : Ids \cup {NoTask}, final : Statuses]

HeldIn(r) == (r.todo \cup {r.cur}) \ {NoTask}

\* The locals of one batch agree with the file, where no operation has misread it.
RecOK(r) ==
    /\ r.cur \notin r.todo
    /\ r.pc \in {"idle", "claim", "final", "end", "done"} => r.todo = {} /\ r.cur = NoTask
    /\ r.pc \in {"next", "restore"} => r.cur = NoTask
    /\ r.pc \in {"start", "exec", "gate", "mark", "finish"} => r.cur # NoTask
    /\ \A t \in HeldIn(r) : t <= issued
    /\ \A t \in HeldIn(r) \ misread : status[t] \in {"Running", "Canceled", "Absent"}
    /\ \A t \in r.todo \ misread : runs[t] = 0
    /\ r.pc = "start" /\ r.cur \notin misread => runs[r.cur] = 0
    /\ r.pc \in {"exec", "gate", "mark", "finish"} /\ r.cur \notin misread => runs[r.cur] = 1
    /\ r.pc = "finish" => r.final \in {"Passed", "RolledBack", "Failed"}

BatchInv == \A b \in Batches : RecOK(batch[b])

\* Two batches hold the same task only where the lock has failed.
Disjoint ==
    \A b, c \in Batches : b # c => HeldIn(batch[b]) \cap HeldIn(batch[c]) \subseteq misread

\* What is pending or not issued yet has not been executed.
FileInv ==
    \A t \in Ids : /\ t > issued => status[t] = "Absent" /\ runs[t] = 0
                   /\ status[t] = "Pending" /\ t \notin misread => runs[t] = 0

Lates == [who : Operators, doc : [Ids -> Statuses], by : 0..MaxOvertaken]

\* The late operation has loaded no task that did not exist.
LateOK ==
    /\ late \in Lates
    /\ \A t \in Ids : t > issued => late.doc[t] = "Absent"

Inv == TypeOK /\ BatchInv /\ Disjoint /\ FileInv /\ LateOK /\ RunsOnce /\ RunningHasBatch

\* The variables that the argument does not look at.
EnvOK ==
    /\ reg \in Sidecar \cup {NoBatch} /\ cancelled \subseteq Sidecar
    /\ cancel = NoRequest \/ cancel \in [pc : {"stop", "mark"}, task : Ids]
    /\ stop \in BOOLEAN /\ faults \in 0..MaxFaults

\* What every step does to the late operation and to the history of the file.
RaceOK == LateOK' /\ misread \subseteq misread' /\ misread' \subseteq Ids

LEMMA Bounds ==
    /\ MaxTasks \in Nat /\ MaxFaults \in Nat /\ MaxParallel \in Nat /\ MaxOvertaken \in Nat
    /\ NoTask \notin Ids /\ Ids \subseteq Nat
  BY BoundsAssumption DEF NoTask, Ids

LEMMA HeldFacts == \A b \in Batches : Held(b) = HeldIn(batch[b])
  BY DEF Held, HeldIn

LEMMA TypeParts ==
    TypeOK <=> /\ EnvOK /\ status \in [Ids -> Statuses] /\ issued \in 0..MaxTasks
               /\ batch \in [Batches -> Recs] /\ runs \in [Ids -> Nat] /\ abandoned \subseteq Ids
               /\ late \in Lates /\ misread \subseteq Ids
  BY DEF TypeOK, EnvOK, Recs, Lates

LEMMA LocalsFacts ==
    \A pc \in Pcs : /\ Locals(pc) \in Recs /\ HeldIn(Locals(pc)) = {}
                    /\ Locals(pc).pc = pc /\ Locals(pc).todo = {} /\ Locals(pc).cur = NoTask
  BY DEF Locals, Recs, HeldIn, NoTask, Statuses

\* A batch that holds nothing is in order, whatever the file says.
LEMMA EmptyOK ==
    \A pc \in {"idle", "end", "done"} : RecOK(Locals(pc)) /\ RecOK(Locals(pc))'
  BY DEF RecOK, Locals, HeldIn, NoTask

LEMMA EmptyFacts ==
    /\ Empty \in [Ids -> Statuses] /\ \A t \in Ids : Empty[t] = "Absent"
    /\ NoLate \in Lates /\ NoLate.doc = Empty
  BY Bounds DEF Empty, NoLate, Statuses, Lates, Operators

LEMMA InvInit == Init => Inv
<1> SUFFICES ASSUME Init  PROVE Inv
  OBVIOUS
<1> USE Bounds
<1>1. batch \in [Batches -> Recs] /\ \A b \in Batches : batch[b] = Locals("idle")
  BY LocalsFacts DEF Init, Pcs
<1>2. EnvOK
  <2>1. 0 \in 0..MaxFaults
    OBVIOUS
  <2> QED
    BY <2>1 DEF Init, EnvOK
<1>3. LateOK /\ misread = {}
  BY EmptyFacts DEF Init, LateOK
<1>4. TypeOK
  BY <1>1, <1>2, <1>3, TypeParts DEF Init, Statuses, LateOK
<1>5. BatchInv
  BY <1>1, EmptyOK DEF BatchInv
<1>6. Disjoint
  BY <1>1, LocalsFacts DEF Disjoint, Pcs
<1>7. FileInv /\ RunsOnce /\ RunningHasBatch
  BY DEF Init, FileInv, RunsOnce, RunningHasBatch
<1> QED
  BY <1>3, <1>4, <1>5, <1>6, <1>7 DEF Inv

-----------------------------------------------------------------------------
(* The store: what an operation has loaded agrees with the file in the     *)
(* entries that it does not add to `misread`.                              *)

LEMMA LoadedFacts ==
    ASSUME Inv, NEW who
    PROVE  /\ Loaded(who) \in [Ids -> Statuses]
           /\ \A t \in Ids : t > issued => Loaded(who)[t] = "Absent"
  BY DEF Inv, TypeOK, FileInv, LateOK, Lates, Loaded

LEMMA OverFacts ==
    ASSUME Inv, NEW W, Over(W), UNCHANGED <<issued, misread>>
    PROVE  RaceOK
<1>1. late' \in {late, NoLate}
  BY DEF Over
<1> QED
  BY <1>1, EmptyFacts, Bounds DEF Inv, TypeOK, LateOK, RaceOK

LEMMA GoByFacts ==
    ASSUME Inv, NEW who, GoBy(who), late' \in Lates, late'.doc \in {late.doc, Empty},
           issued' \in {issued, issued + 1}
    PROVE  RaceOK /\ \A t \in Ids \ misread' : Loaded(who)[t] = status[t]
<1>1. misread \subseteq misread' /\ misread' \subseteq Ids
  BY DEF Inv, TypeOK, GoBy
<1>2. LateOK'
  <2>1. \A t \in Ids : t > issued' => t > issued
    BY Bounds DEF Inv, TypeOK
  <2> QED
    BY <2>1, EmptyFacts DEF Inv, LateOK
<1> QED
  BY <1>1, <1>2 DEF RaceOK, GoBy

LEMMA SaveFacts ==
    ASSUME Inv, NEW who, NEW doc, Save(who, doc), issued' \in {issued, issued + 1}
    PROVE  /\ RaceOK /\ status' = doc
           /\ \A t \in Ids \ misread' : Loaded(who)[t] = status[t]
<1>1. late' \in Lates /\ late'.doc \in {late.doc, Empty}
  <2>1. CASE Over({who})
    <3>1. late' \in {late, NoLate}
      BY <2>1 DEF Over
    <3> QED
      BY <3>1, EmptyFacts DEF Inv, LateOK
  <2>2. CASE late.by < MaxOvertaken /\ late' = [late EXCEPT !.by = @ + 1]
    BY <2>2, Bounds DEF Inv, LateOK, Lates
  <2> QED
    BY <2>1, <2>2 DEF Save
<1> QED
  BY <1>1, GoByFacts DEF Save

LEMMA ReturnFacts ==
    ASSUME Inv, NEW who, Return(who), issued' = issued
    PROVE  /\ RaceOK /\ status' = status
           /\ \A t \in Ids \ misread' : Loaded(who)[t] = status[t]
<1>1. late' \in {late, NoLate}
  BY DEF Return, Over
<1>2. late' \in Lates /\ late'.doc \in {late.doc, Empty}
  BY <1>1, EmptyFacts DEF Inv, LateOK
<1> QED
  BY <1>2, GoByFacts DEF Return

LEMMA CalmFacts == ASSUME Inv, UNCHANGED <<issued, race>> PROVE RaceOK
  BY DEF Inv, TypeOK, LateOK, RaceOK, race

-----------------------------------------------------------------------------
\* What a step does to a finished task.
Stays ==
    \A t \in Ids \ misread' : status[t] \in Finished => status'[t] \in {status[t], "Absent"}

\* What an edit may do to an entry that it has not misread.
Edited ==
    \A t \in Ids \ misread' : \/ status'[t] \in {status[t], "Absent"}
                              \/ status'[t] = "Canceled" /\ status[t] \in {"Pending", "Running"}

\* Steps that edit the file and leave the batches alone.
LEMMA EditFrame ==
    ASSUME Inv, EnvOK', RaceOK, UNCHANGED <<issued, batch, runs, abandoned>>,
           status' \in [Ids -> Statuses], Edited,
           \A t \in Ids : t > issued => status'[t] = "Absent"
    PROVE  Inv' /\ Stays
<1> USE Bounds
<1>0. Ids \ misread' \subseteq Ids \ misread
  BY DEF RaceOK
<1>1. TypeOK'
  BY TypeParts DEF Inv, TypeOK, EnvOK, RaceOK, LateOK, Lates
<1>2. \A r \in Recs : RecOK(r) => RecOK(r)'
  <2> SUFFICES ASSUME NEW r \in Recs, RecOK(r)  PROVE RecOK(r)'
    OBVIOUS
  <2>1. HeldIn(r) \subseteq Ids /\ r.todo \subseteq Ids /\ (r.cur # NoTask => r.cur \in Ids)
    BY DEF HeldIn, Recs
  <2>2. \A t \in HeldIn(r) \ misread' : status'[t] \in {"Running", "Canceled", "Absent"}
    BY <1>0, <2>1 DEF RecOK, Edited
  <2> QED
    BY <1>0, <2>1, <2>2 DEF RecOK
<1>3. BatchInv' /\ Disjoint'
  <2>1. misread \subseteq misread'
    BY DEF RaceOK
  <2>2. BatchInv'
    BY <1>2 DEF Inv, BatchInv, TypeOK, Recs
  <2>3. Disjoint'
    BY <2>1 DEF Inv, Disjoint
  <2> QED
    BY <2>2, <2>3
<1>4. FileInv' /\ RunsOnce' /\ LateOK'
  BY <1>0 DEF Inv, FileInv, RunsOnce, RaceOK, Edited
<1>5. RunningHasBatch'
  BY <1>0 DEF Inv, RunningHasBatch, Held, Edited
<1> QED
  BY <1>1, <1>3, <1>4, <1>5 DEF Inv, Stays, Edited, Finished

\* A step of one batch: it may only give up what it holds, and what it gives up
\* is not left running unless the batch was cut off.
LEMMA BatchFrame ==
    ASSUME Inv, EnvOK', RaceOK, NEW b \in Batches, NEW r \in Recs,
           batch' = [batch EXCEPT ![b] = r],
           HeldIn(r) \subseteq HeldIn(batch[b]), RecOK(r)',
           issued' = issued,
           status' \in [Ids -> Statuses], runs' \in [Ids -> Nat],
           abandoned \subseteq abandoned', abandoned' \subseteq Ids,
           \A t \in Ids \ HeldIn(batch[b]) :
                /\ runs'[t] = runs[t]
                /\ t \notin misread' => status'[t] \in {status[t], "Absent"},
           \A t \in Ids : t > issued => status'[t] = "Absent",
           \A t \in HeldIn(batch[b]) \ misread' :
                /\ runs'[t] <= 1
                /\ status'[t] = "Pending" => runs'[t] = 0
                /\ status'[t] \in {"Passed", "Failed", "RolledBack"} => runs'[t] = 1
                /\ status'[t] = "Running" => t \in HeldIn(r) \cup abandoned'
    PROVE  Inv'
<1> USE Bounds
<1>0. /\ batch \in [Batches -> Recs] /\ BatchInv /\ Disjoint /\ FileInv /\ RunsOnce
      /\ RunningHasBatch /\ issued \in 0..MaxTasks
      /\ misread \subseteq misread' /\ LateOK' /\ misread' \subseteq Ids
  BY TypeParts DEF Inv, RaceOK
<1>1. TypeOK'
  <2>1. batch' \in [Batches -> Recs] /\ issued' \in 0..MaxTasks
    BY <1>0
  <2> QED
    BY <1>0, <2>1 DEF TypeOK, EnvOK, Recs, LateOK, Lates
<1>2. batch'[b] = r /\ \A c \in Batches \ {b} : batch'[c] = batch[c]
  BY <1>0
<1>3. BatchInv'
  <2>1. ASSUME NEW c \in Batches \ {b}  PROVE RecOK(batch[c])'
    <3>1. batch[c] \in Recs /\ HeldIn(batch[c]) \subseteq Ids
      BY <1>0 DEF HeldIn, Recs
    <3>2. RecOK(batch[c]) /\ batch'[c] = batch[c]
      BY <1>0, <1>2 DEF BatchInv
    <3>3. \A t \in HeldIn(batch[c]) \ misread' :
            /\ t \notin misread
            /\ status'[t] \in {status[t], "Absent"} /\ runs'[t] = runs[t]
      BY <1>0, <3>1 DEF Disjoint
    <3>4. batch[c].cur # NoTask => batch[c].cur \in HeldIn(batch[c])
      BY DEF HeldIn
    <3>5. batch[c].todo \subseteq HeldIn(batch[c])
      BY <3>1 DEF HeldIn, Recs, NoTask
    <3> QED
      BY <3>1, <3>2, <3>3, <3>4, <3>5 DEF RecOK
  <2> QED
    BY <1>2, <2>1 DEF BatchInv
<1>4. Disjoint'
  BY <1>0, <1>2 DEF Disjoint
<1>5. HeldIn(batch[b]) \subseteq Ids /\ \A t \in HeldIn(batch[b]) : t <= issued
  BY <1>0 DEF BatchInv, RecOK, HeldIn, Recs
<1>6. FileInv'
  BY <1>0, <1>5 DEF FileInv
<1>7. RunsOnce'
  BY <1>0, <1>5 DEF RunsOnce
<1>8. RunningHasBatch'
  <2> SUFFICES ASSUME NEW t \in Ids \ misread', status'[t] = "Running", t \notin abandoned'
               PROVE  \E c \in Batches : t \in HeldIn(batch'[c])
    BY DEF RunningHasBatch, Held, HeldIn
  <2>1. CASE t \in HeldIn(batch[b])
    BY <2>1, <1>2
  <2>2. CASE t \notin HeldIn(batch[b])
    <3>1. status[t] = "Running" /\ t \notin abandoned /\ t \notin misread
      BY <1>0, <2>2
    <3>2. PICK c \in Batches : t \in HeldIn(batch[c])
      BY <3>1, <1>0, HeldFacts DEF RunningHasBatch
    <3> QED
      BY <3>2, <2>2, <1>2
  <2> QED
    BY <2>1, <2>2
<1> QED
  BY <1>0, <1>1, <1>3, <1>4, <1>6, <1>7, <1>8 DEF Inv

-----------------------------------------------------------------------------
\* What is known of a batch before its step.
LEMMA Before ==
    ASSUME Inv, NEW b \in Batches
    PROVE  /\ batch[b] \in Recs /\ RecOK(batch[b])
           /\ HeldIn(batch[b]) \subseteq Ids /\ batch[b].todo \subseteq HeldIn(batch[b])
           /\ batch[b].cur # NoTask =>
                batch[b].cur \in HeldIn(batch[b]) /\ batch[b].cur \in Ids
           /\ \A t \in HeldIn(batch[b]) : runs[t] \in Nat /\ t <= issued
           /\ \A t \in HeldIn(batch[b]) \ misread :
                status[t] \in {"Running", "Canceled", "Absent"}
           /\ status \in [Ids -> Statuses] /\ runs \in [Ids -> Nat] /\ abandoned \subseteq Ids
           /\ batch \in [Batches -> Recs] /\ RunsOnce /\ FileInv
<1> USE Bounds
<1>1. batch \in [Batches -> Recs] /\ RecOK(batch[b]) /\ RunsOnce /\ FileInv
  BY TypeParts DEF Inv, BatchInv
<1>2. status \in [Ids -> Statuses] /\ runs \in [Ids -> Nat] /\ abandoned \subseteq Ids
  BY DEF Inv, TypeOK
<1>3. batch[b] \in Recs
  BY <1>1
<1>4. HeldIn(batch[b]) \subseteq Ids /\ batch[b].todo \subseteq HeldIn(batch[b])
  BY <1>3 DEF HeldIn, Recs
<1>5. batch[b].cur # NoTask => batch[b].cur \in HeldIn(batch[b]) /\ batch[b].cur \in Ids
  BY <1>3 DEF HeldIn, Recs
<1>6. /\ \A t \in HeldIn(batch[b]) : runs[t] \in Nat /\ t <= issued
      /\ \A t \in HeldIn(batch[b]) \ misread :
            status[t] \in {"Running", "Canceled", "Absent"}
  BY <1>1, <1>2, <1>4 DEF RecOK
<1> QED
  BY <1>1, <1>2, <1>3, <1>4, <1>5, <1>6

\* Steps that move one batch on and leave the file alone.
LEMMA MoveStep ==
    ASSUME Inv, EnvOK', RaceOK, NEW b \in Batches, NEW r \in Recs,
           batch' = [batch EXCEPT ![b] = r],
           HeldIn(r) \subseteq HeldIn(batch[b]), RecOK(r),
           abandoned \subseteq abandoned', abandoned' \subseteq Ids,
           HeldIn(batch[b]) \subseteq HeldIn(r) \cup abandoned',
           UNCHANGED <<file, misread, runs>>
    PROVE  Inv'
<1>1. UNCHANGED <<status, issued, runs, misread>>
  BY DEF file
<1>2. RecOK(r)'
  BY <1>1 DEF RecOK
<1>3. \A t \in HeldIn(batch[b]) \ misread' :
        /\ runs'[t] <= 1
        /\ status'[t] = "Pending" => runs'[t] = 0
        /\ status'[t] \in {"Passed", "Failed", "RolledBack"} => runs'[t] = 1
        /\ status'[t] = "Running" => t \in HeldIn(r) \cup abandoned'
  BY <1>1, Before DEF RunsOnce
<1>4. \A t \in Ids : t > issued => status'[t] = "Absent"
  BY <1>1, Before DEF FileInv
<1> QED
  BY <1>1, <1>2, <1>3, <1>4, Before, BatchFrame

\* Batches that are cut off, with the file as it was or emptied.
LEMMA LeaveStep ==
    ASSUME Inv, EnvOK', RaceOK, NEW B \in SUBSET Batches, NEW pc \in {"end", "done"},
           Leave(B, pc), UNCHANGED <<issued, runs>>, status' \in {status, Empty}
    PROVE  Inv' /\ Stays
<1> USE Bounds
<1>0. LateOK' /\ misread \subseteq misread' /\ misread' \subseteq Ids
  BY DEF RaceOK
<1>1. /\ batch' \in [Batches -> Recs]
      /\ \A b \in B : batch'[b] = Locals(pc) /\ HeldIn(batch'[b]) = {}
      /\ \A b \in Batches \ B : batch'[b] = batch[b]
  BY LocalsFacts, TypeParts DEF Leave, Inv, Pcs
<1>2. abandoned' = abandoned \cup UNION {Held(b) : b \in B} /\ abandoned' \subseteq Ids
  <2>1. \A b \in B : Held(b) \subseteq Ids
    BY Before, HeldFacts
  <2>2. abandoned \subseteq Ids
    BY DEF Inv, TypeOK
  <2> QED
    BY <2>1, <2>2 DEF Leave
<1>3. /\ status' \in [Ids -> Statuses]
      /\ \A t \in Ids : status'[t] \in {status[t], "Absent"}
  BY EmptyFacts DEF Inv, TypeOK
<1>4. TypeOK'
  BY <1>0, <1>1, <1>2, <1>3 DEF Inv, TypeOK, EnvOK, Recs, LateOK, Lates
<1>5. RecOK(Locals(pc))'
  BY EmptyOK
<1>6. \A b \in Batches : RecOK(batch[b])'
  <2>1. ASSUME NEW b \in Batches \ B  PROVE RecOK(batch[b])'
    <3>1. RecOK(batch[b]) /\ batch'[b] = batch[b] /\ batch[b] \in Recs
      BY <1>1, Before
    <3>2. HeldIn(batch[b]) \subseteq Ids
      BY Before
    <3> QED
      BY <1>0, <3>1, <3>2, <1>3 DEF RecOK
  <2>2. ASSUME NEW b \in B  PROVE RecOK(batch[b])'
    BY <1>1, <2>2, <1>5
  <2> QED
    BY <2>1, <2>2
<1>7. BatchInv'
  BY <1>6 DEF BatchInv
<1>8. Disjoint'
  BY <1>0, <1>1 DEF Disjoint, Inv
<1>9. FileInv' /\ RunsOnce' /\ Stays
  BY <1>0, <1>3 DEF Inv, FileInv, RunsOnce, Stays
<1>10. RunningHasBatch'
  BY <1>0, <1>1, <1>2, <1>3, HeldFacts DEF Inv, RunningHasBatch, Held, HeldIn
<1> QED
  BY <1>0, <1>4, <1>7, <1>8, <1>9, <1>10 DEF Inv

-----------------------------------------------------------------------------
(* One lemma per kind of step of a batch. *)

LEMMA EnvFacts ==
    ASSUME Inv
    PROVE  /\ EnvOK
           /\ RequestStop /\ UNCHANGED <<reg, cancel, stop, faults>> => EnvOK'
  BY TypeParts DEF Inv, RequestStop, EnvOK

LEMMA GotoFacts ==
    ASSUME NEW r \in Recs, NEW pc \in Pcs
    PROVE  LET q == [r EXCEPT !.pc = pc]
           IN  /\ q \in Recs /\ HeldIn(q) = HeldIn(r)
               /\ q.pc = pc /\ q.todo = r.todo /\ q.cur = r.cur /\ q.final = r.final
  BY DEF Recs, HeldIn

LEMMA AfterLoopFacts ==
    ASSUME Inv, NEW b \in Batches
    PROVE  \/ AfterLoop(b) = "final" /\ batch[b].todo = {}
           \/ AfterLoop(b) = "restore"
  BY DEF AfterLoop

\* Steps that only change the program counter.
LEMMA GotoStep ==
    ASSUME Inv, EnvOK', NEW b \in Batches, NEW pc \in Pcs, Goto(b, pc),
           \/ batch[b].pc = "idle" /\ pc = "claim"
           \/ batch[b].pc = "next" /\ pc = "restore"
           \/ batch[b].pc = "next" /\ pc = "final" /\ batch[b].todo = {}
           \/ batch[b].pc = "exec" /\ pc \in {"gate", "mark"}
           \/ batch[b].pc = "gate" /\ pc = "mark"
           \/ batch[b].pc = "end" /\ pc = "done",
           UNCHANGED <<file, race, runs, abandoned>>
    PROVE  Inv' /\ Stays
<1> DEFINE q == [batch[b] EXCEPT !.pc = pc]
<1>0. UNCHANGED <<status, issued, misread>> /\ RaceOK
  BY CalmFacts DEF file, race
<1>1. /\ q \in Recs /\ HeldIn(q) = HeldIn(batch[b])
      /\ q.pc = pc /\ q.todo = batch[b].todo /\ q.cur = batch[b].cur
  BY Before, GotoFacts
<1>2. batch' = [batch EXCEPT ![b] = q]
  BY DEF Goto
<1> HIDE DEF q
<1>3. RecOK(q)
  BY <1>1, Before DEF RecOK
<1>4. abandoned' \subseteq Ids /\ abandoned \subseteq abandoned'
  BY Before
<1>5. Stays
  BY <1>0 DEF Stays
<1> QED
  BY <1>0, <1>1, <1>2, <1>3, <1>4, <1>5, MoveStep

LEMMA NextTaskStep ==
    ASSUME Inv, NEW b \in Batches, NextTask(b)
    PROVE  Inv' /\ Stays
<1>0. EnvOK' /\ UNCHANGED <<file, race, runs, abandoned>> /\ batch[b].pc = "next"
  BY EnvFacts DEF NextTask, EnvOK, api, hist
<1>1. CASE Goto(b, AfterLoop(b))
  BY <1>0, <1>1, AfterLoopFacts, GotoStep DEF Pcs
<1>2. CASE ~Goto(b, AfterLoop(b))
  <2>1. PICK t \in batch[b].todo :
          batch' = [batch EXCEPT ![b].pc = "start", ![b].cur = t, ![b].todo = @ \ {t}]
    BY <1>2 DEF NextTask
  <2> DEFINE q == [pc |-> "start", todo |-> batch[b].todo \ {t}, cur |-> t,
                   final |-> batch[b].final]
  <2>2. batch[b] \in Recs /\ t \in Ids /\ RecOK(batch[b])
    BY Before DEF Recs
  <2>3. batch' = [batch EXCEPT ![b] = q]
    BY <2>1, <2>2, Before DEF Recs
  <2>4. q \in Recs /\ HeldIn(q) = HeldIn(batch[b])
    BY <1>0, <2>2, Bounds DEF Recs, Pcs, HeldIn, RecOK
  <2>5. RecOK(q)
    BY <1>0, <2>2, <2>4, Bounds DEF RecOK
  <2> HIDE DEF q
  <2>6. UNCHANGED <<status, issued, misread>> /\ RaceOK
    BY <1>0, CalmFacts DEF file, race
  <2>7. Stays
    BY <2>6 DEF Stays
  <2> QED
    BY <1>0, <2>3, <2>4, <2>5, <2>6, <2>7, Before, MoveStep
<1> QED
  BY <1>1, <1>2

\* The verdict is decided, or the execution failed.
LEMMA VerdictStep ==
    ASSUME Inv, EnvOK', NEW b \in Batches, NEW s \in {"Passed", "RolledBack", "Failed"},
           batch[b].pc \in {"exec", "gate"},
           batch' = [batch EXCEPT ![b].pc = "finish", ![b].final = s],
           UNCHANGED <<file, race, runs, abandoned>>
    PROVE  Inv' /\ Stays
<1> DEFINE q == [batch[b] EXCEPT !.pc = "finish", !.final = s]
<1>1. batch[b] \in Recs /\ RecOK(batch[b])
  BY Before
<1>2. batch' = [batch EXCEPT ![b] = q]
  BY Before
<1>3. q \in Recs /\ HeldIn(q) = HeldIn(batch[b])
  BY <1>1 DEF Recs, Pcs, HeldIn, Statuses, Finished
<1>4. RecOK(q)
  BY <1>1, <1>3 DEF RecOK
<1> HIDE DEF q
<1>5. UNCHANGED <<status, issued, misread>> /\ RaceOK
  BY CalmFacts DEF file, race
<1>6. Stays
  BY <1>5 DEF Stays
<1> QED
  BY <1>2, <1>3, <1>4, <1>5, <1>6, Before, MoveStep

\* mark_canceled, or its error that is ignored, ends the work on the task.
LEMMA MarkStep ==
    ASSUME Inv, EnvOK', RaceOK, NEW b \in Batches, batch[b].pc = "mark",
           batch' = [batch EXCEPT ![b].pc = AfterLoop(b), ![b].cur = NoTask],
           UNCHANGED <<issued, runs>>, status' \in [Ids -> Statuses],
           \A t \in Ids : t > issued => status'[t] = "Absent",
           \A t \in Ids \ misread' :
                \/ status'[t] \in {status[t], "Absent"}
                \/ t = batch[b].cur /\ status'[t] = "Canceled",
           batch[b].cur \notin misread' /\ status'[batch[b].cur] = "Running" =>
                batch[b].cur \in abandoned',
           abandoned' \in {abandoned, abandoned \cup {batch[b].cur}}
    PROVE  Inv'
<1>a. batch[b] \in Recs /\ RecOK(batch[b]) /\ misread \subseteq misread'
  BY Before DEF RaceOK
<1>b. PICK t \in Ids : t = batch[b].cur
  BY <1>a, Before DEF RecOK
<1>c. PICK q \in Recs : q = [batch[b] EXCEPT !.pc = AfterLoop(b), !.cur = NoTask]
  BY <1>a, AfterLoopFacts DEF Recs, Pcs
<1>1. t \in HeldIn(batch[b]) /\ t \notin batch[b].todo
  BY <1>a, <1>b, Before DEF RecOK
<1>2. batch' = [batch EXCEPT ![b] = q]
  BY <1>c, Before
<1>3. /\ HeldIn(q) = HeldIn(batch[b]) \ {t}
      /\ q.pc \in {"restore", "final"} /\ (q.pc = "final" => batch[b].todo = {})
      /\ q.todo = batch[b].todo /\ q.cur = NoTask
  BY <1>a, <1>b, <1>c, <1>1, AfterLoopFacts, Bounds DEF Recs, Pcs, HeldIn
<1>4. RecOK(q)'
  <2>1. \A u \in HeldIn(q) : u \in HeldIn(batch[b]) /\ u # t /\ u \in Ids
    BY <1>3, Before
  <2>2. NoTask \notin q.todo
    BY Bounds DEF Recs
  <2>3. \A u \in HeldIn(q) : u <= issued'
    BY <1>a, <2>1 DEF RecOK
  <2>4. \A u \in HeldIn(q) \ misread' : status'[u] \in {"Running", "Canceled", "Absent"}
    BY <1>a, <1>b, <2>1 DEF RecOK
  <2>5. \A u \in q.todo \ misread' : runs'[u] = 0
    BY <1>a, <1>3 DEF RecOK
  <2> QED
    BY <1>3, <2>2, <2>3, <2>4, <2>5 DEF RecOK
<1>5. \A u \in HeldIn(batch[b]) \ misread' :
        /\ runs'[u] <= 1
        /\ status'[u] = "Pending" => runs'[u] = 0
        /\ status'[u] \in {"Passed", "Failed", "RolledBack"} => runs'[u] = 1
        /\ status'[u] = "Running" => u \in HeldIn(q) \cup abandoned'
  BY <1>a, <1>b, <1>3, Before DEF RunsOnce
<1>6. abandoned \subseteq abandoned' /\ abandoned' \subseteq Ids
  BY <1>b, Before
<1>7. /\ \A u \in Ids \ HeldIn(batch[b]) :
            runs'[u] = runs[u] /\ (u \notin misread' => status'[u] \in {status[u], "Absent"})
      /\ HeldIn(q) \subseteq HeldIn(batch[b]) /\ runs' \in [Ids -> Nat] /\ issued' = issued
  BY <1>b, <1>1, <1>3, Before
<1> QED
  BY <1>2, <1>4, <1>5, <1>6, <1>7, BatchFrame

\* What persist_task leaves of an entry that the document holds.
LEMMA PersistFacts ==
    ASSUME Inv, NEW b \in Batches, NEW t \in Ids, NEW s \in Statuses, Persist(b, t, s),
           Loaded(b)[t] # "Absent", issued' = issued
    PROVE  /\ RaceOK /\ status' \in [Ids -> Statuses]
           /\ \A u \in Ids : u > issued => status'[u] = "Absent"
           /\ \A u \in Ids \ misread' : u # t => status'[u] = status[u]
           /\ t \notin misread' =>
                /\ status[t] # "Absent"
                /\ status'[t] = IF status[t] = "Canceled" THEN status[t] ELSE s
<1>0. Loaded(b) \in [Ids -> Statuses] /\ \A u \in Ids : u > issued => Loaded(b)[u] = "Absent"
  BY LoadedFacts
<1>1. CASE Loaded(b)[t] = "Canceled"
  <2>1. /\ RaceOK /\ status' = status
        /\ \A u \in Ids \ misread' : Loaded(b)[u] = status[u]
    BY <1>1, ReturnFacts DEF Persist, Protected
  <2> QED
    BY <1>1, <2>1 DEF Inv, TypeOK, FileInv
<1>2. CASE Loaded(b)[t] # "Canceled"
  <2>1. Save(b, [Loaded(b) EXCEPT ![t] = s])
    BY <1>2 DEF Persist, Protected
  <2>2. /\ RaceOK /\ status' = [Loaded(b) EXCEPT ![t] = s]
        /\ \A u \in Ids \ misread' : Loaded(b)[u] = status[u]
    BY <2>1, SaveFacts
  <2> QED
    BY <1>0, <1>2, <2>2
<1> QED
  BY <1>1, <1>2

\* A batch that finds its task gone leaves the loop.
LEMMA AbortStep ==
    ASSUME Inv, EnvOK', NEW b \in Batches, Abort(b), Return(b), UNCHANGED <<issued, runs>>
    PROVE  Inv' /\ Stays
<1>1. RaceOK /\ status' = status
  BY ReturnFacts
<1>2. {b} \in SUBSET Batches /\ Leave({b}, "end")
  BY DEF Abort
<1> QED
  BY <1>1, <1>2, LeaveStep

\* The agent begins: the task was never executed before.
LEMMA StartStep ==
    ASSUME Inv, NEW b \in Batches, Start(b)
    PROVE  Inv' /\ Stays
<1>0. EnvOK' /\ issued' = issued
  BY EnvFacts DEF Start, EnvOK, api
<1>a. batch[b] \in Recs /\ RecOK(batch[b]) /\ batch[b].pc = "start"
  BY Before DEF Start
<1>b. PICK t \in Ids : t = batch[b].cur
  BY <1>a, Before DEF RecOK
<1>1. CASE Loaded(b)[t] = "Absent"
  BY <1>0, <1>b, <1>1, AbortStep DEF Start
<1>2. CASE Loaded(b)[t] # "Absent"
  <2>1. /\ Persist(b, t, "Running") /\ runs' = [runs EXCEPT ![t] = @ + 1]
        /\ Goto(b, "exec") /\ UNCHANGED abandoned
    BY <1>b, <1>2 DEF Start
  <2>2. PICK q \in Recs : q = [batch[b] EXCEPT !.pc = "exec"]
    BY <1>a DEF Recs, Pcs
  <2>3. /\ HeldIn(q) = HeldIn(batch[b]) /\ t \in HeldIn(batch[b]) /\ t \notin batch[b].todo
        /\ q.pc = "exec" /\ q.todo = batch[b].todo /\ q.cur = t
    BY <1>a, <1>b, <2>2, Before DEF Recs, HeldIn, RecOK
  <2>4. batch' = [batch EXCEPT ![b] = q]
    BY <2>1, <2>2, Before DEF Goto
  <2>5. /\ RaceOK /\ status' \in [Ids -> Statuses]
        /\ \A u \in Ids : u > issued => status'[u] = "Absent"
        /\ \A u \in Ids \ misread' : u # t => status'[u] = status[u]
        /\ t \notin misread' =>
            /\ status[t] # "Absent"
            /\ status'[t] = IF status[t] = "Canceled" THEN status[t] ELSE "Running"
    BY <1>0, <1>2, <2>1, PersistFacts DEF Statuses
  <2>6. misread \subseteq misread'
    BY <2>5 DEF RaceOK
  <2>7. t \notin misread' => /\ runs[t] = 0 /\ status[t] \in {"Running", "Canceled"}
                            /\ status'[t] \in {"Running", "Canceled"}
                            /\ (status[t] = "Canceled" => status'[t] = status[t])
    BY <1>a, <1>b, <2>3, <2>5, <2>6 DEF RecOK
  <2>8. /\ runs' \in [Ids -> Nat] /\ runs'[t] = runs[t] + 1
        /\ \A u \in Ids \ {t} : runs'[u] = runs[u]
    BY <2>1, Before
  <2>9. RecOK(q)'
    <3>1. \A u \in q.todo \ misread' : runs'[u] = 0
      BY <1>a, <2>3, <2>6, <2>8, Before DEF RecOK
    <3>2. \A u \in HeldIn(q) : u <= issued'
      BY <1>0, <2>3, Before
    <3>3. \A u \in HeldIn(q) \ misread' : status'[u] \in {"Running", "Canceled", "Absent"}
      BY <2>3, <2>5, <2>6, <2>7, Before
    <3> QED
      BY <1>b, <2>3, <2>7, <2>8, <3>1, <3>2, <3>3, Bounds DEF RecOK
  <2>10. \A u \in HeldIn(batch[b]) \ misread' :
          /\ runs'[u] <= 1
          /\ status'[u] = "Pending" => runs'[u] = 0
          /\ status'[u] \in {"Passed", "Failed", "RolledBack"} => runs'[u] = 1
          /\ status'[u] = "Running" => u \in HeldIn(q) \cup abandoned'
    BY <2>3, <2>5, <2>6, <2>7, <2>8, Before DEF RunsOnce
  <2>11. /\ \A u \in Ids \ HeldIn(batch[b]) :
                /\ runs'[u] = runs[u]
                /\ u \notin misread' => status'[u] \in {status[u], "Absent"}
         /\ HeldIn(q) \subseteq HeldIn(batch[b])
         /\ abandoned \subseteq abandoned' /\ abandoned' \subseteq Ids
    BY <2>1, <2>3, <2>5, <2>8, Before
  <2>12. Inv'
    BY <1>0, <2>4, <2>5, <2>8, <2>9, <2>10, <2>11, BatchFrame
  <2>13. Stays
    BY <2>5, <2>7 DEF Stays, Finished
  <2> QED
    BY <2>12, <2>13
<1> QED
  BY <1>1, <1>2

\* The verdict reaches the file unless a user has canceled the task.
LEMMA FinishStep ==
    ASSUME Inv, NEW b \in Batches, Finish(b)
    PROVE  Inv' /\ Stays
<1>0. EnvOK' /\ UNCHANGED <<issued, runs>>
  BY EnvFacts DEF Finish, EnvOK, api
<1>a. batch[b] \in Recs /\ RecOK(batch[b]) /\ batch[b].pc = "finish"
  BY Before DEF Finish
<1>b. PICK t \in Ids : t = batch[b].cur
  BY <1>a, Before DEF RecOK
<1>1. CASE Loaded(b)[t] = "Absent"
  BY <1>0, <1>b, <1>1, AbortStep DEF Finish
<1>2. CASE Loaded(b)[t] # "Absent"
  <2>1. /\ Persist(b, t, batch[b].final)
        /\ batch' = [batch EXCEPT ![b] = [Locals("next") EXCEPT !.todo = batch[b].todo]]
        /\ UNCHANGED abandoned
    BY <1>b, <1>2 DEF Finish
  <2>2. PICK q \in Recs : q = [Locals("next") EXCEPT !.todo = batch[b].todo]
    BY <1>a DEF Recs, Pcs, Locals, Statuses
  <2>3. /\ HeldIn(q) = HeldIn(batch[b]) \ {t} /\ t \in HeldIn(batch[b])
        /\ q.pc = "next" /\ q.todo = batch[b].todo /\ q.cur = NoTask
    BY <1>a, <1>b, <2>2, Before, Bounds DEF Recs, HeldIn, RecOK, Locals
  <2>4. batch[b].final \in {"Passed", "RolledBack", "Failed"}
    BY <1>a, <1>b DEF RecOK
  <2>5. /\ RaceOK /\ status' \in [Ids -> Statuses]
        /\ \A u \in Ids : u > issued => status'[u] = "Absent"
        /\ \A u \in Ids \ misread' : u # t => status'[u] = status[u]
        /\ t \notin misread' =>
            /\ status[t] # "Absent"
            /\ status'[t] = IF status[t] = "Canceled" THEN status[t] ELSE batch[b].final
    BY <1>0, <1>2, <2>1, <2>4, PersistFacts DEF Statuses, Finished
  <2>6. misread \subseteq misread'
    BY <2>5 DEF RaceOK
  <2>7. t \notin misread' => /\ runs[t] = 1 /\ status[t] \in {"Running", "Canceled"}
                            /\ status'[t] \in {"Passed", "RolledBack", "Failed", "Canceled"}
                            /\ (status[t] = "Canceled" => status'[t] = status[t])
    BY <1>a, <1>b, <2>3, <2>4, <2>5, <2>6 DEF RecOK
  <2>8. RecOK(q)'
    <3>1. \A u \in q.todo \ misread' : runs'[u] = 0
      BY <1>a, <1>0, <2>3, <2>6 DEF RecOK
    <3>2. \A u \in HeldIn(q) : u <= issued'
      BY <1>0, <2>3, Before
    <3>3. \A u \in HeldIn(q) \ misread' : status'[u] \in {"Running", "Canceled", "Absent"}
      BY <2>3, <2>5, <2>6, Before
    <3>4. NoTask \notin q.todo
      BY Bounds DEF Recs
    <3> QED
      BY <2>3, <3>1, <3>2, <3>3, <3>4 DEF RecOK
  <2>9. \A u \in HeldIn(batch[b]) \ misread' :
          /\ runs'[u] <= 1
          /\ status'[u] = "Pending" => runs'[u] = 0
          /\ status'[u] \in {"Passed", "Failed", "RolledBack"} => runs'[u] = 1
          /\ status'[u] = "Running" => u \in HeldIn(q) \cup abandoned'
    BY <1>0, <2>3, <2>5, <2>6, <2>7, Before DEF RunsOnce
  <2>10. batch' = [batch EXCEPT ![b] = q]
    BY <2>1, <2>2
  <2>11. /\ \A u \in Ids \ HeldIn(batch[b]) :
                /\ runs'[u] = runs[u]
                /\ u \notin misread' => status'[u] \in {status[u], "Absent"}
         /\ HeldIn(q) \subseteq HeldIn(batch[b])
         /\ abandoned \subseteq abandoned' /\ abandoned' \subseteq Ids
         /\ runs' \in [Ids -> Nat] /\ issued' = issued
    BY <1>0, <2>1, <2>3, <2>5, Before
  <2>12. Inv'
    BY <1>0, <2>5, <2>8, <2>9, <2>10, <2>11, BatchFrame
  <2>13. Stays
    BY <2>5, <2>7 DEF Stays, Finished
  <2> QED
    BY <2>12, <2>13
<1> QED
  BY <1>1, <1>2

\* What was claimed and not started is pending again and no longer held.
LEMMA RestoreStep ==
    ASSUME Inv, NEW b \in Batches, Restore(b)
    PROVE  Inv' /\ Stays
<1>0. EnvOK' /\ UNCHANGED <<issued, runs, abandoned>>
  BY EnvFacts DEF Restore, EnvOK, api, hist
<1>a. batch[b] \in Recs /\ RecOK(batch[b]) /\ batch[b].pc = "restore" /\ batch[b].cur = NoTask
  BY Before DEF Restore, RecOK
<1>2. PICK q \in Recs : q = [batch[b] EXCEPT !.pc = "final", !.todo = {}]
  BY <1>a DEF Recs, Pcs
<1>3. /\ HeldIn(q) = {} /\ HeldIn(batch[b]) = batch[b].todo
      /\ q.pc = "final" /\ q.todo = {} /\ q.cur = NoTask
  BY <1>a, <1>2, Bounds DEF Recs, HeldIn
<1>4. batch' = [batch EXCEPT ![b] = q]
  BY <1>2, Before DEF Restore
<1>b. Loaded(b) \in [Ids -> Statuses] /\ \A u \in Ids : u > issued => Loaded(b)[u] = "Absent"
  BY LoadedFacts
<1>5. /\ RaceOK /\ status' \in [Ids -> Statuses]
      /\ \A u \in Ids : u > issued => status'[u] = "Absent"
      /\ \A u \in Ids \ misread' :
            status'[u] = IF u \in batch[b].todo /\ status[u] = "Running"
                         THEN "Pending" ELSE status[u]
  <2>1. CASE Restorable(b) = {}
    <3>1. /\ RaceOK /\ status' = status
          /\ \A u \in Ids \ misread' : Loaded(b)[u] = status[u]
      BY <1>0, <2>1, ReturnFacts DEF Restore
    <3> QED
      BY <2>1, <3>1, Before DEF Restorable, FileInv
  <2>2. CASE Restorable(b) # {}
    <3>1. Save(b, [t \in Ids |-> IF t \in Restorable(b) THEN "Pending" ELSE Loaded(b)[t]])
      BY <2>2 DEF Restore
    <3>2. /\ RaceOK
          /\ status' = [t \in Ids |-> IF t \in Restorable(b) THEN "Pending" ELSE Loaded(b)[t]]
          /\ \A u \in Ids \ misread' : Loaded(b)[u] = status[u]
      BY <1>0, <3>1, SaveFacts
    <3> QED
      BY <1>b, <3>2 DEF Restorable, Statuses
  <2> QED
    BY <2>1, <2>2
<1>6. misread \subseteq misread'
  BY <1>5 DEF RaceOK
<1>7. RecOK(q)'
  BY <1>3 DEF RecOK
<1>8. \A u \in HeldIn(batch[b]) \ misread' :
        /\ runs'[u] <= 1
        /\ status'[u] = "Pending" => runs'[u] = 0
        /\ status'[u] \in {"Passed", "Failed", "RolledBack"} => runs'[u] = 1
        /\ status'[u] = "Running" => u \in HeldIn(q) \cup abandoned'
  <2>1. \A u \in HeldIn(batch[b]) \ misread' :
          u \in batch[b].todo \ misread /\ u \in Ids /\ runs'[u] = 0
    BY <1>0, <1>a, <1>3, <1>6, Before DEF RecOK
  <2>2. \A u \in HeldIn(batch[b]) \ misread' : status[u] \in {"Running", "Canceled", "Absent"}
    BY <1>6, Before
  <2> QED
    BY <1>5, <2>1, <2>2
<1>9. \A u \in Ids \ HeldIn(batch[b]) :
        /\ runs'[u] = runs[u]
        /\ u \notin misread' => status'[u] \in {status[u], "Absent"}
  BY <1>0, <1>3, <1>5
<1>10. Inv'
  BY <1>0, <1>3, <1>4, <1>5, <1>7, <1>8, <1>9, Before, BatchFrame
<1>11. Stays
  BY <1>5 DEF Stays, Finished
<1> QED
  BY <1>10, <1>11

\* finalize_run writes back what it has loaded.
LEMMA FinalizeStep ==
    ASSUME Inv, NEW b \in Batches, FinalizeRun(b)
    PROVE  Inv' /\ Stays
<1>0. EnvOK' /\ UNCHANGED <<issued, runs, abandoned>> /\ batch[b].pc = "final"
  BY EnvFacts DEF FinalizeRun, EnvOK, api, hist
<1>1. PICK q \in Recs : q = [batch[b] EXCEPT !.pc = "end"]
  BY Before DEF Recs, Pcs
<1>2. /\ batch[b].todo = {} /\ batch[b].cur = NoTask /\ HeldIn(batch[b]) = {}
      /\ HeldIn(q) = {} /\ q.pc = "end" /\ q.todo = {} /\ q.cur = NoTask
  BY <1>0, <1>1, Before, Bounds DEF Recs, HeldIn, RecOK
<1>3. batch' = [batch EXCEPT ![b] = q]
  BY <1>1, Before DEF FinalizeRun, Goto
<1>4. RaceOK /\ status' = Loaded(b) /\ \A u \in Ids \ misread' : Loaded(b)[u] = status[u]
  BY <1>0, SaveFacts DEF FinalizeRun
<1>5. RecOK(q)'
  BY <1>2 DEF RecOK
<1>6. Inv'
  BY <1>0, <1>2, <1>3, <1>4, <1>5, LoadedFacts, Before, BatchFrame
<1>7. Stays
  BY <1>4 DEF Stays
<1> QED
  BY <1>6, <1>7

\* mark_canceled of a task that was stopped.
LEMMA CanceledStep ==
    ASSUME Inv, NEW b \in Batches, MarkCanceled(b)
    PROVE  Inv' /\ Stays
<1>0. EnvOK' /\ UNCHANGED <<issued, runs, abandoned>> /\ batch[b].pc = "mark"
  BY EnvFacts DEF MarkCanceled, EnvOK, api, hist
<1>1. PICK t \in Ids : t = batch[b].cur
  BY <1>0, Before DEF RecOK
<1>2. Loaded(b) \in [Ids -> Statuses] /\ \A u \in Ids : u > issued => Loaded(b)[u] = "Absent"
  BY LoadedFacts
<1>3. /\ RaceOK /\ status' \in [Ids -> Statuses]
      /\ \A u \in Ids : u > issued => status'[u] = "Absent"
      /\ \A u \in Ids \ misread' :
            status'[u] = IF u = t /\ status[u] # "Absent" THEN "Canceled" ELSE status[u]
  <2>1. CASE Loaded(b)[t] = "Absent"
    <3>1. /\ RaceOK /\ status' = status
          /\ \A u \in Ids \ misread' : Loaded(b)[u] = status[u]
      BY <1>0, <1>1, <2>1, ReturnFacts DEF MarkCanceled
    <3> QED
      BY <2>1, <3>1, Before DEF FileInv
  <2>2. CASE Loaded(b)[t] # "Absent"
    <3>1. Save(b, [Loaded(b) EXCEPT ![t] = "Canceled"])
      BY <1>1, <2>2 DEF MarkCanceled
    <3>2. /\ RaceOK /\ status' = [Loaded(b) EXCEPT ![t] = "Canceled"]
          /\ \A u \in Ids \ misread' : Loaded(b)[u] = status[u]
      BY <1>0, <3>1, SaveFacts
    <3> QED
      BY <1>2, <2>2, <3>2 DEF Statuses, Finished
  <2> QED
    BY <2>1, <2>2
<1>4. misread \subseteq misread'
  BY <1>3 DEF RaceOK
<1>5. t \notin misread' => status[t] \in {"Running", "Canceled", "Absent"}
  BY <1>0, <1>1, <1>4, Before DEF RecOK
<1>6. batch' = [batch EXCEPT ![b].pc = AfterLoop(b), ![b].cur = NoTask]
  BY DEF MarkCanceled
<1>7. Inv'
  BY <1>0, <1>1, <1>3, <1>6, MarkStep
<1>8. Stays
  BY <1>3, <1>5 DEF Stays, Finished
<1> QED
  BY <1>7, <1>8

\* What is claimed was pending: nobody holds it and it was never executed.
LEMMA ClaimStep ==
    ASSUME Inv, NEW b \in Batches, Claim(b)
    PROVE  Inv' /\ Stays
<1>0. EnvOK' /\ UNCHANGED <<issued, runs, abandoned>>
  BY EnvFacts DEF Claim, EnvOK, api, hist
<1>a. PICK max \in 1..MaxParallel :
        LET S == First(Loaded(b), max) IN
        /\ Save(b, [t \in Ids |-> IF t \in S THEN "Running" ELSE Loaded(b)[t]])
        /\ batch' = [batch EXCEPT ![b].todo = S, ![b].pc = IF S = {} THEN "end" ELSE "next"]
  BY DEF Claim
<1>b. PICK S \in SUBSET Ids :
        S = First(Loaded(b), max) /\ \A t \in S : Loaded(b)[t] = "Pending"
  <2>1. \A t \in First(Loaded(b), max) : t \in Ids /\ Loaded(b)[t] = "Pending"
    BY ZenonT(30) DEF First, Claimable
  <2> HIDE DEF First
  <2> QED
    BY <2>1
<1>c. /\ batch[b] \in Recs /\ RecOK(batch[b]) /\ batch[b].pc = "claim"
      /\ batch[b].todo = {} /\ batch[b].cur = NoTask
  BY Before DEF Claim, RecOK
<1>d. PICK q \in Recs : q = [batch[b] EXCEPT !.todo = S,
                                             !.pc = IF S = {} THEN "end" ELSE "next"]
  BY <1>c DEF Recs, Pcs
<1>e. /\ q.todo = S /\ q.cur = NoTask /\ HeldIn(q) = S /\ HeldIn(batch[b]) = {}
      /\ q.pc \in {"end", "next"} /\ (q.pc = "end" => S = {})
  BY <1>c, <1>d, Bounds DEF HeldIn, Recs
<1>f. /\ Loaded(b) \in [Ids -> Statuses] /\ \A u \in Ids : u > issued => Loaded(b)[u] = "Absent"
      /\ RaceOK /\ \A u \in Ids \ misread' : Loaded(b)[u] = status[u]
      /\ status' = [t \in Ids |-> IF t \in S THEN "Running" ELSE Loaded(b)[t]]
  BY <1>0, <1>a, <1>b, LoadedFacts, SaveFacts
<1>g. misread \subseteq misread' /\ misread' \subseteq Ids /\ LateOK'
  BY <1>f DEF RaceOK
<1>1. batch' \in [Batches -> Recs] /\ batch'[b] = q /\ \A c \in Batches \ {b} : batch'[c] = batch[c]
  BY <1>a, <1>b, <1>d, Before
<1>2. /\ status' \in [Ids -> Statuses] /\ \A t \in S : status'[t] = "Running"
      /\ \A t \in Ids \ misread' : t \notin S => status'[t] = status[t]
      /\ \A t \in S \ misread' : status[t] = "Pending"
      /\ \A t \in Ids : t > issued => status'[t] = "Absent"
  BY <1>b, <1>f DEF Statuses
<1>3. TypeOK'
  <2>1. batch' \in [Batches -> Recs]
    BY <1>1
  <2> QED
    BY <1>0, <1>2, <1>g, <2>1 DEF Inv, TypeOK, EnvOK, Recs, LateOK, Lates
<1>4. \A c \in Batches :
        HeldIn(batch[c]) \cap S \subseteq misread' /\ HeldIn(batch[c]) \subseteq Ids
  BY <1>b, <1>2, <1>g, Before
<1>5. /\ \A t \in S : t <= issued /\ ~(t > issued)
      /\ \A t \in S \ misread' : runs[t] = 0
  <2>1. FileInv /\ issued \in Nat
    BY Bounds DEF Inv, TypeOK
  <2>2. \A t \in S : t \in Ids /\ t \in Nat /\ ~(t > issued)
    BY <1>b, <1>f, Bounds
  <2> QED
    BY <1>2, <1>g, <2>1, <2>2 DEF FileInv
<1>6. BatchInv'
  <2>1. RecOK(q)'
    <3>1. /\ \A t \in S : t <= issued' /\ status'[t] = "Running"
          /\ \A t \in S \ misread' : runs'[t] = 0
      BY <1>0, <1>2, <1>5
    <3>2. NoTask \notin S
      BY <1>b, Bounds
    <3> QED
      BY <1>e, <3>1, <3>2 DEF RecOK
  <2>2. ASSUME NEW c \in Batches \ {b}  PROVE RecOK(batch[c])'
    <3>1. RecOK(batch[c]) /\ batch'[c] = batch[c] /\ batch[c] \in Recs
      BY <1>1, Before
    <3>2. \A t \in HeldIn(batch[c]) \ misread' : t \in Ids /\ status'[t] = status[t]
      BY <1>2, <1>4
    <3>3. batch[c].todo \subseteq HeldIn(batch[c])
      BY <3>1, Before
    <3> QED
      BY <1>0, <1>g, <3>1, <3>2, <3>3 DEF RecOK
  <2> QED
    BY <1>1, <2>1, <2>2 DEF BatchInv
<1>7. Disjoint'
  BY <1>1, <1>4, <1>e, <1>g DEF Inv, Disjoint
<1>8. FileInv' /\ RunsOnce'
  <2>1. FileInv /\ RunsOnce
    BY DEF Inv
  <2> QED
    BY <1>0, <1>2, <1>5, <1>g, <2>1 DEF FileInv, RunsOnce
<1>9. RunningHasBatch'
  <2> SUFFICES ASSUME NEW t \in Ids \ misread', status'[t] = "Running", t \notin abandoned
               PROVE  \E c \in Batches : t \in HeldIn(batch'[c])
    BY <1>0 DEF RunningHasBatch, Held, HeldIn
  <2>1. CASE t \in S
    BY <2>1, <1>1, <1>e
  <2>2. CASE t \notin S
    <3>1. PICK c \in Batches : t \in HeldIn(batch[c])
      BY <2>2, <1>2, <1>g, HeldFacts DEF Inv, RunningHasBatch
    <3> QED
      BY <3>1, <1>1, <1>e
  <2> QED
    BY <2>1, <2>2
<1>10. Stays
  BY <1>2 DEF Stays, Finished
<1> QED
  BY <1>3, <1>6, <1>7, <1>8, <1>9, <1>10, <1>g DEF Inv

\* A new task is new to every batch.
LEMMA PushStep ==
    ASSUME Inv, NEW c \in Clients, Push(c)
    PROVE  Inv' /\ Stays
<1>0. /\ EnvOK' /\ UNCHANGED <<batch, runs, abandoned>>
      /\ issued \in 0..MaxTasks /\ issued' = issued + 1 /\ issued < MaxTasks
  BY EnvFacts DEF Push, EnvOK, api, hist, Inv, TypeOK
<1>a. PICK n \in Ids : n = issued + 1
  BY <1>0, Bounds DEF Ids
<1>b. /\ Loaded(c) \in [Ids -> Statuses] /\ \A u \in Ids : u > issued => Loaded(c)[u] = "Absent"
      /\ RaceOK /\ \A u \in Ids \ misread' : Loaded(c)[u] = status[u]
      /\ status' = [Loaded(c) EXCEPT ![n] = "Pending"]
  BY <1>0, <1>a, LoadedFacts, SaveFacts DEF Push
<1>c. misread \subseteq misread' /\ misread' \subseteq Ids /\ LateOK'
  BY <1>b DEF RaceOK
<1>1. /\ status' \in [Ids -> Statuses] /\ status'[n] = "Pending"
      /\ \A t \in Ids \ misread' : t # n => status'[t] = status[t]
      /\ \A t \in Ids : t # n /\ t > issued => status'[t] = "Absent"
  BY <1>a, <1>b DEF Statuses
<1>2. TypeOK'
  <2>1. issued' \in 0..MaxTasks
    BY <1>0, Bounds
  <2> QED
    BY <1>0, <1>1, <1>c, <2>1 DEF Inv, TypeOK, EnvOK, LateOK, Lates
<1>3. runs[n] = 0 /\ status[n] = "Absent"
  BY <1>0, <1>a, Bounds DEF Inv, FileInv
<1>4. BatchInv'
  <2> SUFFICES ASSUME NEW d \in Batches  PROVE RecOK(batch[d])'
    BY DEF BatchInv
  <2>1. /\ RecOK(batch[d]) /\ HeldIn(batch[d]) \subseteq Ids /\ batch'[d] = batch[d]
        /\ batch[d].todo \subseteq HeldIn(batch[d])
    BY <1>0, Before
  <2>2. \A t \in HeldIn(batch[d]) : t # n /\ t <= issued'
    <3>1. \A t \in HeldIn(batch[d]) : t <= issued /\ t \in Nat
      BY <2>1, Bounds DEF RecOK
    <3> QED
      BY <3>1, <1>0, <1>a, Bounds
  <2>3. \A t \in HeldIn(batch[d]) \ misread' : t \notin misread /\ status'[t] = status[t]
    BY <1>1, <1>c, <2>1, <2>2
  <2> QED
    BY <1>0, <1>c, <2>1, <2>2, <2>3 DEF RecOK
<1>5. Disjoint'
  BY <1>0, <1>c DEF Inv, Disjoint
<1>6. FileInv' /\ RunsOnce'
  <2>1. \A t \in Ids : t > issued' => t # n /\ t > issued
    BY <1>0, <1>a, Bounds
  <2>2. FileInv /\ RunsOnce
    BY DEF Inv
  <2> QED
    BY <1>0, <1>1, <1>3, <1>c, <2>1, <2>2 DEF FileInv, RunsOnce
<1>7. RunningHasBatch'
  BY <1>0, <1>1, <1>c DEF Inv, RunningHasBatch, Held
<1>8. Stays
  BY <1>1, <1>3 DEF Stays, Finished
<1> QED
  BY <1>2, <1>4, <1>5, <1>6, <1>7, <1>8, <1>c DEF Inv

-----------------------------------------------------------------------------
\* What an edit makes of the document it has loaded.
EditOf(who, doc) ==
    /\ doc \in [Ids -> Statuses]
    /\ \A t \in Ids : \/ doc[t] \in {Loaded(who)[t], "Absent"}
                      \/ doc[t] = "Canceled" /\ Loaded(who)[t] \in {"Pending", "Running"}

LEMMA SaveEdit ==
    ASSUME Inv, EnvOK', NEW who, NEW doc, EditOf(who, doc), Save(who, doc),
           UNCHANGED <<issued, batch, runs, abandoned>>
    PROVE  Inv' /\ Stays
<1> USE DEF EditOf
<1>1. /\ RaceOK /\ status' = doc
      /\ \A t \in Ids \ misread' : Loaded(who)[t] = status[t]
  BY SaveFacts
<1>2. \A t \in Ids : t > issued => status'[t] = "Absent"
  BY <1>1, LoadedFacts
<1>3. Edited
  BY <1>1 DEF Edited
<1> QED
  BY <1>1, <1>2, <1>3, EditFrame

LEMMA ReturnEdit ==
    ASSUME Inv, EnvOK', NEW who, Return(who), UNCHANGED <<issued, batch, runs, abandoned>>
    PROVE  Inv' /\ Stays
<1>1. RaceOK /\ status' = status
  BY ReturnFacts
<1>2. Edited /\ status' \in [Ids -> Statuses] /\ \A t \in Ids : t > issued => status'[t] = "Absent"
  BY <1>1 DEF Edited, Inv, TypeOK, FileInv
<1> QED
  BY <1>1, <1>2, EditFrame

\* Steps of the handlers that do not touch the file.
LEMMA CalmEdit ==
    ASSUME Inv, EnvOK', UNCHANGED <<file, batch, race, hist>>
    PROVE  Inv' /\ Stays
<1>1. RaceOK /\ UNCHANGED <<status, issued, runs, abandoned>>
  BY CalmFacts DEF file, hist
<1>2. Edited /\ status' \in [Ids -> Statuses] /\ \A t \in Ids : t > issued => status'[t] = "Absent"
  BY <1>1 DEF Edited, Inv, TypeOK, FileInv
<1> QED
  BY <1>1, <1>2, EditFrame

LEMMA EditInv ==
    ASSUME Inv, Edit
    PROVE  Inv' /\ Stays
<1>0. EnvOK
  BY TypeParts DEF Inv
<1>1. ASSUME NEW c \in Clients, Push(c)  PROVE Inv' /\ Stays
  BY <1>1, PushStep
<1>2. ASSUME NEW c \in Clients, ClearFinished(c)  PROVE Inv' /\ Stays
  <2> DEFINE doc == [t \in Ids |-> IF Loaded(c)[t] \in Finished THEN "Absent" ELSE Loaded(c)[t]]
  <2>1. /\ EnvOK' /\ UNCHANGED <<issued, batch, runs, abandoned>> /\ Save(c, doc)
    BY <1>0, <1>2 DEF ClearFinished, EnvOK, api, hist
  <2>2. EditOf(c, doc)
    BY LoadedFacts DEF EditOf, Statuses
  <2> HIDE DEF doc
  <2> QED
    BY <2>1, <2>2, SaveEdit
<1>3. ASSUME NEW c \in Clients, NEW t \in Ids, RemoveTask(c, t)  PROVE Inv' /\ Stays
  <2> DEFINE doc == [Loaded(c) EXCEPT ![t] = "Absent"]
  <2>1. /\ EnvOK' /\ UNCHANGED <<issued, batch, runs, abandoned>> /\ Save(c, doc)
    BY <1>0, <1>3 DEF RemoveTask, EnvOK, api, hist
  <2>2. EditOf(c, doc)
    BY LoadedFacts DEF EditOf, Statuses
  <2> HIDE DEF doc
  <2> QED
    BY <2>1, <2>2, SaveEdit
<1>4. ASSUME NEW c \in Clients, Refuse(c)  PROVE Inv' /\ Stays
  <2>1. EnvOK' /\ UNCHANGED <<issued, batch, runs, abandoned>> /\ Return(c)
    BY <1>0, <1>4 DEF Refuse, EnvOK, api, hist
  <2> QED
    BY <2>1, ReturnEdit
<1>5. CASE CancelStop
  <2>1. EnvOK'
    BY <1>0, <1>5 DEF CancelStop, RequestStop, EnvOK, NoRequest
  <2> QED
    BY <1>5, <2>1, CalmEdit DEF CancelStop
<1>6. CASE CancelMark
  <2> DEFINE doc == [Loaded("cancel") EXCEPT ![cancel.task] = "Canceled"]
  <2>1. EnvOK' /\ cancel.task \in Ids /\ UNCHANGED <<issued, batch, runs, abandoned>>
    BY <1>0, <1>6 DEF CancelMark, EnvOK, NoRequest, hist
  <2>2. CASE Loaded("cancel")[cancel.task] \in {"Pending", "Running", "Canceled"}
    <3>1. Save("cancel", doc)
      BY <1>6, <2>2 DEF CancelMark
    <3>2. EditOf("cancel", doc)
      BY <2>1, <2>2, LoadedFacts DEF EditOf, Statuses, Finished
    <3> HIDE DEF doc
    <3> QED
      BY <2>1, <3>1, <3>2, SaveEdit
  <2>3. CASE Loaded("cancel")[cancel.task] \notin {"Pending", "Running", "Canceled"}
    BY <1>6, <2>1, <2>3, ReturnEdit DEF CancelMark
  <2> QED
    BY <2>2, <2>3
<1>7. CASE Stop
  <2>1. EnvOK'
    BY <1>0, <1>7 DEF Stop, RequestStop, EnvOK
  <2> QED
    BY <1>7, <2>1, CalmEdit DEF Stop
<1>8. CASE ReclaimStaleRunning
  <2> DEFINE doc == [t \in Ids |-> IF Loaded("reclaim")[t] = "Running" THEN "Canceled"
                                  ELSE Loaded("reclaim")[t]]
  <2>1. EnvOK' /\ UNCHANGED <<issued, batch, runs, abandoned>>
    BY <1>0, <1>8 DEF ReclaimStaleRunning, EnvOK, hist
  <2>2. CASE Save("reclaim", doc)
    <3>1. EditOf("reclaim", doc)
      BY LoadedFacts DEF EditOf, Statuses, Finished
    <3> HIDE DEF doc
    <3> QED
      BY <2>1, <2>2, <3>1, SaveEdit
  <2>3. CASE Return("reclaim")
    BY <2>1, <2>3, ReturnEdit
  <2> QED
    BY <1>8, <2>2, <2>3 DEF ReclaimStaleRunning
<1>9. ASSUME NEW t \in Ids, CancelLoad(t)  PROVE Inv' /\ Stays
  <2>1. EnvOK'
    BY <1>0, <1>9 DEF CancelLoad, EnvOK
  <2> QED
    BY <1>9, <2>1, CalmEdit DEF CancelLoad
<1> QED
  BY <1>1, <1>2, <1>3, <1>4, <1>5, <1>6, <1>7, <1>8, <1>9 DEF Edit, Enqueue, RetryTask

LEMMA StepInv ==
    ASSUME Inv, NEW b \in Batches, Step(b)
    PROVE  Inv' /\ Stays
<1>0. EnvOK
  BY TypeParts DEF Inv
<1>1. CASE BeginRun(b)
  <2>1. EnvOK'
    BY <1>0, <1>1 DEF BeginRun, RequestStop, OwnRegistry, EnvOK, Sidecar, api
  <2> QED
    BY <1>1, <2>1, GotoStep DEF BeginRun, hist, Pcs
<1>2. CASE Executed(b)
  <2>1. EnvOK' /\ UNCHANGED <<file, race, runs, abandoned>> /\ batch[b].pc = "exec"
    BY <1>0, <1>2 DEF Executed, EnvOK, api, hist
  <2>2. CASE Goto(b, "mark")
    BY <2>1, <2>2, GotoStep DEF Pcs
  <2>3. CASE Goto(b, "gate")
    BY <2>1, <2>3, GotoStep DEF Pcs
  <2>4. CASE batch' = [batch EXCEPT ![b].pc = "finish", ![b].final = "Failed"]
    BY <2>1, <2>4, VerdictStep
  <2> QED
    BY <1>2, <2>2, <2>3, <2>4 DEF Executed
<1>3. CASE Gated(b)
  <2>1. EnvOK' /\ UNCHANGED <<file, race, runs, abandoned>> /\ batch[b].pc = "gate"
    BY <1>0, <1>3 DEF Gated, EnvOK, api, hist
  <2>2. CASE Goto(b, "mark")
    BY <2>1, <2>2, GotoStep DEF Pcs
  <2>3. ASSUME NEW s \in {"Passed", "RolledBack"},
               batch' = [batch EXCEPT ![b].pc = "finish", ![b].final = s]
        PROVE  Inv' /\ Stays
    BY <2>1, <2>3, VerdictStep
  <2> QED
    BY <1>3, <2>2, <2>3 DEF Gated
<1>4. CASE EndRun(b)
  <2>1. EnvOK'
    BY <1>0, <1>4 DEF EndRun, EnvOK, api
  <2> QED
    BY <1>4, <2>1, GotoStep DEF EndRun, hist, Pcs
<1> QED
  BY <1>1, <1>2, <1>3, <1>4, ClaimStep, NextTaskStep, StartStep, CanceledStep, FinishStep,
     RestoreStep, FinalizeStep DEF Step

LEMMA FaultInv ==
    ASSUME Inv, (\E b \in Batches : Fail(b) \/ HangUp(b) \/ CliDies(b)) \/ Crash \/ EditFails
                \/ \E who \in Working : LoseLock(who)
    PROVE  Inv' /\ Stays
<1>0. /\ EnvOK /\ status \in [Ids -> Statuses] /\ FileInv
      /\ \A t \in Ids : Empty[t] = "Absent"
  BY TypeParts, EmptyFacts DEF Inv
<1>1. Fault => faults' \in 0..MaxFaults
  BY <1>0, Bounds DEF Fault, EnvOK
<1>2. ASSUME NEW b \in Batches, Fail(b)  PROVE Inv' /\ Stays
  <2>1. EnvOK' /\ UNCHANGED <<issued, misread, runs>> /\ status' \in {status, Empty}
    BY <1>0, <1>1, <1>2 DEF Fail, EnvOK, api, LeavesFile
  <2>2. RaceOK
    BY <1>2, <2>1, OverFacts DEF Fail
  <2>3. CASE Abort(b)
    <3>1. {b} \in SUBSET Batches /\ Leave({b}, "end")
      BY <2>3 DEF Abort
    <3> QED
      BY <2>1, <2>2, <3>1, LeaveStep
  <2>4. CASE /\ batch[b].pc = "mark"
             /\ batch' = [batch EXCEPT ![b].pc = AfterLoop(b), ![b].cur = NoTask]
             /\ abandoned' = abandoned \cup {batch[b].cur}
    <3>1. /\ status' \in [Ids -> Statuses] /\ \A t \in Ids : status'[t] \in {status[t], "Absent"}
          /\ \A t \in Ids : t > issued => status'[t] = "Absent"
      BY <1>0, <2>1, EmptyFacts DEF FileInv
    <3>2. Inv'
      BY <2>1, <2>2, <2>4, <3>1, MarkStep
    <3> QED
      BY <3>1, <3>2 DEF Stays
  <2> QED
    BY <1>2, <2>3, <2>4 DEF Fail
<1>3. ASSUME NEW b \in Batches, HangUp(b)  PROVE Inv' /\ Stays
  <2>1. EnvOK' /\ UNCHANGED <<issued, status, runs>> /\ RaceOK
    BY <1>0, <1>1, <1>3, CalmFacts DEF HangUp, EnvOK, api, file
  <2>2. {b} \in SUBSET Batches /\ Leave({b}, "done")
    BY <1>3 DEF HangUp
  <2> QED
    BY <2>1, <2>2, LeaveStep
<1>4. ASSUME NEW b \in Batches, CliDies(b)  PROVE Inv' /\ Stays
  <2>1. EnvOK' /\ UNCHANGED <<issued, misread, runs>> /\ status' \in {status, Empty}
    BY <1>0, <1>1, <1>4 DEF CliDies, EnvOK, api, LeavesFile
  <2>2. {b} \in SUBSET Batches /\ Leave({b}, "done") /\ RaceOK
    BY <1>4, <2>1, OverFacts DEF CliDies
  <2> QED
    BY <2>1, <2>2, LeaveStep
<1>5. CASE Crash
  <2>1. EnvOK' /\ UNCHANGED <<issued, misread, runs>> /\ status' \in {status, Empty}
    BY <1>0, <1>1, <1>5 DEF Crash, EnvOK, Sidecar, LeavesFile
  <2>2. Sidecar \cap Active \in SUBSET Batches /\ Leave(Sidecar \cap Active, "done") /\ RaceOK
    BY <1>5, <2>1, OverFacts DEF Crash, Sidecar
  <2> QED
    BY <2>1, <2>2, LeaveStep
<1>6. CASE EditFails
  <2>1. /\ EnvOK' /\ UNCHANGED <<issued, batch, misread, runs, abandoned>>
        /\ status' \in {status, Empty} /\ \E W : Over(W)
    BY <1>0, <1>1, <1>6 DEF EditFails, EnvOK, LeavesFile, hist, api, NoRequest
  <2>2. RaceOK
    BY <2>1, OverFacts
  <2>3. /\ Edited /\ status' \in [Ids -> Statuses]
        /\ \A t \in Ids : t > issued => status'[t] = "Absent"
    BY <1>0, <2>1, EmptyFacts DEF Edited, FileInv
  <2> QED
    BY <2>1, <2>2, <2>3, EditFrame
<1>7. ASSUME NEW who \in Working, LoseLock(who)  PROVE Inv' /\ Stays
  <2>1. /\ EnvOK' /\ UNCHANGED <<status, issued, batch, misread, runs, abandoned>>
        /\ late' = [who |-> who, doc |-> status, by |-> 0]
    BY <1>0, <1>1, <1>7 DEF LoseLock, EnvOK, file, hist, api
  <2>2. RaceOK
    <3>1. late' \in Lates /\ late'.doc = status
      <4>1. who \in Operators
        BY <1>7 DEF Working, Operators, Clients
      <4> QED
        BY <1>0, <2>1, <4>1, Bounds DEF Lates
    <3> QED
      BY <1>0, <2>1, <3>1 DEF RaceOK, LateOK, FileInv, Inv, TypeOK
  <2>3. /\ Edited /\ status' \in [Ids -> Statuses]
        /\ \A t \in Ids : t > issued => status'[t] = "Absent"
    BY <1>0, <2>1 DEF Edited, FileInv
  <2> QED
    BY <2>1, <2>2, <2>3, EditFrame
<1> QED
  BY <1>2, <1>3, <1>4, <1>5, <1>6, <1>7

LEMMA InvStep == Inv /\ [Next]_vars => Inv' /\ Stays
<1> SUFFICES ASSUME Inv, [Next]_vars  PROVE Inv' /\ Stays
  OBVIOUS
<1>1. CASE UNCHANGED vars
  <2>1. EnvOK' /\ UNCHANGED <<file, batch, race, hist>>
    BY <1>1, TypeParts DEF Inv, EnvOK, vars, api
  <2> QED
    BY <2>1, CalmEdit
<1>2. CASE Next
  BY <1>2, EditInv, StepInv, FaultInv DEF Next
<1> QED
  BY <1>1, <1>2

LEMMA Invariance == Spec => []Inv
<1>1. Inv /\ [Next]_vars => Inv'
  BY InvStep
<1> QED
  BY <1>1, InvInit, PTL DEF Spec

-----------------------------------------------------------------------------
\* The variables keep their shapes: in particular a batch names only tasks that
\* were issued, and the file holds no status that the loop does not know.
THEOREM Typing == Spec => []TypeOK
<1>1. Inv => TypeOK
  BY DEF Inv
<1> QED
  BY <1>1, Invariance, PTL

\* The agent executes no task twice, and gives no verdict without an execution,
\* for any number of batches of any number of processes (claim_pending_tasks,
\* restore_pending, persist_task), unless an operation has gone by an entry that
\* had changed since it was loaded, its lock lost (queue_lock_stale).
THEOREM OneExecution == Spec => []RunsOnce
<1>1. Inv => RunsOnce
  BY DEF Inv
<1> QED
  BY <1>1, Invariance, PTL

\* Only a batch that was cut off leaves a task running (mark_canceled,
\* restore_pending, persist_task), with the same exception for the lock.
THEOREM NothingLeftRunning == Spec => []RunningHasBatch
<1>1. Inv => RunningHasBatch
  BY DEF Inv
<1> QED
  BY <1>1, Invariance, PTL

\* A verdict or a cancellation stays until the entry is removed (persist_task,
\* restore_pending, retry_task), with the same exception for the lock.
THEOREM VerdictsStay == Spec => FinishedStays
<1>1. Inv /\ [Next]_vars =>
        [\A t \in Ids \ misread' :
            status[t] \in Finished => status'[t] \in {status[t], "Absent"}]_vars
  BY InvStep DEF Stays
<1> QED
  BY <1>1, Invariance, PTL DEF Spec, FinishedStays

-----------------------------------------------------------------------------
(* The refinement of NightLife: who claims what is the union of the locals *)
(* of the batches, and what they do to it is what NightLife allows.        *)

\* While nothing was misread an operation goes by the file as it is.
LEMMA SoundLoad ==
    ASSUME Inv, NEW who, GoBy(who), misread' = {}
    PROVE  Loaded(who) = status /\ misread = {}
<1>1. misread = {} /\ \A t \in Ids : Loaded(who)[t] = status[t]
  BY DEF GoBy
<1>2. status \in [Ids -> Statuses] /\ Loaded(who) \in [Ids -> Statuses]
  BY LoadedFacts DEF Inv, TypeOK
<1> QED
  BY <1>1, <1>2

LEMMA SoundSave ==
    ASSUME Inv, NEW who, NEW doc, Save(who, doc), misread' = {}
    PROVE  Loaded(who) = status /\ misread = {} /\ status' = doc
  BY SoundLoad DEF Save

LEMMA SoundReturn ==
    ASSUME Inv, NEW who, Return(who), misread' = {}
    PROVE  Loaded(who) = status /\ misread = {} /\ status' = status
  BY SoundLoad DEF Return

LEMMA ClaimedFacts ==
    /\ Claimed = UNION {HeldIn(batch[b]) : b \in Batches}
    /\ Claimed' = UNION {HeldIn(batch'[b]) : b \in Batches}
  BY DEF Claimed, Held, HeldIn

\* A batch that gives up a part of what it holds.
LEMMA GivesUp ==
    ASSUME Inv, misread = {}, NEW b \in Batches, NEW r \in Recs,
           batch' = [batch EXCEPT ![b] = r], HeldIn(r) \subseteq HeldIn(batch[b])
    PROVE  Claimed' = Claimed \ (HeldIn(batch[b]) \ HeldIn(r))
<1>1. batch'[b] = r /\ \A c \in Batches \ {b} : batch'[c] = batch[c]
  BY DEF Inv, TypeOK
<1>2. \A c \in Batches \ {b} : HeldIn(batch[c]) \cap HeldIn(batch[b]) = {}
  BY DEF Inv, Disjoint
<1> QED
  BY <1>1, <1>2, ClaimedFacts

LEMMA ClaimedIds == ASSUME Inv PROVE Claimed \subseteq Ids
  BY Before, ClaimedFacts

LEMMA LifeStutter ==
    ASSUME UNCHANGED <<status, issued, abandoned, runs>>, Claimed' = Claimed
    PROVE  UNCHANGED Life!vars
  BY DEF Life!vars

\* One batch moves on with what it holds.
LEMMA LifeMove ==
    ASSUME Inv, misread = {}, NEW b \in Batches, NEW r \in Recs, batch' = [batch EXCEPT ![b] = r],
           HeldIn(r) = HeldIn(batch[b]), UNCHANGED <<status, issued, abandoned, runs>>
    PROVE  [Life!Next]_(Life!vars)
<1>1. Claimed' = Claimed
  BY GivesUp
<1> QED
  BY <1>1, LifeStutter

LEMMA LifeMarking ==
    ASSUME status' \in [Ids -> Statuses], NEW S, NEW s,
           \A t \in Ids : status'[t] = IF t \in S THEN s ELSE status[t]
    PROVE  Life!Mark(S, s)
  BY DEF Life!Mark

\* Batches that are cut off leave what they hold behind.
LEMMA LifeCutOff ==
    ASSUME Inv, misread = {}, NEW B \in SUBSET Batches, NEW pc \in {"end", "done"},
           Leave(B, pc), UNCHANGED <<issued, runs>>, status' \in {status, Empty}
    PROVE  Life!Next
<1> DEFINE S == UNION {Held(b) : b \in B}
<1>1. /\ \A b \in B : HeldIn(batch'[b]) = {}
      /\ \A b \in Batches \ B : batch'[b] = batch[b]
  BY LocalsFacts, TypeParts DEF Leave, Inv, Pcs
<1>2. S \subseteq Claimed /\ S \in SUBSET Ids
  <2>1. S \subseteq Claimed
    BY DEF Claimed
  <2> QED
    BY <2>1, ClaimedIds
<1>3. Claimed' = Claimed \ S
  <2>1. \A b \in Batches \ B, c \in B : HeldIn(batch[b]) \cap HeldIn(batch[c]) = {}
    BY DEF Inv, Disjoint
  <2>2. S = UNION {HeldIn(batch[b]) : b \in B}
    BY HeldFacts
  <2> HIDE DEF S
  <2> QED
    BY <1>1, <2>1, <2>2, ClaimedFacts
<1>4. abandoned' = abandoned \cup S
  BY DEF Leave
<1> HIDE DEF S
<1>5. Life!CutOff(S)
  BY <1>2, <1>3, <1>4 DEF Life!CutOff
<1>6. CASE status' = status
  BY <1>2, <1>5, <1>6 DEF Life!Next, Life!Abandon
<1>7. CASE status' = Empty
  <2>1. Life!Mark(Ids, "Absent")
    BY <1>7 DEF Life!Mark, Empty
  <2> QED
    BY <1>2, <1>5, <2>1 DEF Life!Next, Life!Truncate
<1> QED
  BY <1>6, <1>7

\* What is left of the locals of a batch that lays down its task.
LEMMA LaysDown ==
    ASSUME NEW r \in Recs, RecOK(r), NEW q \in Recs, NEW t \in Ids, t = r.cur,
           q.todo = r.todo, q.cur = NoTask
    PROVE  HeldIn(q) = HeldIn(r) \ {t}
<1>1. t \notin r.todo /\ NoTask \notin r.todo /\ t # NoTask
  BY Bounds DEF RecOK, Recs
<1> QED
  BY <1>1 DEF HeldIn

\* The entry of a task that was executed: a verdict, or what a user made of it.
Settles(t, s) ==
    /\ s \in {"Passed", "Failed", "RolledBack", "Canceled"}
    /\ status' \in [Ids -> Statuses] /\ \A u \in Ids \ {t} : status'[u] = status[u]
    /\ status'[t] = IF status[t] = "Running" THEN s ELSE status[t]

\* A batch lays down the task it has executed.
LEMMA LifeLayDown ==
    ASSUME Inv, misread = {}, NEW b \in Batches, NEW r \in Recs, batch' = [batch EXCEPT ![b] = r],
           NEW t \in Ids, t \in HeldIn(batch[b]), HeldIn(r) = HeldIn(batch[b]) \ {t},
           runs[t] = 1, UNCHANGED <<issued, runs, abandoned>>, NEW s, Settles(t, s)
    PROVE  Life!Next
<1>0. /\ s \in {"Passed", "Failed", "RolledBack", "Canceled"}
      /\ status' \in [Ids -> Statuses] /\ \A u \in Ids \ {t} : status'[u] = status[u]
      /\ status'[t] = IF status[t] = "Running" THEN s ELSE status[t]
  BY DEF Settles
<1>1. Claimed' = Claimed \ {t} /\ t \in Claimed
  <2>1. HeldIn(r) \subseteq HeldIn(batch[b]) /\ HeldIn(batch[b]) \ HeldIn(r) = {t}
    OBVIOUS
  <2>2. Claimed' = Claimed \ (HeldIn(batch[b]) \ HeldIn(r))
    BY <2>1, GivesUp
  <2>3. t \in Claimed
    BY ClaimedFacts
  <2> QED
    BY <2>1, <2>2, <2>3
<1>2. status[t] \in {"Running", "Canceled", "Absent"} /\ status \in [Ids -> Statuses]
  BY Before
<1>3. CASE status[t] = "Running"
  <2>1. Life!Mark({t}, s)
    BY <1>0, <1>3, LifeMarking
  <2> QED
    BY <1>0, <1>1, <1>3, <2>1 DEF Life!Next, Life!LayDown, Life!Verdicts
<1>4. CASE status[t] # "Running"
  <2>1. status' = status
    BY <1>0, <1>2, <1>4
  <2> QED
    BY <1>1, <1>2, <1>4, <2>1 DEF Life!Next, Life!LayDown
<1> QED
  BY <1>3, <1>4

-----------------------------------------------------------------------------
\* The handlers and commands: no batch is touched.
LEMMA LifeEdit ==
    ASSUME Inv, Edit, misread' = {}
    PROVE  [Life!Next]_(Life!vars)
<1>0. /\ status \in [Ids -> Statuses] /\ issued \in 0..MaxTasks
      /\ cancel = NoRequest \/ cancel \in [pc : {"stop", "mark"}, task : Ids]
  BY DEF Inv, TypeOK
<1>a. UNCHANGED batch => Claimed' = Claimed
  BY ClaimedFacts
<1>1. ASSUME NEW c \in Clients, Push(c)  PROVE Life!Next
  <2>1. /\ issued < MaxTasks /\ issued' = issued + 1
        /\ status' = [status EXCEPT ![issued + 1] = "Pending"]
        /\ UNCHANGED <<batch, runs, abandoned>>
    BY <1>1, SoundSave DEF Push, hist
  <2>2. PICK n \in Ids : n = issued + 1
    BY <1>0, <2>1, Bounds DEF Ids
  <2>3. n \notin 1..issued /\ 1..issued' = (1..issued) \cup {n}
    BY <1>0, <2>1, <2>2
  <2>4. Life!Mark({n}, "Pending")
    BY <1>0, <2>1, <2>2, LifeMarking DEF Statuses
  <2>5. Life!Add(n)
    BY <1>a, <2>1, <2>3, <2>4 DEF Life!Add
  <2> QED
    BY <2>5 DEF Life!Next
<1>2. ASSUME NEW S \in SUBSET Ids, \A t \in S : status[t] # "Running",
             status' \in [Ids -> Statuses],
             \A t \in Ids : status'[t] = IF t \in S THEN "Absent" ELSE status[t],
             UNCHANGED <<issued, batch, runs, abandoned>>
      PROVE  Life!Next
  <2>1. Life!Mark(S, "Absent")
    BY <1>2, LifeMarking
  <2>2. Life!Remove(S)
    BY <1>a, <1>2, <2>1 DEF Life!Remove
  <2> QED
    BY <2>2 DEF Life!Next
<1>3. ASSUME NEW S \in SUBSET Ids, \A t \in S : status[t] \in {"Pending", "Running"},
             status' \in [Ids -> Statuses],
             \A t \in Ids : status'[t] = IF t \in S THEN "Canceled" ELSE status[t],
             UNCHANGED <<issued, batch, runs, abandoned>>
      PROVE  Life!Next
  <2>1. Life!Mark(S, "Canceled")
    BY <1>3, LifeMarking
  <2>2. Life!Cancel(S)
    BY <1>a, <1>3, <2>1 DEF Life!Cancel
  <2> QED
    BY <2>2 DEF Life!Next
<1>b. ASSUME UNCHANGED <<status, issued, batch, runs, abandoned>>
      PROVE  [Life!Next]_(Life!vars)
  BY <1>a, <1>b, LifeStutter
<1>4. ASSUME NEW c \in Clients, NEW t \in Ids, RemoveTask(c, t)  PROVE Life!Next
  <2>0. /\ Loaded(c)[t] \notin {"Absent", "Running"}
        /\ Save(c, [Loaded(c) EXCEPT ![t] = "Absent"])
        /\ UNCHANGED <<issued, batch, runs, abandoned>>
    BY <1>4 DEF RemoveTask, hist
  <2>1. /\ \A u \in {t} : status[u] # "Running"
        /\ status' \in [Ids -> Statuses]
        /\ \A u \in Ids : status'[u] = IF u \in {t} THEN "Absent" ELSE status[u]
    BY <1>0, <2>0, SoundSave DEF Statuses
  <2> QED
    BY <1>2, <2>0, <2>1
<1>5. ASSUME NEW c \in Clients, ClearFinished(c)  PROVE Life!Next
  <2> DEFINE S == {t \in Ids : status[t] \in Finished}
  <2>0. /\ UNCHANGED <<issued, batch, runs, abandoned>>
        /\ status' = [t \in Ids |-> IF status[t] \in Finished THEN "Absent" ELSE status[t]]
    BY <1>5, SoundSave DEF ClearFinished, hist
  <2>1. /\ \A t \in S : status[t] # "Running"
        /\ status' \in [Ids -> Statuses]
        /\ \A t \in Ids : status'[t] = IF t \in S THEN "Absent" ELSE status[t]
    BY <1>0, <2>0 DEF Statuses, Finished
  <2>2. S \in SUBSET Ids
    OBVIOUS
  <2> HIDE DEF S
  <2> QED
    BY <1>2, <2>0, <2>1, <2>2
<1>6. CASE CancelMark
  <2>1. cancel.task \in Ids /\ UNCHANGED <<issued, batch, runs, abandoned>>
    BY <1>0, <1>6 DEF CancelMark, NoRequest, hist
  <2>2. \/ /\ status[cancel.task] \in {"Pending", "Running", "Canceled"}
           /\ status' = [status EXCEPT ![cancel.task] = "Canceled"]
        \/ status' = status
    BY <1>6, SoundSave, SoundReturn DEF CancelMark
  <2>3. CASE status[cancel.task] \in {"Pending", "Running"} /\ status' # status
    <3>1. /\ \A u \in {cancel.task} : status[u] \in {"Pending", "Running"}
          /\ status' \in [Ids -> Statuses]
          /\ \A u \in Ids : status'[u] = IF u \in {cancel.task} THEN "Canceled" ELSE status[u]
      BY <1>0, <2>1, <2>2, <2>3 DEF Statuses, Finished
    <3> QED
      BY <1>3, <2>1, <3>1
  <2>4. CASE status[cancel.task] = "Canceled" \/ status' = status
    <3>1. status' = status
      BY <1>0, <2>1, <2>2, <2>4
    <3> QED
      BY <1>b, <2>1, <3>1
  <2> QED
    BY <2>2, <2>3, <2>4
<1>7. CASE ReclaimStaleRunning
  <2> DEFINE S == {t \in Ids : status[t] = "Running"}
  <2>0. /\ UNCHANGED <<issued, batch, runs, abandoned>>
        /\ \/ status' = [t \in Ids |-> IF status[t] = "Running" THEN "Canceled" ELSE status[t]]
           \/ status' = status
    BY <1>7, SoundSave, SoundReturn DEF ReclaimStaleRunning, hist
  <2>1. CASE status' # status
    <3>1. /\ \A t \in S : status[t] \in {"Pending", "Running"}
          /\ status' \in [Ids -> Statuses]
          /\ \A t \in Ids : status'[t] = IF t \in S THEN "Canceled" ELSE status[t]
      BY <1>0, <2>0, <2>1 DEF Statuses, Finished
    <3>2. S \in SUBSET Ids
      OBVIOUS
    <3> HIDE DEF S
    <3> QED
      BY <1>3, <2>0, <3>1, <3>2
  <2>2. CASE status' = status
    BY <1>b, <2>0, <2>2
  <2> QED
    BY <2>1, <2>2
<1>8. CASE CancelStop \/ Stop \/ \E t \in Ids : CancelLoad(t)
  BY <1>8, <1>b DEF CancelStop, Stop, CancelLoad, file, hist
<1>9. ASSUME NEW c \in Clients, Refuse(c)  PROVE [Life!Next]_(Life!vars)
  BY <1>9, <1>b DEF Refuse, Return, hist
<1> QED
  BY <1>1, <1>4, <1>5, <1>6, <1>7, <1>8, <1>9 DEF Edit, Enqueue, RetryTask

\* The steps of a batch that change the file.
LEMMA LifeClaim ==
    ASSUME Inv, NEW b \in Batches, Claim(b), misread' = {}
    PROVE  Life!Next
<1>a. PICK max \in 1..MaxParallel :
        LET S == First(Loaded(b), max) IN
        /\ Save(b, [t \in Ids |-> IF t \in S THEN "Running" ELSE Loaded(b)[t]])
        /\ batch' = [batch EXCEPT ![b].todo = S, ![b].pc = IF S = {} THEN "end" ELSE "next"]
  BY DEF Claim
<1>b. Loaded(b) = status /\ misread = {}
  BY <1>a, SoundSave
<1>1. LET S == First(status, max) IN
        /\ status' = [t \in Ids |-> IF t \in S THEN "Running" ELSE status[t]]
        /\ batch' = [batch EXCEPT ![b].todo = S, ![b].pc = IF S = {} THEN "end" ELSE "next"]
  BY <1>a, <1>b, SoundSave
<1>2. PICK S \in SUBSET Ids : S = First(status, max) /\ \A t \in S : status[t] = "Pending"
  <2>1. \A t \in First(status, max) : t \in Ids /\ status[t] = "Pending"
    BY ZenonT(30) DEF First, Claimable
  <2> HIDE DEF First
  <2> QED
    BY <2>1
<1>3. /\ batch[b] \in Recs /\ batch[b].todo = {} /\ batch[b].cur = NoTask
      /\ batch \in [Batches -> Recs] /\ status \in [Ids -> Statuses]
  BY Before DEF Claim, RecOK
<1>4. /\ HeldIn(batch'[b]) = S /\ HeldIn(batch[b]) = {}
      /\ \A c \in Batches \ {b} : batch'[c] = batch[c]
  BY <1>1, <1>2, <1>3, Bounds DEF HeldIn, Recs
<1>5. Claimed' = Claimed \cup S
  BY <1>4, ClaimedFacts
<1>6. S \cap Claimed = {}
  BY <1>b, <1>2, Before, ClaimedFacts
<1>7. Life!Mark(S, "Running")
  BY <1>1, <1>2 DEF Life!Mark
<1>8. Life!Claim(S)
  BY <1>2, <1>5, <1>6, <1>7 DEF Life!Claim, Claim, hist
<1> QED
  BY <1>8 DEF Life!Next

LEMMA LifeStart ==
    ASSUME Inv, NEW b \in Batches, Start(b), misread' = {}
    PROVE  [Life!Next]_(Life!vars)
<1>a. batch[b] \in Recs /\ RecOK(batch[b]) /\ batch[b].pc = "start"
  BY Before DEF Start
<1>c. GoBy(b)
  <2>1. Return(b) \/ \E d : Save(b, d)
    BY DEF Start, Persist
  <2> QED
    BY <2>1 DEF Return, Save
<1>d. Loaded(b) = status /\ misread = {}
  BY <1>c, SoundLoad
<1>b. PICK t \in Ids : t = batch[b].cur /\ t \in HeldIn(batch[b])
  BY <1>a, Before DEF RecOK
<1>1. CASE status[t] = "Absent"
  <2>1. {b} \in SUBSET Batches /\ Leave({b}, "end") /\ UNCHANGED <<issued, runs, status>>
    BY <1>b, <1>d, <1>1 DEF Start, Abort, Return
  <2> QED
    BY <1>d, <2>1, LifeCutOff
<1>2. CASE status[t] # "Absent"
  <2>1. /\ Persist(b, t, "Running") /\ runs' = [runs EXCEPT ![t] = @ + 1]
        /\ Goto(b, "exec") /\ UNCHANGED <<issued, abandoned>>
    BY <1>b, <1>d, <1>2 DEF Start
  <2> DEFINE q == [batch[b] EXCEPT !.pc = "exec"]
  <2>2. q \in Recs /\ HeldIn(q) = HeldIn(batch[b])
    BY <1>a, GotoFacts DEF Pcs
  <2>a. batch' = [batch EXCEPT ![b] = q]
    BY <2>1 DEF Goto
  <2> HIDE DEF q
  <2>3. Claimed' = Claimed /\ t \in Claimed
    BY <1>b, <1>d, <2>2, <2>a, GivesUp, ClaimedFacts
  <2>4. runs[t] = 0 /\ status[t] \in {"Running", "Canceled"}
    BY <1>a, <1>b, <1>d, <1>2, Before DEF RecOK
  <2>5. status' = status
    <3>1. status' \in {status, [status EXCEPT ![t] = "Running"]}
      BY <1>d, <2>1, SoundSave, SoundReturn DEF Persist
    <3>2. status[t] = "Canceled" => status' = status
      BY <1>d, <2>1, SoundReturn DEF Persist, Protected
    <3> QED
      BY <2>4, <3>1, <3>2, Before
  <2>6. runs' = [runs EXCEPT ![t] = 1]
    BY <2>1, <2>4, Before
  <2>7. Life!Begin(t)
    BY <1>2, <2>1, <2>3, <2>4, <2>5, <2>6 DEF Life!Begin
  <2> QED
    BY <2>7 DEF Life!Next
<1> QED
  BY <1>1, <1>2

LEMMA LifeMark ==
    ASSUME Inv, NEW b \in Batches, MarkCanceled(b), misread' = {}
    PROVE  Life!Next
<1>a. /\ batch[b] \in Recs /\ RecOK(batch[b]) /\ batch[b].pc = "mark"
      /\ UNCHANGED <<issued, runs, abandoned>> /\ status \in [Ids -> Statuses]
  BY Before DEF MarkCanceled, hist
<1>b. PICK t \in Ids : t = batch[b].cur /\ t \in HeldIn(batch[b])
  BY <1>a, Before DEF RecOK
<1>c. PICK q \in Recs : q = [batch[b] EXCEPT !.pc = AfterLoop(b), !.cur = NoTask]
  BY <1>a, AfterLoopFacts DEF Recs, Pcs
<1>1. HeldIn(q) = HeldIn(batch[b]) \ {t}
  <2>1. q.todo = batch[b].todo /\ q.cur = NoTask
    BY <1>a, <1>c DEF Recs
  <2> QED
    BY <1>a, <1>b, <2>1, LaysDown
<1>2. batch' = [batch EXCEPT ![b] = q]
  BY <1>c, Before DEF MarkCanceled
<1>d. /\ misread = {}
      /\ status' = IF status[t] = "Absent" THEN status ELSE [status EXCEPT ![t] = "Canceled"]
  BY <1>b, SoundSave, SoundReturn DEF MarkCanceled
<1>3. status[t] \in {"Running", "Canceled", "Absent"} /\ runs[t] = 1
  BY <1>a, <1>b, <1>d, Before DEF RecOK
<1>4. Settles(t, "Canceled")
  BY <1>a, <1>b, <1>d, <1>3 DEF Settles, Statuses, Finished
<1> QED
  BY <1>a, <1>b, <1>d, <1>1, <1>2, <1>3, <1>4, LifeLayDown

LEMMA LifeFinish ==
    ASSUME Inv, NEW b \in Batches, Finish(b), misread' = {}
    PROVE  Life!Next
<1>a. batch[b] \in Recs /\ RecOK(batch[b]) /\ batch[b].pc = "finish"
  BY Before DEF Finish
<1>c. GoBy(b)
  <2>1. Return(b) \/ \E d : Save(b, d)
    BY DEF Finish, Persist
  <2> QED
    BY <2>1 DEF Return, Save
<1>d. Loaded(b) = status /\ misread = {}
  BY <1>c, SoundLoad
<1>b. PICK t \in Ids : t = batch[b].cur /\ t \in HeldIn(batch[b])
  BY <1>a, Before DEF RecOK
<1>1. CASE status[t] = "Absent"
  <2>1. {b} \in SUBSET Batches /\ Leave({b}, "end") /\ UNCHANGED <<issued, runs, status>>
    BY <1>b, <1>d, <1>1 DEF Finish, Abort, Return
  <2> QED
    BY <1>d, <2>1, LifeCutOff
<1>2. CASE status[t] # "Absent"
  <2>1. /\ Persist(b, t, batch[b].final)
        /\ batch' = [batch EXCEPT ![b] = [Locals("next") EXCEPT !.todo = batch[b].todo]]
        /\ UNCHANGED <<issued, runs, abandoned>>
    BY <1>b, <1>d, <1>2 DEF Finish
  <2>a. PICK q \in Recs : q = [Locals("next") EXCEPT !.todo = batch[b].todo]
    BY <1>a DEF Recs, Pcs, Locals, Statuses
  <2>b. q.todo = batch[b].todo /\ q.cur = NoTask
    BY <2>a DEF Locals
  <2>2. HeldIn(q) = HeldIn(batch[b]) \ {t}
    BY <1>a, <1>b, <2>b, LaysDown
  <2>3. /\ runs[t] = 1 /\ batch[b].final \in {"Passed", "RolledBack", "Failed"}
        /\ status[t] \in {"Running", "Canceled"} /\ status \in [Ids -> Statuses]
    BY <1>a, <1>b, <1>d, <1>2, Before DEF RecOK
  <2>6. status' = IF status[t] = "Canceled" THEN status
                  ELSE [status EXCEPT ![t] = batch[b].final]
    BY <1>d, <2>1, SoundSave, SoundReturn DEF Persist, Protected
  <2>4. Settles(t, batch[b].final)
    BY <2>3, <2>6 DEF Settles, Statuses, Finished
  <2>5. batch' = [batch EXCEPT ![b] = q]
    BY <2>1, <2>a
  <2> QED
    BY <1>b, <1>d, <2>1, <2>2, <2>3, <2>4, <2>5, LifeLayDown
<1> QED
  BY <1>1, <1>2

LEMMA LifeRestore ==
    ASSUME Inv, NEW b \in Batches, Restore(b), misread' = {}
    PROVE  Life!Next
<1>a. /\ batch[b] \in Recs /\ RecOK(batch[b]) /\ batch[b].cur = NoTask
      /\ UNCHANGED <<issued, runs, abandoned>> /\ status \in [Ids -> Statuses]
  BY Before DEF Restore, RecOK, hist
<1>b. PICK S \in SUBSET Ids : S = batch[b].todo
  BY <1>a DEF Recs
<1>1. S = HeldIn(batch[b])
  BY <1>a, <1>b, Bounds DEF HeldIn
<1>d. /\ misread = {} /\ Restorable(b) = {t \in S : status[t] = "Running"}
      /\ status' = [t \in Ids |-> IF t \in Restorable(b) THEN "Pending" ELSE status[t]]
  <2>1. Loaded(b) = status /\ misread = {}
    BY SoundSave, SoundReturn DEF Restore
  <2>2. Restorable(b) = {} => status' = status
    BY SoundReturn DEF Restore
  <2>3. Restorable(b) # {} =>
          status' = [t \in Ids |-> IF t \in Restorable(b) THEN "Pending" ELSE status[t]]
    BY <2>1, SoundSave DEF Restore
  <2>4. Restorable(b) = {t \in S : status[t] = "Running"}
    BY <1>b, <2>1 DEF Restorable
  <2>5. status = [t \in Ids |-> IF t \in {} THEN "Pending" ELSE status[t]]
    BY <1>a
  <2> QED
    BY <2>1, <2>2, <2>3, <2>4, <2>5
<1>c. PICK q \in Recs : q = [batch[b] EXCEPT !.pc = "final", !.todo = {}]
  BY <1>a DEF Recs, Pcs
<1>2. HeldIn(q) = {} /\ batch' = [batch EXCEPT ![b] = q]
  BY <1>a, <1>c, Before DEF Recs, HeldIn, Restore
<1>3. Claimed' = Claimed \ S /\ S \subseteq Claimed
  <2>1. HeldIn(q) \subseteq HeldIn(batch[b]) /\ HeldIn(batch[b]) \ HeldIn(q) = S
    BY <1>1, <1>2
  <2> QED
    BY <1>1, <1>2, <1>d, <2>1, GivesUp, ClaimedFacts
<1>4. \A t \in S : runs[t] = 0 /\ status[t] # "Pending"
  BY <1>a, <1>b, <1>d, <1>1, Before DEF RecOK
<1>5. Life!Mark({t \in S : status[t] = "Running"}, "Pending")
  BY <1>d DEF Life!Mark
<1>6. Life!Release(S)
  BY <1>a, <1>3, <1>4, <1>5 DEF Life!Release
<1> QED
  BY <1>6 DEF Life!Next

LEMMA LifeStep ==
    ASSUME Inv, NEW b \in Batches, Step(b), misread' = {}
    PROVE  [Life!Next]_(Life!vars)
<1>0. batch[b] \in Recs /\ batch \in [Batches -> Recs] /\ misread \subseteq Ids
  BY Before DEF Inv, TypeOK
<1>1. ASSUME NEW pc \in Pcs, misread = {}, Goto(b, pc),
             UNCHANGED <<status, issued, abandoned, runs>>
      PROVE  [Life!Next]_(Life!vars)
  <2>1. PICK q \in Recs : q = [batch[b] EXCEPT !.pc = pc] /\ HeldIn(q) = HeldIn(batch[b])
    BY <1>0, GotoFacts
  <2> QED
    BY <1>1, <2>1, LifeMove DEF Goto
<1>2. ASSUME NEW s \in Statuses, misread = {},
             batch' = [batch EXCEPT ![b].pc = "finish", ![b].final = s],
             UNCHANGED <<status, issued, abandoned, runs>>
      PROVE  [Life!Next]_(Life!vars)
  <2>a. PICK q \in Recs : q = [batch[b] EXCEPT !.pc = "finish", !.final = s]
    BY <1>0 DEF Recs, Pcs
  <2>1. HeldIn(q) = HeldIn(batch[b])
    BY <1>0, <2>a DEF Recs, HeldIn
  <2>2. batch' = [batch EXCEPT ![b] = q]
    BY <1>0, <1>2, <2>a
  <2> QED
    BY <1>2, <2>1, <2>2, LifeMove
<1>3. CASE BeginRun(b) \/ EndRun(b)
  BY <1>1, <1>3 DEF BeginRun, EndRun, file, race, hist, Pcs
<1>4. CASE Executed(b)
  BY <1>1, <1>2, <1>4 DEF Executed, file, race, hist, Pcs, Statuses, Finished
<1>5. CASE Gated(b)
  BY <1>1, <1>2, <1>5 DEF Gated, file, race, hist, Pcs, Statuses, Finished
<1>6. CASE NextTask(b)
  <2>0. UNCHANGED <<status, issued, abandoned, runs>> /\ misread = {}
    BY <1>6 DEF NextTask, file, race, hist
  <2>1. CASE Goto(b, AfterLoop(b))
    BY <1>1, <2>0, <2>1, AfterLoopFacts DEF Pcs
  <2>2. CASE ~Goto(b, AfterLoop(b))
    <3>1. PICK t \in batch[b].todo :
            batch' = [batch EXCEPT ![b].pc = "start", ![b].cur = t, ![b].todo = @ \ {t}]
      BY <1>6, <2>2 DEF NextTask
    <3>2. batch[b].cur = NoTask /\ t \in Ids
      BY <1>0, <1>6, Before DEF NextTask, RecOK, Recs
    <3>a. PICK q \in Recs : q = [pc |-> "start", todo |-> batch[b].todo \ {t}, cur |-> t,
                                 final |-> batch[b].final]
      BY <1>0, <3>2 DEF Recs, Pcs
    <3>3. HeldIn(q) = HeldIn(batch[b])
      BY <3>2, <3>a, Bounds DEF HeldIn
    <3>4. batch' = [batch EXCEPT ![b] = q]
      BY <1>0, <3>1, <3>a DEF Recs
    <3> QED
      BY <2>0, <3>3, <3>4, LifeMove
  <2> QED
    BY <2>1, <2>2
<1>7. CASE FinalizeRun(b)
  <2>1. status' = status /\ misread = {} /\ Goto(b, "end") /\ UNCHANGED <<issued, abandoned, runs>>
    BY <1>7, SoundSave DEF FinalizeRun, hist
  <2> QED
    BY <1>1, <2>1 DEF Pcs
<1> QED
  BY <1>3, <1>4, <1>5, <1>6, <1>7, LifeClaim, LifeStart, LifeMark, LifeFinish, LifeRestore DEF Step

\* Failures, hang-ups and dying processes.
LEMMA LifeFault ==
    ASSUME Inv, misread' = {},
           (\E b \in Batches : Fail(b) \/ HangUp(b) \/ CliDies(b)) \/ Crash \/ EditFails
           \/ \E who \in Working : LoseLock(who)
    PROVE  [Life!Next]_(Life!vars)
<1>0. misread = {} /\ status \in [Ids -> Statuses]
  <2>1. misread' = misread
    BY DEF Fail, HangUp, CliDies, Crash, EditFails, LoseLock, race
  <2> QED
    BY <2>1 DEF Inv, TypeOK
<1>1. ASSUME NEW b \in Batches, Fail(b)  PROVE Life!Next
  <2>0. UNCHANGED <<issued, runs>> /\ status' \in {status, Empty}
    BY <1>1 DEF Fail, LeavesFile
  <2>1. CASE Abort(b)
    <3>1. {b} \in SUBSET Batches /\ Leave({b}, "end")
      BY <2>1 DEF Abort
    <3> QED
      BY <1>0, <2>0, <3>1, LifeCutOff
  <2>2. CASE /\ batch[b].pc = "mark"
             /\ batch' = [batch EXCEPT ![b].pc = AfterLoop(b), ![b].cur = NoTask]
             /\ abandoned' = abandoned \cup {batch[b].cur}
    <3>1. batch[b] \in Recs /\ RecOK(batch[b])
      BY Before
    <3>2. PICK t \in Ids : t = batch[b].cur /\ t \in HeldIn(batch[b])
      BY <2>2, <3>1, Before DEF RecOK
    <3>a. PICK q \in Recs : q = [batch[b] EXCEPT !.pc = AfterLoop(b), !.cur = NoTask]
      BY <3>1, AfterLoopFacts DEF Recs, Pcs
    <3>3. HeldIn(q) = HeldIn(batch[b]) \ {t}
      <4>1. q.todo = batch[b].todo /\ q.cur = NoTask
        BY <3>1, <3>a DEF Recs
      <4> QED
        BY <3>1, <3>2, <4>1, LaysDown
    <3>4. batch' = [batch EXCEPT ![b] = q]
      BY <2>2, <3>a, Before
    <3>5. Claimed' = Claimed \ {t} /\ {t} \subseteq Claimed
      <4>1. HeldIn(q) \subseteq HeldIn(batch[b]) /\ HeldIn(batch[b]) \ HeldIn(q) = {t}
        BY <3>2, <3>3
      <4>2. misread = {}
        BY <1>0
      <4>3. Claimed' = Claimed \ (HeldIn(batch[b]) \ HeldIn(q))
        BY <3>4, <4>1, <4>2, GivesUp
      <4>4. t \in Claimed
        BY <3>2, ClaimedFacts
      <4> QED
        BY <4>1, <4>3, <4>4
    <3>6. Life!CutOff({t})
      BY <2>0, <2>2, <3>2, <3>5 DEF Life!CutOff
    <3>7. CASE status' = status
      BY <3>2, <3>6, <3>7 DEF Life!Next, Life!Abandon
    <3>8. CASE status' = Empty
      <4>1. Life!Mark(Ids, "Absent")
        BY <3>8 DEF Life!Mark, Empty
      <4> QED
        BY <3>2, <3>6, <4>1 DEF Life!Next, Life!Truncate
    <3> QED
      BY <2>0, <3>7, <3>8
  <2> QED
    BY <1>1, <2>1, <2>2 DEF Fail
<1>2. ASSUME NEW b \in Batches, HangUp(b)  PROVE Life!Next
  <2>1. {b} \in SUBSET Batches /\ Leave({b}, "done") /\ UNCHANGED <<issued, runs, status>>
    BY <1>2 DEF HangUp, file
  <2> QED
    BY <1>0, <2>1, LifeCutOff
<1>3. ASSUME NEW b \in Batches, CliDies(b)  PROVE Life!Next
  <2>1. {b} \in SUBSET Batches /\ Leave({b}, "done") /\ UNCHANGED <<issued, runs>> /\ LeavesFile
    BY <1>3 DEF CliDies
  <2> QED
    BY <1>0, <2>1, LifeCutOff DEF LeavesFile
<1>4. CASE Crash
  <2>1. /\ Sidecar \cap Active \in SUBSET Batches /\ Leave(Sidecar \cap Active, "done")
        /\ UNCHANGED <<issued, runs>> /\ LeavesFile
    BY <1>4 DEF Crash, Sidecar
  <2> QED
    BY <1>0, <2>1, LifeCutOff DEF LeavesFile
<1>5. ASSUME UNCHANGED <<issued, batch, runs, abandoned>>, status' \in {status, Empty}
      PROVE  [Life!Next]_(Life!vars)
  <2>1. Claimed' = Claimed
    BY <1>5, ClaimedFacts
  <2>2. CASE status' = Empty
    <3>1. Life!Mark(Ids, "Absent") /\ Life!CutOff({})
      BY <1>5, <2>1, <2>2 DEF Life!Mark, Empty, Life!CutOff
    <3> QED
      BY <3>1 DEF Life!Next, Life!Truncate
  <2> QED
    BY <1>5, <2>1, <2>2, LifeStutter
<1>6. CASE EditFails \/ \E who \in Working : LoseLock(who)
  BY <1>5, <1>6 DEF EditFails, LeavesFile, LoseLock, file, hist
<1> QED
  BY <1>1, <1>2, <1>3, <1>4, <1>6

LEMMA LifeInitial == Init => Life!Init
<1> SUFFICES ASSUME Init  PROVE Life!Init
  OBVIOUS
<1>1. Claimed = {}
  BY DEF Init, Claimed, Held, Locals
<1>2. 1..issued = {}
  BY DEF Init
<1> QED
  BY <1>1, <1>2 DEF Init, Life!Init

LEMMA LifeNext == Inv /\ [Next]_vars => [misread' = {} => Life!Next]_(Life!vars)
<1> SUFFICES ASSUME Inv, [Next]_vars, misread' = {}  PROVE [Life!Next]_(Life!vars)
  OBVIOUS
<1>1. CASE UNCHANGED vars
  <2>1. Claimed' = Claimed
    BY <1>1, ClaimedFacts DEF vars
  <2> QED
    BY <1>1, <2>1, LifeStutter DEF vars, file, hist
<1>2. CASE Next
  BY <1>2, LifeEdit, LifeStep, LifeFault DEF Next
<1> QED
  BY <1>1, <1>2

\* Every step of a handler, a batch or a dying process over the file is one that
\* NightLife allows for an entry, until an operation goes by a document that has
\* changed since it was loaded (store.rs, runner.rs, run_control.rs).
THEOREM NightRefinement == Spec => ImplementsNightLife
<1>1. ImplementsNightLife <=> Life!Init /\ [][misread' = {} => Life!Next]_(Life!vars)
  BY DEF ImplementsNightLife
<1> QED
  BY <1>1, LifeNext, Invariance, LifeInitial, PTL DEF Spec

\* What the user finds in the morning can be trusted, unless an operation has gone
\* by a document that had changed since it was loaded: a verdict was earned by one
\* execution, nothing pending was ever let loose or is claimed, and what is running
\* has a batch or lost it with a batch that was cut off.
THEOREM MorningReport == Spec => [](misread = {} => Life!Reliable)
<1>1. Inv => (misread = {} => Life!Reliable)
  <2> SUFFICES ASSUME Inv, misread = {}, NEW t \in Ids
               PROVE  /\ status[t] \in Life!Verdicts => runs[t] = 1
                      /\ runs[t] \in {0, 1}
                      /\ status[t] = "Pending" => runs[t] = 0 /\ t \notin Claimed
                      /\ status[t] = "Running" => t \in Claimed \cup abandoned
    BY DEF Life!Reliable
  <2>1. RunsOnce /\ RunningHasBatch /\ FileInv /\ runs[t] \in Nat
    BY DEF Inv, TypeOK
  <2>2. status[t] = "Pending" => t \notin Claimed
    BY Before, ClaimedFacts
  <2> QED
    BY <2>1, <2>2 DEF RunsOnce, RunningHasBatch, FileInv, Claimed, Life!Verdicts
<1> QED
  BY <1>1, Invariance, PTL

=============================================================================
