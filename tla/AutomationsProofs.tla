-------------------------- MODULE AutomationsProofs --------------------------
(***************************************************************************)
(* Proofs that the safety properties of Automations hold for any number of *)
(* automations, runs, tasks and faults and any rules.                      *)
(*                                                                         *)
(* The argument: what the holder of the mutex has listed is what the files *)
(* hold; the slots that were launched are not beyond the next slot of an   *)
(* active automation; and a run that is recorded tells its slot.           *)
(***************************************************************************)
EXTENDS Automations, FiniteSetTheorems, TLAPS

Levels == Open \cup Settled \cup {"Absent"}

LifeOK ==
    /\ up \in BOOLEAN
    /\ life \in [Tasks -> Levels] /\ saved \in [Tasks -> Levels]

OpRecs == [pc : Pcs, list : [Autos -> AutoRecs], todo : SUBSET Autos, run : 0..MaxRuns,
           rec : RunRecs, check : SUBSET Runs, now : 0..Horizon]

Making(o) == o.pc \in {"adding", "record", "advance"}

\* What the holder of the mutex has read is still so.
ListOK(o) ==
    /\ up \/ o.pc = "free"
    /\ o.now <= now
    /\ o.pc \in {"free", "reconcile", "delete"} => o.todo = {}
    /\ o.pc \notin {"reconcile", "delete"} => o.check = {}
    /\ \A a \in o.todo : o.list[a] = autos[a] /\ Kept(a)

\* The run being made is the last one begun; one that is scheduled is for the slot
\* of its automation.
MakingOK(o) ==
    Making(o) => /\ o.run = begun /\ begun \in Runs
                 /\ o.rec # NoRun /\ o.rec.auto \notin o.todo
                 /\ o.list[o.rec.auto] = autos[o.rec.auto] /\ Kept(o.rec.auto)
                 /\ o.rec.slot # None => /\ autos[o.rec.auto].next = o.rec.slot
                                         /\ o.rec.slot <= now

\* The runs to reconcile are recorded; those to delete belong to an automation that
\* is deleted already.
CheckOK(o) ==
    \A r \in o.check :
        /\ o.pc = "reconcile" => runs[r].task \in Tasks /\ runs[r] # NoRun
        /\ o.pc = "delete" => runs[r].auto \in Autos /\ autos[runs[r].auto].status = "Deleted"

\* Runs that were not begun have no record.
RunInv == \A r \in Runs : r > begun => runs[r] = NoRun

LaunchOK(x) ==
    /\ x.run <= begun /\ x.slot <= now
    /\ runs[x.run] # NoRun => runs[x.run].auto = x.auto /\ runs[x.run].slot = x.slot
    /\ Making(op) /\ op.run = x.run => op.rec.auto = x.auto /\ op.rec.slot = x.slot
    /\ autos[x.auto].status = "Active" => x.slot <= autos[x.auto].next

LaunchInv == \A x \in launched : LaunchOK(x)

OpOK(o) == ListOK(o) /\ MakingOK(o) /\ CheckOK(o)

Inv ==
    /\ TypeOK /\ LifeOK /\ OpOK(op) /\ RunInv /\ LaunchInv
    /\ NextIffActive /\ SlotFiredOnce

-----------------------------------------------------------------------------
LEMMA Consts ==
    /\ Horizon \in Nat /\ MaxRuns \in Nat /\ MaxManual \in Nat /\ MaxFaults \in Nat
    /\ MaxCatchup \in Nat /\ Periods \subseteq Nat \ {0} /\ Dates \subseteq Nat \ {0}
    /\ NoId \notin Autos /\ NoId \notin Tasks /\ Outcomes \subseteq Settled
    /\ Runs \subseteq Nat
  BY BoundsAssumption, IdsAssumption, OutcomesAssumption DEF Settled, Runs

LEMMA Dated == Periods \subseteq Nat /\ Dates \subseteq Nat
  BY Consts

LEMMA RuleFacts ==
    /\ \A rule \in Schedules : rule.period \in Nat /\ rule.at \in Nat
    /\ Blank \in AutoRecs /\ Blank.status = "New" /\ Blank.next = None
    /\ Blank.rule.period \in Nat /\ Blank.rule.at \in Nat
<1>1. ASSUME NEW rule \in Schedules  PROVE rule.period \in Nat /\ rule.at \in Nat
  <2>1. CASE rule \in Once
    <3>1. rule.period = 0 /\ rule.at \in Dates
      BY <2>1 DEF Once
    <3>2. rule.at \in Nat
      BY <3>1, Dated, Zenon
    <3> QED
      BY <3>1, <3>2
  <2>2. CASE rule \in Every
    <3>1. rule.period \in Periods /\ rule.at = 0
      BY <2>2 DEF Every
    <3>2. rule.period \in Nat
      BY <3>1, Dated, Zenon
    <3> QED
      BY <3>1, <3>2
  <2> QED
    BY <2>1, <2>2 DEF Schedules
<1>2. /\ Blank \in AutoRecs /\ Blank.status = "New" /\ Blank.next = None
      /\ Blank.rule.period \in Nat /\ Blank.rule.at \in Nat
  BY DEF Blank, AutoRecs, Slots, None
<1> QED
  BY <1>1, <1>2

LEMMA AutoFacts ==
    ASSUME NEW auto \in AutoRecs
    PROVE  /\ auto.rule \in Schedules \cup {Blank.rule} /\ auto.next \in Nat
           /\ auto.rule.period \in Nat /\ auto.rule.at \in Nat
           /\ auto.status \in {"New", "Active", "Paused", "Deleted"}
  BY RuleFacts DEF AutoRecs, Slots

\* next_after_opt gives a slot after `t`, if any.
LEMMA NextAfterFacts ==
    ASSUME NEW rule \in Schedules \cup {Blank.rule}, NEW t \in Nat
    PROVE  NextAfter(rule, t) \in Nat /\ (NextAfter(rule, t) # None => NextAfter(rule, t) > t)
<1>1. rule.period \in Nat /\ rule.at \in Nat
  BY RuleFacts
<1> QED
  BY <1>1 DEF NextAfter, None

\* apply_next_run_after_fire leaves the slot behind.
LEMMA AfterFireFacts ==
    ASSUME NEW auto \in AutoRecs, auto.status = "Active", now \in Nat,
           NEW due \in Nat \ {0}, due <= now
    PROVE  /\ AfterFire(auto, due) \in AutoRecs
           /\ AfterFire(auto, due).status \in {"Active", "Paused"}
           /\ AfterFire(auto, due).status = "Active" <=> AfterFire(auto, due).next # None
           /\ AfterFire(auto, due).status = "Active" => due < AfterFire(auto, due).next
<1>1. CASE auto.rule.period = 0
  <2>1. AfterFire(auto, due) = [auto EXCEPT !.next = None, !.status = "Paused"]
    BY <1>1 DEF AfterFire
  <2>a. AfterFire(auto, due) = [status |-> "Paused", next |-> None, rule |-> auto.rule]
    BY <2>1 DEF AutoRecs
  <2>2. AfterFire(auto, due).next = None /\ AfterFire(auto, due).status = "Paused"
    BY <2>a
  <2>3. AfterFire(auto, due) \in AutoRecs
    BY <2>a, AutoFacts DEF AutoRecs, Slots, None
  <2> QED
    BY <2>2, <2>3
<1>2. CASE auto.rule.period # 0
  <2>1. PICK p \in Nat \ {0} : p = auto.rule.period
    BY <1>2, AutoFacts
  <2>2. PICK k \in Nat : k = IF (now - due) \div p < MaxCatchup THEN (now - due) \div p
                             ELSE MaxCatchup
    <3>1. now - due \in Nat
      OBVIOUS
    <3>2. (now - due) \div p \in Nat
      BY <3>1
    <3> QED
      BY <3>2, Consts
  <2>3. PICK n \in Nat : n = due + (k + 1) * p /\ n > due
    <3>1. (k + 1) * p \in Nat /\ (k + 1) * p > 0
      <4>1. k + 1 \in Nat \ {0}
        OBVIOUS
      <4>2. \A m \in Nat \ {0} : m * p \in Nat /\ m * p > 0
        OBVIOUS
      <4> QED
        BY <4>1, <4>2
    <3> QED
      BY <3>1
  <2>4. AfterFire(auto, due) = [auto EXCEPT !.next = n]
    BY <1>2, <2>1, <2>2, <2>3 DEF AfterFire
  <2>5. AfterFire(auto, due).next = n /\ AfterFire(auto, due).status = "Active"
    BY <2>4 DEF AutoRecs
  <2>6. AfterFire(auto, due) \in AutoRecs
    BY <2>4 DEF AutoRecs, Slots
  <2> QED
    BY <2>3, <2>5, <2>6 DEF None
<1> QED
  BY <1>1, <1>2

LEMMA RunFacts ==
    /\ NoRun \in RunRecs /\ NoRun.status = "Absent" /\ NoRun.auto = NoId /\ NoRun.slot = None
    /\ \A r \in RunRecs : /\ r # NoRun => r.auto \in Autos /\ r.status \in Open \cup Settled
                          /\ r.slot \in Nat /\ r.status \in Levels /\ r.task \in Tasks \cup {NoId}
                          /\ r.auto \in Autos => r # NoRun
                          /\ r.status = "Absent" => r = NoRun
  BY Consts DEF RunRecs, NoRun, Slots, None, Levels, Open, Settled

LEMMA TypeParts ==
    TypeOK <=> /\ autos \in [Autos -> AutoRecs] /\ runs \in [Runs -> RunRecs]
               /\ begun \in 0..MaxRuns /\ op \in OpRecs
               /\ nights \subseteq Runs /\ now \in 0..Horizon
               /\ launched \subseteq [run : Runs, auto : Autos, slot : Slots]
               /\ manual \in 0..MaxManual /\ faults \in 0..MaxFaults
  BY DEF TypeOK, OpRecs

LEMMA IdleFacts ==
    /\ Idle \in OpRecs /\ Idle.pc = "free" /\ Idle.now = 0 /\ Idle.todo = {} /\ Idle.check = {}
    /\ ~Making(Idle)
  BY Consts, RunFacts, RuleFacts DEF Idle, OpRecs, Making, Pcs

LEMMA InvInit == Init => Inv
<1> SUFFICES ASSUME Init  PROVE Inv
  OBVIOUS
<1> USE Consts
<1>1. TypeOK
  <2>1. 0 \in 0..MaxRuns /\ 0 \in 0..MaxManual /\ 0 \in 0..MaxFaults /\ 0 \in 0..Horizon
    OBVIOUS
  <2> QED
    BY <2>1, TypeParts, RunFacts, RuleFacts, IdleFacts DEF Init
<1>2. LifeOK /\ NextIffActive
  BY RuleFacts DEF Init, Life!Init, LifeOK, Levels, NextIffActive
<1>3. OpOK(op)
  BY IdleFacts DEF Init, OpOK, ListOK, MakingOK, CheckOK
<1>4. RunInv /\ LaunchInv /\ SlotFiredOnce
  BY DEF Init, RunInv, LaunchInv, SlotFiredOnce
<1> QED
  BY <1>1, <1>2, <1>3, <1>4 DEF Inv

-----------------------------------------------------------------------------
\* What is known before a step.
LEMMA Before ==
    ASSUME Inv
    PROVE  /\ autos \in [Autos -> AutoRecs] /\ runs \in [Runs -> RunRecs]
           /\ begun \in Nat /\ begun <= MaxRuns /\ now \in Nat /\ now <= Horizon
           /\ op \in OpRecs /\ OpOK(op)
           /\ \A x \in launched : /\ x.run \in Runs /\ x.run \in Nat /\ x.auto \in Autos
                                  /\ x.slot \in Nat
           /\ LifeOK /\ NextIffActive /\ RunInv /\ LaunchInv /\ SlotFiredOnce
<1>1. /\ autos \in [Autos -> AutoRecs] /\ runs \in [Runs -> RunRecs]
      /\ begun \in 0..MaxRuns /\ now \in 0..Horizon /\ op \in OpRecs
  BY TypeParts DEF Inv
<1>2. begun \in Nat /\ begun <= MaxRuns /\ now \in Nat /\ now <= Horizon
  BY <1>1, Consts
<1>3. \A x \in launched : x.run \in Runs /\ x.auto \in Autos /\ x.slot \in Nat
  BY TypeParts DEF Inv, Slots
<1>4. \A x \in launched : x.run \in Nat
  BY <1>3, Consts
<1> QED
  BY <1>1, <1>2, <1>3, <1>4 DEF Inv

LEMMA AbsentFacts ==
    ASSUME TypeOK
    PROVE  \A r \in Runs : runs[r].status = "Absent" <=> runs[r] = NoRun
  BY TypeParts, RunFacts

SameRuns ==
    \A r \in Runs : /\ runs'[r].auto = runs[r].auto /\ runs'[r].slot = runs[r].slot
                    /\ runs'[r] = NoRun <=> runs[r] = NoRun

\* Steps that launch nothing and keep the records of the automations.
LEMMA Quiet ==
    ASSUME Inv, TypeOK', LifeOK', OpOK(op)', UNCHANGED <<autos, begun, launched>>,
           now <= now', SameRuns,
           Making(op') => /\ Making(op) /\ op'.rec.auto = op.rec.auto
                          /\ op'.rec.slot = op.rec.slot
    PROVE  Inv'
<1>1. RunInv' /\ NextIffActive'
  BY Before DEF RunInv, NextIffActive, SameRuns
<1>2. LaunchInv'
  <2> SUFFICES ASSUME NEW x \in launched  PROVE LaunchOK(x)'
    BY DEF LaunchInv
  <2>1. LaunchOK(x) /\ x.run \in Runs /\ x.slot \in Nat /\ now \in Nat /\ now' \in Nat
    BY Before, TypeParts DEF LaunchInv, TypeOK
  <2>2. x.slot <= now'
    BY <2>1 DEF LaunchOK
  <2>3. runs'[x.run] # NoRun => runs'[x.run].auto = x.auto /\ runs'[x.run].slot = x.slot
    BY <2>1 DEF LaunchOK, SameRuns
  <2>4. Making(op') /\ op'.run = x.run => op'.rec.auto = x.auto /\ op'.rec.slot = x.slot
    <3> SUFFICES ASSUME Making(op'), op'.run = x.run
                 PROVE  op'.rec.auto = x.auto /\ op'.rec.slot = x.slot
      OBVIOUS
    <3>1. op'.run = begun' /\ op.run = begun
      BY Before DEF OpOK, MakingOK
    <3> QED
      BY <3>1, <2>1 DEF LaunchOK
  <2> QED
    BY <2>1, <2>2, <2>3, <2>4 DEF LaunchOK
<1>3. SlotFiredOnce'
  <2>1. \A r \in Runs : runs'[r].status = "Absent" <=> runs[r].status = "Absent"
    <3>1. \A r \in Runs : runs'[r].status = "Absent" <=> runs'[r] = NoRun
      BY TypeParts, RunFacts DEF TypeOK
    <3> QED
      BY <3>1, AbsentFacts DEF Inv, SameRuns
  <2>2. \A a : Recorded(a)' = Recorded(a)
    BY DEF Recorded, SameRuns
  <2>3. SlotFiredOnce /\ \A x \in launched : x.run \in Runs
    BY Before
  <2> QED
    BY <2>1, <2>2, <2>3 DEF SlotFiredOnce
<1> QED
  BY <1>1, <1>2, <1>3 DEF Inv

\* Steps that give one automation another record.
LEMMA WriteAuto ==
    ASSUME Inv, NEW a \in Autos, NEW r \in AutoRecs, autos' = [autos EXCEPT ![a] = r],
           autos[a].status # "Deleted", r.status = "Active" <=> r.next # None,
           r.status = "Active" => \A x \in launched : x.auto = a => x.slot <= r.next,
           op' \in OpRecs, OpOK(op)', ~Making(op'),
           UNCHANGED <<runs, begun, nights, now, launched, bounds, tasks>>
    PROVE  Inv'
<1>1. TypeOK'
  <2>1. autos' \in [Autos -> AutoRecs]
    BY Before
  <2> QED
    BY <2>1, TypeParts DEF TypeOK, OpRecs, Inv, bounds
<1>2. LifeOK' /\ RunInv'
  BY DEF Inv, LifeOK, RunInv, tasks
<1>3. NextIffActive'
  BY Before DEF NextIffActive
<1>4. LaunchInv'
  <2> SUFFICES ASSUME NEW x \in launched  PROVE LaunchOK(x)'
    BY DEF LaunchInv
  <2>1. LaunchOK(x) /\ autos \in [Autos -> AutoRecs]
    BY Before DEF LaunchInv
  <2>2. autos'[x.auto].status = "Active" => x.slot <= autos'[x.auto].next
    BY <2>1, Before DEF LaunchOK
  <2> QED
    BY <2>1, <2>2 DEF LaunchOK
<1>5. SlotFiredOnce'
  <2>1. \A b \in Autos : autos[b].status = "Deleted" => autos'[b].status = "Deleted"
    BY Before
  <2>2. \A x \in launched : x.auto \in Autos
    BY Before
  <2> QED
    BY <2>1, <2>2 DEF Inv, SlotFiredOnce, Recorded
<1> QED
  BY <1>1, <1>2, <1>3, <1>4, <1>5 DEF Inv

\* The runs of an automation are finitely many, all of them begun.
LEMMA RecordedFacts ==
    ASSUME Inv, NEW a \in Autos
    PROVE  /\ \A r \in Recorded(a) : r \in Runs /\ r <= begun /\ runs[r] # NoRun
           /\ \A n \in Runs : Cardinality({q \in Recorded(a) : q > n}) \in Nat
<1>1. \A r \in Recorded(a) : runs[r] # NoRun
  BY RunFacts, Consts DEF Recorded
<1>2. \A r \in Recorded(a) : r \in Runs /\ r <= begun
  <2>1. \A r \in Recorded(a) : r \in Nat /\ ~(r > begun)
    BY <1>1, Before, Consts DEF Recorded, RunInv
  <2> QED
    BY <2>1, Before DEF Recorded
<1>3. \A n \in Runs : Cardinality({q \in Recorded(a) : q > n}) \in Nat
  <2>1. IsFiniteSet(Runs)
    BY FS_Interval, Consts DEF Runs
  <2>2. \A n \in Runs : {q \in Recorded(a) : q > n} \subseteq Runs
    BY DEF Recorded
  <2> QED
    BY <2>1, <2>2, FS_Subset, FS_CardinalityType
<1> QED
  BY <1>1, <1>2, <1>3

\* A slot whose run is among the last SlotLimit is not launched again.
LEMMA NotRecent ==
    ASSUME Inv, NEW a \in Autos, NEW x \in launched, x.auto = a, NEW slot \in Nat, x.slot = slot,
           \A r \in LastRuns(a, SlotLimit) : runs[r].slot # slot
    PROVE  \/ runs[x.run].status = "Absent"
           \/ Cardinality({q \in Recorded(a) : q > x.run}) >= SlotLimit
<1> SUFFICES ASSUME runs[x.run].status # "Absent"
             PROVE  Cardinality({q \in Recorded(a) : q > x.run}) >= SlotLimit
  OBVIOUS
<1>1. x.run \in Runs /\ LaunchOK(x) /\ runs[x.run] # NoRun
  BY Before, AbsentFacts DEF LaunchInv, Inv
<1>2. x.run \in Recorded(a) /\ runs[x.run].slot = slot
  BY <1>1 DEF LaunchOK, Recorded
<1>3. ~(Cardinality({q \in Recorded(a) : q > x.run}) < SlotLimit)
  BY <1>2 DEF LastRuns
<1>4. Cardinality({q \in Recorded(a) : q > x.run}) \in Nat /\ SlotLimit \in Nat
  BY <1>1, RecordedFacts, BoundsAssumption
<1> QED
  BY <1>3, <1>4

\* A launch, with what its caller has made sure of.
LEMMA LaunchStep ==
    ASSUME Inv, up, ~Making(op), NEW a \in Autos, NEW slot \in Nat, NEW o \in OpRecs,
           Launch(a, slot, o), manual' \in 0..MaxManual,
           Kept(a), o.list[a] = autos[a], a \notin o.todo, o.check = {}, o.now <= now,
           \A b \in o.todo : o.list[b] = autos[b] /\ Kept(b),
           slot # None => /\ autos[a].next = slot /\ slot <= now
                          /\ \A r \in LastRuns(a, SlotLimit) : runs[r].slot # slot
    PROVE  Inv'
<1>0. PICK n \in Nat : n = begun + 1
  BY Before
<1> DEFINE new == [run |-> n, auto |-> a, slot |-> slot]
<1>1. PICK pc \in {"adding", "record"}, rec \in RunRecs :
        /\ Begin(rec, pc, o) /\ rec # NoRun /\ rec.auto = a /\ rec.slot = slot
        /\ launched' \in {launched, launched \cup {new}}
        /\ runs' \in {runs, [runs EXCEPT ![n] = rec]}
        /\ nights' \in {nights, nights \cup {n}} /\ LifeOK' /\ up' = up
  <2> DEFINE Rec(s, t) == Run(a, slot, s, t)
  <2>1. \A s \in Open \cup Settled, t \in Tasks \cup {NoId} :
          /\ Rec(s, t) \in RunRecs /\ Rec(s, t) # NoRun
          /\ Rec(s, t).auto = a /\ Rec(s, t).slot = slot
    BY Consts DEF Run, RunRecs, NoRun, Slots
  <2>2. CASE LaunchTask(a, slot, o)
    <3>1. PICK t \in Tasks : Life!Create(t) /\ Begin(Rec("Queued", t), "adding", o)
      BY <2>2 DEF LaunchTask
    <3>2. LifeOK' /\ up' = up
      BY <3>1, Before DEF Life!Create, LifeOK, Levels, Open
    <3>3. Rec("Queued", t) \in RunRecs /\ Rec("Queued", t) # NoRun
          /\ Rec("Queued", t).auto = a /\ Rec("Queued", t).slot = slot
      BY <2>1 DEF Open
    <3> HIDE DEF Rec
    <3> QED
      BY <1>0, <2>2, <3>1, <3>2, <3>3 DEF LaunchTask, Starts
  <2>3. LifeOK /\ (UNCHANGED tasks => LifeOK' /\ up' = up)
    BY Before DEF LifeOK, tasks
  <2>4. CASE LaunchEnqueue(a, slot, o)
    <3>1. Rec("Completed", NoId) \in RunRecs /\ Rec("Completed", NoId) # NoRun
          /\ Rec("Completed", NoId).auto = a /\ Rec("Completed", NoId).slot = slot
      BY <2>1 DEF Settled
    <3>2. Begin(Rec("Completed", NoId), "record", o)
      BY <2>4 DEF LaunchEnqueue
    <3> HIDE DEF Rec
    <3> QED
      BY <1>0, <2>3, <2>4, <3>1, <3>2 DEF LaunchEnqueue, Starts
  <2>5. CASE LaunchNight(a, slot, o)
    <3>1. Rec("Running", NoId) \in RunRecs /\ Rec("Running", NoId) # NoRun
          /\ Rec("Running", NoId).auto = a /\ Rec("Running", NoId).slot = slot
      BY <2>1 DEF Open
    <3>2. /\ Begin(Rec("Running", NoId), "record", o)
          /\ runs' = [runs EXCEPT ![n] = Rec("Running", NoId)]
      BY <1>0, <2>5 DEF LaunchNight
    <3> HIDE DEF Rec
    <3> QED
      BY <1>0, <2>3, <2>5, <3>1, <3>2 DEF LaunchNight, Starts
  <2>6. CASE Refused(a, slot, o)
    <3>1. Rec("Failed", NoId) \in RunRecs /\ Rec("Failed", NoId) # NoRun
          /\ Rec("Failed", NoId).auto = a /\ Rec("Failed", NoId).slot = slot
      BY <2>1 DEF Settled
    <3>2. Begin(Rec("Failed", NoId), "record", o)
      BY <2>6 DEF Refused
    <3> HIDE DEF Rec
    <3> QED
      BY <1>0, <2>3, <2>6, <3>1, <3>2 DEF Refused
  <2> QED
    BY <2>2, <2>4, <2>5, <2>6 DEF Launch
<1>2. /\ n \in Runs /\ n \in 0..MaxRuns /\ begun' = n /\ begun \in Nat /\ now' = now
      /\ autos' = autos /\ faults' = faults
  BY <1>0, <1>1, Before, Consts DEF Begin, Runs
<1>3. PICK q \in OpRecs : q = [o EXCEPT !.pc = pc, !.run = n, !.rec = rec]
  BY <1>2 DEF OpRecs, Pcs
<1>4. /\ op' = q /\ q.pc = pc /\ q.run = n /\ q.rec = rec /\ q.list = o.list
      /\ q.todo = o.todo /\ q.check = {} /\ q.now = o.now
  BY <1>0, <1>1, <1>3 DEF Begin, OpRecs
<1>5. /\ runs' \in [Runs -> RunRecs] /\ \A r \in Runs \ {n} : runs'[r] = runs[r]
      /\ runs'[n] \in {NoRun, rec}
  <2>1. runs[n] = NoRun
    BY <1>0, <1>2, Before DEF RunInv
  <2> QED
    BY <1>1, <1>2, <2>1, Before
<1>6. TypeOK'
  <2>1. op' \in OpRecs
    BY <1>4
  <2>2. launched' \subseteq [run : Runs, auto : Autos, slot : Slots]
    BY <1>1, <1>2, TypeParts DEF Inv, Slots
  <2>3. nights' \subseteq Runs
    BY <1>1, <1>2, TypeParts DEF Inv
  <2> QED
    BY <1>2, <1>5, <2>1, <2>2, <2>3, TypeParts DEF Inv, TypeOK, OpRecs
<1>7. OpOK(q)'
  <2>1. ListOK(q)'
    BY <1>1, <1>2, <1>4 DEF ListOK, Kept
  <2>2. MakingOK(q)'
    BY <1>1, <1>2, <1>4 DEF MakingOK, Kept
  <2>3. CheckOK(q)'
    BY <1>4 DEF CheckOK
  <2> QED
    BY <2>1, <2>2, <2>3 DEF OpOK
<1>8. RunInv'
  <2>1. \A r \in Runs : r > n => r # n /\ r > begun
    BY <1>0, <1>2, Consts
  <2> QED
    BY <1>2, <1>5, <2>1, Before DEF RunInv
<1>9. \A x \in launched : x.run # n /\ x.run <= begun /\ x.run \in Runs \ {n}
  <2>1. \A x \in launched : x.run <= begun /\ x.run \in Nat /\ x.run \in Runs
    BY Before DEF LaunchInv, LaunchOK
  <2> QED
    BY <2>1, <1>0, <1>2
<1>10. LaunchInv'
  <2>1. ASSUME NEW x \in launched  PROVE LaunchOK(x)'
    <3>1. LaunchOK(x) /\ x.run \in Nat
      BY Before DEF LaunchInv
    <3>2. x.run <= begun'
      BY <1>0, <1>2, <1>9, <3>1
    <3>3. runs'[x.run] = runs[x.run] /\ op'.run # x.run
      BY <1>4, <1>5, <1>9
    <3> QED
      BY <1>2, <3>1, <3>2, <3>3 DEF LaunchOK
  <2>2. LaunchOK(new)'
    <3>1. /\ new.run <= begun' /\ new.slot <= now'
          /\ runs'[new.run] # NoRun =>
                runs'[new.run].auto = new.auto /\ runs'[new.run].slot = new.slot
          /\ op'.rec.auto = new.auto /\ op'.rec.slot = new.slot
      BY <1>1, <1>2, <1>4, <1>5, Before DEF None
    <3>2. autos'[new.auto].status = "Active" => new.slot <= autos'[new.auto].next
      <4>1. autos[a].next \in Nat
        BY Before, AutoFacts
      <4> QED
        BY <1>2, <4>1 DEF None
    <3> QED
      BY <3>1, <3>2 DEF LaunchOK
  <2> QED
    BY <1>1, <2>1, <2>2 DEF LaunchInv
<1>11. SlotFiredOnce'
  <2> SUFFICES ASSUME NEW x \in launched', NEW y \in launched',
                      x.auto = y.auto, x.slot = y.slot, x.slot # None, x.run < y.run,
                      autos'[x.auto].status # "Deleted"
               PROVE  \/ runs'[x.run].status = "Absent"
                      \/ Cardinality({r \in Recorded(x.auto)' : x.run < r /\ r < y.run})
                            >= SlotLimit
    BY DEF SlotFiredOnce
  <2>1. x \in launched
    BY <1>0, <1>1, <1>2, <1>9, Before
  <2>2. runs'[x.run] = runs[x.run] /\ x.auto \in Autos /\ x.run \in Nat
    BY <1>5, <1>9, <2>1, Before
  <2>3. \A r \in Runs \ {n} : r \in Recorded(x.auto)' <=> r \in Recorded(x.auto)
    BY <1>5 DEF Recorded
  <2>4. CASE y \in launched
    <3>1. y.run <= begun /\ y.run \in Nat
      BY <2>4, <1>9, Before
    <3>2. \A r \in Runs : r < y.run => r # n
      BY <1>0, <1>2, <3>1, Consts
    <3>3. {r \in Recorded(x.auto)' : x.run < r /\ r < y.run}
            = {r \in Recorded(x.auto) : x.run < r /\ r < y.run}
      BY <2>3, <3>2 DEF Recorded
    <3>4. autos[x.auto].status # "Deleted"
      BY <1>1 DEF Begin
    <3> QED
      BY <2>1, <2>2, <2>4, <3>3, <3>4, Before DEF SlotFiredOnce
  <2>5. CASE y \notin launched
    <3>1. y = new
      BY <1>1, <2>5
    <3>2. \/ runs[x.run].status = "Absent"
          \/ Cardinality({r \in Recorded(a) : r > x.run}) >= SlotLimit
      BY <2>1, <3>1, NotRecent
    <3>3. \A r \in Recorded(a) : r \in Runs \ {n} /\ r < n
      <4>1. \A r \in Recorded(a) : r \in Runs /\ r \in Nat /\ r <= begun
        BY RecordedFacts, Consts
      <4> QED
        BY <4>1, <1>0, <1>2
    <3>4. {r \in Recorded(a)' : x.run < r /\ r < n} = {r \in Recorded(a) : r > x.run}
      <4>1. \A r \in Runs : r < n => r # n
        BY <1>2, Consts
      <4>2. x.auto = a
        BY <3>1
      <4>3. \A r \in Recorded(a)' : r \in Runs /\ r \in Nat
        BY Consts DEF Recorded
      <4>4. \A r \in Recorded(a) : r \in Runs /\ r \in Nat
        BY Consts DEF Recorded
      <4> QED
        BY <2>2, <2>3, <3>3, <4>1, <4>2, <4>3, <4>4
    <3> QED
      BY <2>2, <3>1, <3>2, <3>4
  <2> QED
    BY <2>4, <2>5
<1> QED
  BY <1>1, <1>2, <1>4, <1>6, <1>7, <1>8, <1>10, <1>11, Before DEF Inv, NextIffActive

-----------------------------------------------------------------------------
(* Requests. *)

StayDeleted == \A a \in Autos : autos[a].status = "Deleted" => autos'[a].status = "Deleted"

LEMMA FreeFacts ==
    ASSUME Inv, Free
    PROVE  /\ op.todo = {} /\ op.check = {} /\ ~Making(op)
           /\ UNCHANGED <<op, now, up>> => op' \in OpRecs /\ OpOK(op)' /\ ~Making(op')
  BY Before DEF Free, OpOK, ListOK, MakingOK, CheckOK, Making

\* The locals of a holder that goes through the runs of S, all of which are in order.
LEMMA ThroughFacts ==
    ASSUME NEW S \in SUBSET Runs, NEW pc \in {"reconcile", "delete"}, Through(S, pc)
    PROVE  \E o \in OpRecs : /\ op' = o /\ ~Making(o) /\ o.todo = {} /\ o.now = 0 /\ o.check = S
                             /\ o.pc = pc \/ (o.pc = "free" /\ S = {})
<1>1. CASE S = {}
  <2>1. op' = Idle
    BY <1>1 DEF Through
  <2>2. Idle.todo = {} /\ Idle.now = 0 /\ Idle.check = {} /\ Idle.pc = "free"
    BY DEF Idle
  <2> QED
    BY <1>1, <2>1, <2>2, IdleFacts DEF Making
<1>2. CASE S # {}
  <2>1. PICK o \in OpRecs : o = [Idle EXCEPT !.pc = pc, !.check = S]
    BY IdleFacts DEF OpRecs, Pcs
  <2>2. op' = o
    BY <1>2, <2>1 DEF Through
  <2>3. o.todo = {} /\ o.now = 0 /\ o.check = S /\ o.pc = pc
    BY <2>1, IdleFacts DEF OpRecs
  <2> QED
    BY <2>2, <2>3 DEF Making
<1> QED
  BY <1>1, <1>2

LEMMA SaveStep ==
    ASSUME Inv, Free, NEW a \in Autos, NEW r \in AutoRecs, autos' = [autos EXCEPT ![a] = r],
           autos[a].status # "Deleted", r.status = "Active" <=> r.next # None,
           r.status = "Active" => now < r.next,
           UNCHANGED <<runs, begun, op, nights, now, launched, bounds, tasks>>
    PROVE  Inv' /\ StayDeleted
<1>1. r.status = "Active" => \A x \in launched : x.auto = a => x.slot <= r.next
  <2>1. \A x \in launched : x.slot <= now /\ x.slot \in Nat
    BY Before DEF LaunchInv, LaunchOK
  <2>2. r.next \in Nat /\ now \in Nat
    BY Before, AutoFacts
  <2> QED
    BY <2>1, <2>2
<1>2. op' \in OpRecs /\ OpOK(op)' /\ ~Making(op')
  BY FreeFacts DEF tasks
<1>3. StayDeleted
  BY Before DEF StayDeleted
<1> QED
  BY <1>1, <1>2, <1>3, WriteAuto

LEMMA WithRuleFacts ==
    ASSUME Inv, NEW a \in Autos, Kept(a), NEW rule \in Schedules
    PROVE  LET r == WithRule(autos[a], rule)
           IN  /\ r \in AutoRecs
               /\ r.status = "Active" <=> r.next # None
               /\ r.status = "Active" => now < r.next
<1>1. PICK n \in Nat : n = NextAfter(rule, now) /\ (n # None => n > now)
  BY Before, NextAfterFacts
<1>2. PICK auto \in AutoRecs : auto = autos[a]
  BY Before
<1>3. auto.status # "Active" => auto.next = None /\ auto.status = "Paused"
  BY <1>2, Before DEF Kept, NextIffActive
<1>4. CASE auto.status # "Active"
  <2>1. WithRule(auto, rule) = [status |-> "Paused", next |-> None, rule |-> rule]
    BY <1>3, <1>4 DEF WithRule, AutoRecs
  <2> QED
    BY <1>2, <2>1 DEF AutoRecs, Slots, None
<1>5. CASE auto.status = "Active"
  <2>1. WithRule(auto, rule) = [status |-> IF n = None THEN "Paused" ELSE "Active",
                                next |-> n, rule |-> rule]
    BY <1>1, <1>5 DEF WithRule, AutoRecs
  <2> QED
    BY <1>1, <1>2, <2>1 DEF AutoRecs, Slots, None
<1> QED
  BY <1>4, <1>5

LEMMA WithStatusFacts ==
    ASSUME NEW auto \in AutoRecs
    PROVE  /\ WithStatus(auto, "Paused") = [status |-> "Paused", next |-> None, rule |-> auto.rule]
           /\ WithStatus(auto, "Active") =
                [status |-> "Active", next |-> NextAfter(auto.rule, now), rule |-> auto.rule]
<1>1. WithStatus(auto, "Paused") = [auto EXCEPT !.status = "Paused", !.next = None]
  BY DEF WithStatus
<1>2. WithStatus(auto, "Active") =
        [auto EXCEPT !.status = "Active", !.next = NextAfter(auto.rule, now)]
  BY DEF WithStatus
<1> QED
  BY <1>1, <1>2 DEF AutoRecs

LEMMA RequestInv ==
    ASSUME Inv, Request
    PROVE  Inv' /\ StayDeleted
<1> PICK a \in Autos : \/ CreateAutomation(a) \/ UpdateAutomation(a) \/ PauseAutomation(a)
                       \/ ResumeAutomation(a) \/ DeleteAutomation(a) \/ RunNow(a)
  BY DEF Request
<1>a. autos[a] \in AutoRecs /\ now \in Nat
  BY Before
<1>1. CASE CreateAutomation(a)
  <2>1. PICK rule \in Schedules, status \in {"Active", "Paused"} :
          LET next == IF status = "Active" THEN NextAfter(rule, now) ELSE None IN
          /\ status = "Active" => next # None
          /\ autos' = [autos EXCEPT ![a] = [status |-> status, next |-> next, rule |-> rule]]
    BY <1>1 DEF CreateAutomation
  <2>2. PICK n \in Nat : n = (IF status = "Active" THEN NextAfter(rule, now) ELSE None)
                         /\ (n # None => n > now)
    BY <1>a, NextAfterFacts DEF None
  <2>3. PICK r \in AutoRecs : r = [status |-> status, next |-> n, rule |-> rule]
    BY DEF AutoRecs, Slots
  <2>4. /\ r.status = "Active" <=> r.next # None
        /\ r.status = "Active" => now < r.next
    BY <2>1, <2>2, <2>3
  <2>5. autos' = [autos EXCEPT ![a] = r]
    BY <2>1, <2>2, <2>3
  <2> QED
    BY <1>1, <2>4, <2>5, SaveStep DEF CreateAutomation
<1>2. CASE UpdateAutomation(a)
  <2>1. PICK rule \in Schedules : Save(a, WithRule(autos[a], rule))
    BY <1>2 DEF UpdateAutomation
  <2>2. PICK r \in AutoRecs : /\ r = WithRule(autos[a], rule)
                              /\ r.status = "Active" <=> r.next # None
                              /\ r.status = "Active" => now < r.next
    BY <2>1, WithRuleFacts DEF Save
  <2> QED
    BY <2>1, <2>2, SaveStep DEF Save, Kept
<1>3. CASE PauseAutomation(a)
  <2>1. PICK r \in AutoRecs : r = [status |-> "Paused", next |-> None, rule |-> autos[a].rule]
    BY <1>a, AutoFacts DEF AutoRecs, Slots, None
  <2>2. WithStatus(autos[a], "Paused") = r
    BY <1>a, <2>1, WithStatusFacts
  <2>3. r.status = "Paused" /\ r.next = None
    BY <2>1
  <2> QED
    BY <1>3, <2>2, <2>3, SaveStep DEF PauseAutomation, Save, Kept
<1>4. CASE ResumeAutomation(a)
  <2>1. PICK n \in Nat : n = NextAfter(autos[a].rule, now) /\ n # None /\ n > now
    BY <1>4, <1>a, AutoFacts, NextAfterFacts DEF ResumeAutomation
  <2>2. PICK r \in AutoRecs : r = [status |-> "Active", next |-> n, rule |-> autos[a].rule]
    BY <1>a, AutoFacts DEF AutoRecs, Slots
  <2>3. WithStatus(autos[a], "Active") = r
    BY <1>a, <2>1, <2>2, WithStatusFacts
  <2>4. r.status = "Active" /\ r.next # None /\ now < r.next
    BY <2>1, <2>2
  <2> QED
    BY <1>4, <2>3, <2>4, SaveStep DEF ResumeAutomation, Save, Kept
<1>5. CASE DeleteAutomation(a)
  <2>1. /\ autos' = [autos EXCEPT ![a] = [Blank EXCEPT !.status = "Deleted"]]
        /\ Through(Recorded(a), "delete")
        /\ UNCHANGED <<runs, begun, nights, now, launched, bounds, tasks>>
        /\ Free /\ autos[a].status # "Deleted"
    BY <1>5 DEF DeleteAutomation, Kept
  <2>2. PICK d \in AutoRecs : /\ d = [Blank EXCEPT !.status = "Deleted"]
                              /\ d.status = "Deleted" /\ d.next = None
    <3>1. [Blank EXCEPT !.status = "Deleted"]
            = [status |-> "Deleted", next |-> None, rule |-> Blank.rule]
      BY DEF Blank
    <3>2. [status |-> "Deleted", next |-> None, rule |-> Blank.rule] \in AutoRecs
      BY DEF AutoRecs, Slots, None
    <3> QED
      BY <3>1, <3>2
  <2>4. PICK o \in OpRecs :
            /\ op' = o /\ ~Making(o) /\ o.todo = {} /\ o.now = 0 /\ o.check = Recorded(a)
            /\ o.pc = "delete" \/ (o.pc = "free" /\ Recorded(a) = {})
    <3>1. Recorded(a) \in SUBSET Runs
      BY DEF Recorded
    <3> QED
      BY <2>1, <3>1, ThroughFacts
  <2>5. \A r \in o.check : runs'[r].auto = a /\ autos'[a].status = "Deleted"
    BY <2>1, <2>2, <2>4, Before DEF Recorded
  <2>6. OpOK(op)'
    <3>1. up' /\ 0 <= now'
      BY <1>a, <2>1 DEF Free, tasks
    <3> QED
      BY <2>4, <2>5, <3>1 DEF OpOK, ListOK, MakingOK, CheckOK
  <2>7. Inv'
    BY <2>1, <2>2, <2>4, <2>6, WriteAuto
  <2>8. StayDeleted
    BY <2>1, <2>2, Before DEF StayDeleted
  <2> QED
    BY <2>7, <2>8
<1>6. CASE RunNow(a)
  <2>1. /\ Launch(a, None, [Idle EXCEPT !.list = autos])
        /\ manual < MaxManual /\ manual' = manual + 1 /\ Free /\ Kept(a)
    BY <1>6 DEF RunNow
  <2>2. PICK o \in OpRecs : o = [Idle EXCEPT !.list = autos]
    BY IdleFacts, Before DEF OpRecs
  <2>3. o.list = autos /\ o.todo = {} /\ o.check = {} /\ o.now = 0
    BY <2>2, IdleFacts DEF OpRecs
  <2>4. manual' \in 0..MaxManual
    BY <2>1, Consts, TypeParts DEF Inv
  <2>5. None \in Nat /\ up /\ ~Making(op) /\ 0 <= now
    BY <1>a, <2>1, FreeFacts DEF None, Free
  <2>6. Inv'
    BY <2>1, <2>2, <2>3, <2>4, <2>5, LaunchStep
  <2>7. autos' = autos
    BY <2>1 DEF Launch, LaunchTask, LaunchEnqueue, LaunchNight, Refused, Begin
  <2> QED
    BY <2>6, <2>7 DEF StayDeleted
<1> QED
  BY <1>1, <1>2, <1>3, <1>4, <1>5, <1>6

-----------------------------------------------------------------------------
(* Steps of the scheduler. *)

LEMMA Same == runs' = runs => SameRuns
  BY DEF SameRuns

\* The mutex is given back, or the locals of the operation are lost.
LEMMA IdleStep ==
    ASSUME Inv, op' = Idle, LifeOK', now' = now, nights' \subseteq Runs,
           UNCHANGED <<disk, begun, launched, manual>>, faults' \in 0..MaxFaults
    PROVE  Inv'
<1>1. OpOK(op)' /\ op' \in OpRecs /\ ~Making(op')
  BY IdleFacts, Before DEF OpOK, ListOK, MakingOK, CheckOK
<1>2. TypeOK'
  BY <1>1, TypeParts DEF Inv, TypeOK, OpRecs, disk
<1>3. now <= now' /\ SameRuns /\ autos' = autos
  BY Before, Same DEF disk
<1> QED
  BY <1>1, <1>2, <1>3, Quiet

\* Other steps that change no file and launch nothing.
LEMMA OpStep ==
    ASSUME Inv, NEW o \in OpRecs, op' = o, OpOK(o), ~Making(o), faults' \in 0..MaxFaults,
           UNCHANGED <<disk, begun, nights, now, launched, manual, tasks>>
    PROVE  Inv'
<1>1. TypeOK'
  BY TypeParts DEF Inv, TypeOK, OpRecs, disk
<1>2. LifeOK'
  BY DEF Inv, LifeOK, tasks
<1>3. OpOK(o)'
  BY DEF OpOK, ListOK, MakingOK, CheckOK, Kept, Making, disk, tasks
<1>4. now <= now' /\ SameRuns /\ autos' = autos
  BY Before, Same DEF disk
<1> QED
  BY <1>1, <1>2, <1>3, <1>4, Quiet

LEMMA ToReconcileFacts ==
    ASSUME Inv, up, ToReconcile
    PROVE  \E o \in OpRecs : OpOK(o) /\ ~Making(o) /\ op' = o
<1>1. PICK C \in SUBSET Runs : C = UNION {Unsettled(a) : a \in {b \in Autos : Kept(b)}}
  BY DEF Unsettled, LastRuns, Recorded
<1>2. PICK o \in OpRecs : /\ op' = o /\ ~Making(o) /\ o.todo = {} /\ o.now = 0 /\ o.check = C
                          /\ o.pc = "reconcile" \/ (o.pc = "free" /\ C = {})
  BY <1>1, ThroughFacts DEF ToReconcile
<1>3. \A r \in C : runs[r].task \in Tasks /\ runs[r] # NoRun
  <2>1. \A r \in C : r \in Runs /\ runs[r].status \in Open /\ runs[r].task # NoId
    BY <1>1 DEF Unsettled, LastRuns, Recorded
  <2>2. \A r \in Runs : runs[r] # NoRun => runs[r].task \in Tasks \cup {NoId}
    BY Before, RunFacts
  <2>3. NoRun.status \notin Open
    BY DEF NoRun, Open
  <2> QED
    BY <2>1, <2>2, <2>3
<1>4. OpOK(o)
  BY <1>2, <1>3, Before DEF OpOK, ListOK, MakingOK, CheckOK
<1> QED
  BY <1>2, <1>4

LEMMA TickFacts ==
    ASSUME Inv, NEW a \in Autos, up, op.pc = "tick", a \in op.todo
    PROVE  /\ ~Making(op) /\ Handled(a) \in OpRecs /\ Handled(a).todo = op.todo \ {a}
           /\ Handled(a).list = op.list /\ Handled(a).check = {} /\ Handled(a).now = op.now
           /\ Handled(a).pc = "tick" /\ OpOK(Handled(a)) /\ ~Making(Handled(a))
           /\ op.list[a] = autos[a] /\ Kept(a)
<1>1. op \in OpRecs /\ OpOK(op)
  BY Before
<1>2. PICK o \in OpRecs : o = Handled(a)
  BY <1>1 DEF Handled, OpRecs
<1>3. /\ o.todo = op.todo \ {a} /\ o.list = op.list /\ o.check = op.check
      /\ o.now = op.now /\ o.pc = "tick"
  BY <1>1, <1>2 DEF Handled, OpRecs
<1>4. op.check = {} /\ op.list[a] = autos[a] /\ Kept(a) /\ ~Making(op) /\ ~Making(o)
  BY <1>1, <1>3 DEF OpOK, ListOK, Making
<1>5. OpOK(o)
  BY <1>1, <1>3, <1>4 DEF OpOK, ListOK, MakingOK, CheckOK
<1> QED
  BY <1>2, <1>3, <1>4, <1>5

LEMMA DueFacts ==
    ASSUME Inv, NEW a \in Autos, Due(a)
    PROVE  /\ autos[a].status = "Active" /\ op.list[a] = autos[a]
           /\ autos[a].next \in Nat \ {0} /\ autos[a].next <= now
<1>1. op.list[a] = autos[a]
  BY TickFacts DEF Due
<1>2. autos[a].status = "Active" /\ autos[a].next \in Nat \ {0}
  BY <1>1, Before, AutoFacts DEF Due, NextIffActive, None
<1>3. op.now \in Nat /\ op.now <= now /\ now \in Nat
  BY Before, Consts DEF OpOK, ListOK, OpRecs
<1> QED
  BY <1>1, <1>2, <1>3 DEF Due

LEMMA SchedulerInv ==
    ASSUME Inv, Scheduler
    PROVE  Inv' /\ StayDeleted
<1>a. /\ op \in OpRecs /\ OpOK(op) /\ now \in Nat /\ autos \in [Autos -> AutoRecs]
      /\ runs \in [Runs -> RunRecs] /\ faults \in 0..MaxFaults /\ begun \in Nat
      /\ nights \subseteq Runs
  BY Before, TypeParts DEF Inv
<1>1. CASE BeginTick
  <2>1. PICK o \in OpRecs : o = [Idle EXCEPT !.pc = "tick", !.list = autos, !.now = now,
                                             !.todo = {a \in Autos : Kept(a)}]
    <3>1. now \in 0..Horizon /\ {a \in Autos : Kept(a)} \subseteq Autos
      BY TypeParts DEF Inv
    <3> QED
      BY <1>a, <3>1, IdleFacts DEF OpRecs, Pcs
  <2>2. /\ o.pc = "tick" /\ o.list = autos /\ o.now = now /\ o.check = {}
        /\ o.todo = {a \in Autos : Kept(a)} /\ ~Making(o)
    BY <2>1, IdleFacts DEF OpRecs, Making
  <2>3. OpOK(o)
    BY <1>1, <1>a, <2>2 DEF OpOK, ListOK, MakingOK, CheckOK, BeginTick, Free
  <2> QED
    BY <1>1, <1>a, <2>1, <2>2, <2>3, OpStep DEF BeginTick, StayDeleted, disk, bounds
<1>2. CASE EndTick
  <2>1. PICK o \in OpRecs : op' = o /\ OpOK(o) /\ ~Making(o)
    BY <1>2, ToReconcileFacts DEF EndTick
  <2> QED
    BY <1>2, <1>a, <2>1, OpStep DEF EndTick, StayDeleted, disk, bounds
<1>4. CASE TaskAdded
  <2>1. /\ up /\ op.pc = "adding" /\ UNCHANGED <<disk, begun, nights, now, launched, bounds>>
        /\ UNCHANGED <<up, life, saved>>
        /\ \/ op' = [op EXCEPT !.pc = "record", !.rec.status = "Running"]
           \/ op' = [op EXCEPT !.pc = "record", !.rec.status = "Failed", !.rec.task = NoId]
    BY <1>4 DEF TaskAdded, Life!Acknowledge, tasks
  <2>2. op.rec \in RunRecs /\ op.rec # NoRun
    BY <1>a, <2>1 DEF OpRecs, OpOK, MakingOK, Making
  <2>3. PICK auto \in Autos, slot \in Nat, task \in Tasks \cup {NoId}, st \in Open \cup Settled :
            op.rec = [auto |-> auto, slot |-> slot, status |-> st, task |-> task]
    BY <2>2 DEF RunRecs, Slots
  <2>4. PICK rec \in RunRecs :
          /\ rec.auto = op.rec.auto /\ rec.slot = op.rec.slot /\ rec # NoRun
          /\ op' = [op EXCEPT !.pc = "record", !.rec = rec]
    <3>1. CASE op' = [op EXCEPT !.pc = "record", !.rec.status = "Running"]
      <4>1. PICK rec \in RunRecs :
              rec = [auto |-> auto, slot |-> slot, status |-> "Running", task |-> task]
        BY DEF RunRecs, Slots, Open
      <4>2. [op.rec EXCEPT !.status = "Running"] = rec
        BY <2>3, <4>1
      <4>3. op' = [op EXCEPT !.pc = "record", !.rec = rec]
        BY <1>a, <3>1, <4>2 DEF OpRecs
      <4>4. rec.auto = op.rec.auto /\ rec.slot = op.rec.slot /\ rec.auto \in Autos
        BY <2>3, <4>1
      <4> QED
        BY <4>3, <4>4, RunFacts
    <3>2. CASE op' = [op EXCEPT !.pc = "record", !.rec.status = "Failed", !.rec.task = NoId]
      <4>1. PICK rec \in RunRecs :
              rec = [auto |-> auto, slot |-> slot, status |-> "Failed", task |-> NoId]
        BY DEF RunRecs, Slots, Settled
      <4>2. [op.rec EXCEPT !.status = "Failed", !.task = NoId] = rec
        <5>1. [op.rec EXCEPT !.status = "Failed"]
                = [auto |-> auto, slot |-> slot, status |-> "Failed", task |-> task]
          BY <2>3
        <5>2. [[auto |-> auto, slot |-> slot, status |-> "Failed", task |-> task]
                 EXCEPT !.task = NoId] = rec
          BY <4>1
        <5> QED
          BY <5>1, <5>2
      <4>3. op' = [op EXCEPT !.pc = "record", !.rec = rec]
        BY <1>a, <3>2, <4>2 DEF OpRecs
      <4>4. rec.auto = op.rec.auto /\ rec.slot = op.rec.slot /\ rec.auto \in Autos
        BY <2>3, <4>1
      <4> QED
        BY <4>3, <4>4, RunFacts
    <3> QED
      BY <2>1, <3>1, <3>2
  <2>5. /\ op' \in OpRecs /\ op'.pc = "record" /\ op'.rec = rec /\ op'.todo = op.todo
        /\ op'.list = op.list /\ op'.check = op.check /\ op'.now = op.now /\ op'.run = op.run
    BY <1>a, <2>4 DEF OpRecs, Pcs
  <2>6. Making(op) /\ Making(op')
    BY <2>1, <2>5 DEF Making
  <2>7. OpOK(op)'
    BY <1>a, <2>1, <2>4, <2>5, <2>6 DEF OpOK, ListOK, MakingOK, CheckOK, Kept, disk
  <2>8. LifeOK' /\ TypeOK'
    BY <2>1, <2>5, TypeParts DEF Inv, LifeOK, TypeOK, OpRecs, disk, bounds
  <2>9. now <= now' /\ SameRuns
    BY <1>a, <2>1, Same DEF disk
  <2> QED
    BY <2>1, <2>4, <2>5, <2>6, <2>7, <2>8, <2>9, Quiet DEF StayDeleted, disk
<1>5. CASE SaveRun
  <2>1. /\ up /\ op.pc = "record" /\ runs' = [runs EXCEPT ![op.run] = op.rec]
        /\ op' = [op EXCEPT !.pc = "advance"]
        /\ UNCHANGED <<autos, begun, nights, now, launched, bounds, tasks>>
    BY <1>5 DEF SaveRun
  <2>2. Making(op) /\ op.run = begun /\ begun \in Runs /\ op.rec # NoRun /\ op.rec \in RunRecs
    BY <1>a, <2>1 DEF OpRecs, OpOK, MakingOK, Making
  <2>3. /\ op' \in OpRecs /\ op'.pc = "advance" /\ op'.rec = op.rec /\ op'.todo = op.todo
        /\ op'.list = op.list /\ op'.check = op.check /\ op'.now = op.now /\ op'.run = op.run
    BY <1>a, <2>1 DEF OpRecs, Pcs
  <2>4. Making(op')
    BY <2>3 DEF Making
  <2>5. runs' \in [Runs -> RunRecs] /\ runs'[begun] = op.rec
        /\ \A r \in Runs \ {begun} : runs'[r] = runs[r]
    BY <1>a, <2>1, <2>2
  <2>6. op.check = {}
    BY <1>a, <2>1 DEF OpOK, ListOK
  <2>7. OpOK(op)'
    BY <1>a, <2>1, <2>2, <2>3, <2>4, <2>6
       DEF OpOK, ListOK, MakingOK, CheckOK, Kept, tasks
  <2>8. LifeOK' /\ TypeOK' /\ NextIffActive'
    BY <2>1, <2>3, <2>5, TypeParts DEF Inv, LifeOK, TypeOK, OpRecs, bounds, tasks, NextIffActive
  <2>9. RunInv'
    <3> SUFFICES ASSUME NEW r \in Runs, r > begun  PROVE runs'[r] = NoRun
      BY <2>1 DEF RunInv
    <3>1. r # begun
      BY <1>a, Consts
    <3> QED
      BY <2>5, <3>1, Before DEF RunInv
  <2>10. LaunchInv'
    <3> SUFFICES ASSUME NEW x \in launched  PROVE LaunchOK(x)'
      BY <2>1 DEF LaunchInv
    <3>1. LaunchOK(x) /\ x.run \in Runs
      BY Before DEF LaunchInv
    <3>2. runs'[x.run] # NoRun => runs'[x.run].auto = x.auto /\ runs'[x.run].slot = x.slot
      BY <2>2, <2>5, <3>1 DEF LaunchOK
    <3>3. op'.run = x.run => op'.rec.auto = x.auto /\ op'.rec.slot = x.slot
      BY <2>2, <2>3, <3>1 DEF LaunchOK
    <3> QED
      BY <2>1, <3>1, <3>2, <3>3 DEF LaunchOK
  <2>11. SlotFiredOnce'
    <3> SUFFICES ASSUME NEW x \in launched, NEW y \in launched, x.auto = y.auto,
                        x.slot = y.slot, x.slot # None, x.run < y.run,
                        autos'[x.auto].status # "Deleted"
                 PROVE  \/ runs'[x.run].status = "Absent"
                        \/ Cardinality({q \in Recorded(x.auto)' : x.run < q /\ q < y.run})
                              >= SlotLimit
      BY <2>1 DEF SlotFiredOnce
    <3>1. x.run \in Runs /\ x.run \in Nat /\ y.run \in Nat /\ y.run <= begun
      BY Before DEF LaunchInv, LaunchOK
    <3>2. runs'[x.run].status = runs[x.run].status
      BY <1>a, <2>5, <3>1
    <3>3. \A q \in Runs : q < y.run => q # begun
      BY <1>a, <3>1, Consts
    <3>4. {q \in Recorded(x.auto)' : x.run < q /\ q < y.run}
            = {q \in Recorded(x.auto) : x.run < q /\ q < y.run}
      BY <2>5, <3>3 DEF Recorded
    <3> QED
      BY <2>1, <3>2, <3>4, Before DEF SlotFiredOnce
  <2> QED
    BY <2>1, <2>7, <2>8, <2>9, <2>10, <2>11 DEF Inv, StayDeleted
<1>6. CASE SaveAutomation
  <2>1. PICK a \in Autos : a = op.rec.auto
    BY <1>6, <1>a, RunFacts DEF SaveAutomation, OpRecs, OpOK, MakingOK, Making
  <2>2. /\ up /\ op.pc = "advance" /\ Making(op)
        /\ UNCHANGED <<runs, begun, nights, now, launched, bounds, tasks>>
    BY <1>6 DEF SaveAutomation, Making
  <2>3. /\ op.list[a] = autos[a] /\ Kept(a) /\ a \notin op.todo /\ op.check = {}
        /\ op.rec.slot # None => autos[a].next = op.rec.slot /\ op.rec.slot <= now
    BY <1>a, <2>1, <2>2 DEF OpOK, MakingOK, ListOK
  <2>4. CASE op.rec.slot = None
    <3>1. op' = Idle /\ autos' = [autos EXCEPT ![a] = autos[a]]
      BY <1>6, <2>1, <2>3, <2>4 DEF SaveAutomation
    <3>2. autos' = autos
      BY <1>a, <3>1
    <3>3. LifeOK'
      BY <2>2 DEF Inv, LifeOK, tasks
    <3> QED
      BY <1>a, <2>2, <3>1, <3>2, <3>3, IdleStep DEF StayDeleted, disk, bounds
  <2>5. CASE op.rec.slot # None
    <3>1. /\ autos' = [autos EXCEPT ![a] = AfterFire(autos[a], autos[a].next)]
          /\ op' = [op EXCEPT !.pc = "tick", !.run = 0, !.rec = NoRun]
      BY <1>6, <2>1, <2>3, <2>5 DEF SaveAutomation
    <3>2. autos[a].status = "Active" /\ autos[a].next \in Nat \ {0} /\ autos[a].next <= now
      BY <1>a, <2>3, <2>5, Before, AutoFacts DEF NextIffActive, None
    <3>3. PICK r \in AutoRecs : /\ r = AfterFire(autos[a], autos[a].next)
                                /\ r.status = "Active" <=> r.next # None
                                /\ r.status = "Active" => autos[a].next < r.next
                                /\ r.status \in {"Active", "Paused"}
      BY <1>a, <3>2, AfterFireFacts
    <3>4. PICK o \in OpRecs : o = [op EXCEPT !.pc = "tick", !.run = 0, !.rec = NoRun]
      <4>1. 0 \in 0..MaxRuns
        BY Consts
      <4> QED
        BY <1>a, <4>1, RunFacts DEF OpRecs, Pcs
    <3>5. /\ o.pc = "tick" /\ o.list = op.list /\ o.todo = op.todo /\ o.check = op.check
          /\ o.now = op.now /\ ~Making(o)
      BY <1>a, <3>4 DEF OpRecs, Making
    <3>6. op' = o
      BY <3>1, <3>4
    <3>7. \A b \in op.todo : op.list[b] = autos'[b] /\ Kept(b)'
      <4>1. \A b \in op.todo : b # a /\ op.list[b] = autos[b] /\ Kept(b)
        BY <1>a, <2>3 DEF OpOK, ListOK
      <4>2. op.todo \subseteq Autos
        BY <1>a DEF OpRecs
      <4>3. \A b \in op.todo : autos'[b] = autos[b]
        BY <1>a, <3>1, <4>1, <4>2
      <4> QED
        BY <4>1, <4>3 DEF Kept
    <3>8. OpOK(op)'
      BY <1>a, <2>2, <2>3, <3>5, <3>6, <3>7 DEF OpOK, ListOK, MakingOK, CheckOK, tasks
    <3>9. \A x \in launched : x.auto = a /\ r.status = "Active" => x.slot <= r.next
      <4>1. \A x \in launched : x.auto = a => x.slot <= autos[a].next /\ x.slot \in Nat
        BY <3>2, Before DEF LaunchInv, LaunchOK
      <4>2. r.next \in Nat
        BY AutoFacts
      <4> QED
        BY <3>2, <3>3, <4>1, <4>2
    <3>10. Inv'
      BY <2>2, <3>1, <3>2, <3>3, <3>5, <3>6, <3>8, <3>9, WriteAuto
    <3>11. StayDeleted
      BY <1>a, <3>1, <3>2 DEF StayDeleted
    <3> QED
      BY <3>10, <3>11
  <2> QED
    BY <2>4, <2>5
<1>7. CASE \E a \in Autos : NotDue(a) \/ SkipFired(a) \/ LaunchDue(a)
  <2> PICK a \in Autos : NotDue(a) \/ SkipFired(a) \/ LaunchDue(a)
    BY <1>7
  <2>1. CASE NotDue(a)
    <3>1. PICK o \in OpRecs : o = Handled(a) /\ OpOK(o) /\ ~Making(o)
      BY <2>1, TickFacts DEF NotDue
    <3>2. op' = o
      BY <2>1, <3>1 DEF NotDue
    <3> QED
      BY <2>1, <1>a, <3>1, <3>2, OpStep DEF NotDue, StayDeleted, disk, bounds
  <2>2. CASE SkipFired(a)
    <3>1. /\ Due(a) /\ op' = Handled(a)
          /\ autos' = [autos EXCEPT ![a] = AfterFire(op.list[a], op.list[a].next)]
          /\ UNCHANGED <<runs, begun, nights, now, launched, bounds, tasks>>
      BY <2>2 DEF SkipFired
    <3>2. /\ autos[a].status = "Active" /\ op.list[a] = autos[a]
          /\ autos[a].next \in Nat \ {0} /\ autos[a].next <= now
      BY <3>1, DueFacts
    <3>3. PICK r \in AutoRecs : /\ r = AfterFire(autos[a], autos[a].next)
                                /\ r.status = "Active" <=> r.next # None
                                /\ r.status = "Active" => autos[a].next < r.next
      BY <1>a, <3>2, AfterFireFacts
    <3>4. PICK o \in OpRecs :
            /\ o = Handled(a) /\ ~Making(o) /\ o.pc = "tick" /\ o.todo = op.todo \ {a}
            /\ o.list = op.list /\ o.check = {} /\ o.now = op.now /\ OpOK(o)
      BY <3>1, TickFacts DEF Due
    <3>5. \A b \in o.todo : o.list[b] = autos'[b] /\ Kept(b)'
      <4>1. \A b \in o.todo : b \in Autos /\ b # a /\ o.list[b] = autos[b] /\ Kept(b)
        BY <1>a, <3>4 DEF OpOK, ListOK, OpRecs
      <4>2. \A b \in o.todo : autos'[b] = autos[b]
        BY <1>a, <3>1, <4>1
      <4> QED
        BY <4>1, <4>2 DEF Kept
    <3>6. OpOK(op)'
      BY <1>a, <3>1, <3>4, <3>5 DEF OpOK, ListOK, MakingOK, CheckOK, tasks
    <3>7. \A x \in launched : x.auto = a /\ r.status = "Active" => x.slot <= r.next
      <4>1. \A x \in launched : x.auto = a => x.slot <= autos[a].next /\ x.slot \in Nat
        BY <3>2, Before DEF LaunchInv, LaunchOK
      <4>2. r.next \in Nat
        BY AutoFacts
      <4> QED
        BY <3>2, <3>3, <4>1, <4>2
    <3>8. Inv'
      BY <3>1, <3>2, <3>3, <3>4, <3>6, <3>7, WriteAuto
    <3>9. StayDeleted
      BY <1>a, <3>1, <3>2 DEF StayDeleted
    <3> QED
      BY <3>8, <3>9
  <2>3. CASE LaunchDue(a)
    <3>1. /\ Due(a) /\ ~Fired(a) /\ Launch(a, op.list[a].next, Handled(a)) /\ manual' = manual
      BY <2>3 DEF LaunchDue
    <3>2. /\ autos[a].status = "Active" /\ op.list[a] = autos[a]
          /\ autos[a].next \in Nat \ {0} /\ autos[a].next <= now
      BY <3>1, DueFacts
    <3>3. PICK o \in OpRecs :
            /\ o = Handled(a) /\ ~Making(op) /\ o.todo = op.todo \ {a} /\ up
            /\ o.list = op.list /\ o.check = {} /\ o.now = op.now /\ OpOK(o) /\ Kept(a)
      BY <3>1, TickFacts DEF Due
    <3>4. PICK slot \in Nat : slot = autos[a].next
      BY <3>2
    <3>5. \A r \in LastRuns(a, SlotLimit) : runs[r].slot # slot
      BY <3>1, <3>2, <3>4 DEF Fired
    <3>6. Launch(a, slot, o)
      BY <3>1, <3>2, <3>3, <3>4
    <3>7. /\ manual' \in 0..MaxManual /\ a \notin o.todo /\ o.now <= now
          /\ \A b \in o.todo : o.list[b] = autos[b] /\ Kept(b)
      BY <3>1, <3>3, TypeParts DEF Inv, OpOK, ListOK
    <3>8. Inv'
      BY <3>2, <3>3, <3>4, <3>5, <3>6, <3>7, LaunchStep
    <3>9. autos' = autos
      BY <3>6 DEF Launch, LaunchTask, LaunchEnqueue, LaunchNight, Refused, Begin
    <3> QED
      BY <3>8, <3>9 DEF StayDeleted
  <2> QED
    BY <2>1, <2>2, <2>3
<1>8. CASE \E r \in Runs : Reconcile(r)
  <2> PICK r \in Runs : Reconcile(r)
    BY <1>8
  <2>1. /\ up /\ op.pc = "reconcile" /\ r \in op.check
        /\ runs' = [runs EXCEPT ![r].status = Mirrored(r)]
        /\ Through(op.check \ {r}, "reconcile")
        /\ UNCHANGED <<autos, begun, nights, now, launched, bounds, tasks>>
    BY DEF Reconcile
  <2>2. runs[r].task \in Tasks /\ runs[r] # NoRun /\ runs[r] \in RunRecs
    BY <1>a, <2>1 DEF OpOK, CheckOK
  <2>3. PICK s \in Open \cup Settled : s = Mirrored(r)
    BY <2>2, Before DEF Mirrored, LifeOK, Levels, Settled
  <2>4. PICK auto \in Autos, slot \in Nat, task \in Tasks \cup {NoId}, st \in Open \cup Settled :
            runs[r] = [auto |-> auto, slot |-> slot, status |-> st, task |-> task]
    BY <2>2 DEF RunRecs, Slots
  <2>5. PICK rec \in RunRecs : rec = [auto |-> auto, slot |-> slot, status |-> s, task |-> task]
    BY DEF RunRecs, Slots
  <2>6. runs' = [runs EXCEPT ![r] = rec]
    <3>1. [runs[r] EXCEPT !.status = s] = rec
      BY <2>4, <2>5
    <3> QED
      BY <1>a, <2>1, <2>3, <3>1
  <2>7. /\ rec.auto = runs[r].auto /\ rec.slot = runs[r].slot /\ rec # NoRun
        /\ rec.task = runs[r].task
    BY <2>4, <2>5, RunFacts
  <2>8. runs' \in [Runs -> RunRecs] /\ SameRuns /\ \A q \in Runs : runs'[q].task = runs[q].task
    BY <1>a, <2>2, <2>6, <2>7 DEF SameRuns
  <2>9. PICK o \in OpRecs :
            /\ op' = o /\ ~Making(o) /\ o.todo = {} /\ o.now = 0 /\ o.check = op.check \ {r}
            /\ o.pc = "reconcile" \/ (o.pc = "free" /\ o.check = {})
    <3>1. op.check \ {r} \in SUBSET Runs
      BY <1>a DEF OpRecs
    <3> QED
      BY <2>1, <3>1, ThroughFacts
  <2>10. \A q \in o.check : runs'[q].task \in Tasks /\ runs'[q] # NoRun
    BY <1>a, <2>1, <2>8, <2>9 DEF OpOK, CheckOK, OpRecs, SameRuns
  <2>11. OpOK(op)'
    BY <1>a, <2>1, <2>9, <2>10 DEF OpOK, ListOK, MakingOK, CheckOK, Kept, tasks
  <2>12. TypeOK' /\ LifeOK'
    BY <2>1, <2>8, <2>9, TypeParts DEF Inv, LifeOK, TypeOK, OpRecs, bounds, tasks
  <2>13. /\ UNCHANGED <<autos, begun, launched>> /\ now <= now' /\ ~Making(op')
    BY <1>a, <2>1, <2>9
  <2>14. Inv'
    BY <2>8, <2>11, <2>12, <2>13, Quiet
  <2> QED
    BY <2>13, <2>14 DEF StayDeleted
<1> QED
  BY <1>1, <1>2, <1>4, <1>5, <1>6, <1>7, <1>8 DEF Scheduler

-----------------------------------------------------------------------------
(* Steps of a deletion: the runs of the others stay. *)

LEMMA DeletingInv ==
    ASSUME Inv, Deleting
    PROVE  Inv' /\ StayDeleted
<1>a. /\ op \in OpRecs /\ OpOK(op) /\ now \in Nat /\ faults \in 0..MaxFaults
      /\ runs \in [Runs -> RunRecs] /\ LifeOK /\ NoRun \in RunRecs /\ nights \subseteq Runs
  BY Before, RunFacts, TypeParts DEF Inv
<1>2. ASSUME NEW r \in Runs, RemoveRun(r)  PROVE Inv' /\ StayDeleted
  <2>1. /\ up /\ op.pc = "delete" /\ r \in op.check
        /\ runs' = [runs EXCEPT ![r] = NoRun]
        /\ Through(op.check \ {r}, "delete")
        /\ UNCHANGED <<autos, begun, nights, now, launched, bounds, tasks>>
    BY <1>2 DEF RemoveRun
  <2>2. runs[r].auto \in Autos /\ autos[runs[r].auto].status = "Deleted"
    BY <1>a, <2>1 DEF OpOK, CheckOK
  <2>3. runs' \in [Runs -> RunRecs] /\ runs'[r] = NoRun /\ \A q \in Runs \ {r} : runs'[q] = runs[q]
    BY <1>a, <2>1
  <2>4. PICK o \in OpRecs :
            /\ op' = o /\ ~Making(o) /\ o.todo = {} /\ o.now = 0 /\ o.check = op.check \ {r}
            /\ o.pc = "delete" \/ (o.pc = "free" /\ o.check = {})
    <3>1. op.check \ {r} \in SUBSET Runs
      BY <1>a DEF OpRecs
    <3> QED
      BY <2>1, <3>1, ThroughFacts
  <2>5. \A q \in o.check : q \in op.check /\ runs'[q] = runs[q]
    BY <1>a, <2>3, <2>4 DEF OpRecs
  <2>6. OpOK(op)'
    <3>1. ListOK(op)'
      BY <1>a, <2>1, <2>4 DEF OpOK, ListOK, tasks
    <3>2. CheckOK(op)'
      BY <1>a, <2>1, <2>4, <2>5 DEF OpOK, CheckOK
    <3> QED
      BY <2>4, <3>1, <3>2 DEF OpOK, MakingOK
  <2>7. TypeOK' /\ LifeOK'
    BY <1>a, <2>1, <2>3, <2>4, TypeParts DEF Inv, LifeOK, TypeOK, OpRecs, bounds, tasks
  <2>8. RunInv' /\ NextIffActive'
    BY <2>1, <2>3, Before DEF RunInv, NextIffActive
  <2>9. LaunchInv'
    BY <2>1, <2>3, <2>4, Before DEF LaunchInv, LaunchOK
  <2>10. SlotFiredOnce'
    <3> SUFFICES ASSUME NEW x \in launched, NEW y \in launched, x.auto = y.auto,
                        x.slot = y.slot, x.slot # None, x.run < y.run,
                        runs'[x.run].status # "Absent", autos[x.auto].status # "Deleted"
                 PROVE  Cardinality({q \in Recorded(x.auto)' : x.run < q /\ q < y.run})
                              >= SlotLimit
      BY <2>1 DEF SlotFiredOnce
    <3>1. x.run \in Runs /\ x.auto \in Autos
      BY Before
    <3>2. runs[x.run].status # "Absent"
      BY <2>3, <3>1, RunFacts
    <3>3. Recorded(x.auto)' = Recorded(x.auto)
      <4>1. NoRun.auto # x.auto /\ runs[r].auto # x.auto
        BY <2>2, <3>1, RunFacts, Consts
      <4> QED
        BY <2>3, <4>1 DEF Recorded
    <3> QED
      BY <3>2, <3>3, Before DEF SlotFiredOnce
  <2>11. Inv' /\ StayDeleted
    BY <2>1, <2>6, <2>7, <2>8, <2>9, <2>10 DEF Inv, StayDeleted
  <2> QED
    BY <2>11
<1> QED
  BY <1>2 DEF Deleting

-----------------------------------------------------------------------------
(* Steps of the environment. *)

\* Steps of the task manager and of the clock leave the manager of automations alone.
LEMMA OutsideStep ==
    ASSUME Inv, LifeOK', UNCHANGED <<disk, begun, op, nights, launched, bounds>>,
           now' \in 0..Horizon, now <= now', up => up'
    PROVE  Inv' /\ StayDeleted
<1>1. TypeOK'
  BY TypeParts DEF Inv, TypeOK, OpRecs, disk, bounds
<1>2. OpOK(op)'
  <2>1. op.now \in Nat /\ now \in Nat /\ now' \in Nat /\ up \in BOOLEAN
    BY Before, Consts DEF OpRecs, LifeOK
  <2>2. ListOK(op)'
    BY <2>1, Before DEF OpOK, ListOK, Kept, disk
  <2>3. MakingOK(op)'
    <3> SUFFICES ASSUME Making(op)
                 PROVE  /\ op.run = begun /\ begun \in Runs
                        /\ op.rec # NoRun /\ op.rec.auto \notin op.todo
                        /\ op.list[op.rec.auto] = autos[op.rec.auto] /\ Kept(op.rec.auto)
                        /\ op.rec.slot # None => /\ autos[op.rec.auto].next = op.rec.slot
                                                 /\ op.rec.slot <= now'
      BY DEF MakingOK, Making, Kept, disk
    <3>1. op.rec # NoRun /\ op.rec \in RunRecs
      BY Before DEF OpOK, MakingOK, OpRecs
    <3>2. op.rec.slot \in Nat
      BY <3>1, RunFacts
    <3> QED
      BY <2>1, <3>2, Before DEF OpOK, MakingOK
  <2>4. CheckOK(op)'
    BY Before DEF OpOK, CheckOK, disk
  <2> QED
    BY <2>2, <2>3, <2>4 DEF OpOK
<1>3. SameRuns /\ UNCHANGED <<autos, begun, launched, op>>
  BY Same DEF disk
<1>4. Making(op') => Making(op) /\ op'.rec.auto = op.rec.auto /\ op'.rec.slot = op.rec.slot
  BY <1>3
<1>5. Inv'
  BY <1>1, <1>2, <1>3, <1>4, Quiet
<1> QED
  BY <1>3, <1>5 DEF StayDeleted

LEMMA FaultFacts ==
    ASSUME Inv, Fault
    PROVE  faults' \in 0..MaxFaults
  BY Consts, TypeParts DEF Inv, Fault

LEMMA EnvInv ==
    ASSUME Inv, Environment
    PROVE  Inv' /\ StayDeleted
<1>a. /\ op \in OpRecs /\ OpOK(op) /\ now \in Nat /\ runs \in [Runs -> RunRecs]
      /\ nights \subseteq Runs /\ LifeOK /\ now \in 0..Horizon
  BY Before, TypeParts DEF Inv
<1>1. CASE Clock
  <2>1. /\ now' = now + 1 /\ now < Horizon
        /\ UNCHANGED <<disk, begun, op, nights, launched, bounds, tasks>>
    BY <1>1 DEF Clock
  <2>2. now' \in 0..Horizon /\ now <= now'
    BY <1>a, <2>1, Consts
  <2>3. LifeOK' /\ (up => up')
    BY <1>a, <2>1 DEF LifeOK, tasks
  <2> QED
    BY <2>1, <2>2, <2>3, OutsideStep
<1>2. CASE Restart
  <2>1. LifeOK' /\ (up => up')
    BY <1>2, <1>a DEF Restart, Life!Recover, LifeOK, Levels, Open
  <2> QED
    BY <1>2, <1>a, <2>1, OutsideStep DEF Restart
<1>3. CASE \E t \in Tasks : TaskEnds(t) \/ TaskFile(t)
  <2> PICK t \in Tasks : TaskEnds(t) \/ TaskFile(t)
    BY <1>3
  <2>1. LifeOK' /\ (up => up')
    <3>1. CASE TaskEnds(t)
      <4>1. PICK s \in Outcomes \cup {"Running"} : Life!Advance(t, s)
        BY <3>1 DEF TaskEnds
      <4>2. s \in Levels
        <5>1. Outcomes \subseteq Levels
          BY Consts DEF Levels
        <5>2. "Running" \in Levels
          BY DEF Levels, Open
        <5> QED
          BY <5>1, <5>2
      <4> QED
        BY <1>a, <4>1, <4>2 DEF Life!Advance, LifeOK
    <3>2. CASE TaskFile(t)
      BY <1>a, <3>2 DEF TaskFile, Life!Save, Life!Forget, LifeOK, Levels
    <3> QED
      BY <3>1, <3>2
  <2>2. UNCHANGED <<disk, begun, op, nights, now, launched, bounds>>
    BY DEF TaskEnds, TaskFile
  <2> QED
    BY <1>a, <2>1, <2>2, OutsideStep
<1>4. CASE Crash
  <2>1. LifeOK'
    BY <1>4, <1>a DEF Crash, Life!Crash, LifeOK, Levels
  <2>2. /\ op' = Idle /\ nights' = {} /\ UNCHANGED <<disk, begun, now, launched, manual>> /\ Fault
    BY <1>4 DEF Crash
  <2> QED
    BY <2>1, <2>2, FaultFacts, IdleStep DEF StayDeleted, disk
<1>5. CASE WriteFails
  <2>1. /\ Fault /\ up /\ (op' = Idle \/ ToReconcile)
        /\ UNCHANGED <<disk, begun, nights, now, launched, manual, tasks>>
    BY <1>5 DEF WriteFails
  <2>2. LifeOK' /\ StayDeleted
    BY <1>a, <2>1 DEF LifeOK, tasks, disk, StayDeleted
  <2>3. CASE op' = Idle
    BY <1>a, <2>1, <2>2, <2>3, FaultFacts, IdleStep
  <2>4. CASE ToReconcile
    <3>1. PICK o \in OpRecs : op' = o /\ OpOK(o) /\ ~Making(o)
      BY <2>1, <2>4, ToReconcileFacts
    <3> QED
      BY <2>1, <2>2, <3>1, FaultFacts, OpStep
  <2> QED
    BY <2>1, <2>3, <2>4
<1>6. CASE HangUp
  <2>1. /\ Fault /\ op' = Idle
        /\ UNCHANGED <<disk, begun, nights, now, launched, manual, tasks>>
    BY <1>6 DEF HangUp
  <2>2. LifeOK' /\ StayDeleted
    BY <1>a, <2>1 DEF LifeOK, tasks, disk, StayDeleted
  <2> QED
    BY <1>a, <2>1, <2>2, FaultFacts, IdleStep
<1>7. CASE \E r \in Runs : NightEnds(r)
  <2> PICK r \in Runs : NightEnds(r)
    BY <1>7
  <2>1. /\ Free /\ nights' = nights \ {r}
        /\ UNCHANGED <<autos, begun, op, now, launched, bounds, tasks>>
    BY DEF NightEnds
  <2>2. PICK s \in Outcomes \ {"Canceled"} :
            runs' = IF runs[r].status = "Absent" THEN runs ELSE [runs EXCEPT ![r].status = s]
    BY DEF NightEnds
  <2>3. runs' \in [Runs -> RunRecs] /\ SameRuns
    <3>1. CASE runs[r].status = "Absent"
      BY <1>a, <2>2, <3>1, Same
    <3>2. CASE runs[r].status # "Absent"
      <4>1. runs[r] \in RunRecs /\ runs[r] # NoRun
        BY <1>a, <3>2, RunFacts
      <4>2. PICK auto \in Autos, slot \in Nat, task \in Tasks \cup {NoId},
                 st \in Open \cup Settled :
              runs[r] = [auto |-> auto, slot |-> slot, status |-> st, task |-> task]
        BY <4>1 DEF RunRecs, Slots
      <4>3. s \in Settled
        BY <2>2, Consts
      <4>4. PICK rec \in RunRecs :
              rec = [auto |-> auto, slot |-> slot, status |-> s, task |-> task]
        BY <4>3 DEF RunRecs, Slots
      <4>5. [runs[r] EXCEPT !.status = s] = rec
        BY <4>2, <4>4
      <4>6. runs' = [runs EXCEPT ![r] = rec]
        BY <1>a, <2>2, <3>2, <4>5
      <4>7. rec.auto = runs[r].auto /\ rec.slot = runs[r].slot /\ rec # NoRun
        <5>1. rec.auto = auto /\ rec.slot = slot
          BY <4>4
        <5> QED
          BY <5>1, <4>2, RunFacts
      <4> QED
        BY <1>a, <4>1, <4>6, <4>7 DEF SameRuns
    <3> QED
      BY <3>1, <3>2
  <2>4. op' \in OpRecs /\ OpOK(op)' /\ ~Making(op')
    BY <2>1, FreeFacts DEF tasks
  <2>5. TypeOK' /\ LifeOK'
    BY <1>a, <2>1, <2>3, <2>4, TypeParts DEF Inv, LifeOK, TypeOK, OpRecs, bounds, tasks
  <2>6. UNCHANGED <<autos, begun, launched>> /\ now <= now'
    BY <1>a, <2>1
  <2>7. Inv'
    BY <2>3, <2>4, <2>5, <2>6, Quiet
  <2> QED
    BY <2>6, <2>7 DEF StayDeleted
<1> QED
  BY <1>1, <1>2, <1>3, <1>4, <1>5, <1>6, <1>7 DEF Environment

-----------------------------------------------------------------------------
LEMMA InvStep == Inv /\ [Next]_vars => Inv' /\ StayDeleted
<1> SUFFICES ASSUME Inv, [Next]_vars  PROVE Inv' /\ StayDeleted
  OBVIOUS
<1>1. CASE UNCHANGED vars
  <2>1. /\ UNCHANGED <<disk, begun, op, nights, launched, bounds>>
        /\ UNCHANGED <<now, tasks>>
    BY <1>1 DEF vars
  <2>2. LifeOK' /\ (up => up') /\ now' \in 0..Horizon /\ now <= now'
    BY <2>1, Before, TypeParts DEF Inv, LifeOK, tasks
  <2> QED
    BY <2>1, <2>2, OutsideStep
<1> QED
  BY <1>1, RequestInv, DeletingInv, SchedulerInv, EnvInv DEF Next

LEMMA Invariance == Spec => []Inv
<1>1. Inv /\ [Next]_vars => Inv'
  BY InvStep
<1> QED
  BY <1>1, InvInit, PTL DEF Spec

\* The records, the runs and the locals of the scheduler keep their shapes, with
\* every write that fails, every crash and every request in between.
THEOREM Typing == Spec => []TypeOK
<1>1. Inv => TypeOK
  BY DEF Inv
<1> QED
  BY <1>1, Invariance, PTL

\* An automation is shown as active exactly when its record has a next slot:
\* creation, update, pause, resume, a ONCE rule that is exhausted and the advance
\* after a launch all keep the two fields together.
THEOREM ActiveHasSlot == Spec => []NextIffActive
<1>1. Inv => NextIffActive
  BY DEF Inv
<1> QED
  BY <1>1, Invariance, PTL

\* The scheduler does not launch the work of one slot twice, except when the first
\* run left no record or is not among the last SlotLimit runs.
THEOREM OneLaunch == Spec => []SlotFiredOnce
<1>1. Inv => SlotFiredOnce
  BY DEF Inv
<1> QED
  BY <1>1, Invariance, PTL

\* An automation that was deleted is not written again by whoever read its record
\* before: the mutex is held from the reading to the writing.
THEOREM Deletion == Spec => DeletedForGood
<1>1. Inv /\ [Next]_vars
      => [\A a \in Autos : autos[a].status = "Deleted" => autos'[a].status = "Deleted"]_vars
  BY InvStep DEF StayDeleted
<1> QED
  BY <1>1, Invariance, PTL DEF Spec, DeletedForGood

=============================================================================
