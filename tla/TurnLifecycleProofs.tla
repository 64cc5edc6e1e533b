------------------------ MODULE TurnLifecycleProofs ------------------------
(***************************************************************************)
(* Proofs that the safety properties of TurnLifecycle hold for every set   *)
(* of prompts and compactions and for every bound on engines, interrupts,  *)
(* unloads, failing steps, hang-ups and crashes.                                    *)
(***************************************************************************)
EXTENDS TurnLifecycle, WellFoundedInduction, TLAPS

-----------------------------------------------------------------------------
(* Processes and their locals. *)

Pcs == {"idle", "admit", "check", "wake", "queued", "run", "load", "spawn",
        "idle?", "promote", "save", "activate", "send", "rollback",
        "report", "unset", "undrain", "receive", "flag", "final", "emit",
        "clear", "unload", "shutdown", "drain", "next", "done"}

Locals(n) == [pc : Pcs, adm : Turns \cup {NoTurn}, h : 0..n]

\* The places of start_turn_promoted, of compact_thread and of the rollback.
StartPcs == {"load", "spawn", "idle?", "promote", "save", "activate", "send",
             "rollback", "report", "unset", "undrain"}

\* Places after ensure_engine_loaded at which the task uses its engine handle.
HandlePcs == {"promote", "idle?", "save", "activate", "send", "receive"}

LEMMA ProcFacts ==
    /\ \A t \in Turns : Client(t) \in Procs /\ Monitor(t) \in Procs
    /\ \A t, u \in Turns : /\ Client(t) # Monitor(u)
                           /\ Client(t) = Client(u) => t = u
                           /\ Monitor(t) = Monitor(u) => t = u
    /\ \A p \in Procs : \E t \in Turns : p = Client(t) \/ p = Monitor(t)
  BY DEF Client, Monitor, Procs

\* A step of one process leaves the others where they are.
LEMMA GotoFacts ==
    ASSUME spawned \in Nat, proc \in [Procs -> Locals(spawned)], NEW p \in Procs, NEW l \in Pcs,
           Goto(p, l)
    PROVE  /\ proc' \in [Procs -> Locals(spawned)]
           /\ proc'[p].pc = l
           /\ l # "done" => proc'[p].adm = proc[p].adm /\ proc'[p].h = proc[p].h
           /\ l = "done" => proc'[p].adm = NoTurn /\ proc'[p].h = 0
           /\ \A q \in Procs \ {p} : proc'[q] = proc[q]
<1>1. proc[p] \in Locals(spawned)
  OBVIOUS
<1>2. CASE l = "done"
  <2>1. proc' = [proc EXCEPT ![p] = Finished]
    BY <1>2 DEF Goto
  <2>2. Finished \in Locals(spawned)
    <3>1. 0 \in 0..spawned
      OBVIOUS
    <3> QED
      BY <3>1 DEF Finished, Locals, Pcs
  <2> QED
    BY <1>2, <2>1, <2>2 DEF Finished
<1>3. CASE l # "done"
  <2>1. proc' = [proc EXCEPT ![p] = [proc[p] EXCEPT !.pc = l]]
    BY <1>3 DEF Goto
  <2>2. [proc[p] EXCEPT !.pc = l] \in Locals(spawned)
    BY <1>1 DEF Locals
  <2>3. /\ [proc[p] EXCEPT !.pc = l].pc = l
        /\ [proc[p] EXCEPT !.pc = l].adm = proc[p].adm
        /\ [proc[p] EXCEPT !.pc = l].h = proc[p].h
    BY <1>1 DEF Locals
  <2> QED
    BY <1>3, <2>1, <2>2, <2>3
<1> QED
  BY <1>2, <1>3

-----------------------------------------------------------------------------
(* Sequence numbers.  Every admitted prompt has a natural number, and all of *)
(* them lie below some number, so the MAX of the inbox exists.               *)

SeqInv ==
    /\ req \in [Calls -> [seq : Nat, delivery : {"none", "queue", "steer"}]]
    /\ intr \in [pc : {"idle", "boundary", "flag"}, seq : Nat, turn : Turns \cup {NoTurn}]
    /\ \E m \in Nat : \A c \in Calls : row[c].seq <= m

RowType == row \in [Calls -> [st : {"none", "pending", "promoted"}, seq : Nat,
                              delivery : {"queue", "steer"}]]

LEMMA NextSeqNat ==
    ASSUME RowType, SeqInv
    PROVE  NextSeq \in Nat
<1>1. CASE Rows = {}
  BY <1>1 DEF NextSeq
<1>2. CASE Rows # {}
  <2>1. PICK m \in Nat : \A c \in Calls : row[c].seq <= m
    BY DEF SeqInv
  <2>2. \A c \in Rows : c \in Calls /\ row[c].seq \in Nat /\ m - row[c].seq \in Nat
    BY <2>1 DEF Rows, RowType
  <2> DEFINE T == {m - row[c].seq : c \in Rows}
  <2>3. T \subseteq Nat /\ T # {}
    BY <1>2, <2>2
  <2>4. PICK x \in T : \A y \in T : ~ (<<y, x>> \in OpToRel(<, Nat))
    BY <2>3, NatLessThanWellFounded, WFMin
  <2>5. \A y \in T : x <= y
    <3>1. \A y \in T : ~ (y < x)
      BY <2>3, <2>4, Zenon DEF OpToRel
    <3>2. x \in Nat /\ \A y \in T : y \in Nat
      BY <2>3, <2>4
    <3> HIDE DEF T
    <3> QED
      BY <3>1, <3>2
  <2>6. PICK c \in Rows : x = m - row[c].seq
    BY <2>4
  <2>7. \A d \in Rows : row[d].seq <= row[c].seq
    <3> SUFFICES ASSUME NEW d \in Rows  PROVE row[d].seq <= row[c].seq
      OBVIOUS
    <3>1. m - row[c].seq <= m - row[d].seq
      BY <2>5, <2>6
    <3> QED
      BY <3>1, <2>2
  <2>8. (CHOOSE b \in Rows : \A d \in Rows : row[d].seq <= row[b].seq) \in Rows
    BY <2>7
  <2> QED
    BY <1>2, <2>2, <2>8 DEF NextSeq
<1> QED
  BY <1>1, <1>2

-----------------------------------------------------------------------------
(* Typing.  Processes apart, because most steps only move one of them.       *)

EntryType == [draining : BOOLEAN, pending : {"none", "Run", "Wake"},
              interrupt_seq : Nat, wake_seq : Nat]

EngineType == [ops : Seq(Turns \cup {NoTurn}), run : Turns \cup {NoTurn},
               cancel : BOOLEAN, events : Seq(Ended), live : BOOLEAN, closing : BOOLEAN]

StateType ==
    /\ up \in BOOLEAN /\ refresh \in BOOLEAN
    /\ RowType
    /\ turn \in [Turns -> {"none", "InProgress"} \cup Ended]
    /\ active \in [turn : Turns \cup {NoTurn}, interrupt_requested : BOOLEAN]
    /\ loaded \in 0..spawned /\ spawned \in 0..MaxEngines
    /\ co \in EntryType /\ eng \in [Engines -> EngineType]
    /\ stat \in [Turns -> Ended]
    /\ started \in [Turns -> Nat] /\ ended \in [Turns -> Nat]
    /\ SeqInv

\* The admission of a task that starts a turn: prompts come from the inbox, a
\* compaction is started by its own request only.
PcInv ==
    \A p \in Procs :
        /\ proc[p].pc \in StartPcs => proc[p].adm \in Turns
        /\ proc[p].pc = "promote" => proc[p].adm \in Calls
        /\ proc[p].pc = "idle?" => proc[p].adm \in Compactions
        /\ proc[p].pc \in HandlePcs => proc[p].h # 0
        /\ proc[p].adm \in Compactions => p = Client(proc[p].adm)

ProcInv == proc \in [Procs -> Locals(spawned)] /\ PcInv

TypeInv == StateType /\ ProcInv

LEMMA TypeInvFacts ==
    TypeInv => TypeOK
  BY DEF TypeInv, StateType, ProcInv, TypeOK, RowType, EntryType, EngineType, Locals, Pcs

LEMMA TypeInit == Init => TypeInv
<1> SUFFICES ASSUME Init  PROVE TypeInv
  OBVIOUS
<1>1. StateType
  <2>1. <<>> \in Seq(Turns \cup {NoTurn}) /\ <<>> \in Seq(Ended)
    OBVIOUS
  <2>2. eng \in [Engines -> EngineType]
    BY <2>1 DEF Init, EngineType, FreshEngine
  <2>3. SeqInv
    <3>1. \A c \in Calls : row[c].seq <= 0
      BY DEF Init
    <3> QED
      BY <3>1 DEF Init, SeqInv, NoIntr
  <2>4. RowType /\ co \in EntryType
    BY DEF Init, RowType, EntryType, NoEntry
  <2>5. loaded \in 0..spawned /\ spawned \in 0..MaxEngines
    BY BoundsAssumption DEF Init
  <2>6. /\ up \in BOOLEAN /\ refresh \in BOOLEAN
        /\ active \in [turn : Turns \cup {NoTurn}, interrupt_requested : BOOLEAN]
        /\ turn \in [Turns -> {"none", "InProgress"} \cup Ended]
        /\ stat \in [Turns -> Ended]
        /\ started \in [Turns -> Nat] /\ ended \in [Turns -> Nat]
    BY DEF Init, NoActive, Ended
  <2> QED
    BY <2>2, <2>3, <2>4, <2>5, <2>6 DEF StateType
<1>2. ProcInv
  <2>1. spawned = 0 /\ proc = [p \in Procs |-> Resting]
    BY DEF Init
  <2>2. Resting \in Locals(0)
    BY DEF Resting, Locals, Pcs
  <2>3. /\ Resting.pc \notin StartPcs /\ Resting.pc \notin HandlePcs
        /\ Resting.adm \notin Compactions
        /\ Resting.pc # "promote" /\ Resting.pc # "idle?"
    BY TurnsAssumption DEF Resting, StartPcs, HandlePcs, Turns
  <2>4. \A p \in Procs : proc[p] = Resting
    BY <2>1
  <2>5. PcInv
    BY <2>3, <2>4 DEF PcInv
  <2> QED
    BY <2>1, <2>2, <2>5 DEF ProcInv
<1> QED
  BY <1>1, <1>2 DEF TypeInv

\* A step of one process that brings no new admission.
LEMMA GotoProc ==
    ASSUME spawned \in Nat, ProcInv, spawned' = spawned,
           NEW p \in Procs, NEW l \in Pcs, Goto(p, l),
           l \in StartPcs => proc[p].pc \in StartPcs,
           l = "promote" => proc[p].adm \in Calls,
           l # "idle?",
           l \in HandlePcs => proc[p].pc \in HandlePcs
    PROVE  ProcInv'
<1>1. /\ proc' \in [Procs -> Locals(spawned)]
      /\ proc'[p].pc = l
      /\ l # "done" => proc'[p].adm = proc[p].adm /\ proc'[p].h = proc[p].h
      /\ l = "done" => proc'[p].adm = NoTurn /\ proc'[p].h = 0
      /\ \A q \in Procs \ {p} : proc'[q] = proc[q]
  BY GotoFacts DEF ProcInv
<1>2. ASSUME NEW q \in Procs \ {p}
      PROVE  /\ proc'[q].pc \in StartPcs => proc'[q].adm \in Turns
             /\ proc'[q].pc = "promote" => proc'[q].adm \in Calls
             /\ proc'[q].pc = "idle?" => proc'[q].adm \in Compactions
             /\ proc'[q].pc \in HandlePcs => proc'[q].h # 0
             /\ proc'[q].adm \in Compactions => q = Client(proc'[q].adm)
  <2>1. proc'[q] = proc[q]
    BY <1>1
  <2> QED
    BY <2>1 DEF ProcInv, PcInv
<1>3. /\ proc'[p].pc \in StartPcs => proc'[p].adm \in Turns
      /\ proc'[p].pc = "promote" => proc'[p].adm \in Calls
      /\ proc'[p].pc = "idle?" => proc'[p].adm \in Compactions
      /\ proc'[p].pc \in HandlePcs => proc'[p].h # 0
      /\ proc'[p].adm \in Compactions => p = Client(proc'[p].adm)
  <2>1. CASE l = "done"
    BY <1>1, <2>1, TurnsAssumption DEF StartPcs, HandlePcs, Turns
  <2>2. CASE l # "done"
    BY <1>1, <2>2 DEF ProcInv, PcInv
  <2> QED
    BY <2>1, <2>2
<1>4. PcInv'
  BY <1>2, <1>3 DEF PcInv
<1> QED
  BY <1>1, <1>4 DEF ProcInv

\* A process that takes up an admission.
LEMMA LoadProc ==
    ASSUME spawned \in Nat, ProcInv, spawned' = spawned,
           NEW p \in Procs, NEW t \in Turns, t \in Compactions => p = Client(t),
           proc' = [proc EXCEPT ![p] = [pc |-> "load", adm |-> t, h |-> 0]]
    PROVE  ProcInv'
<1>1. [pc |-> "load", adm |-> t, h |-> 0] \in Locals(spawned)
  BY DEF Locals, Pcs
<1> QED
  BY <1>1 DEF ProcInv, PcInv, StartPcs, HandlePcs

\* The transitions of the coordinator's entry keep its shape.
LEMMA EntryFacts ==
    ASSUME NEW e \in EntryType, NEW seq \in Nat
    PROVE  /\ RequestRunEntry(e) \in EntryType
           /\ RequestWakeEntry(e, seq) \in EntryType
           /\ FinishDrainEntry(e) \in EntryType
           /\ InterruptEntry(e, seq) \in EntryType
<1>1. RequestRunEntry(e) \in EntryType
  BY DEF RequestRunEntry, EntryType, Coalesce
<1>2. RequestWakeEntry(e, seq) \in EntryType
  <2> DEFINE w == [e EXCEPT !.wake_seq = Max(e.wake_seq, seq)]
  <2>1. w \in EntryType
    BY DEF EntryType, Max
  <2>2. \A x \in EntryType : /\ [x EXCEPT !.pending = Coalesce(@, "Wake")] \in EntryType
                             /\ [x EXCEPT !.draining = TRUE] \in EntryType
    BY DEF EntryType, Coalesce
  <2> QED
    BY <2>1, <2>2 DEF RequestWakeEntry
<1>3. FinishDrainEntry(e) \in EntryType
  BY DEF FinishDrainEntry, EntryType, NoEntry
<1>4. InterruptEntry(e, seq) \in EntryType
  <2>1. Max(e.interrupt_seq, seq) \in Nat
    BY DEF EntryType, Max
  <2> QED
    BY <2>1 DEF InterruptEntry, EntryType
<1> QED
  BY <1>1, <1>2, <1>3, <1>4

\* Engines: one field of one engine changes at a time.
LEMMA OpFacts ==
    ASSUME NEW x \in EngineType, NEW t \in Turns \cup {NoTurn}
    PROVE  /\ [x EXCEPT !.ops = Append(@, t)] \in EngineType
           /\ [x EXCEPT !.closing = FALSE, !.ops = Append(@, t)] \in EngineType
<1>1. Append(x.ops, t) \in Seq(Turns \cup {NoTurn})
  BY DEF EngineType
<1> QED
  BY <1>1 DEF EngineType

LEMMA EventFacts ==
    ASSUME NEW x \in EngineType
    PROVE  /\ x.events # <<>> => /\ [x EXCEPT !.events = Tail(@)] \in EngineType
                                 /\ Head(x.events) \in Ended
           /\ \A s \in Ended :
                [x EXCEPT !.run = NoTurn, !.events = Append(@, s)] \in EngineType
<1>1. x.events \in Seq(Ended)
  BY DEF EngineType
<1>2. x.events # <<>> => Tail(x.events) \in Seq(Ended) /\ Head(x.events) \in Ended
  BY <1>1
<1>3. ASSUME NEW s \in Ended
      PROVE  [x EXCEPT !.run = NoTurn, !.events = Append(@, s)] \in EngineType
  <2>1. Append(x.events, s) \in Seq(Ended)
    BY <1>1
  <2> QED
    BY <2>1 DEF EngineType
<1>4. x.events # <<>> => [x EXCEPT !.events = Tail(@)] \in EngineType
  BY <1>2 DEF EngineType
<1> QED
  BY <1>2, <1>3, <1>4

LEMMA TokenFacts ==
    ASSUME NEW x \in EngineType
    PROVE  [x EXCEPT !.closing = TRUE] \in EngineType /\ [x EXCEPT !.cancel = TRUE] \in EngineType
  BY DEF EngineType

LEMMA StateStep ==
    ASSUME TypeInv, [Next]_vars
    PROVE  StateType'
<1>0. /\ StateType /\ ProcInv /\ spawned \in Nat /\ MaxEngines \in Nat
      /\ \A p \in Procs : proc[p] \in Locals(spawned)
      /\ Engines = 1..MaxEngines
  BY BoundsAssumption DEF TypeInv, StateType, ProcInv, Engines
<1>h. \A x \in 0..spawned : x # 0 => x \in Engines
  BY <1>0 DEF StateType
<1> USE DEF StateType
<1>q. ASSUME UNCHANGED <<up, row, turn, active, loaded, refresh, co, eng, spawned, req,
                         stat, intr, started, ended>>
      PROVE  StateType'
  BY <1>0, <1>q DEF RowType, SeqInv
<1>c. ASSUME UNCHANGED <<up, row, turn, active, loaded, refresh, eng, spawned, req,
                         stat, intr, started, ended>>,
             co' \in EntryType
      PROVE  StateType'
  BY <1>0, <1>c DEF RowType, SeqInv
<1>e. ASSUME UNCHANGED <<up, row, turn, active, loaded, refresh, co, spawned, req,
                         intr, ended>>,
             stat' \in [Turns -> Ended], started' \in [Turns -> Nat],
             NEW e \in Engines, NEW x \in EngineType, eng' = [eng EXCEPT ![e] = x]
      PROVE  StateType'
  <2>1. eng' \in [Engines -> EngineType]
    BY <1>0, <1>e
  <2> QED
    BY <1>0, <1>e, <2>1 DEF RowType, SeqInv
<1>s. ASSUME UNCHANGED <<up, row, active, loaded, refresh, co, spawned, req, eng,
                         intr, started>>,
             stat' \in [Turns -> Ended],
             turn' \in [Turns -> {"none", "InProgress"} \cup Ended],
             ended' \in [Turns -> Nat]
      PROVE  StateType'
  BY <1>0, <1>s DEF RowType, SeqInv
<1>m. ASSUME UNCHANGED <<up, row, turn, loaded, co, spawned, eng, req, stat, intr, started,
                         ended>>,
             active' \in [turn : Turns \cup {NoTurn}, interrupt_requested : BOOLEAN],
             refresh' \in BOOLEAN
      PROVE  StateType'
  BY <1>0, <1>m DEF RowType, SeqInv
<1>n. NoActive \in [turn : Turns \cup {NoTurn}, interrupt_requested : BOOLEAN]
  BY DEF NoActive
<1> USE DEF store, mem, engs, procs, hist
<1>1. CASE UNCHANGED vars
  BY <1>1, <1>q DEF vars
<1>2. ASSUME NEW c \in Calls, NEW d \in Deliveries, StartTurn(c, d)  PROVE StateType'
  <2>1. NextSeq \in Nat /\ d \in {"none", "queue", "steer"}
    BY <1>0, NextSeqNat, DeliveriesAssumption
  <2>2. /\ UNCHANGED <<up, row, turn, active, loaded, refresh, co, eng, spawned, stat, intr,
                       started, ended>>
        /\ req' = [req EXCEPT ![c] = [seq |-> NextSeq, delivery |-> d]]
    BY <1>2 DEF StartTurn
  <2>3. SeqInv'
    BY <1>0, <2>1, <2>2 DEF SeqInv
  <2> QED
    BY <1>0, <2>2, <2>3 DEF RowType
<1>3. ASSUME NEW c \in Calls, Admit(c)  PROVE StateType'
  <2>1. PICK d \in {"queue", "steer"} :
          row' = [row EXCEPT ![c] = [st |-> "pending", seq |-> req[c].seq, delivery |-> d]]
    BY <1>3 DEF Admit
  <2>2. UNCHANGED <<up, turn, active, loaded, refresh, co, eng, spawned, req, stat, intr,
                    started, ended>>
    BY <1>3 DEF Admit
  <2>3. req[c].seq \in Nat
    BY <1>0 DEF SeqInv
  <2>4. RowType'
    BY <1>0, <2>1, <2>3 DEF RowType
  <2>5. \E m \in Nat : \A b \in Calls : row'[b].seq <= m
    <3>1. PICK m \in Nat : \A b \in Calls : row[b].seq <= m
      BY <1>0 DEF SeqInv
    <3>2. PICK n \in Nat : n >= m /\ n >= req[c].seq
      BY <2>3
    <3>3. \A b \in Calls : row'[b].seq <= n
      <4> SUFFICES ASSUME NEW b \in Calls  PROVE row'[b].seq <= n
        OBVIOUS
      <4>1. CASE b = c
        BY <1>0, <2>1, <3>2, <4>1 DEF RowType
      <4>2. CASE b # c
        BY <1>0, <2>1, <3>1, <3>2, <4>2 DEF RowType
      <4> QED
        BY <4>1, <4>2
    <3> QED
      BY <3>2, <3>3
  <2>6. SeqInv'
    BY <1>0, <2>2, <2>5 DEF SeqInv
  <2> QED
    BY <1>0, <2>2, <2>4, <2>6
<1>4. ASSUME NEW c \in Calls, CheckActive(c)  PROVE StateType'
  BY <1>4, <1>q DEF CheckActive
<1>5. ASSUME NEW c \in Calls, RequestWake(c)  PROVE StateType'
  <2>1. req[c].seq \in Nat
    BY <1>0 DEF SeqInv
  <2>2. co' = co \/ co' = RequestWakeEntry(co, req[c].seq)
    BY <1>5 DEF RequestWake
  <2>3. co' \in EntryType
    BY <1>0, <2>1, <2>2, EntryFacts
  <2> QED
    BY <1>5, <2>3, <1>c DEF RequestWake
<1>6. ASSUME NEW c \in Calls, RequestRun(c)  PROVE StateType'
  BY <1>0, <1>6, <1>c, EntryFacts DEF RequestRun
<1>7. ASSUME NEW k \in Compactions, CompactThread(k)  PROVE StateType'
  BY <1>7, <1>q DEF CompactThread
<1>8. ASSUME NEW k \in Compactions, CompactCheck(k)  PROVE StateType'
  BY <1>8, <1>q DEF CompactCheck
<1>9. ASSUME NEW p \in Procs, EnsureLoaded(p)  PROVE StateType'
  BY <1>9, <1>q DEF EnsureLoaded
<1>10. ASSUME NEW p \in Procs, InsertEngine(p)  PROVE StateType'
  <2>1. /\ UNCHANGED <<up, row, turn, co, eng, req, stat, intr, started, ended>>
        /\ loaded' \in 0..spawned' /\ spawned' \in 0..MaxEngines
        /\ active' = NoActive /\ refresh' = FALSE
    BY <1>0, <1>10 DEF InsertEngine
  <2> QED
    BY <1>0, <1>n, <2>1 DEF RowType, SeqInv
<1>11. ASSUME NEW p \in Procs, Promote(p)  PROVE StateType'
  <2>1. /\ UNCHANGED <<up, turn, active, loaded, refresh, co, eng, spawned, req, stat, intr,
                       started, ended>>
        /\ \/ row' = row
           \/ \E t \in Calls : row' = [row EXCEPT ![t].st = "promoted"]
    BY <1>0, <1>11 DEF Promote, PromoteRow, At, ProcInv, PcInv
  <2>2. CASE row' = row
    BY <1>0, <2>1, <2>2 DEF RowType, SeqInv
  <2>3. ASSUME NEW t \in Calls, row' = [row EXCEPT ![t].st = "promoted"]
        PROVE  RowType' /\ SeqInv'
    <3>1. RowType' /\ \A c \in Calls : row'[c].seq = row[c].seq
      BY <1>0, <2>3 DEF RowType
    <3> QED
      BY <1>0, <2>1, <3>1 DEF SeqInv
  <2> QED
    BY <1>0, <2>1, <2>2, <2>3
<1>12. ASSUME NEW p \in Procs, SaveTurn(p)  PROVE StateType'
  <2>1. turn' \in [Turns -> {"none", "InProgress"} \cup Ended]
    BY <1>0, <1>12 DEF SaveTurn
  <2> QED
    BY <1>0, <1>12, <2>1, <1>s DEF SaveTurn
<1>13. ASSUME NEW p \in Procs, Activate(p)  PROVE StateType'
  <2>1. proc[p].adm \in Turns
    BY <1>0, <1>13 DEF Activate, At, ProcInv, PcInv, StartPcs
  <2>2. active' \in [turn : Turns \cup {NoTurn}, interrupt_requested : BOOLEAN]
    <3>1. active' = active \/ active' = [turn |-> proc[p].adm, interrupt_requested |-> FALSE]
      BY <1>13 DEF Activate
    <3>2. \A t \in Turns : [turn |-> t, interrupt_requested |-> FALSE] \in
            [turn : Turns \cup {NoTurn}, interrupt_requested : BOOLEAN]
      OBVIOUS
    <3> QED
      BY <1>0, <2>1, <3>1, <3>2
  <2> QED
    BY <1>0, <1>13, <2>2, <1>m DEF Activate
<1>14. ASSUME NEW p \in Procs, SendOp(p)  PROVE StateType'
  <2>1. proc[p].adm \in Turns /\ proc[p].h \in Engines
    BY <1>0, <1>14 DEF SendOp, At, ProcInv, PcInv, StartPcs, HandlePcs, Locals
  <2>2. PICK t \in Turns, e \in Engines : t = proc[p].adm /\ e = proc[p].h
    BY <2>1
  <2>3. /\ eng' = [eng EXCEPT ![e] = [eng[e] EXCEPT !.ops = Append(@, t)]]
        /\ started' = [started EXCEPT ![t] = @ + 1]
        /\ UNCHANGED <<up, row, turn, active, loaded, refresh, co, spawned, req, stat, intr, ended>>
    BY <1>14, <2>2 DEF SendOp
  <2>4. [eng[e] EXCEPT !.ops = Append(@, t)] \in EngineType
    BY <1>0, OpFacts
  <2>5. started' \in [Turns -> Nat]
    BY <1>0, <2>3
  <2> QED
    BY <1>0, <2>3, <2>4, <2>5, <1>e
<1>15. ASSUME NEW p \in Procs, SendFails(p)  PROVE StateType'
  BY <1>15, <1>q DEF SendFails
<1>16. ASSUME NEW p \in Procs, StartFails(p)  PROVE StateType'
  BY <1>16, <1>q DEF StartFails
<1>17. ASSUME NEW p \in Procs, RollbackSave(p)  PROVE StateType'
  <2>1. proc[p].adm \in Turns
    BY <1>0, <1>17 DEF RollbackSave, At, ProcInv, PcInv, StartPcs
  <2>2. turn' \in [Turns -> {"none", "InProgress"} \cup Ended]
    BY <1>0, <1>17, <2>1 DEF RollbackSave, Ended
  <2> QED
    BY <1>0, <1>17, <2>2, <1>s DEF RollbackSave
<1>41. ASSUME NEW p \in Procs, RollbackReport(p)  PROVE StateType'
  <2>1. proc[p].adm \in Turns
    BY <1>0, <1>41 DEF RollbackReport, At, ProcInv, PcInv, StartPcs
  <2>2. ended' \in [Turns -> Nat]
    BY <1>0, <1>41, <2>1 DEF RollbackReport
  <2> QED
    BY <1>0, <1>41, <2>2, <1>s DEF RollbackReport
<1>42. ASSUME NEW c \in Calls, AnswerQueued(c)  PROVE StateType'
  BY <1>42, <1>q DEF AnswerQueued
<1>43. ASSUME NEW t \in Turns, HangUp(t)  PROVE StateType'
  BY <1>43, <1>q DEF HangUp
<1>18. ASSUME NEW p \in Procs, RollbackClear(p)  PROVE StateType'
  <2>1. active' \in [turn : Turns \cup {NoTurn}, interrupt_requested : BOOLEAN]
    BY <1>0, <1>18, <1>n DEF RollbackClear
  <2> QED
    BY <1>0, <1>18, <2>1, <1>m DEF RollbackClear
<1>19. ASSUME NEW p \in Procs, RollbackDrain(p)  PROVE StateType'
  <2>1. co' \in EntryType
    BY <1>0, <1>19, EntryFacts DEF RollbackDrain
  <2> QED
    BY <1>19, <2>1, <1>c DEF RollbackDrain
<1>20. ASSUME NEW t \in Turns, Receive(t)  PROVE StateType'
  <2>a. Monitor(t) \in Procs /\ proc[Monitor(t)].pc = "receive"
    BY <1>20, ProcFacts DEF Receive, At
  <2>1. PICK e \in Engines : e = proc[Monitor(t)].h
    <3>1. proc[Monitor(t)].h # 0 /\ proc[Monitor(t)].h \in 0..spawned
      BY <1>0, <2>a DEF ProcInv, PcInv, HandlePcs, Locals
    <3> QED
      BY <1>h, <3>1
  <2>2. /\ eng[e].events # <<>>
        /\ stat' = [stat EXCEPT ![t] = Head(eng[e].events)]
        /\ eng' = [eng EXCEPT ![e] = [eng[e] EXCEPT !.events = Tail(@)]]
        /\ UNCHANGED <<up, row, turn, active, loaded, refresh, co, spawned, req, intr, started,
                       ended>>
    BY <1>20, <2>1 DEF Receive
  <2>3. /\ [eng[e] EXCEPT !.events = Tail(@)] \in EngineType
        /\ Head(eng[e].events) \in Ended
    BY <1>0, <2>2, EventFacts
  <2>4. stat' \in [Turns -> Ended]
    BY <1>0, <2>2, <2>3
  <2> QED
    BY <1>0, <2>2, <2>3, <2>4, <1>e
<1>21. ASSUME NEW t \in Turns, NEW status \in {"Completed", "Failed"}, ChannelClosed(t, status)
       PROVE  StateType'
  <2>1. stat' \in [Turns -> Ended]
    BY <1>0, <1>21 DEF ChannelClosed, Ended
  <2> QED
    BY <1>0, <1>21, <2>1, <1>s DEF ChannelClosed
<1>22. ASSUME NEW t \in Turns, ReadFlag(t)  PROVE StateType'
  <2>1. stat' \in [Turns -> Ended]
    BY <1>0, <1>22 DEF ReadFlag, Ended
  <2> QED
    BY <1>0, <1>22, <2>1, <1>s DEF ReadFlag
<1>23. ASSUME NEW t \in Turns, SaveFinal(t)  PROVE StateType'
  <2>1. turn' \in [Turns -> {"none", "InProgress"} \cup Ended]
    BY <1>0, <1>23 DEF SaveFinal
  <2> QED
    BY <1>0, <1>23, <2>1, <1>s DEF SaveFinal
<1>24. ASSUME NEW t \in Turns, EmitCompleted(t)  PROVE StateType'
  <2>1. ended' \in [Turns -> Nat]
    BY <1>0, <1>24 DEF EmitCompleted
  <2> QED
    BY <1>0, <1>24, <2>1, <1>s DEF EmitCompleted
<1>25. ASSUME NEW t \in Turns, ClearActive(t)  PROVE StateType'
  <2>1. active' \in [turn : Turns \cup {NoTurn}, interrupt_requested : BOOLEAN]
    BY <1>0, <1>25, <1>n DEF ClearActive, ClearedActive
  <2> QED
    BY <1>0, <1>25, <2>1, <1>m DEF ClearActive
<1>u. ASSUME Unloaded, loaded # 0, UNCHANGED <<up, row, turn, co, req, stat, intr, started, ended>>
      PROVE  StateType'
  <2>1. loaded \in Engines /\ loaded' = 0 /\ refresh' = FALSE /\ UNCHANGED <<active, spawned>>
    BY <1>0, <1>u DEF Unloaded
  <2>2. eng' = [eng EXCEPT ![loaded] = [eng[loaded] EXCEPT !.closing = TRUE]]
    BY <1>u DEF Unloaded
  <2>3. eng' \in [Engines -> EngineType]
    BY <1>0, <2>1, <2>2, TokenFacts
  <2>4. loaded' \in 0..spawned' /\ spawned' \in 0..MaxEngines
    BY <1>0, <2>1
  <2> QED
    BY <1>0, <1>u, <2>1, <2>3, <2>4 DEF RowType, SeqInv
<1>26. ASSUME NEW t \in Turns, UnloadAfterTurn(t)  PROVE StateType'
  BY <1>26, <1>u, <1>q DEF UnloadAfterTurn
<1>27. ASSUME NEW t \in Turns, UnloadReturns(t)  PROVE StateType'
  BY <1>27, <1>q DEF UnloadReturns
<1>28. ASSUME NEW t \in Turns, FinishDrain(t)  PROVE StateType'
  <2>1. co' \in EntryType
    BY <1>0, <1>28, EntryFacts DEF FinishDrain
  <2> QED
    BY <1>28, <2>1, <1>c DEF FinishDrain
<1>29. ASSUME NEW t \in Turns, NextPending(t)  PROVE StateType'
  BY <1>29, <1>q DEF NextPending
<1>30. ASSUME NEW t \in Turns, MonitorFails(t)  PROVE StateType'
  BY <1>30, <1>q DEF MonitorFails
<1>31. ASSUME NEW t \in Turns, InterruptTurn(t)  PROVE StateType'
  <2>1. NextSeq \in Nat
    BY <1>0, NextSeqNat
  <2>2. /\ UNCHANGED <<up, row, turn, active, loaded, refresh, co, eng, spawned, req, stat,
                       started, ended>>
        /\ \E n \in {NextSeq, 0} : intr' = [pc |-> "boundary", seq |-> n, turn |-> t]
    BY <1>31 DEF InterruptTurn
  <2>3. SeqInv'
    <3>1. PICK n \in Nat : intr' = [pc |-> "boundary", seq |-> n, turn |-> t]
      BY <2>1, <2>2
    <3> QED
      BY <1>0, <2>2, <3>1 DEF SeqInv
  <2> QED
    BY <1>0, <2>2, <2>3 DEF RowType
<1>32. CASE RaiseBoundary
  <2>1. intr.seq \in Nat
    BY <1>0 DEF SeqInv
  <2>2. co' \in EntryType
    BY <1>0, <1>32, <2>1, EntryFacts DEF RaiseBoundary
  <2>3. /\ UNCHANGED <<up, row, turn, active, loaded, refresh, eng, spawned, req, stat,
                       started, ended>>
        /\ intr' = [intr EXCEPT !.pc = "flag"]
    BY <1>32 DEF RaiseBoundary
  <2>4. SeqInv'
    BY <1>0, <2>3 DEF SeqInv
  <2> QED
    BY <1>0, <2>2, <2>3, <2>4 DEF RowType
<1>33. CASE FlagTurn
  <2>1. /\ UNCHANGED <<up, row, turn, loaded, refresh, co, spawned, req, stat, started, ended>>
        /\ intr' = NoIntr
    BY <1>33 DEF FlagTurn
  <2>2. SeqInv'
    BY <1>0, <2>1 DEF SeqInv, NoIntr
  <2>3. /\ active' \in [turn : Turns \cup {NoTurn}, interrupt_requested : BOOLEAN]
        /\ eng' \in [Engines -> EngineType]
    <3>1. CASE loaded # 0 /\ active.turn = intr.turn
      <4>1. loaded \in Engines
        BY <1>0, <3>1
      <4>2. /\ eng' = [eng EXCEPT ![loaded] = [eng[loaded] EXCEPT !.cancel = TRUE]]
            /\ active' = [active EXCEPT !.interrupt_requested = TRUE]
        BY <1>33, <3>1 DEF FlagTurn
      <4>3. eng' \in [Engines -> EngineType]
        BY <1>0, <4>1, <4>2, TokenFacts
      <4> QED
        BY <1>0, <4>2, <4>3
    <3>2. CASE ~ (loaded # 0 /\ active.turn = intr.turn)
      BY <1>0, <1>33, <3>2 DEF FlagTurn
    <3> QED
      BY <3>1, <3>2
  <2> QED
    BY <1>0, <2>1, <2>2, <2>3 DEF RowType
<1>34. ASSUME NEW e \in Engines, SendShutdown(e)  PROVE StateType'
  <2>1. /\ eng' = [eng EXCEPT ![e] = [eng[e] EXCEPT !.closing = FALSE, !.ops = Append(@, NoTurn)]]
        /\ UNCHANGED <<up, row, turn, active, loaded, refresh, co, spawned, req, stat, intr,
                       started, ended>>
    BY <1>34 DEF SendShutdown
  <2>2. [eng[e] EXCEPT !.closing = FALSE, !.ops = Append(@, NoTurn)] \in EngineType
    BY <1>0, OpFacts
  <2> QED
    BY <1>0, <2>1, <2>2, <1>e
<1>35. ASSUME NEW e \in Engines, EngineTake(e)  PROVE StateType'
  <2> DEFINE t == Head(eng[e].ops)
             x == [eng[e] EXCEPT !.ops = Tail(@), !.run = t, !.live = (t # NoTurn),
                                 !.cancel = IF t \in Calls THEN FALSE ELSE @]
  <2>1. /\ eng' = [eng EXCEPT ![e] = x] /\ eng[e].ops # <<>>
        /\ UNCHANGED <<up, row, turn, active, loaded, refresh, co, spawned, req, stat, intr,
                       started, ended>>
    BY <1>35 DEF EngineTake
  <2>2. eng[e] \in EngineType /\ eng[e].ops \in Seq(Turns \cup {NoTurn})
    BY <1>0 DEF EngineType
  <2>3. t \in Turns \cup {NoTurn} /\ Tail(eng[e].ops) \in Seq(Turns \cup {NoTurn})
    BY <2>1, <2>2
  <2>4. x \in EngineType
    <3> HIDE DEF t
    <3> QED
      BY <2>2, <2>3 DEF EngineType
  <2> HIDE DEF x
  <2> QED
    BY <1>0, <2>1, <2>4, <1>e
<1>36. ASSUME NEW e \in Engines, NEW status \in Ended, EngineComplete(e, status)
       PROVE  StateType'
  <2>1. /\ eng' = [eng EXCEPT ![e] = [eng[e] EXCEPT !.run = NoTurn, !.events = Append(@, status)]]
        /\ UNCHANGED <<up, row, turn, active, loaded, refresh, co, spawned, req, stat, intr,
                       started, ended>>
    BY <1>36 DEF EngineComplete
  <2>2. [eng[e] EXCEPT !.run = NoTurn, !.events = Append(@, status)] \in EngineType
    BY <1>0, EventFacts
  <2> QED
    BY <1>0, <2>1, <2>2, <1>e
<1>37. CASE Unload
  BY <1>37, <1>u DEF Unload
<1>38. CASE DeferRefresh
  BY <1>0, <1>38, <1>m DEF DeferRefresh
<1>39. CASE Crash
  <2>1. /\ UNCHANGED <<row, turn, spawned, req, stat, started, ended>>
        /\ up' = FALSE /\ active' = NoActive /\ loaded' = 0 /\ refresh' = FALSE /\ co' = NoEntry
        /\ eng' = [e \in Engines |-> FreshEngine] /\ intr' = NoIntr
    BY <1>39 DEF Crash
  <2>2. <<>> \in Seq(Turns \cup {NoTurn}) /\ <<>> \in Seq(Ended)
    OBVIOUS
  <2>3. eng' \in [Engines -> EngineType]
    BY <2>1, <2>2 DEF EngineType, FreshEngine
  <2>4. co' \in EntryType /\ SeqInv' /\ RowType'
    BY <1>0, <2>1 DEF EntryType, NoEntry, SeqInv, NoIntr, RowType
  <2>5. loaded' \in 0..spawned' /\ spawned' \in 0..MaxEngines
    BY <1>0, <2>1
  <2> QED
    BY <1>0, <1>n, <2>1, <2>3, <2>4, <2>5
<1>40. CASE Restart
  <2>1. turn' \in [Turns -> {"none", "InProgress"} \cup Ended]
    BY <1>0, <1>40 DEF Restart, Recover, Ended
  <2>2. /\ UNCHANGED <<row, active, loaded, refresh, co, eng, spawned, req, stat, intr, started,
                       ended>>
        /\ up' = TRUE
    BY <1>40 DEF Restart
  <2> QED
    BY <1>0, <2>1, <2>2 DEF RowType, SeqInv
<1> QED
  BY <1>1, <1>2, <1>3, <1>4, <1>5, <1>6, <1>7, <1>8, <1>9, <1>10, <1>11, <1>12,
     <1>13, <1>14, <1>15, <1>16, <1>17, <1>18, <1>19, <1>20, <1>21, <1>22, <1>23,
     <1>24, <1>25, <1>26, <1>27, <1>28, <1>29, <1>30, <1>31, <1>32, <1>33, <1>34,
     <1>35, <1>36, <1>37, <1>38, <1>39, <1>40, <1>41, <1>42, <1>43
     DEF Next, ClientStep, StartStep, MonitorStep, EngineStep

LEMMA ProcStep ==
    ASSUME TypeInv, [Next]_vars
    PROVE  ProcInv'
<1>0. /\ ProcInv /\ PcInv /\ spawned \in Nat /\ loaded \in 0..spawned
      /\ proc \in [Procs -> Locals(spawned)]
      /\ \A p \in Procs : proc[p] \in Locals(spawned)
      /\ \A t \in Turns : Client(t) \in Procs /\ Monitor(t) \in Procs
      /\ Calls \subseteq Turns /\ Compactions \subseteq Turns
  BY BoundsAssumption, ProcFacts DEF TypeInv, StateType, ProcInv, Turns
<1>q. ASSUME UNCHANGED <<proc, spawned>>  PROVE ProcInv'
  BY <1>0, <1>q DEF ProcInv, PcInv
\* Steps to a place where the admission and the handle no longer matter.
<1>l. ASSUME spawned' = spawned, NEW p \in Procs, NEW l \in Pcs \ (StartPcs \cup HandlePcs),
             Goto(p, l)
      PROVE  ProcInv'
  BY <1>0, <1>l, GotoProc DEF StartPcs
\* Steps from one place of start_turn_promoted to the next.
<1>s. ASSUME spawned' = spawned, NEW p \in Procs,
             \/ proc[p].pc \in HandlePcs \cap StartPcs /\ Goto(p, "save")
             \/ proc[p].pc \in HandlePcs \cap StartPcs /\ Goto(p, "activate")
             \/ proc[p].pc \in HandlePcs \cap StartPcs /\ Goto(p, "send")
             \/ proc[p].pc \in StartPcs /\ Goto(p, "rollback")
             \/ proc[p].pc \in StartPcs /\ Goto(p, "report")
             \/ proc[p].pc \in StartPcs /\ Goto(p, "unset")
             \/ proc[p].pc \in StartPcs /\ Goto(p, "undrain")
             \/ Goto(p, "done")
      PROVE  ProcInv'
  <2>1. /\ {"save", "activate", "send", "rollback", "report", "unset", "undrain",
             "done"} \subseteq Pcs
        /\ "rollback" \notin HandlePcs /\ "report" \notin HandlePcs
        /\ "unset" \notin HandlePcs /\ "undrain" \notin HandlePcs
        /\ "done" \notin HandlePcs /\ "done" \notin StartPcs
    BY DEF Pcs, HandlePcs, StartPcs
  <2> QED
    BY <1>0, <1>s, <2>1, GotoProc
<1> USE DEF store, mem, engs, procs, hist
<1>1. CASE UNCHANGED vars
  BY <1>1, <1>q DEF vars
<1>2. ASSUME NEW c \in Calls, NEW d \in Deliveries, StartTurn(c, d)  PROVE ProcInv'
  BY <1>0, <1>2, <1>l DEF StartTurn, Pcs, StartPcs, HandlePcs
<1>3. ASSUME NEW c \in Calls, Admit(c)  PROVE ProcInv'
  BY <1>0, <1>3, <1>l DEF Admit, Pcs, StartPcs, HandlePcs
<1>4. ASSUME NEW c \in Calls, CheckActive(c)  PROVE ProcInv'
  BY <1>0, <1>4, <1>l DEF CheckActive, Answer, Pcs, StartPcs, HandlePcs
<1>5. ASSUME NEW c \in Calls, RequestWake(c)  PROVE ProcInv'
  BY <1>0, <1>5, <1>l DEF RequestWake, Answer, Pcs, StartPcs, HandlePcs
<1>6. ASSUME NEW c \in Calls, RequestRun(c)  PROVE ProcInv'
  <2>1. c \notin Compactions
    BY TurnsAssumption
  <2> QED
    BY <1>0, <1>6, <2>1, LoadProc DEF RequestRun
<1>7. ASSUME NEW k \in Compactions, CompactThread(k)  PROVE ProcInv'
  BY <1>0, <1>7, LoadProc DEF CompactThread
<1>8. ASSUME NEW k \in Compactions, CompactCheck(k)  PROVE ProcInv'
  <2>1. proc[Client(k)].pc = "idle?" /\ spawned' = spawned
    BY <1>8 DEF CompactCheck, At
  <2>2. Goto(Client(k), "done") \/ Goto(Client(k), "save")
    BY <1>8 DEF CompactCheck, Answer
  <2>3. proc[Client(k)].pc \in HandlePcs \cap StartPcs
    BY <2>1 DEF HandlePcs, StartPcs
  <2> QED
    BY <1>0, <2>1, <2>2, <2>3, <1>s
<1>9. ASSUME NEW p \in Procs, EnsureLoaded(p)  PROVE ProcInv'
  <2>1. proc[p].pc = "load" /\ proc[p].adm \in Turns /\ spawned' = spawned
    BY <1>0, <1>9 DEF EnsureLoaded, At, PcInv, StartPcs
  <2>2. PICK l \in Pcs : /\ proc' = [proc EXCEPT ![p].pc = l, ![p].h = loaded]
                         /\ l = IF loaded # 0 THEN AfterLoad(proc[p].adm) ELSE "spawn"
    BY <1>9 DEF EnsureLoaded, AfterLoad, Pcs
  <2>3. /\ proc' \in [Procs -> Locals(spawned)]
        /\ proc'[p].pc = l /\ proc'[p].adm = proc[p].adm /\ proc'[p].h = loaded
        /\ \A q \in Procs \ {p} : proc'[q] = proc[q]
    BY <1>0, <2>2 DEF Locals
  <2>4. /\ l = "promote" => proc[p].adm \in Calls
        /\ l = "idle?" => proc[p].adm \in Compactions
        /\ l \in HandlePcs => loaded # 0
    BY <2>1, <2>2 DEF AfterLoad, Turns, HandlePcs
  <2> QED
    BY <1>0, <2>1, <2>3, <2>4 DEF ProcInv, PcInv
<1>10. ASSUME NEW p \in Procs, InsertEngine(p)  PROVE ProcInv'
  <2>1. proc[p].pc = "spawn" /\ proc[p].adm \in Turns /\ spawned' = spawned + 1
    BY <1>0, <1>10 DEF InsertEngine, At, PcInv, StartPcs
  <2>2. PICK l \in Pcs : /\ proc' = [proc EXCEPT ![p].pc = l, ![p].h = spawned']
                         /\ l = AfterLoad(proc[p].adm)
    BY <1>10 DEF InsertEngine, AfterLoad, Pcs
  <2>3. 0..spawned \subseteq 0..spawned' /\ spawned' \in 0..spawned' /\ spawned' # 0
    BY <1>0, <2>1
  <2>4. /\ proc' \in [Procs -> Locals(spawned')]
        /\ proc'[p].pc = l /\ proc'[p].adm = proc[p].adm /\ proc'[p].h = spawned'
        /\ \A q \in Procs \ {p} : proc'[q] = proc[q]
    BY <1>0, <2>2, <2>3 DEF Locals
  <2>5. /\ l = "promote" => proc[p].adm \in Calls
        /\ l = "idle?" => proc[p].adm \in Compactions
    BY <2>1, <2>2 DEF AfterLoad, Turns
  <2> QED
    BY <1>0, <2>1, <2>3, <2>4, <2>5 DEF ProcInv, PcInv
<1>11. ASSUME NEW p \in Procs, Promote(p)  PROVE ProcInv'
  <2>1. proc[p].pc \in HandlePcs \cap StartPcs /\ spawned' = spawned
    BY <1>11 DEF Promote, At, HandlePcs, StartPcs
  <2>2. Goto(p, "save") \/ Goto(p, "done")
    BY <1>11 DEF Promote, PromoteRow, Proceed, GiveUp, Leave
  <2> QED
    BY <2>1, <2>2, <1>s
<1>12. ASSUME NEW p \in Procs, SaveTurn(p)  PROVE ProcInv'
  BY <1>12, <1>s DEF SaveTurn, At, HandlePcs, StartPcs
<1>13. ASSUME NEW p \in Procs, Activate(p)  PROVE ProcInv'
  <2>1. proc[p].pc \in HandlePcs \cap StartPcs /\ spawned' = spawned
    BY <1>13 DEF Activate, At, HandlePcs, StartPcs
  <2>2. Goto(p, "send") \/ Goto(p, "done")
    BY <1>13 DEF Activate, Proceed, GiveUp, Leave
  <2> QED
    BY <2>1, <2>2, <1>s
<1>14. ASSUME NEW p \in Procs, SendOp(p)  PROVE ProcInv'
  <2>1. proc[p].pc = "send" /\ proc[p].adm \in Turns /\ proc[p].h \in 0..spawned
        /\ proc[p].h # 0 /\ spawned' = spawned
    BY <1>0, <1>14 DEF SendOp, At, PcInv, StartPcs, HandlePcs, Locals
  <2>2. PICK t \in Turns, e \in 0..spawned : t = proc[p].adm /\ e = proc[p].h /\ e # 0
    BY <2>1
  <2>3. proc' = [proc EXCEPT ![p] = Finished,
                             ![Monitor(t)] = [pc |-> "receive", adm |-> NoTurn, h |-> e]]
    BY <1>14, <2>2 DEF SendOp
  <2> DEFINE r == [pc |-> "receive", adm |-> NoTurn, h |-> e]
  <2>4. /\ Finished \in Locals(spawned) /\ r \in Locals(spawned)
        /\ Finished.pc = "done" /\ Finished.adm = NoTurn
        /\ r.pc = "receive" /\ r.adm = NoTurn /\ r.h # 0
    BY <1>0, <2>2 DEF Finished, Locals, Pcs
  <2> HIDE DEF r
  <2>5. /\ proc' \in [Procs -> Locals(spawned)]
        /\ \A q \in Procs : proc'[q] = r \/ proc'[q] = Finished \/ proc'[q] = proc[q]
    BY <1>0, <2>3, <2>4 DEF r
  <2>6. NoTurn \notin Compactions
    BY TurnsAssumption DEF Turns
  <2> QED
    BY <1>0, <2>1, <2>4, <2>5, <2>6 DEF ProcInv, PcInv, StartPcs, HandlePcs
<1>15. ASSUME NEW p \in Procs, SendFails(p)  PROVE ProcInv'
  <2>1. proc[p].pc \in StartPcs /\ spawned' = spawned
    BY <1>15 DEF SendFails, At, StartPcs
  <2>2. Goto(p, "rollback") \/ Goto(p, "done")
    BY <1>15 DEF SendFails, Refused, Proceed, GiveUp, Leave
  <2> QED
    BY <2>1, <2>2, <1>s
<1>16. ASSUME NEW p \in Procs, StartFails(p)  PROVE ProcInv'
  BY <1>16, <1>s DEF StartFails, GiveUp, Leave
<1>17. ASSUME NEW p \in Procs, RollbackSave(p)  PROVE ProcInv'
  BY <1>17, <1>s DEF RollbackSave, At, StartPcs
<1>39. ASSUME NEW p \in Procs, RollbackReport(p)  PROVE ProcInv'
  BY <1>39, <1>s DEF RollbackReport, At, StartPcs
<1>40. ASSUME NEW c \in Calls, AnswerQueued(c)  PROVE ProcInv'
  BY <1>0, <1>40, <1>s DEF AnswerQueued, Answer
<1>41. ASSUME NEW t \in Turns, HangUp(t)  PROVE ProcInv'
  BY <1>0, <1>41, <1>s DEF HangUp, Leave
<1>18. ASSUME NEW p \in Procs, RollbackClear(p)  PROVE ProcInv'
  BY <1>18, <1>s DEF RollbackClear, At, StartPcs
<1>19. ASSUME NEW p \in Procs, RollbackDrain(p)  PROVE ProcInv'
  BY <1>19, <1>s DEF RollbackDrain, GiveUp, Leave
<1>20. ASSUME NEW t \in Turns, Receive(t)  PROVE ProcInv'
  BY <1>0, <1>20, <1>l DEF Receive, Pcs, StartPcs, HandlePcs
<1>21. ASSUME NEW t \in Turns, NEW status \in {"Completed", "Failed"}, ChannelClosed(t, status)
       PROVE  ProcInv'
  BY <1>0, <1>21, <1>l DEF ChannelClosed, Pcs, StartPcs, HandlePcs
<1>22. ASSUME NEW t \in Turns, ReadFlag(t)  PROVE ProcInv'
  BY <1>0, <1>22, <1>l DEF ReadFlag, Pcs, StartPcs, HandlePcs
<1>23. ASSUME NEW t \in Turns, SaveFinal(t)  PROVE ProcInv'
  BY <1>0, <1>23, <1>l DEF SaveFinal, Pcs, StartPcs, HandlePcs
<1>24. ASSUME NEW t \in Turns, EmitCompleted(t)  PROVE ProcInv'
  BY <1>0, <1>24, <1>l DEF EmitCompleted, Pcs, StartPcs, HandlePcs
<1>25. ASSUME NEW t \in Turns, ClearActive(t)  PROVE ProcInv'
  BY <1>0, <1>25, <1>l DEF ClearActive, Pcs, StartPcs, HandlePcs
<1>26. ASSUME NEW t \in Turns, UnloadAfterTurn(t)  PROVE ProcInv'
  <2>1. CASE Goto(Monitor(t), "drain") /\ spawned' = spawned
    BY <1>0, <2>1, <1>l DEF Pcs, StartPcs, HandlePcs
  <2>2. CASE /\ spawned' = spawned /\ proc[Monitor(t)].pc = "unload"
             /\ proc' = [proc EXCEPT ![Monitor(t)].pc = "shutdown", ![Monitor(t)].h = loaded]
    <3>1. /\ proc' \in [Procs -> Locals(spawned)]
          /\ proc'[Monitor(t)].pc = "shutdown" /\ proc'[Monitor(t)].adm = proc[Monitor(t)].adm
          /\ \A q \in Procs \ {Monitor(t)} : proc'[q] = proc[q]
      BY <1>0, <2>2 DEF Locals, Pcs
    <3> QED
      BY <1>0, <2>2, <3>1 DEF ProcInv, PcInv, StartPcs, HandlePcs
  <2> QED
    BY <1>26, <2>1, <2>2 DEF UnloadAfterTurn, Unloaded, At
<1>27. ASSUME NEW t \in Turns, UnloadReturns(t)  PROVE ProcInv'
  BY <1>0, <1>27, <1>l DEF UnloadReturns, Pcs, StartPcs, HandlePcs
<1>28. ASSUME NEW t \in Turns, FinishDrain(t)  PROVE ProcInv'
  BY <1>0, <1>28, <1>l DEF FinishDrain, Pcs, StartPcs, HandlePcs
<1>29. ASSUME NEW t \in Turns, NextPending(t)  PROVE ProcInv'
  <2>1. CASE Goto(Monitor(t), "done")
    BY <1>0, <1>29, <2>1, <1>s DEF NextPending
  <2>2. ASSUME NEW c \in OldestPending,
               proc' = [proc EXCEPT ![Monitor(t)] = [pc |-> "load", adm |-> c, h |-> 0]]
        PROVE  ProcInv'
    <3>1. c \in Turns /\ c \notin Compactions
      BY <1>0, TurnsAssumption DEF OldestPending, PendingQueue, Rows
    <3> QED
      BY <1>0, <1>29, <2>2, <3>1, LoadProc DEF NextPending
  <2> QED
    BY <1>29, <2>1, <2>2 DEF NextPending
<1>30. ASSUME NEW t \in Turns, MonitorFails(t)  PROVE ProcInv'
  BY <1>0, <1>30, <1>s DEF MonitorFails
<1>31. ASSUME NEW t \in Turns, InterruptTurn(t)  PROVE ProcInv'
  BY <1>31, <1>q DEF InterruptTurn
<1>32. CASE RaiseBoundary
  BY <1>32, <1>q DEF RaiseBoundary
<1>33. CASE FlagTurn
  BY <1>33, <1>q DEF FlagTurn
<1>34. ASSUME NEW e \in Engines, EngineStep(e)  PROVE ProcInv'
  BY <1>34, <1>q DEF EngineStep, SendShutdown, EngineTake, EngineComplete
<1>35. CASE Unload
  BY <1>35, <1>q DEF Unload, Unloaded
<1>36. CASE DeferRefresh
  BY <1>36, <1>q DEF DeferRefresh
<1>37. CASE Crash
  <2>1. /\ spawned' = spawned
        /\ \A p \in Procs : proc'[p] = Resting \/ proc'[p] = Finished
        /\ proc' \in [Procs -> {Resting, Finished}]
    BY <1>37 DEF Crash
  <2>2. /\ Resting \in Locals(spawned) /\ Finished \in Locals(spawned)
        /\ Resting.pc = "idle" /\ Finished.pc = "done"
        /\ Resting.adm = NoTurn /\ Finished.adm = NoTurn
    BY <1>0 DEF Resting, Finished, Locals, Pcs
  <2>3. NoTurn \notin Compactions
    BY TurnsAssumption DEF Turns
  <2> QED
    BY <2>1, <2>2, <2>3 DEF ProcInv, PcInv, StartPcs, HandlePcs
<1>38. CASE Restart
  BY <1>38, <1>q DEF Restart
<1> QED
  BY <1>1, <1>2, <1>3, <1>4, <1>5, <1>6, <1>7, <1>8, <1>9, <1>10, <1>11, <1>12,
     <1>13, <1>14, <1>15, <1>16, <1>17, <1>18, <1>19, <1>20, <1>21, <1>22, <1>23,
     <1>24, <1>25, <1>26, <1>27, <1>28, <1>29, <1>30, <1>31, <1>32, <1>33, <1>34,
     <1>35, <1>36, <1>37, <1>38, <1>39, <1>40, <1>41
     DEF Next, ClientStep, StartStep, MonitorStep

LEMMA TypeStep == TypeInv /\ [Next]_vars => TypeInv'
  BY StateStep, ProcStep DEF TypeInv

\* Every reachable state of a thread's turns is well typed: a turn record only
\* holds a status of the store's enum, an engine channel only ops of turns, and
\* MAX(admitted_seq) of the inbox exists.
THEOREM Typing == Spec => []TypeOK
<1>1. Init => TypeInv
  BY TypeInit
<1>2. TypeInv /\ [Next]_vars => TypeInv'
  BY TypeStep
<1>3. TypeInv => TypeOK
  BY TypeInvFacts
<1> QED
  BY <1>1, <1>2, <1>3, PTL DEF Spec

-----------------------------------------------------------------------------
(* The life of one turn.  At most one task starts a turn, because only the   *)
(* one that wins promote_session_input (or the compaction's own request) gets *)
(* past it; nobody watches the turn before its op is sent, and whoever starts *)
(* or watches it finds the turn without an end.                               *)

StarterPcs == {"save", "activate", "send", "rollback", "report"}

\* The record of a turn, as the task that starts it knows it.
StatusAt(pc) == CASE pc = "save" -> "none" [] pc = "report" -> "Failed" [] OTHER -> "InProgress"

USE DEF StarterPcs, StatusAt

Starter(p, t) == proc[p].adm = t /\ proc[p].pc \in StarterPcs

Unborn(t) ==
    IF t \in Calls THEN row[t].st # "promoted"
                   ELSE proc[Client(t)].pc \in {"idle", "load", "spawn", "idle?"}

Fresh(t) ==
    started[t] = 0 /\ ended[t] = 0 /\ turn[t] = "none" /\ proc[Monitor(t)].pc = "idle"

UnbornInv(t) == Unborn(t) => Fresh(t) /\ \A p \in Procs : ~Starter(p, t)

OneStarter(t) == \A p, q \in Procs : Starter(p, t) /\ Starter(q, t) => p = q

StarterInv(t) ==
    \A p \in Procs : Starter(p, t) =>
        /\ started[t] = 0 /\ ended[t] = 0 /\ proc[Monitor(t)].pc = "idle"
        /\ turn[t] = StatusAt(proc[p].pc)

WatcherInv(t) ==
    /\ proc[Monitor(t)].pc \in {"receive", "flag", "final"} => turn[t] = "InProgress"
    /\ proc[Monitor(t)].pc \in {"receive", "flag", "final", "emit"} => ended[t] = 0

CountInv(t) == started[t] \in {0, 1} /\ ended[t] \in {0, 1}

AdmitInv(t) ==
    t \in Calls /\ proc[Client(t)].pc \in {"idle", "admit"} => row[t].st = "none"

TurnLife(t) ==
    /\ UnbornInv(t) /\ OneStarter(t) /\ StarterInv(t)
    /\ WatcherInv(t) /\ CountInv(t) /\ AdmitInv(t)

DownInv == ~up => \A p \in Procs : proc[p].pc \in {"idle", "done"}

LifeInv == DownInv /\ \A t \in Turns : TurnLife(t)

LEMMA LifeInit == Init => LifeInv
<1> SUFFICES ASSUME Init, NEW t \in Turns  PROVE TurnLife(t) /\ DownInv
  BY DEF LifeInv, DownInv, Init
<1>1. \A p \in Procs : proc[p].pc = "idle" /\ proc[p].adm = NoTurn
  BY DEF Init, Resting
<1>2. /\ proc[Monitor(t)].pc = "idle" /\ proc[Client(t)].pc = "idle"
      /\ started[t] = 0 /\ ended[t] = 0 /\ turn[t] = "none"
  BY <1>1, ProcFacts DEF Init
<1>3. \A p \in Procs : ~Starter(p, t)
  BY <1>1 DEF Starter
<1>4. up /\ (t \in Calls => row[t].st = "none")
  BY DEF Init
<1> QED
  BY <1>2, <1>3, <1>4
     DEF TurnLife, UnbornInv, Fresh, OneStarter, StarterInv, WatcherInv, CountInv,
         AdmitInv, DownInv

\* A turn none of whose variables and processes changes.
LEMMA StillLife ==
    ASSUME NEW t \in Turns, TurnLife(t),
           t \in Calls => row'[t] = row[t],
           turn'[t] = turn[t], started'[t] = started[t], ended'[t] = ended[t],
           \A p \in Procs : Starter(p, t)' => proc'[p] = proc[p],
           proc'[Monitor(t)].pc \in {"idle", "receive", "flag", "final", "emit"} \/
             proc[Monitor(t)].pc = "idle" => proc'[Monitor(t)].pc = proc[Monitor(t)].pc,
           t \in Calls /\ proc'[Client(t)].pc \in {"idle", "admit"} =>
             proc[Client(t)].pc \in {"idle", "admit"},
           t \notin Calls /\ proc'[Client(t)].pc \in {"idle", "load", "spawn", "idle?"} =>
             proc[Client(t)].pc \in {"idle", "load", "spawn", "idle?"}
    PROVE  TurnLife(t)'
<1>1. \A p \in Procs : Starter(p, t)' => Starter(p, t) /\ proc'[p] = proc[p]
  BY DEF Starter
<1>2. Unborn(t)' => Unborn(t)
  BY DEF Unborn
<1>3. UnbornInv(t)'
  BY <1>1, <1>2 DEF TurnLife, UnbornInv, Fresh
<1>4. OneStarter(t)' /\ StarterInv(t)'
  BY <1>1 DEF TurnLife, OneStarter, StarterInv
<1>5. WatcherInv(t)' /\ CountInv(t)' /\ AdmitInv(t)'
  BY DEF TurnLife, WatcherInv, CountInv, AdmitInv
<1> QED
  BY <1>3, <1>4, <1>5 DEF TurnLife

\* Nothing happens to the turns and their processes.
LEMMA QuietLife ==
    ASSUME LifeInv, UNCHANGED <<up, row, turn, started, ended, proc>>
    PROVE  LifeInv'
<1>1. \A t \in Turns : TurnLife(t)'
  BY StillLife DEF LifeInv
<1> QED
  BY <1>1 DEF LifeInv, DownInv

\* One process moves to a place where it neither starts nor watches a turn.
LEMMA MoveLife ==
    ASSUME LifeInv, up, UNCHANGED <<up, row, turn, started, ended>>,
           NEW p \in Procs,
           \A q \in Procs \ {p} : proc'[q] = proc[q],
           proc'[p].pc \notin StarterPcs \cup {"receive", "flag", "final", "emit", "idle"},
           proc'[p].pc = "admit" => proc[p].pc = "idle",
           \A t \in Turns : p = Monitor(t) => proc[p].pc # "idle",
           proc'[p].pc \in {"load", "spawn", "idle?"} =>
              \/ \A k \in Compactions : p # Client(k)
              \/ proc[p].pc \in {"idle", "load", "spawn", "idle?"}
    PROVE  LifeInv'
<1> SUFFICES ASSUME NEW t \in Turns  PROVE TurnLife(t)'
  BY DEF LifeInv, DownInv
<1>1. Client(t) \in Procs /\ Monitor(t) \in Procs /\ (t \in Calls \/ t \in Compactions)
  BY ProcFacts DEF Turns
<1>2. \A q \in Procs : Starter(q, t)' => proc'[q] = proc[q]
  BY DEF Starter
<1>3. /\ p = Monitor(t) => /\ proc[Monitor(t)].pc # "idle"
                          /\ proc'[Monitor(t)].pc \notin
                               {"idle", "receive", "flag", "final", "emit"}
      /\ p # Monitor(t) => proc'[Monitor(t)] = proc[Monitor(t)]
  BY <1>1
<1>4. /\ p = Client(t) /\ t \in Calls /\ proc'[Client(t)].pc \in {"idle", "admit"} =>
            proc[Client(t)].pc \in {"idle", "admit"}
      /\ p = Client(t) /\ t \notin Calls
            /\ proc'[Client(t)].pc \in {"idle", "load", "spawn", "idle?"} =>
            proc[Client(t)].pc \in {"idle", "load", "spawn", "idle?"}
      /\ p # Client(t) => proc'[Client(t)] = proc[Client(t)]
  BY <1>1
<1> QED
  BY <1>2, <1>3, <1>4, StillLife DEF LifeInv

\* A step about turn t, taken by its monitor, its client or the task that starts
\* it, does not touch the other turns.
LEMMA OthersLife ==
    ASSUME LifeInv, NEW t \in Turns, NEW p \in Procs,
           \A c \in Calls \ {t} : row'[c] = row[c],
           \A u \in Turns \ {t} : /\ turn'[u] = turn[u] /\ started'[u] = started[u]
                                  /\ ended'[u] = ended[u]
                                  /\ ~Starter(p, u)' /\ ~Starter(Monitor(t), u)',
           \A q \in Procs \ {p, Monitor(t)} : proc'[q] = proc[q],
           \/ p = Monitor(t) \/ p = Client(t)
           \/ /\ proc[p].pc # "idle"
              /\ proc'[p].pc \in StarterPcs \cup {"unset", "done"}
    PROVE  \A u \in Turns \ {t} : TurnLife(u)'
<1> SUFFICES ASSUME NEW u \in Turns \ {t}  PROVE TurnLife(u)'
  OBVIOUS
<1>1. /\ Client(u) \in Procs /\ Monitor(u) \in Procs /\ Client(u) # Monitor(t)
      /\ Monitor(u) # Monitor(t) /\ Client(t) # Client(u) /\ Client(t) # Monitor(u)
  BY ProcFacts
<1>2. \A q \in Procs : Starter(q, u)' => proc'[q] = proc[q]
  <2> SUFFICES ASSUME NEW q \in Procs, Starter(q, u)'  PROVE proc'[q] = proc[q]
    OBVIOUS
  <2>1. q # p /\ q # Monitor(t)
    OBVIOUS
  <2> QED
    BY <2>1
<1>3. /\ Monitor(u) # p => proc'[Monitor(u)] = proc[Monitor(u)]
      /\ Client(u) # p => proc'[Client(u)] = proc[Client(u)]
  BY <1>1
<1>4. Monitor(u) = p => /\ proc[Monitor(u)].pc # "idle"
                        /\ proc'[Monitor(u)].pc \notin {"idle", "receive", "flag", "final", "emit"}
  BY <1>1
<1>5. Client(u) = p => proc'[Client(u)].pc \notin {"idle", "admit", "load", "spawn", "idle?"}
  BY <1>1
<1> QED
  BY <1>2, <1>3, <1>4, <1>5, StillLife DEF LifeInv

\* The task that starts turn t, and what is known of the turn.
LEMMA StarterFacts ==
    ASSUME TypeInv, LifeInv, NEW p \in Procs,
           proc[p].pc \in StarterPcs
    PROVE  \E t \in Turns :
             /\ proc[p].adm = t /\ Starter(p, t)
             /\ \A q \in Procs : Starter(q, t) => q = p
             /\ started[t] = 0 /\ ended[t] = 0 /\ proc[Monitor(t)].pc = "idle"
             /\ turn[t] = StatusAt(proc[p].pc)
             /\ ~Unborn(t) /\ p # Monitor(t)
             /\ t \in Compactions => p = Client(t)
             /\ AdmitInv(t)
<1>1. PICK t \in Turns : proc[p].adm = t
  BY DEF TypeInv, ProcInv, PcInv, StartPcs
<1>2. Starter(p, t)
  BY <1>1 DEF Starter
<1>3. TurnLife(t)
  BY DEF LifeInv
<1>4. /\ started[t] = 0 /\ ended[t] = 0 /\ proc[Monitor(t)].pc = "idle"
      /\ turn[t] = StatusAt(proc[p].pc)
  BY <1>2, <1>3 DEF TurnLife, StarterInv
<1>5. \A q \in Procs : Starter(q, t) => q = p
  BY <1>2, <1>3 DEF TurnLife, OneStarter
<1>6. ~Unborn(t)
  BY <1>2, <1>3 DEF TurnLife, UnbornInv
<1>7. t \in Compactions => p = Client(t)
  BY <1>1 DEF TypeInv, ProcInv, PcInv
<1> QED
  BY <1>1, <1>2, <1>3, <1>4, <1>5, <1>6, <1>7 DEF TurnLife

\* The task that starts turn t goes on, or is done with it.
LEMMA AdvanceLife ==
    ASSUME TypeInv, LifeInv, up, UNCHANGED <<up, row, started>>,
           NEW p \in Procs, NEW t \in Turns, Starter(p, t),
           \A q \in Procs \ {p} : proc'[q] = proc[q],
           proc'[p].pc \in {"activate", "send", "rollback", "report", "unset", "done"},
           proc'[p].adm \in {t, NoTurn},
           \A u \in Turns \ {t} : turn'[u] = turn[u] /\ ended'[u] = ended[u],
           proc'[p].pc \in StarterPcs =>
              turn'[t] = StatusAt(proc'[p].pc) /\ ended'[t] = ended[t],
           ended'[t] \in {0, 1}
    PROVE  LifeInv'
<1>1. /\ \A q \in Procs : Starter(q, t) => q = p
      /\ started[t] = 0 /\ ended[t] = 0 /\ proc[Monitor(t)].pc = "idle"
      /\ ~Unborn(t) /\ p # Monitor(t) /\ AdmitInv(t) /\ proc[p].adm = t
      /\ t \in Compactions => p = Client(t)
  <2>1. proc[p].adm = t /\ proc[p].pc \in StarterPcs
    BY DEF Starter
  <2> QED
    BY <2>1, StarterFacts
<1>2. /\ Client(t) \in Procs /\ Monitor(t) \in Procs /\ proc'[Monitor(t)] = proc[Monitor(t)]
      /\ t \in Calls \/ t \in Compactions
      /\ NoTurn \notin Turns
  BY <1>1, ProcFacts, TurnsAssumption DEF Turns
<1>3. \A u \in Turns \ {t} : TurnLife(u)'
  <2>1. \A u \in Turns \ {t} : ~Starter(p, u)' /\ ~Starter(Monitor(t), u)'
    BY <1>1, <1>2 DEF Starter
  <2> QED
    BY <2>1, OthersLife DEF Starter
<1>4. ~Unborn(t)'
  BY <1>1, <1>2 DEF Unborn
<1>5. \A q \in Procs : Starter(q, t)' => q = p
  BY <1>1 DEF Starter
<1>6. UnbornInv(t)' /\ OneStarter(t)'
  BY <1>4, <1>5 DEF UnbornInv, OneStarter
<1>7. StarterInv(t)'
  BY <1>1, <1>2, <1>5 DEF StarterInv, Starter
<1>8. WatcherInv(t)' /\ CountInv(t)'
  BY <1>1, <1>2 DEF WatcherInv, CountInv
<1>9. AdmitInv(t)'
  BY <1>1, <1>2 DEF AdmitInv
<1> QED
  BY <1>3, <1>6, <1>7, <1>8, <1>9 DEF LifeInv, DownInv, TurnLife

\* The monitor of turn t goes on.
LEMMA WatchLife ==
    ASSUME LifeInv, up, UNCHANGED <<up, row, started>>,
           NEW t \in Turns,
           proc[Monitor(t)].pc \in {"receive", "flag", "final", "emit"},
           \A q \in Procs \ {Monitor(t)} : proc'[q] = proc[q],
           proc'[Monitor(t)].pc \in {"flag", "final", "emit", "clear"},
           \A u \in Turns \ {t} : turn'[u] = turn[u] /\ ended'[u] = ended[u],
           proc'[Monitor(t)].pc \in {"flag", "final"} => turn'[t] = "InProgress",
           proc'[Monitor(t)].pc \in {"flag", "final", "emit"} => ended'[t] = 0,
           ended'[t] \in {0, 1}
    PROVE  LifeInv'
<1>1. Client(t) \in Procs /\ Monitor(t) \in Procs /\ Client(t) # Monitor(t)
  BY ProcFacts
<1>2. TurnLife(t)
  BY DEF LifeInv
<1>3. \A u \in Turns : ~Starter(Monitor(t), u)'
  BY DEF Starter
<1>4. \A u \in Turns \ {t} : TurnLife(u)'
  BY <1>1, <1>3, OthersLife
<1>5. ~Unborn(t)'
  <2>1. ~Unborn(t)
    BY <1>2 DEF TurnLife, UnbornInv, Fresh
  <2> QED
    BY <1>1, <2>1 DEF Unborn
<1>6. \A q \in Procs : ~Starter(q, t)'
  <2>1. \A q \in Procs : ~Starter(q, t)
    BY <1>2 DEF TurnLife, StarterInv
  <2> QED
    BY <1>3, <2>1 DEF Starter
<1>7. UnbornInv(t)' /\ OneStarter(t)' /\ StarterInv(t)'
  BY <1>5, <1>6 DEF UnbornInv, OneStarter, StarterInv
<1>8. WatcherInv(t)' /\ CountInv(t)' /\ AdmitInv(t)'
  BY <1>1, <1>2 DEF TurnLife, WatcherInv, CountInv, AdmitInv
<1> QED
  BY <1>4, <1>7, <1>8 DEF LifeInv, DownInv, TurnLife

\* A task gets the right to start turn t.
LEMMA BirthLife ==
    ASSUME LifeInv, up, UNCHANGED <<up, turn, started, ended>>,
           NEW p \in Procs, NEW t \in Turns, Unborn(t), ~Unborn(t)',
           proc[p].pc # "idle",
           \A q \in Procs \ {p} : proc'[q] = proc[q],
           proc'[p].pc = "save", proc'[p].adm = t,
           \A c \in Calls \ {t} : row'[c] = row[c],
           t \in Calls => row[t].st = "pending"
    PROVE  LifeInv'
<1>1. /\ Client(t) \in Procs /\ Monitor(t) \in Procs
      /\ started[t] = 0 /\ ended[t] = 0 /\ turn[t] = "none" /\ proc[Monitor(t)].pc = "idle"
      /\ AdmitInv(t) /\ \A q \in Procs : ~Starter(q, t)
  BY ProcFacts DEF LifeInv, TurnLife, UnbornInv, Fresh
<1>2. p # Monitor(t) /\ proc'[Monitor(t)] = proc[Monitor(t)]
  BY <1>1
<1>3. \A u \in Turns \ {t} : TurnLife(u)'
  <2>1. \A u \in Turns \ {t} : ~Starter(p, u)' /\ ~Starter(Monitor(t), u)'
    BY <1>1, <1>2 DEF Starter
  <2> QED
    BY <2>1, OthersLife
<1>4. \A q \in Procs : Starter(q, t)' => q = p
  BY <1>1 DEF Starter
<1>5. UnbornInv(t)' /\ OneStarter(t)'
  BY <1>4 DEF UnbornInv, OneStarter
<1>6. StarterInv(t)'
  BY <1>1, <1>2, <1>4 DEF StarterInv
<1>7. WatcherInv(t)' /\ CountInv(t)'
  BY <1>1, <1>2 DEF WatcherInv, CountInv
<1>8. AdmitInv(t)'
  BY <1>1, <1>2 DEF AdmitInv
<1> QED
  BY <1>3, <1>5, <1>6, <1>7, <1>8 DEF LifeInv, DownInv, TurnLife

LEMMA SendOpLife ==
    ASSUME TypeInv, LifeInv, NEW p \in Procs, SendOp(p)
    PROVE  LifeInv'
<1>1. /\ up /\ proc[p].pc = "send" /\ proc \in [Procs -> Locals(spawned)]
      /\ started \in [Turns -> Nat]
  BY DEF SendOp, At, TypeInv, ProcInv, StateType
<1>2. PICK t \in Turns :
        /\ proc[p].adm = t
        /\ \A q \in Procs : Starter(q, t) => q = p
        /\ started[t] = 0 /\ ended[t] = 0 /\ proc[Monitor(t)].pc = "idle"
        /\ turn[t] = "InProgress" /\ ~Unborn(t) /\ p # Monitor(t) /\ AdmitInv(t)
        /\ t \in Compactions => p = Client(t)
  BY <1>1, StarterFacts
<1>3. /\ UNCHANGED <<up, row, turn, ended>>
      /\ started' = [started EXCEPT ![t] = @ + 1]
      /\ proc' = [proc EXCEPT ![p] = Finished,
                    ![Monitor(t)] = [pc |-> "receive", adm |-> NoTurn, h |-> proc[p].h]]
  BY <1>2 DEF SendOp, store
<1>4. /\ Client(t) \in Procs /\ Monitor(t) \in Procs
      /\ t \in Calls \/ t \in Compactions
      /\ NoTurn \notin Turns /\ Client(t) # Monitor(t)
  BY ProcFacts, TurnsAssumption DEF Turns
<1>5. /\ proc'[p] = Finished
      /\ proc'[Monitor(t)] = [pc |-> "receive", adm |-> NoTurn, h |-> proc[p].h]
      /\ \A q \in Procs \ {p, Monitor(t)} : proc'[q] = proc[q]
      /\ started'[t] = 1 /\ \A u \in Turns \ {t} : started'[u] = started[u]
  BY <1>1, <1>2, <1>3, <1>4
<1>6. /\ proc'[p].pc = "done" /\ proc'[p].adm = NoTurn
      /\ proc'[Monitor(t)].pc = "receive" /\ proc'[Monitor(t)].adm = NoTurn
  BY <1>5 DEF Finished
<1>7. \A u \in Turns : ~Starter(p, u)' /\ ~Starter(Monitor(t), u)'
  BY <1>6 DEF Starter
<1>8. \A u \in Turns \ {t} : TurnLife(u)'
  BY <1>1, <1>3, <1>5, <1>6, <1>7, OthersLife
<1>9. ~Unborn(t)'
  BY <1>2, <1>3, <1>4, <1>5, <1>6 DEF Unborn
<1>10. \A q \in Procs : ~Starter(q, t)'
  BY <1>2, <1>5, <1>7 DEF Starter
<1>11. UnbornInv(t)' /\ OneStarter(t)' /\ StarterInv(t)'
  BY <1>9, <1>10 DEF UnbornInv, OneStarter, StarterInv
<1>12. WatcherInv(t)' /\ CountInv(t)'
  BY <1>2, <1>3, <1>5 DEF WatcherInv, CountInv
<1>13. AdmitInv(t)'
  BY <1>2, <1>3, <1>4, <1>5, <1>6 DEF AdmitInv
<1> QED
  BY <1>1, <1>3, <1>8, <1>11, <1>12, <1>13 DEF LifeInv, DownInv, TurnLife

LEMMA LifeStep ==
    ASSUME TypeInv, LifeInv, [Next]_vars
    PROVE  LifeInv'
<1>0. /\ spawned \in Nat /\ proc \in [Procs -> Locals(spawned)]
      /\ \A t \in Turns : Client(t) \in Procs /\ Monitor(t) \in Procs
      /\ Calls \subseteq Turns /\ Compactions \subseteq Turns
      /\ RowType /\ turn \in [Turns -> {"none", "InProgress"} \cup Ended]
      /\ ended \in [Turns -> Nat] /\ stat \in [Turns -> Ended]
      /\ \A t \in Turns : TurnLife(t)
  BY ProcFacts DEF TypeInv, StateType, ProcInv, Turns, LifeInv
\* A process that is under way goes to a place outside starting and watching.
<1>l. ASSUME up, UNCHANGED <<up, row, turn, started, ended>>, NEW p \in Procs,
             proc[p].pc # "idle", Goto(p, "done") \/ Goto(p, "check") \/ Goto(p, "wake")
                \/ Goto(p, "queued") \/ Goto(p, "run") \/ Goto(p, "undrain") \/ Goto(p, "drain")
                \/ Goto(p, "unload") \/ Goto(p, "next")
      PROVE  LifeInv'
  <2>1. PICK l \in {"done", "check", "wake", "queued", "run", "undrain", "drain", "unload",
                      "next"} :
          Goto(p, l)
    BY <1>l
  <2>2. l \in Pcs
    BY DEF Pcs
  <2>3. proc'[p].pc = l /\ \A q \in Procs \ {p} : proc'[q] = proc[q]
    BY <1>0, <2>1, <2>2, GotoFacts
  <2> QED
    BY <1>l, <2>3, MoveLife
<1> USE DEF store, mem, engs, procs, hist
<1>1. CASE UNCHANGED vars
  BY <1>1, QuietLife DEF vars
<1>2. ASSUME NEW c \in Calls, NEW d \in Deliveries, StartTurn(c, d)  PROVE LifeInv'
  <2>1. /\ up /\ proc[Client(c)].pc = "idle" /\ Goto(Client(c), "admit")
        /\ UNCHANGED <<up, row, turn, started, ended>>
    BY <1>2 DEF StartTurn, At
  <2>2. /\ proc'[Client(c)].pc = "admit" /\ \A q \in Procs \ {Client(c)} : proc'[q] = proc[q]
        /\ \A t \in Turns : Client(c) # Monitor(t)
    BY <1>0, <2>1, GotoFacts, ProcFacts DEF Pcs
  <2> QED
    BY <1>0, <2>1, <2>2, MoveLife
<1>3. ASSUME NEW c \in Calls, Admit(c)  PROVE LifeInv'
  <2>1. /\ up /\ proc[Client(c)].pc = "admit" /\ Goto(Client(c), "check")
        /\ UNCHANGED <<up, turn, started, ended>>
        /\ \A b \in Calls \ {c} : row'[b] = row[b]
        /\ row'[c].st = "pending"
    BY <1>0, <1>3 DEF Admit, At, RowType
  <2>2. /\ proc'[Client(c)].pc = "check" /\ \A q \in Procs \ {Client(c)} : proc'[q] = proc[q]
        /\ Client(c) # Monitor(c)
    BY <1>0, <2>1, GotoFacts, ProcFacts DEF Pcs
  <2>3. row[c].st = "none"
    BY <1>0, <2>1 DEF TurnLife, AdmitInv
  <2>4. Fresh(c) /\ \A q \in Procs : ~Starter(q, c)
    BY <1>0, <2>3 DEF TurnLife, UnbornInv, Unborn
  <2>5. Fresh(c)' /\ \A q \in Procs : ~Starter(q, c)'
    BY <1>0, <2>1, <2>2, <2>4 DEF Fresh, Starter
  <2>6. TurnLife(c)'
    BY <2>2, <2>5 DEF Fresh, TurnLife, UnbornInv, OneStarter, StarterInv, WatcherInv, CountInv,
                      AdmitInv
  <2>7. \A u \in Turns \ {c} : TurnLife(u)'
    <3>1. \A u \in Turns \ {c} : ~Starter(Client(c), u)' /\ ~Starter(Monitor(c), u)'
      BY <1>0, <2>2, <2>4 DEF Starter, Fresh
    <3> QED
      BY <1>0, <2>1, <2>2, <3>1, OthersLife
  <2> QED
    BY <2>1, <2>6, <2>7 DEF LifeInv, DownInv
<1>4. ASSUME NEW c \in Calls, CheckActive(c)  PROVE LifeInv'
  BY <1>0, <1>4, <1>l DEF CheckActive, Answer, At
<1>5. ASSUME NEW c \in Calls, RequestWake(c)  PROVE LifeInv'
  BY <1>0, <1>5, <1>l DEF RequestWake, Answer, At
<1>6. ASSUME NEW c \in Calls, RequestRun(c)  PROVE LifeInv'
  <2>1. /\ up /\ proc[Client(c)].pc = "run" /\ UNCHANGED <<up, row, turn, started, ended>>
        /\ proc' = [proc EXCEPT ![Client(c)] = [pc |-> "load", adm |-> c, h |-> 0]]
    BY <1>6 DEF RequestRun, At
  <2>2. /\ proc'[Client(c)].pc = "load" /\ \A q \in Procs \ {Client(c)} : proc'[q] = proc[q]
        /\ \A k \in Compactions : Client(c) # Client(k)
    BY <1>0, <2>1, ProcFacts, TurnsAssumption
  <2> QED
    BY <1>0, <2>1, <2>2, MoveLife
<1>7. ASSUME NEW k \in Compactions, CompactThread(k)  PROVE LifeInv'
  <2>1. /\ up /\ proc[Client(k)].pc = "idle" /\ UNCHANGED <<up, row, turn, started, ended>>
        /\ proc' = [proc EXCEPT ![Client(k)] = [pc |-> "load", adm |-> k, h |-> 0]]
    BY <1>7 DEF CompactThread, At
  <2>2. /\ proc'[Client(k)].pc = "load" /\ \A q \in Procs \ {Client(k)} : proc'[q] = proc[q]
        /\ \A t \in Turns : Client(k) # Monitor(t)
    BY <1>0, <2>1, ProcFacts
  <2> QED
    BY <1>0, <2>1, <2>2, MoveLife
<1>8. ASSUME NEW k \in Compactions, CompactCheck(k)  PROVE LifeInv'
  <2>1. /\ up /\ proc[Client(k)].pc = "idle?" /\ UNCHANGED <<up, row, turn, started, ended>>
        /\ Goto(Client(k), "done") \/ Goto(Client(k), "save")
    BY <1>8 DEF CompactCheck, Answer, At
  <2>2. CASE Goto(Client(k), "done")
    BY <1>0, <2>1, <2>2, <1>l
  <2>3. CASE Goto(Client(k), "save")
    <3>1. proc[Client(k)].adm = k
      BY <1>0, <2>1, ProcFacts DEF TypeInv, ProcInv, PcInv
    <3>2. /\ proc'[Client(k)].pc = "save" /\ proc'[Client(k)].adm = k
          /\ \A q \in Procs \ {Client(k)} : proc'[q] = proc[q]
      BY <1>0, <2>3, <3>1, GotoFacts DEF Pcs
    <3>3. Unborn(k) /\ ~Unborn(k)' /\ k \notin Calls
      BY <2>1, <3>2, TurnsAssumption DEF Unborn
    <3> QED
      BY <1>0, <2>1, <3>2, <3>3, BirthLife
  <2> QED
    BY <2>1, <2>2, <2>3
<1>9. ASSUME NEW p \in Procs, EnsureLoaded(p) \/ InsertEngine(p)  PROVE LifeInv'
  <2>1. /\ up /\ proc[p].pc \in {"load", "spawn"} /\ UNCHANGED <<up, row, turn, started, ended>>
        /\ \E l \in {"spawn", "idle?", "promote"}, e \in {loaded, spawned'} :
             proc' = [proc EXCEPT ![p].pc = l, ![p].h = e]
    BY <1>9 DEF EnsureLoaded, InsertEngine, At, AfterLoad
  <2>2. /\ proc'[p].pc \in {"spawn", "idle?", "promote"}
        /\ \A q \in Procs \ {p} : proc'[q] = proc[q]
    BY <1>0, <2>1 DEF Locals
  <2> QED
    BY <2>1, <2>2, MoveLife
<1>10. ASSUME NEW p \in Procs, Promote(p)  PROVE LifeInv'
  <2>1. /\ up /\ proc[p].pc = "promote" /\ UNCHANGED <<up, turn, started, ended>>
    BY <1>10 DEF Promote, At
  <2>2. PICK t \in Calls : t = proc[p].adm
    BY <2>1 DEF TypeInv, ProcInv, PcInv
  <2>3. CASE row[t].st = "pending"
    <3>1. row' = [row EXCEPT ![t].st = "promoted"] /\ Goto(p, "save")
      BY <1>10, <2>2, <2>3 DEF Promote, PromoteRow, Proceed
    <3>2. /\ proc'[p].pc = "save" /\ proc'[p].adm = t
          /\ \A q \in Procs \ {p} : proc'[q] = proc[q]
      BY <1>0, <2>2, <3>1, GotoFacts DEF Pcs
    <3>3. row'[t].st = "promoted" /\ \A c \in Calls \ {t} : row'[c] = row[c]
      BY <1>0, <3>1 DEF RowType
    <3>4. Unborn(t) /\ ~Unborn(t)'
      BY <2>3, <3>3 DEF Unborn
    <3> QED
      BY <1>0, <2>1, <2>3, <3>2, <3>3, <3>4, BirthLife
  <2>4. CASE row[t].st # "pending"
    <3>1. row' = row /\ Goto(p, "done")
      BY <1>10, <2>2, <2>4 DEF Promote, PromoteRow, GiveUp, Leave
    <3> QED
      BY <2>1, <3>1, <1>l
  <2> QED
    BY <2>3, <2>4
<1>a. ASSUME NEW p \in Procs, NEW t \in Turns, Starter(p, t), up, UNCHANGED <<up, row, started>>,
             NEW l \in {"activate", "send", "rollback", "report", "unset", "done"}, Goto(p, l),
             \A u \in Turns \ {t} : turn'[u] = turn[u] /\ ended'[u] = ended[u],
             l \in StarterPcs => turn'[t] = StatusAt(l) /\ ended'[t] = ended[t],
             ended'[t] \in {0, 1}
      PROVE  LifeInv'
  <2>1. l \in Pcs /\ proc[p].adm = t
    BY <1>a DEF Pcs, Starter
  <2>2. /\ proc'[p].pc = l /\ proc'[p].adm \in {t, NoTurn}
        /\ \A q \in Procs \ {p} : proc'[q] = proc[q]
    BY <1>0, <1>a, <2>1, GotoFacts
  <2> QED
    BY <1>a, <2>2, AdvanceLife
<1>11. ASSUME NEW p \in Procs, SaveTurn(p)  PROVE LifeInv'
  <2>1. /\ up /\ proc[p].pc = "save" /\ UNCHANGED <<up, row, started, ended>>
        /\ Goto(p, "activate") /\ turn' = [turn EXCEPT ![proc[p].adm] = "InProgress"]
    BY <1>11 DEF SaveTurn, At
  <2>2. PICK t \in Turns : proc[p].adm = t /\ Starter(p, t) /\ ended[t] = 0
    BY <2>1, StarterFacts
  <2>3. turn'[t] = "InProgress" /\ \A u \in Turns \ {t} : turn'[u] = turn[u]
    BY <1>0, <2>1, <2>2
  <2> QED
    BY <2>1, <2>2, <2>3, <1>a
<1>12. ASSUME NEW p \in Procs, Activate(p)  PROVE LifeInv'
  <2>1. /\ up /\ proc[p].pc = "activate" /\ UNCHANGED <<up, row, turn, started, ended>>
        /\ Goto(p, "send") \/ Goto(p, "done")
    BY <1>12 DEF Activate, At, GiveUp, Leave, Proceed
  <2>2. PICK t \in Turns : Starter(p, t) /\ ended[t] = 0 /\ turn[t] = "InProgress"
    BY <2>1, StarterFacts
  <2> QED
    BY <2>1, <2>2, <1>a
<1>13. ASSUME NEW p \in Procs, SendOp(p)  PROVE LifeInv'
  BY <1>13, SendOpLife
<1>14. ASSUME NEW p \in Procs, SendFails(p)  PROVE LifeInv'
  <2>1. /\ up /\ proc[p].pc = "send" /\ UNCHANGED <<up, row, turn, started, ended>>
        /\ Goto(p, "rollback") \/ Goto(p, "done")
    BY <1>14 DEF SendFails, At, Refused, GiveUp, Leave, Proceed
  <2>2. PICK t \in Turns : Starter(p, t) /\ ended[t] = 0 /\ turn[t] = "InProgress"
    BY <2>1, StarterFacts
  <2> QED
    BY <2>1, <2>2, <1>a
<1>15. ASSUME NEW p \in Procs, StartFails(p)  PROVE LifeInv'
  BY <1>15, <1>l DEF StartFails, GiveUp, Leave
<1>16. ASSUME NEW p \in Procs, RollbackSave(p)  PROVE LifeInv'
  <2>1. /\ up /\ proc[p].pc = "rollback" /\ UNCHANGED <<up, row, started, ended>>
        /\ Goto(p, "report") /\ turn' = [turn EXCEPT ![proc[p].adm] = "Failed"]
    BY <1>16 DEF RollbackSave, At
  <2>2. PICK t \in Turns : proc[p].adm = t /\ Starter(p, t) /\ ended[t] = 0
    BY <2>1, StarterFacts
  <2>3. turn'[t] = StatusAt("report") /\ \A u \in Turns \ {t} : turn'[u] = turn[u]
    BY <1>0, <2>1, <2>2
  <2> QED
    BY <2>1, <2>2, <2>3, <1>a
<1>33. ASSUME NEW p \in Procs, RollbackReport(p)  PROVE LifeInv'
  <2>1. /\ up /\ proc[p].pc = "report" /\ UNCHANGED <<up, row, turn, started>>
        /\ Goto(p, "unset") /\ ended' = [ended EXCEPT ![proc[p].adm] = @ + 1]
    BY <1>33 DEF RollbackReport, At
  <2>2. PICK t \in Turns : proc[p].adm = t /\ Starter(p, t) /\ ended[t] = 0
    BY <2>1, StarterFacts
  <2>3. ended'[t] = 1 /\ \A u \in Turns \ {t} : ended'[u] = ended[u]
    BY <1>0, <2>1, <2>2
  <2>4. "unset" \notin StarterPcs
    OBVIOUS
  <2> QED
    BY <2>1, <2>2, <2>3, <2>4, <1>a
<1>34. ASSUME NEW c \in Calls, AnswerQueued(c)  PROVE LifeInv'
  BY <1>0, <1>34, <1>l DEF AnswerQueued, Answer, At
<1>35. ASSUME NEW t \in Turns, HangUp(t)  PROVE LifeInv'
  BY <1>0, <1>35, <1>l DEF HangUp, Leave
<1>17. ASSUME NEW p \in Procs, RollbackClear(p)  PROVE LifeInv'
  BY <1>17, <1>l DEF RollbackClear, At
<1>18. ASSUME NEW p \in Procs, RollbackDrain(p)  PROVE LifeInv'
  BY <1>18, <1>l DEF RollbackDrain, GiveUp, Leave, At
<1>w. ASSUME NEW t \in Turns, up, UNCHANGED <<up, row, started>>,
             proc[Monitor(t)].pc \in {"receive", "flag", "final", "emit"},
             NEW l \in {"flag", "final", "emit", "clear"}, Goto(Monitor(t), l),
             \A u \in Turns \ {t} : turn'[u] = turn[u] /\ ended'[u] = ended[u],
             l \in {"flag", "final"} => turn'[t] = "InProgress",
             l \in {"flag", "final", "emit"} => ended'[t] = 0,
             ended'[t] \in {0, 1}
      PROVE  LifeInv'
  <2>1. l \in Pcs /\ Monitor(t) \in Procs
    BY <1>0 DEF Pcs
  <2>2. proc'[Monitor(t)].pc = l /\ \A q \in Procs \ {Monitor(t)} : proc'[q] = proc[q]
    BY <1>0, <1>w, <2>1, GotoFacts
  <2> QED
    BY <1>w, <2>2, WatchLife
<1>19. ASSUME NEW t \in Turns,
              Receive(t) \/ (\E s \in {"Completed", "Failed"} : ChannelClosed(t, s)) \/ ReadFlag(t)
       PROVE  LifeInv'
  <2>1. /\ up /\ proc[Monitor(t)].pc \in {"receive", "flag"}
        /\ UNCHANGED <<up, row, turn, started, ended>>
        /\ Goto(Monitor(t), "flag") \/ Goto(Monitor(t), "final")
    BY <1>19 DEF Receive, ChannelClosed, ReadFlag, At
  <2>2. turn[t] = "InProgress" /\ ended[t] = 0
    BY <1>0, <2>1 DEF TurnLife, WatcherInv
  <2> QED
    BY <2>1, <2>2, <1>w
<1>20. ASSUME NEW t \in Turns, SaveFinal(t)  PROVE LifeInv'
  <2>1. /\ up /\ proc[Monitor(t)].pc = "final" /\ UNCHANGED <<up, row, started, ended>>
        /\ Goto(Monitor(t), "emit") /\ turn' = [turn EXCEPT ![t] = stat[t]]
    BY <1>20 DEF SaveFinal, At
  <2>2. ended[t] = 0 /\ \A u \in Turns \ {t} : turn'[u] = turn[u]
    BY <1>0, <2>1 DEF TurnLife, WatcherInv
  <2> QED
    BY <2>1, <2>2, <1>w
<1>21. ASSUME NEW t \in Turns, EmitCompleted(t)  PROVE LifeInv'
  <2>1. /\ up /\ proc[Monitor(t)].pc = "emit" /\ UNCHANGED <<up, row, started, turn>>
        /\ Goto(Monitor(t), "clear") /\ ended' = [ended EXCEPT ![t] = @ + 1]
    BY <1>21 DEF EmitCompleted, At
  <2>2. ended'[t] = 1 /\ \A u \in Turns \ {t} : ended'[u] = ended[u]
    BY <1>0, <2>1 DEF TurnLife, WatcherInv
  <2> QED
    BY <2>1, <2>2, <1>w
<1>22. ASSUME NEW t \in Turns, ClearActive(t)  PROVE LifeInv'
  BY <1>0, <1>22, <1>l DEF ClearActive, At
<1>23. ASSUME NEW t \in Turns, UnloadAfterTurn(t)  PROVE LifeInv'
  <2>1. up /\ proc[Monitor(t)].pc = "unload" /\ UNCHANGED <<up, row, turn, started, ended>>
    BY <1>23 DEF UnloadAfterTurn, At
  <2>2. CASE Goto(Monitor(t), "drain")
    BY <1>0, <2>1, <2>2, <1>l
  <2>3. CASE proc' = [proc EXCEPT ![Monitor(t)].pc = "shutdown", ![Monitor(t)].h = loaded]
    <3>1. /\ proc'[Monitor(t)].pc = "shutdown"
          /\ \A q \in Procs \ {Monitor(t)} : proc'[q] = proc[q]
      BY <1>0, <2>3 DEF Locals
    <3> QED
      BY <1>0, <2>1, <3>1, MoveLife
  <2> QED
    BY <1>23, <2>2, <2>3 DEF UnloadAfterTurn
<1>24. ASSUME NEW t \in Turns, UnloadReturns(t)  PROVE LifeInv'
  BY <1>0, <1>24, <1>l DEF UnloadReturns, At
<1>25. ASSUME NEW t \in Turns, FinishDrain(t)  PROVE LifeInv'
  BY <1>0, <1>25, <1>l DEF FinishDrain, At
<1>26. ASSUME NEW t \in Turns, NextPending(t)  PROVE LifeInv'
  <2>1. up /\ proc[Monitor(t)].pc = "next" /\ UNCHANGED <<up, row, turn, started, ended>>
    BY <1>26 DEF NextPending, At
  <2>2. CASE Goto(Monitor(t), "done")
    BY <1>0, <2>1, <2>2, <1>l
  <2>3. ASSUME NEW c \in OldestPending,
               proc' = [proc EXCEPT ![Monitor(t)] = [pc |-> "load", adm |-> c, h |-> 0]]
        PROVE  LifeInv'
    <3>1. /\ proc'[Monitor(t)].pc = "load"
          /\ \A q \in Procs \ {Monitor(t)} : proc'[q] = proc[q]
          /\ \A k \in Compactions : Monitor(t) # Client(k)
      BY <1>0, <2>3, ProcFacts
    <3> QED
      BY <1>0, <2>1, <3>1, MoveLife
  <2> QED
    BY <1>26, <2>2, <2>3 DEF NextPending
<1>27. ASSUME NEW t \in Turns, MonitorFails(t)  PROVE LifeInv'
  BY <1>0, <1>27, <1>l DEF MonitorFails
<1>28. ASSUME NEW t \in Turns, InterruptTurn(t)  PROVE LifeInv'
  BY <1>28, QuietLife DEF InterruptTurn
<1>29. CASE RaiseBoundary \/ FlagTurn \/ Unload \/ DeferRefresh
  BY <1>29, QuietLife DEF RaiseBoundary, FlagTurn, Unload, DeferRefresh
<1>30. ASSUME NEW e \in Engines, EngineStep(e)  PROVE LifeInv'
  BY <1>30, QuietLife DEF EngineStep, SendShutdown, EngineTake, EngineComplete
<1>31. CASE Crash
  <2>1. /\ UNCHANGED <<row, turn, started, ended>>
        /\ \A p \in Procs : proc'[p] = IF proc[p].pc = "idle" THEN Resting ELSE Finished
    BY <1>31 DEF Crash
  <2>2. \A p \in Procs : /\ proc'[p].pc \in {"idle", "done"}
                         /\ proc'[p].pc = "idle" <=> proc[p].pc = "idle"
    BY <2>1 DEF Resting, Finished
  <2>3. ASSUME NEW t \in Turns  PROVE TurnLife(t)'
    <3>1. /\ \A p \in Procs : ~Starter(p, t)'
          /\ Client(t) \in Procs /\ Monitor(t) \in Procs
      BY <1>0, <2>2 DEF Starter
    <3> QED
      BY <1>0, <2>1, <2>2, <3>1, StillLife
  <2> QED
    BY <2>2, <2>3 DEF LifeInv, DownInv
<1>32. CASE Restart
  <2>1. /\ ~up /\ up' /\ UNCHANGED <<row, started, ended, proc>>
        /\ \A t \in Turns : turn[t] = "none" => turn'[t] = "none"
    BY <1>0, <1>32 DEF Restart, Recover
  <2>2. \A p \in Procs : proc[p].pc \in {"idle", "done"}
    BY <2>1 DEF LifeInv, DownInv
  <2>3. ASSUME NEW t \in Turns  PROVE TurnLife(t)'
    <3>1. TurnLife(t) /\ Client(t) \in Procs /\ Monitor(t) \in Procs
      BY <1>0
    <3>2. \A p \in Procs : ~Starter(p, t)'
      BY <2>1, <2>2 DEF Starter
    <3>3. UnbornInv(t)'
      BY <2>1, <3>1, <3>2 DEF TurnLife, UnbornInv, Unborn, Fresh
    <3>4. OneStarter(t)' /\ StarterInv(t)'
      BY <3>2 DEF OneStarter, StarterInv
    <3>5. WatcherInv(t)' /\ CountInv(t)' /\ AdmitInv(t)'
      BY <2>1, <2>2, <3>1 DEF TurnLife, WatcherInv, CountInv, AdmitInv
    <3> QED
      BY <3>3, <3>4, <3>5 DEF TurnLife
  <2> QED
    BY <2>1, <2>3 DEF LifeInv, DownInv
<1> QED
  BY <1>1, <1>2, <1>3, <1>4, <1>5, <1>6, <1>7, <1>8, <1>9, <1>10, <1>11, <1>12,
     <1>13, <1>14, <1>15, <1>16, <1>17, <1>18, <1>19, <1>20, <1>21, <1>22, <1>23,
     <1>24, <1>25, <1>26, <1>27, <1>28, <1>29, <1>30, <1>31, <1>32, <1>33, <1>34, <1>35
     DEF Next, ClientStep, StartStep, MonitorStep

IInv == TypeInv /\ LifeInv

LEMMA IInvInit == Init => IInv
  BY TypeInit, LifeInit DEF IInv

LEMMA IInvStep == IInv /\ [Next]_vars => IInv'
  BY TypeStep, LifeStep DEF IInv

\* A prompt is handed to an engine at most once, and only after its inbox row
\* was promoted: promote_session_input lets one task through, whoever else read
\* the row as pending before.
THEOREM PromptsRunOnce == Spec => []PromptRunsOnce
<1>1. IInv => PromptRunsOnce
  <2> SUFFICES ASSUME IInv, NEW c \in Calls
               PROVE  started[c] <= 1 /\ (started[c] = 1 => row[c].st = "promoted")
    BY DEF PromptRunsOnce
  <2>1. c \in Turns /\ TurnLife(c)
    BY DEF IInv, LifeInv, Turns
  <2> QED
    BY <2>1 DEF TurnLife, CountInv, UnbornInv, Unborn, Fresh
<1> QED
  BY IInvInit, IInvStep, <1>1, PTL DEF Spec

\* turn.completed is emitted at most once per turn: rollback_failed_turn_start
\* and monitor_turn never both end the same turn.
THEOREM CompletionOnce == Spec => []CompletedOnce
<1>1. IInv => CompletedOnce
  BY DEF IInv, LifeInv, TurnLife, CountInv, CompletedOnce
<1> QED
  BY IInvInit, IInvStep, <1>1, PTL DEF Spec

LEMMA EndedStep ==
    ASSUME IInv, [Next]_vars, NEW t \in Turns, turn[t] \in Ended
    PROVE  turn'[t] = turn[t]
<1>0. /\ turn \in [Turns -> {"none", "InProgress"} \cup Ended]
      /\ TypeInv /\ LifeInv /\ TurnLife(t)
      /\ turn[t] # "none" /\ turn[t] # "InProgress"
  BY DEF IInv, TypeInv, StateType, LifeInv, Ended
<1> USE DEF store, mem, engs, procs, hist
<1>1. ASSUME NEW p \in Procs, SaveTurn(p) \/ RollbackSave(p)  PROVE turn'[t] = turn[t]
  <2>1. /\ proc[p].pc \in {"save", "rollback"}
        /\ \E s \in {"InProgress", "Failed"} : turn' = [turn EXCEPT ![proc[p].adm] = s]
    BY <1>1 DEF SaveTurn, RollbackSave, At
  <2>2. PICK u \in Turns : proc[p].adm = u /\ turn[u] \in {"none", "InProgress"}
    BY <1>0, <2>1, StarterFacts
  <2> QED
    BY <1>0, <2>1, <2>2
<1>2. ASSUME NEW u \in Turns, SaveFinal(u)  PROVE turn'[t] = turn[t]
  <2>1. /\ proc[Monitor(u)].pc = "final" /\ turn' = [turn EXCEPT ![u] = stat[u]]
    BY <1>2 DEF SaveFinal, At
  <2>2. turn[u] = "InProgress"
    BY <1>0, <2>1 DEF LifeInv, TurnLife, WatcherInv
  <2> QED
    BY <1>0, <2>1, <2>2
<1>3. CASE Restart
  BY <1>0, <1>3 DEF Restart, Recover
<1>4. CASE UNCHANGED vars
  BY <1>4 DEF vars
<1>5. ASSUME NEW c \in Calls, NEW d \in Deliveries, StartTurn(c, d) \/ ClientStep(c)
      PROVE  turn' = turn
  BY <1>5 DEF StartTurn, ClientStep, Admit, CheckActive, RequestWake, AnswerQueued,
              RequestRun
<1>6. ASSUME NEW k \in Compactions, CompactThread(k) \/ CompactCheck(k)  PROVE turn' = turn
  BY <1>6 DEF CompactThread, CompactCheck
<1>7. ASSUME NEW p \in Procs, StartStep(p) \/ StartFails(p), ~SaveTurn(p), ~RollbackSave(p)
      PROVE  turn' = turn
  BY <1>7 DEF StartStep, StartFails, EnsureLoaded, InsertEngine, Promote, Activate, SendOp,
              SendFails, RollbackReport, RollbackClear, RollbackDrain
<1>8. ASSUME NEW u \in Turns, MonitorStep(u) \/ MonitorFails(u) \/ InterruptTurn(u) \/ HangUp(u),
             ~SaveFinal(u)
      PROVE  turn' = turn
  BY <1>8 DEF MonitorStep, MonitorFails, InterruptTurn, HangUp, Receive, ChannelClosed, ReadFlag,
              EmitCompleted, ClearActive, UnloadAfterTurn, UnloadReturns, FinishDrain, NextPending
<1>9. CASE RaiseBoundary \/ FlagTurn \/ Unload \/ DeferRefresh \/ Crash
  BY <1>9 DEF RaiseBoundary, FlagTurn, Unload, DeferRefresh, Crash
<1>10. ASSUME NEW e \in Engines, EngineStep(e)  PROVE turn' = turn
  BY <1>10 DEF EngineStep, SendShutdown, EngineTake, EngineComplete
<1>11. ASSUME NEW c \in Calls, ClientStep(c)  PROVE turn' = turn
  BY <1>11 DEF ClientStep, Admit, CheckActive, RequestWake, AnswerQueued,
              RequestRun
<1> QED
  BY <1>1, <1>2, <1>3, <1>4, <1>5, <1>6, <1>7, <1>8, <1>9, <1>10, <1>11
     DEF Next, StartStep, MonitorStep

\* A turn record that has reached an end is never rewritten: no start, rollback,
\* monitor or recover_interrupted_state finds a turn that has already ended.
THEOREM EndedStay == Spec => EndedTurnsStay
<1>1. IInv /\ [Next]_vars =>
        [\A t \in Turns : turn[t] \in Ended => turn'[t] = turn[t]]_turn
  BY EndedStep
<1> QED
  BY IInvInit, IInvStep, <1>1, PTL DEF Spec, EndedTurnsStay

-----------------------------------------------------------------------------
(* Who looks after a running turn, and after the thread it keeps busy.       *)

Watches(q, t) ==
    \/ proc[q].adm = t /\ proc[q].pc \in {"activate", "send", "rollback"}
    \/ q = Monitor(t) /\ proc[q].pc \in {"receive", "flag", "final"}

Keeps(q, t) ==
    \/ proc[q].adm = t /\ proc[q].pc \in {"send", "rollback", "report", "unset"}
    \/ q = Monitor(t) /\ proc[q].pc \in {"receive", "flag", "final", "emit", "clear"}

WatchOK(t) == up /\ turn[t] = "InProgress" => (\E q \in Procs : Watches(q, t)) \/ t \in dropped

BusyOK(t) == active.turn = t => (\E q \in Procs : Keeps(q, t)) \/ t \in dropped

WatchInv == \A t \in Turns : WatchOK(t) /\ BusyOK(t)

\* Places at which a task looks after no turn.
IdlePcs == Pcs \ {"activate", "send", "rollback", "report", "unset", "receive", "flag",
                  "final", "emit", "clear"}

\* A step of one process that hands over whatever it looked after.
LEMMA StepWatch ==
    ASSUME WatchInv, NEW p \in Procs,
           \A q \in Procs \ {p} : proc'[q] = proc[q],
           up' => up, dropped \subseteq dropped',
           \A t \in Turns :
              /\ Watches(p, t) => Watches(p, t)' \/ t \in dropped' \/ turn'[t] # "InProgress"
              /\ turn'[t] = "InProgress" => turn[t] = "InProgress" \/ Watches(p, t)'
              /\ Keeps(p, t) => Keeps(p, t)' \/ t \in dropped' \/ active'.turn # t
              /\ active'.turn = t => active.turn = t \/ Keeps(p, t)'
    PROVE  WatchInv'
<1> SUFFICES ASSUME NEW t \in Turns  PROVE WatchOK(t)' /\ BusyOK(t)'
  BY DEF WatchInv
<1>1. \A q \in Procs \ {p} : (Watches(q, t) => Watches(q, t)') /\ (Keeps(q, t) => Keeps(q, t)')
  BY DEF Watches, Keeps
<1>2. WatchOK(t) /\ BusyOK(t)
  BY DEF WatchInv
<1>3. WatchOK(t)'
  <2> SUFFICES ASSUME up', turn'[t] = "InProgress", t \notin dropped', ~Watches(p, t)'
               PROVE  \E q \in Procs : Watches(q, t)'
    BY DEF WatchOK
  <2>1. PICK q \in Procs : Watches(q, t)
    BY <1>2 DEF WatchOK
  <2> QED
    BY <1>1, <2>1
<1>4. BusyOK(t)'
  <2> SUFFICES ASSUME active'.turn = t, t \notin dropped', ~Keeps(p, t)'
               PROVE  \E q \in Procs : Keeps(q, t)'
    BY DEF BusyOK
  <2>1. PICK q \in Procs : Keeps(q, t)
    BY <1>2 DEF BusyOK
  <2> QED
    BY <1>1, <2>1
<1> QED
  BY <1>3, <1>4

\* Nobody who looks after a turn moves.
LEMMA IdleWatch ==
    ASSUME WatchInv, NEW p \in Procs, proc[p].pc \in IdlePcs,
           \A q \in Procs \ {p} : proc'[q] = proc[q],
           up' => up, dropped \subseteq dropped', turn' = turn,
           active'.turn \in {active.turn, NoTurn}
    PROVE  WatchInv'
<1>1. \A t \in Turns : ~Watches(p, t) /\ ~Keeps(p, t)
  BY DEF Watches, Keeps, IdlePcs
<1>2. \A t \in Turns : active'.turn = t => active.turn = t
  BY TurnsAssumption
<1> QED
  BY <1>1, <1>2, StepWatch

LEMMA QuietWatch ==
    ASSUME WatchInv, UNCHANGED <<proc, up, dropped, turn>>, active'.turn = active.turn
    PROVE  WatchInv'
<1>1. \A q \in Procs, t \in Turns :
        (Watches(q, t)' <=> Watches(q, t)) /\ (Keeps(q, t)' <=> Keeps(q, t))
  BY DEF Watches, Keeps
<1> QED
  BY <1>1 DEF WatchInv, WatchOK, BusyOK

\* The op enters the engine's channel: the monitor takes the turn over.
LEMMA SendOpWatch ==
    ASSUME TypeInv, LifeInv, WatchInv, NEW p \in Procs, SendOp(p)
    PROVE  WatchInv'
<1>1. proc[p].pc = "send" /\ proc \in [Procs -> Locals(spawned)]
  BY DEF SendOp, At, TypeInv, ProcInv
<1>2. PICK t \in Turns : proc[p].adm = t /\ proc[Monitor(t)].pc = "idle" /\ p # Monitor(t)
  BY <1>1, StarterFacts
<1>3. /\ UNCHANGED <<up, turn, active, dropped>>
      /\ proc' = [proc EXCEPT ![p] = Finished,
                    ![Monitor(t)] = [pc |-> "receive", adm |-> NoTurn, h |-> proc[p].h]]
  BY <1>2 DEF SendOp, store, mem
<1>4. Monitor(t) \in Procs /\ \A u \in Turns \ {t} : Monitor(u) # Monitor(t)
  BY ProcFacts
<1>5. /\ proc'[Monitor(t)].pc = "receive"
      /\ \A q \in Procs \ {p, Monitor(t)} : proc'[q] = proc[q]
  BY <1>1, <1>3, <1>4
<1>6. Watches(Monitor(t), t)' /\ Keeps(Monitor(t), t)'
  BY <1>5 DEF Watches, Keeps
<1>7. ASSUME NEW u \in Turns \ {t}, NEW q \in Procs
      PROVE  (Watches(q, u) => Watches(q, u)') /\ (Keeps(q, u) => Keeps(q, u)')
  <2>1. q \in {p, Monitor(t)} => ~Watches(q, u) /\ ~Keeps(q, u)
    BY <1>1, <1>2, <1>4 DEF Watches, Keeps
  <2>2. q \notin {p, Monitor(t)} => proc'[q] = proc[q]
    BY <1>5
  <2> QED
    BY <2>1, <2>2 DEF Watches, Keeps
<1>8. WatchOK(t)' /\ BusyOK(t)'
  BY <1>4, <1>6 DEF WatchOK, BusyOK
<1>9. \A u \in Turns \ {t} : WatchOK(u)' /\ BusyOK(u)'
  BY <1>3, <1>7 DEF WatchInv, WatchOK, BusyOK
<1> QED
  BY <1>8, <1>9 DEF WatchInv

\* A task that ends early while it looks after its turn leaves the turn behind as
\* dropped.
LEMMA LeaveWatch ==
    ASSUME TypeInv, WatchInv, NEW p \in Procs, Leave(p), UNCHANGED <<up, turn>>,
           active'.turn \in {active.turn, NoTurn},
           proc[p].pc \notin {"receive", "flag", "final", "emit", "clear"}
    PROVE  WatchInv'
<1>1. /\ proc \in [Procs -> Locals(spawned)] /\ spawned \in Nat /\ "done" \in Pcs
      /\ Goto(p, "done") /\ dropped \subseteq dropped'
      /\ proc[p].pc \in {"activate", "send", "rollback", "report", "unset"} =>
            proc[p].adm \in dropped'
  BY BoundsAssumption DEF TypeInv, StateType, ProcInv, Leave, Pcs
<1>2. \A q \in Procs \ {p} : proc'[q] = proc[q]
  BY <1>1, GotoFacts
<1>3. \A t \in Turns : /\ Watches(p, t) => t \in dropped'
                       /\ Keeps(p, t) => t \in dropped'
                       /\ active'.turn = t => active.turn = t
  BY <1>1, TurnsAssumption DEF Watches, Keeps
<1> QED
  BY <1>1, <1>2, <1>3, StepWatch

LEMMA WatchStep ==
    ASSUME TypeInv, LifeInv, WatchInv, [Next]_vars
    PROVE  WatchInv'
<1>0. /\ proc \in [Procs -> Locals(spawned)] /\ spawned \in Nat
      /\ turn \in [Turns -> {"none", "InProgress"} \cup Ended]
      /\ stat \in [Turns -> Ended]
      /\ active \in [turn : Turns \cup {NoTurn}, interrupt_requested : BOOLEAN]
      /\ "InProgress" \notin Ended /\ NoTurn \notin Turns
      /\ NoActive.turn = NoTurn
      /\ \A t \in Turns : Client(t) \in Procs /\ Monitor(t) \in Procs
  BY BoundsAssumption, TurnsAssumption, ProcFacts
     DEF TypeInv, StateType, ProcInv, Ended, NoActive
<1> USE DEF store, mem, engs, procs, hist
<1>l. ASSUME NEW p \in Procs, NEW l \in Pcs, Goto(p, l), proc[p].pc \in IdlePcs,
             UNCHANGED <<up, turn, active, dropped>>
      PROVE  WatchInv'
  <2>1. \A q \in Procs \ {p} : proc'[q] = proc[q]
    BY <1>0, <1>l, GotoFacts
  <2> QED
    BY <1>l, <2>1, IdleWatch
<1>x. ASSUME NEW p \in Procs, NEW x, proc' = [proc EXCEPT ![p] = x], proc[p].pc \in IdlePcs,
             UNCHANGED <<up, turn, dropped>>, active'.turn \in {active.turn, NoTurn}
      PROVE  WatchInv'
  <2>1. \A q \in Procs \ {p} : proc'[q] = proc[q]
    BY <1>0, <1>x
  <2> QED
    BY <1>x, <2>1, IdleWatch
<1>1. CASE UNCHANGED vars
  BY <1>1, QuietWatch DEF vars
<1>2. ASSUME NEW c \in Calls, NEW d \in Deliveries, StartTurn(c, d)  PROVE WatchInv'
  BY <1>0, <1>2, <1>l DEF StartTurn, At, IdlePcs, Pcs, Turns
<1>3. ASSUME NEW c \in Calls, Admit(c)  PROVE WatchInv'
  BY <1>0, <1>3, <1>l DEF Admit, At, IdlePcs, Pcs, Turns
<1>4. ASSUME NEW c \in Calls, CheckActive(c)  PROVE WatchInv'
  BY <1>0, <1>4, <1>l DEF CheckActive, Answer, At, IdlePcs, Pcs, Turns
<1>5. ASSUME NEW c \in Calls, RequestWake(c)  PROVE WatchInv'
  BY <1>0, <1>5, <1>l DEF RequestWake, Answer, At, IdlePcs, Pcs, Turns
<1>6. ASSUME NEW c \in Calls, RequestRun(c)  PROVE WatchInv'
  BY <1>0, <1>6, <1>x DEF RequestRun, At, IdlePcs, Pcs, Turns
<1>7. ASSUME NEW k \in Compactions, CompactThread(k)  PROVE WatchInv'
  BY <1>0, <1>7, <1>x DEF CompactThread, At, IdlePcs, Pcs, Turns
<1>8. ASSUME NEW k \in Compactions, CompactCheck(k)  PROVE WatchInv'
  BY <1>0, <1>8, <1>l DEF CompactCheck, Answer, At, IdlePcs, Pcs, Turns
<1>9. ASSUME NEW p \in Procs, EnsureLoaded(p) \/ InsertEngine(p)  PROVE WatchInv'
  <2>1. /\ proc[p].pc \in IdlePcs /\ UNCHANGED <<up, turn, dropped>>
        /\ active'.turn \in {active.turn, NoTurn}
        /\ \E l \in {"spawn", "idle?", "promote"}, e \in {loaded, spawned'} :
             proc' = [proc EXCEPT ![p].pc = l, ![p].h = e]
    BY <1>0, <1>9 DEF EnsureLoaded, InsertEngine, At, AfterLoad, IdlePcs, Pcs
  <2>2. \A q \in Procs \ {p} : proc'[q] = proc[q]
    BY <1>0, <2>1
  <2> QED
    BY <2>1, <2>2, IdleWatch
<1>10. ASSUME NEW p \in Procs, Promote(p)  PROVE WatchInv'
  <2>1. proc[p].pc = "promote" /\ UNCHANGED <<up, turn, active>>
    BY <1>10 DEF Promote, At
  <2>2. CASE GiveUp(p)
    BY <1>0, <2>1, <2>2, LeaveWatch DEF GiveUp
  <2>3. CASE Proceed(p, "save")
    BY <2>1, <2>3, <1>l DEF Proceed, IdlePcs, Pcs
  <2> QED
    BY <1>10, <2>2, <2>3 DEF Promote, PromoteRow
<1>11. ASSUME NEW p \in Procs, SaveTurn(p)  PROVE WatchInv'
  <2>1. /\ proc[p].pc = "save" /\ UNCHANGED <<up, active, dropped>>
        /\ Goto(p, "activate") /\ turn' = [turn EXCEPT ![proc[p].adm] = "InProgress"]
    BY <1>11 DEF SaveTurn, At
  <2>2. /\ proc'[p].pc = "activate" /\ proc'[p].adm = proc[p].adm
        /\ \A q \in Procs \ {p} : proc'[q] = proc[q]
    BY <1>0, <2>1, GotoFacts DEF Pcs
  <2>3. \A t \in Turns : /\ ~Watches(p, t) /\ ~Keeps(p, t)
                         /\ t = proc[p].adm => Watches(p, t)'
                         /\ t # proc[p].adm => turn'[t] = turn[t]
    BY <1>0, <2>1, <2>2 DEF Watches, Keeps
  <2> QED
    BY <2>1, <2>2, <2>3, StepWatch
<1>12. ASSUME NEW p \in Procs, Activate(p)  PROVE WatchInv'
  <2>1. proc[p].pc = "activate" /\ UNCHANGED <<up, turn>>
    BY <1>12 DEF Activate, At
  <2>2. CASE GiveUp(p) /\ active' = active
    BY <1>0, <2>1, <2>2, LeaveWatch DEF GiveUp
  <2>3. CASE Proceed(p, "send") /\ active' = [turn |-> proc[p].adm, interrupt_requested |-> FALSE]
    <3>1. /\ proc'[p].pc = "send" /\ proc'[p].adm = proc[p].adm
          /\ \A q \in Procs \ {p} : proc'[q] = proc[q]
      BY <1>0, <2>3, GotoFacts DEF Pcs, Proceed
    <3>2. \A t \in Turns : /\ Watches(p, t) => Watches(p, t)'
                           /\ Keeps(p, t) => Keeps(p, t)'
                           /\ active'.turn = t => Keeps(p, t)'
      BY <2>1, <2>3, <3>1 DEF Watches, Keeps
    <3> QED
      BY <2>1, <2>3, <3>1, <3>2, StepWatch DEF Proceed
  <2> QED
    BY <1>12, <2>2, <2>3 DEF Activate
<1>13. ASSUME NEW p \in Procs, SendOp(p)  PROVE WatchInv'
  BY <1>13, SendOpWatch
<1>14. ASSUME NEW p \in Procs, SendFails(p)  PROVE WatchInv'
  <2>1. proc[p].pc = "send" /\ UNCHANGED <<up, turn, active>>
    BY <1>14 DEF SendFails, At
  <2>2. CASE GiveUp(p)
    BY <1>0, <2>1, <2>2, LeaveWatch DEF GiveUp
  <2>3. CASE Proceed(p, "rollback")
    <3>1. /\ proc'[p].pc = "rollback" /\ proc'[p].adm = proc[p].adm
          /\ \A q \in Procs \ {p} : proc'[q] = proc[q]
      BY <1>0, <2>3, GotoFacts DEF Pcs, Proceed
    <3>2. \A t \in Turns : (Watches(p, t) => Watches(p, t)') /\ (Keeps(p, t) => Keeps(p, t)')
      BY <2>1, <3>1 DEF Watches, Keeps
    <3> QED
      BY <2>1, <2>3, <3>1, <3>2, StepWatch DEF Proceed
  <2> QED
    BY <1>14, <2>2, <2>3 DEF SendFails, Refused
<1>15. ASSUME NEW p \in Procs, StartFails(p)  PROVE WatchInv'
  BY <1>15, LeaveWatch DEF StartFails, GiveUp
<1>16. ASSUME NEW p \in Procs, RollbackSave(p)  PROVE WatchInv'
  <2>1. /\ proc[p].pc = "rollback" /\ UNCHANGED <<up, active, dropped>>
        /\ Goto(p, "report") /\ turn' = [turn EXCEPT ![proc[p].adm] = "Failed"]
    BY <1>16 DEF RollbackSave, At
  <2>2. /\ proc'[p].pc = "report" /\ proc'[p].adm = proc[p].adm
        /\ \A q \in Procs \ {p} : proc'[q] = proc[q]
    BY <1>0, <2>1, GotoFacts DEF Pcs
  <2>3. \A t \in Turns : /\ Watches(p, t) => turn'[t] # "InProgress"
                         /\ Keeps(p, t) => Keeps(p, t)'
                         /\ turn'[t] = "InProgress" => turn[t] = "InProgress"
    BY <1>0, <2>1, <2>2 DEF Watches, Keeps
  <2> QED
    BY <2>1, <2>2, <2>3, StepWatch
<1>17. ASSUME NEW p \in Procs, RollbackClear(p)  PROVE WatchInv'
  <2>1. /\ proc[p].pc = "unset" /\ UNCHANGED <<up, turn, dropped>> /\ Goto(p, "undrain")
        /\ active' = IF active.turn = proc[p].adm THEN NoActive ELSE active
    BY <1>17 DEF RollbackClear, At
  <2>2. \A q \in Procs \ {p} : proc'[q] = proc[q]
    BY <1>0, <2>1, GotoFacts DEF Pcs
  <2>3. \A t \in Turns : /\ ~Watches(p, t)
                         /\ Keeps(p, t) => active'.turn # t
                         /\ active'.turn = t => active.turn = t
    BY <1>0, <2>1 DEF Watches, Keeps
  <2> QED
    BY <2>1, <2>2, <2>3, StepWatch
<1>18. ASSUME NEW p \in Procs, RollbackDrain(p)  PROVE WatchInv'
  BY <1>18, LeaveWatch DEF RollbackDrain, GiveUp, At
<1>33. ASSUME NEW p \in Procs, RollbackReport(p)  PROVE WatchInv'
  <2>1. /\ proc[p].pc = "report" /\ UNCHANGED <<up, turn, active, dropped>> /\ Goto(p, "unset")
    BY <1>33 DEF RollbackReport, At
  <2>2. /\ proc'[p].pc = "unset" /\ proc'[p].adm = proc[p].adm
        /\ \A q \in Procs \ {p} : proc'[q] = proc[q]
    BY <1>0, <2>1, GotoFacts DEF Pcs
  <2>3. \A t \in Turns : ~Watches(p, t) /\ (Keeps(p, t) => Keeps(p, t)')
    BY <2>1, <2>2 DEF Watches, Keeps
  <2> QED
    BY <2>1, <2>2, <2>3, StepWatch
<1>34. ASSUME NEW c \in Calls, AnswerQueued(c)  PROVE WatchInv'
  BY <1>0, <1>34, <1>l DEF AnswerQueued, Answer, At, IdlePcs, Pcs, Turns
<1>35. ASSUME NEW t \in Turns, HangUp(t)  PROVE WatchInv'
  BY <1>0, <1>35, LeaveWatch DEF HangUp
<1>w. ASSUME NEW t \in Turns, NEW l \in {"flag", "final", "emit", "clear"}, Goto(Monitor(t), l),
             proc[Monitor(t)].pc \in {"receive", "flag", "final", "emit"},
             UNCHANGED <<up, active, dropped>>,
             \A u \in Turns \ {t} : turn'[u] = turn[u],
             IF l \in {"flag", "final"} THEN turn' = turn ELSE turn'[t] # "InProgress"
      PROVE  WatchInv'
  <2>1. /\ proc'[Monitor(t)].pc = l
        /\ \A q \in Procs \ {Monitor(t)} : proc'[q] = proc[q]
    BY <1>0, <1>w, GotoFacts DEF Pcs
  <2>2. \A u \in Turns : Monitor(t) = Monitor(u) => u = t
    BY ProcFacts
  <2>3. \A u \in Turns : /\ Keeps(Monitor(t), u) => Keeps(Monitor(t), u)'
                         /\ Watches(Monitor(t), u) =>
                              Watches(Monitor(t), u)' \/ turn'[u] # "InProgress"
                         /\ turn'[u] = "InProgress" => turn[u] = "InProgress"
    BY <1>w, <2>1, <2>2 DEF Watches, Keeps
  <2> QED
    BY <1>0, <1>w, <2>1, <2>3, StepWatch
<1>19. ASSUME NEW t \in Turns,
              Receive(t) \/ (\E s \in {"Completed", "Failed"} : ChannelClosed(t, s)) \/ ReadFlag(t)
       PROVE  WatchInv'
  BY <1>19, <1>w DEF Receive, ChannelClosed, ReadFlag, At
<1>20. ASSUME NEW t \in Turns, SaveFinal(t)  PROVE WatchInv'
  <2>1. /\ proc[Monitor(t)].pc = "final" /\ UNCHANGED <<up, active, dropped>>
        /\ Goto(Monitor(t), "emit") /\ turn' = [turn EXCEPT ![t] = stat[t]]
    BY <1>20 DEF SaveFinal, At
  <2>2. turn'[t] # "InProgress" /\ \A u \in Turns \ {t} : turn'[u] = turn[u]
    BY <1>0, <2>1
  <2> QED
    BY <2>1, <2>2, <1>w
<1>e. ASSUME NEW t \in Turns, NEW l \in Pcs, Goto(Monitor(t), l),
             proc[Monitor(t)].pc \in {"emit", "clear"}, UNCHANGED <<up, turn, dropped>>,
             active'.turn \in {active.turn, NoTurn},
             l = "clear" \/ active'.turn # t
      PROVE  WatchInv'
  <2>1. /\ proc'[Monitor(t)].pc = l
        /\ \A q \in Procs \ {Monitor(t)} : proc'[q] = proc[q]
    BY <1>0, <1>e, GotoFacts
  <2>2. \A u \in Turns : Monitor(t) = Monitor(u) => u = t
    BY ProcFacts
  <2>3. \A u \in Turns : /\ ~Watches(Monitor(t), u)
                         /\ Keeps(Monitor(t), u) => Keeps(Monitor(t), u)' \/ active'.turn # u
                         /\ active'.turn = u => active.turn = u
    BY <1>0, <1>e, <2>1, <2>2 DEF Watches, Keeps
  <2> QED
    BY <1>0, <1>e, <2>1, <2>3, StepWatch
<1>21. ASSUME NEW t \in Turns, EmitCompleted(t)  PROVE WatchInv'
  BY <1>21, <1>e DEF EmitCompleted, At, Pcs
<1>22. ASSUME NEW t \in Turns, ClearActive(t)  PROVE WatchInv'
  <2>1. /\ proc[Monitor(t)].pc = "clear" /\ UNCHANGED <<up, turn, dropped>>
        /\ Goto(Monitor(t), "unload") \/ Goto(Monitor(t), "drain")
        /\ active' = IF active.turn = t THEN NoActive ELSE active
    BY <1>22 DEF ClearActive, ClearedActive, At
  <2>2. active'.turn \in {active.turn, NoTurn} /\ active'.turn # t
    BY <1>0, <2>1
  <2> QED
    BY <2>1, <2>2, <1>e DEF Pcs
<1>23. ASSUME NEW t \in Turns, UnloadAfterTurn(t)  PROVE WatchInv'
  <2>1. proc[Monitor(t)].pc = "unload" /\ UNCHANGED <<up, turn, dropped, active>>
    BY <1>23 DEF UnloadAfterTurn, Unloaded, At
  <2>2. CASE Goto(Monitor(t), "drain")
    BY <1>0, <2>1, <2>2, <1>l DEF IdlePcs, Pcs
  <2>3. CASE proc' = [proc EXCEPT ![Monitor(t)].pc = "shutdown", ![Monitor(t)].h = loaded]
    <3>1. \A q \in Procs \ {Monitor(t)} : proc'[q] = proc[q]
      BY <1>0, <2>3
    <3> QED
      BY <1>0, <2>1, <3>1, IdleWatch DEF IdlePcs, Pcs
  <2> QED
    BY <1>23, <2>2, <2>3 DEF UnloadAfterTurn
<1>24. ASSUME NEW t \in Turns, UnloadReturns(t)  PROVE WatchInv'
  BY <1>0, <1>24, <1>l DEF UnloadReturns, At, IdlePcs, Pcs
<1>25. ASSUME NEW t \in Turns, FinishDrain(t)  PROVE WatchInv'
  BY <1>0, <1>25, <1>l DEF FinishDrain, At, IdlePcs, Pcs
<1>26. ASSUME NEW t \in Turns, NextPending(t)  PROVE WatchInv'
  <2>1. proc[Monitor(t)].pc = "next" /\ UNCHANGED <<up, turn, dropped, active>>
    BY <1>26 DEF NextPending, At
  <2>2. CASE Goto(Monitor(t), "done")
    BY <1>0, <2>1, <2>2, <1>l DEF IdlePcs, Pcs
  <2>3. ASSUME NEW c \in OldestPending,
               proc' = [proc EXCEPT ![Monitor(t)] = [pc |-> "load", adm |-> c, h |-> 0]]
        PROVE  WatchInv'
    BY <1>0, <2>1, <2>3, <1>x DEF IdlePcs, Pcs
  <2> QED
    BY <1>26, <2>2, <2>3 DEF NextPending
<1>27. ASSUME NEW t \in Turns, MonitorFails(t)  PROVE WatchInv'
  <2>1. /\ proc[Monitor(t)].pc \in {"receive", "flag", "final", "emit", "clear"}
        /\ UNCHANGED <<up, turn, active>> /\ dropped' = dropped \cup {t}
        /\ Goto(Monitor(t), "done")
    BY <1>27 DEF MonitorFails
  <2>2. \A q \in Procs \ {Monitor(t)} : proc'[q] = proc[q]
    BY <1>0, <2>1, GotoFacts DEF Pcs
  <2>3. \A u \in Turns : (Watches(Monitor(t), u) => u = t) /\ (Keeps(Monitor(t), u) => u = t)
    BY <2>1, ProcFacts DEF Watches, Keeps
  <2> QED
    BY <1>0, <2>1, <2>2, <2>3, StepWatch
<1>28. ASSUME NEW t \in Turns, InterruptTurn(t)  PROVE WatchInv'
  BY <1>28, QuietWatch DEF InterruptTurn
<1>29. CASE RaiseBoundary \/ FlagTurn \/ Unload \/ DeferRefresh
  <2>1. UNCHANGED <<up, turn, proc, dropped>> /\ active'.turn = active.turn
    BY <1>0, <1>29 DEF RaiseBoundary, FlagTurn, Unload, Unloaded, DeferRefresh
  <2> QED
    BY <2>1, QuietWatch
<1>30. ASSUME NEW e \in Engines, EngineStep(e)  PROVE WatchInv'
  BY <1>30, QuietWatch DEF EngineStep, SendShutdown, EngineTake, EngineComplete
<1>31. CASE Crash
  BY <1>0, <1>31 DEF Crash, WatchInv, WatchOK, BusyOK
<1>32. CASE Restart
  <2>1. /\ UNCHANGED <<active, proc, dropped>>
        /\ \A t \in Turns : turn'[t] # "InProgress"
    BY <1>0, <1>32 DEF Restart, Recover
  <2>2. \A q \in Procs, t \in Turns : Keeps(q, t)' <=> Keeps(q, t)
    BY <2>1 DEF Keeps
  <2> QED
    BY <2>1, <2>2 DEF WatchInv, WatchOK, BusyOK
<1> QED
  BY <1>1, <1>2, <1>3, <1>4, <1>5, <1>6, <1>7, <1>8, <1>9, <1>10, <1>11, <1>12,
     <1>13, <1>14, <1>15, <1>16, <1>17, <1>18, <1>19, <1>20, <1>21, <1>22, <1>23,
     <1>24, <1>25, <1>26, <1>27, <1>28, <1>29, <1>30, <1>31, <1>32, <1>33, <1>34, <1>35
     DEF Next, ClientStep, StartStep, MonitorStep

LEMMA WatchInit == Init => WatchInv
<1>1. Init => \A t \in Turns : turn[t] # "InProgress" /\ active.turn # t
  BY TurnsAssumption DEF Init, NoActive
<1> QED
  BY <1>1 DEF WatchInv, WatchOK, BusyOK

LEMMA WatchedAlways == Spec => [](IInv /\ WatchInv)
<1>1. IInv /\ WatchInv /\ [Next]_vars => WatchInv'
  BY WatchStep DEF IInv
<1> QED
  BY IInvInit, IInvStep, WatchInit, <1>1, PTL DEF Spec

\* A running process never shows a turn as InProgress that nobody starts or
\* monitors any more, unless that very task failed at a later step or was dropped
\* with the client whose request it served: start_turn_promoted hands the turn to
\* its monitor in the step that sends the op, and recover_interrupted_state leaves
\* none behind after a restart.
THEOREM Watched == Spec => []InProgressIsWatched
<1>1. WatchInv => InProgressIsWatched
  BY DEF WatchInv, WatchOK, Watches, InProgressIsWatched, Starting
<1> QED
  BY WatchedAlways, <1>1, PTL

\* active_turn only names a turn while the task that set it, the rollback or the
\* monitor is still to clear it, unless that very task failed at a later step or
\* was dropped with the client whose request it served.
THEOREM BusyPasses == Spec => []BusyIsTemporary
<1>1. WatchInv => BusyIsTemporary
  BY DEF WatchInv, BusyOK, Keeps, BusyIsTemporary
<1> QED
  BY WatchedAlways, <1>1, PTL

=============================================================================
