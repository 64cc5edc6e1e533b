--------------------------- MODULE TurnLifeProofs ---------------------------
(***************************************************************************)
(* TurnLifecycle implements TurnLife, and no monitor waits for an event    *)
(* that cannot come, on top of the invariants of TurnLifecycleProofs.      *)
(***************************************************************************)
EXTENDS TurnLifecycleProofs, FiniteSetTheorems

-----------------------------------------------------------------------------
(* The supply of events.  All monitors of an engine share its channel and    *)
(* take each other's events, so what matters is their number: an engine that  *)
(* still receives has at least as many ops and events as monitors wait for it. *)

Receivers(e) == {t \in Turns : proc[Monitor(t)].pc = "receive" /\ proc[Monitor(t)].h = e}

Supply(x) == Len(x.ops) + (IF x.run = NoTurn THEN 0 ELSE 1) + Len(x.events)

FeedInv == \A e \in Engines : eng[e].live => Cardinality(Receivers(e)) <= Supply(eng[e])

LEMMA ReceiversFinite ==
    \A e : /\ IsFiniteSet(Receivers(e)) /\ Cardinality(Receivers(e)) \in Nat
           /\ IsFiniteSet(Receivers(e)') /\ Cardinality(Receivers(e)') \in Nat
<1>1. IsFiniteSet(Turns)
  BY TurnsAssumption, FS_Union DEF Turns
<1>2. \A e : Receivers(e) \subseteq Turns /\ Receivers(e)' \subseteq Turns
  BY DEF Receivers
<1> QED
  BY <1>1, <1>2, FS_Subset, FS_CardinalityType

LEMMA SupplyFacts ==
    ASSUME NEW x \in EngineType
    PROVE  /\ Supply(x) \in Nat
           /\ x.ops = <<>> /\ x.run = NoTurn /\ x.events = <<>> => Supply(x) = 0
<1>1. x.ops \in Seq(Turns \cup {NoTurn}) /\ x.events \in Seq(Ended)
  BY DEF EngineType
<1>2. Len(x.ops) \in Nat /\ Len(x.events) \in Nat
  BY <1>1
<1>3. Supply(x) \in Nat
  BY <1>2 DEF Supply, EngineType
<1>4. ASSUME x.ops = <<>>, x.run = NoTurn, x.events = <<>>  PROVE Supply(x) = 0
  <2>1. Len(x.ops) = 0 /\ Len(x.events) = 0
    BY <1>4
  <2> QED
    BY <1>4, <2>1 DEF Supply
<1> QED
  BY <1>3, <1>4

\* What each operation of an engine does to its supply.
LEMMA SupplySteps ==
    ASSUME NEW x \in EngineType
    PROVE  /\ \A t \in Turns \cup {NoTurn} :
                Supply([x EXCEPT !.ops = Append(@, t)]) = Supply(x) + 1
           /\ \A t \in Turns \cup {NoTurn} :
                Supply([x EXCEPT !.closing = FALSE, !.ops = Append(@, t)]) = Supply(x) + 1
           /\ Supply([x EXCEPT !.closing = TRUE]) = Supply(x)
           /\ Supply([x EXCEPT !.cancel = TRUE]) = Supply(x)
           /\ x.events # <<>> => Supply([x EXCEPT !.events = Tail(@)]) = Supply(x) - 1
           /\ x.run # NoTurn => \A s \in Ended :
                Supply([x EXCEPT !.run = NoTurn, !.events = Append(@, s)]) = Supply(x)
           /\ x.ops # <<>> /\ x.run = NoTurn /\ Head(x.ops) # NoTurn =>
                \A live, cancel \in BOOLEAN :
                  Supply([x EXCEPT !.ops = Tail(@), !.run = Head(x.ops), !.live = live,
                                   !.cancel = cancel]) = Supply(x)
<1>1. x.ops \in Seq(Turns \cup {NoTurn}) /\ x.events \in Seq(Ended)
  BY DEF EngineType
<1>2. /\ Len(x.ops) \in Nat /\ Len(x.events) \in Nat
      /\ \A t \in Turns \cup {NoTurn} : Len(Append(x.ops, t)) = Len(x.ops) + 1
      /\ \A s \in Ended : Len(Append(x.events, s)) = Len(x.events) + 1
      /\ x.ops # <<>> => Len(Tail(x.ops)) = Len(x.ops) - 1
      /\ x.events # <<>> => Len(Tail(x.events)) = Len(x.events) - 1
  BY <1>1
<1>3. /\ \A t \in Turns \cup {NoTurn} :
           Supply([x EXCEPT !.ops = Append(@, t)]) = Supply(x) + 1
      /\ \A t \in Turns \cup {NoTurn} :
           Supply([x EXCEPT !.closing = FALSE, !.ops = Append(@, t)]) = Supply(x) + 1
  BY <1>2 DEF Supply, EngineType
<1>4. /\ Supply([x EXCEPT !.closing = TRUE]) = Supply(x)
      /\ Supply([x EXCEPT !.cancel = TRUE]) = Supply(x)
  BY DEF Supply, EngineType
<1>5. x.events # <<>> => Supply([x EXCEPT !.events = Tail(@)]) = Supply(x) - 1
  BY <1>2 DEF Supply, EngineType
<1>6. x.run # NoTurn => \A s \in Ended :
         Supply([x EXCEPT !.run = NoTurn, !.events = Append(@, s)]) = Supply(x)
  BY <1>2 DEF Supply, EngineType
<1>7. x.ops # <<>> /\ x.run = NoTurn /\ Head(x.ops) # NoTurn =>
         \A live, cancel \in BOOLEAN :
           Supply([x EXCEPT !.ops = Tail(@), !.run = Head(x.ops), !.live = live,
                            !.cancel = cancel]) = Supply(x)
  BY <1>2 DEF Supply, EngineType
<1> QED
  BY <1>3, <1>4, <1>5, <1>6, <1>7

\* No monitor begins to wait, and no engine that still receives loses supply.
LEMMA FeedKeep ==
    ASSUME TypeInv, FeedInv,
           \A t \in Turns : proc'[Monitor(t)].pc = "receive" =>
                proc'[Monitor(t)] = proc[Monitor(t)],
           \/ eng' = eng
           \/ \E e \in Engines, x \in EngineType :
                /\ eng' = [eng EXCEPT ![e] = x]
                /\ x.live => eng[e].live /\ Supply(x) >= Supply(eng[e])
    PROVE  FeedInv'
<1>1. eng \in [Engines -> EngineType]
  BY DEF TypeInv, StateType
<1>2. ASSUME NEW e \in Engines, eng'[e].live
      PROVE  eng[e].live /\ Supply(eng'[e]) >= Supply(eng[e])
  BY <1>1, <1>2, SupplyFacts
<1>3. ASSUME NEW e \in Engines, eng'[e].live
      PROVE  Cardinality(Receivers(e)') <= Supply(eng'[e])
  <2>1. Receivers(e)' \subseteq Receivers(e)
    BY DEF Receivers
  <2>2. Cardinality(Receivers(e)') <= Cardinality(Receivers(e))
    BY <2>1, ReceiversFinite, FS_Subset
  <2>3. Cardinality(Receivers(e)) <= Supply(eng[e]) /\ Supply(eng'[e]) >= Supply(eng[e])
    BY <1>2, <1>3 DEF FeedInv
  <2>4. Supply(eng[e]) \in Nat /\ Supply(eng'[e]) \in Nat
    BY <1>1, SupplyFacts
  <2> QED
    BY <2>2, <2>3, <2>4, ReceiversFinite
<1> QED
  BY <1>3 DEF FeedInv

\* The op that is sent pays for the monitor that starts.
LEMMA SendOpFeed ==
    ASSUME TypeInv, LifeInv, FeedInv, NEW p \in Procs, SendOp(p)
    PROVE  FeedInv'
<1>1. /\ proc[p].pc = "send" /\ proc \in [Procs -> Locals(spawned)]
      /\ eng \in [Engines -> EngineType]
  BY DEF SendOp, At, TypeInv, ProcInv, StateType
<1>2. PICK t \in Turns :
        proc[p].adm = t /\ proc[Monitor(t)].pc = "idle" /\ p # Monitor(t)
  BY <1>1, StarterFacts DEF StarterPcs, StatusAt
<1>3. PICK e : e = proc[p].h
  OBVIOUS
<1>4. /\ eng[e].live
      /\ eng' = [eng EXCEPT ![e] = [eng[e] EXCEPT !.ops = Append(@, t)]]
      /\ proc' = [proc EXCEPT ![p] = Finished,
                    ![Monitor(t)] = [pc |-> "receive", adm |-> NoTurn, h |-> e]]
  BY <1>2, <1>3 DEF SendOp
<1>5. Monitor(t) \in Procs /\ \A u \in Turns \ {t} : Monitor(u) # Monitor(t)
  BY ProcFacts
<1>6. /\ proc'[Monitor(t)] = [pc |-> "receive", adm |-> NoTurn, h |-> e]
      /\ proc'[p].pc = "done"
      /\ \A q \in Procs \ {p, Monitor(t)} : proc'[q] = proc[q]
  BY <1>1, <1>2, <1>4, <1>5 DEF Finished
<1>7. \A u \in Turns \ {t} : proc'[Monitor(u)].pc = "receive" =>
           proc'[Monitor(u)] = proc[Monitor(u)]
  <2> SUFFICES ASSUME NEW u \in Turns \ {t}, proc'[Monitor(u)].pc = "receive"
               PROVE  proc'[Monitor(u)] = proc[Monitor(u)]
    OBVIOUS
  <2>1. Monitor(u) \in Procs /\ Monitor(u) # Monitor(t) /\ Monitor(u) # p
    BY <1>5, <1>6, ProcFacts
  <2> QED
    BY <1>6, <2>1
<1>8. ASSUME NEW g \in Engines, eng'[g].live
      PROVE  Cardinality(Receivers(g)') <= Supply(eng'[g])
  <2>1. eng[g] \in EngineType /\ Supply(eng[g]) \in Nat
    BY <1>1, SupplyFacts
  <2>2. CASE g = e
    <3>1. Receivers(g)' \subseteq Receivers(g) \cup {t}
      BY <1>7 DEF Receivers
    <3>2. /\ IsFiniteSet(Receivers(g) \cup {t})
          /\ Cardinality(Receivers(g) \cup {t}) =
               IF t \in Receivers(g) THEN Cardinality(Receivers(g))
                                     ELSE Cardinality(Receivers(g)) + 1
      BY ReceiversFinite, FS_AddElement
    <3>3. Cardinality(Receivers(g)') <= Cardinality(Receivers(g) \cup {t})
      BY <3>1, <3>2, FS_Subset
    <3>4. Supply(eng'[g]) = Supply(eng[g]) + 1
      <4>1. Supply([eng[g] EXCEPT !.ops = Append(@, t)]) = Supply(eng[g]) + 1
        BY <2>1, SupplySteps
      <4>2. eng'[g] = [eng[g] EXCEPT !.ops = Append(@, t)]
        BY <1>1, <1>4, <2>2
      <4> QED
        BY <4>1, <4>2
    <3>5. Cardinality(Receivers(g)) <= Supply(eng[g])
      BY <1>4, <2>2 DEF FeedInv
    <3> QED
      BY <2>1, <3>2, <3>3, <3>4, <3>5, ReceiversFinite
  <2>3. CASE g # e
    <3>1. eng'[g] = eng[g]
      BY <1>1, <1>4, <2>3
    <3>2. Receivers(g)' \subseteq Receivers(g)
      BY <1>6, <1>7, <2>3 DEF Receivers
    <3>3. Cardinality(Receivers(g)') <= Cardinality(Receivers(g))
      BY <3>2, ReceiversFinite, FS_Subset
    <3>4. Cardinality(Receivers(g)) <= Supply(eng[g])
      BY <1>8, <3>1 DEF FeedInv
    <3> QED
      BY <2>1, <3>1, <3>3, <3>4, ReceiversFinite
  <2> QED
    BY <2>2, <2>3
<1> QED
  BY <1>8 DEF FeedInv

\* A monitor that receives stops waiting with the event it takes.
LEMMA ReceiveFeed ==
    ASSUME TypeInv, FeedInv, NEW t \in Turns, Receive(t)
    PROVE  FeedInv'
<1>1. /\ proc[Monitor(t)].pc = "receive" /\ proc \in [Procs -> Locals(spawned)]
      /\ eng \in [Engines -> EngineType] /\ spawned \in Nat
      /\ Monitor(t) \in Procs
  BY ProcFacts, BoundsAssumption DEF Receive, At, TypeInv, ProcInv, StateType
<1>2. PICK e : e = proc[Monitor(t)].h
  OBVIOUS
<1>3. /\ eng[e].events # <<>> /\ Goto(Monitor(t), "flag")
      /\ eng' = [eng EXCEPT ![e] = [eng[e] EXCEPT !.events = Tail(@)]]
  BY <1>2 DEF Receive
<1>4. /\ proc'[Monitor(t)].pc = "flag"
      /\ \A q \in Procs \ {Monitor(t)} : proc'[q] = proc[q]
  BY <1>1, <1>3, GotoFacts DEF Pcs
<1>5. \A u \in Turns \ {t} : proc'[Monitor(u)] = proc[Monitor(u)]
  BY <1>4, ProcFacts
<1>6. ASSUME NEW g \in Engines, eng'[g].live
      PROVE  Cardinality(Receivers(g)') <= Supply(eng'[g])
  <2>1. eng[g] \in EngineType /\ Supply(eng[g]) \in Nat
    BY <1>1, SupplyFacts
  <2>2. eng[g].live
    BY <1>1, <1>3, <1>6, <2>1 DEF EngineType
  <2>3. Cardinality(Receivers(g)) <= Supply(eng[g])
    BY <2>2 DEF FeedInv
  <2>4. Receivers(g)' \subseteq Receivers(g) \ {t}
    BY <1>4, <1>5 DEF Receivers
  <2>5. /\ IsFiniteSet(Receivers(g) \ {t})
        /\ Cardinality(Receivers(g) \ {t}) =
             IF t \in Receivers(g) THEN Cardinality(Receivers(g)) - 1
                                   ELSE Cardinality(Receivers(g))
    BY ReceiversFinite, FS_RemoveElement
  <2>6. Cardinality(Receivers(g)') <= Cardinality(Receivers(g) \ {t})
    BY <2>4, <2>5, FS_Subset
  <2>7. CASE g = e
    <3>1. t \in Receivers(g)
      BY <1>1, <1>2, <2>7 DEF Receivers
    <3>2. Supply(eng'[g]) = Supply(eng[g]) - 1
      BY <1>1, <1>3, <2>1, <2>7, SupplySteps
    <3> QED
      BY <2>1, <2>3, <2>5, <2>6, <3>1, <3>2, ReceiversFinite
  <2>8. CASE g # e
    <3>1. eng'[g] = eng[g]
      BY <1>1, <1>3, <2>8
    <3> QED
      BY <2>1, <2>3, <2>5, <2>6, <3>1, ReceiversFinite
  <2> QED
    BY <2>7, <2>8
<1> QED
  BY <1>6 DEF FeedInv

LEMMA FeedStep ==
    ASSUME TypeInv, LifeInv, FeedInv, [Next]_vars
    PROVE  FeedInv'
<1>0. /\ proc \in [Procs -> Locals(spawned)] /\ spawned \in Nat
      /\ eng \in [Engines -> EngineType] /\ loaded \in 0..spawned
      /\ MaxEngines \in Nat /\ spawned <= MaxEngines
      /\ \A t \in Turns : Client(t) \in Procs /\ Monitor(t) \in Procs
      /\ Calls \subseteq Turns /\ Compactions \subseteq Turns
  BY BoundsAssumption, ProcFacts DEF TypeInv, StateType, ProcInv, Turns
<1> USE DEF store, mem, engs, procs, hist
<1>k. ASSUME NEW p \in Procs, proc'[p].pc # "receive", \A q \in Procs \ {p} : proc'[q] = proc[q],
             \/ eng' = eng
             \/ \E e \in Engines, x \in EngineType :
                  /\ eng' = [eng EXCEPT ![e] = x]
                  /\ x.live => eng[e].live /\ Supply(x) >= Supply(eng[e])
      PROVE  FeedInv'
  <2>1. \A t \in Turns : proc'[Monitor(t)].pc = "receive" =>
             proc'[Monitor(t)] = proc[Monitor(t)]
    BY <1>0, <1>k
  <2> QED
    BY <1>k, <2>1, FeedKeep
<1>g. ASSUME NEW p \in Procs, NEW l \in Pcs \ {"receive"}, Goto(p, l), eng' = eng
      PROVE  FeedInv'
  <2>1. proc'[p].pc = l /\ \A q \in Procs \ {p} : proc'[q] = proc[q]
    BY <1>0, <1>g, GotoFacts
  <2> QED
    BY <1>g, <2>1, <1>k
<1>x. ASSUME NEW p \in Procs, NEW c, eng' = eng,
             proc' = [proc EXCEPT ![p] = [pc |-> "load", adm |-> c, h |-> 0]]
      PROVE  FeedInv'
  <2>1. proc'[p].pc # "receive" /\ \A q \in Procs \ {p} : proc'[q] = proc[q]
    BY <1>0, <1>x
  <2> QED
    BY <1>x, <2>1, <1>k
<1>e. ASSUME proc' = proc, NEW e \in Engines, NEW x \in EngineType,
             eng' = [eng EXCEPT ![e] = x],
             x.live => eng[e].live /\ Supply(x) >= Supply(eng[e])
      PROVE  FeedInv'
  BY <1>e, FeedKeep
<1>1. CASE UNCHANGED vars
  BY <1>1, FeedKeep DEF vars
<1>2. ASSUME NEW c \in Calls, NEW d \in Deliveries, StartTurn(c, d)  PROVE FeedInv'
  BY <1>0, <1>2, <1>g DEF StartTurn, Pcs
<1>3. ASSUME NEW c \in Calls, Admit(c)  PROVE FeedInv'
  BY <1>0, <1>3, <1>g DEF Admit, Pcs
<1>4. ASSUME NEW c \in Calls, CheckActive(c)  PROVE FeedInv'
  BY <1>0, <1>4, <1>g DEF CheckActive, Answer, Pcs
<1>5. ASSUME NEW c \in Calls, RequestWake(c) \/ AnswerQueued(c)  PROVE FeedInv'
  BY <1>0, <1>5, <1>g DEF RequestWake, AnswerQueued, Answer, Pcs
<1>6. ASSUME NEW c \in Calls, RequestRun(c)  PROVE FeedInv'
  BY <1>0, <1>6, <1>x DEF RequestRun
<1>7. ASSUME NEW k \in Compactions, CompactThread(k)  PROVE FeedInv'
  BY <1>0, <1>7, <1>x DEF CompactThread
<1>8. ASSUME NEW k \in Compactions, CompactCheck(k)  PROVE FeedInv'
  BY <1>0, <1>8, <1>g DEF CompactCheck, Answer, Pcs
<1>9. ASSUME NEW p \in Procs, EnsureLoaded(p) \/ InsertEngine(p)  PROVE FeedInv'
  <2>1. \E l \in {"spawn", "idle?", "promote"}, e \in {loaded, spawned'} :
             proc' = [proc EXCEPT ![p].pc = l, ![p].h = e]
    BY <1>9 DEF EnsureLoaded, InsertEngine, AfterLoad
  <2>2. proc'[p].pc \in {"spawn", "idle?", "promote"} /\ \A q \in Procs \ {p} : proc'[q] = proc[q]
    BY <1>0, <2>1 DEF Locals
  <2>3. eng' = eng
    BY <1>9 DEF EnsureLoaded, InsertEngine
  <2> QED
    BY <2>2, <2>3, <1>k
<1>10. ASSUME NEW p \in Procs, Promote(p)  PROVE FeedInv'
  BY <1>10, <1>g DEF Promote, PromoteRow, GiveUp, Leave, Proceed, Pcs
<1>11. ASSUME NEW p \in Procs, SaveTurn(p) \/ Activate(p)  PROVE FeedInv'
  BY <1>11, <1>g DEF SaveTurn, Activate, GiveUp, Leave, Proceed, Pcs
<1>12. ASSUME NEW p \in Procs, SendOp(p)  PROVE FeedInv'
  BY <1>12, SendOpFeed
<1>13. ASSUME NEW p \in Procs, SendFails(p) \/ StartFails(p)  PROVE FeedInv'
  BY <1>13, <1>g DEF SendFails, Refused, StartFails, GiveUp, Leave, Proceed, Pcs
<1>14. ASSUME NEW p \in Procs,
              RollbackSave(p) \/ RollbackReport(p) \/ RollbackClear(p) \/ RollbackDrain(p)
       PROVE  FeedInv'
  BY <1>14, <1>g DEF RollbackSave, RollbackReport, RollbackClear, RollbackDrain, GiveUp, Leave,
                     Pcs
<1>h. ASSUME NEW t \in Turns, HangUp(t)  PROVE FeedInv'
  BY <1>0, <1>h, <1>g DEF HangUp, Leave, Pcs
<1>15. ASSUME NEW t \in Turns, Receive(t)  PROVE FeedInv'
  BY <1>15, ReceiveFeed
<1>16. ASSUME NEW t \in Turns,
              \/ \E s \in {"Completed", "Failed"} : ChannelClosed(t, s)
              \/ ReadFlag(t) \/ SaveFinal(t) \/ EmitCompleted(t)
       PROVE  FeedInv'
  BY <1>0, <1>16, <1>g DEF ChannelClosed, ReadFlag, SaveFinal, EmitCompleted, Pcs
<1>17. ASSUME NEW t \in Turns, ClearActive(t) \/ UnloadReturns(t) \/ FinishDrain(t)
       PROVE  FeedInv'
  BY <1>0, <1>17, <1>g DEF ClearActive, UnloadReturns, FinishDrain, Pcs
\* An engine that leaves the map keeps what is in its channels.
<1>u. ASSUME Unloaded, loaded # 0
      PROVE  \E e \in Engines, x \in EngineType :
                /\ eng' = [eng EXCEPT ![e] = x]
                /\ x.live => eng[e].live /\ Supply(x) >= Supply(eng[e])
  <2>1. loaded \in Engines
    BY <1>0, <1>u DEF Engines
  <2> DEFINE x == [eng[loaded] EXCEPT !.closing = TRUE]
  <2>2. eng[loaded] \in EngineType
    BY <1>0, <2>1
  <2>3. x \in EngineType /\ x.live = eng[loaded].live
    BY <2>2, TokenFacts DEF EngineType
  <2>4. Supply(x) >= Supply(eng[loaded])
    <3>1. Supply(x) = Supply(eng[loaded])
      BY <2>2, SupplySteps
    <3> QED
      BY <2>2, <3>1, SupplyFacts
  <2>5. eng' = [eng EXCEPT ![loaded] = x]
    BY <1>u DEF Unloaded
  <2> HIDE DEF x
  <2> QED
    BY <2>1, <2>3, <2>4, <2>5
<1>18. ASSUME NEW t \in Turns, UnloadAfterTurn(t)  PROVE FeedInv'
  <2>1. CASE Goto(Monitor(t), "drain") /\ eng' = eng
    BY <1>0, <2>1, <1>g DEF Pcs
  <2>2. CASE /\ loaded # 0 /\ Unloaded
             /\ proc' = [proc EXCEPT ![Monitor(t)].pc = "shutdown", ![Monitor(t)].h = loaded]
    <3>1. /\ proc'[Monitor(t)].pc = "shutdown"
          /\ \A q \in Procs \ {Monitor(t)} : proc'[q] = proc[q]
      BY <1>0, <2>2 DEF Locals
    <3> QED
      BY <1>0, <2>2, <3>1, <1>u, <1>k
  <2> QED
    BY <1>18, <2>1, <2>2 DEF UnloadAfterTurn
<1>19. ASSUME NEW t \in Turns, NextPending(t)  PROVE FeedInv'
  <2>1. eng' = eng
    BY <1>19 DEF NextPending
  <2>2. CASE Goto(Monitor(t), "done")
    BY <1>0, <2>1, <2>2, <1>g DEF Pcs
  <2>3. ASSUME NEW c, proc' = [proc EXCEPT ![Monitor(t)] = [pc |-> "load", adm |-> c, h |-> 0]]
        PROVE  FeedInv'
    BY <1>0, <2>1, <2>3, <1>x
  <2> QED
    BY <1>19, <2>2, <2>3 DEF NextPending
<1>20. ASSUME NEW t \in Turns, MonitorFails(t)  PROVE FeedInv'
  BY <1>0, <1>20, <1>g DEF MonitorFails, Pcs
<1>21. CASE (\E t \in Turns : InterruptTurn(t)) \/ RaiseBoundary \/ DeferRefresh \/ Restart
  BY <1>21, FeedKeep DEF InterruptTurn, RaiseBoundary, DeferRefresh, Restart
<1>22. CASE FlagTurn
  <2>1. proc' = proc
    BY <1>22 DEF FlagTurn
  <2>2. CASE eng' = eng
    BY <2>1, <2>2, FeedKeep
  <2>3. CASE loaded # 0 /\ eng' = [eng EXCEPT ![loaded] = [eng[loaded] EXCEPT !.cancel = TRUE]]
    <3>1. loaded \in Engines
      BY <1>0, <2>3 DEF Engines
    <3>2. eng[loaded] \in EngineType
      BY <1>0, <3>1
    <3>3. /\ [eng[loaded] EXCEPT !.cancel = TRUE] \in EngineType
          /\ [eng[loaded] EXCEPT !.cancel = TRUE].live = eng[loaded].live
      BY <3>2, TokenFacts DEF EngineType
    <3>4. Supply([eng[loaded] EXCEPT !.cancel = TRUE]) >= Supply(eng[loaded])
      <4>1. Supply([eng[loaded] EXCEPT !.cancel = TRUE]) = Supply(eng[loaded])
        BY <3>2, SupplySteps
      <4> QED
        BY <3>2, <4>1, SupplyFacts
    <3> QED
      BY <2>1, <2>3, <3>1, <3>3, <3>4, <1>e
  <2> QED
    BY <1>22, <2>2, <2>3 DEF FlagTurn
<1>23. CASE Unload
  BY <1>23, <1>u, FeedKeep DEF Unload
<1>24. ASSUME NEW e \in Engines, EngineStep(e)  PROVE FeedInv'
  <2>1. proc' = proc /\ eng[e] \in EngineType /\ Supply(eng[e]) \in Nat
    BY <1>0, <1>24, SupplyFacts DEF EngineStep, SendShutdown, EngineTake, EngineComplete
  <2>2. CASE SendShutdown(e)
    <3> DEFINE x == [eng[e] EXCEPT !.closing = FALSE, !.ops = Append(@, NoTurn)]
    <3>1. eng' = [eng EXCEPT ![e] = x]
      BY <2>2 DEF SendShutdown
    <3>2. Supply(x) >= Supply(eng[e])
      <4>1. Supply(x) = Supply(eng[e]) + 1
        BY <2>1, SupplySteps
      <4> QED
        BY <2>1, <4>1
    <3>3. x \in EngineType /\ x.live = eng[e].live
      BY <2>1, OpFacts DEF EngineType
    <3> HIDE DEF x
    <3> QED
      BY <2>1, <3>1, <3>2, <3>3, <1>e
  <2>3. CASE EngineTake(e)
    <3> DEFINE t == Head(eng[e].ops)
               x == [eng[e] EXCEPT !.ops = Tail(@), !.run = t, !.live = (t # NoTurn),
                                   !.cancel = IF t \in Calls THEN FALSE ELSE @]
    <3>1. eng' = [eng EXCEPT ![e] = x] /\ eng[e].ops # <<>> /\ eng[e].run = NoTurn /\ eng[e].live
      BY <2>3 DEF EngineTake
    <3>2. /\ eng[e].ops \in Seq(Turns \cup {NoTurn}) /\ eng[e].cancel \in BOOLEAN
      BY <2>1 DEF EngineType
    <3>3. t \in Turns \cup {NoTurn} /\ Tail(eng[e].ops) \in Seq(Turns \cup {NoTurn})
      BY <3>1, <3>2
    <3>4. x \in EngineType /\ x.live = (t # NoTurn)
      <4> HIDE DEF t
      <4> QED
        BY <2>1, <3>3 DEF EngineType
    <3>5. ASSUME t # NoTurn  PROVE Supply(x) >= Supply(eng[e])
      <4>1. PICK live \in BOOLEAN, cancel \in BOOLEAN :
              live = (t # NoTurn) /\ cancel = IF t \in Calls THEN FALSE ELSE eng[e].cancel
        BY <3>2
      <4>2. Supply([eng[e] EXCEPT !.ops = Tail(@), !.run = t, !.live = live, !.cancel = cancel])
              = Supply(eng[e])
        BY <2>1, <3>1, <3>5, SupplySteps
      <4>3. Supply(x) = Supply(eng[e])
        BY <4>1, <4>2
      <4> QED
        BY <2>1, <4>3
    <3> HIDE DEF x
    <3> QED
      BY <2>1, <3>1, <3>4, <3>5, <1>e
  <2>4. ASSUME NEW s \in Ended, EngineComplete(e, s)  PROVE FeedInv'
    <3> DEFINE x == [eng[e] EXCEPT !.run = NoTurn, !.events = Append(@, s)]
    <3>1. eng' = [eng EXCEPT ![e] = x] /\ eng[e].run # NoTurn
      BY <2>4 DEF EngineComplete
    <3>2. Supply(x) >= Supply(eng[e])
      <4>1. Supply(x) = Supply(eng[e])
        BY <2>1, <3>1, SupplySteps
      <4> QED
        BY <2>1, <4>1
    <3>3. x \in EngineType /\ x.live = eng[e].live
      BY <2>1, EventFacts DEF EngineType
    <3> HIDE DEF x
    <3> QED
      BY <2>1, <3>1, <3>2, <3>3, <1>e
  <2> QED
    BY <1>24, <2>2, <2>3, <2>4 DEF EngineStep
<1>25. CASE Crash
  <2>1. eng' = [e \in Engines |-> FreshEngine]
    BY <1>25 DEF Crash
  <2>2. \A t \in Turns : proc'[Monitor(t)].pc # "receive"
    BY <1>0, <1>25 DEF Crash, Resting, Finished
  <2>3. \A e : Receivers(e)' = {}
    BY <2>2 DEF Receivers
  <2>4. Supply(FreshEngine) = 0
    BY DEF Supply, FreshEngine
  <2>5. \A e \in Engines : Supply(eng'[e]) = 0 /\ Cardinality(Receivers(e)') = 0
    BY <2>1, <2>3, <2>4, FS_EmptySet
  <2>6. \A e \in Engines : Cardinality(Receivers(e)') <= Supply(eng'[e])
    BY <2>5
  <2> QED
    BY <2>6 DEF FeedInv
<1> QED
  BY <1>1, <1>2, <1>3, <1>4, <1>5, <1>6, <1>7, <1>8, <1>9, <1>10, <1>11, <1>12,
     <1>13, <1>14, <1>15, <1>16, <1>17, <1>18, <1>19, <1>20, <1>21, <1>22, <1>23,
     <1>24, <1>25, <1>h
     DEF Next, ClientStep, StartStep, MonitorStep

LEMMA FeedInit == Init => FeedInv
<1> SUFFICES ASSUME Init, NEW e \in Engines
             PROVE  Cardinality(Receivers(e)) <= Supply(eng[e])
  BY DEF FeedInv
<1>1. Receivers(e) = {}
  BY ProcFacts DEF Init, Receivers, Resting
<1>2. eng[e] = FreshEngine /\ Supply(FreshEngine) = 0
  BY DEF Init, Supply, FreshEngine
<1> QED
  BY <1>1, <1>2, FS_EmptySet

\* A monitor never waits for an event that cannot come: the engine still has an op
\* or an event for it, or its channel is closed, although the monitors of an
\* engine take each other's events and engines are replaced and unloaded.
THEOREM NoStarvation == Spec => []NoMonitorStarves
<1>1. IInv /\ FeedInv /\ [Next]_vars => FeedInv'
  BY FeedStep DEF IInv
<1>2. IInv /\ FeedInv => NoMonitorStarves
  <2> SUFFICES ASSUME IInv, FeedInv, NEW t \in Turns, proc[Monitor(t)].pc = "receive"
               PROVE  LET x == eng[proc[Monitor(t)].h]
                      IN x.events # <<>> \/ x.run # NoTurn \/ x.ops # <<>> \/ ~x.live
    BY DEF NoMonitorStarves
  <2>1. PICK e \in Engines : e = proc[Monitor(t)].h
    <3>1. /\ proc[Monitor(t)].h \in 0..spawned /\ proc[Monitor(t)].h # 0
          /\ spawned \in 0..MaxEngines
      BY ProcFacts DEF IInv, TypeInv, StateType, ProcInv, PcInv, Locals, HandlePcs
    <3> QED
      BY <3>1, BoundsAssumption DEF Engines
  <2>2. eng[e] \in EngineType
    BY DEF IInv, TypeInv, StateType
  <2>3. t \in Receivers(e)
    BY <2>1 DEF Receivers
  <2>4. Cardinality(Receivers(e)) # 0
    BY <2>3, ReceiversFinite, FS_EmptySet
  <2>5. eng[e].live => Supply(eng[e]) # 0
    BY <2>2, <2>4, SupplyFacts, ReceiversFinite DEF FeedInv
  <2> QED
    BY <2>1, <2>2, <2>5, SupplyFacts
<1> QED
  BY IInvInit, IInvStep, FeedInit, <1>1, <1>2, PTL DEF Spec

-----------------------------------------------------------------------------
(* Requests and monitors.  A request that was answered is done, and one that *)
(* is under way past the inbox has its prompt in it; a monitor only exists   *)
(* for a turn that was accepted, and announces only an end that was stored.  *)

Outcomes == {"none", "busy", "queued", "suppressed", "ok", "error"}

AnswerInv ==
    /\ reply \in [Turns -> Outcomes]
    /\ \A t \in Turns :
        /\ proc[Client(t)].adm \in {t, NoTurn}
        /\ reply[t] # "none" => proc[Client(t)].pc = "done"
        /\ t \in Calls /\ proc[Client(t)].pc \notin {"idle", "admit", "done"} =>
              row[t].st # "none"

AcceptedInv ==
    \A t \in Turns :
        /\ proc[Monitor(t)].pc # "idle" => started[t] = 1
        /\ proc[Monitor(t)].pc = "emit" => turn[t] \in Ended

SideInv == AnswerInv /\ AcceptedInv

LEMMA NameFacts ==
    \A t \in Turns : Client(t)[1] = "client" /\ Client(t)[2] = t /\ Monitor(t)[1] = "monitor"
  BY DEF Client, Monitor

LEMMA SideInit == Init => SideInv
<1> SUFFICES ASSUME Init  PROVE SideInv
  OBVIOUS
<1>1. \A p \in Procs : proc[p] = Resting
  BY DEF Init
<1>2. reply \in [Turns -> Outcomes] /\ \A t \in Turns : reply[t] = "none"
  BY DEF Init, Outcomes
<1> QED
  BY <1>1, <1>2, ProcFacts DEF SideInv, AnswerInv, AcceptedInv, Resting

\* A step of one process that accepts no turn.
LEMMA MoveSide ==
    ASSUME IInv, SideInv, [Next]_vars, NEW p \in Procs,
           \A q \in Procs \ {p} : proc'[q] = proc[q],
           started' = started,
           \A c \in Calls : row[c].st # "none" => row'[c].st # "none",
           reply' \in [Turns -> Outcomes],
           \A t \in Turns : p # Client(t) => reply'[t] = reply[t],
           \A t \in Turns : p = Client(t) =>
                /\ proc'[p].adm \in {t, NoTurn}
                /\ reply'[t] # "none" => proc'[p].pc = "done"
                /\ t \in Calls /\ proc'[p].pc \notin {"idle", "admit", "done"} =>
                      row'[t].st # "none",
           \A t \in Turns : p = Monitor(t) =>
                proc[p].pc # "idle" /\ (proc'[p].pc = "emit" => turn'[t] \in Ended)
    PROVE  SideInv'
<1>1. \A t \in Turns : /\ Client(t) \in Procs /\ Monitor(t) \in Procs
                       /\ p # Client(t) => proc'[Client(t)] = proc[Client(t)]
                       /\ p # Monitor(t) => proc'[Monitor(t)] = proc[Monitor(t)]
  BY ProcFacts
<1>2. AnswerInv'
  BY <1>1 DEF SideInv, AnswerInv
<1>3. ASSUME NEW t \in Turns, proc'[Monitor(t)].pc # "idle"
      PROVE  started'[t] = 1
  BY <1>1, <1>3 DEF SideInv, AcceptedInv
<1>4. ASSUME NEW t \in Turns, proc'[Monitor(t)].pc = "emit"
      PROVE  turn'[t] \in Ended
  <2>1. CASE p = Monitor(t)
    BY <1>4, <2>1
  <2>2. CASE p # Monitor(t)
    BY <1>1, <1>4, <2>2, EndedStep DEF SideInv, AcceptedInv
  <2> QED
    BY <2>1, <2>2
<1> QED
  BY <1>2, <1>3, <1>4 DEF SideInv, AcceptedInv

\* No process moves.
LEMMA QuietSide ==
    ASSUME IInv, SideInv, [Next]_vars, UNCHANGED <<proc, started, reply, row>>
    PROVE  SideInv'
  BY EndedStep DEF SideInv, AnswerInv, AcceptedInv

\* A process under way goes to another place, and its client is answered, if at
\* all, when it is done.
LEMMA GotoSide ==
    ASSUME IInv, SideInv, [Next]_vars, NEW p \in Procs, NEW l \in Pcs, Goto(p, l),
           proc[p].pc \notin {"idle", "done"}, l \notin {"idle", "admit"},
           proc[p].pc = "admit" => l = "done",
           l = "emit" => \A t \in Turns : p = Monitor(t) => turn'[t] \in Ended,
           started' = started,
           \A c \in Calls : row[c].st # "none" => row'[c].st # "none",
           \/ reply' = reply
           \/ /\ l = "done"
              /\ \E t \in Turns, o \in Outcomes :
                    p = Client(t) /\ reply' = [reply EXCEPT ![t] = o]
    PROVE  SideInv'
<1>1. proc \in [Procs -> Locals(spawned)] /\ spawned \in Nat
  BY BoundsAssumption DEF IInv, TypeInv, StateType, ProcInv
<1>2. /\ proc'[p].pc = l
      /\ l # "done" => proc'[p].adm = proc[p].adm
      /\ l = "done" => proc'[p].adm = NoTurn
      /\ \A q \in Procs \ {p} : proc'[q] = proc[q]
  BY <1>1, GotoFacts
<1>3. /\ reply' \in [Turns -> Outcomes]
      /\ \A t \in Turns : p # Client(t) => reply'[t] = reply[t]
      /\ \A t \in Turns : p = Client(t) /\ l # "done" => reply'[t] = reply[t]
  BY DEF SideInv, AnswerInv
<1>4. ASSUME NEW t \in Turns, p = Client(t)
      PROVE  /\ proc'[p].adm \in {t, NoTurn}
             /\ reply'[t] # "none" => proc'[p].pc = "done"
             /\ t \in Calls /\ proc'[p].pc \notin {"idle", "admit", "done"} =>
                   row'[t].st # "none"
  BY <1>2, <1>3, <1>4 DEF SideInv, AnswerInv
<1> QED
  BY <1>2, <1>3, <1>4, MoveSide

\* A task that gives up answers its own request, if it has one.
LEMMA GiveUpAnswers ==
    ASSUME NEW p \in Procs, GiveUp(p)
    PROVE  /\ Goto(p, "done")
           /\ \/ \E t \in Turns : p = Client(t) /\ reply' = [reply EXCEPT ![t] = "error"]
              \/ (\E t \in Turns : p = Monitor(t)) /\ reply' = reply
<1>1. PICK t \in Turns : p = Client(t) \/ p = Monitor(t)
  BY ProcFacts
<1>2. CASE p = Client(t)
  BY <1>2, NameFacts DEF GiveUp, Leave
<1>3. CASE p = Monitor(t)
  BY <1>3, NameFacts DEF GiveUp, Leave
<1> QED
  BY <1>1, <1>2, <1>3

LEMMA GiveUpSide ==
    ASSUME IInv, SideInv, [Next]_vars, NEW p \in Procs, GiveUp(p),
           proc[p].pc \notin {"idle", "done"},
           started' = started, row' = row
    PROVE  SideInv'
  BY GiveUpAnswers, GotoSide DEF Outcomes, Pcs

LEMMA SideStep ==
    ASSUME IInv, SideInv, [Next]_vars
    PROVE  SideInv'
<1>0. /\ proc \in [Procs -> Locals(spawned)] /\ spawned \in Nat
      /\ \A t \in Turns : Client(t) \in Procs /\ Monitor(t) \in Procs
      /\ Calls \subseteq Turns /\ Compactions \subseteq Turns
      /\ turn \in [Turns -> {"none", "InProgress"} \cup Ended] /\ stat \in [Turns -> Ended]
      /\ started \in [Turns -> Nat] /\ RowType /\ TypeInv /\ LifeInv
  BY BoundsAssumption, ProcFacts DEF IInv, TypeInv, StateType, ProcInv, Turns
<1> USE DEF store, mem, engs, procs, hist
<1>g. ASSUME NEW p \in Procs, NEW l \in Pcs \ {"idle", "admit", "emit"}, Goto(p, l),
             proc[p].pc \notin {"idle", "done"}, UNCHANGED <<started, row>>,
             proc[p].pc = "admit" => l = "done",
             \/ reply' = reply
             \/ /\ l = "done"
                /\ \E t \in Turns, o \in Outcomes :
                      p = Client(t) /\ reply' = [reply EXCEPT ![t] = o]
      PROVE  SideInv'
  BY <1>g, GotoSide
<1>x. ASSUME NEW p \in Procs, NEW x, proc' = [proc EXCEPT ![p] = x],
             UNCHANGED <<started, row, reply>>, proc[p].pc # "done",
             x.pc \notin {"idle", "admit", "done", "emit"},
             \A t \in Turns : p = Monitor(t) => proc[p].pc # "idle",
             \A t \in Turns : p = Client(t) =>
                  x.adm \in {t, NoTurn} /\ (t \in Calls => row[t].st # "none")
      PROVE  SideInv'
  <2>1. proc'[p] = x /\ \A q \in Procs \ {p} : proc'[q] = proc[q]
    BY <1>0, <1>x
  <2>2. /\ reply' \in [Turns -> Outcomes]
        /\ \A t \in Turns : p = Client(t) => reply'[t] = "none"
    BY <1>x DEF SideInv, AnswerInv
  <2> QED
    BY <1>x, <2>1, <2>2, MoveSide
<1>1. CASE UNCHANGED vars
  BY <1>1, QuietSide DEF vars
<1>2. ASSUME NEW c \in Calls, NEW d \in Deliveries, StartTurn(c, d)  PROVE SideInv'
  <2>1. /\ proc[Client(c)].pc = "idle" /\ Goto(Client(c), "admit")
        /\ UNCHANGED <<row, reply, started>>
    BY <1>2 DEF StartTurn, At
  <2>2. /\ proc'[Client(c)].pc = "admit" /\ proc'[Client(c)].adm = proc[Client(c)].adm
        /\ \A q \in Procs \ {Client(c)} : proc'[q] = proc[q]
    BY <1>0, <2>1, GotoFacts DEF Pcs
  <2>3. /\ \A t \in Turns : Client(c) # Monitor(t) /\ (Client(c) = Client(t) => c = t)
        /\ reply[c] = "none" /\ proc[Client(c)].adm \in {c, NoTurn}
        /\ reply \in [Turns -> Outcomes]
    BY <1>0, <2>1, ProcFacts DEF SideInv, AnswerInv
  <2> QED
    BY <1>0, <2>1, <2>2, <2>3, MoveSide
<1>3. ASSUME NEW c \in Calls, Admit(c)  PROVE SideInv'
  <2>1. /\ proc[Client(c)].pc = "admit" /\ Goto(Client(c), "check")
        /\ UNCHANGED <<reply, started>>
        /\ row'[c].st = "pending" /\ \A b \in Calls \ {c} : row'[b] = row[b]
    BY <1>0, <1>3 DEF Admit, At, RowType
  <2>2. /\ proc'[Client(c)].pc = "check" /\ proc'[Client(c)].adm = proc[Client(c)].adm
        /\ \A q \in Procs \ {Client(c)} : proc'[q] = proc[q]
    BY <1>0, <2>1, GotoFacts DEF Pcs
  <2>3. /\ \A t \in Turns : Client(c) # Monitor(t) /\ (Client(c) = Client(t) => c = t)
        /\ reply[c] = "none" /\ proc[Client(c)].adm \in {c, NoTurn}
        /\ reply \in [Turns -> Outcomes]
    BY <1>0, <2>1, ProcFacts DEF SideInv, AnswerInv
  <2> QED
    BY <1>0, <2>1, <2>2, <2>3, MoveSide
<1>4. ASSUME NEW c \in Calls, CheckActive(c) \/ RequestWake(c) \/ AnswerQueued(c)
      PROVE  SideInv'
  <2>1. /\ proc[Client(c)].pc \in {"check", "wake", "queued"} /\ UNCHANGED <<row, started>>
        /\ \/ reply' = reply /\ \E l \in {"wake", "run", "queued"} : Goto(Client(c), l)
           \/ Goto(Client(c), "done") /\ \E o \in Outcomes : reply' = [reply EXCEPT ![c] = o]
    BY <1>4 DEF CheckActive, RequestWake, AnswerQueued, Answer, At, Outcomes
  <2> QED
    BY <1>0, <2>1, <1>g DEF Pcs
<1>5. ASSUME NEW c \in Calls, RequestRun(c)  PROVE SideInv'
  <2> DEFINE x == [pc |-> "load", adm |-> c, h |-> 0]
  <2>1. /\ proc[Client(c)].pc = "run" /\ UNCHANGED <<row, started, reply>>
        /\ proc' = [proc EXCEPT ![Client(c)] = x]
    BY <1>5 DEF RequestRun, At
  <2>2. x.pc = "load" /\ x.adm = c
    OBVIOUS
  <2>3. row[c].st # "none"
    BY <1>0, <2>1 DEF SideInv, AnswerInv
  <2>4. \A t \in Turns : Client(c) # Monitor(t) /\ (Client(c) = Client(t) => c = t)
    BY <1>0, ProcFacts
  <2> HIDE DEF x
  <2> QED
    BY <1>0, <2>1, <2>2, <2>3, <2>4, <1>x
<1>6. ASSUME NEW k \in Compactions, CompactThread(k)  PROVE SideInv'
  <2> DEFINE x == [pc |-> "load", adm |-> k, h |-> 0]
  <2>1. /\ proc[Client(k)].pc = "idle" /\ UNCHANGED <<row, started, reply>>
        /\ proc' = [proc EXCEPT ![Client(k)] = x]
    BY <1>6 DEF CompactThread, At
  <2>2. x.pc = "load" /\ x.adm = k
    OBVIOUS
  <2>3. /\ k \notin Calls
        /\ \A t \in Turns : Client(k) # Monitor(t) /\ (Client(k) = Client(t) => k = t)
    BY <1>0, ProcFacts, TurnsAssumption
  <2> HIDE DEF x
  <2> QED
    BY <1>0, <2>1, <2>2, <2>3, <1>x
<1>7. ASSUME NEW k \in Compactions, CompactCheck(k)  PROVE SideInv'
  <2>1. /\ proc[Client(k)].pc = "idle?" /\ UNCHANGED <<row, started>>
        /\ \/ reply' = reply /\ Goto(Client(k), "save")
           \/ Goto(Client(k), "done") /\ \E o \in Outcomes : reply' = [reply EXCEPT ![k] = o]
    BY <1>7 DEF CompactCheck, Answer, At, Outcomes
  <2> QED
    BY <1>0, <2>1, <1>g DEF Pcs
<1>8. ASSUME NEW p \in Procs, EnsureLoaded(p) \/ InsertEngine(p)  PROVE SideInv'
  <2>1. /\ proc[p].pc \in {"load", "spawn"} /\ UNCHANGED <<row, started, reply>>
        /\ \E l \in {"spawn", "idle?", "promote"}, e \in {loaded, spawned'} :
             proc' = [proc EXCEPT ![p].pc = l, ![p].h = e]
    BY <1>8 DEF EnsureLoaded, InsertEngine, At, AfterLoad
  <2>2. /\ proc'[p].pc \in {"spawn", "idle?", "promote"} /\ proc'[p].adm = proc[p].adm
        /\ \A q \in Procs \ {p} : proc'[q] = proc[q]
    BY <1>0, <2>1 DEF Locals
  <2>3. /\ reply' \in [Turns -> Outcomes]
        /\ \A t \in Turns : p = Client(t) => /\ reply'[t] = "none" /\ proc[p].adm \in {t, NoTurn}
                                             /\ t \in Calls => row[t].st # "none"
    BY <2>1 DEF SideInv, AnswerInv
  <2> QED
    BY <2>1, <2>2, <2>3, MoveSide
<1>9. ASSUME NEW p \in Procs, Promote(p)  PROVE SideInv'
  <2>1. proc[p].pc = "promote" /\ started' = started
    BY <1>9 DEF Promote, At
  <2>2. CASE GiveUp(p) /\ row' = row
    BY <2>1, <2>2, GiveUpSide
  <2>3. CASE row[proc[p].adm].st = "pending"
    <3>1. PICK c \in Calls : c = proc[p].adm
      BY <1>0, <2>1 DEF TypeInv, ProcInv, PcInv
    <3>2. row' = [row EXCEPT ![c].st = "promoted"] /\ Goto(p, "save") /\ reply' = reply
      BY <1>9, <2>3, <3>1 DEF Promote, PromoteRow, Proceed
    <3>3. \A b \in Calls : row[b].st # "none" => row'[b].st # "none"
      BY <1>0, <3>2 DEF RowType
    <3> QED
      BY <2>1, <3>2, <3>3, GotoSide DEF Pcs
  <2> QED
    BY <1>9, <2>2, <2>3 DEF Promote, PromoteRow
<1>10. ASSUME NEW p \in Procs, SaveTurn(p)  PROVE SideInv'
  BY <1>10, <1>g DEF SaveTurn, At, Pcs
<1>11. ASSUME NEW p \in Procs, Activate(p)  PROVE SideInv'
  <2>1. proc[p].pc = "activate" /\ UNCHANGED <<row, started>> /\ (GiveUp(p) \/ Proceed(p, "send"))
    BY <1>11 DEF Activate, At
  <2> QED
    BY <2>1, <1>g, GiveUpSide DEF Proceed, Pcs
<1>12. ASSUME NEW p \in Procs, SendOp(p)  PROVE SideInv'
  <2>1. proc[p].pc = "send"
    BY <1>12 DEF SendOp, At
  <2>2. PICK t \in Turns :
          proc[p].adm = t /\ started[t] = 0 /\ proc[Monitor(t)].pc = "idle" /\ p # Monitor(t)
    BY <1>0, <2>1, StarterFacts DEF StarterPcs, StatusAt
  <2>3. /\ started' = [started EXCEPT ![t] = @ + 1]
        /\ proc' = [proc EXCEPT ![p] = Finished,
                      ![Monitor(t)] = [pc |-> "receive", adm |-> NoTurn, h |-> proc[p].h]]
        /\ UNCHANGED <<row, turn>>
        /\ reply' = IF p[1] = "client" THEN [reply EXCEPT ![p[2]] = "ok"] ELSE reply
    BY <1>12, <2>2 DEF SendOp
  <2>4. /\ proc'[p].pc = "done" /\ proc'[p].adm = NoTurn /\ proc'[Monitor(t)].pc = "receive"
        /\ \A q \in Procs \ {p, Monitor(t)} : proc'[q] = proc[q]
        /\ started'[t] = 1 /\ \A u \in Turns \ {t} : started'[u] = started[u]
    BY <1>0, <2>2, <2>3 DEF Finished
  <2>5. /\ reply' \in [Turns -> Outcomes]
        /\ \A u \in Turns : p # Client(u) => reply'[u] = reply[u]
    <3>1. PICK u \in Turns : p = Client(u) \/ p = Monitor(u)
      BY ProcFacts
    <3>2. CASE p = Client(u)
      BY <2>3, <3>2, NameFacts DEF SideInv, AnswerInv, Outcomes
    <3>3. CASE p = Monitor(u)
      BY <2>3, <3>3, NameFacts DEF SideInv, AnswerInv
    <3> QED
      BY <3>1, <3>2, <3>3
  <2>6. \A u \in Turns : /\ Client(u) # Monitor(t)
                         /\ p # Client(u) => proc'[Client(u)] = proc[Client(u)]
                         /\ u # t /\ p # Monitor(u) => proc'[Monitor(u)] = proc[Monitor(u)]
    BY <1>0, <2>4, ProcFacts
  <2>7. AnswerInv'
    BY <2>3, <2>4, <2>5, <2>6 DEF SideInv, AnswerInv
  <2>8. AcceptedInv'
    BY <2>1, <2>3, <2>4, <2>6 DEF SideInv, AcceptedInv
  <2> QED
    BY <2>7, <2>8 DEF SideInv
<1>13. ASSUME NEW p \in Procs, SendFails(p) \/ StartFails(p)  PROVE SideInv'
  <2>1. /\ proc[p].pc \notin {"idle", "done"} /\ UNCHANGED <<row, started>>
        /\ GiveUp(p) \/ (proc[p].pc = "send" /\ Proceed(p, "rollback"))
    BY <1>13 DEF SendFails, StartFails, Refused, At
  <2> QED
    BY <2>1, <1>g, GiveUpSide DEF Proceed, Pcs
<1>14. ASSUME NEW p \in Procs, RollbackSave(p) \/ RollbackReport(p) \/ RollbackClear(p)
       PROVE  SideInv'
  BY <1>14, <1>g DEF RollbackSave, RollbackReport, RollbackClear, At, Pcs
<1>h. ASSUME NEW t \in Turns, HangUp(t)  PROVE SideInv'
  BY <1>0, <1>h, <1>g DEF HangUp, Leave, Pcs
<1>15. ASSUME NEW p \in Procs, RollbackDrain(p)  PROVE SideInv'
  BY <1>15, GiveUpSide DEF RollbackDrain, At
<1>16. ASSUME NEW t \in Turns,
              \/ Receive(t) \/ (\E s \in {"Completed", "Failed"} : ChannelClosed(t, s))
              \/ ReadFlag(t) \/ EmitCompleted(t) \/ ClearActive(t) \/ UnloadReturns(t)
              \/ FinishDrain(t)
       PROVE  SideInv'
  <2>1. /\ proc[Monitor(t)].pc \notin {"idle", "admit", "done"}
        /\ UNCHANGED <<row, started, reply>>
        /\ \E l \in Pcs \ {"idle", "admit", "emit"} : Goto(Monitor(t), l)
    BY <1>16 DEF Receive, ChannelClosed, ReadFlag, EmitCompleted, ClearActive, UnloadReturns,
                 FinishDrain, At, Pcs
  <2> QED
    BY <1>0, <2>1, <1>g
<1>17. ASSUME NEW t \in Turns, SaveFinal(t)  PROVE SideInv'
  <2>1. /\ proc[Monitor(t)].pc = "final" /\ Goto(Monitor(t), "emit")
        /\ UNCHANGED <<row, started, reply>> /\ turn'[t] = stat[t]
    BY <1>0, <1>17 DEF SaveFinal, At
  <2>2. \A u \in Turns : Monitor(t) = Monitor(u) => turn'[u] \in Ended
    BY <1>0, <2>1, ProcFacts
  <2> QED
    BY <1>0, <2>1, <2>2, GotoSide DEF Pcs
<1>18. ASSUME NEW t \in Turns, UnloadAfterTurn(t)  PROVE SideInv'
  <2>1. proc[Monitor(t)].pc = "unload" /\ UNCHANGED <<row, started, reply>>
    BY <1>18 DEF UnloadAfterTurn, At
  <2>2. CASE Goto(Monitor(t), "drain")
    BY <1>0, <2>1, <2>2, <1>g DEF Pcs
  <2>3. CASE proc' = [proc EXCEPT ![Monitor(t)].pc = "shutdown", ![Monitor(t)].h = loaded]
    <3>1. /\ proc'[Monitor(t)].pc = "shutdown"
          /\ \A q \in Procs \ {Monitor(t)} : proc'[q] = proc[q]
      BY <1>0, <2>3 DEF Locals
    <3>2. reply' \in [Turns -> Outcomes] /\ \A u \in Turns : Monitor(t) # Client(u)
      BY <2>1, ProcFacts DEF SideInv, AnswerInv
    <3> QED
      BY <1>0, <2>1, <3>1, <3>2, MoveSide
  <2> QED
    BY <1>18, <2>2, <2>3 DEF UnloadAfterTurn
<1>19. ASSUME NEW t \in Turns, NextPending(t)  PROVE SideInv'
  <2>1. proc[Monitor(t)].pc = "next" /\ UNCHANGED <<row, started, reply>>
    BY <1>19 DEF NextPending, At
  <2>2. CASE Goto(Monitor(t), "done")
    BY <1>0, <2>1, <2>2, <1>g DEF Pcs
  <2>3. ASSUME NEW c, proc' = [proc EXCEPT ![Monitor(t)] = [pc |-> "load", adm |-> c, h |-> 0]]
        PROVE  SideInv'
    <3>1. /\ proc'[Monitor(t)].pc = "load"
          /\ \A q \in Procs \ {Monitor(t)} : proc'[q] = proc[q]
      BY <1>0, <2>3
    <3>2. reply' \in [Turns -> Outcomes] /\ \A u \in Turns : Monitor(t) # Client(u)
      BY <2>1, ProcFacts DEF SideInv, AnswerInv
    <3> QED
      BY <1>0, <2>1, <3>1, <3>2, MoveSide
  <2> QED
    BY <1>19, <2>2, <2>3 DEF NextPending
<1>20. ASSUME NEW t \in Turns, MonitorFails(t)  PROVE SideInv'
  BY <1>0, <1>20, <1>g DEF MonitorFails, Pcs
<1>21. CASE \/ (\E t \in Turns : InterruptTurn(t)) \/ RaiseBoundary \/ FlagTurn
            \/ (\E e \in Engines : EngineStep(e)) \/ Unload \/ DeferRefresh \/ Restart
  BY <1>21, QuietSide DEF InterruptTurn, RaiseBoundary, FlagTurn, EngineStep, SendShutdown,
                          EngineTake, EngineComplete, Unload, DeferRefresh, Restart
<1>22. CASE Crash
  <2>1. /\ UNCHANGED <<row, turn, started, reply>>
        /\ \A p \in Procs : proc'[p] = IF proc[p].pc = "idle" THEN Resting ELSE Finished
    BY <1>22 DEF Crash
  <2>2. \A p \in Procs : /\ proc'[p].adm = NoTurn /\ proc'[p].pc \in {"idle", "done"}
                         /\ proc'[p].pc = "idle" <=> proc[p].pc = "idle"
    BY <2>1 DEF Resting, Finished
  <2> QED
    BY <1>0, <2>1, <2>2 DEF SideInv, AnswerInv, AcceptedInv
<1> QED
  BY <1>1, <1>2, <1>3, <1>4, <1>5, <1>6, <1>7, <1>8, <1>9, <1>10, <1>11, <1>12,
     <1>13, <1>14, <1>15, <1>16, <1>17, <1>18, <1>19, <1>20, <1>21, <1>22, <1>h
     DEF Next, ClientStep, StartStep, MonitorStep

-----------------------------------------------------------------------------
(* The refinement.  The inbox of TurnLife is the state of the rows; tasks,   *)
(* locks, engines and the coordinator are what it does not see.              *)

LEMMA LifeNames == Life!Turns = Turns /\ Life!Ended = Ended
  BY DEF Life!Turns, Life!Ended, Turns, Ended

LEMMA LifeStutter ==
    ASSUME UNCHANGED <<up, row, turn, started, ended, reply>>
    PROVE  UNCHANGED Life!vars
  BY DEF Life!vars

\* A request that is answered with anything but ok.
LEMMA LifeRefuse ==
    ASSUME IInv, SideInv, up, UNCHANGED <<up, row, turn, started, ended>>,
           NEW t \in Turns, proc[Client(t)].pc \notin {"idle", "done"},
           NEW o \in {"busy", "queued", "suppressed", "error"},
           proc[Client(t)].pc = "admit" => o = "error",
           t \in Compactions => o \in {"busy", "error"},
           reply' = [reply EXCEPT ![t] = o]
    PROVE  Life!Next
<1>1. reply[t] = "none" /\ (o # "error" /\ t \in Calls => row[t].st # "none")
  BY DEF SideInv, AnswerInv
<1>2. Life!Refuse(t, o)
  BY <1>1 DEF Life!Refuse, Turns
<1> QED
  BY <1>2, LifeNames DEF Life!Next

\* A task that gives up: its own request is refused, or nobody hears of it.
LEMMA LifeGiveUp ==
    ASSUME IInv, SideInv, up, UNCHANGED <<up, row, turn, started, ended>>,
           NEW p \in Procs, GiveUp(p), proc[p].pc \notin {"idle", "done"}
    PROVE  [Life!Next]_(Life!vars)
<1>1. CASE \E t \in Turns : p = Client(t) /\ reply' = [reply EXCEPT ![t] = "error"]
  BY <1>1, LifeRefuse
<1>2. CASE reply' = reply
  BY <1>2, LifeStutter
<1> QED
  BY <1>1, <1>2, GiveUpAnswers

LEMMA LifeInitial == Init => Life!Init
<1> SUFFICES ASSUME Init  PROVE Life!Init
  OBVIOUS
<1>1. [c \in Calls |-> row[c].st] = [c \in Calls |-> "none"]
  BY DEF Init
<1> QED
  BY <1>1, LifeNames DEF Init, Life!Init

LEMMA LifeSteps ==
    ASSUME IInv, SideInv, [Next]_vars
    PROVE  [Life!Next]_(Life!vars)
<1>0. /\ proc \in [Procs -> Locals(spawned)] /\ spawned \in Nat
      /\ \A t \in Turns : Client(t) \in Procs /\ Monitor(t) \in Procs
      /\ Calls \subseteq Turns /\ Compactions \subseteq Turns
      /\ turn \in [Turns -> {"none", "InProgress"} \cup Ended] /\ stat \in [Turns -> Ended]
      /\ started \in [Turns -> Nat] /\ ended \in [Turns -> Nat]
      /\ RowType /\ TypeInv /\ LifeInv /\ \A t \in Turns : TurnLife(t)
  BY BoundsAssumption, ProcFacts DEF IInv, TypeInv, StateType, ProcInv, Turns, LifeInv
<1> USE DEF store, mem, engs, procs, hist
<1>1. CASE UNCHANGED vars
  BY <1>1, LifeStutter DEF vars
<1>2. ASSUME NEW c \in Calls, (\E d \in Deliveries : StartTurn(c, d)) \/ RequestRun(c)
      PROVE  [Life!Next]_(Life!vars)
  BY <1>2, LifeStutter DEF StartTurn, RequestRun
<1>3. ASSUME NEW c \in Calls, Admit(c)  PROVE [Life!Next]_(Life!vars)
  <2>1. up /\ proc[Client(c)].pc = "admit" /\ UNCHANGED <<up, turn, started, ended, reply>>
    BY <1>3 DEF Admit, At
  <2>2. row[c].st = "none"
    BY <1>0, <2>1 DEF TurnLife, AdmitInv
  <2>3. [b \in Calls |-> row'[b].st] = [[b \in Calls |-> row[b].st] EXCEPT ![c] = "pending"]
    BY <1>0, <1>3 DEF Admit, RowType
  <2>4. Life!Admit(c)
    BY <2>1, <2>2, <2>3 DEF Life!Admit
  <2> QED
    BY <2>4 DEF Life!Next
<1>4. ASSUME NEW c \in Calls, CheckActive(c) \/ RequestWake(c) \/ AnswerQueued(c)
      PROVE  [Life!Next]_(Life!vars)
  <2>1. /\ up /\ proc[Client(c)].pc \in {"check", "wake", "queued"}
        /\ UNCHANGED <<up, row, turn, started, ended>>
        /\ \/ reply' = reply
           \/ \E o \in {"busy", "queued", "suppressed"} : reply' = [reply EXCEPT ![c] = o]
    BY <1>4 DEF CheckActive, RequestWake, AnswerQueued, Answer, At
  <2>2. c \notin Compactions
    BY TurnsAssumption
  <2> QED
    BY <1>0, <2>1, <2>2, LifeStutter, LifeRefuse
<1>5. ASSUME NEW k \in Compactions, CompactThread(k)  PROVE [Life!Next]_(Life!vars)
  BY <1>5, LifeStutter DEF CompactThread
<1>6. ASSUME NEW k \in Compactions, CompactCheck(k)  PROVE [Life!Next]_(Life!vars)
  <2>1. /\ up /\ proc[Client(k)].pc = "idle?" /\ UNCHANGED <<up, row, turn, started, ended>>
        /\ reply' = reply \/ reply' = [reply EXCEPT ![k] = "busy"]
    BY <1>6 DEF CompactCheck, Answer, At
  <2> QED
    BY <1>0, <2>1, LifeStutter, LifeRefuse
<1>7. ASSUME NEW p \in Procs, EnsureLoaded(p) \/ InsertEngine(p)  PROVE [Life!Next]_(Life!vars)
  BY <1>7, LifeStutter DEF EnsureLoaded, InsertEngine
<1>8. ASSUME NEW p \in Procs, Promote(p)  PROVE [Life!Next]_(Life!vars)
  <2>1. up /\ proc[p].pc = "promote" /\ UNCHANGED <<up, turn, started, ended>>
    BY <1>8 DEF Promote, At
  <2>2. CASE GiveUp(p) /\ row' = row
    BY <2>1, <2>2, LifeGiveUp
  <2>3. CASE row[proc[p].adm].st = "pending"
    <3>1. PICK c \in Calls : c = proc[p].adm
      BY <1>0, <2>1 DEF TypeInv, ProcInv, PcInv
    <3>2. row' = [row EXCEPT ![c].st = "promoted"] /\ reply' = reply
      BY <1>8, <2>3, <3>1 DEF Promote, PromoteRow, Proceed
    <3>3. [b \in Calls |-> row'[b].st] = [[b \in Calls |-> row[b].st] EXCEPT ![c] = "promoted"]
      BY <1>0, <3>2 DEF RowType
    <3>4. Life!Promote(c)
      BY <2>1, <2>3, <3>1, <3>2, <3>3 DEF Life!Promote
    <3> QED
      BY <3>4 DEF Life!Next
  <2> QED
    BY <1>8, <2>2, <2>3 DEF Promote, PromoteRow
<1>9. ASSUME NEW p \in Procs, SaveTurn(p)  PROVE [Life!Next]_(Life!vars)
  <2>1. up /\ proc[p].pc = "save" /\ UNCHANGED <<up, row, started, ended, reply>>
    BY <1>9 DEF SaveTurn, At
  <2>2. PICK t \in Turns : proc[p].adm = t /\ turn[t] = "none" /\ ~Unborn(t)
    BY <1>0, <2>1, StarterFacts DEF StarterPcs, StatusAt
  <2>3. turn' = [turn EXCEPT ![t] = "InProgress"]
    BY <1>9, <2>2 DEF SaveTurn
  <2>4. t \in Calls => row[t].st = "promoted"
    BY <2>2 DEF Unborn
  <2>5. Life!Begin(t)
    BY <2>1, <2>2, <2>3, <2>4 DEF Life!Begin
  <2> QED
    BY <2>5, LifeNames DEF Life!Next
<1>10. ASSUME NEW p \in Procs, Activate(p)  PROVE [Life!Next]_(Life!vars)
  <2>1. /\ up /\ proc[p].pc = "activate" /\ UNCHANGED <<up, row, turn, started, ended>>
        /\ GiveUp(p) \/ reply' = reply
    BY <1>10 DEF Activate, Proceed, At
  <2> QED
    BY <2>1, LifeGiveUp, LifeStutter
<1>11. ASSUME NEW p \in Procs, SendOp(p)  PROVE [Life!Next]_(Life!vars)
  <2>1. up /\ proc[p].pc = "send" /\ UNCHANGED <<up, row, turn, ended>>
    BY <1>11 DEF SendOp, At
  <2>2. PICK t \in Turns : proc[p].adm = t /\ started[t] = 0 /\ turn[t] = "InProgress"
    BY <1>0, <2>1, StarterFacts DEF StarterPcs, StatusAt
  <2>3. started' = [started EXCEPT ![t] = 1]
    BY <1>0, <1>11, <2>2 DEF SendOp
  <2>4. \/ reply' = reply
        \/ reply[t] = "none" /\ reply' = [reply EXCEPT ![t] = "ok"]
    <3>1. PICK u \in Turns : p = Client(u) \/ p = Monitor(u)
      BY ProcFacts
    <3>2. CASE p = Client(u)
      <4>1. u = t /\ reply[t] = "none"
        BY <2>1, <2>2, <3>2, TurnsAssumption DEF SideInv, AnswerInv
      <4> QED
        BY <1>11, <3>2, <4>1, NameFacts DEF SendOp
    <3>3. CASE p = Monitor(u)
      BY <1>11, <3>3, NameFacts DEF SendOp
    <3> QED
      BY <3>1, <3>2, <3>3
  <2>5. Life!Accept(t)
    BY <2>1, <2>2, <2>3, <2>4 DEF Life!Accept
  <2> QED
    BY <2>5, LifeNames DEF Life!Next
<1>12. ASSUME NEW p \in Procs, SendFails(p) \/ StartFails(p)  PROVE [Life!Next]_(Life!vars)
  <2>1. /\ up /\ proc[p].pc \notin {"idle", "done"}
        /\ UNCHANGED <<up, row, turn, started, ended>> /\ (GiveUp(p) \/ reply' = reply)
    BY <1>12 DEF SendFails, StartFails, Refused, Proceed, At
  <2> QED
    BY <2>1, LifeGiveUp, LifeStutter
<1>13. ASSUME NEW p \in Procs, RollbackSave(p)  PROVE [Life!Next]_(Life!vars)
  <2>1. up /\ proc[p].pc = "rollback" /\ UNCHANGED <<up, row, started, ended, reply>>
    BY <1>13 DEF RollbackSave, At
  <2>2. PICK t \in Turns : proc[p].adm = t /\ turn[t] = "InProgress" /\ started[t] = 0
    BY <1>0, <2>1, StarterFacts DEF StarterPcs, StatusAt
  <2>3. turn' = [turn EXCEPT ![t] = "Failed"]
    BY <1>0, <1>13, <2>2 DEF RollbackSave
  <2>4. Life!Fail(t)
    BY <2>1, <2>2, <2>3 DEF Life!Fail
  <2> QED
    BY <2>4, LifeNames DEF Life!Next
<1>r. ASSUME NEW p \in Procs, RollbackReport(p)  PROVE [Life!Next]_(Life!vars)
  <2>1. up /\ proc[p].pc = "report" /\ UNCHANGED <<up, row, turn, started, reply>>
    BY <1>r DEF RollbackReport, At
  <2>2. PICK t \in Turns : proc[p].adm = t /\ turn[t] = "Failed" /\ ended[t] = 0
    BY <1>0, <2>1, StarterFacts DEF StarterPcs, StatusAt
  <2>3. ended' = [ended EXCEPT ![t] = 1]
    BY <1>0, <1>r, <2>2 DEF RollbackReport
  <2>4. Life!Announce(t)
    BY <2>1, <2>2, <2>3, LifeNames DEF Life!Announce, Ended
  <2> QED
    BY <2>4, LifeNames DEF Life!Next
<1>h. ASSUME NEW t \in Turns, HangUp(t)  PROVE [Life!Next]_(Life!vars)
  BY <1>h, LifeStutter DEF HangUp
<1>14. ASSUME NEW p \in Procs, RollbackClear(p)  PROVE [Life!Next]_(Life!vars)
  BY <1>14, LifeStutter DEF RollbackClear
<1>15. ASSUME NEW p \in Procs, RollbackDrain(p)  PROVE [Life!Next]_(Life!vars)
  BY <1>15, LifeGiveUp DEF RollbackDrain, At
<1>16. ASSUME NEW t \in Turns,
              \/ Receive(t) \/ (\E s \in {"Completed", "Failed"} : ChannelClosed(t, s))
              \/ ReadFlag(t) \/ ClearActive(t) \/ UnloadAfterTurn(t) \/ UnloadReturns(t)
              \/ FinishDrain(t) \/ NextPending(t) \/ MonitorFails(t) \/ InterruptTurn(t)
       PROVE  [Life!Next]_(Life!vars)
  BY <1>16, LifeStutter DEF Receive, ChannelClosed, ReadFlag, ClearActive, UnloadAfterTurn,
       UnloadReturns, FinishDrain, NextPending, MonitorFails, InterruptTurn
<1>17. ASSUME NEW t \in Turns, SaveFinal(t)  PROVE [Life!Next]_(Life!vars)
  <2>1. /\ up /\ proc[Monitor(t)].pc = "final" /\ turn' = [turn EXCEPT ![t] = stat[t]]
        /\ UNCHANGED <<up, row, started, ended, reply>>
    BY <1>17 DEF SaveFinal, At
  <2>2. turn[t] = "InProgress" /\ started[t] = 1 /\ stat[t] \in Ended
    BY <1>0, <2>1 DEF TurnLife, WatcherInv, SideInv, AcceptedInv
  <2>3. Life!End(t, stat[t])
    BY <2>1, <2>2 DEF Life!End
  <2> QED
    BY <2>2, <2>3, LifeNames DEF Life!Next
<1>18. ASSUME NEW t \in Turns, EmitCompleted(t)  PROVE [Life!Next]_(Life!vars)
  <2>1. /\ up /\ proc[Monitor(t)].pc = "emit" /\ UNCHANGED <<up, row, turn, started, reply>>
    BY <1>18 DEF EmitCompleted, At
  <2>2. turn[t] \in Ended /\ started[t] = 1 /\ ended[t] = 0
    BY <1>0, <2>1 DEF TurnLife, WatcherInv, SideInv, AcceptedInv
  <2>3. ended' = [ended EXCEPT ![t] = 1]
    BY <1>0, <1>18, <2>2 DEF EmitCompleted
  <2>4. Life!Announce(t)
    BY <2>1, <2>2, <2>3, LifeNames DEF Life!Announce
  <2> QED
    BY <2>4, LifeNames DEF Life!Next
<1>19. CASE RaiseBoundary \/ FlagTurn \/ Unload \/ DeferRefresh \/ \E e \in Engines : EngineStep(e)
  BY <1>19, LifeStutter DEF RaiseBoundary, FlagTurn, Unload, DeferRefresh, EngineStep,
       SendShutdown, EngineTake, EngineComplete
<1>20. CASE Crash
  BY <1>20 DEF Crash, Life!Next, Life!Crash
<1>21. CASE Restart
  BY <1>21, LifeNames DEF Restart, Recover, Life!Next, Life!Restart
<1> QED
  BY <1>1, <1>2, <1>3, <1>4, <1>5, <1>6, <1>7, <1>8, <1>9, <1>10, <1>11, <1>12,
     <1>13, <1>14, <1>15, <1>16, <1>17, <1>18, <1>19, <1>20, <1>21, <1>h, <1>r
     DEF Next, ClientStep, StartStep, MonitorStep

\* The tasks that start, monitor, roll back and drain turns, with the engines and
\* restarts under them, implement the life of a turn: at most one record, one op
\* and one announced end for each, in this order, and at most one answer for each
\* request, ok only if it sent the op.  Steps may fail, clients hang up and the
\* process crash between any two of them.
THEOREM TurnRefinement == Spec => ImplementsTurnLife
<1>1. IInv /\ SideInv /\ [Next]_vars => SideInv'
  BY SideStep
<1>2. IInv /\ SideInv /\ [Next]_vars => [Life!Next]_(Life!vars)
  BY LifeSteps
<1> QED
  BY IInvInit, IInvStep, SideInit, LifeInitial, <1>1, <1>2, PTL
     DEF Spec, ImplementsTurnLife, Life!Spec

-----------------------------------------------------------------------------
(* What follows from the life of a turn, whatever implements it.             *)

LEMMA ConclusionsStep ==
    ASSUME IInv, SideInv, Life!Conclusions, [Life!Next]_(Life!vars)
    PROVE  Life!Conclusions'
<1>0. /\ turn \in [Turns -> {"none", "InProgress"} \cup Ended] /\ RowType
      /\ started \in [Turns -> Nat] /\ ended \in [Turns -> Nat] /\ reply \in [Turns -> Outcomes]
  BY DEF IInv, TypeInv, StateType, SideInv, AnswerInv
<1>b. \A c \in Calls : [d \in Calls |-> row[d].st][c] = row[c].st
  OBVIOUS
<1>n. /\ Ended = {"Completed", "Failed", "Interrupted"} /\ Life!Turns = Turns
      /\ Life!Ended = Ended /\ Calls \subseteq Turns
  BY LifeNames DEF Ended, Turns
<1>c. \A t \in Turns :
        /\ started[t] = 1 => turn[t] # "none"
        /\ turn[t] # "none" /\ t \in Calls => row[t].st = "promoted"
        /\ reply[t] = "ok" => started[t] = 1
        /\ ended[t] = 1 => turn[t] \in Ended
        /\ started[t] = 0 => turn[t] # "Completed"
  BY <1>b, <1>n DEF Life!Conclusions
<1> DEFINE Good(t) ==
        /\ started'[t] = 1 => turn'[t] # "none"
        /\ turn'[t] # "none" /\ t \in Calls => row'[t].st = "promoted"
        /\ reply'[t] = "ok" => started'[t] = 1
        /\ ended'[t] = 1 => turn'[t] \in Ended
        /\ started'[t] = 0 => turn'[t] # "Completed"
<1>g. ASSUME \A t \in Turns : Good(t)  PROVE Life!Conclusions'
  <2>1. \A c \in Calls : [d \in Calls |-> row'[d].st][c] = row'[c].st
    OBVIOUS
  <2> QED
    BY <1>g, <1>n, <2>1 DEF Life!Conclusions
\* A row that is promoted stays so while the inbox does not change.
<1>s. ASSUME [d \in Calls |-> row'[d].st] = [d \in Calls |-> row[d].st]
      PROVE  \A c \in Calls : row'[c].st = row[c].st
  <2>1. \A c \in Calls : [d \in Calls |-> row'[d].st][c] = [d \in Calls |-> row[d].st][c]
    BY <1>s
  <2> QED
    BY <2>1
<1>1. CASE UNCHANGED Life!vars
  BY <1>1, <1>c, <1>s, <1>g DEF Life!vars
<1>2. ASSUME NEW c \in Calls, Life!Admit(c) \/ Life!Promote(c)  PROVE Life!Conclusions'
  <2>1. PICK s \in {"pending", "promoted"} :
          /\ [d \in Calls |-> row'[d].st] = [[d \in Calls |-> row[d].st] EXCEPT ![c] = s]
          /\ row[c].st = "none" \/ s = "promoted"
    BY <1>2, <1>b DEF Life!Admit, Life!Promote
  <2>2. \A d \in Calls : [b \in Calls |-> row'[b].st][d] =
                           IF d = c THEN s ELSE [b \in Calls |-> row[b].st][d]
    BY <2>1
  <2>3. \A d \in Calls : row'[d].st = IF d = c THEN s ELSE row[d].st
    BY <2>2
  <2>4. UNCHANGED <<turn, started, ended, reply>>
    BY <1>2 DEF Life!Admit, Life!Promote
  <2> QED
    BY <1>c, <2>1, <2>3, <2>4, <1>g
<1>3. ASSUME NEW t \in Turns, NEW o \in {"busy", "queued", "suppressed", "error"},
             Life!Refuse(t, o)
      PROVE  Life!Conclusions'
  BY <1>0, <1>3, <1>c, <1>s, <1>g DEF Life!Refuse
<1>4. ASSUME NEW t \in Turns, Life!Begin(t)  PROVE Life!Conclusions'
  <2>1. t \in Calls => row[t].st = "promoted"
    BY <1>4, <1>b DEF Life!Begin
  <2>2. /\ turn[t] = "none" /\ turn' = [turn EXCEPT ![t] = "InProgress"]
        /\ UNCHANGED <<started, ended, reply>> /\ \A c \in Calls : row'[c].st = row[c].st
    BY <1>4, <1>s DEF Life!Begin
  <2>3. \A u \in Turns : Good(u)
    BY <1>0, <1>c, <1>n, <2>1, <2>2
  <2> QED
    BY <2>3, <1>g
<1>5. ASSUME NEW t \in Turns, Life!Accept(t)  PROVE Life!Conclusions'
  <2>1. /\ turn[t] = "InProgress" /\ started' = [started EXCEPT ![t] = 1]
        /\ reply' = reply \/ reply' = [reply EXCEPT ![t] = "ok"]
        /\ UNCHANGED <<turn, ended>> /\ \A c \in Calls : row'[c].st = row[c].st
    BY <1>5, <1>s DEF Life!Accept
  <2>2. \A u \in Turns : Good(u)
    BY <1>0, <1>c, <2>1
  <2> QED
    BY <2>2, <1>g
<1>6. ASSUME NEW t \in Turns, Life!Fail(t)  PROVE Life!Conclusions'
  <2>1. /\ turn[t] = "InProgress" /\ turn' = [turn EXCEPT ![t] = "Failed"]
        /\ UNCHANGED <<started, ended, reply>>
        /\ \A c \in Calls : row'[c].st = row[c].st
    BY <1>6, <1>s DEF Life!Fail
  <2>2. \A u \in Turns : Good(u)
    BY <1>0, <1>c, <1>n, <2>1
  <2> QED
    BY <2>2, <1>g
<1>7. ASSUME NEW t \in Turns, NEW s \in Ended, Life!End(t, s)  PROVE Life!Conclusions'
  <2>1. /\ turn[t] = "InProgress" /\ started[t] = 1 /\ turn' = [turn EXCEPT ![t] = s]
        /\ UNCHANGED <<started, ended, reply>> /\ \A c \in Calls : row'[c].st = row[c].st
    BY <1>7, <1>s DEF Life!End
  <2>2. \A u \in Turns : Good(u)
    BY <1>0, <1>c, <1>n, <2>1
  <2> QED
    BY <2>2, <1>g
<1>8. ASSUME NEW t \in Turns, Life!Announce(t)  PROVE Life!Conclusions'
  <2>1. /\ turn[t] \in Ended /\ ended' = [ended EXCEPT ![t] = 1]
        /\ UNCHANGED <<turn, started, reply>> /\ \A c \in Calls : row'[c].st = row[c].st
    BY <1>8, <1>n, <1>s DEF Life!Announce
  <2>2. \A u \in Turns : Good(u)
    BY <1>0, <1>c, <2>1
  <2> QED
    BY <2>2, <1>g
<1>9. CASE Life!Crash
  BY <1>9, <1>c, <1>s, <1>g DEF Life!Crash
<1>10. CASE Life!Restart
  <2>1. /\ turn' = [t \in Turns |-> IF turn[t] = "InProgress" THEN "Interrupted" ELSE turn[t]]
        /\ UNCHANGED <<started, ended, reply>> /\ \A c \in Calls : row'[c].st = row[c].st
    BY <1>10, <1>n, <1>s DEF Life!Restart
  <2>2. \A u \in Turns : Good(u)
    BY <1>0, <1>c, <1>n, <2>1
  <2> QED
    BY <2>2, <1>g
<1> QED
  BY <1>1, <1>2, <1>3, <1>4, <1>5, <1>6, <1>7, <1>8, <1>9, <1>10, <1>n DEF Life!Next

\* What a client sees at any moment: a turn that start_turn answered ok was accepted
\* by an engine, its record exists and its prompt is promoted; turn.completed is
\* only emitted for a record that has its end; a turn no engine accepted is never
\* shown as Completed.
THEOREM ClientConclusions == Spec => []Life!Conclusions
<1>1. Init => Life!Conclusions
  BY LifeNames DEF Init, Life!Conclusions
<1>2. IInv /\ SideInv /\ Life!Conclusions /\ [Next]_vars => Life!Conclusions'
  BY LifeSteps, ConclusionsStep
<1>3. IInv /\ SideInv /\ [Next]_vars => SideInv'
  BY SideStep
<1> QED
  BY IInvInit, IInvStep, SideInit, <1>1, <1>2, <1>3, PTL DEF Spec

=============================================================================
