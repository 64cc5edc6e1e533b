-------------------------- MODULE TurnRecordProofs --------------------------
(***************************************************************************)
(* Proofs about TurnRecord, for any sets of steers and items and any       *)
(* number of crashes.  The record is written from snapshots that other     *)
(* writers may have made obsolete, so both invariants have to hold of      *)
(* every snapshot that may still be written, not only of the record.       *)
(***************************************************************************)
EXTENDS TurnRecord, TLAPS, FiniteSetTheorems

\* The count and the items of a record agree.
Counted(r) == r.steer_count = Cardinality(r.items \cap Steers)

\* Steers that have not been added to any copy of the record yet.
Waiting == {s \in Steers : steer[s].pc \in {"idle", "load"}}

Copies == {rec, mon.snap} \cup {steer[s].snap : s \in Steers}

\* The shapes, with the item the monitor is attaching.
TypeInv == TypeOK /\ (mon.pc \in {"load", "attach"} => mon.item \in Items)

\* Every copy is counted and names no steer that still has to load the record.
CountInv ==
    /\ TypeInv
    /\ \A r \in Copies : Counted(r) /\ r.items \cap Waiting = {}

\* Every copy names only items that have rows; an item being attached has one.
RowInv ==
    /\ TypeInv
    /\ \A r \in Copies : r.items \cap Items \subseteq rows
    /\ mon.pc \in {"load", "attach"} => mon.item \in rows

\* Adding one more steer to a set of ids adds one to the number of its steers.
LEMMA OneMoreSteer ==
    ASSUME NEW I \in SUBSET Ids, NEW s \in Steers, s \notin I
    PROVE  Cardinality((I \cup {s}) \cap Steers) = Cardinality(I \cap Steers) + 1
<1> DEFINE J == I \cap Steers
<1>1. IsFiniteSet(J)
  BY NamesAssumption, FS_Subset
<1>2. s \notin J /\ (I \cup {s}) \cap Steers = J \cup {s}
  OBVIOUS
<1>3. Cardinality(J \cup {s}) = Cardinality(J) + 1
  <2> HIDE DEF J
  <2> QED BY <1>1, <1>2, FS_AddElement
<1> QED BY <1>2, <1>3

\* Adding an item of the monitor does not change the steers of a record.
LEMMA ItemIsNoSteer ==
    ASSUME NEW I \in SUBSET Ids, NEW i \in Items
    PROVE  (I \cup {i}) \cap Steers = I \cap Steers
BY NamesAssumption

-----------------------------------------------------------------------------
(* Shapes. *)

\* What the operators that change a record do to its fields.
LEMMA ChangedRecords ==
    ASSUME NEW r \in Records
    PROVE  /\ \A s \in Steers :
                Steered(r, s) = [status |-> r.status, items |-> r.items \cup {s},
                                 steer_count |-> r.steer_count + 1]
           /\ Recovered(r) = [status |-> "Interrupted", items |-> r.items,
                              steer_count |-> r.steer_count]
           /\ \A st \in Ended :
                [r EXCEPT !.status = st] = [status |-> st, items |-> r.items,
                                            steer_count |-> r.steer_count]
           /\ \A i \in Items :
                [r EXCEPT !.items = @ \cup {i}] = [status |-> r.status, items |-> r.items \cup {i},
                                                  steer_count |-> r.steer_count]
<1>1. \A s \in Steers :
        Steered(r, s) = [status |-> r.status, items |-> r.items \cup {s},
                         steer_count |-> r.steer_count + 1]
  <2> TAKE s \in Steers
  <2>1. r = [status |-> r.status, items |-> r.items, steer_count |-> r.steer_count]
    BY DEF Records
  <2>2. Steered(r, s).status = r.status /\ Steered(r, s).items = r.items \cup {s}
    BY <2>1 DEF Steered
  <2>3. Steered(r, s).steer_count = r.steer_count + 1
    BY <2>1 DEF Steered
  <2>4. DOMAIN Steered(r, s) = {"status", "items", "steer_count"}
    BY <2>1 DEF Steered
  <2>5. Steered(r, s) = [f \in {"status", "items", "steer_count"} |-> Steered(r, s)[f]]
    BY <2>1, <2>4 DEF Steered
  <2> QED BY <2>2, <2>3, <2>5
<1>2. Recovered(r) = [status |-> "Interrupted", items |-> r.items,
                      steer_count |-> r.steer_count]
  BY DEF Records, Recovered
<1>3. \A st \in Ended :
        [r EXCEPT !.status = st] = [status |-> st, items |-> r.items,
                                    steer_count |-> r.steer_count]
  BY DEF Records
<1>4. \A i \in Items :
        [r EXCEPT !.items = @ \cup {i}] = [status |-> r.status, items |-> r.items \cup {i},
                                          steer_count |-> r.steer_count]
  BY DEF Records
<1> QED BY <1>1, <1>2, <1>3, <1>4

LEMMA TypeInit == Init => TypeInv
BY CrashesAssumption DEF Init, TypeInv, TypeOK, Fresh, Records, Ended, Ids

LEMMA TypeStep == TypeInv /\ [Next]_vars => TypeInv'
<1> SUFFICES ASSUME TypeInv, [Next]_vars PROVE TypeInv'
  OBVIOUS
<1> USE DEF TypeInv, TypeOK
<1>1. CASE \E i \in Items : SaveItem(i)
  BY <1>1 DEF SaveItem, MonitorAt, Ids
<1>2. CASE LoadToAttach
  BY <1>2 DEF LoadToAttach, MonitorAt
<1>3. CASE Attach
  <2>1. rec' = [status |-> mon.snap.status, items |-> mon.snap.items \cup {mon.item},
                steer_count |-> mon.snap.steer_count]
    BY <1>3, ChangedRecords DEF Attach, MonitorAt
  <2>2. rec' \in Records
    BY <1>3, <2>1 DEF Attach, MonitorAt, Records, Ids
  <2> QED BY <1>3, <2>2 DEF Attach, MonitorAt, MonitorTo
<1>4. CASE LoadToEnd
  BY <1>4 DEF LoadToEnd, MonitorAt
<1>5. CASE \E st \in Ended : SaveEnd(st)
  <2>1. PICK st \in Ended : SaveEnd(st)
    BY <1>5
  <2>2. rec' \in Records
    <3>1. rec' = [status |-> st, items |-> mon.snap.items, steer_count |-> mon.snap.steer_count]
      BY <2>1, ChangedRecords DEF SaveEnd
    <3> QED BY <3>1 DEF Records
  <2> QED BY <2>1, <2>2 DEF SaveEnd, MonitorAt, MonitorTo
<1>6. CASE ClearActive
  BY <1>6 DEF ClearActive, MonitorAt, MonitorTo
<1>7. CASE MonitorFails
  BY <1>7 DEF MonitorFails, MonitorTo
<1>8. CASE \E s \in Steers : SteerStep(s)
  <2>1. PICK s \in Steers : SteerStep(s)
    BY <1>8
  <2>2. CASE CheckActive(s)
    BY <2>2 DEF CheckActive, SteerTo
  <2>3. CASE LoadToSteer(s)
    <3>1. Steered(rec, s) \in Records
      BY ChangedRecords DEF Records, Ids
    <3> QED BY <2>3, <3>1 DEF LoadToSteer
  <2>4. CASE SaveSteered(s)
    BY <2>4 DEF SaveSteered, SteerTo
  <2>5. CASE SaveSteerItem(s)
    BY <2>5 DEF SaveSteerItem, SteerTo, Ids
  <2>6. CASE SteerFails(s)
    BY <2>6 DEF SteerFails, SteerTo
  <2> QED BY <2>1, <2>2, <2>3, <2>4, <2>5, <2>6 DEF SteerStep
<1>9. CASE Crash
  <2>1. \A s \in Steers : [steer[s] EXCEPT !.pc = "done"] \in
                            [pc : {"idle", "load", "save", "row", "done"}, snap : Records]
    OBVIOUS
  <2>2. steer' \in [Steers -> [pc : {"idle", "load", "save", "row", "done"}, snap : Records]]
    BY <1>9, <2>1 DEF Crash
  <2>3. crashes' \in 0..MaxCrashes
    BY <1>9, CrashesAssumption DEF Crash
  <2>4. mon' \in [pc : {"run", "load", "attach", "end", "emit", "clear", "done"},
                  snap : Records, item : Items \cup {NoItem}] /\ mon'.pc = "done"
    BY <1>9 DEF Crash
  <2> QED BY <1>9, <2>2, <2>3, <2>4 DEF Crash
<1>10. CASE Restart
  <2>1. Recovered(rec) = [status |-> "Interrupted", items |-> rec.items,
                          steer_count |-> rec.steer_count]
    BY ChangedRecords
  <2>2. Recovered(rec) \in Records
    BY <2>1 DEF Records, Ended
  <2> QED BY <1>10, <2>2 DEF Restart
<1>11. CASE UNCHANGED vars
  BY <1>11 DEF vars
<1> QED
  BY <1>1, <1>2, <1>3, <1>4, <1>5, <1>6, <1>7, <1>8, <1>9, <1>10, <1>11
     DEF Next, MonitorStep

\* The record and the snapshots keep their shapes, whoever writes them.
THEOREM Typing == Spec => []TypeOK
<1>1. TypeInv => TypeOK
  BY DEF TypeInv
<1> QED BY <1>1, TypeInit, TypeStep, PTL DEF Spec

-----------------------------------------------------------------------------
(* Which copies of the record a step makes. *)

\* A step either copies records that were there, adds a steer that was waiting,
\* adds an item that has been saved, or changes the status of a copy only.
CopyMade(q) ==
    \/ q \in Copies
    \/ \E r \in Copies, s \in Waiting \ Waiting' :
            q.items = r.items \cup {s} /\ q.steer_count = r.steer_count + 1
    \/ \E r \in Copies, i \in Items :
            /\ q.items = r.items \cup {i} /\ q.steer_count = r.steer_count
            /\ mon.pc = "attach" /\ i = mon.item
    \/ \E r \in Copies : q.items = r.items /\ q.steer_count = r.steer_count

LEMMA CopiesMade ==
    ASSUME TypeInv, [Next]_vars
    PROVE  (\A q \in Copies' : CopyMade(q)) /\ Waiting' \subseteq Waiting
<1> USE DEF TypeInv, TypeOK
<1>0. ASSUME steer' = steer
      PROVE  /\ Waiting' = Waiting
             /\ Copies' = {rec', mon'.snap} \cup {steer[s].snap : s \in Steers}
  BY <1>0 DEF Waiting, Copies
<1>1. CASE \E i \in Items : SaveItem(i)
  <2>1. rec' = rec /\ steer' = steer /\ mon'.snap = mon.snap
    BY <1>1 DEF SaveItem
  <2> QED BY <1>0, <2>1 DEF CopyMade, Copies
<1>2. CASE LoadToAttach
  <2>1. rec' = rec /\ steer' = steer /\ mon'.snap = rec
    BY <1>2 DEF LoadToAttach
  <2> QED BY <1>0, <2>1 DEF CopyMade, Copies
<1>3. CASE Attach
  <2>1. steer' = steer /\ mon'.snap = mon.snap /\ mon.pc = "attach" /\ mon.item \in Items
    BY <1>3 DEF Attach, MonitorTo, MonitorAt
  <2>2. rec'.items = mon.snap.items \cup {mon.item} /\ rec'.steer_count = mon.snap.steer_count
    BY <1>3, <2>1, ChangedRecords DEF Attach
  <2>3. CopyMade(rec')
    BY <2>1, <2>2 DEF CopyMade, Copies
  <2>4. \A q \in Copies : CopyMade(q)
    BY DEF CopyMade
  <2>5. \A q \in Copies' : q = rec' \/ q \in Copies
    BY <1>0, <2>1 DEF Copies
  <2> QED BY <1>0, <2>1, <2>3, <2>4, <2>5
<1>4. CASE LoadToEnd
  <2>1. rec' = rec /\ steer' = steer /\ mon'.snap = rec
    BY <1>4 DEF LoadToEnd
  <2> QED BY <1>0, <2>1 DEF CopyMade, Copies
<1>5. CASE \E st \in Ended : SaveEnd(st)
  <2>1. steer' = steer /\ mon'.snap = mon.snap
    BY <1>5 DEF SaveEnd, MonitorTo
  <2>2. rec'.items = mon.snap.items /\ rec'.steer_count = mon.snap.steer_count
    BY <1>5, ChangedRecords DEF SaveEnd
  <2>3. CopyMade(rec') /\ \A q \in Copies : CopyMade(q)
    BY <2>2 DEF CopyMade, Copies
  <2>4. \A q \in Copies' : q = rec' \/ q \in Copies
    BY <1>0, <2>1 DEF Copies
  <2> QED BY <1>0, <2>1, <2>3, <2>4
<1>6. CASE ClearActive \/ MonitorFails
  <2>1. rec' = rec /\ steer' = steer /\ mon'.snap = mon.snap
    BY <1>6 DEF ClearActive, MonitorFails, MonitorTo
  <2> QED BY <1>0, <2>1 DEF CopyMade, Copies
<1>7. CASE \E s \in Steers : SteerStep(s)
  <2>1. PICK s \in Steers : SteerStep(s)
    BY <1>7
  <2>2. CASE CheckActive(s) \/ SaveSteered(s) \/ SaveSteerItem(s) \/ SteerFails(s)
    <3>1. /\ \A u \in Steers : steer'[u].snap = steer[u].snap
          /\ rec' \in Copies /\ mon' = mon
      BY <2>2 DEF CheckActive, SaveSteered, SaveSteerItem, SteerFails, SteerTo, Copies
    <3>2. Waiting' \subseteq Waiting
      BY <2>2 DEF CheckActive, SaveSteered, SaveSteerItem, SteerFails, SteerTo, SteerAt, Waiting
    <3>3. Copies' \subseteq Copies
      BY <3>1 DEF Copies
    <3> QED BY <3>2, <3>3 DEF CopyMade
  <2>3. CASE LoadToSteer(s)
    <3>1. rec' = rec /\ mon' = mon
      BY <2>3 DEF LoadToSteer
    <3>2. \A u \in Steers : steer'[u] = IF u = s THEN [pc |-> "save", snap |-> Steered(rec, s)]
                                                ELSE steer[u]
      BY <2>3 DEF LoadToSteer
    <3>3. Waiting' \subseteq Waiting /\ s \in Waiting \ Waiting'
      BY <2>3, <3>2 DEF Waiting, LoadToSteer, SteerAt
    <3>4. /\ Steered(rec, s).items = rec.items \cup {s}
          /\ Steered(rec, s).steer_count = rec.steer_count + 1
      BY ChangedRecords
    <3>5. CopyMade(Steered(rec, s)) /\ \A q \in Copies : CopyMade(q)
      BY <3>3, <3>4 DEF CopyMade, Copies
    <3>6. \A q \in Copies' : q = Steered(rec, s) \/ q \in Copies
      BY <3>1, <3>2 DEF Copies
    <3> QED BY <3>3, <3>5, <3>6
  <2> QED BY <2>1, <2>2, <2>3 DEF SteerStep
<1>8. CASE Crash
  <2>1. rec' = rec /\ mon'.snap = mon.snap
    BY <1>8 DEF Crash
  <2>2. \A u \in Steers : steer'[u].snap = steer[u].snap /\ steer'[u].pc = "done"
    BY <1>8 DEF Crash
  <2> QED BY <2>1, <2>2 DEF CopyMade, Copies, Waiting
<1>9. CASE Restart
  <2>1. steer' = steer /\ mon' = mon
    BY <1>9 DEF Restart
  <2>2. rec'.items = rec.items /\ rec'.steer_count = rec.steer_count
    BY <1>9, ChangedRecords DEF Restart
  <2>3. CopyMade(rec') /\ \A q \in Copies : CopyMade(q)
    BY <2>2 DEF CopyMade, Copies
  <2>4. \A q \in Copies' : q = rec' \/ q \in Copies
    BY <1>0, <2>1 DEF Copies
  <2> QED BY <1>0, <2>1, <2>3, <2>4
<1>10. CASE UNCHANGED vars
  BY <1>10 DEF vars, CopyMade, Copies, Waiting
<1> QED
  BY <1>1, <1>2, <1>3, <1>4, <1>5, <1>6, <1>7, <1>8, <1>9, <1>10 DEF Next, MonitorStep

LEMMA CopiesAreRecords == TypeInv => Copies \subseteq Records
BY DEF TypeInv, TypeOK, Copies

-----------------------------------------------------------------------------
(* The count of steers. *)

LEMMA CountStep == CountInv /\ [Next]_vars => CountInv'
<1> SUFFICES ASSUME CountInv, [Next]_vars PROVE CountInv'
  OBVIOUS
<1>1. TypeInv'
  BY TypeStep DEF CountInv
<1>2. (\A q \in Copies' : CopyMade(q)) /\ Waiting' \subseteq Waiting
  BY CopiesMade DEF CountInv
<1>3. \A r \in Copies : r \in Records /\ r.items \in SUBSET Ids /\ r.steer_count \in Nat
  BY CopiesAreRecords DEF CountInv, Records
<1>4. \A r \in Copies : Counted(r) /\ r.items \cap Waiting = {}
  BY DEF CountInv
<1>5. ASSUME NEW q \in Copies' PROVE Counted(q) /\ q.items \cap Waiting' = {}
  <2>1. CASE q \in Copies
    BY <1>2, <1>4, <2>1
  <2>2. ASSUME NEW r \in Copies, NEW s \in Waiting \ Waiting',
               q.items = r.items \cup {s}, q.steer_count = r.steer_count + 1
        PROVE  Counted(q) /\ q.items \cap Waiting' = {}
    <3>1. s \in Steers /\ s \notin r.items
      BY <1>4 DEF Waiting
    <3>2. Cardinality(q.items \cap Steers) = Cardinality(r.items \cap Steers) + 1
      BY <1>3, <2>2, <3>1, OneMoreSteer
    <3> QED BY <1>2, <1>4, <2>2, <3>2 DEF Counted
  <2>3. ASSUME NEW r \in Copies, NEW i \in Items,
               q.items = r.items \cup {i}, q.steer_count = r.steer_count
        PROVE  Counted(q) /\ q.items \cap Waiting' = {}
    <3>1. q.items \cap Steers = r.items \cap Steers
      BY <1>3, <2>3, ItemIsNoSteer
    <3>2. i \notin Waiting'
      BY NamesAssumption DEF Waiting
    <3> QED BY <1>2, <1>4, <2>3, <3>1, <3>2 DEF Counted
  <2>4. ASSUME NEW r \in Copies, q.items = r.items, q.steer_count = r.steer_count
        PROVE  Counted(q) /\ q.items \cap Waiting' = {}
    BY <1>2, <1>4, <2>4 DEF Counted
  <2> QED BY <1>2, <2>1, <2>2, <2>3, <2>4 DEF CopyMade
<1>6. \A q \in Copies' : Counted(q)' /\ (q.items \cap Waiting = {})'
  BY <1>5 DEF Counted
<1> QED BY <1>1, <1>6 DEF CountInv

\* Concurrent steers lose each other's writes, but never the count without the
\* item or the item without the count.
THEOREM Counting == Spec => []CountMatchesItems
<1>1. Init => CountInv
  <2> SUFFICES ASSUME Init PROVE CountInv
    OBVIOUS
  <2>1. Copies \subseteq {Fresh}
    BY DEF Init, Copies
  <2>2. Counted(Fresh) /\ Fresh.items = {}
    BY FS_EmptySet DEF Counted, Fresh
  <2> QED BY <2>1, <2>2, TypeInit DEF CountInv
<1>2. CountInv => CountMatchesItems
  BY DEF CountInv, Copies, Counted, CountMatchesItems
<1> QED BY <1>1, <1>2, CountStep, PTL DEF Spec

-----------------------------------------------------------------------------
(* Rows of attached items. *)

LEMMA RowStep == RowInv /\ [Next]_vars => RowInv'
<1> SUFFICES ASSUME RowInv, [Next]_vars PROVE RowInv'
  OBVIOUS
<1>1. TypeInv /\ TypeInv'
  BY TypeStep DEF RowInv
<1>2. \A q \in Copies' : CopyMade(q)
  BY CopiesMade DEF RowInv
<1>3. rows \subseteq rows'
  BY DEF Next, MonitorStep, SteerStep, SaveItem, LoadToAttach, Attach, LoadToEnd, SaveEnd,
         ClearActive, MonitorFails, CheckActive, LoadToSteer, SaveSteered,
         SaveSteerItem, SteerFails, Crash, Restart, vars
<1>4. mon'.pc \in {"load", "attach"} => mon'.item \in rows'
  <2>1. CASE \E i \in Items : SaveItem(i)
    BY <1>1, <2>1 DEF SaveItem, TypeInv, TypeOK
  <2>2. CASE LoadToAttach
    BY <1>1, <2>2 DEF LoadToAttach, MonitorAt, TypeInv, TypeOK, RowInv
  <2>3. CASE mon' = mon
    BY <1>3, <2>3 DEF RowInv
  <2>4. CASE mon'.pc \notin {"load", "attach"}
    BY <2>4
  <2>5. ASSUME \/ Attach \/ LoadToEnd \/ (\E st \in Ended : SaveEnd(st))
               \/ ClearActive \/ MonitorFails \/ Crash
        PROVE  mon'.pc \notin {"load", "attach"}
    BY <1>1, <2>5 DEF Attach, LoadToEnd, SaveEnd, ClearActive, MonitorFails,
                      Crash, MonitorTo, TypeInv, TypeOK
  <2>6. ASSUME (\E s \in Steers : SteerStep(s)) \/ Restart \/ UNCHANGED vars
        PROVE  mon' = mon
    BY <2>6 DEF SteerStep, CheckActive, LoadToSteer, SaveSteered, SaveSteerItem, SteerFails,
                Restart, vars
  <2> QED BY <2>1, <2>2, <2>3, <2>4, <2>5, <2>6 DEF Next, MonitorStep
<1>5. \A q \in Copies' : q.items \cap Items \subseteq rows'
  <2> TAKE q \in Copies'
  <2>1. \A s \in Waiting : s \notin Items
    BY NamesAssumption DEF Waiting
  <2>2. mon.pc = "attach" => mon.item \in rows
    BY DEF RowInv
  <2>3. \E r \in Copies : q.items \cap Items \subseteq r.items \cup rows
    BY <1>2, <2>1, <2>2 DEF CopyMade
  <2> QED BY <1>3, <2>3 DEF RowInv
<1> QED BY <1>1, <1>4, <1>5 DEF RowInv

\* An item of the monitor is named in the record only after its row was saved,
\* although steers write the record back from older snapshots.
THEOREM Rows == Spec => []AttachedHaveRows
<1>1. Init => RowInv
  BY TypeInit DEF Init, RowInv, Copies, Fresh
<1>2. RowInv => AttachedHaveRows
  BY DEF RowInv, Copies, AttachedHaveRows
<1> QED BY <1>1, <1>2, RowStep, PTL DEF Spec

=============================================================================
