-------------------------- MODULE ApprovalsProofs --------------------------
(***************************************************************************)
(* Proofs about Approvals, for any sets of tool calls and any keys.  A     *)
(* request is in one place at a time: not asked yet, in the event channel, *)
(* taken by the monitor, pending, or decided; until it is decided nobody   *)
(* has answered it, and a decision on its way carries the right it was     *)
(* taken by.                                                               *)
(***************************************************************************)
EXTENDS Approvals, TLAPS

Elems(q) == {q[i] : i \in 1..Len(q)}

\* No tool call is twice in q.
Once(q) == \A i, j \in 1..Len(q) : q[i] = q[j] /\ q[i] # NoTool => i = j

Unasked(t)   == verdict[t] = "none" /\ wait # t
Untouched(t) == decided[t] = 0 /\ answer[t] = "none"

Decisions == out \cup Elems(chan)

\* A decision is the only one for its call, and the user's if it approves.
Rightful(d) ==
    /\ decided[d.id] = 1
    /\ d.kind = "approve" => \/ answer[d.id] = "approve"
                             \/ d.id \in AutoApproved /\ answer[d.id] = "none"
    /\ d.kind = "remember" => answer[d.id] = "remember"
    /\ d.kind = "deny" => answer[d.id] \notin Approving

\* The request for t has left the event channel, the monitor and pending_approvals,
\* or was never there.
Settled(t) == t \notin pending /\ t \notin Elems(events) /\ t \notin Taken

\* Where requests are.
PlaceInv ==
    /\ Once(events)
    /\ \A t \in Tools : Unasked(t) => Settled(t) /\ Untouched(t)
    /\ \A t \in Tools : t \in Elems(events) => t \notin pending \cup Taken /\ Untouched(t)
    /\ \A t \in Taken : t \notin pending /\ Untouched(t)
    /\ \A t \in pending : Untouched(t)
    /\ wait # NoTool => verdict[wait] = "none"

\* What decides them.
RightInv ==
    /\ \A t \in Tools : decided[t] \in {0, 1}
    /\ \A d \in Decisions : Rightful(d)
    /\ \A k \in cache : Remembered(k)
    /\ \A t \in ok : answer[t] \in Approving
    /\ \A t \in Tools : ran[t] = "run" => verdict[t] = "approved" \/ Remembered(Key[t])
    /\ \A t \in Tools : verdict[t] = "denied" => Settled(t) /\ answer[t] \notin Approving
    /\ \A t \in Tools : verdict[t] = "approved" =>
            /\ Settled(t) /\ answer[t] # "deny"
            /\ t \in AutoApproved \/ answer[t] \in Approving \/ Remembered(Key[t])

\* The shapes, with the request the monitor is announcing.
TypeInv == TypeOK /\ (mon.pc \in {"flags", "arm"} => mon.tool \in Tools)

IInv == TypeInv /\ PlaceInv /\ RightInv

-----------------------------------------------------------------------------
(* Sequences as channels. *)

LEMMA AppendOne ==
    ASSUME NEW S, NEW q \in Seq(S), NEW x \in S
    PROVE  /\ Append(q, x) \in Seq(S)
           /\ Elems(Append(q, x)) = Elems(q) \cup {x}
           /\ Once(q) /\ (x = NoTool \/ x \notin Elems(q)) => Once(Append(q, x))
<1>1. /\ Append(q, x) \in Seq(S) /\ Len(Append(q, x)) = Len(q) + 1 /\ Len(q) \in Nat
      /\ \A i \in 1..Len(q) : Append(q, x)[i] = q[i]
      /\ Append(q, x)[Len(q) + 1] = x
  OBVIOUS
<1>2. 1..(Len(q) + 1) = (1..Len(q)) \cup {Len(q) + 1}
  BY <1>1
<1> QED BY <1>1, <1>2 DEF Elems, Once

LEMMA ElemsTypes == ASSUME NEW S, NEW q \in Seq(S) PROVE Elems(q) \subseteq S
BY DEF Elems

LEMMA TakeHead ==
    ASSUME NEW S, NEW q \in Seq(S), q # <<>>
    PROVE  /\ Tail(q) \in Seq(S) /\ Head(q) \in S
           /\ Head(q) \in Elems(q) /\ Elems(Tail(q)) \subseteq Elems(q)
           /\ Once(q) => Once(Tail(q)) /\ (Head(q) # NoTool => Head(q) \notin Elems(Tail(q)))
<1>1. /\ Tail(q) \in Seq(S) /\ Head(q) \in S /\ Head(q) = q[1]
      /\ Len(q) \in Nat \ {0} /\ Len(Tail(q)) = Len(q) - 1
      /\ \A i \in 1..(Len(q) - 1) : Tail(q)[i] = q[i + 1]
  OBVIOUS
<1>2. \A i \in 1..(Len(q) - 1) : i + 1 \in 1..Len(q) /\ i + 1 # 1
  BY <1>1
<1>3. 1 \in 1..Len(q)
  BY <1>1
<1>4. Head(q) \in Elems(q) /\ Elems(Tail(q)) \subseteq Elems(q)
  BY <1>1, <1>2, <1>3 DEF Elems
<1>5. ASSUME Once(q) PROVE Once(Tail(q))
  <2> SUFFICES ASSUME NEW i \in 1..(Len(q) - 1), NEW j \in 1..(Len(q) - 1),
                      q[i + 1] = q[j + 1], q[i + 1] # NoTool
               PROVE  i = j
    BY <1>1 DEF Once
  <2> QED BY <1>1, <1>2, <1>5 DEF Once
<1>6. ASSUME Once(q), Head(q) # NoTool PROVE Head(q) \notin Elems(Tail(q))
  BY <1>1, <1>2, <1>3, <1>6 DEF Once, Elems
<1> QED BY <1>1, <1>4, <1>5, <1>6

-----------------------------------------------------------------------------
(* Shapes. *)

LEMMA TypeInit == Init => TypeInv
<1> SUFFICES ASSUME Init PROVE TypeInv
  OBVIOUS
<1>1. events \in Seq(Tools \cup {NoTool}) /\ chan \in Seq([id : Tools, kind : Kinds])
  BY DEF Init
<1>2. displaced \in 0..MaxDisplaced
  BY DisplacedAssumption DEF Init
<1>3. mon \in [pc : {"run", "flags", "arm", "done"}, tool : Tools \cup {NoTool}] /\ mon.pc = "run"
  BY DEF Init, Idle
<1>4. answer \in [Tools -> {"none"} \cup Kinds] /\ decided \in [Tools -> Nat]
  BY DEF Init
<1>5. /\ verdict \in [Tools -> {"none", "approved", "denied", "timeout", "cancelled"}]
      /\ ran \in [Tools -> {"none", "run", "refused"}]
  BY DEF Init
<1>6. /\ cache \subseteq {Key[t] : t \in Tools} /\ timer \subseteq Tools /\ pending \subseteq Tools
      /\ out \subseteq [id : Tools, kind : Kinds] /\ ok \subseteq Tools
  BY DEF Init
<1>7. /\ wait \in Tools \cup {NoTool} /\ turning \in BOOLEAN /\ cancel \in BOOLEAN
      /\ live \in BOOLEAN /\ home \in BOOLEAN
  BY DEF Init
<1> QED BY <1>1, <1>2, <1>3, <1>4, <1>5, <1>6, <1>7 DEF TypeInv, TypeOK

LEMMA DecideTypes ==
    ASSUME TypeOK, NEW t \in Tools, NEW kind \in Kinds, Decide(t, kind)
    PROVE  out' \subseteq [id : Tools, kind : Kinds] /\ decided' \in [Tools -> Nat]
<1>1. [id |-> t, kind |-> kind] \in [id : Tools, kind : Kinds]
  OBVIOUS
<1> QED BY <1>1 DEF TypeOK, Decide

LEMMA TypeStep == TypeInv /\ [Next]_vars => TypeInv'
<1> SUFFICES ASSUME TypeInv, [Next]_vars PROVE TypeInv'
  OBVIOUS
<1> USE DEF TypeInv, TypeOK
<1>1. CASE \E t \in Tools : Request(t)
  <2>1. PICK t \in Tools : Request(t)
    BY <1>1
  <2>2. Append(events, t) \in Seq(Tools \cup {NoTool})
    BY AppendOne
  <2>3. CASE Key[t] \in cache
    BY <2>1, <2>3 DEF Request, manager, hist
  <2>4. CASE Key[t] \notin cache
    BY <2>1, <2>2, <2>4 DEF Request, manager, hist
  <2> QED BY <2>3, <2>4
<1>2. CASE \E t \in Tools : TimerFires(t)
  <2>1. PICK t \in Tools : TimerFires(t)
    BY <1>2
  <2>2. out' \subseteq [id : Tools, kind : Kinds] /\ decided' \in [Tools -> Nat]
    BY <2>1, DecideTypes DEF TimerFires, Expire, Kinds
  <2>3. pending' \subseteq Tools /\ timer' \subseteq Tools
    BY <2>1 DEF TimerFires, Expire
  <2> QED BY <2>1, <2>2, <2>3 DEF TimerFires, engine
<1>3. CASE \E t \in Tools, k \in Kinds : ResolveApproval(t, k)
  <2>1. PICK t \in Tools, k \in Kinds : ResolveApproval(t, k)
    BY <1>3
  <2>2. out' \subseteq [id : Tools, kind : Kinds] /\ decided' \in [Tools -> Nat]
    BY <2>1, DecideTypes DEF ResolveApproval
  <2>3. answer' \in [Tools -> {"none"} \cup Kinds] /\ ok' \subseteq Tools
    BY <2>1 DEF ResolveApproval
  <2> QED BY <2>1, <2>2, <2>3 DEF ResolveApproval, engine
<1>4. CASE Receive
  <2>1. Tail(chan) \in Seq([id : Tools, kind : Kinds]) /\ Head(chan) \in [id : Tools, kind : Kinds]
    BY <1>4, TakeHead DEF Receive
  <2>2. CASE Matches(Head(chan))
    <3>1. cache' \subseteq {Key[t] : t \in Tools}
      <4>1. Head(chan).id \in Tools
        BY <2>1
      <4>2. cache' \subseteq cache \cup {Key[Head(chan).id]}
        BY <1>4, <2>2 DEF Receive
      <4> QED BY <4>1, <4>2
    <3>2. /\ wait' = NoTool
          /\ verdict' \in [Tools -> {"none", "approved", "denied", "timeout", "cancelled"}]
      BY <1>4, <2>1, <2>2 DEF Receive, Verdict, Asked
    <3> QED BY <1>4, <2>1, <2>2, <3>1, <3>2 DEF Receive, manager, hist
  <2>3. CASE ~Matches(Head(chan))
    BY <1>4, <2>1, <2>3 DEF Receive, engine, manager, hist
  <2> QED BY <2>2, <2>3
<1>5. CASE Cancelled
  BY <1>5 DEF Cancelled, Verdict, Asked, manager, hist
<1>6. CASE TimedOut
  BY <1>6 DEF TimedOut, Verdict, Asked, manager, hist
<1>7. CASE TurnComplete
  <2>1. Append(events, NoTool) \in Seq(Tools \cup {NoTool})
    BY AppendOne
  <2> QED BY <1>7, <2>1 DEF TurnComplete, manager, hist
<1>8. CASE Interrupt
  BY <1>8 DEF Interrupt, engine, manager, hist
<1>9. CASE NextTurn
  BY <1>9 DEF NextTurn, Idle, hist
<1>10. CASE TakeRequest
  <2>1. Tail(events) \in Seq(Tools \cup {NoTool}) /\ Head(events) \in Tools
    BY <1>10, TakeHead DEF TakeRequest
  <2>2. CASE ~live
    <3>1. out' \subseteq [id : Tools, kind : Kinds] /\ decided' \in [Tools -> Nat]
      BY <1>10, <2>1, <2>2, DecideTypes DEF TakeRequest, Kinds
    <3> QED BY <1>10, <2>1, <2>2, <3>1 DEF TakeRequest, engine, manager
  <2>3. CASE live
    BY <1>10, <2>1, <2>3 DEF TakeRequest, engine, manager
  <2> QED BY <2>2, <2>3
<1>17. CASE ReadFlags
  <2>1. mon.tool \in Tools
    BY <1>17 DEF ReadFlags
  <2>2. CASE live /\ mon.tool \in AutoApproved
    <3>1. out' \subseteq [id : Tools, kind : Kinds] /\ decided' \in [Tools -> Nat]
      BY <1>17, <2>1, <2>2, DecideTypes DEF ReadFlags, Kinds
    <3> QED BY <1>17, <2>1, <2>2, <3>1 DEF ReadFlags, Idle, engine
  <2>3. CASE ~(live /\ mon.tool \in AutoApproved)
    BY <1>17, <2>1, <2>3 DEF ReadFlags, engine
  <2> QED BY <2>2, <2>3
<1>18. CASE ExecuteBatch
  <2>1. ran' \in [Tools -> {"none", "run", "refused"}]
    BY <1>18 DEF ExecuteBatch
  <2> QED BY <1>18, <2>1 DEF ExecuteBatch, manager, hist
<1>11. CASE ArmTimer
  BY <1>11 DEF ArmTimer, Idle, engine, hist
<1>12. CASE EmitFails
  BY <1>12 DEF EmitFails, engine, manager, hist
<1>13. CASE TakeComplete
  <2>1. Tail(events) \in Seq(Tools \cup {NoTool})
    BY <1>13, TakeHead DEF TakeComplete
  <2> QED BY <1>13, <2>1 DEF TakeComplete, engine, hist
<1>14. CASE Sending
  <2>1. PICK t \in Tools, k \in Kinds : Send([id |-> t, kind |-> k])
    BY <1>14 DEF Sending
  <2>2. [id |-> t, kind |-> k] \in [id : Tools, kind : Kinds]
    OBVIOUS
  <2>3. Append(chan, [id |-> t, kind |-> k]) \in Seq([id : Tools, kind : Kinds])
    BY <2>2, AppendOne
  <2>4. ok' \subseteq Tools
    BY <2>1 DEF Send
  <2> QED BY <2>1, <2>3, <2>4 DEF Send, engine, manager
<1>15. CASE Displace
  <2>1. displaced' \in 0..MaxDisplaced
    BY <1>15, DisplacedAssumption DEF Displace
  <2> QED BY <1>15, <2>1 DEF Displace, engine
<1>16. CASE UNCHANGED vars
  BY <1>16 DEF vars, engine, manager, hist
<1> QED
  BY <1>1, <1>2, <1>3, <1>4, <1>5, <1>6, <1>7, <1>8, <1>9, <1>10, <1>11, <1>12, <1>13,
     <1>14, <1>15, <1>16, <1>17, <1>18 DEF Next

-----------------------------------------------------------------------------
(* Requests and decisions. *)

LEMMA DecisionTypes == TypeInv => Decisions \subseteq [id : Tools, kind : Kinds]
<1> SUFFICES ASSUME TypeInv PROVE Decisions \subseteq [id : Tools, kind : Kinds]
  OBVIOUS
<1>1. Elems(chan) \subseteq [id : Tools, kind : Kinds]
  BY ElemsTypes DEF TypeInv, TypeOK
<1>2. out \subseteq [id : Tools, kind : Kinds]
  BY DEF TypeInv, TypeOK
<1> QED BY <1>1, <1>2 DEF Decisions

LEMMA TakenTypes == TypeInv => Taken \subseteq Tools
  BY DEF TypeInv, TypeOK, Taken

\* A request that is not settled becomes so by a decision, taken by a right that
\* Rightful names; nothing else changes.
LEMMA Deciding ==
    ASSUME IInv, NEW t \in Tools, NEW kind \in Kinds, Decide(t, kind),
           ~Settled(t), Settled(t)', Taken' \subseteq Taken, pending' \subseteq pending,
           Elems(events)' \subseteq Elems(events),
           Once(events)', verdict' = verdict, wait' = wait, cache' = cache, chan' = chan,
           ran' = ran, ok' = ok, \A u \in Tools \ {t} : answer'[u] = answer[u],
           kind = "approve" => \/ answer'[t] = "approve"
                               \/ t \in AutoApproved /\ answer'[t] = "none",
           kind = "remember" => answer'[t] = "remember",
           kind = "deny" => answer'[t] \notin Approving
    PROVE  PlaceInv' /\ RightInv'
<1> USE DEF IInv
<1>1. Untouched(t) /\ ~Unasked(t) /\ verdict[t] \notin {"approved", "denied"} /\ t \notin ok
  BY DEF PlaceInv, RightInv, Settled, Untouched, Approving
<1>2. /\ decided'[t] = 1
      /\ \A u \in Tools \ {t} : decided'[u] = decided[u]
      /\ out' = out \cup {[id |-> t, kind |-> kind]}
  BY <1>1 DEF Decide, TypeInv, TypeOK, Untouched
<1>3. \A u \in Tools \ {t} : Untouched(u) => Untouched(u)'
  BY <1>2 DEF Untouched
<1>4. \A u \in Tools : Unasked(u)' => Unasked(u) /\ u # t
  BY <1>1 DEF Unasked
<1>5. \A u \in Tools : Settled(u) => Settled(u)'
  BY DEF Settled
<1>6. pending' \subseteq Tools
  BY DEF TypeInv, TypeOK
<1>7. PlaceInv'
  <2>1. \A u \in Tools : Unasked(u)' => Settled(u)' /\ Untouched(u)'
    BY <1>3, <1>4, <1>5 DEF PlaceInv
  <2>2. \A u \in Tools : u \in Elems(events)' => u \notin pending' \cup Taken' /\ Untouched(u)'
    BY <1>3 DEF PlaceInv, Settled
  <2>3. \A u \in Taken' : u \notin pending' /\ Untouched(u)'
    BY <1>3, TakenTypes DEF PlaceInv, Settled
  <2>4. \A u \in pending' : Untouched(u)'
    BY <1>3, <1>6 DEF PlaceInv, Settled
  <2> QED BY <2>1, <2>2, <2>3, <2>4 DEF PlaceInv
<1>8. \A d \in Decisions : d.id \in Tools /\ d.id # t
  <2>1. \A d \in Decisions : d.id \in Tools
    BY DecisionTypes
  <2> QED BY <1>1, <2>1 DEF RightInv, Rightful, Untouched
<1>9. \A d \in Decisions' : Rightful(d)'
  <2>1. Rightful([id |-> t, kind |-> kind])'
    BY <1>2 DEF Rightful
  <2>2. \A d \in Decisions : Rightful(d)'
    BY <1>2, <1>8 DEF RightInv, Rightful
  <2>3. \A d \in Decisions' : d \in Decisions \/ d = [id |-> t, kind |-> kind]
    BY <1>2 DEF Decisions
  <2> QED BY <2>1, <2>2, <2>3
<1>10. \A k : Remembered(k) => Remembered(k)'
  BY <1>1 DEF Remembered, Untouched
<1>11. \A u \in Tools : decided'[u] \in {0, 1}
  BY <1>2 DEF RightInv
<1>12. \A u \in Tools : ran'[u] = "run" => verdict'[u] = "approved" \/ Remembered(Key[u])'
  BY <1>10 DEF RightInv
<1>13. \A u \in ok' : answer'[u] \in Approving
  BY <1>1 DEF RightInv, TypeInv, TypeOK
<1>14. \A u \in Tools : verdict'[u] = "denied" => Settled(u)' /\ answer'[u] \notin Approving
  BY <1>1, <1>5 DEF RightInv
<1>15. \A u \in Tools : verdict'[u] = "approved" =>
            /\ Settled(u)' /\ answer'[u] # "deny"
            /\ u \in AutoApproved \/ answer'[u] \in Approving \/ Remembered(Key[u])'
  BY <1>1, <1>5, <1>10 DEF RightInv
<1> QED BY <1>7, <1>9, <1>10, <1>11, <1>12, <1>13, <1>14, <1>15 DEF RightInv

\* A step that leaves requests, decisions and answers alone, except that events
\* or decisions are taken from their channels or an event that is no request is
\* added.
LEMMA Keeping ==
    ASSUME IInv, Elems(events)' \subseteq Elems(events) \cup {NoTool}, Once(events)',
           Decisions' \subseteq Decisions, pending' = pending, Taken' = Taken,
           decided' = decided, answer' = answer, ok' = ok, cache' = cache, wait' = wait,
           verdict' = verdict,
           \A u \in Tools : ran'[u] = "run" => \/ ran[u] = "run" \/ verdict[u] = "approved"
                                              \/ Remembered(Key[u])
    PROVE  PlaceInv' /\ RightInv'
<1> USE DEF IInv
<1>1. \A u \in Tools : (Settled(u) => Settled(u)') /\ (u \in Elems(events)' => u \in Elems(events))
  BY ToolsAssumption DEF Settled
<1>2. \A u : (Untouched(u)' <=> Untouched(u)) /\ (Unasked(u)' <=> Unasked(u))
             /\ (Rightful(u)' <=> Rightful(u)) /\ (Remembered(u)' <=> Remembered(u))
  BY DEF Untouched, Unasked, Rightful, Remembered
<1>3. PlaceInv'
  BY <1>1, <1>2 DEF PlaceInv
<1>4. RightInv'
  BY <1>1, <1>2 DEF RightInv
<1> QED BY <1>3, <1>4

\* The request for t goes on to its next place, undecided.
LEMMA Moving ==
    ASSUME IInv, NEW t \in Tools, ~Settled(t), t \notin Elems(events)', Once(events)',
           Elems(events)' \subseteq Elems(events), pending' \subseteq pending \cup {t},
           Taken' \subseteq Taken \cup {t}, t \notin pending' \cap Taken',
           UNCHANGED <<engine, out, chan, decided, answer, ok>>
    PROVE  PlaceInv' /\ RightInv'
<1> USE DEF IInv
<1>1. Untouched(t) /\ ~Unasked(t) /\ verdict[t] \notin {"approved", "denied"}
  BY DEF PlaceInv, RightInv, Settled
<1>2. \A u : (Untouched(u)' <=> Untouched(u)) /\ (Unasked(u)' <=> Unasked(u))
             /\ (Rightful(u)' <=> Rightful(u)) /\ (Remembered(u)' <=> Remembered(u))
  BY DEF Untouched, Unasked, Rightful, Remembered, engine
<1>3. \A u \in Tools : u # t /\ Settled(u) => Settled(u)'
  BY DEF Settled
<1>4. /\ wait' = wait /\ verdict' = verdict /\ ran' = ran /\ cache' = cache
      /\ decided' = decided /\ answer' = answer /\ ok' = ok /\ Decisions' = Decisions
  BY DEF engine, Decisions, Elems
<1>5. PlaceInv'
  <2>1. \A u \in Tools : Unasked(u)' => Settled(u)' /\ Untouched(u)'
    BY <1>1, <1>2, <1>3 DEF PlaceInv
  <2>2. \A u \in Tools : u \in Elems(events)' => u \notin pending' \cup Taken' /\ Untouched(u)'
    BY <1>2 DEF PlaceInv
  <2>3. \A u \in Taken' : u \notin pending' /\ Untouched(u)'
    BY <1>1, <1>2 DEF PlaceInv
  <2>4. \A u \in pending' : Untouched(u)'
    BY <1>1, <1>2 DEF PlaceInv
  <2> QED BY <1>4, <2>1, <2>2, <2>3, <2>4 DEF PlaceInv
<1>6. \A u \in Tools : verdict'[u] = "denied" => Settled(u)' /\ answer'[u] \notin Approving
  BY <1>1, <1>3, <1>4 DEF RightInv
<1>7. \A u \in Tools : verdict'[u] = "approved" =>
          /\ Settled(u)' /\ answer'[u] # "deny"
          /\ u \in AutoApproved \/ answer'[u] \in Approving \/ Remembered(Key[u])'
  BY <1>1, <1>2, <1>3, <1>4 DEF RightInv
<1>8. RightInv'
  BY <1>2, <1>4, <1>6, <1>7 DEF RightInv
<1> QED BY <1>5, <1>8

\* The engine's wait ends with a verdict that fits what is known about the call.
LEMMA Ending ==
    ASSUME IInv, NEW v \in {"approved", "denied", "timeout", "cancelled"}, Asked, Verdict(v),
           events' = events, pending' = pending, Taken' = Taken, ran' = ran,
           decided' = decided, answer' = answer, ok' = ok,
           Decisions' \subseteq Decisions, \A k \in cache' : k \in cache \/ Remembered(k),
           v = "denied" => Settled(wait) /\ answer[wait] \notin Approving,
           v = "approved" => /\ Settled(wait) /\ answer[wait] # "deny"
                             /\ wait \in AutoApproved \/ answer[wait] \in Approving
    PROVE  PlaceInv' /\ RightInv'
<1> USE DEF IInv
<1>1. wait \in Tools /\ wait' = NoTool /\ verdict' = [verdict EXCEPT ![wait] = v]
  BY DEF Asked, Verdict, TypeInv, TypeOK
<1>2. \A u \in Tools : verdict'[u] = IF u = wait THEN v ELSE verdict[u]
  BY <1>1 DEF TypeInv, TypeOK
<1>3. \A u \in Tools : Unasked(u)' => Unasked(u)
  BY <1>1, <1>2 DEF Unasked
<1>4. \A u : (Untouched(u)' <=> Untouched(u)) /\ (Settled(u)' <=> Settled(u))
             /\ (Rightful(u)' <=> Rightful(u)) /\ (Remembered(u)' <=> Remembered(u))
  BY DEF Untouched, Settled, Rightful, Remembered
<1>5. PlaceInv'
  BY <1>1, <1>3, <1>4 DEF PlaceInv
<1>6. RightInv'
  <2>1. \A u \in Tools : verdict'[u] = "denied" => Settled(u)' /\ answer'[u] \notin Approving
    BY <1>2, <1>4 DEF RightInv
  <2>2. \A u \in Tools : verdict'[u] = "approved" =>
            /\ Settled(u)' /\ answer'[u] # "deny"
            /\ u \in AutoApproved \/ answer'[u] \in Approving \/ Remembered(Key[u])'
    BY <1>2, <1>4 DEF RightInv
  <2>3. \A u \in Tools : ran'[u] = "run" => verdict'[u] = "approved" \/ Remembered(Key[u])'
    BY <1>1, <1>2, <1>4 DEF RightInv, PlaceInv, Asked
  <2> QED BY <1>4, <2>1, <2>2, <2>3 DEF RightInv
<1> QED BY <1>5, <1>6

-----------------------------------------------------------------------------
(* The steps. *)

LEMMA RequestStep ==
    ASSUME IInv, NEW t \in Tools, Request(t) PROVE PlaceInv' /\ RightInv'
<1> USE DEF IInv
<1>1. /\ wait = NoTool /\ verdict[t] = "none" /\ t # NoTool
      /\ pending' = pending /\ decided' = decided /\ answer' = answer /\ ok' = ok
      /\ cache' = cache /\ Decisions' = Decisions /\ ran' = ran /\ Taken' = Taken
  BY ToolsAssumption DEF Request, Asked, manager, hist, Decisions, Taken
<1>2. Unasked(t) /\ Settled(t) /\ Untouched(t)
  BY <1>1 DEF Unasked, PlaceInv
<1>3. \A u : (Untouched(u)' <=> Untouched(u)) /\ (Rightful(u)' <=> Rightful(u))
             /\ (Remembered(u)' <=> Remembered(u))
  BY <1>1 DEF Untouched, Rightful, Remembered
<1>4. CASE Key[t] \in cache
  <2>1. wait' = wait /\ events' = events /\ verdict' = [verdict EXCEPT ![t] = "approved"]
    BY <1>4 DEF Request
  <2>2. \A u \in Tools : verdict'[u] = IF u = t THEN "approved" ELSE verdict[u]
    BY <2>1 DEF TypeInv, TypeOK
  <2>3. \A u \in Tools : (Unasked(u)' => Unasked(u)) /\ (Settled(u)' <=> Settled(u))
    BY <1>1, <2>1, <2>2 DEF Unasked, Settled
  <2>4. PlaceInv'
    BY <1>1, <1>3, <2>1, <2>3 DEF PlaceInv, Once, Elems
  <2>5. Remembered(Key[t]) /\ answer[t] # "deny"
    BY <1>2, <1>4 DEF RightInv, Untouched
  <2>6. \A u \in Tools : verdict'[u] = "denied" => Settled(u)' /\ answer'[u] \notin Approving
    BY <1>1, <2>2, <2>3 DEF RightInv
  <2>7. \A u \in Tools : verdict'[u] = "approved" =>
            /\ Settled(u)' /\ answer'[u] # "deny"
            /\ u \in AutoApproved \/ answer'[u] \in Approving \/ Remembered(Key[u])'
    BY <1>1, <1>2, <1>3, <2>2, <2>3, <2>5 DEF RightInv
  <2>8. \A u \in Tools : ran'[u] = "run" => verdict'[u] = "approved" \/ Remembered(Key[u])'
    BY <1>1, <1>3, <2>2 DEF RightInv
  <2>9. RightInv'
    BY <1>1, <1>3, <2>6, <2>7, <2>8 DEF RightInv
  <2> QED BY <2>4, <2>9
<1>5. CASE Key[t] \notin cache
  <2>1. wait' = t /\ events' = Append(events, t) /\ verdict' = verdict
    BY <1>5 DEF Request
  <2>2. Elems(events)' = Elems(events) \cup {t} /\ Once(events)'
    <3>1. t \notin Elems(events) /\ Once(events)
      BY <1>2 DEF Settled, PlaceInv
    <3>2. Elems(Append(events, t)) = Elems(events) \cup {t} /\ Once(Append(events, t))
      BY <3>1, AppendOne DEF TypeInv, TypeOK
    <3> QED BY <2>1, <3>2 DEF Elems, Once
  <2>3. \A u \in Tools : (Unasked(u)' => Unasked(u) /\ u # t)
    BY <1>1, <2>1, ToolsAssumption DEF Unasked
  <2>4. \A u \in Tools : u # t /\ Settled(u) => Settled(u)'
    BY <1>1, <2>2 DEF Settled
  <2>5. PlaceInv'
    <3>1. \A u \in Tools : Unasked(u)' => Settled(u)' /\ Untouched(u)'
      BY <1>3, <2>3, <2>4 DEF PlaceInv
    <3>2. \A u \in Tools : u \in Elems(events)' => u \notin pending' \cup Taken' /\ Untouched(u)'
      BY <1>1, <1>2, <1>3, <2>2 DEF PlaceInv, Settled
    <3> QED BY <1>1, <1>3, <2>1, <2>2, <3>1, <3>2 DEF PlaceInv
  <2>6. RightInv'
    <3>1. \A u \in Tools : verdict'[u] = "denied" => Settled(u)' /\ answer'[u] \notin Approving
      BY <1>1, <2>1, <2>4 DEF RightInv
    <3>2. \A u \in Tools : verdict'[u] = "approved" =>
              /\ Settled(u)' /\ answer'[u] # "deny"
              /\ u \in AutoApproved \/ answer'[u] \in Approving \/ Remembered(Key[u])'
      BY <1>1, <1>3, <2>1, <2>4 DEF RightInv
    <3> QED BY <1>1, <1>3, <2>1, <3>1, <3>2 DEF RightInv
  <2> QED BY <2>5, <2>6
<1> QED BY <1>4, <1>5

LEMMA ReceiveStep ==
    ASSUME IInv, Receive PROVE PlaceInv' /\ RightInv'
<1> USE DEF IInv
<1> DEFINE d == Head(chan)
<1>1. /\ Asked /\ chan # <<>> /\ events' = events /\ pending' = pending /\ decided' = decided
      /\ answer' = answer /\ ok' = ok /\ out' = out /\ chan' = Tail(chan)
      /\ ran' = ran /\ Taken' = Taken
  BY DEF Receive, manager, hist, engine, Taken
<1>2. d \in Elems(chan) /\ Elems(chan') \subseteq Elems(chan)
  BY <1>1, TakeHead DEF TypeInv, TypeOK
<1>3. Decisions' \subseteq Decisions /\ d \in Decisions
  BY <1>1, <1>2 DEF Decisions, Elems
<1>4. Rightful(d) /\ d.id \in Tools /\ d.kind \in Kinds
  BY <1>3, DecisionTypes DEF RightInv
<1>5. Settled(d.id)
  BY <1>4 DEF Rightful, PlaceInv, Settled, Untouched
<1>6. CASE Matches(d)
  <2> DEFINE v == IF d.kind = "deny" THEN "denied" ELSE "approved"
  <2>1. Verdict(v) /\ wait = d.id
        /\ cache' = IF d.kind = "remember" THEN cache \cup {Key[d.id]} ELSE cache
    BY <1>6 DEF Receive, Matches
  <2>2. d.kind = "remember" => Remembered(Key[d.id])
    BY <1>4 DEF Rightful, Remembered
  <2>3. \A k \in cache' : k \in cache \/ Remembered(k)
    BY <2>1, <2>2
  <2>4. v = "denied" => Settled(wait) /\ answer[wait] \notin Approving
    BY <1>4, <1>5, <2>1 DEF Rightful
  <2>5. v = "approved" => /\ Settled(wait) /\ answer[wait] # "deny"
                          /\ wait \in AutoApproved \/ answer[wait] \in Approving
    <3>1. d.kind \in {"approve", "remember"} => answer[wait] # "deny"
      BY <1>4, <2>1 DEF Rightful, RightInv
    <3>2. d.kind \in {"approve", "remember"} => wait \in AutoApproved \/ answer[wait] \in Approving
      BY <1>4, <2>1 DEF Rightful, Approving
    <3> QED BY <1>4, <1>5, <2>1, <3>1, <3>2 DEF Kinds
  <2>6. v \in {"approved", "denied", "timeout", "cancelled"}
    OBVIOUS
  <2> HIDE DEF v, d
  <2> QED BY <1>1, <1>3, <2>1, <2>3, <2>4, <2>5, <2>6, Ending
<1>7. CASE ~Matches(d)
  <2>1. wait' = wait /\ verdict' = verdict /\ cache' = cache
    BY <1>7 DEF Receive, engine
  <2>2. Elems(events)' \subseteq Elems(events) \cup {NoTool} /\ Once(events)'
    BY <1>1 DEF Elems, Once, PlaceInv
  <2> QED BY <1>1, <1>3, <2>1, <2>2, Keeping
<1> QED BY <1>6, <1>7

LEMMA TakeRequestStep ==
    ASSUME IInv, TakeRequest PROVE PlaceInv' /\ RightInv'
<1> USE DEF IInv
<1>0. PICK t \in Tools : t = Head(events)
  BY TakeHead DEF TakeRequest, TypeInv, TypeOK
<1>1. /\ events # <<>> /\ events' = Tail(events) /\ Taken = {} /\ pending' = pending
      /\ wait' = wait /\ verdict' = verdict /\ ran' = ran /\ cache' = cache /\ chan' = chan
      /\ answer' = answer /\ ok' = ok
  BY DEF TakeRequest, engine, manager, Taken
<1>2. t \in Elems(events)
  BY <1>0, <1>1, TakeHead DEF TypeInv, TypeOK
<1>3. /\ Elems(Tail(events)) \subseteq Elems(events) /\ Once(Tail(events))
      /\ t \notin Elems(Tail(events))
  BY <1>0, <1>1, TakeHead, ToolsAssumption DEF TypeInv, TypeOK, PlaceInv
<1>4. Elems(events)' \subseteq Elems(events) /\ Once(events)' /\ t \notin Elems(events)'
  BY <1>1, <1>3 DEF Elems, Once
<1>5. t \notin pending /\ Untouched(t) /\ ~Settled(t)
  BY <1>2 DEF PlaceInv, Settled
<1>6. CASE live
  <2>1. Taken' = {t} /\ UNCHANGED <<engine, out, chan, decided, answer, ok>>
    BY <1>0, <1>6 DEF TakeRequest, Taken
  <2> QED BY <1>1, <1>4, <1>5, <2>1, Moving
<1>7. CASE ~live
  <2>1. Decide(t, "deny") /\ Taken' = Taken
    BY <1>0, <1>7 DEF TakeRequest, Taken
  <2>2. Settled(t)' /\ pending' \subseteq pending
    BY <1>1, <1>4, <1>5, <2>1 DEF Settled
  <2>3. answer'[t] \notin Approving /\ "deny" \in Kinds
    BY <1>1, <1>5 DEF Untouched, Approving, Kinds
  <2> QED BY <1>1, <1>4, <1>5, <2>1, <2>2, <2>3, Deciding
<1> QED BY <1>6, <1>7

LEMMA ReadFlagsStep ==
    ASSUME IInv, ReadFlags PROVE PlaceInv' /\ RightInv'
<1> USE DEF IInv
<1>0. PICK t \in Tools : t = mon.tool
  BY DEF ReadFlags, TypeInv
<1>1. /\ mon.pc = "flags" /\ Taken = {t} /\ events' = events
      /\ wait' = wait /\ verdict' = verdict /\ ran' = ran /\ cache' = cache /\ chan' = chan
      /\ answer' = answer /\ ok' = ok
  BY <1>0 DEF ReadFlags, engine, Taken
<1>2. Elems(events)' = Elems(events) /\ Once(events)'
  BY <1>1 DEF Elems, Once, PlaceInv
<1>3. t \notin pending /\ Untouched(t) /\ ~Settled(t) /\ t \notin Elems(events)
  BY <1>1 DEF PlaceInv, Settled
<1>4. Taken' = {}
  BY DEF ReadFlags, Taken, Idle
<1>5. CASE live /\ t \in AutoApproved
  <2>1. Decide(t, "approve") /\ pending' = pending
    BY <1>0, <1>5 DEF ReadFlags
  <2>2. Settled(t)' /\ pending' \subseteq pending /\ Taken' \subseteq Taken
    BY <1>1, <1>2, <1>3, <1>4, <2>1 DEF Settled
  <2>3. answer'[t] = "none" /\ "approve" \in Kinds
    BY <1>1, <1>3 DEF Untouched, Kinds
  <2> QED BY <1>1, <1>2, <1>3, <1>5, <2>1, <2>2, <2>3, Deciding
<1>6. CASE ~(live /\ t \in AutoApproved)
  <2>1. pending' = pending \cup {t} /\ UNCHANGED <<engine, out, chan, decided, answer, ok>>
    BY <1>0, <1>6 DEF ReadFlags
  <2> QED BY <1>2, <1>3, <1>4, <2>1, Moving
<1> QED BY <1>5, <1>6

LEMMA ExecuteStep ==
    ASSUME IInv, ExecuteBatch PROVE PlaceInv' /\ RightInv'
<1> USE DEF IInv
<1>1. /\ pending' = pending /\ Taken' = Taken /\ decided' = decided /\ answer' = answer
      /\ ok' = ok /\ cache' = cache /\ wait' = wait /\ verdict' = verdict
      /\ Decisions' = Decisions /\ events' = events
  BY DEF ExecuteBatch, manager, hist, Taken, Decisions, Elems
<1>2. Elems(events)' \subseteq Elems(events) \cup {NoTool} /\ Once(events)'
  BY <1>1 DEF Elems, Once, PlaceInv
<1>3. \A u \in Tools : ran'[u] = "run" => ran[u] = "run" \/ Passes(u)
  BY DEF ExecuteBatch
<1>4. \A u \in Tools : Passes(u) => verdict[u] = "approved" \/ Remembered(Key[u])
  BY DEF Passes, RightInv
<1> QED BY <1>1, <1>2, <1>3, <1>4, Keeping

LEMMA TimerStep ==
    ASSUME IInv, NEW t \in Tools, TimerFires(t) PROVE PlaceInv' /\ RightInv'
<1> USE DEF IInv
<1>1. /\ events' = events /\ wait' = wait /\ verdict' = verdict /\ cache' = cache
      /\ chan' = chan /\ answer' = answer /\ ok' = ok /\ ran' = ran /\ Taken' = Taken
  BY DEF TimerFires, engine, Taken
<1>2. Elems(events)' = Elems(events) /\ Once(events)'
  BY <1>1 DEF Elems, Once, PlaceInv
<1>3. CASE t \in pending
  <2>1. Decide(t, "deny") /\ pending' = pending \ {t}
    BY <1>3 DEF TimerFires, Expire
  <2>2. Untouched(t) /\ t \notin Elems(events) /\ t \notin Taken /\ ~Settled(t)
    BY <1>3 DEF PlaceInv, Settled
  <2>3. Settled(t)' /\ pending' \subseteq pending
    BY <1>1, <1>2, <2>1, <2>2 DEF Settled
  <2>4. answer'[t] = "none" /\ answer'[t] \notin Approving /\ "deny" \in Kinds
    BY <1>1, <2>2 DEF Untouched, Approving, Kinds
  <2> QED BY <1>1, <1>2, <2>1, <2>2, <2>3, <2>4, Deciding
<1>4. CASE t \notin pending
  <2>1. pending' = pending /\ out' = out /\ decided' = decided
    BY <1>4 DEF TimerFires, Expire
  <2>2. Decisions' = Decisions
    BY <1>1, <2>1 DEF Decisions, Elems
  <2> QED BY <1>1, <1>2, <2>1, <2>2, Keeping
<1> QED BY <1>3, <1>4

LEMMA ResolveStep ==
    ASSUME IInv, NEW t \in Tools, NEW kind \in Kinds, ResolveApproval(t, kind)
    PROVE  PlaceInv' /\ RightInv'
<1> USE DEF IInv
<1>1. /\ events' = events /\ wait' = wait /\ verdict' = verdict /\ cache' = cache
      /\ chan' = chan /\ ran' = ran /\ t \in pending /\ pending' = pending \ {t}
      /\ answer' = [answer EXCEPT ![t] = kind] /\ Taken' = Taken
  BY DEF ResolveApproval, engine, Taken
<1>2. Elems(events)' = Elems(events) /\ Once(events)'
  BY <1>1 DEF Elems, Once, PlaceInv
<1>3. Untouched(t) /\ t \notin Elems(events) /\ t \notin Taken /\ ~Settled(t)
  BY <1>1 DEF PlaceInv, Settled
<1>4. \A u \in Tools : answer'[u] = IF u = t THEN kind ELSE answer[u]
  BY <1>1 DEF TypeInv, TypeOK
<1>5. Settled(t)' /\ pending' \subseteq pending
  BY <1>1, <1>2, <1>3 DEF Settled
<1>6. CASE home
  <2>1. Decide(t, kind) /\ ok' = ok
    BY <1>6 DEF ResolveApproval
  <2>2. kind = "deny" => answer'[t] \notin Approving
    BY <1>4 DEF Approving
  <2> QED BY <1>1, <1>2, <1>3, <1>4, <1>5, <2>1, <2>2, Deciding
<1>7. CASE ~home
  <2>1. /\ out' = out /\ decided' = decided
        /\ ok' \in {ok, IF kind = "deny" THEN ok ELSE ok \cup {t}}
    BY <1>7 DEF ResolveApproval
  <2>2. Decisions' = Decisions
    BY <1>1, <2>1 DEF Decisions, Elems
  <2>3. /\ ~Unasked(t) /\ verdict[t] \notin {"approved", "denied"} /\ t \notin ok
        /\ \A d \in Decisions : d.id \in Tools /\ d.id # t
    <3>1. \A d \in Decisions : d.id \in Tools /\ decided[d.id] = 1
      BY DecisionTypes DEF RightInv, Rightful
    <3> QED BY <1>1, <1>3, <3>1 DEF PlaceInv, RightInv, Settled, Untouched, Approving
  <2>4. \A u \in Tools : /\ Unasked(u)' => Unasked(u) /\ u # t
                         /\ u # t /\ Untouched(u) => Untouched(u)'
                         /\ Settled(u) => Settled(u)'
    BY <1>1, <1>2, <1>4, <2>1, <2>3 DEF Unasked, Untouched, Settled
  <2>5. PlaceInv'
    <3>1. \A u \in Tools : Unasked(u)' => Settled(u)' /\ Untouched(u)'
      BY <2>4 DEF PlaceInv
    <3>2. \A u \in Tools : u \in Elems(events)' => u \notin pending' \cup Taken' /\ Untouched(u)'
      BY <1>1, <1>2, <1>3, <1>5, <2>4 DEF PlaceInv
    <3>4. \A u \in Taken' : u \notin pending' /\ Untouched(u)'
      BY <1>1, <1>3, <2>4, TakenTypes DEF PlaceInv
    <3>3. \A u \in pending' : Untouched(u)'
      <4>1. \A u \in pending' : u \in Tools /\ u # t /\ u \in pending
        BY <1>1 DEF TypeInv, TypeOK
      <4> QED BY <2>4, <4>1 DEF PlaceInv
    <3> QED BY <1>1, <1>2, <3>1, <3>2, <3>3, <3>4 DEF PlaceInv
  <2>6. \A k : Remembered(k) => Remembered(k)'
    BY <1>3, <1>4 DEF Remembered, Untouched
  <2>7. \A d \in Decisions' : Rightful(d)'
    BY <1>4, <2>1, <2>2, <2>3 DEF RightInv, Rightful
  <2>8. \A u \in Tools : ran'[u] = "run" => verdict'[u] = "approved" \/ Remembered(Key[u])'
    BY <1>1, <2>6 DEF RightInv
  <2>9. \A u \in ok' : answer'[u] \in Approving
    <3>1. kind # "deny" => kind \in Approving
      BY DEF Kinds, Approving
    <3>2. \A u \in ok' : (u \in ok /\ u # t) \/ (u = t /\ kind # "deny")
      BY <2>1, <2>3
    <3> QED BY <1>4, <3>1, <3>2 DEF RightInv, TypeInv, TypeOK
  <2>10. \A u \in Tools : verdict'[u] = "denied" => Settled(u)' /\ answer'[u] \notin Approving
    BY <1>1, <1>4, <2>3, <2>4 DEF RightInv
  <2>11. \A u \in Tools : verdict'[u] = "approved" =>
             /\ Settled(u)' /\ answer'[u] # "deny"
             /\ u \in AutoApproved \/ answer'[u] \in Approving \/ Remembered(Key[u])'
    BY <1>1, <1>4, <2>3, <2>4, <2>6 DEF RightInv
  <2>12. RightInv'
    BY <1>1, <2>1, <2>6, <2>7, <2>8, <2>9, <2>10, <2>11 DEF RightInv
  <2> QED BY <2>5, <2>12
<1> QED BY <1>6, <1>7

LEMMA SendStep ==
    ASSUME IInv, NEW d \in out, Send(d) PROVE PlaceInv' /\ RightInv'
<1> USE DEF IInv
<1>1. /\ events' = events /\ wait' = wait /\ verdict' = verdict /\ cache' = cache
      /\ pending' = pending /\ decided' = decided /\ answer' = answer
      /\ out' = out \ {d} /\ chan' = Append(chan, d) /\ ran' = ran /\ Taken' = Taken
      /\ ok' = IF d.kind = answer[d.id] /\ d.kind # "deny" THEN ok \cup {d.id} ELSE ok
  BY DEF Send, engine, manager, Taken
<1>2. d \in [id : Tools, kind : Kinds] /\ Rightful(d)
  BY DEF Decisions, RightInv, TypeInv, TypeOK
<1>3. Decisions' \subseteq Decisions
  <2>1. Elems(Append(chan, d)) = Elems(chan) \cup {d}
    <3> DEFINE S == [id : Tools, kind : Kinds]
    <3>1. chan \in Seq(S) /\ d \in S
      BY <1>2 DEF TypeInv, TypeOK
    <3> HIDE DEF S
    <3> QED BY <3>1, AppendOne
  <2>2. Elems(chan') = Elems(chan) \cup {d}
    BY <1>1, <2>1
  <2>3. Elems(chan)' = Elems(chan')
    BY DEF Elems
  <2> QED BY <1>1, <2>2, <2>3 DEF Decisions
<1>4. \A u : /\ Untouched(u)' <=> Untouched(u)
             /\ Unasked(u)' <=> Unasked(u)
             /\ Settled(u)' <=> Settled(u)
             /\ Rightful(u)' <=> Rightful(u)
             /\ Remembered(u)' <=> Remembered(u)
  BY <1>1 DEF Untouched, Unasked, Settled, Rightful, Remembered, Elems
<1>5. PlaceInv'
  BY <1>1, <1>4 DEF PlaceInv, Elems, Once
<1>6. \A u \in ok' : answer'[u] \in Approving
  <2>1. d.kind # "deny" /\ d.kind = answer[d.id] => answer[d.id] \in Approving
    BY <1>2 DEF Kinds, Approving
  <2> QED BY <1>1, <2>1 DEF RightInv
<1>7. RightInv'
  BY <1>1, <1>3, <1>4, <1>6 DEF RightInv
<1> QED BY <1>5, <1>7

LEMMA InvStep == IInv /\ [Next]_vars => IInv'
<1> SUFFICES ASSUME IInv, [Next]_vars PROVE IInv'
  OBVIOUS
<1>1. TypeInv'
  BY TypeStep DEF IInv
<1>2. CASE \E t \in Tools : Request(t)
  BY <1>1, <1>2, RequestStep DEF IInv
<1>3. CASE \E t \in Tools : TimerFires(t)
  BY <1>1, <1>3, TimerStep DEF IInv
<1>4. CASE \E t \in Tools, k \in Kinds : ResolveApproval(t, k)
  BY <1>1, <1>4, ResolveStep DEF IInv
<1>5. CASE Receive
  BY <1>1, <1>5, ReceiveStep DEF IInv
<1>6. ASSUME NEW v \in {"cancelled", "timeout"}, Asked, Verdict(v),
             UNCHANGED <<ran, cache, events, mon, manager, out, chan, hist>>
      PROVE  PlaceInv' /\ RightInv'
  <2>1. /\ events' = events /\ pending' = pending /\ decided' = decided /\ answer' = answer
        /\ ok' = ok /\ cache' = cache /\ Decisions' = Decisions
        /\ ran' = ran /\ Taken' = Taken
    BY <1>6 DEF manager, hist, Decisions, Elems, Taken
  <2>2. v \in {"approved", "denied", "timeout", "cancelled"} /\ v # "denied" /\ v # "approved"
    OBVIOUS
  <2> QED BY <1>6, <2>1, <2>2, Ending
<1>7. CASE Cancelled \/ TimedOut
  <2>1. \E v \in {"cancelled", "timeout"} :
           /\ Asked /\ Verdict(v)
           /\ UNCHANGED <<ran, cache, events, mon, manager, out, chan, hist>>
    BY <1>7 DEF Cancelled, TimedOut
  <2> QED BY <1>1, <1>6, <2>1 DEF IInv
<1>8. CASE TakeRequest
  BY <1>1, <1>8, TakeRequestStep DEF IInv
<1>14. CASE ReadFlags \/ ExecuteBatch
  BY <1>1, <1>14, ReadFlagsStep, ExecuteStep DEF IInv
<1>9. CASE Sending
  <2>1. PICK t \in Tools, k \in Kinds : Send([id |-> t, kind |-> k])
    BY <1>9 DEF Sending
  <2>2. [id |-> t, kind |-> k] \in out
    BY <2>1 DEF Send
  <2> QED BY <1>1, <2>1, <2>2, SendStep DEF IInv
<1>10. ASSUME pending' = pending, decided' = decided, answer' = answer, ok' = ok, cache' = cache,
              wait' = wait, verdict' = verdict, ran' = ran, out' = out, chan' = chan,
              Taken' = Taken,
              Elems(events)' \subseteq Elems(events) \cup {NoTool}, Once(events)'
       PROVE  IInv'
  <2>1. Decisions' \subseteq Decisions
    BY <1>10 DEF Decisions, Elems
  <2> QED BY <1>1, <1>10, <2>1, Keeping DEF IInv
<1>11. CASE TurnComplete
  <2>1. /\ pending' = pending /\ decided' = decided /\ answer' = answer /\ ok' = ok
        /\ cache' = cache /\ wait' = wait /\ verdict' = verdict /\ ran' = ran
        /\ out' = out /\ chan' = chan
        /\ events' = Append(events, NoTool) /\ Taken' = Taken
    BY <1>11 DEF TurnComplete, manager, hist, Taken
  <2>2. Elems(Append(events, NoTool)) \subseteq Elems(events) \cup {NoTool}
        /\ Once(Append(events, NoTool))
    BY AppendOne DEF IInv, TypeInv, TypeOK, PlaceInv
  <2>3. Elems(events)' \subseteq Elems(events) \cup {NoTool} /\ Once(events)'
    BY <2>1, <2>2 DEF Elems, Once
  <2> QED BY <1>10, <2>1, <2>3
<1>12. CASE TakeComplete
  <2>1. /\ pending' = pending /\ decided' = decided /\ answer' = answer /\ ok' = ok
        /\ cache' = cache /\ wait' = wait /\ verdict' = verdict /\ ran' = ran
        /\ out' = out /\ chan' = chan
        /\ events # <<>> /\ events' = Tail(events) /\ Taken' = Taken
    BY <1>12 DEF TakeComplete, engine, hist, Taken
  <2>2. Elems(Tail(events)) \subseteq Elems(events) /\ Once(Tail(events))
    BY <2>1, TakeHead DEF IInv, TypeInv, TypeOK, PlaceInv
  <2>3. Elems(events)' \subseteq Elems(events) \cup {NoTool} /\ Once(events)'
    BY <2>1, <2>2 DEF Elems, Once
  <2> QED BY <1>10, <2>1, <2>3
<1>13. CASE Interrupt \/ NextTurn \/ ArmTimer \/ EmitFails \/ Displace \/ UNCHANGED vars
  <2>1. /\ pending' = pending /\ decided' = decided /\ answer' = answer /\ ok' = ok
        /\ cache' = cache /\ wait' = wait /\ verdict' = verdict /\ ran' = ran
        /\ out' = out /\ chan' = chan
        /\ events' = events /\ Taken' = Taken
    BY <1>13 DEF Interrupt, NextTurn, ArmTimer, EmitFails, Displace, engine, manager, hist, vars,
                 Taken, Idle
  <2>2. Elems(events)' \subseteq Elems(events) \cup {NoTool} /\ Once(events)'
    BY <2>1 DEF Elems, Once, IInv, PlaceInv
  <2> QED BY <1>10, <2>1, <2>2
<1> QED
  BY <1>2, <1>3, <1>4, <1>5, <1>7, <1>8, <1>9, <1>11, <1>12, <1>13, <1>14 DEF Next

LEMMA InvInit == Init => IInv
<1> SUFFICES ASSUME Init PROVE IInv
  OBVIOUS
<1>1. Elems(events) = {} /\ Elems(chan) = {} /\ Once(events) /\ Taken = {}
  BY DEF Init, Elems, Once, Taken, Idle
<1>2. PlaceInv
  BY <1>1 DEF Init, PlaceInv, Settled, Untouched, Unasked
<1>3. RightInv
  BY <1>1, ToolsAssumption DEF Init, RightInv, Decisions
<1> QED BY <1>2, <1>3, TypeInit DEF IInv

-----------------------------------------------------------------------------
(* The theorems. *)

\* The inductive invariant: requests are in one place, decisions are rightful.
THEOREM Invariance == Spec => []IInv
BY InvInit, InvStep, PTL DEF Spec

\* The variables of engine, monitor and channels keep their shapes.
THEOREM Typing == Spec => []TypeOK
<1>1. IInv => TypeOK
  BY DEF IInv, TypeInv
<1> QED BY <1>1, Invariance, PTL

\* The timer, the user and the monitor never both decide one request.
THEOREM SingleDecision == Spec => []OneDecision
<1>1. IInv => OneDecision
  BY DEF IInv, RightInv, OneDecision
<1> QED BY <1>1, Invariance, PTL

\* No stray, late or foreign decision lets a tool call run (approval.rs,
\* tool_plans_exec.rs).
THEOREM RightfulExecution == Spec => []ExecutedByRight
<1>1. IInv => ExecutedByRight
  BY DEF IInv, RightInv, ExecutedByRight
<1> QED BY <1>1, Invariance, PTL

\* What the user said is not turned round, except by what he said for the session
\* (resolve_approval, tool_plans_exec.rs).
THEOREM AnswersKept == Spec => []AnswerKept
<1>1. IInv => AnswerKept
  BY DEF IInv, RightInv, AnswerKept
<1> QED BY <1>1, Invariance, PTL

-----------------------------------------------------------------------------
(* The life of a question. *)

\* A decision is in one place: on its way, or in the channel once.
Sole ==
    /\ out \cap Elems(chan) = {}
    /\ \A i, j \in 1..Len(chan) : chan[i] = chan[j] => i = j

LInv == IInv /\ Sole

LEMMA TakeSole ==
    ASSUME NEW S, NEW q \in Seq(S), q # <<>>,
           \A i, j \in 1..Len(q) : q[i] = q[j] => i = j
    PROVE  /\ Elems(Tail(q)) = Elems(q) \ {Head(q)}
           /\ \A i, j \in 1..Len(Tail(q)) : Tail(q)[i] = Tail(q)[j] => i = j
<1>1. /\ Head(q) = q[1] /\ Len(q) \in Nat \ {0} /\ Len(Tail(q)) = Len(q) - 1
      /\ \A i \in 1..(Len(q) - 1) : Tail(q)[i] = q[i + 1]
  OBVIOUS
<1>2. \A i \in 1..(Len(q) - 1) : i + 1 \in 1..Len(q) /\ i + 1 # 1
  BY <1>1
<1>3. \A i \in 1..Len(q) : i = 1 \/ (i - 1 \in 1..(Len(q) - 1) /\ Tail(q)[i - 1] = q[i])
  BY <1>1
<1>4. 1 \in 1..Len(q)
  BY <1>1
<1>5. \A i, j \in 1..(Len(q) - 1) : Tail(q)[i] = Tail(q)[j] => i = j
  <2> SUFFICES ASSUME NEW i \in 1..(Len(q) - 1), NEW j \in 1..(Len(q) - 1), q[i + 1] = q[j + 1]
               PROVE  i = j
    BY <1>1
  <2> QED BY <1>1, <1>2
<1>6. \A i \in 1..(Len(q) - 1) : Tail(q)[i] \in Elems(q) \ {Head(q)}
  BY <1>1, <1>2, <1>4 DEF Elems
<1>7. \A i \in 1..Len(q) : q[i] # Head(q) => q[i] \in Elems(Tail(q))
  BY <1>1, <1>3 DEF Elems
<1>8. Elems(Tail(q)) = Elems(q) \ {Head(q)}
  BY <1>1, <1>6, <1>7 DEF Elems
<1> QED BY <1>1, <1>5, <1>8

LEMMA TakeOthers ==
    ASSUME NEW S, NEW q \in Seq(S), q # <<>>
    PROVE  Elems(q) = Elems(Tail(q)) \cup {Head(q)}
<1>1. /\ Head(q) = q[1] /\ Len(q) \in Nat \ {0} /\ Len(Tail(q)) = Len(q) - 1
      /\ \A i \in 1..(Len(q) - 1) : Tail(q)[i] = q[i + 1]
  OBVIOUS
<1>2. \A i \in 1..Len(q) : i = 1 \/ (i - 1 \in 1..(Len(q) - 1) /\ Tail(q)[i - 1] = q[i])
  BY <1>1
<1>3. \A i \in 1..Len(q) : q[i] \in Elems(Tail(q)) \cup {Head(q)}
  BY <1>1, <1>2 DEF Elems
<1>4. Elems(q) \subseteq Elems(Tail(q)) \cup {Head(q)}
  BY <1>3 DEF Elems
<1> QED BY <1>4, TakeHead

LEMMA LifeFacts ==
    /\ Open = pending \cup Taken \cup (Elems(events) \ {NoTool})
    /\ Open' = pending' \cup Taken' \cup (Elems(events') \ {NoTool})
    /\ Underway = out \cup Elems(chan) /\ Underway' = out' \cup Elems(chan')
    /\ Decisions = Underway
  BY DEF Open, Underway, Elems, Decisions

\* Before a step.
LEMMA LifeBefore ==
    ASSUME LInv
    PROVE  /\ events \in Seq(Tools \cup {NoTool}) /\ chan \in Seq([id : Tools, kind : Kinds])
           /\ NoTool \notin Tools /\ Open \subseteq Tools
           /\ Underway \subseteq [id : Tools, kind : Kinds]
           /\ \A t \in Tools : t \in Open =>
                  Untouched(t) /\ verdict[t] \notin {"approved", "denied"}
           /\ \A d \in Underway : Rightful(d)
           /\ \A t \in pending : t \notin Elems(events) \cup Taken
           /\ \A t \in Taken : t \notin Elems(events)
<1>1. events \in Seq(Tools \cup {NoTool}) /\ chan \in Seq([id : Tools, kind : Kinds])
  BY DEF LInv, IInv, TypeInv, TypeOK
<1>2. NoTool \notin Tools
  BY ToolsAssumption
<1>3. /\ Elems(events) \subseteq Tools \cup {NoTool}
      /\ pending \subseteq Tools /\ Taken \subseteq Tools
  BY <1>1, ElemsTypes, TakenTypes DEF LInv, IInv, TypeInv, TypeOK
<1>4. Open \subseteq Tools
  BY <1>3, LifeFacts
<1>5. Underway \subseteq [id : Tools, kind : Kinds]
  BY LifeFacts, DecisionTypes DEF LInv, IInv
<1>6. \A t \in Tools : t \in Open => Untouched(t) /\ ~Settled(t)
  BY LifeFacts DEF LInv, IInv, PlaceInv, Settled
<1>7. \A t \in Tools : t \in Open => verdict[t] \notin {"approved", "denied"}
  BY <1>6 DEF LInv, IInv, RightInv
<1>8. \A d \in Underway : Rightful(d)
  BY LifeFacts DEF LInv, IInv, RightInv
<1>9. /\ \A t \in pending : t \notin Elems(events) \cup Taken
      /\ \A t \in Taken : t \notin Elems(events)
  BY <1>3 DEF LInv, IInv, PlaceInv
<1> QED BY <1>1, <1>2, <1>4, <1>5, <1>6, <1>7, <1>8, <1>9

\* What the user sees does not change.
LEMMA LifeStutter ==
    ASSUME UNCHANGED <<wait, verdict, ran, cache, answer, ok>>, Open' = Open, Underway' = Underway
    PROVE  UNCHANGED Life!vars
  BY DEF Life!vars

\* A new decision is on its way.
LEMMA LifeDecides ==
    ASSUME LInv, NEW t \in Tools, t \in Open, NEW kind \in Kinds, Decide(t, kind), chan' = chan
    PROVE  Underway' = Underway \cup {Life!Decision(t, kind)} /\ Sole'
<1> DEFINE d == [id |-> t, kind |-> kind]
<1>1. out' = out \cup {d}
  BY DEF Decide
<1>2. decided[t] = 0 /\ d.id = t
  BY LifeBefore DEF Untouched
<1>3. \A e \in Elems(chan) : e.id # t
  BY <1>2, LifeBefore, LifeFacts DEF Rightful
<1>4. d \notin Elems(chan)
  BY <1>2, <1>3
<1> HIDE DEF d
<1>5. Sole'
  BY <1>1, <1>4 DEF LInv, Sole, Elems
<1>6. Underway' = Underway \cup {d}
  BY <1>1, LifeFacts
<1> QED BY <1>5, <1>6 DEF d, Life!Decision

-----------------------------------------------------------------------------
(* The engine. *)

LEMMA LifeRequest ==
    ASSUME LInv, NEW t \in Tools, Request(t) PROVE Life!Next /\ Sole'
<1>1. /\ wait = NoTool /\ verdict[t] = "none" /\ out' = out /\ chan' = chan
      /\ UNCHANGED <<ran, cache, pending, answer, ok>> /\ Taken' = Taken
  BY DEF Request, Asked, manager, hist, Taken
<1>2. Underway' = Underway /\ Sole'
  BY <1>1, LifeFacts DEF LInv, Sole, Elems
<1>3. CASE Key[t] \in cache
  <2>1. events' = events /\ wait' = wait /\ verdict' = [verdict EXCEPT ![t] = "approved"]
    BY <1>3 DEF Request
  <2>2. Open' = Open
    BY <1>1, <2>1, LifeFacts
  <2>3. Life!Recall(t)
    BY <1>1, <1>2, <1>3, <2>1, <2>2 DEF Life!Recall, Life!Fresh
  <2> QED BY <1>2, <2>3 DEF Life!Next
<1>4. CASE Key[t] \notin cache
  <2>1. events' = Append(events, t) /\ wait' = t /\ verdict' = verdict
    BY <1>4 DEF Request
  <2>2. Elems(Append(events, t)) = Elems(events) \cup {t}
    BY LifeBefore, AppendOne
  <2>3. Open' = Open \cup {t}
    BY <1>1, <2>1, <2>2, LifeFacts, LifeBefore
  <2>4. Life!Ask(t)
    BY <1>1, <1>2, <1>4, <2>1, <2>3 DEF Life!Ask, Life!Fresh
  <2> QED BY <1>2, <2>4 DEF Life!Next
<1> QED BY <1>3, <1>4

LEMMA LifeReceive ==
    ASSUME LInv, Receive PROVE Life!Next /\ Sole'
<1>1. /\ wait # NoTool /\ chan # <<>> /\ chan' = Tail(chan) /\ out' = out
      /\ UNCHANGED <<ran, pending, events, answer, ok>> /\ Taken' = Taken
  BY DEF Receive, Asked, manager, hist, engine, Taken
<1>2. PICK d : d = Head(chan)
  OBVIOUS
<1>3. d \in [id : Tools, kind : Kinds] /\ d \in Elems(chan) /\ d \in Underway
  BY <1>1, <1>2, LifeBefore, LifeFacts, TakeHead
<1>4. /\ Elems(Tail(chan)) = Elems(chan) \ {d}
      /\ \A i, j \in 1..Len(Tail(chan)) : Tail(chan)[i] = Tail(chan)[j] => i = j
  BY <1>1, <1>2, LifeBefore, TakeSole DEF LInv, Sole
<1>5. Underway' = Underway \ {d} /\ Open' = Open
  BY <1>1, <1>3, <1>4, LifeFacts DEF LInv, Sole
<1>6. Sole'
  BY <1>1, <1>4 DEF LInv, Sole, Elems
<1>7. CASE d.id = wait
  <2>1. /\ Verdict(IF d.kind = "deny" THEN "denied" ELSE "approved")
        /\ cache' = IF d.kind = "remember" THEN cache \cup {Key[wait]} ELSE cache
    BY <1>2, <1>7 DEF Receive, Matches
  <2>2. Life!Decision(wait, d.kind) = d /\ d.kind \in Life!Answers
    BY <1>3, <1>7 DEF Life!Decision, Life!Answers, Kinds
  <2>3. Life!Obey(d.kind)
    BY <1>1, <1>3, <1>5, <2>1, <2>2 DEF Life!Obey, Life!End, Verdict
  <2> QED BY <1>6, <2>2, <2>3 DEF Life!Next
<1>8. CASE d.id # wait
  <2>1. UNCHANGED <<wait, verdict, cache>>
    BY <1>2, <1>8 DEF Receive, Matches, engine
  <2>2. Life!Discard(d)
    BY <1>1, <1>3, <1>5, <1>8, <2>1 DEF Life!Discard
  <2> QED BY <1>3, <1>6, <2>2 DEF Life!Next
<1> QED BY <1>7, <1>8

LEMMA LifeGiveUp ==
    ASSUME LInv, Cancelled \/ TimedOut PROVE Life!Next /\ Sole'
<1>1. /\ UNCHANGED <<ran, cache, events, pending, out, chan, answer, ok>>
      /\ Asked /\ Taken' = Taken
  BY DEF Cancelled, TimedOut, manager, hist, Taken
<1>2. Open' = Open /\ Underway' = Underway /\ Sole'
  BY <1>1, LifeFacts DEF LInv, Sole, Elems
<1>3. CASE Cancelled
  <2>1. Life!GiveUp("cancelled")
    BY <1>1, <1>2, <1>3 DEF Cancelled, Verdict, Asked, Life!GiveUp, Life!End
  <2> QED BY <1>2, <2>1 DEF Life!Next
<1>4. CASE TimedOut
  <2>1. Life!GiveUp("timeout")
    BY <1>1, <1>2, <1>4 DEF TimedOut, Verdict, Asked, Life!GiveUp, Life!End
  <2> QED BY <1>2, <2>1 DEF Life!Next
<1> QED BY <1>3, <1>4

LEMMA LifeExecute ==
    ASSUME LInv, ExecuteBatch PROVE Life!Next /\ Sole'
<1>1. /\ UNCHANGED <<wait, verdict, cache, events, pending, out, chan, answer, ok>>
      /\ wait = NoTool /\ Taken' = Taken
  BY DEF ExecuteBatch, Asked, manager, hist, Taken
<1>2. Open' = Open /\ Underway' = Underway /\ Sole'
  BY <1>1, LifeFacts DEF LInv, Sole, Elems
<1>3. \A t \in Tools : ran[t] \in {"none", "run", "refused"}
  BY DEF LInv, IInv, TypeInv, TypeOK
<1>4. PICK cut \in SUBSET Batch :
        ran' = [t \in Tools |-> IF t \notin Batch THEN ran[t]
                               ELSE IF Passes(t) /\ t \notin cut THEN "run" ELSE "refused"]
  BY DEF ExecuteBatch
<1>5. ran' \in [Tools -> {"none", "run", "refused"}]
  BY <1>3, <1>4
<1>6. \A t \in Tools : IF verdict[t] = "none" \/ ran[t] # "none" THEN ran'[t] = ran[t]
                       ELSE ran'[t] # "none" /\ (ran'[t] = "run" => Life!Executable(t))
  BY <1>4 DEF Batch, Passes, Life!Executable
<1>7. Life!Perform
  BY <1>1, <1>2, <1>5, <1>6 DEF Life!Perform
<1> QED BY <1>2, <1>7 DEF Life!Next

-----------------------------------------------------------------------------
(* The monitor, the timers and the user. *)

LEMMA LifeTakeRequest ==
    ASSUME LInv, TakeRequest PROVE [Life!Next]_(Life!vars) /\ Sole'
<1>1. /\ events # <<>> /\ events' = Tail(events) /\ Head(events) # NoTool /\ chan' = chan
      /\ UNCHANGED <<wait, verdict, ran, cache, answer, ok>> /\ pending' = pending /\ Taken = {}
  BY DEF TakeRequest, engine, manager, Taken
<1>2. PICK t \in Tools : t = Head(events)
  BY <1>1, LifeBefore, TakeHead
<1>3. Elems(events) = Elems(Tail(events)) \cup {t} /\ t \notin Elems(Tail(events))
  BY <1>1, <1>2, LifeBefore, TakeHead, TakeOthers DEF LInv, IInv, PlaceInv
<1>4. t \in Open /\ t \notin pending
  BY <1>2, <1>3, LifeBefore, LifeFacts
<1>5. CASE ~live
  <2>1. Decide(t, "deny") /\ Taken' = Taken
    BY <1>2, <1>5 DEF TakeRequest, Taken
  <2>2. Open' = Open \ {t}
    BY <1>1, <1>3, <1>4, <2>1, LifeFacts
  <2>3. "deny" \in Kinds /\ "deny" \in Life!Answers
    BY DEF Kinds, Life!Answers
  <2>4. Underway' = Underway \cup {Life!Decision(t, "deny")} /\ Sole'
    BY <1>1, <1>4, <2>1, <2>3, LifeDecides
  <2>5. Life!CloseFor(t, "deny")
    BY <1>1, <1>4, <2>2, <2>4 DEF Life!CloseFor
  <2> QED BY <2>3, <2>4, <2>5 DEF Life!Next
<1>6. CASE live
  <2>1. Taken' = {t} /\ out' = out
    BY <1>2, <1>6 DEF TakeRequest, Taken
  <2>2. Open' = Open
    BY <1>1, <1>2, <1>3, <2>1, LifeFacts, LifeBefore
  <2>3. Underway' = Underway /\ Sole'
    BY <1>1, <2>1, LifeFacts DEF LInv, Sole, Elems
  <2> QED BY <1>1, <2>2, <2>3, LifeStutter
<1> QED BY <1>5, <1>6

LEMMA LifeReadFlags ==
    ASSUME LInv, ReadFlags PROVE [Life!Next]_(Life!vars) /\ Sole'
<1>1. PICK t \in Tools : t = mon.tool
  BY DEF ReadFlags, LInv, IInv, TypeInv
<1>2. /\ UNCHANGED <<wait, verdict, ran, cache, answer, ok, events, chan>>
      /\ Taken = {t} /\ Taken' = {}
  BY <1>1 DEF ReadFlags, engine, Taken, Idle
<1>3. t \in Open /\ t \notin pending /\ t \notin Elems(events)
  BY <1>2, LifeFacts, LifeBefore
<1>4. CASE live /\ t \in AutoApproved
  <2>1. Decide(t, "approve") /\ pending' = pending
    BY <1>1, <1>4 DEF ReadFlags
  <2>2. Open' = Open \ {t}
    BY <1>2, <1>3, <2>1, LifeFacts
  <2>3. "approve" \in Kinds /\ "approve" \in Life!Answers
    BY DEF Kinds, Life!Answers
  <2>4. Underway' = Underway \cup {Life!Decision(t, "approve")} /\ Sole'
    BY <1>2, <1>3, <2>1, <2>3, LifeDecides
  <2>5. Life!CloseFor(t, "approve")
    BY <1>2, <1>3, <1>4, <2>2, <2>4 DEF Life!CloseFor
  <2> QED BY <2>3, <2>4, <2>5 DEF Life!Next
<1>5. CASE ~(live /\ t \in AutoApproved)
  <2>1. pending' = pending \cup {t} /\ out' = out
    BY <1>1, <1>5 DEF ReadFlags
  <2>2. Open' = Open
    BY <1>2, <2>1, LifeFacts
  <2>3. Underway' = Underway /\ Sole'
    BY <1>2, <2>1, LifeFacts DEF LInv, Sole, Elems
  <2> QED BY <1>2, <2>2, <2>3, LifeStutter
<1> QED BY <1>4, <1>5

LEMMA LifeTimer ==
    ASSUME LInv, NEW t \in Tools, TimerFires(t) PROVE [Life!Next]_(Life!vars) /\ Sole'
<1>1. UNCHANGED <<wait, verdict, ran, cache, answer, ok, events, chan>> /\ Taken' = Taken
  BY DEF TimerFires, engine, Taken
<1>2. CASE t \in pending
  <2>1. Decide(t, "deny") /\ pending' = pending \ {t}
    BY <1>2 DEF TimerFires, Expire
  <2>2. t \in Open /\ Open' = Open \ {t}
    BY <1>1, <1>2, <2>1, LifeBefore, LifeFacts
  <2>3. "deny" \in Kinds /\ "deny" \in Life!Answers
    BY DEF Kinds, Life!Answers
  <2>4. Underway' = Underway \cup {Life!Decision(t, "deny")} /\ Sole'
    BY <1>1, <2>1, <2>2, <2>3, LifeDecides
  <2>5. Life!CloseFor(t, "deny")
    BY <1>1, <2>2, <2>4 DEF Life!CloseFor
  <2> QED BY <2>3, <2>4, <2>5 DEF Life!Next
<1>3. CASE t \notin pending
  <2>1. pending' = pending /\ out' = out
    BY <1>3 DEF TimerFires, Expire
  <2>2. Open' = Open /\ Underway' = Underway /\ Sole'
    BY <1>1, <2>1, LifeFacts DEF LInv, Sole, Elems
  <2> QED BY <1>1, <2>2, LifeStutter
<1> QED BY <1>2, <1>3

LEMMA LifeResolve ==
    ASSUME LInv, NEW t \in Tools, NEW kind \in Kinds, ResolveApproval(t, kind)
    PROVE  Life!Next /\ Sole'
<1>1. /\ t \in pending /\ pending' = pending \ {t} /\ answer' = [answer EXCEPT ![t] = kind]
      /\ UNCHANGED <<wait, verdict, ran, cache, events, chan>> /\ Taken' = Taken
  BY DEF ResolveApproval, engine, Taken
<1>2. t \in Open /\ Open' = Open \ {t}
  BY <1>1, LifeBefore, LifeFacts
<1>3. /\ \/ Underway' = Underway \cup {Life!Decision(t, kind)} /\ ok' = ok
         \/ Underway' = Underway /\ ok' \in {ok, IF kind = "deny" THEN ok ELSE ok \cup {t}}
      /\ Sole'
  <2>1. CASE home
    <3>1. Decide(t, kind) /\ ok' = ok
      BY <2>1 DEF ResolveApproval
    <3> QED BY <1>1, <1>2, <3>1, LifeDecides
  <2>2. CASE ~home
    BY <1>1, <2>2, LifeFacts DEF ResolveApproval, LInv, Sole, Elems
  <2> QED BY <2>1, <2>2
<1>4. Life!Answer(t, kind) /\ kind \in Life!Answers
  BY <1>1, <1>2, <1>3 DEF Life!Answer, Life!Answers, Kinds
<1> QED BY <1>3, <1>4 DEF Life!Next

LEMMA LifeSend ==
    ASSUME LInv, NEW d \in out, Send(d) PROVE [Life!Next]_(Life!vars) /\ Sole'
<1>1. /\ out' = out \ {d} /\ chan' = Append(chan, d)
      /\ ok' = IF d.kind = answer[d.id] /\ d.kind # "deny" THEN ok \cup {d.id} ELSE ok
      /\ UNCHANGED <<wait, verdict, ran, cache, events, pending, answer>> /\ Taken' = Taken
  BY DEF Send, engine, manager, Taken
<1>2. d \in [id : Tools, kind : Kinds] /\ d \in Underway /\ d \notin Elems(chan)
  BY LifeBefore, LifeFacts DEF LInv, Sole
<1>3. /\ Elems(Append(chan, d)) = Elems(chan) \cup {d} /\ Len(chan) \in Nat
      /\ Len(Append(chan, d)) = Len(chan) + 1
      /\ \A i \in 1..Len(chan) : Append(chan, d)[i] = chan[i] /\ chan[i] # d
      /\ Append(chan, d)[Len(chan) + 1] = d
  <2> DEFINE S == [id : Tools, kind : Kinds]
  <2>1. chan \in Seq(S) /\ d \in S
    BY <1>2, LifeBefore
  <2> HIDE DEF S
  <2>2. Elems(Append(chan, d)) = Elems(chan) \cup {d}
    BY <2>1, AppendOne
  <2>3. \A i \in 1..Len(chan) : chan[i] # d
    BY <1>2 DEF Elems
  <2> QED BY <2>1, <2>2, <2>3
<1>4. Open' = Open /\ Underway' = Underway
  BY <1>1, <1>3, LifeFacts
<1>5. Sole'
  <2>1. out' \cap Elems(chan') = {}
    BY <1>1, <1>3 DEF LInv, Sole
  <2>2. \A i, j \in 1..Len(chan') : chan'[i] = chan'[j] => i = j
    <3> SUFFICES ASSUME NEW i \in 1..(Len(chan) + 1), NEW j \in 1..(Len(chan) + 1),
                        Append(chan, d)[i] = Append(chan, d)[j]
                 PROVE  i = j
      BY <1>1, <1>3
    <3>1. CASE i \in 1..Len(chan) /\ j \in 1..Len(chan)
      BY <1>3, <3>1 DEF LInv, Sole
    <3>2. CASE i = Len(chan) + 1 \/ j = Len(chan) + 1
      BY <1>3, <3>2
    <3> QED BY <1>3, <3>1, <3>2
  <2> QED BY <2>1, <2>2 DEF Sole, Elems
<1>6. CASE ok' = ok
  BY <1>1, <1>4, <1>5, <1>6, LifeStutter
<1>7. CASE ok' # ok
  <2>1. d.id \in Tools /\ d = Life!Decision(d.id, answer[d.id]) /\ answer[d.id] # "deny"
        /\ ok' = ok \cup {d.id}
    BY <1>1, <1>2, <1>7 DEF Life!Decision
  <2>2. Life!Tell(d.id)
    BY <1>1, <1>2, <1>4, <2>1 DEF Life!Tell
  <2> QED BY <1>5, <2>1, <2>2 DEF Life!Next
<1> QED BY <1>6, <1>7

\* Events that are no requests, turns and their engines.
LEMMA LifeQuiet ==
    ASSUME LInv, UNCHANGED <<wait, verdict, ran, cache, pending, out, chan, answer, ok>>,
           Taken' = Taken,
           \/ UNCHANGED events
           \/ events' = Append(events, NoTool)
           \/ events # <<>> /\ Head(events) = NoTool /\ events' = Tail(events)
    PROVE  UNCHANGED Life!vars /\ Sole'
<1>1. Elems(events') \ {NoTool} = Elems(events) \ {NoTool}
  <2>1. CASE events' = events
    BY <2>1
  <2>2. CASE events' = Append(events, NoTool)
    BY <2>2, LifeBefore, AppendOne
  <2>3. CASE events # <<>> /\ Head(events) = NoTool /\ events' = Tail(events)
    BY <2>3, LifeBefore, TakeOthers
  <2> QED BY <2>1, <2>2, <2>3
<1>2. Open' = Open
  BY <1>1, LifeFacts
<1>3. Underway' = Underway
  BY DEF Underway
<1>4. Sole'
  BY DEF LInv, Sole, Elems
<1> QED BY <1>2, <1>3, <1>4, LifeStutter

LEMMA LifeStep == LInv /\ [Next]_vars => [Life!Next]_(Life!vars) /\ Sole'
<1> SUFFICES ASSUME LInv, [Next]_vars PROVE [Life!Next]_(Life!vars) /\ Sole'
  OBVIOUS
<1>1. CASE \E t \in Tools : Request(t) \/ TimerFires(t)
  BY <1>1, LifeRequest, LifeTimer
<1>2. CASE \E t \in Tools, k \in Kinds : ResolveApproval(t, k)
  BY <1>2, LifeResolve
<1>3. CASE Receive \/ Cancelled \/ TimedOut \/ ExecuteBatch \/ TakeRequest \/ ReadFlags
  BY <1>3, LifeReceive, LifeGiveUp, LifeExecute, LifeTakeRequest, LifeReadFlags
<1>4. CASE Sending
  <2>1. PICK t \in Tools, k \in Kinds : Send([id |-> t, kind |-> k])
    BY <1>4 DEF Sending
  <2>2. [id |-> t, kind |-> k] \in out
    BY <2>1 DEF Send
  <2> QED BY <2>1, <2>2, LifeSend
<1>5. CASE \/ TurnComplete \/ TakeComplete \/ Interrupt \/ NextTurn \/ ArmTimer \/ EmitFails
           \/ Displace \/ UNCHANGED vars
  <2>1. UNCHANGED <<wait, verdict, ran, cache, pending, out, chan, answer, ok>>
    BY <1>5 DEF TurnComplete, TakeComplete, Interrupt, NextTurn, ArmTimer, EmitFails, Displace,
                vars, engine, manager, hist
  <2>3. \/ mon' = mon
        \/ mon.pc \in {"run", "arm", "done"} /\ mon'.pc \in {"run", "done"}
    BY <1>5 DEF TurnComplete, TakeComplete, Interrupt, NextTurn, ArmTimer, EmitFails, Displace,
                vars, Idle
  <2>4. Taken' = Taken
    BY <2>3 DEF Taken
  <2>2. \/ UNCHANGED events
        \/ events' = Append(events, NoTool)
        \/ events # <<>> /\ Head(events) = NoTool /\ events' = Tail(events)
    BY <1>5 DEF TurnComplete, TakeComplete, Interrupt, NextTurn, ArmTimer, EmitFails, Displace,
                vars
  <2> QED BY <2>1, <2>2, <2>4, LifeQuiet
<1> QED BY <1>1, <1>2, <1>3, <1>4, <1>5 DEF Next

LEMMA LifeInit == Init => Life!Init /\ Sole
<1> SUFFICES ASSUME Init PROVE Life!Init /\ Sole
  OBVIOUS
<1>1. Elems(events) = {} /\ Elems(chan) = {} /\ Taken = {}
  BY DEF Init, Elems, Taken, Idle
<1>2. Open = {} /\ Underway = {}
  BY <1>1, LifeFacts DEF Init
<1>3. Sole
  BY <1>1 DEF Init, Sole
<1> QED BY <1>2, <1>3 DEF Init, Life!Init

LEMMA LInvariance == Spec => []LInv
<1>1. LInv /\ [Next]_vars => LInv'
  BY InvStep, LifeStep DEF LInv
<1> QED BY <1>1, InvInit, LifeInit, PTL DEF Spec, LInv

\* Channels, timers, monitors and displaced engines implement the life of a question
\* (approval.rs, monitor.rs, resolve_approval): it is closed once, and the call that
\* waits obeys only the decision about itself.
THEOREM ApprovalRefinement == Spec => ImplementsApprovalLife
  BY LInvariance, LifeInit, LifeStep, PTL DEF Spec, ImplementsApprovalLife, Life!Spec

-----------------------------------------------------------------------------
(* What is said stays said. *)

LEMMA FinalStep ==
    ASSUME LInv, Life!Next PROVE Life!Final
<1>1. /\ wait \in Tools \cup {NoTool} /\ NoTool \notin Tools
      /\ verdict \in [Tools -> {"none", "approved", "denied", "timeout", "cancelled"}]
      /\ answer \in [Tools -> {"none"} \cup Kinds]
      /\ wait # NoTool => verdict[wait] = "none"
  BY LifeBefore DEF LInv, IInv, TypeInv, TypeOK, PlaceInv
<1>2. \A t \in Tools : t \in Open \/ Unasked(t) => answer[t] = "none"
  BY LifeBefore DEF LInv, IInv, PlaceInv, Untouched
<1>3. \A d \in Underway : Rightful(d)
  BY LifeBefore
<1>4. ASSUME NEW t \in Tools, Life!Ask(t) PROVE Life!Final
  BY <1>1, <1>2, <1>4 DEF Life!Ask, Life!Fresh, Life!Final, Unasked
<1>5. ASSUME NEW t \in Tools, Life!Recall(t) \/ Life!Tell(t) PROVE Life!Final
  BY <1>1, <1>2, <1>5 DEF Life!Recall, Life!Tell, Life!Fresh, Life!Final
<1>6. ASSUME NEW t \in Tools, NEW kind \in Life!Answers,
             Life!Answer(t, kind) \/ Life!CloseFor(t, kind)
      PROVE  Life!Final
  BY <1>1, <1>2, <1>6 DEF Life!Answer, Life!CloseFor, Life!Final
<1>7. ASSUME NEW kind \in Life!Answers, Life!Obey(kind) PROVE Life!Final
  <2>1. /\ wait \in Tools /\ wait' = NoTool /\ verdict[wait] = "none"
        /\ verdict' = [verdict EXCEPT ![wait] = IF kind = "deny" THEN "denied" ELSE "approved"]
        /\ cache' = IF kind = "remember" THEN cache \cup {Key[wait]} ELSE cache
        /\ Open' = Open /\ answer' = answer /\ ran' = ran
        /\ Life!Decision(wait, kind) \in Underway
    BY <1>1, <1>7 DEF Life!Obey, Life!End
  <2>2. kind = "remember" => answer[wait] = "remember"
    BY <1>3, <2>1 DEF Rightful, Life!Decision
  <2>3. \A t \in Tools :
          /\ verdict[t] # "none" => verdict'[t] = verdict[t]
          /\ answer[t] # "none" => answer'[t] = answer[t] /\ t \notin Open'
          /\ ran'[t] = ran[t]
    BY <1>1, <1>2, <2>1
  <2>4. \A t \in Tools : verdict'[t] = "approved" /\ verdict[t] # "approved" =>
          \E k \in Life!Answers \ {"deny"} : Life!Decision(t, k) \in Underway
    <3> SUFFICES ASSUME NEW t \in Tools, verdict'[t] = "approved", verdict[t] # "approved"
                 PROVE  \E k \in Life!Answers \ {"deny"} : Life!Decision(t, k) \in Underway
      OBVIOUS
    <3>1. t = wait /\ kind # "deny"
      BY <1>1, <2>1
    <3> QED BY <2>1, <3>1
  <2>5. \A k \in cache' \ cache : \E t \in Tools : Key[t] = k /\ answer[t] = "remember"
    BY <2>1, <2>2
  <2> QED BY <2>3, <2>4, <2>5 DEF Life!Final
<1>8. ASSUME NEW d \in Underway, Life!Discard(d) PROVE Life!Final
  BY <1>2, <1>8 DEF Life!Discard, Life!Final
<1>9. ASSUME NEW v \in {"timeout", "cancelled"}, Life!GiveUp(v) PROVE Life!Final
  BY <1>1, <1>2, <1>9 DEF Life!GiveUp, Life!End, Life!Final
<1>10. CASE Life!Perform
  BY <1>1, <1>2, <1>10 DEF Life!Perform, Life!Final
<1> QED BY <1>4, <1>5, <1>6, <1>7, <1>8, <1>9, <1>10 DEF Life!Next

\* What was noted for a call, what became of it and what the user answered are final;
\* an answered question is not open again; a call is executed by its verdict or by the
\* memory of the session at that moment, and only what the user said is remembered
\* (approval.rs, monitor.rs, tool_plans_exec.rs).
THEOREM SaidStays == Spec => Life!Finality
<1>1. LInv /\ [Next]_vars => [Life!Final]_(Life!vars)
  BY LifeStep, FinalStep
<1> QED BY <1>1, LInvariance, PTL DEF Spec, Life!Finality

=============================================================================
