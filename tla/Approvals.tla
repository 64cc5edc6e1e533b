----------------------------- MODULE Approvals -----------------------------
(***************************************************************************)
(* The handshake that asks the user before a tool runs.  The engine sends  *)
(* ApprovalRequired and waits on its decision channel, with a deadline of  *)
(* its own (runtime-server/src/core/engine/approval.rs, approval_ops.rs);  *)
(* the monitor of the turn answers for the user when the thread approves   *)
(* by itself, or registers a pending approval and a timer (monitor.rs);    *)
(* resolve_approval carries the user's answer (manager.rs).                *)
(*                                                                         *)
(* One engine.  The tool calls of a step ask one after the other, then the *)
(* batch goes by what was noted for them (effect_interpreter.rs,           *)
(* tool_plans_exec.rs); a turn ends and the next begins while the engine   *)
(* is idle.  Left out: descriptions, the audit log, elevation requests,    *)
(* and calls that need no approval.                                        *)
(***************************************************************************)
EXTENDS Naturals, Sequences, FiniteSets

CONSTANTS
    Tools,         \* tool call ids that need an approval
    Key,           \* tool call -> its approval_key
    AutoApproved,  \* tool calls that auto_approve covers
    NoTool,
    MaxDisplaced   \* bound on engines displaced from the map (see Displace)

ASSUME ToolsAssumption ==
    IsFiniteSet(Tools) /\ AutoApproved \subseteq Tools /\ NoTool \notin Tools /\ DOMAIN Key = Tools
ASSUME DisplacedAssumption == MaxDisplaced \in Nat

VARIABLES
    wait,       \* the tool call await_tool_approval waits for, or NoTool
    verdict,    \* kernel_v3_approval_outcomes: tool call -> "none", "approved",
                \*          "denied", "timeout", "cancelled"
    ran,        \* tool call -> "none", "run" or "refused" by the batch
    cache,      \* approval_cache: remembered keys
    turning,    \* the engine is inside a turn
    cancel,     \* the cancellation token is cancelled
    events,     \* ApprovalRequired (a tool call) and TurnComplete (NoTool) events
    mon,        \* the monitor: [pc, tool]; at "flags" it looks a second time whether
                \*          the turn is active, at "arm" it announces the request
    timer,      \* tool calls whose deadline timer is running
    pending,    \* pending_approvals
    out,        \* decisions taken and not yet in the channel
    chan,       \* rx_approval
    live,       \* active_turn is the turn of this monitor
    home,       \* the thread's engine in the map is this engine
    decided,    \* history: tool call -> decisions taken for it
    answer,     \* history: tool call -> what the user answered: "none", "approve",
                \*          "remember" (approve for the session) or "deny"
    ok,         \* history: tool calls whose approval was answered with ok: true
    displaced

engine  == <<wait, verdict, ran, cache, turning>>
manager == <<timer, pending, live, home>>
hist    == <<decided, answer, ok, displaced>>
vars    == <<engine, cancel, events, mon, manager, out, chan, hist>>

Idle == [pc |-> "run", tool |-> NoTool]

\* A turn is active and its monitor runs.
Init ==
    /\ wait = NoTool
    /\ verdict = [t \in Tools |-> "none"] /\ ran = [t \in Tools |-> "none"]
    /\ cache = {} /\ turning = TRUE
    /\ cancel = FALSE
    /\ events = <<>>
    /\ mon = Idle
    /\ timer = {} /\ pending = {}
    /\ out = {} /\ chan = <<>>
    /\ live = TRUE /\ home = TRUE
    /\ decided = [t \in Tools |-> 0]
    /\ answer = [t \in Tools |-> "none"]
    /\ ok = {} /\ displaced = 0

Decide(t, kind) ==
    /\ out' = out \cup {[id |-> t, kind |-> kind]}
    /\ decided' = [decided EXCEPT ![t] = @ + 1]

-----------------------------------------------------------------------------
(* The engine. *)

Asked == wait # NoTool

\* A remembered key approves at once; otherwise the request is sent.
Request(t) ==
    /\ turning /\ ~Asked /\ verdict[t] = "none"
    /\ IF Key[t] \in cache
       THEN verdict' = [verdict EXCEPT ![t] = "approved"] /\ UNCHANGED <<wait, events>>
       ELSE wait' = t /\ events' = Append(events, t) /\ verdict' = verdict
    /\ UNCHANGED <<ran, cache, turning, cancel, mon, manager, out, chan, hist>>

Verdict(v) ==
    /\ verdict' = [verdict EXCEPT ![wait] = v]
    /\ wait' = NoTool

\* Mutant of Matches: the id of the decision is not compared.
MatchesAny(d) == TRUE

Matches(d) == d.id = wait

\* One turn of the select loop: a decision for another call is discarded.
Receive ==
    /\ Asked /\ chan # <<>>
    /\ chan' = Tail(chan)
    /\ LET d == Head(chan) IN
        IF Matches(d)
        THEN /\ Verdict(IF d.kind = "deny" THEN "denied" ELSE "approved")
             /\ cache' = IF d.kind = "remember" THEN cache \cup {Key[d.id]} ELSE cache
             /\ UNCHANGED <<ran, turning>>
        ELSE UNCHANGED engine
    /\ UNCHANGED <<cancel, events, mon, manager, out, hist>>

Cancelled ==
    /\ Asked /\ cancel
    /\ Verdict("cancelled")
    /\ UNCHANGED <<ran, cache, turning, cancel, events, mon, manager, out, chan, hist>>

\* The engine's own deadline, set when it began to wait.
TimedOut ==
    /\ Asked
    /\ Verdict("timeout")
    /\ UNCHANGED <<ran, cache, turning, cancel, events, mon, manager, out, chan, hist>>

\* The calls of this step, all of which have asked.
Batch == {t \in Tools : verdict[t] # "none" /\ ran[t] = "none"}

\* Mutant of Passes: a request that timed out was not denied.
PassesUnlessDenied(t) == verdict[t] # "denied"

\* A remembered key comes before what was noted for the call itself.
Passes(t) == Key[t] \in cache \/ verdict[t] = "approved"

\* run_tool_execution_phase; a cancellation keeps the calls after it from running.
ExecuteBatch ==
    /\ turning /\ ~Asked /\ Batch # {}
    /\ \E cut \in SUBSET Batch :
        /\ cut # {} => cancel
        /\ ran' = [t \in Tools |-> IF t \notin Batch THEN ran[t]
                                   ELSE IF Passes(t) /\ t \notin cut THEN "run" ELSE "refused"]
    /\ UNCHANGED <<wait, verdict, cache, turning>>
    /\ UNCHANGED <<cancel, events, mon, manager, out, chan, hist>>

TurnComplete ==
    /\ turning /\ ~Asked /\ Batch = {}
    /\ turning' = FALSE
    /\ events' = Append(events, NoTool)
    /\ UNCHANGED <<wait, verdict, ran, cache, cancel, mon, manager, out, chan, hist>>

Interrupt ==
    /\ live /\ home /\ ~cancel
    /\ cancel' = TRUE
    /\ UNCHANGED <<engine, events, mon, manager, out, chan, hist>>

\* The next turn has a new monitor and a new token; pending approvals, timers,
\* decisions and unread events of the last one stay.
NextTurn ==
    /\ ~turning /\ ~live /\ mon.pc = "done"
    /\ turning' = TRUE /\ cancel' = FALSE /\ mon' = Idle /\ live' = TRUE
    /\ UNCHANGED <<wait, verdict, ran, cache, events, timer, pending, home, out, chan, hist>>

-----------------------------------------------------------------------------
(* The monitor. *)

\* ApprovalRequired: deny when the turn is not the active one.
TakeRequest ==
    /\ mon.pc = "run" /\ events # <<>> /\ Head(events) # NoTool
    /\ events' = Tail(events)
    /\ LET t == Head(events) IN
        IF live THEN mon' = [pc |-> "flags", tool |-> t] /\ UNCHANGED <<out, decided>>
                ELSE mon' = mon /\ Decide(t, "deny")
    /\ UNCHANGED <<engine, cancel, manager, chan, answer, ok, displaced>>

\* The flags are read again, and are (false, false) by now if the turn is not active
\* any more: approve for the user, or register the request before anybody hears of it.
ReadFlags ==
    /\ mon.pc = "flags"
    /\ LET t == mon.tool IN
        IF live /\ t \in AutoApproved
        THEN mon' = Idle /\ Decide(t, "approve") /\ UNCHANGED pending
        ELSE /\ pending' = pending \cup {t} /\ mon' = [pc |-> "arm", tool |-> t]
             /\ UNCHANGED <<out, decided>>
    /\ UNCHANGED <<engine, cancel, events, timer, live, home, chan, answer, ok, displaced>>

\* approval.required was emitted: start the timer.
ArmTimer ==
    /\ mon.pc = "arm"
    /\ timer' = timer \cup {mon.tool}
    /\ mon' = Idle
    /\ UNCHANGED <<engine, cancel, events, pending, live, home, out, chan, hist>>

\* The event could not be written: the monitor ends, without a timer.
EmitFails ==
    /\ mon.pc = "arm"
    /\ mon' = [pc |-> "done", tool |-> NoTool]
    /\ UNCHANGED <<engine, cancel, events, manager, out, chan, hist>>

TakeComplete ==
    /\ mon.pc = "run" /\ events # <<>> /\ Head(events) = NoTool
    /\ events' = Tail(events)
    /\ live' = FALSE
    /\ mon' = [pc |-> "done", tool |-> NoTool]
    /\ UNCHANGED <<engine, cancel, timer, pending, home, out, chan, hist>>

\* Mutant of Expire: the timer does not look whether the request is pending.
ExpireAnyway(t) ==
    /\ pending' = pending \ {t}
    /\ Decide(t, "deny")

\* Mutant of Expire: the decision has a kind of its own.
ExpireAsTimeout(t) ==
    IF t \in pending THEN pending' = pending \ {t} /\ Decide(t, "timeout")
                     ELSE UNCHANGED <<pending, out, decided>>

Expire(t) ==
    IF t \in pending THEN pending' = pending \ {t} /\ Decide(t, "deny")
                     ELSE UNCHANGED <<pending, out, decided>>

TimerFires(t) ==
    /\ t \in timer
    /\ timer' = timer \ {t}
    /\ Expire(t)
    /\ UNCHANGED <<engine, cancel, events, mon, live, home, chan, answer, ok, displaced>>

-----------------------------------------------------------------------------
(* resolve_approval. *)

\* Removes the pending approval, then sends the decision to the engine that is
\* in the map: another one than this after a displacement, which throws it away
\* while the client is answered with ok, or none.
ResolveApproval(t, kind) ==
    /\ t \in pending
    /\ pending' = pending \ {t}
    /\ answer' = [answer EXCEPT ![t] = kind]
    /\ IF home THEN Decide(t, kind) /\ ok' = ok
       ELSE ok' \in {ok, IF kind = "deny" THEN ok ELSE ok \cup {t}} /\ UNCHANGED <<out, decided>>
    /\ UNCHANGED <<engine, cancel, events, mon, timer, live, home, chan, displaced>>

\* The decision of a user, a timer or the monitor enters the channel.
Send(d) ==
    /\ d \in out
    /\ out' = out \ {d}
    /\ chan' = Append(chan, d)
    /\ ok' = IF d.kind = answer[d.id] /\ d.kind # "deny" THEN ok \cup {d.id} ELSE ok
    /\ UNCHANGED <<engine, cancel, events, mon, manager, decided, answer, displaced>>

\* ensure_engine_loaded of a concurrent start puts another engine in the map.
Displace ==
    /\ home /\ displaced < MaxDisplaced
    /\ displaced' = displaced + 1
    /\ home' = FALSE /\ live' = FALSE
    /\ UNCHANGED <<engine, cancel, events, mon, timer, pending, out, chan, decided, answer, ok>>

-----------------------------------------------------------------------------
Kinds == {"approve", "remember", "deny"}

Sending == \E t \in Tools, k \in Kinds : Send([id |-> t, kind |-> k])

Next ==
    \/ \E t \in Tools : Request(t) \/ TimerFires(t)
    \/ \E t \in Tools, k \in Kinds : ResolveApproval(t, k)
    \/ Receive \/ Cancelled \/ TimedOut \/ ExecuteBatch \/ TurnComplete
    \/ Interrupt \/ NextTurn
    \/ TakeRequest \/ ReadFlags \/ ArmTimer \/ EmitFails \/ TakeComplete
    \/ Sending \/ Displace

Spec == Init /\ [][Next]_vars

-----------------------------------------------------------------------------
(* Properties. *)

\* Shapes of the variables; decisions are about tool calls that asked.
TypeOK ==
    /\ wait \in Tools \cup {NoTool}
    /\ verdict \in [Tools -> {"none", "approved", "denied", "timeout", "cancelled"}]
    /\ ran \in [Tools -> {"none", "run", "refused"}]
    /\ cache \subseteq {Key[t] : t \in Tools}
    /\ turning \in BOOLEAN /\ cancel \in BOOLEAN /\ live \in BOOLEAN /\ home \in BOOLEAN
    /\ events \in Seq(Tools \cup {NoTool})
    /\ mon \in [pc : {"run", "flags", "arm", "done"}, tool : Tools \cup {NoTool}]
    /\ timer \subseteq Tools /\ pending \subseteq Tools
    /\ out \subseteq [id : Tools, kind : Kinds]
    /\ chan \in Seq([id : Tools, kind : Kinds])
    /\ decided \in [Tools -> Nat] /\ answer \in [Tools -> {"none"} \cup Kinds]
    /\ ok \subseteq Tools /\ displaced \in 0..MaxDisplaced

Approving == {"approve", "remember"}

\* The user said that calls with this key need not ask again in this session.
Remembered(k) == \E u \in Tools : Key[u] = k /\ answer[u] = "remember"

\* A call is executed only by the user's answer to this very request, by auto_approve,
\* or by an answer for the session to a call with the same key: a late or foreign
\* decision left in the channel lets nothing run.
ExecutedByRight ==
    \A t \in Tools : ran[t] = "run" =>
        t \in AutoApproved \/ answer[t] \in Approving \/ Remembered(Key[t])

\* A timer and an answer never both decide one request: whoever removes it from
\* pending_approvals sends the only decision.
OneDecision == \A t \in Tools : decided[t] <= 1

\* What the user said about a request is not turned round by a late decision, a timer
\* or the decision for another call.  A call that he denied is executed only because
\* he approved its key for the session with another call, of the same step: the batch
\* looks at the memory of the session first.  A call whose approval was answered with
\* ok may come too late, or never reach the engine that asks, but is not denied.
AnswerKept ==
    \A t \in Tools :
        /\ answer[t] = "deny" =>
              verdict[t] # "approved" /\ (ran[t] = "run" => Remembered(Key[t]))
        /\ t \in ok => verdict[t] # "denied"

-----------------------------------------------------------------------------
(* What the user is promised. *)

\* The request the monitor has taken and not yet registered or decided.
Taken == IF mon.pc = "flags" THEN {mon.tool} ELSE {}

\* Questions that nobody has decided: asked, or shown to the user.
Open == pending \cup Taken \cup ({events[i] : i \in 1..Len(events)} \ {NoTool})

\* Decisions taken that the engine has not seen.
Underway == out \cup {chan[i] : i \in 1..Len(chan)}

Life == INSTANCE ApprovalLife WITH
    asking <- wait, fate <- ran, memory <- cache, open <- Open, underway <- Underway, told <- ok

\* Channels that outlive a turn, timers that fire late, a monitor that stops half-way
\* and an engine that was displaced from the map implement the life of a question:
\* it is closed once, by the user or for him, the call that waits obeys only the
\* decision about itself, and is executed by that or by the memory of the session.
ImplementsApprovalLife == Life!Spec

=============================================================================
