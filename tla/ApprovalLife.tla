---------------------------- MODULE ApprovalLife ----------------------------
(***************************************************************************)
(* What the user who is asked before a tool runs can rely on, without the  *)
(* channels, the monitor, the timers, the turns and the engine map: each   *)
(* question is closed once, by the user or for him; only what closed it    *)
(* reaches the tool call that waits; and a call is executed by the verdict *)
(* it got, or because its key was approved for the session by then.        *)
(***************************************************************************)

CONSTANTS Tools, Key, AutoApproved, NoTool

VARIABLES
    asking,     \* the tool call that waits for its verdict, or NoTool
    verdict,    \* tool call -> "none" or how its question ended for it
    fate,       \* tool call -> "none", "run" or "refused"
    memory,     \* keys approved for the session
    open,       \* questions nobody has decided
    underway,   \* decisions that have not reached the engine
    answer,     \* tool call -> what the user answered, or "none"
    told        \* tool calls whose user was told that his approval was accepted

vars == <<asking, verdict, fate, memory, open, underway, answer, told>>

Decision(t, kind) == [id |-> t, kind |-> kind]

Answers == {"approve", "remember", "deny"}

Init ==
    /\ asking = NoTool
    /\ verdict = [t \in Tools |-> "none"] /\ fate = [t \in Tools |-> "none"]
    /\ memory = {} /\ open = {} /\ underway = {} /\ told = {}
    /\ answer = [t \in Tools |-> "none"]

Fresh(t) == asking = NoTool /\ verdict[t] = "none"

Ask(t) ==
    /\ Fresh(t) /\ Key[t] \notin memory
    /\ asking' = t /\ open' = open \cup {t}
    /\ UNCHANGED <<verdict, fate, memory, underway, answer, told>>

\* An earlier answer for the session covers the call.
Recall(t) ==
    /\ Fresh(t) /\ Key[t] \in memory
    /\ verdict' = [verdict EXCEPT ![t] = "approved"]
    /\ UNCHANGED <<asking, fate, memory, open, underway, answer, told>>

\* The user answers. When the engine that asked is gone from the map, the answer has
\* no effect, and may be accepted all the same.
Answer(t, kind) ==
    /\ t \in open
    /\ open' = open \ {t}
    /\ answer' = [answer EXCEPT ![t] = kind]
    /\ \/ underway' = underway \cup {Decision(t, kind)} /\ told' = told
       \/ underway' = underway /\ told' \in {told, IF kind = "deny" THEN told ELSE told \cup {t}}
    /\ UNCHANGED <<asking, verdict, fate, memory>>

\* A question is closed for the user: approved where he wanted that, or denied.
CloseFor(t, kind) ==
    /\ t \in open /\ open' = open \ {t}
    /\ kind = "deny" \/ (kind = "approve" /\ t \in AutoApproved)
    /\ underway' = underway \cup {Decision(t, kind)}
    /\ UNCHANGED <<asking, verdict, fate, memory, answer, told>>

\* His approval is on its way when it is told to him afterwards.
Tell(t) ==
    /\ answer[t] # "deny" /\ Decision(t, answer[t]) \in underway
    /\ told' = told \cup {t}
    /\ UNCHANGED <<asking, verdict, fate, memory, open, underway, answer>>

End(v) ==
    /\ asking # NoTool /\ asking' = NoTool
    /\ verdict' = [verdict EXCEPT ![asking] = v]

\* The decision about the call that waits ends its wait.
Obey(kind) ==
    /\ Decision(asking, kind) \in underway
    /\ underway' = underway \ {Decision(asking, kind)}
    /\ End(IF kind = "deny" THEN "denied" ELSE "approved")
    /\ memory' = IF kind = "remember" THEN memory \cup {Key[asking]} ELSE memory
    /\ UNCHANGED <<fate, open, answer, told>>

\* A decision about any other call is thrown away.
Discard(d) ==
    /\ d \in underway /\ d.id # asking /\ asking # NoTool
    /\ underway' = underway \ {d}
    /\ UNCHANGED <<asking, verdict, fate, memory, open, answer, told>>

\* The engine stops waiting; the question may stay open.
GiveUp(v) ==
    /\ End(v)
    /\ UNCHANGED <<fate, memory, open, underway, answer, told>>

\* What the session knows comes before what was said about the call itself.
Executable(t) == Key[t] \in memory \/ verdict[t] = "approved"

\* Each call with a verdict is executed or refused, while none waits.
Perform ==
    /\ asking = NoTool
    /\ fate' \in [Tools -> {"none", "run", "refused"}]
    /\ \A t \in Tools :
        IF verdict[t] = "none" \/ fate[t] # "none" THEN fate'[t] = fate[t]
        ELSE fate'[t] # "none" /\ (fate'[t] = "run" => Executable(t))
    /\ UNCHANGED <<asking, verdict, memory, open, underway, answer, told>>

Next ==
    \/ Perform
    \/ \E t \in Tools : Ask(t) \/ Recall(t) \/ Tell(t)
    \/ \E t \in Tools, kind \in Answers : Answer(t, kind) \/ CloseFor(t, kind)
    \/ \E kind \in Answers : Obey(kind)
    \/ \E d \in underway : Discard(d)
    \/ GiveUp("timeout") \/ GiveUp("cancelled")

Spec == Init /\ [][Next]_vars

\* What became of a call is not changed, nor is what was answered to the user or noted
\* for the call; what was answered is not asked again; a call is approved by its own
\* decision or by the memory of the session, and executed by its verdict or that
\* memory; and nothing is remembered that the user did not say.
Final ==
    /\ \A t \in Tools :
        /\ verdict[t] # "none" => verdict'[t] = verdict[t]
        /\ fate[t] # "none" => fate'[t] = fate[t]
        /\ answer[t] # "none" => answer'[t] = answer[t] /\ t \notin open'
        /\ verdict'[t] = "approved" /\ verdict[t] # "approved" =>
              Key[t] \in memory \/ \E k \in Answers \ {"deny"} : Decision(t, k) \in underway
        /\ fate'[t] = "run" /\ fate[t] # "run" => Executable(t)
    /\ \A k \in memory' \ memory : \E t \in Tools : Key[t] = k /\ answer[t] = "remember"

Finality == [][Final]_vars

=============================================================================
