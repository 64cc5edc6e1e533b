------------------------------ MODULE TurnLife ------------------------------
(***************************************************************************)
(* What the runtime orchestrator promises to the clients of one thread,    *)
(* without its tasks, locks, engines and coordinator: the way of a prompt  *)
(* through the inbox, the life of a turn in the store, the op an engine     *)
(* accepts for it, the turn.completed event and the answer to the request. *)
(***************************************************************************)
EXTENDS Naturals

CONSTANTS
    Calls,          \* POST /turns requests; each carries one prompt
    Compactions     \* POST /compact requests

VARIABLES
    up,         \* the sidecar process is alive
    inbox,      \* prompt -> "none", "pending" or "promoted"
    turn,       \* turn -> status of its record, "none" if there is none
    started,    \* turn -> number of ops an engine accepted for it
    ended,      \* turn -> number of turn.completed events
    reply       \* request -> what it was answered, "none" before that

vars == <<up, inbox, turn, started, ended, reply>>

Turns == Calls \cup Compactions
Ended == {"Completed", "Failed", "Interrupted"}

Init ==
    /\ up = TRUE
    /\ inbox = [c \in Calls |-> "none"]
    /\ turn = [t \in Turns |-> "none"]
    /\ started = [t \in Turns |-> 0]
    /\ ended = [t \in Turns |-> 0]
    /\ reply = [t \in Turns |-> "none"]

\* A prompt is stored before anything but an error happens to its request.
Admit(c) ==
    /\ up /\ inbox[c] = "none"
    /\ inbox' = [inbox EXCEPT ![c] = "pending"]
    /\ UNCHANGED <<up, turn, started, ended, reply>>

\* Any answer but ok.  A prompt that was answered without an error is in the
\* inbox, and only a prompt waits in the queue.
Refuse(t, outcome) ==
    /\ up /\ reply[t] = "none"
    /\ \/ outcome = "error"
       \/ outcome = "busy" /\ t \in Compactions
       \/ t \in Calls /\ inbox[t] # "none"
    /\ reply' = [reply EXCEPT ![t] = outcome]
    /\ UNCHANGED <<up, inbox, turn, started, ended>>

\* A prompt leaves the queue for good.
Promote(c) ==
    /\ up /\ inbox[c] = "pending"
    /\ inbox' = [inbox EXCEPT ![c] = "promoted"]
    /\ UNCHANGED <<up, turn, started, ended, reply>>

\* The record of a turn is created once, for a promoted prompt or a compaction.
Begin(t) ==
    /\ up /\ turn[t] = "none"
    /\ t \in Calls => inbox[t] = "promoted"
    /\ turn' = [turn EXCEPT ![t] = "InProgress"]
    /\ UNCHANGED <<up, inbox, started, ended, reply>>

\* An engine accepts the turn once, after its record was saved; the request is
\* answered ok if it was not the drain of another turn that sent the op.
Accept(t) ==
    /\ up /\ turn[t] = "InProgress" /\ started[t] = 0
    /\ started' = [started EXCEPT ![t] = 1]
    /\ \/ reply' = reply
       \/ reply[t] = "none" /\ reply' = [reply EXCEPT ![t] = "ok"]
    /\ UNCHANGED <<up, inbox, turn, ended>>

\* A turn no engine accepted fails.
Fail(t) ==
    /\ up /\ turn[t] = "InProgress" /\ started[t] = 0
    /\ turn' = [turn EXCEPT ![t] = "Failed"]
    /\ UNCHANGED <<up, inbox, started, ended, reply>>

\* A turn an engine accepted gets its end.
End(t, status) ==
    /\ up /\ turn[t] = "InProgress" /\ started[t] = 1
    /\ turn' = [turn EXCEPT ![t] = status]
    /\ UNCHANGED <<up, inbox, started, ended, reply>>

\* The end of a turn that was accepted or that failed is announced at most
\* once, after it was stored.
Announce(t) ==
    /\ up /\ turn[t] \in Ended /\ ended[t] = 0
    /\ started[t] = 1 \/ turn[t] = "Failed"
    /\ ended' = [ended EXCEPT ![t] = 1]
    /\ UNCHANGED <<up, inbox, turn, started, reply>>

Crash ==
    /\ up /\ up' = FALSE
    /\ UNCHANGED <<inbox, turn, started, ended, reply>>

\* A restart ends what the dead process left in progress, and nothing else.
Restart ==
    /\ ~up /\ up' = TRUE
    /\ turn' = [t \in Turns |-> IF turn[t] = "InProgress" THEN "Interrupted" ELSE turn[t]]
    /\ UNCHANGED <<inbox, started, ended, reply>>

Next ==
    \/ \E c \in Calls : Admit(c) \/ Promote(c)
    \/ \E t \in Turns :
        \/ Begin(t) \/ Accept(t) \/ Fail(t) \/ Announce(t)
        \/ \E s \in Ended : End(t, s)
        \/ \E o \in {"busy", "queued", "suppressed", "error"} : Refuse(t, o)
    \/ Crash \/ Restart

Spec == Init /\ [][Next]_vars

\* What a client can conclude from one look at the store, the events and its
\* answer: a turn that was accepted has a record and, for a prompt, a promoted
\* row; ok means accepted; an announced turn has its end in the store; and a
\* turn that no engine ever accepted is never shown as Completed.
Conclusions ==
    \A t \in Turns :
        /\ started[t] = 1 => turn[t] # "none"
        /\ turn[t] # "none" /\ t \in Calls => inbox[t] = "promoted"
        /\ reply[t] = "ok" => started[t] = 1
        /\ ended[t] = 1 => turn[t] \in Ended
        /\ started[t] = 0 => turn[t] # "Completed"

=============================================================================
