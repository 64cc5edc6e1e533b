----------------------------- MODULE NightLife -----------------------------
(***************************************************************************)
(* What the night queue promises to the user who fills it in the evening,  *)
(* without its batches, its tokens, its registry and its processes: how an *)
(* entry of the file may change, what is claimed for the agent, and how    *)
(* often the agent was let loose on it.                                    *)
(***************************************************************************)
EXTENDS Naturals

CONSTANT Tasks      \* the ids enqueue may hand out

VARIABLES
    entry,      \* task -> its status in the file, "Absent" if it is not there
    used,       \* ids handed out
    claimed,    \* tasks that somebody has claimed and not laid down yet
    lost,       \* tasks that whoever had claimed them was cut off with
    runs        \* task -> executions begun

vars == <<entry, used, claimed, lost, runs>>

Verdicts == {"Passed", "Failed", "RolledBack"}

Mark(S, s) == entry' = [t \in Tasks |-> IF t \in S THEN s ELSE entry[t]]

Init ==
    /\ entry = [t \in Tasks |-> "Absent"]
    /\ used = {} /\ claimed = {} /\ lost = {}
    /\ runs = [t \in Tasks |-> 0]

\* A new entry has a new id, also when it is a copy of an old one.
Add(t) ==
    /\ t \notin used
    /\ used' = used \cup {t}
    /\ Mark({t}, "Pending")
    /\ UNCHANGED <<claimed, lost, runs>>

\* What is running cannot be taken out of the file.
Remove(S) ==
    /\ \A t \in S : entry[t] # "Running"
    /\ Mark(S, "Absent")
    /\ UNCHANGED <<used, claimed, lost, runs>>

Cancel(S) ==
    /\ \A t \in S : entry[t] \in {"Pending", "Running"}
    /\ Mark(S, "Canceled")
    /\ UNCHANGED <<used, claimed, lost, runs>>

\* Only what is pending, and nobody else's, is claimed.
Claim(S) ==
    /\ S \cap claimed = {} /\ \A t \in S : entry[t] = "Pending"
    /\ Mark(S, "Running")
    /\ claimed' = claimed \cup S
    /\ UNCHANGED <<used, lost, runs>>

\* The first execution of a claimed task, which a cancellation may have come too
\* late for.
Begin(t) ==
    /\ t \in claimed /\ entry[t] # "Absent"
    /\ runs[t] = 0 /\ runs' = [runs EXCEPT ![t] = 1]
    /\ UNCHANGED <<entry, used, claimed, lost>>

\* A task that was executed gets its verdict, or it was stopped; whatever a user
\* has made of its entry in the meantime stays.
LayDown(t) ==
    /\ t \in claimed /\ runs[t] = 1
    /\ \/ entry[t] = "Running" /\ \E s \in Verdicts \cup {"Canceled"} : Mark({t}, s)
       \/ entry[t] \in {"Canceled", "Absent"} /\ entry' = entry
    /\ claimed' = claimed \ {t}
    /\ UNCHANGED <<used, lost, runs>>

\* Claimed and not executed: pending again, unless a user has canceled it.
Release(S) ==
    /\ S \subseteq claimed /\ \A t \in S : runs[t] = 0 /\ entry[t] # "Pending"
    /\ Mark({t \in S : entry[t] = "Running"}, "Pending")
    /\ claimed' = claimed \ S
    /\ UNCHANGED <<used, lost, runs>>

\* Whoever had claimed S fails, hangs up or dies.
CutOff(S) ==
    /\ S \subseteq claimed
    /\ claimed' = claimed \ S /\ lost' = lost \cup S
    /\ UNCHANGED <<used, runs>>

Abandon(S) == CutOff(S) /\ entry' = entry

\* A process that dies while it writes the file leaves it empty.
Truncate(S) == CutOff(S) /\ Mark(Tasks, "Absent")

Next ==
    \/ \E t \in Tasks : Add(t) \/ Begin(t) \/ LayDown(t)
    \/ \E S \in SUBSET Tasks :
        Remove(S) \/ Cancel(S) \/ Claim(S) \/ Release(S) \/ Abandon(S) \/ Truncate(S)

Spec == Init /\ [][Next]_vars

\* What the user can rely on in the morning, whatever happened in the night: a
\* verdict was earned by one execution, a task that is pending was never let
\* loose, and one that is running has somebody who works on it or was cut off.
Reliable ==
    \A t \in Tasks :
        /\ entry[t] \in Verdicts => runs[t] = 1
        /\ runs[t] \in {0, 1}
        /\ entry[t] = "Pending" => runs[t] = 0 /\ t \notin claimed
        /\ entry[t] = "Running" => t \in claimed \cup lost

=============================================================================
