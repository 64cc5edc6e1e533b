------------------------------ MODULE TaskLife ------------------------------
(***************************************************************************)
(* What the background-task manager promises to its callers (the HTTP API, *)
(* the automation scheduler, the model-visible tools), without its queue,  *)
(* its workers and the order in which it writes its files: the life of     *)
(* every task, in memory and as a restart would find it.                   *)
(***************************************************************************)
CONSTANT Tasks      \* the ids Uuid::new_v4 may hand out

VARIABLES
    up,             \* the sidecar process is alive
    life,           \* task -> the status get_task answers, "Absent" if none
    saved,          \* task -> the status a restart would load, "Absent" if none
    issued,         \* ids handed out by add_task
    acked           \* ids whose add_task returned Ok

vars == <<up, life, saved, issued, acked>>

Terminal == {"Completed", "Failed", "Canceled"}

Init ==
    /\ up = TRUE
    /\ life = [t \in Tasks |-> "Absent"]
    /\ saved = [t \in Tasks |-> "Absent"]
    /\ issued = {} /\ acked = {}

\* add_task hands out a fresh id.
Create(t) ==
    /\ up /\ t \notin issued
    /\ life' = [life EXCEPT ![t] = "Queued"]
    /\ issued' = issued \cup {t}
    /\ UNCHANGED <<up, saved, acked>>

\* add_task answers Ok only when the task would survive a crash.
Acknowledge(t) ==
    /\ up /\ life[t] # "Absent" /\ saved[t] # "Absent"
    /\ acked' = acked \cup {t}
    /\ UNCHANGED <<up, life, saved, issued>>

\* The only ways forward: a queued task is started or canceled, a running one
\* ends.  A task with a terminal status stays as it is.
Advance(t, s) ==
    /\ up
    /\ \/ life[t] = "Queued" /\ s \in {"Running", "Canceled"}
       \/ life[t] = "Running" /\ s \in Terminal
    /\ life' = [life EXCEPT ![t] = s]
    /\ UNCHANGED <<up, saved, issued, acked>>

\* The record of a known task reaches its file.
Save(t) ==
    /\ up /\ life[t] # "Absent"
    /\ saved' = [saved EXCEPT ![t] = life[t]]
    /\ UNCHANGED <<up, life, issued, acked>>

\* clear_terminal_tasks: the file may fail to go with the record.
Forget(t) ==
    /\ up /\ life[t] \in Terminal
    /\ life' = [life EXCEPT ![t] = "Absent"]
    /\ \/ saved' = [saved EXCEPT ![t] = "Absent"]
       \/ saved' = saved
    /\ UNCHANGED <<up, issued, acked>>

Crash ==
    /\ up
    /\ up' = FALSE
    /\ life' = [t \in Tasks |-> "Absent"]
    /\ UNCHANGED <<saved, issued, acked>>

\* A restart resumes from the files: what was running is queued again.
Recover ==
    /\ ~up
    /\ up' = TRUE
    /\ life' = [t \in Tasks |-> IF saved[t] = "Running" THEN "Queued" ELSE saved[t]]
    /\ UNCHANGED <<saved, issued, acked>>

Next ==
    \/ \E t \in Tasks :
        \/ Create(t) \/ Acknowledge(t) \/ Save(t) \/ Forget(t)
        \/ \E s \in Terminal \cup {"Running"} : Advance(t, s)
    \/ Crash \/ Recover

Spec == Init /\ [][Next]_vars

=============================================================================
