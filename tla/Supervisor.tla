----------------------------- MODULE Supervisor -----------------------------
(***************************************************************************)
(* The supervisor of the desktop shell (crates/desktop/src/sidecar.rs): it *)
(* spawns the sidecar on one loopback port, watches it, and replaces it    *)
(* when it dies, when it stops answering and when the configuration has    *)
(* changed.  A shell that exits leaves its sidecar behind; the next shell  *)
(* comes with a new token and has to reclaim the port.                     *)
(*                                                                         *)
(* Abstracted: time is nondeterminism (a timer may fire whenever the code  *)
(* sleeps on it); a health check reads the state of the processes in one   *)
(* step; the running turns of the sidecar are one bit.                     *)
(***************************************************************************)
EXTENDS Naturals, FiniteSets

CONSTANTS
    Sidecars,       \* process ids, used again once a process is gone
    NoSidecar,
    MaxRefused,     \* MAX_CONNECT_REFUSED
    MaxTimeouts,    \* MAX_BUSY_TIMEOUTS
    MaxRetries,     \* MAX_STARTUP_RETRIES
    MaxRapid,       \* MAX_RAPID_RESTARTS
    MaxRequests,    \* bound on configuration changes plus forced restarts
    MaxFaults,      \* bound on failures of sidecars and of spawns
    MaxExits,       \* bound on exits of the shell
    MaxTurns,       \* bound on turns
    MaxKept         \* bound on reclaims that do not free the port

ASSUME SidecarsAssumption == NoSidecar \notin Sidecars
ASSUME LimitsAssumption ==
    /\ MaxRefused \in Nat \ {0} /\ MaxTimeouts \in Nat \ {0} /\ MaxRetries \in Nat \ {0}
    /\ MaxRapid \in Nat
ASSUME BudgetAssumption ==
    /\ MaxRequests \in Nat /\ MaxFaults \in Nat /\ MaxExits \in Nat /\ MaxTurns \in Nat
    /\ MaxKept \in Nat

VARIABLES
    pc,          \* where start_and_monitor is; "gone": the shell is not running
    child,       \* the Child it holds, NoSidecar if none
    life,        \* process -> its state
    mine,        \* the processes that know this shell's token
    announced,   \* the child has printed DS_PICK_READY
    published,   \* port_tx holds a port
    restart,     \* the permit of the restart Notify
    shutdown,    \* the permit of the shutdown Notify
    force_now,   \* sidecar_restart_force
    forcing,     \* force_sidecar_restart has stored the flag and not notified yet
    refused,     \* connect_refused
    timeouts,    \* busy_timeouts
    retries,     \* `i` of the startup probe loop
    crash_times, \* crash_times.len()
    turns,       \* the sidecar runs a turn
    stale,       \* the configuration has changed since the child was spawned
    recent,      \* history: health restarts within the rapid-restart window
    paused,      \* history: the last health restart was followed by the backoff
    misses,      \* history: unanswered checks in a row of this child
    forces,      \* history: forced restarts asked for
    forcedKills, \* history: restarts that skipped the wait for running turns
    budget       \* [requests, faults, exits, turns, kept] used so far

signals  == <<restart, shutdown, force_now, forcing>>
counters == <<refused, timeouts, retries, crash_times>>
procs    == <<child, life, mine, announced>>
hist     == <<recent, paused, misses, forces, forcedKills>>
vars     == <<pc, procs, published, signals, counters, turns, stale, hist, budget>>

Listening == {"serving", "ponging", "stuck"}
Alive     == Listening \cup {"booting"}
Life      == Alive \cup {"dead", "none"}

Listeners == {p \in Sidecars : life[p] \in Listening}
Spend(what) == budget' = [budget EXCEPT ![what] = @ + 1]

Init ==
    /\ pc = "probe"
    /\ child = NoSidecar /\ life = [p \in Sidecars |-> "none"]
    /\ mine = {} /\ announced = FALSE
    /\ published = FALSE
    /\ restart = FALSE /\ shutdown = FALSE /\ force_now = FALSE /\ forcing = FALSE
    /\ refused = 0 /\ timeouts = 0 /\ retries = 0 /\ crash_times = 0
    /\ turns = FALSE /\ stale = FALSE
    /\ recent = 0 /\ paused = FALSE /\ misses = 0
    /\ forces = 0 /\ forcedKills = 0
    /\ budget = [requests |-> 0, faults |-> 0, exits |-> 0, turns |-> 0, kept |-> 0]

-----------------------------------------------------------------------------
(* What the supervisor sees of the processes. *)

\* probe_sidecar: whoever listens answers; a server under load may be too slow.
Outcomes ==
    IF Listeners = {} THEN {"refused"}
    ELSE {"timeout"}
         \cup (IF \E p \in Listeners \cap mine : life[p] = "serving" THEN {"ok"} ELSE {})
         \cup (IF \E p \in Listeners \ mine : life[p] = "serving" THEN {"mismatch"} ELSE {})

\* Mutant of Pongs: pongs that came late are not drained before the next ping.
StalePongs == IF child # NoSidecar /\ life[child] \in Listening THEN BOOLEAN ELSE {FALSE}

\* The ping over stdin and the pong over stdout, independent of HTTP.
Pongs ==
    IF child # NoSidecar /\ life[child] \in {"serving", "ponging"} THEN BOOLEAN ELSE {FALSE}

\* Mutant of KillChild: the handle is dropped, the process lives on.
DropChild(next) ==
    /\ child' = NoSidecar /\ life' = life /\ turns' = turns
    /\ pc' = next

\* Child::kill, which also reaps it, or kill_on_drop when start_and_monitor returns.
KillChild(next) ==
    /\ child' = NoSidecar
    /\ life' = [p \in Sidecars |-> IF p = child THEN "none" ELSE life[p]]
    /\ turns' = FALSE
    /\ pc' = next

-----------------------------------------------------------------------------
(* One round of the 'supervisor loop, up to a sidecar that is ready. *)

\* probe_sidecar at the head of the loop.  An answer with the right token would
\* be adopted without a Child.
Probe ==
    /\ pc = "probe"
    /\ \E outcome \in Outcomes :
        /\ pc' = CASE outcome = "ok"       -> "watch"
                   [] outcome = "mismatch" -> "reclaim_stale"
                   [] OTHER                -> "reclaim"
        /\ published' = (published /\ outcome = "ok")
    /\ UNCHANGED <<procs, signals, counters, turns, stale, hist, budget>>

\* Mutant of AfterReclaim: only processes with this shell's token are killed.
KeepStrangers == [p \in Sidecars |-> IF p \in Listeners \cap mine THEN "none" ELSE life[p]]

\* kill_processes_listening_on_local_port
AfterReclaim == [p \in Sidecars |-> IF p \in Listeners THEN "none" ELSE life[p]]

\* wait_loopback_listen_port_free: kill the listeners and poll until the port is
\* free, or for ten seconds; the delay before the next step stands for the poll.
\* Neither a kill that fails nor a port that stays busy stops the supervisor.
Reclaim ==
    /\ pc \in {"reclaim_stale", "reclaim", "reclaim_killed", "reclaim_unhealthy"}
    /\ \/ life' = AfterReclaim /\ budget' = budget
       \/ /\ Listeners # {} /\ life' = life
          /\ budget.kept < MaxKept /\ Spend("kept")
    /\ pc' = CASE pc = "reclaim_stale"     -> "reclaim"
               [] pc = "reclaim"           -> "spawn"
               [] pc = "reclaim_killed"    -> "probe"
               [] pc = "reclaim_unhealthy" -> "tally"
    /\ UNCHANGED <<child, mine, announced, published, signals, counters, turns, stale, hist>>

\* The child will load the configuration as it is now.
Spawn(p) ==
    /\ pc = "spawn"
    /\ life[p] = "none"
    /\ child' = p /\ life' = [life EXCEPT ![p] = "booting"]
    /\ mine' = {q \in mine : life[q] # "none"} \cup {p}
    /\ announced' = FALSE
    /\ stale' = FALSE
    /\ pc' = "boot"
    /\ UNCHANGED <<published, signals, counters, turns, hist, budget>>

\* `?`: start_and_monitor returns, nothing restarts it.
SpawnFails ==
    /\ pc = "spawn"
    /\ budget.faults < MaxFaults /\ Spend("faults")
    /\ pc' = "failed"
    /\ UNCHANGED <<procs, published, signals, counters, turns, stale, hist>>

\* Mutants of StartWatch: a restart asked for during the start-up is taken to be
\* answered; the counters of the last child go on.
StartWatchAfresh ==
    /\ pc' = "watch" /\ published' = TRUE
    /\ restart' = FALSE
    /\ refused' = 0 /\ timeouts' = 0 /\ crash_times' = 0
    /\ misses' = 0

StartWatchCounting ==
    /\ pc' = "watch" /\ published' = TRUE
    /\ crash_times' = 0
    /\ misses' = 0
    /\ UNCHANGED <<restart, refused, timeouts>>

\* The port is published and the watch begins with fresh counters.
StartWatch ==
    /\ pc' = "watch" /\ published' = TRUE
    /\ refused' = 0 /\ timeouts' = 0 /\ crash_times' = 0
    /\ misses' = 0
    /\ restart' = restart

\* DS_PICK_READY has come over stdout, be the child alive or not by now.
Ready ==
    /\ pc = "boot" /\ announced
    /\ StartWatch
    /\ UNCHANGED <<procs, shutdown, force_now, forcing, retries, turns, stale, recent, paused,
                   forces, forcedKills, budget>>

\* Sixty seconds without READY, or stdout was closed: probe over HTTP instead.
NoReady ==
    /\ pc = "boot" /\ ~announced
    /\ pc' = "retry" /\ retries' = 0
    /\ UNCHANGED <<procs, published, signals, refused, timeouts, crash_times, turns, stale,
                   hist, budget>>

ReadyByHttp ==
    /\ pc = "retry" /\ "ok" \in Outcomes
    /\ StartWatch
    /\ UNCHANGED <<procs, shutdown, force_now, forcing, retries, turns, stale, recent, paused,
                   forces, forcedKills, budget>>

\* The last retry kills the child and returns an error.
Retry ==
    /\ pc = "retry" /\ Outcomes # {"ok"}
    /\ retries' = retries + 1
    /\ IF retries' = MaxRetries
       THEN KillChild("failed")
       ELSE UNCHANGED <<pc, child, life, turns>>
    /\ UNCHANGED <<mine, announced, published, signals, refused, timeouts, crash_times, stale,
                   hist, budget>>

-----------------------------------------------------------------------------
(* The watch: a biased select over shutdown, restart and the health timer. *)

Stop ==
    /\ pc \in {"watch", "defer"}
    /\ shutdown /\ shutdown' = FALSE
    /\ KillChild("stopped")
    /\ UNCHANGED <<mine, announced, published, restart, force_now, forcing, counters, stale,
                   hist, budget>>

RestartRequested ==
    /\ pc \in {"watch", "defer"}
    /\ ~shutdown /\ restart
    /\ restart' = FALSE
    /\ pc' = "debounce"
    /\ UNCHANGED <<procs, published, shutdown, force_now, forcing, counters, turns, stale, hist,
                   budget>>

\* debounce_restart_notifications: further requests start the delay again.
Debounce ==
    /\ pc = "debounce"
    /\ \/ restart /\ restart' = FALSE /\ pc' = pc
       \/ restart' = restart /\ pc' = "idle"
    /\ UNCHANGED <<procs, published, shutdown, force_now, forcing, counters, turns, stale, hist,
                   budget>>

\* Mutant of TakeForce: load instead of swap.
LeaveForce == force_now

\* force_now.swap(false)
TakeForce == FALSE

\* wait_for_idle_or_force_restart: the flag, then the number of running turns.
CheckForce ==
    /\ pc = "idle"
    /\ force_now' = TakeForce
    /\ pc' = IF force_now THEN "config_kill" ELSE "count"
    /\ forcedKills' = IF force_now THEN forcedKills + 1 ELSE forcedKills
    /\ UNCHANGED <<procs, published, restart, shutdown, forcing, counters, turns, stale, recent,
                   paused, misses, forces, budget>>

\* fetch_active_turn_count answers 0 when it gets no answer.
CountTurns ==
    /\ pc = "count"
    /\ pc' \in {"config_kill"} \cup
               (IF turns /\ child # NoSidecar /\ life[child] = "serving" THEN {"defer"} ELSE {})
    /\ UNCHANGED <<procs, published, signals, counters, turns, stale, hist, budget>>

PollAgain ==
    /\ pc = "defer"
    /\ ~shutdown /\ ~restart
    /\ pc' = "idle"
    /\ UNCHANGED <<procs, published, signals, counters, turns, stale, hist, budget>>

ConfigKill ==
    /\ pc = "config_kill"
    /\ KillChild("reclaim_killed")
    /\ UNCHANGED <<mine, announced, published, signals, counters, stale, hist, budget>>

\* Mutant of ShouldRestart: one check too many.
ShouldRestartLate(r, n) ==
    \/ child # NoSidecar /\ life[child] = "dead"
    \/ r > MaxRefused \/ n > MaxTimeouts

\* child_died, or too many checks without an answer.
ShouldRestart(r, n) ==
    \/ child # NoSidecar /\ life[child] = "dead"
    \/ r >= MaxRefused \/ n >= MaxTimeouts

\* A check is answered by the pong or over HTTP, or it counts as refused or as
\* timed out.
Checked(pong, outcome) ==
    /\ IF pong \/ outcome = "ok"
       THEN refused' = 0 /\ timeouts' = 0 /\ misses' = 0
       ELSE /\ refused' = refused + (IF outcome = "refused" THEN 1 ELSE 0)
            /\ timeouts' = timeouts + (IF outcome = "timeout" THEN 1 ELSE 0)
            /\ misses' = misses + 1
    /\ IF ShouldRestart(refused', timeouts')
       THEN KillChild("reclaim_unhealthy")
       ELSE UNCHANGED <<pc, child, life, turns>>

HealthCheck ==
    /\ pc = "watch"
    /\ ~shutdown /\ ~restart
    /\ \E pong \in Pongs, outcome \in Outcomes :
        IF ~pong /\ outcome = "mismatch"
        THEN KillChild("reclaim_killed") /\ UNCHANGED <<refused, timeouts, misses>>
        ELSE Checked(pong, outcome)
    /\ UNCHANGED <<mine, announced, published, signals, retries, crash_times, stale, recent,
                   paused, forces, forcedKills, budget>>

\* The rapid-crash backoff: crash_times gets the new restart and may ask for a
\* pause before the next round.
Tally ==
    /\ pc = "tally"
    /\ crash_times' = crash_times + 1
    /\ recent' = IF recent > MaxRapid THEN recent ELSE recent + 1
    /\ paused' = (crash_times' > MaxRapid)
    /\ pc' = IF crash_times' > MaxRapid THEN "backoff" ELSE "probe"
    /\ UNCHANGED <<procs, published, signals, refused, timeouts, retries, turns, stale, misses,
                   forces, forcedKills, budget>>

EndBackoff ==
    /\ pc = "backoff"
    /\ pc' = "probe"
    /\ UNCHANGED <<procs, published, signals, counters, turns, stale, hist, budget>>

\* Restarts leave the window of RAPID_RESTART_WINDOW_SECS, the oldest first.
Age ==
    /\ pc # "gone" /\ recent > 0
    /\ recent' = recent - 1
    /\ crash_times' = IF crash_times > recent' THEN recent' ELSE crash_times
    /\ UNCHANGED <<pc, procs, published, signals, refused, timeouts, retries, turns, stale,
                   paused, misses, forces, forcedKills, budget>>

-----------------------------------------------------------------------------
(* The commands of the user interface. *)

\* A settings command writes the configuration and calls request_sidecar_restart.
SaveSettings ==
    /\ pc # "gone"
    /\ budget.requests < MaxRequests /\ Spend("requests")
    /\ stale' = TRUE /\ restart' = TRUE
    /\ UNCHANGED <<pc, procs, published, shutdown, force_now, forcing, counters, turns, hist>>

\* force_sidecar_restart stores the flag, then notifies.
StoreForce ==
    /\ pc # "gone" /\ ~forcing
    /\ budget.requests < MaxRequests /\ Spend("requests")
    /\ force_now' = TRUE /\ forcing' = TRUE
    /\ forces' = forces + 1
    /\ UNCHANGED <<pc, procs, published, restart, shutdown, counters, turns, stale, recent,
                   paused, misses, forcedKills>>

NotifyForce ==
    /\ pc # "gone" /\ forcing
    /\ forcing' = FALSE /\ restart' = TRUE
    /\ UNCHANGED <<pc, procs, published, shutdown, force_now, counters, turns, stale, hist,
                   budget>>

\* "quit" of the tray menu; the application exits 300 ms later, come what may.
Quit ==
    /\ pc # "gone" /\ ~shutdown
    /\ budget.exits < MaxExits
    /\ shutdown' = TRUE
    /\ UNCHANGED <<pc, procs, published, restart, force_now, forcing, counters, turns, stale,
                   hist, budget>>

\* The shell exits or dies; no destructor runs, a sidecar that lives is left.
ShellExits ==
    /\ pc # "gone"
    /\ budget.exits < MaxExits /\ Spend("exits")
    /\ pc' = "gone"
    /\ child' = NoSidecar
    /\ life' = [p \in Sidecars |-> IF life[p] = "dead" THEN "none" ELSE life[p]]
    /\ mine' = {} /\ announced' = FALSE /\ published' = FALSE
    /\ restart' = FALSE /\ shutdown' = FALSE /\ force_now' = FALSE /\ forcing' = FALSE
    /\ refused' = 0 /\ timeouts' = 0 /\ retries' = 0 /\ crash_times' = 0
    /\ turns' = FALSE /\ stale' = FALSE
    /\ recent' = 0 /\ paused' = FALSE /\ misses' = 0
    /\ forces' = 0 /\ forcedKills' = 0

ShellStarts ==
    /\ pc = "gone"
    /\ pc' = "probe"
    /\ UNCHANGED <<procs, published, signals, counters, turns, stale, hist, budget>>

-----------------------------------------------------------------------------
(* The sidecar processes. *)

Exit(p) ==
    /\ life' = [life EXCEPT ![p] = IF p = child THEN "dead" ELSE "none"]
    /\ turns' = IF p = child THEN FALSE ELSE turns

\* The HTTP server binds the port and prints READY; a port in use ends it.
Bind(p) ==
    /\ life[p] = "booting"
    /\ IF Listeners = {}
       THEN /\ life' = [life EXCEPT ![p] = "serving"]
            /\ announced' = (announced \/ p = child)
            /\ turns' = turns
       ELSE Exit(p) /\ announced' = announced
    /\ UNCHANGED <<pc, child, mine, published, signals, counters, stale, hist, budget>>

Die(p) ==
    /\ life[p] \in Alive
    /\ budget.faults < MaxFaults /\ Spend("faults")
    /\ Exit(p)
    /\ UNCHANGED <<pc, child, mine, announced, published, signals, counters, stale, hist>>

\* The server hangs, with the ping loop or without it.
Hang(p, how) ==
    /\ life[p] = "serving"
    /\ budget.faults < MaxFaults /\ Spend("faults")
    /\ life' = [life EXCEPT ![p] = how]
    /\ UNCHANGED <<pc, child, mine, announced, published, signals, counters, turns, stale, hist>>

Revive(p) ==
    /\ life[p] \in {"stuck", "ponging"}
    /\ life' = [life EXCEPT ![p] = "serving"]
    /\ UNCHANGED <<pc, child, mine, announced, published, signals, counters, turns, stale, hist,
                   budget>>

TurnStarts ==
    /\ published /\ ~turns
    /\ child # NoSidecar /\ life[child] = "serving"
    /\ budget.turns < MaxTurns /\ Spend("turns")
    /\ turns' = TRUE
    /\ UNCHANGED <<pc, procs, published, signals, counters, stale, hist>>

TurnEnds ==
    /\ turns /\ turns' = FALSE
    /\ UNCHANGED <<pc, procs, published, signals, counters, stale, hist, budget>>

-----------------------------------------------------------------------------
SpawnAny == \E p \in Sidecars : Spawn(p)

Restarting == RestartRequested \/ Debounce \/ CheckForce \/ CountTurns \/ PollAgain \/ ConfigKill

Supervise ==
    \/ Probe \/ Reclaim \/ SpawnAny \/ Ready \/ NoReady \/ ReadyByHttp \/ Retry
    \/ Stop \/ Restarting \/ HealthCheck \/ Tally \/ EndBackoff

Process(p) ==
    \/ Bind(p) \/ Die(p) \/ Revive(p)
    \/ \E how \in {"stuck", "ponging"} : Hang(p, how)

Next ==
    \/ Supervise \/ SpawnFails \/ Age
    \/ SaveSettings \/ StoreForce \/ NotifyForce \/ Quit \/ ShellExits \/ ShellStarts
    \/ \E p \in Sidecars : Process(p)
    \/ TurnStarts \/ TurnEnds

Spec == Init /\ [][Next]_vars

(***************************************************************************)
(* Fairness: the supervisor's task and the processes run; turns end; a     *)
(* forced restart notifies after it has stored its flag.  Nobody has to    *)
(* start the shell again, and nothing has to fail.                         *)
(***************************************************************************)
Fairness ==
    /\ WF_vars(Supervise) /\ WF_vars(NotifyForce) /\ WF_vars(TurnEnds)
    /\ \A p \in Sidecars : WF_vars(Bind(p))

FairSpec == Spec /\ Fairness

-----------------------------------------------------------------------------
(* Properties. *)

\* Shapes of the variables; a health counter at its limit has already led to a
\* restart.
TypeOK ==
    /\ pc \in {"probe", "reclaim_stale", "reclaim", "spawn", "boot", "retry", "watch",
               "debounce", "idle", "count", "defer", "config_kill", "reclaim_killed",
               "reclaim_unhealthy", "tally", "backoff", "stopped", "failed", "gone"}
    /\ child \in Sidecars \cup {NoSidecar}
    /\ life \in [Sidecars -> Life] /\ mine \subseteq Sidecars
    /\ announced \in BOOLEAN /\ published \in BOOLEAN
    /\ restart \in BOOLEAN /\ shutdown \in BOOLEAN
    /\ force_now \in BOOLEAN /\ forcing \in BOOLEAN
    /\ refused \in 0..MaxRefused /\ timeouts \in 0..MaxTimeouts
    /\ pc = "watch" => refused < MaxRefused /\ timeouts < MaxTimeouts
    /\ retries \in 0..MaxRetries
    /\ crash_times \in Nat
    /\ turns \in BOOLEAN /\ stale \in BOOLEAN
    /\ recent \in 0..MaxRapid + 1 /\ paused \in BOOLEAN
    /\ misses \in Nat /\ forces \in Nat /\ forcedKills \in Nat
    /\ budget \in [requests : 0..MaxRequests, faults : 0..MaxFaults, exits : 0..MaxExits,
                   turns : 0..MaxTurns, kept : 0..MaxKept]

\* The task manager, the night queue and the thread store of the sidecar assume
\* that they are alone on the data directory: on every path that replaces the
\* sidecar, the old one of this shell is dead before a new one is spawned.
OneSidecar == \A p \in mine : life[p] \in Alive => p = child

\* Each forced restart is executed once at the most: a flag that is left over
\* does not cut off the turns of a later sidecar.
ForceOnce == forcedKills + (IF force_now THEN 1 ELSE 0) <= forces

\* A sidecar that lives is given up for bad health only after MaxRefused or
\* MaxTimeouts checks of its own in a row without an answer: what another
\* sidecar missed, or what it missed before it recovered, does not count.
PatientWithBusy ==
    [][ (pc = "watch" /\ pc' = "reclaim_unhealthy" /\ life[child] # "dead") =>
            misses' >= MaxRefused \/ misses' >= MaxTimeouts ]_vars

\* A configuration change reaches a sidecar that loads it, although requests are
\* coalesced, arrive during a start-up or wait for turns to end; unless the
\* supervisor has given up or the shell is gone.
ConfigApplied == stale ~> (~stale \/ pc \in {"stopped", "failed"})

Broken == child # NoSidecar /\ life[child] \in {"dead", "stuck"}

\* A sidecar that died, or that answers neither pings nor HTTP, is replaced, in
\* whatever state the supervisor is, also when it waits for the sidecar's turns.
BrokenIsReplaced == Broken ~> ~Broken

\* A sidecar left by an earlier shell that holds the port when the supervisor
\* probes it is killed, whatever it answers; unless the shell goes too, or a
\* reclaim did not free the port and the start-up ended in an error over that.
OrphanReclaimed ==
    (pc = "probe" /\ Listeners \ mine # {}) ~>
        (Listeners \ mine = {} \/ pc = "gone" \/ (pc = "failed" /\ budget.kept > 0))

-----------------------------------------------------------------------------
(* What a comment says and the code does not keep. *)

\* "if the sidecar restarts >= N times within WINDOW, pause auto-restart": after
\* more than N health restarts within the window the supervisor does not spawn
\* again without a pause.
BackoffAfterRapidCrashes == (pc = "spawn" /\ recent > MaxRapid) => paused

=============================================================================
