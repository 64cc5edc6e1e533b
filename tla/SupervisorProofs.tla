-------------------------- MODULE SupervisorProofs --------------------------
(***************************************************************************)
(* Proofs that the safety properties of Supervisor hold for every limit of *)
(* the code, any number of sidecars, failures, requests and shell exits.   *)
(***************************************************************************)
EXTENDS Supervisor, TLAPS

\* Where the supervisor holds no child.
Childless ==
    {"probe", "reclaim_stale", "reclaim", "spawn", "reclaim_killed", "reclaim_unhealthy",
     "tally", "backoff", "stopped", "failed", "gone"}

ChildInv ==
    /\ pc \in Childless => child = NoSidecar
    /\ pc \notin Childless => child \in Sidecars
    /\ pc = "retry" => retries < MaxRetries
    /\ pc = "watch" => refused <= misses /\ timeouts <= misses

Inv == TypeOK /\ OneSidecar /\ ChildInv /\ ForceOnce

LEMMA LimitFacts ==
    /\ MaxRefused \in Nat /\ MaxRefused > 0 /\ MaxTimeouts \in Nat /\ MaxTimeouts > 0
    /\ MaxRetries \in Nat /\ MaxRetries > 0 /\ MaxRapid \in Nat
    /\ MaxRequests \in Nat /\ MaxFaults \in Nat /\ MaxExits \in Nat /\ MaxTurns \in Nat
    /\ MaxKept \in Nat
  BY LimitsAssumption, BudgetAssumption

\* The shapes in two parts.
Numbers ==
    /\ refused \in 0..MaxRefused /\ timeouts \in 0..MaxTimeouts
    /\ pc = "watch" => refused < MaxRefused /\ timeouts < MaxTimeouts
    /\ retries \in 0..MaxRetries
    /\ crash_times \in Nat /\ recent \in 0..MaxRapid + 1
    /\ misses \in Nat /\ forces \in Nat /\ forcedKills \in Nat
    /\ budget \in [requests : 0..MaxRequests, faults : 0..MaxFaults, exits : 0..MaxExits,
                   turns : 0..MaxTurns, kept : 0..MaxKept]

Shapes ==
    /\ pc \in {"probe", "reclaim_stale", "reclaim", "spawn", "boot", "retry", "watch",
               "debounce", "idle", "count", "defer", "config_kill", "reclaim_killed",
               "reclaim_unhealthy", "tally", "backoff", "stopped", "failed", "gone"}
    /\ child \in Sidecars \cup {NoSidecar}
    /\ life \in [Sidecars -> Life] /\ mine \subseteq Sidecars
    /\ announced \in BOOLEAN /\ published \in BOOLEAN
    /\ restart \in BOOLEAN /\ shutdown \in BOOLEAN
    /\ force_now \in BOOLEAN /\ forcing \in BOOLEAN
    /\ turns \in BOOLEAN /\ stale \in BOOLEAN /\ paused \in BOOLEAN

LEMMA TypeParts == TypeOK <=> Shapes /\ Numbers
  BY DEF TypeOK, Shapes, Numbers

LEMMA TypePartsNext == TypeOK' <=> Shapes' /\ Numbers'
  BY DEF TypeOK, Shapes, Numbers

LEMMA InvInit == Init => Inv
<1> SUFFICES ASSUME Init  PROVE Inv
  OBVIOUS
<1>1. life \in [Sidecars -> Life] /\ mine \subseteq Sidecars /\ mine = {}
  BY DEF Init, Life
<1>2. budget \in [requests : 0..MaxRequests, faults : 0..MaxFaults, exits : 0..MaxExits,
                  turns : 0..MaxTurns, kept : 0..MaxKept]
  BY LimitFacts DEF Init
<1>3. Numbers
  BY LimitFacts, <1>2 DEF Init, Numbers
<1>4. Shapes
  BY <1>1 DEF Init, Shapes
<1>5. TypeOK
  BY <1>3, <1>4, TypeParts
<1> QED
  BY <1>1, <1>5 DEF Init, Inv, OneSidecar, ChildInv, ForceOnce, Childless

\* Spending from the budget keeps it within its bounds.
LEMMA Spending ==
    ASSUME TypeOK,
           \/ budget.requests < MaxRequests /\ Spend("requests")
           \/ budget.faults < MaxFaults /\ Spend("faults")
           \/ budget.exits < MaxExits /\ Spend("exits")
           \/ budget.turns < MaxTurns /\ Spend("turns")
           \/ budget.kept < MaxKept /\ Spend("kept")
    PROVE  budget' \in [requests : 0..MaxRequests, faults : 0..MaxFaults,
                        exits : 0..MaxExits, turns : 0..MaxTurns, kept : 0..MaxKept]
  BY LimitFacts DEF TypeOK, Spend

\* The part of the state that a kill of the child changes.
LEMMA Killing ==
    ASSUME TypeOK, OneSidecar, NEW next, KillChild(next)
    PROVE  /\ child' = NoSidecar /\ pc' = next /\ turns' = FALSE
           /\ life' \in [Sidecars -> Life]
           /\ \A p \in mine : life'[p] \notin Alive
           /\ \A p \in Sidecars : life'[p] \in {life[p], "none"}
  BY DEF TypeOK, OneSidecar, KillChild, Life, Alive, Listening

\* Fewer of the processes are alive.
LEMMA FewerAlive ==
    ASSUME TypeOK, OneSidecar, child' = child, mine' = mine,
           \A p \in Sidecars : life'[p] \in {life[p], "none"}
    PROVE  OneSidecar'
  BY DEF TypeOK, OneSidecar, Alive, Listening

\* None of the processes of this shell is alive once the child is killed.
LEMMA NoneAlive ==
    ASSUME mine' = mine, \A p \in mine : life'[p] \notin Alive
    PROVE  OneSidecar'
  BY DEF OneSidecar

LEMMA StartingWatch ==
    ASSUME TypeOK, StartWatch, child \in Sidecars, child' = child
    PROVE  /\ pc' = "watch" /\ published' = TRUE /\ restart' = restart
           /\ refused' = 0 /\ timeouts' = 0 /\ crash_times' = 0 /\ misses' = 0
  BY DEF StartWatch

-----------------------------------------------------------------------------
\* The supervisor's own rounds, up to a ready sidecar.
LEMMA RoundStep ==
    ASSUME Inv,
           \/ Probe \/ Reclaim \/ SpawnAny \/ SpawnFails
           \/ Ready \/ NoReady \/ ReadyByHttp \/ Retry
    PROVE  Inv'
<1> USE LimitFacts, SidecarsAssumption
<1>0. TypeOK /\ OneSidecar /\ ChildInv /\ ForceOnce
  BY DEF Inv
<1>1. CASE Probe
  <2>1. PICK outcome \in Outcomes :
          pc' = CASE outcome = "ok"       -> "watch"
                  [] outcome = "mismatch" -> "reclaim_stale"
                  [] OTHER                -> "reclaim"
    BY <1>1 DEF Probe
  <2>2. child = NoSidecar
    BY <1>0, <1>1 DEF Probe, ChildInv, Childless
  <2>3. \A p \in mine : life[p] \notin Alive
    BY <1>0, <2>2 DEF OneSidecar, TypeOK
  <2>4. outcome # "ok"
    BY <2>3 DEF Outcomes, Listeners, Alive
  <2>5. pc' \in {"reclaim_stale", "reclaim"}
    BY <2>1, <2>4
  <2>6. published' \in BOOLEAN /\ UNCHANGED <<procs, signals, counters, turns, stale, hist, budget>>
    BY <1>1, <1>0 DEF Probe, TypeOK
  <2> QED
    BY <1>0, <2>2, <2>5, <2>6
       DEF Inv, TypeOK, OneSidecar, ChildInv, ForceOnce, Childless, procs, signals, counters, hist
<1>2. CASE Reclaim
  <2>1. life' \in [Sidecars -> Life] /\ \A p \in Sidecars : life'[p] \in {life[p], "none"}
    BY <1>2, <1>0 DEF Reclaim, AfterReclaim, TypeOK, Life
  <2>2. pc \in Childless /\ pc' \in {"reclaim", "spawn", "probe", "tally"}
    BY <1>2 DEF Reclaim, Childless
  <2>3. UNCHANGED <<child, mine, announced, published, signals, counters, turns, stale, hist>>
    BY <1>2 DEF Reclaim
  <2>4. budget' \in [requests : 0..MaxRequests, faults : 0..MaxFaults,
                     exits : 0..MaxExits, turns : 0..MaxTurns, kept : 0..MaxKept]
    BY <1>2, <1>0, Spending DEF Reclaim, TypeOK
  <2>5. OneSidecar'
    BY <1>0, <2>1, <2>3, FewerAlive
  <2> QED
    BY <1>0, <2>1, <2>2, <2>3, <2>4, <2>5
       DEF Inv, TypeOK, ChildInv, ForceOnce, Childless, signals, counters, hist
<1>3. ASSUME NEW p \in Sidecars, Spawn(p)  PROVE Inv'
  <2>1. /\ pc' = "boot" /\ child' = p /\ life' = [life EXCEPT ![p] = "booting"]
        /\ mine' = {q \in mine : life[q] # "none"} \cup {p}
        /\ announced' = FALSE /\ stale' = FALSE
        /\ UNCHANGED <<published, signals, counters, turns, hist, budget>>
    BY <1>3 DEF Spawn
  <2>2. child = NoSidecar
    BY <1>3, <1>0 DEF Spawn, ChildInv, Childless
  <2>3. OneSidecar'
    BY <1>0, <2>1, <2>2 DEF OneSidecar, TypeOK
  <2>4. life' \in [Sidecars -> Life] /\ mine' \subseteq Sidecars
    BY <1>0, <2>1 DEF TypeOK, Life, Alive
  <2>5. TypeOK'
    BY <1>0, <2>1, <2>4 DEF TypeOK, signals, counters, hist
  <2> QED
    BY <1>0, <2>1, <2>3, <2>5 DEF Inv, ChildInv, ForceOnce, Childless, signals, hist
<1>4. CASE SpawnFails
  <2>1. budget' \in [requests : 0..MaxRequests, faults : 0..MaxFaults,
                     exits : 0..MaxExits, turns : 0..MaxTurns, kept : 0..MaxKept]
    BY <1>4, <1>0, Spending DEF SpawnFails
  <2> QED
    BY <1>0, <1>4, <2>1
       DEF SpawnFails, Inv, TypeOK, OneSidecar, ChildInv, ForceOnce, Childless, procs, signals,
           counters, hist
<1>5. CASE Ready \/ ReadyByHttp
  <2>1. StartWatch /\ pc \in {"boot", "retry"} /\
        UNCHANGED <<procs, shutdown, force_now, forcing, retries, turns, stale, recent, paused,
                    forces, forcedKills, budget>>
    BY <1>5 DEF Ready, ReadyByHttp
  <2>2. child \in Sidecars /\ child' = child
    BY <1>0, <2>1 DEF ChildInv, Childless, procs
  <2>3. /\ pc' = "watch" /\ published' = TRUE /\ restart' = restart
        /\ refused' = 0 /\ timeouts' = 0 /\ crash_times' = 0 /\ misses' = 0
    BY <1>0, <2>1, <2>2, StartingWatch
  <2>4. Shapes'
    BY <1>0, <2>1, <2>3, TypeParts DEF Shapes, procs
  <2>5. Numbers'
    BY <1>0, <2>1, <2>3, TypeParts DEF Numbers
  <2> QED
    BY <1>0, <2>1, <2>2, <2>3, <2>4, <2>5, TypePartsNext
       DEF Inv, OneSidecar, ChildInv, ForceOnce, Childless, procs
<1>6. CASE NoReady
  BY <1>0, <1>6
     DEF NoReady, Inv, TypeOK, OneSidecar, ChildInv, ForceOnce, Childless, procs, signals, hist
<1>7. CASE Retry
  <2>1. /\ pc = "retry" /\ retries' = retries + 1 /\ retries < MaxRetries
        /\ UNCHANGED <<mine, announced, published, signals, refused, timeouts, crash_times, stale,
                       hist, budget>>
    BY <1>0, <1>7 DEF Retry, ChildInv
  <2>2. CASE retries' = MaxRetries
    <3>1. KillChild("failed")
      BY <1>7, <2>2 DEF Retry
    <3>2. /\ child' = NoSidecar /\ pc' = "failed" /\ turns' = FALSE
          /\ life' \in [Sidecars -> Life] /\ OneSidecar'
      BY <1>0, <2>1, <3>1, Killing, NoneAlive
    <3>3. Shapes'
      BY <1>0, <2>1, <3>2, TypeParts DEF Shapes, signals, hist
    <3>4. Numbers'
      BY <1>0, <2>1, <2>2, <3>2, TypeParts DEF Numbers, hist
    <3>5. TypeOK'
      BY <3>3, <3>4, TypePartsNext
    <3> QED
      BY <1>0, <2>1, <3>2, <3>5 DEF Inv, ChildInv, ForceOnce, Childless, signals, hist
  <2>3. CASE retries' # MaxRetries
    <3>1. UNCHANGED <<pc, child, life, turns>>
      BY <1>7, <2>3 DEF Retry
    <3> QED
      BY <1>0, <2>1, <2>3, <3>1
         DEF Inv, TypeOK, OneSidecar, ChildInv, ForceOnce, Childless, signals, hist
  <2> QED
    BY <2>2, <2>3
<1> QED
  BY <1>1, <1>2, <1>3, <1>4, <1>5, <1>6, <1>7 DEF SpawnAny

\* The restart for a configuration change and the end of the supervisor.
LEMMA RestartingStep ==
    ASSUME Inv, Stop \/ Restarting
    PROVE  Inv'
<1> USE LimitFacts, SidecarsAssumption
<1>0. TypeOK /\ OneSidecar /\ ChildInv /\ ForceOnce
  BY DEF Inv
<1>1. CASE Stop
  <2>1. KillChild("stopped") /\ shutdown' = FALSE /\
        UNCHANGED <<mine, announced, published, restart, force_now, forcing, counters, stale,
                    hist, budget>>
    BY <1>1 DEF Stop
  <2>2. /\ child' = NoSidecar /\ pc' = "stopped" /\ turns' = FALSE
        /\ life' \in [Sidecars -> Life] /\ OneSidecar'
    BY <1>0, <2>1, Killing, NoneAlive
  <2>3. TypeOK'
    BY <1>0, <2>1, <2>2 DEF TypeOK, counters, hist
  <2> QED
    BY <1>0, <2>1, <2>2, <2>3 DEF Inv, ChildInv, ForceOnce, Childless, hist
<1>2. CASE RestartRequested
  BY <1>0, <1>2
     DEF RestartRequested, Inv, TypeOK, OneSidecar, ChildInv, ForceOnce, Childless, procs,
         counters, hist
<1>3. CASE Debounce
  <2>1. /\ pc = "debounce" /\ pc' \in {"debounce", "idle"} /\ restart' \in BOOLEAN
        /\ UNCHANGED <<procs, published, shutdown, force_now, forcing, counters, turns, stale,
                       hist, budget>>
    BY <1>0, <1>3 DEF Debounce, TypeOK
  <2> QED
    BY <1>0, <2>1
       DEF Inv, TypeOK, OneSidecar, ChildInv, ForceOnce, Childless, procs, counters, hist
<1>4. CASE CheckForce
  <2>1. /\ pc = "idle" /\ force_now' = FALSE
        /\ pc' \in {"config_kill", "count"}
        /\ forcedKills' = IF force_now THEN forcedKills + 1 ELSE forcedKills
        /\ UNCHANGED <<procs, published, restart, shutdown, forcing, counters, turns, stale,
                       recent, paused, misses, forces, budget>>
    BY <1>4 DEF CheckForce, TakeForce
  <2>2. ForceOnce' /\ forcedKills' \in Nat
    BY <1>0, <2>1 DEF ForceOnce, TypeOK
  <2>3. Shapes'
    BY <1>0, <2>1, TypeParts DEF Shapes, procs
  <2>4. Numbers'
    BY <1>0, <2>1, <2>2, TypeParts DEF Numbers, counters
  <2> QED
    BY <1>0, <2>1, <2>2, <2>3, <2>4, TypePartsNext
       DEF Inv, OneSidecar, ChildInv, Childless, procs, counters
<1>5. CASE CountTurns \/ PollAgain
  <2>1. /\ pc \in {"count", "defer"} /\ pc' \in {"config_kill", "defer", "idle"}
        /\ UNCHANGED <<procs, published, signals, counters, turns, stale, hist, budget>>
    BY <1>5 DEF CountTurns, PollAgain
  <2> QED
    BY <1>0, <2>1
       DEF Inv, TypeOK, OneSidecar, ChildInv, ForceOnce, Childless, procs, signals, counters, hist
<1>6. CASE ConfigKill
  <2>1. KillChild("reclaim_killed") /\
        UNCHANGED <<mine, announced, published, signals, counters, stale, hist, budget>>
    BY <1>6 DEF ConfigKill
  <2>2. /\ child' = NoSidecar /\ pc' = "reclaim_killed" /\ turns' = FALSE
        /\ life' \in [Sidecars -> Life] /\ OneSidecar'
    BY <1>0, <2>1, Killing, NoneAlive
  <2>3. TypeOK'
    BY <1>0, <2>1, <2>2 DEF TypeOK, signals, counters, hist
  <2> QED
    BY <1>0, <2>1, <2>2, <2>3 DEF Inv, ChildInv, ForceOnce, Childless, signals, hist
<1> QED
  BY <1>1, <1>2, <1>3, <1>4, <1>5, <1>6 DEF Restarting

\* What a health check without a foreign answer does.
LEMMA CheckedFacts ==
    ASSUME Inv, pc = "watch", NEW pong \in Pongs, NEW outcome \in Outcomes,
           pong \/ outcome # "mismatch", Checked(pong, outcome)
    PROVE  /\ refused' \in 0..MaxRefused /\ timeouts' \in 0..MaxTimeouts /\ misses' \in Nat
           /\ refused' <= misses' /\ timeouts' <= misses'
           /\ \/ KillChild("reclaim_unhealthy") /\ ShouldRestart(refused', timeouts')
              \/ /\ UNCHANGED <<pc, child, life, turns>>
                 /\ refused' < MaxRefused /\ timeouts' < MaxTimeouts
<1> USE LimitFacts
<1>1. /\ refused \in Nat /\ timeouts \in Nat /\ misses \in Nat
      /\ refused < MaxRefused /\ timeouts < MaxTimeouts
      /\ refused <= misses /\ timeouts <= misses
  BY DEF Inv, TypeOK, ChildInv
<1>2. CASE pong \/ outcome = "ok"
  BY <1>1, <1>2 DEF Checked, ShouldRestart
<1>3. CASE ~(pong \/ outcome = "ok")
  BY <1>1, <1>3 DEF Checked, ShouldRestart
<1> QED
  BY <1>2, <1>3

LEMMA HealthStep ==
    ASSUME Inv, HealthCheck \/ Tally \/ EndBackoff \/ Age
    PROVE  Inv'
<1> USE LimitFacts, SidecarsAssumption
<1>0. TypeOK /\ OneSidecar /\ ChildInv /\ ForceOnce
  BY DEF Inv
<1>1. CASE HealthCheck
  <2>1. /\ pc = "watch"
        /\ UNCHANGED <<mine, announced, published, signals, retries, crash_times, stale, recent,
                       paused, forces, forcedKills, budget>>
    BY <1>1 DEF HealthCheck
  <2>2. PICK pong \in Pongs, outcome \in Outcomes :
          IF ~pong /\ outcome = "mismatch"
          THEN KillChild("reclaim_killed") /\ UNCHANGED <<refused, timeouts, misses>>
          ELSE Checked(pong, outcome)
    BY <1>1 DEF HealthCheck
  <2>3. CASE ~pong /\ outcome = "mismatch"
    <3>1. KillChild("reclaim_killed") /\ UNCHANGED <<refused, timeouts, misses>>
      BY <2>2, <2>3
    <3>2. /\ child' = NoSidecar /\ pc' = "reclaim_killed" /\ turns' = FALSE
          /\ life' \in [Sidecars -> Life] /\ OneSidecar'
      BY <1>0, <2>1, <3>1, Killing, NoneAlive
    <3>3. TypeOK'
      BY <1>0, <2>1, <3>1, <3>2 DEF TypeOK, signals
    <3> QED
      BY <1>0, <2>1, <3>2, <3>3 DEF Inv, ChildInv, ForceOnce, Childless, signals
  <2>4. CASE ~(~pong /\ outcome = "mismatch")
    <3>1. /\ refused' \in 0..MaxRefused /\ timeouts' \in 0..MaxTimeouts /\ misses' \in Nat
          /\ refused' <= misses' /\ timeouts' <= misses'
          /\ \/ KillChild("reclaim_unhealthy")
             \/ /\ UNCHANGED <<pc, child, life, turns>>
                /\ refused' < MaxRefused /\ timeouts' < MaxTimeouts
      <4>1. pong \in BOOLEAN
        BY DEF Pongs
      <4> QED
        BY <4>1, <2>1, <2>2, <2>4, CheckedFacts
    <3>2. CASE KillChild("reclaim_unhealthy")
      <4>1. /\ child' = NoSidecar /\ pc' = "reclaim_unhealthy" /\ turns' = FALSE
            /\ life' \in [Sidecars -> Life] /\ OneSidecar'
        BY <1>0, <2>1, <3>2, Killing, NoneAlive
      <4>2. TypeOK'
        BY <1>0, <2>1, <3>1, <4>1 DEF TypeOK, signals
      <4> QED
        BY <1>0, <2>1, <4>1, <4>2 DEF Inv, ChildInv, ForceOnce, Childless, signals
    <3>3. CASE UNCHANGED <<pc, child, life, turns>>
               /\ refused' < MaxRefused /\ timeouts' < MaxTimeouts
      BY <1>0, <2>1, <3>1, <3>3
         DEF Inv, TypeOK, OneSidecar, ChildInv, ForceOnce, Childless, signals
    <3> QED
      BY <3>1, <3>2, <3>3
  <2> QED
    BY <2>3, <2>4
<1>2. CASE Tally
  <2>1. /\ pc = "tally" /\ pc' \in {"backoff", "probe"}
        /\ crash_times' \in Nat /\ recent' \in 0..MaxRapid + 1 /\ paused' \in BOOLEAN
        /\ UNCHANGED <<procs, published, signals, refused, timeouts, retries, turns, stale,
                       misses, forces, forcedKills, budget>>
    BY <1>0, <1>2 DEF Tally, TypeOK
  <2> QED
    BY <1>0, <2>1
       DEF Inv, TypeOK, OneSidecar, ChildInv, ForceOnce, Childless, procs, signals
<1>3. CASE EndBackoff
  BY <1>0, <1>3
     DEF EndBackoff, Inv, TypeOK, OneSidecar, ChildInv, ForceOnce, Childless, procs, signals,
         counters, hist
<1>4. CASE Age
  <2>1. /\ recent' \in 0..MaxRapid + 1 /\ crash_times' \in Nat
        /\ UNCHANGED <<pc, procs, published, signals, refused, timeouts, retries, turns, stale,
                       paused, misses, forces, forcedKills, budget>>
    BY <1>0, <1>4 DEF Age, TypeOK
  <2> QED
    BY <1>0, <2>1
       DEF Inv, TypeOK, OneSidecar, ChildInv, ForceOnce, Childless, procs, signals
<1> QED
  BY <1>1, <1>2, <1>3, <1>4

-----------------------------------------------------------------------------
\* Commands, the shell and the processes.
LEMMA CommandStep ==
    ASSUME Inv, SaveSettings \/ StoreForce \/ NotifyForce \/ Quit \/ ShellExits \/ ShellStarts
    PROVE  Inv'
<1> USE LimitFacts, SidecarsAssumption
<1>0. TypeOK /\ OneSidecar /\ ChildInv /\ ForceOnce
  BY DEF Inv
<1>1. CASE SaveSettings
  <2>1. budget' \in [requests : 0..MaxRequests, faults : 0..MaxFaults,
                     exits : 0..MaxExits, turns : 0..MaxTurns, kept : 0..MaxKept]
    BY <1>1, <1>0, Spending DEF SaveSettings
  <2> QED
    BY <1>0, <1>1, <2>1
       DEF SaveSettings, Inv, TypeOK, OneSidecar, ChildInv, ForceOnce, procs, counters, hist
<1>2. CASE StoreForce
  <2>1. budget' \in [requests : 0..MaxRequests, faults : 0..MaxFaults,
                     exits : 0..MaxExits, turns : 0..MaxTurns, kept : 0..MaxKept]
    BY <1>2, <1>0, Spending DEF StoreForce
  <2>2. ForceOnce' /\ forces' \in Nat
    BY <1>0, <1>2 DEF StoreForce, ForceOnce, TypeOK
  <2> QED
    BY <1>0, <1>2, <2>1, <2>2
       DEF StoreForce, Inv, TypeOK, OneSidecar, ChildInv, procs, counters
<1>3. CASE NotifyForce \/ Quit
  <2>1. /\ restart' \in BOOLEAN /\ shutdown' \in BOOLEAN /\ forcing' \in BOOLEAN
        /\ UNCHANGED <<pc, procs, published, force_now, counters, turns, stale, hist, budget>>
    BY <1>0, <1>3 DEF NotifyForce, Quit, TypeOK
  <2> QED
    BY <1>0, <2>1 DEF Inv, TypeOK, OneSidecar, ChildInv, ForceOnce, procs, counters, hist
<1>4. CASE ShellExits
  <2>1. budget' \in [requests : 0..MaxRequests, faults : 0..MaxFaults,
                     exits : 0..MaxExits, turns : 0..MaxTurns, kept : 0..MaxKept]
    BY <1>4, <1>0, Spending DEF ShellExits
  <2>2. life' \in [Sidecars -> Life]
    BY <1>4, <1>0 DEF ShellExits, TypeOK, Life
  <2>3. Shapes'
    BY <1>4, <2>2 DEF ShellExits, Shapes
  <2>4. Numbers'
    BY <1>4, <2>1 DEF ShellExits, Numbers
  <2>5. TypeOK'
    BY <2>3, <2>4, TypePartsNext
  <2> QED
    BY <1>4, <2>5 DEF ShellExits, Inv, OneSidecar, ChildInv, ForceOnce, Childless
<1>5. CASE ShellStarts
  BY <1>0, <1>5
     DEF ShellStarts, Inv, TypeOK, OneSidecar, ChildInv, ForceOnce, Childless, procs, signals,
         counters, hist
<1> QED
  BY <1>1, <1>2, <1>3, <1>4, <1>5

\* A process that binds, hangs, revives or exits keeps its place.
LEMMA ProcessStep ==
    ASSUME Inv, TurnStarts \/ TurnEnds \/ \E p \in Sidecars : Process(p)
    PROVE  Inv'
<1> USE LimitFacts, SidecarsAssumption
<1>0. TypeOK /\ OneSidecar /\ ChildInv /\ ForceOnce
  BY DEF Inv
<1>a. ASSUME NEW p \in Sidecars, NEW s \in Life, life[p] \in Alive,
             life' = [life EXCEPT ![p] = s],
             announced' \in BOOLEAN, turns' \in BOOLEAN,
             budget' \in [requests : 0..MaxRequests, faults : 0..MaxFaults,
                          exits : 0..MaxExits, turns : 0..MaxTurns, kept : 0..MaxKept],
             UNCHANGED <<pc, child, mine, published, signals, counters, stale, hist>>
      PROVE  Inv'
  <2>1. life' \in [Sidecars -> Life]
    BY <1>0, <1>a DEF TypeOK
  <2>2. OneSidecar'
    BY <1>0, <1>a DEF TypeOK, OneSidecar
  <2>3. TypeOK'
    BY <1>0, <1>a, <2>1 DEF TypeOK, signals, counters, hist
  <2> QED
    BY <1>0, <1>a, <2>2, <2>3 DEF Inv, ChildInv, ForceOnce, signals, counters, hist
<1>1. CASE TurnStarts \/ TurnEnds
  <2>1. budget' \in [requests : 0..MaxRequests, faults : 0..MaxFaults,
                     exits : 0..MaxExits, turns : 0..MaxTurns, kept : 0..MaxKept]
    BY <1>1, <1>0, Spending DEF TurnStarts, TurnEnds, TypeOK
  <2>2. turns' \in BOOLEAN /\ UNCHANGED <<pc, procs, published, signals, counters, stale, hist>>
    BY <1>1 DEF TurnStarts, TurnEnds
  <2> QED
    BY <1>0, <2>1, <2>2
       DEF Inv, TypeOK, OneSidecar, ChildInv, ForceOnce, procs, signals, counters, hist
<1>2. ASSUME NEW p \in Sidecars, Bind(p)  PROVE Inv'
  <2>1. PICK s \in Life : life' = [life EXCEPT ![p] = s]
    BY <1>2 DEF Bind, Exit, Life, Alive, Listening
  <2>2. announced' \in BOOLEAN /\ turns' \in BOOLEAN /\ life[p] \in Alive
    BY <1>0, <1>2 DEF Bind, Exit, TypeOK, Alive
  <2> QED
    BY <1>0, <1>2, <1>a, <2>1, <2>2 DEF Bind, TypeOK
<1>3. ASSUME NEW p \in Sidecars, Die(p)  PROVE Inv'
  <2>1. PICK s \in Life : life' = [life EXCEPT ![p] = s]
    BY <1>3 DEF Die, Exit, Life
  <2>2. budget' \in [requests : 0..MaxRequests, faults : 0..MaxFaults,
                     exits : 0..MaxExits, turns : 0..MaxTurns, kept : 0..MaxKept]
    BY <1>3, <1>0, Spending DEF Die
  <2>3. announced' \in BOOLEAN /\ turns' \in BOOLEAN /\ life[p] \in Alive
    BY <1>0, <1>3 DEF Die, Exit, TypeOK
  <2> QED
    BY <1>3, <1>a, <2>1, <2>2, <2>3 DEF Die
<1>4. ASSUME NEW p \in Sidecars, NEW how \in {"stuck", "ponging"}, Hang(p, how)  PROVE Inv'
  <2>1. budget' \in [requests : 0..MaxRequests, faults : 0..MaxFaults,
                     exits : 0..MaxExits, turns : 0..MaxTurns, kept : 0..MaxKept]
    BY <1>4, <1>0, Spending DEF Hang
  <2>2. how \in Life /\ life[p] \in Alive /\ life' = [life EXCEPT ![p] = how]
    BY <1>4 DEF Hang, Life, Alive, Listening
  <2> QED
    BY <1>0, <1>4, <1>a, <2>1, <2>2 DEF Hang, TypeOK
<1>5. ASSUME NEW p \in Sidecars, Revive(p)  PROVE Inv'
  <2>1. "serving" \in Life /\ life[p] \in Alive /\ life' = [life EXCEPT ![p] = "serving"]
    BY <1>5 DEF Revive, Life, Alive, Listening
  <2> QED
    BY <1>0, <1>5, <1>a, <2>1 DEF Revive, TypeOK
<1> QED
  BY <1>1, <1>2, <1>3, <1>4, <1>5 DEF Process

LEMMA InvStep == Inv /\ [Next]_vars => Inv'
<1> SUFFICES ASSUME Inv, [Next]_vars  PROVE Inv'
  OBVIOUS
<1>1. CASE UNCHANGED vars
  BY <1>1 DEF vars, procs, signals, counters, hist, Inv, TypeOK, OneSidecar, ChildInv, ForceOnce
<1>2. CASE Next
  BY <1>2, RoundStep, RestartingStep, HealthStep, CommandStep, ProcessStep DEF Next, Supervise
<1> QED
  BY <1>1, <1>2

-----------------------------------------------------------------------------
\* Every reachable state is well typed; a counter at its limit has led to a restart.
THEOREM Typing == Spec => []TypeOK
<1>1. Inv => TypeOK
  BY DEF Inv
<1> QED
  BY InvInit, InvStep, <1>1, PTL DEF Spec

\* For any number of failures, restarts and shell exits, the sidecar a shell is
\* about to replace is dead before the next one is spawned.
THEOREM Alone == Spec => []OneSidecar
<1>1. Inv => OneSidecar
  BY DEF Inv
<1> QED
  BY InvInit, InvStep, <1>1, PTL DEF Spec

\* A force flag is used up by the restart that reads it.
THEOREM Forcing == Spec => []ForceOnce
<1>1. Inv => ForceOnce
  BY DEF Inv
<1> QED
  BY InvInit, InvStep, <1>1, PTL DEF Spec

\* The branch of the 'supervisor loop that adopts a running sidecar without
\* spawning one is never taken: a supervisor that watches holds a child.
THEOREM NeverAdopts == Spec => [](pc = "watch" => child \in Sidecars)
<1>1. Inv => (pc = "watch" => child \in Sidecars)
  BY DEF Inv, ChildInv, Childless
<1> QED
  BY InvInit, InvStep, <1>1, PTL DEF Spec

\* A living sidecar is replaced for bad health only after as many of its own
\* checks in a row as the smaller limit asks for.
THEOREM Patience == Spec => PatientWithBusy
<1>1. Inv /\ [Next]_vars =>
        [ (pc = "watch" /\ pc' = "reclaim_unhealthy" /\ life[child] # "dead") =>
            misses' >= MaxRefused \/ misses' >= MaxTimeouts ]_vars
  <2> SUFFICES ASSUME Inv, Next, pc = "watch", pc' = "reclaim_unhealthy", life[child] # "dead"
               PROVE  misses' >= MaxRefused \/ misses' >= MaxTimeouts
    BY DEF vars
  <2>1. HealthCheck
    BY DEF Next, Supervise, Restarting, Process, Probe, Reclaim, SpawnAny, Spawn, SpawnFails,
           Ready, ReadyByHttp, NoReady, Retry, Stop, KillChild, RestartRequested, Debounce,
           CheckForce, CountTurns, PollAgain, ConfigKill, Tally, EndBackoff, Age, SaveSettings,
           StoreForce, NotifyForce, Quit, ShellExits, ShellStarts, Bind, Die, Hang, Revive,
           TurnStarts, TurnEnds, StartWatch
  <2>2. PICK pong \in Pongs, outcome \in Outcomes :
          IF ~pong /\ outcome = "mismatch"
          THEN KillChild("reclaim_killed") /\ UNCHANGED <<refused, timeouts, misses>>
          ELSE Checked(pong, outcome)
    BY <2>1 DEF HealthCheck
  <2>3. ~(~pong /\ outcome = "mismatch") /\ pong \in BOOLEAN
    BY <2>2 DEF KillChild, Pongs
  <2>4. /\ refused' \in 0..MaxRefused /\ timeouts' \in 0..MaxTimeouts /\ misses' \in Nat
        /\ refused' <= misses' /\ timeouts' <= misses'
        /\ ShouldRestart(refused', timeouts')
    BY <2>2, <2>3, CheckedFacts
  <2> QED
    BY <2>4, LimitFacts DEF ShouldRestart
<1> QED
  BY InvInit, InvStep, <1>1, PTL DEF Spec, PatientWithBusy

-----------------------------------------------------------------------------
(* What a restart that was asked for rests on: the safety behind           *)
(* ConfigApplied, without the fairness.                                    *)

\* Where the next sidecar is still to be spawned.
Respawning ==
    {"probe", "reclaim_stale", "reclaim", "spawn", "debounce", "idle", "count", "defer",
     "config_kill", "reclaim_killed", "reclaim_unhealthy", "tally", "backoff"}

\* A changed configuration has a permit or a round that ends in Spawn.
ChangeRemembered == stale => restart \/ pc \in Respawning \cup {"stopped", "failed"}

\* A force flag is about to be notified, has its permit, or is about to be read.
ForceRemembered == force_now => forcing \/ restart \/ pc \in {"debounce", "idle"}

Remembered == ChangeRemembered /\ ForceRemembered

\* The supervisor's own steps.
LEMMA RememberedRound ==
    ASSUME Inv, Remembered, Supervise \/ SpawnFails \/ Age
    PROVE  Remembered'
<1> USE DEF Remembered, ChangeRemembered, ForceRemembered, Respawning
<1>1. CASE Probe
  <2>1. pc = "probe" /\ child = NoSidecar
    BY <1>1 DEF Probe, Inv, ChildInv, Childless
  <2>2. Listeners \cap mine = {}
    BY <2>1, SidecarsAssumption DEF Inv, OneSidecar, TypeOK, Listeners, Alive
  <2>3. PICK outcome \in Outcomes :
          pc' = CASE outcome = "ok"       -> "watch"
                  [] outcome = "mismatch" -> "reclaim_stale"
                  [] OTHER                -> "reclaim"
    BY <1>1 DEF Probe
  <2>4. outcome # "ok"
    BY <2>2 DEF Outcomes
  <2>5. pc' \in {"reclaim_stale", "reclaim"}
    BY <2>3, <2>4
  <2> QED
    BY <1>1, <2>1, <2>5 DEF Probe, signals
<1>2. CASE Reclaim \/ SpawnAny \/ SpawnFails
  BY <1>2 DEF Reclaim, SpawnAny, Spawn, SpawnFails, signals
<1>3. CASE Ready \/ NoReady \/ ReadyByHttp \/ Retry
  BY <1>3 DEF Ready, NoReady, ReadyByHttp, Retry, StartWatch, KillChild, signals
<1>4. CASE Stop
  BY <1>4 DEF Stop, KillChild
<1>5. CASE Restarting
  BY <1>5 DEF Restarting, RestartRequested, Debounce, CheckForce, TakeForce, CountTurns,
              PollAgain, ConfigKill, KillChild, signals
<1>6. CASE HealthCheck
  <2>1. /\ pc' \in {"watch", "reclaim_unhealthy", "reclaim_killed"} /\ pc = "watch"
        /\ UNCHANGED <<signals, stale>>
    BY <1>6 DEF HealthCheck, Checked, KillChild
  <2> QED
    BY <2>1 DEF signals
<1>7. CASE Tally \/ EndBackoff \/ Age
  BY <1>7 DEF Tally, EndBackoff, Age, signals
<1> QED
  BY <1>1, <1>2, <1>3, <1>4, <1>5, <1>6, <1>7 DEF Supervise

\* Everyone else only adds to what is asked for, or starts again with nothing.
LEMMA RememberedOthers ==
    ASSUME Remembered,
           \/ SaveSettings \/ StoreForce \/ NotifyForce \/ Quit \/ ShellExits \/ ShellStarts
           \/ TurnStarts \/ TurnEnds \/ \E p \in Sidecars : Process(p)
    PROVE  Remembered'
<1> USE DEF Remembered, ChangeRemembered, ForceRemembered, Respawning
<1>1. CASE SaveSettings \/ StoreForce \/ NotifyForce \/ Quit
  BY <1>1 DEF SaveSettings, StoreForce, NotifyForce, Quit
<1>2. CASE ShellExits \/ ShellStarts
  BY <1>2 DEF ShellExits, ShellStarts, signals
<1>3. CASE TurnStarts \/ TurnEnds \/ \E p \in Sidecars : Process(p)
  <2>1. UNCHANGED <<pc, signals, stale>>
    BY <1>3 DEF TurnStarts, TurnEnds, Process, Bind, Die, Hang, Revive
  <2> QED
    BY <2>1 DEF signals
<1> QED
  BY <1>1, <1>2, <1>3

LEMMA RememberedStep == Inv /\ Remembered /\ [Next]_vars => Remembered'
<1> SUFFICES ASSUME Inv, Remembered, [Next]_vars  PROVE Remembered'
  OBVIOUS
<1>1. CASE UNCHANGED vars
  BY <1>1 DEF vars, signals, Remembered, ChangeRemembered, ForceRemembered
<1>2. CASE Next
  BY <1>2, RememberedRound, RememberedOthers DEF Next
<1> QED
  BY <1>1, <1>2

LEMMA RememberedInit == Init => Remembered
  BY DEF Init, Remembered, ChangeRemembered, ForceRemembered

\* Coalesced permits, the debounce, a start-up or the wait for turns never swallow
\* a configuration change, and a force flag is never left over without a notify to
\* come, a permit, or the round that reads it.
THEOREM NothingForgotten == Spec => [](ChangeRemembered /\ ForceRemembered)
<1>1. Remembered => ChangeRemembered /\ ForceRemembered
  BY DEF Remembered
<1> QED
  BY InvInit, InvStep, RememberedInit, RememberedStep, <1>1, PTL DEF Spec

=============================================================================
