-------------------------------- MODULE Sidecar --------------------------------
(***************************************************************************)
(* The Electron main process as the supervisor of `cometmind serve`        *)
(* (cometline/electron/src/domains/cometmind-lifecycle.ts), and its two    *)
(* callers, the settings handler and the quit sequence.  One action is     *)
(* what runs between two awaits.  The binary is installed: start() spawns. *)
(***************************************************************************)
EXTENDS Naturals, FiniteSets

CONSTANTS NoChild,       \* no process is tracked
          Save,          \* settings saves, which may overlap
          MaxSpawns,     \* bound: serve processes spawned
          MaxRespawns,   \* RESPAWN_MAX_ATTEMPTS (10)
          MaxCrashes     \* bound: serve processes that die by themselves

ASSUME SidecarAssumption ==
    /\ Save # {} /\ MaxSpawns \in Nat \ {0} /\ MaxRespawns \in Nat /\ MaxCrashes \in Nat
    /\ NoChild \notin 1..MaxSpawns

VARIABLES serve,     \* the variable process: the tracked child
          children,  \* what became of the spawned children
          timer,     \* respawnTimer is set
          respawns,  \* respawnAttempts
          probes,    \* respawns whose waitForHealth is under way
          save,      \* where each settings save is
          waits,     \* the child whose exit a save or the quit awaits
          quit,      \* the quit sequence: no, stopping, done
          crashes

sidecarVars == <<serve, children, timer, respawns, probes, save, waits, quit, crashes>>

Child == 1..MaxSpawns
Stopper == Save \cup {"quit"}

SidecarTypeOK ==
    /\ serve \in Child \cup {NoChild}
    /\ children \in [Child -> {"unborn", "alive", "told", "dead"}]
    /\ timer \in BOOLEAN /\ respawns \in 0..MaxRespawns /\ probes \in 0..MaxSpawns
    /\ save \in [Save -> {"idle", "reload", "stopping", "wait", "saved"}]
    /\ waits \in [Stopper -> Child \cup {NoChild}]
    /\ quit \in {"no", "stopping", "done"}
    /\ crashes \in 0..MaxCrashes

Suppressed == quit # "no"
Spawned == Cardinality({c \in Child : children[c] # "unborn"})
Tracked == serve # NoChild

SidecarInit ==
    /\ serve = 1
    /\ children = [c \in Child |-> IF c = 1 THEN "alive" ELSE "unborn"]
    /\ timer = FALSE /\ respawns = 0 /\ probes = 0
    /\ save = [v \in Save |-> "idle"]
    /\ waits = [x \in Stopper |-> NoChild]
    /\ quit = "no" /\ crashes = 0
-------------------------------------------------------------------------------
\* Mutant of Start: start() does not ask whether a child is running.
StartAlways ==
    /\ Spawned < MaxSpawns
    /\ serve' = Spawned + 1
    /\ children' = [children EXCEPT ![Spawned + 1] = "alive"]

\* start(): spawn a child unless one is tracked and running.
Start ==
    IF Tracked THEN UNCHANGED <<serve, children>>
    ELSE /\ Spawned < MaxSpawns
         /\ serve' = Spawned + 1
         /\ children' = [children EXCEPT ![Spawned + 1] = "alive"]

\* Mutant of ScheduleRespawn: a respawn whose health is still probed is taken
\* for one that is under way.
ScheduleRespawnUnlessProbed ==
    IF Suppressed \/ timer \/ probes > 0 \/ respawns >= MaxRespawns
    THEN UNCHANGED <<timer, respawns>>
    ELSE timer' = TRUE /\ respawns' = respawns + 1

ScheduleRespawn ==
    IF Suppressed \/ timer \/ respawns >= MaxRespawns THEN UNCHANGED <<timer, respawns>>
    ELSE timer' = TRUE /\ respawns' = respawns + 1

\* A child is gone and its exit event arrives; only that of the tracked child
\* schedules a respawn.
Exit(c) ==
    /\ IF serve = c THEN serve' = NoChild /\ ScheduleRespawn
                    ELSE UNCHANGED <<serve, timer, respawns>>
    /\ children' = [children EXCEPT ![c] = "dead"]
    /\ UNCHANGED <<probes, save, waits, quit>>

\* A child that was told to stop exits, or is killed after the grace period.
Stops(c) == children[c] = "told" /\ Exit(c) /\ UNCHANGED crashes

\* A child finds its port taken by another that has not exited yet.
PortTaken(c) ==
    /\ children[c] = "alive"
    /\ \E d \in Child \ {c} : d < c /\ children[d] \in {"alive", "told"}
    /\ Exit(c) /\ UNCHANGED crashes

Crashes(c) ==
    /\ children[c] = "alive" /\ crashes < MaxCrashes
    /\ Exit(c) /\ crashes' = crashes + 1

\* The respawn timer fires.
Respawn ==
    /\ timer /\ timer' = FALSE
    /\ IF Suppressed \/ Tracked THEN UNCHANGED <<serve, children, probes>>
       ELSE Start /\ probes' = probes + 1
    /\ UNCHANGED <<respawns, save, waits, quit, crashes>>

\* waitForHealth of a respawn: any serve that answers resets the attempts.
ProbeEnds ==
    /\ probes > 0 /\ probes' = probes - 1
    /\ \/ UNCHANGED respawns
       \/ (\E c \in Child : children[c] \in {"alive", "told"}) /\ respawns' = 0
    /\ UNCHANGED <<serve, children, timer, save, waits, quit, crashes>>

\* stop(): the timer is cleared, the child forgotten and told to stop; the
\* caller awaits its exit.
Stop(x) ==
    /\ timer' = FALSE /\ respawns' = 0
    /\ serve' = NoChild
    /\ waits' = [waits EXCEPT ![x] = serve]
    /\ children' = IF Tracked THEN [children EXCEPT ![serve] = "told"] ELSE children

StopDone(x) == \A c \in Child : waits[x] = c => children[c] = "dead"
-------------------------------------------------------------------------------
(* The settings handler: the settings call for a restart or for a reload.  *)

SaveTo(v, pc) == save' = [save EXCEPT ![v] = pc]

SaveRestart(v) ==
    /\ save[v] = "idle"
    /\ Stop(v) /\ SaveTo(v, "stopping")
    /\ UNCHANGED <<probes, quit, crashes>>

\* reload(): a sidecar that is not running is started, a running one is told
\* to reload by a command.
SaveReload(v) ==
    /\ save[v] = "idle"
    /\ IF Tracked THEN SaveTo(v, "reload") /\ UNCHANGED <<serve, children>>
                  ELSE Start /\ SaveTo(v, "wait")
    /\ UNCHANGED <<timer, respawns, probes, waits, quit, crashes>>

\* The command fails or the sidecar is not healthy after it: a restart.
ReloadFails(v) ==
    /\ save[v] = "reload"
    /\ Stop(v) /\ SaveTo(v, "stopping")
    /\ UNCHANGED <<probes, quit, crashes>>

ReloadWorks(v) ==
    /\ save[v] = "reload"
    /\ SaveTo(v, "saved")
    /\ UNCHANGED <<serve, children, timer, respawns, probes, waits, quit, crashes>>

\* The stopped child is gone.
SaveStarts(v) ==
    /\ save[v] = "stopping" /\ StopDone(v)
    /\ Start /\ SaveTo(v, "wait")
    /\ UNCHANGED <<timer, respawns, probes, waits, quit, crashes>>

SaveHealthChecked(v) ==
    /\ save[v] = "wait" /\ SaveTo(v, "saved")
    /\ UNCHANGED <<serve, children, timer, respawns, probes, waits, quit, crashes>>
-------------------------------------------------------------------------------
(* before-quit: respawns are suppressed, then stop(), then the process     *)
(* ends and its exit handler signals what is still tracked.                *)

QuitStops ==
    /\ quit = "no" /\ quit' = "stopping"
    /\ Stop("quit")
    /\ UNCHANGED <<probes, save, crashes>>

TerminateForExit ==
    /\ quit = "stopping" /\ StopDone("quit")
    /\ quit' = "done"
    /\ children' = IF Tracked THEN [children EXCEPT ![serve] = "told"] ELSE children
    /\ UNCHANGED <<serve, timer, respawns, probes, save, waits, crashes>>

SidecarNext ==
    \/ /\ quit # "done"
       /\ \/ Respawn \/ ProbeEnds \/ QuitStops \/ TerminateForExit
          \/ \E v \in Save : \/ SaveRestart(v) \/ SaveReload(v) \/ ReloadFails(v)
                             \/ ReloadWorks(v) \/ SaveStarts(v) \/ SaveHealthChecked(v)
          \/ \E c \in Child : Stops(c) \/ PortTaken(c) \/ Crashes(c)

SidecarSpec == SidecarInit /\ [][SidecarNext]_sidecarVars
-------------------------------------------------------------------------------
(* The user is not left without a sidecar: when none is tracked, a respawn *)
(* is due, or a restart is under way that will start one, or the attempts  *)
(* are used up; overlapping saves that stop each other's child, and the    *)
(* crashes that a taken port causes, do not lose it                        *)
(* (cometmind-lifecycle.ts:165).                                           *)
DeadIsRespawned ==
    (~Tracked /\ ~Suppressed) =>
      timer \/ respawns >= MaxRespawns \/ \E v \in Save : save[v] = "stopping"

(* No serve process runs on behind the back of the supervisor: whoever is  *)
(* not tracked has been told to stop, at the latest when the app exits     *)
(* (cometmind-lifecycle.ts:186).                                           *)
NoOrphanServe ==
    \A c \in Child : children[c] = "alive" => c = serve /\ quit # "done"
===============================================================================
