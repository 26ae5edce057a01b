------------------------------ MODULE SessionRun ------------------------------
(***************************************************************************)
(* The run lease of one chat session: the row of table session_runs, the   *)
(* heartbeat goroutine of every lease (runstate/service.go) and the handle *)
(* maps of its two users, RunManager of the serve process and              *)
(* TurnRunTracker of the gateway process.  Sessions share nothing but the  *)
(* database, so one session is modelled; a run id is used once.            *)
(***************************************************************************)
EXTENDS Naturals, FiniteSets

CONSTANTS ServeRun,    \* runs of the serve process: messages and compactions
          GatewayRun,  \* turns of the gateway process
          None,        \* no row, no handle
          StaleAfter,  \* age at which a row may be pruned (15 s)
          MaxAborts,   \* bound: cancel calls in a behaviour
          MaxFaults    \* bound: suspensions and crashes in a behaviour

\* The columns of table session_runs that the lease is made of.
RunRow == [run : ServeRun \cup GatewayRun, age : 0..(StaleAfter + 1), abort : BOOLEAN]

ASSUME SessionRunAssumption ==
    /\ ServeRun \cap GatewayRun = {}
    /\ None \notin ServeRun \cup GatewayRun \cup RunRow
    /\ StaleAfter \in Nat \ {0}
    /\ MaxAborts \in Nat /\ MaxFaults \in Nat

VARIABLES row,        \* the row: None or [run, age, abort]
          phase,      \* where the code that holds run r is
          cancelled,  \* runs whose context is cancelled
          watch,      \* Lease.watch: off, idle (in select), read (before its heartbeat)
          handle,     \* RunManager.cancels and TurnRunTracker.cancels
          closed,     \* gateway runs whose done channel is closed
          owed,       \* released runs whose onFinished callback has not run yet
          notes,      \* how often onFinished was called for a run
          late,       \* runs whose process was suspended since their last heartbeat
          deleted,    \* the session is deleted; its id is never used again
          cancel,     \* the cancel call in progress: [pc, proc]
          aborts, faults

vars == <<row, phase, cancelled, watch, handle, closed, owed, notes, late,
          deleted, cancel, aborts, faults>>
runVars == <<phase, cancelled, watch, handle, closed>>
envVars == <<late, deleted, cancel, aborts, faults>>

Run == ServeRun \cup GatewayRun
Proc == {"serve", "gateway"}
Owner(r) == IF r \in GatewayRun THEN "gateway" ELSE "serve"

\* The holder of the row, None when the session is free.
Holder == IF row = None THEN None ELSE row.run
\* Mutant of Stale: the limit is taken in another unit than the column.
StaleInOtherUnit == row # None /\ row.age > 1000 * StaleAfter

Stale == row # None /\ row.age > StaleAfter
Pruned == IF Stale THEN None ELSE row

\* Run r works on the session, from the INSERT of its row to the end of its turn.
Active(r) == phase[r] \in {"entered", "working"}
\* The goroutine that renews the row of r is running.
Watching(r) == watch[r] \in {"idle", "read"}

Phases == {"idle", "denied", "retry", "refused", "entered", "working",
           "flushing", "unhooked", "stopped", "over", "dead"}

STypeOK ==
    /\ row \in {None} \cup RunRow
    /\ phase \in [Run -> Phases]
    /\ cancelled \subseteq Run /\ closed \subseteq GatewayRun
    /\ watch \in [Run -> {"off", "idle", "read"}]
    /\ handle \in [Proc -> Run \cup {None}]
    /\ owed \subseteq Run /\ late \subseteq Run
    /\ notes \in [Run -> Nat] /\ deleted \in BOOLEAN
    /\ cancel \in [pc : {"idle", "pruned", "asked"}, proc : Proc]
    /\ aborts \in 0..MaxAborts /\ faults \in 0..MaxFaults

Init ==
    /\ row = None
    /\ phase = [r \in Run |-> "idle"]
    /\ cancelled = {} /\ closed = {}
    /\ watch = [r \in Run |-> "off"]
    /\ handle = [p \in Proc |-> None]
    /\ owed = {} /\ late = {} /\ deleted = FALSE
    /\ notes = [r \in Run |-> 0]
    /\ cancel = [pc |-> "idle", proc |-> "serve"]
    /\ aborts = 0 /\ faults = 0
-------------------------------------------------------------------------------
(* Service.Acquire: INSERT, and after a conflict prune and INSERT again.   *)

Goto(r, ph) == phase' = [phase EXCEPT ![r] = ph]

\* tryAcquire: the row is inserted when the session has none; the heartbeat
\* goroutine starts before the caller has stored its handle.  For a session
\* that was deleted the INSERT fails on its foreign key.
TryAcquire(r, onConflict) ==
    \/ /\ row = None /\ ~deleted
       /\ row' = [run |-> r, age |-> 0, abort |-> FALSE]
       /\ Goto(r, "entered")
       /\ watch' = [watch EXCEPT ![r] = "idle"]
    \/ /\ row # None \/ deleted
       /\ Goto(r, IF deleted THEN "refused" ELSE onConflict)
       /\ UNCHANGED <<row, watch>>

Acquire(r) == /\ phase[r] = "idle"
              /\ TryAcquire(r, "denied")
              /\ UNCHANGED <<cancelled, handle, closed, owed, notes, envVars>>

PruneStale(r) == /\ phase[r] = "denied"
                 /\ row' = Pruned
                 /\ Goto(r, "retry")
                 /\ UNCHANGED <<cancelled, watch, handle, closed, owed, notes, envVars>>

Retry(r) == /\ phase[r] = "retry"
            /\ TryAcquire(r, "refused")
            /\ UNCHANGED <<cancelled, handle, closed, owed, notes, envVars>>

\* RunManager.start and TurnRunTracker.Start store the handle of the session.
Store(r) == /\ phase[r] = "entered"
            /\ handle' = [handle EXCEPT ![Owner(r)] = r]
            /\ Goto(r, "working")
            /\ UNCHANGED <<row, cancelled, watch, closed, owed, notes, envVars>>
-------------------------------------------------------------------------------
(* Lease.watch: read the row, cancel when it is gone or aborted, renew it. *)

\* Mutant of WatchRead: the abort flag is not looked at.
WatchReadDeaf(r) ==
    /\ watch[r] = "idle" /\ Holder = r
    /\ watch' = [watch EXCEPT ![r] = "read"]
    /\ UNCHANGED <<row, phase, cancelled, handle, closed, owed, notes, envVars>>

\* Mutant of WatchRead: returns on an abort, so that the row is not renewed
\* while the turn winds down.
WatchReadQuits(r) ==
    /\ watch[r] = "idle"
    /\ LET quits == IF Holder = r THEN row.abort ELSE TRUE
       IN /\ watch' = [watch EXCEPT ![r] = IF quits THEN "off" ELSE "read"]
          /\ cancelled' = IF quits THEN cancelled \cup {r} ELSE cancelled
    /\ UNCHANGED <<row, phase, handle, closed, owed, notes, envVars>>

WatchRead(r) ==
    /\ watch[r] = "idle"
    /\ \/ /\ Holder # r
          /\ cancelled' = cancelled \cup {r}
          /\ watch' = [watch EXCEPT ![r] = "off"]
       \/ /\ Holder = r
          /\ cancelled' = IF row.abort THEN cancelled \cup {r} ELSE cancelled
          /\ watch' = [watch EXCEPT ![r] = "read"]
    /\ UNCHANGED <<row, phase, handle, closed, owed, notes, envVars>>

\* Mutant of WatchBeat: a lost lease ends the goroutine only.
WatchBeatSilently(r) ==
    /\ watch[r] = "read"
    /\ row' = IF Holder = r THEN [row EXCEPT !.age = 0] ELSE row
    /\ watch' = [watch EXCEPT ![r] = IF Holder = r THEN "idle" ELSE "off"]
    /\ late' = IF Holder = r THEN late \ {r} ELSE late
    /\ UNCHANGED <<phase, cancelled, handle, closed, owed, notes, deleted,
                   cancel, aborts, faults>>

\* HeartbeatSessionRun: UPDATE ... WHERE run_id; no row means the lease is lost.
WatchBeat(r) ==
    /\ watch[r] = "read"
    /\ \/ /\ Holder = r
          /\ row' = [row EXCEPT !.age = 0]
          /\ watch' = [watch EXCEPT ![r] = "idle"]
          /\ late' = late \ {r}
          /\ UNCHANGED cancelled
       \/ /\ Holder # r
          /\ cancelled' = cancelled \cup {r}
          /\ watch' = [watch EXCEPT ![r] = "off"]
          /\ UNCHANGED <<row, late>>
    /\ UNCHANGED <<phase, handle, closed, owed, notes, deleted,
                   cancel, aborts, faults>>
-------------------------------------------------------------------------------
(* The end of a run. *)

\* The turn is over; it still flushes its events (to serve, for the gateway).
EndTurn(r) ==
    /\ phase[r] = "working"
    /\ Goto(r, "flushing")
    /\ UNCHANGED <<row, cancelled, watch, handle, closed, owed, notes, envVars>>

Ended == {"flushing", "unhooked", "stopped", "over", "dead"}

\* Mutant of ServeRelease: the callback whether or not a row was deleted.
ServeReleaseAlways(r) ==
    /\ r \in GatewayRun /\ phase[r] \in Ended
    /\ row' = IF Holder = r THEN None ELSE row
    /\ owed' = owed \cup {r}
    /\ UNCHANGED <<runVars, notes, envVars>>

\* RunManager.Release: serve got the Finish packet of gateway run r and deletes
\* its row; the packet may be late, the DELETE names the run.
ServeRelease(r) ==
    /\ r \in GatewayRun /\ phase[r] \in Ended
    /\ Holder = r
    /\ row' = None
    /\ owed' = owed \cup {r}
    /\ UNCHANGED <<runVars, notes, envVars>>

\* Mutant of Unhook: a done channel is closed for every run.
UnhookClosingAny(r) ==
    /\ phase[r] = "flushing"
    /\ handle' = [handle EXCEPT ![Owner(r)] = IF @ = r THEN None ELSE @]
    /\ closed' = closed \cup {r}
    /\ Goto(r, "unhooked")
    /\ UNCHANGED <<row, cancelled, watch, owed, notes, envVars>>

\* finish: the handle is removed if it is still that of this run; only then is
\* the done channel of a gateway turn closed.
Unhook(r) ==
    /\ phase[r] = "flushing"
    /\ \/ /\ handle[Owner(r)] = r
          /\ handle' = [handle EXCEPT ![Owner(r)] = None]
          /\ closed' = closed \cup ({r} \cap GatewayRun)
       \/ /\ handle[Owner(r)] # r
          /\ UNCHANGED <<handle, closed>>
    /\ Goto(r, "unhooked")
    /\ UNCHANGED <<row, cancelled, watch, owed, notes, envVars>>

\* Lease.Finish: stop the heartbeat and wait until its goroutine has returned.
StopWatch(r) ==
    /\ phase[r] = "unhooked"
    /\ watch[r] # "read"
    /\ watch' = [watch EXCEPT ![r] = "off"]
    /\ cancelled' = cancelled \cup {r}
    /\ Goto(r, "stopped")
    /\ UNCHANGED <<row, handle, closed, owed, notes, envVars>>

\* Mutant of Release: DELETE ... WHERE session_id only.
ReleaseSession(r) ==
    /\ phase[r] = "stopped"
    /\ row' = None
    /\ owed' = IF r \in ServeRun THEN owed \cup {r} ELSE owed
    /\ Goto(r, "over")
    /\ UNCHANGED <<cancelled, watch, handle, closed, notes, envVars>>

\* Lease.Finish: DELETE ... WHERE run_id.  A message run that deleted its row
\* owes the callback; a manual compaction (notify = false) never calls it.
Release(r) ==
    /\ phase[r] = "stopped"
    /\ row' = IF Holder = r THEN None ELSE row
    /\ \/ /\ Holder = r /\ r \in ServeRun
          /\ owed' = owed \cup {r}
       \/ UNCHANGED owed
    /\ Goto(r, "over")
    /\ UNCHANGED <<cancelled, watch, handle, closed, notes, envVars>>

\* RunManager.notifyFinished, in serve.
Notify(r) ==
    /\ r \in owed
    /\ owed' = owed \ {r}
    /\ notes' = [notes EXCEPT ![r] = @ + 1]
    /\ UNCHANGED <<row, runVars, envVars>>
-------------------------------------------------------------------------------
(* RunManager.Cancel and TurnRunTracker.Stop: prune, mark the row, look up *)
(* the handle.  One call at a time is modelled.                            *)

CancelPrune(p) ==
    /\ cancel.pc = "idle" /\ aborts < MaxAborts
    /\ row' = Pruned
    /\ cancel' = [pc |-> "pruned", proc |-> p]
    /\ aborts' = aborts + 1
    /\ UNCHANGED <<runVars, owed, notes, late, deleted, faults>>

\* RequestSessionRunAbort also sets updated_at.
CancelMark ==
    /\ cancel.pc = "pruned"
    /\ row' = IF row = None THEN None ELSE [row EXCEPT !.abort = TRUE, !.age = 0]
    /\ cancel' = [cancel EXCEPT !.pc = "asked"]
    /\ UNCHANGED <<runVars, owed, notes, late, deleted, aborts, faults>>

CancelHandle ==
    /\ cancel.pc = "asked"
    /\ cancelled' = cancelled \cup ({handle[cancel.proc]} \cap Run)
    /\ cancel' = [cancel EXCEPT !.pc = "idle"]
    /\ UNCHANGED <<row, phase, watch, handle, closed, owed, notes, late,
                   deleted, aborts, faults>>

\* The session is deleted, and ON DELETE CASCADE takes the row along, whoever
\* works on the session.  handleDeleteSession comes here right after a cancel
\* call (above) and retention after it found no row (Poll), but a session goes
\* with its parent, and the container of a job or an inbox item with the worker
\* that is done with it, although nobody looked for a run: it may come any time.
DeleteSession ==
    /\ ~deleted
    /\ deleted' = TRUE
    /\ row' = None
    /\ UNCHANGED <<runVars, owed, notes, late, cancel, aborts, faults>>

\* Service.Running and Service.Current prune before they look.
Poll == /\ Stale
        /\ row' = Pruned
        /\ UNCHANGED <<runVars, owed, notes, envVars>>
-------------------------------------------------------------------------------
(* Time and failures. *)

\* A heartbeat goroutine that was not suspended since its last heartbeat renews
\* its row (every second) before the row is stale (15 s).
Tick == /\ row # None /\ row.age <= StaleAfter
        /\ Watching(row.run) /\ row.run \notin late => row.age < StaleAfter
        /\ row' = [row EXCEPT !.age = @ + 1]
        /\ UNCHANGED <<runVars, owed, notes, envVars>>

\* A process is suspended: for as long as it is, the others go on and its
\* rows are not renewed.
Suspend(p) ==
    /\ faults < MaxFaults
    /\ late' = late \cup {r \in Run : Owner(r) = p /\ Watching(r)}
    /\ faults' = faults + 1
    /\ UNCHANGED <<row, runVars, owed, notes, deleted, cancel, aborts>>

\* A process dies and is started again: its handles and goroutines are gone,
\* the row stays.
Crash(p) ==
    /\ faults < MaxFaults
    /\ LET own == {r \in Run : Owner(r) = p}
       IN /\ phase' = [r \in Run |-> IF r \in own /\ phase[r] \notin {"idle", "over", "refused"}
                                     THEN "dead" ELSE phase[r]]
          /\ watch' = [r \in Run |-> IF r \in own THEN "off" ELSE watch[r]]
          /\ late' = late \ own
    /\ handle' = [handle EXCEPT ![p] = None]
    /\ owed' = IF p = "serve" THEN {} ELSE owed
    /\ cancel' = IF cancel.proc = p THEN [cancel EXCEPT !.pc = "idle"] ELSE cancel
    /\ faults' = faults + 1
    /\ UNCHANGED <<row, cancelled, closed, notes, deleted, aborts>>
-------------------------------------------------------------------------------
\* The goroutine that starts a run, finishes it and then calls onFinished.
Settle(r) == \/ PruneStale(r) \/ Retry(r) \/ Store(r)
             \/ Unhook(r) \/ StopWatch(r) \/ Release(r) \/ Notify(r)
Watch(r) == WatchRead(r) \/ WatchBeat(r)
EndCancelled(r) == r \in cancelled /\ EndTurn(r)

Next == \/ \E r \in Run : Acquire(r) \/ Settle(r) \/ Watch(r) \/ EndTurn(r) \/ ServeRelease(r)
        \/ \E p \in Proc : CancelPrune(p) \/ Suspend(p) \/ Crash(p)
        \/ CancelMark \/ CancelHandle \/ DeleteSession \/ Poll \/ Tick

Spec == Init /\ [][Next]_vars

\* Goroutines run, time passes, a client asks whether the session runs, and a
\* turn ends when its context is cancelled; nobody has to start a run, to
\* cancel one, or to end a turn that nobody cancelled.
Fairness ==
    /\ \A r \in Run : /\ SF_vars(Settle(r) \/ EndCancelled(r))
                      /\ WF_vars(Watch(r))
    /\ WF_vars(CancelMark \/ CancelHandle)
    /\ WF_vars(Poll) /\ WF_vars(Tick)

FairSpec == Spec /\ Fairness
-------------------------------------------------------------------------------
(* One agent at a time works on a session: two runs are active together    *)
(* only if the process of one was suspended since its last heartbeat.      *)
(* (Service.Acquire, Lease.watch, pruneStale)                              *)
OneActiveRun ==
    \A r, q \in Run : Active(r) /\ Active(q) /\ r # q => r \in late \/ q \in late

(* A run that has lost the session is told so: as long as its context is   *)
(* not cancelled, the goroutine that will notice is still there.           *)
LoserIsTold == \A r \in Run : Active(r) /\ Holder # r /\ r \notin cancelled => Watching(r)

(* Only its own end, a suspension of its process, or the deletion of the  *)
(* session takes the row away from a run that is working: the end of a     *)
(* displaced run, a late Finish packet and a cancel call leave the row of  *)
(* the next run alone.                                                     *)
RowKept ==
    [][\A r \in Run : Active(r) /\ Holder = r /\ r \notin late
                      => Holder' = r \/ (~deleted /\ deleted')]_vars

(* onFinished (which closes the event stream and tells the clients) comes  *)
(* once per run at most, although the run may be released by its own       *)
(* Lease.Finish and by a Finish packet, and never before the session is    *)
(* free of the run.                                                        *)
AnnouncedOnceWhenFree ==
    \A r \in Run : /\ notes[r] + (IF r \in owed THEN 1 ELSE 0) <= 1
                   /\ notes[r] > 0 => Holder # r

(* A run that has to stop is told so: one whose row an abort has reached,  *)
(* also when the cancel call came before the handle was stored or from the *)
(* other process, and one whose row is gone, taken by another run or with  *)
(* the session.  (RequestAbort, Lease.watch, Lease.Cancel)                 *)
AbortIsHeard ==
    \A r \in Run : (Active(r) /\ (Holder # r \/ row.abort))
                   ~> (r \in cancelled \/ ~Active(r))

(* Neither a crash nor an abort leaves the session locked: a row whose run *)
(* is dead or was told to stop goes away.                                  *)
SessionComesFree ==
    \A r \in Run : (Holder = r /\ (phase[r] = "dead" \/ row.abort)) ~> Holder # r
===============================================================================
