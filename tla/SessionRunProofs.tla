--------------------------- MODULE SessionRunProofs ---------------------------
(***************************************************************************)
(* Proofs about SessionRun, for every number of runs and every value of    *)
(* the stale limit.                                                        *)
(*                                                                         *)
(* The argument: the row of a run whose heartbeat goroutine was not        *)
(* suspended is never older than the limit (FreshRow), so nobody prunes    *)
(* it; a run that is still active although it has lost the row must have   *)
(* been suspended (ActiveHasRow), or the session has been deleted, after   *)
(* which no run begins (DeletedStaysFree).  Heartbeat goroutines end only  *)
(* when they have cancelled their run, or with it (ActiveIsWatched).       *)
(***************************************************************************)
EXTENDS SessionRun, TLAPS

\* A row that is being renewed on time can not be pruned.
FreshRow == (row # None /\ Watching(row.run) /\ row.run \notin late) => ~Stale

\* A run that works without the row has been suspended, as long as there is a
\* session.
ActiveHasRow == ~deleted => \A r \in Run : Active(r) /\ r \notin late => Holder = r

\* A deleted session has no row, and gets no run that it did not have before.
DeletedStaysFree == deleted => row = None /\ OneActiveRun

\* The goroutine of an active run is there as long as the run has the row, and
\* until it has cancelled the run.
ActiveIsWatched ==
    \A r \in Run : Active(r) /\ (Holder = r \/ r \notin cancelled) => Watching(r)

\* A run without its row is what onFinished is called for, and a run that has
\* not begun was never announced.
UnannouncedWhileHeld ==
    \A r \in Run : (Holder = r \/ phase[r] \in {"idle", "denied", "retry"})
                   => r \notin owed /\ notes[r] = 0

IInv == /\ STypeOK
        /\ FreshRow /\ ActiveHasRow /\ ActiveIsWatched /\ DeletedStaysFree
        /\ UnannouncedWhileHeld /\ AnnouncedOnceWhenFree

\* A row that is renewed, aborted or older is the row of the same run.
LEMMA RowUpdated ==
  ASSUME NEW q \in RunRow
  PROVE  /\ [q EXCEPT !.age = 0] \in RunRow \ {None}
         /\ [q EXCEPT !.age = 0].run = q.run
         /\ [q EXCEPT !.age = 0].age = 0
         /\ [q EXCEPT !.abort = TRUE, !.age = 0] \in RunRow \ {None}
         /\ [q EXCEPT !.abort = TRUE, !.age = 0].run = q.run
         /\ [q EXCEPT !.abort = TRUE, !.age = 0].age = 0
         /\ q.age <= StaleAfter =>
              /\ [q EXCEPT !.age = q.age + 1] \in RunRow \ {None}
              /\ [q EXCEPT !.age = q.age + 1].run = q.run
<1>. USE SessionRunAssumption DEF RunRow
<1>1. 0 \in 0..(StaleAfter + 1)
  OBVIOUS
<1>2. [q EXCEPT !.age = 0] \in RunRow /\ [q EXCEPT !.abort = TRUE, !.age = 0] \in RunRow
  BY <1>1
<1>3. ASSUME q.age <= StaleAfter
      PROVE  [q EXCEPT !.age = q.age + 1] \in RunRow
  <2>1. q.age + 1 \in 0..(StaleAfter + 1)
    BY <1>3
  <2>. QED
    BY <2>1
<1>4. \A p \in RunRow : p # None
  OBVIOUS
<1>5. /\ [q EXCEPT !.age = 0].run = q.run /\ [q EXCEPT !.age = 0].age = 0
      /\ [q EXCEPT !.abort = TRUE, !.age = 0].run = q.run
      /\ [q EXCEPT !.abort = TRUE, !.age = 0].age = 0
      /\ [q EXCEPT !.age = q.age + 1].run = q.run
  OBVIOUS
<1>. QED
  BY <1>2, <1>3, <1>4, <1>5

\* The row is taken when there is none, and nothing but the phase of the run
\* changes otherwise.
LEMMA TryAcquireKeeps ==
  ASSUME IInv, NEW r \in Run, phase[r] \in {"idle", "retry"},
         NEW onConflict \in {"denied", "refused"}, TryAcquire(r, onConflict),
         UNCHANGED <<cancelled, handle, closed, owed, notes, envVars>>
  PROVE  IInv'
<1>. USE SessionRunAssumption
     DEF IInv, STypeOK, RunRow, Run, Proc, Phases, envVars, Goto
<1>1. CASE row = None /\ ~deleted
  <2>. DEFINE new == [run |-> r, age |-> 0, abort |-> FALSE]
  <2>1. /\ row' = new
        /\ phase' = [phase EXCEPT ![r] = "entered"]
        /\ watch' = [watch EXCEPT ![r] = "idle"]
    BY <1>1 DEF TryAcquire
  <2>2. new \in RunRow
    OBVIOUS
  <2>3. row' # None /\ row'.run = r /\ row'.age = 0
    BY <2>1, <2>2
  <2>4. STypeOK'
    BY <2>1, <2>2
  <2>5. FreshRow'
    BY <2>1, <2>3 DEF FreshRow, Stale
  <2>6. ActiveHasRow'
    BY <1>1, <2>1, <2>3 DEF ActiveHasRow, Active, Holder
  <2>7. ActiveIsWatched'
    BY <1>1, <2>1, <2>3 DEF ActiveIsWatched, Active, Holder, Watching
  <2>8. UnannouncedWhileHeld' /\ AnnouncedOnceWhenFree'
    BY <1>1, <2>1, <2>3 DEF UnannouncedWhileHeld, AnnouncedOnceWhenFree, Holder
  <2>9. DeletedStaysFree'
    BY <1>1 DEF DeletedStaysFree
  <2>. QED
    BY <2>4, <2>5, <2>6, <2>7, <2>8, <2>9
<1>2. CASE row # None \/ deleted
  <2>1. /\ UNCHANGED <<row, watch>>
        /\ \E ph \in {"denied", "refused"} : phase' = [phase EXCEPT ![r] = ph]
    BY <1>2 DEF TryAcquire
  <2>2. STypeOK'
    BY <2>1
  <2>3. FreshRow'
    BY <2>1 DEF FreshRow, Stale, Watching
  <2>4. ActiveHasRow' /\ ActiveIsWatched'
    BY <2>1 DEF ActiveHasRow, ActiveIsWatched, Active, Holder, Watching
  <2>5. UnannouncedWhileHeld' /\ AnnouncedOnceWhenFree'
    BY <1>2, <2>1 DEF UnannouncedWhileHeld, AnnouncedOnceWhenFree, Holder
  <2>6. DeletedStaysFree'
    BY <2>1 DEF DeletedStaysFree, OneActiveRun, Active
  <2>. QED
    BY <2>2, <2>3, <2>4, <2>5, <2>6
<1>. QED
  BY <1>1, <1>2

LEMMA UnhookKeeps ==
  ASSUME IInv, NEW r \in Run, Unhook(r)
  PROVE  IInv'
<1>. USE DEF IInv, Unhook, Goto, envVars
<1>1. STypeOK'
  <2>1. phase' \in [Run -> Phases]
    BY DEF STypeOK, Phases
  <2>2. closed' \subseteq GatewayRun
    BY DEF STypeOK
  <2>3. handle' \in [Proc -> Run \cup {None}]
    BY DEF STypeOK
  <2>. QED
    BY <2>1, <2>2, <2>3 DEF STypeOK
<1>. USE DEF STypeOK, Phases
<1>2. FreshRow'
  BY DEF FreshRow, Watching, Stale
<1>3. ActiveHasRow' /\ ActiveIsWatched'
  BY DEF ActiveHasRow, ActiveIsWatched, Active, Holder, Watching
<1>4. UnannouncedWhileHeld' /\ AnnouncedOnceWhenFree'
  BY DEF UnannouncedWhileHeld, AnnouncedOnceWhenFree, Holder
<1>8. DeletedStaysFree'
  BY DEF DeletedStaysFree, OneActiveRun, Active, Holder
<1>. QED
  BY <1>1, <1>2, <1>3, <1>4, <1>8

LEMMA PruneStaleKeeps ==
  ASSUME IInv, NEW r \in Run, PruneStale(r)
  PROVE  IInv'
<1>. USE SessionRunAssumption
     DEF IInv, STypeOK, RunRow, Run, Proc, Phases, runVars, envVars,
         PruneStale, Pruned, Goto
<1>1. STypeOK'
  OBVIOUS
<1>2. FreshRow'
  BY DEF FreshRow, Watching, Stale
<1>3. ActiveHasRow'
  BY DEF FreshRow, ActiveIsWatched, ActiveHasRow, Active, Holder, Watching, Stale
<1>4. ActiveIsWatched'
  BY DEF ActiveIsWatched, Active, Holder, Watching
<1>5. UnannouncedWhileHeld' /\ AnnouncedOnceWhenFree'
  BY DEF UnannouncedWhileHeld, AnnouncedOnceWhenFree, Holder
<1>8. DeletedStaysFree'
  BY DEF DeletedStaysFree, OneActiveRun, Active, Holder
<1>. QED
  BY <1>1, <1>2, <1>3, <1>4, <1>5, <1>8

LEMMA StoreKeeps ==
  ASSUME IInv, NEW r \in Run, Store(r)
  PROVE  IInv'
<1>. USE SessionRunAssumption
     DEF IInv, STypeOK, RunRow, Run, Proc, Phases, runVars, envVars,
         Store, Goto, Owner
<1>1. STypeOK'
  OBVIOUS
<1>2. FreshRow'
  BY DEF FreshRow, Watching, Stale
<1>3. ActiveHasRow' /\ ActiveIsWatched'
  BY DEF ActiveHasRow, ActiveIsWatched, Active, Holder, Watching
<1>4. UnannouncedWhileHeld' /\ AnnouncedOnceWhenFree'
  BY DEF UnannouncedWhileHeld, AnnouncedOnceWhenFree, Holder
<1>8. DeletedStaysFree'
  BY DEF DeletedStaysFree, OneActiveRun, Active, Holder
<1>. QED
  BY <1>1, <1>2, <1>3, <1>4, <1>8

LEMMA WatchReadKeeps ==
  ASSUME IInv, NEW r \in Run, WatchRead(r)
  PROVE  IInv'
<1>. USE SessionRunAssumption
     DEF IInv, STypeOK, RunRow, Run, Proc, Phases, runVars, envVars,
         WatchRead
<1>1. STypeOK'
  OBVIOUS
<1>2. FreshRow'
  BY DEF FreshRow, Watching, Stale
<1>3. ActiveHasRow' /\ ActiveIsWatched'
  BY DEF ActiveHasRow, ActiveIsWatched, Active, Holder, Watching
<1>4. UnannouncedWhileHeld' /\ AnnouncedOnceWhenFree'
  BY DEF UnannouncedWhileHeld, AnnouncedOnceWhenFree, Holder
<1>8. DeletedStaysFree'
  BY DEF DeletedStaysFree, OneActiveRun, Active, Holder
<1>. QED
  BY <1>1, <1>2, <1>3, <1>4, <1>8

LEMMA EndTurnKeeps ==
  ASSUME IInv, NEW r \in Run, EndTurn(r)
  PROVE  IInv'
<1>. USE SessionRunAssumption
     DEF IInv, STypeOK, RunRow, Run, Proc, Phases, runVars, envVars,
         EndTurn, Goto
<1>1. STypeOK'
  OBVIOUS
<1>2. FreshRow'
  BY DEF FreshRow, Watching, Stale
<1>3. ActiveHasRow' /\ ActiveIsWatched'
  BY DEF ActiveHasRow, ActiveIsWatched, Active, Holder, Watching
<1>4. UnannouncedWhileHeld' /\ AnnouncedOnceWhenFree'
  BY DEF UnannouncedWhileHeld, AnnouncedOnceWhenFree, Holder
<1>8. DeletedStaysFree'
  BY DEF DeletedStaysFree, OneActiveRun, Active, Holder
<1>. QED
  BY <1>1, <1>2, <1>3, <1>4, <1>8

LEMMA ServeReleaseKeeps ==
  ASSUME IInv, NEW r \in Run, ServeRelease(r)
  PROVE  IInv'
<1>. USE SessionRunAssumption
     DEF IInv, STypeOK, RunRow, Run, Proc, Phases, runVars, envVars,
         ServeRelease, Ended
<1>1. STypeOK'
  OBVIOUS
<1>2. FreshRow'
  BY DEF FreshRow, Watching, Stale
<1>3. ActiveHasRow' /\ ActiveIsWatched'
  BY DEF ActiveHasRow, ActiveIsWatched, Active, Holder, Watching
<1>4. UnannouncedWhileHeld' /\ AnnouncedOnceWhenFree'
  BY DEF UnannouncedWhileHeld, AnnouncedOnceWhenFree, Holder
<1>8. DeletedStaysFree'
  BY DEF DeletedStaysFree, OneActiveRun, Active, Holder
<1>. QED
  BY <1>1, <1>2, <1>3, <1>4, <1>8

LEMMA StopWatchKeeps ==
  ASSUME IInv, NEW r \in Run, StopWatch(r)
  PROVE  IInv'
<1>. USE SessionRunAssumption
     DEF IInv, STypeOK, RunRow, Run, Proc, Phases, runVars, envVars,
         StopWatch, Goto
<1>1. STypeOK'
  OBVIOUS
<1>2. FreshRow'
  BY DEF FreshRow, Watching, Stale
<1>3. ActiveHasRow' /\ ActiveIsWatched'
  BY DEF ActiveHasRow, ActiveIsWatched, Active, Holder, Watching
<1>4. UnannouncedWhileHeld' /\ AnnouncedOnceWhenFree'
  BY DEF UnannouncedWhileHeld, AnnouncedOnceWhenFree, Holder
<1>8. DeletedStaysFree'
  BY DEF DeletedStaysFree, OneActiveRun, Active, Holder
<1>. QED
  BY <1>1, <1>2, <1>3, <1>4, <1>8

LEMMA ReleaseKeeps ==
  ASSUME IInv, NEW r \in Run, Release(r)
  PROVE  IInv'
<1>. USE SessionRunAssumption
     DEF IInv, STypeOK, RunRow, Run, Proc, Phases, runVars, envVars,
         Release, Goto
<1>1. STypeOK'
  OBVIOUS
<1>2. FreshRow'
  BY DEF FreshRow, Watching, Stale
<1>3. ActiveHasRow' /\ ActiveIsWatched'
  BY DEF ActiveHasRow, ActiveIsWatched, Active, Holder, Watching
<1>4. UnannouncedWhileHeld' /\ AnnouncedOnceWhenFree'
  BY DEF UnannouncedWhileHeld, AnnouncedOnceWhenFree, Holder
<1>8. DeletedStaysFree'
  BY DEF DeletedStaysFree, OneActiveRun, Active, Holder
<1>. QED
  BY <1>1, <1>2, <1>3, <1>4, <1>8

LEMMA NotifyKeeps ==
  ASSUME IInv, NEW r \in Run, Notify(r)
  PROVE  IInv'
<1>. USE SessionRunAssumption
     DEF IInv, STypeOK, RunRow, Run, Proc, Phases, runVars, envVars,
         Notify
<1>1. STypeOK'
  OBVIOUS
<1>2. FreshRow'
  BY DEF FreshRow, Watching, Stale
<1>3. ActiveHasRow' /\ ActiveIsWatched'
  BY DEF ActiveHasRow, ActiveIsWatched, Active, Holder, Watching
<1>4. UnannouncedWhileHeld' /\ AnnouncedOnceWhenFree'
  BY DEF UnannouncedWhileHeld, AnnouncedOnceWhenFree, Holder
<1>8. DeletedStaysFree'
  BY DEF DeletedStaysFree, OneActiveRun, Active, Holder
<1>. QED
  BY <1>1, <1>2, <1>3, <1>4, <1>8

LEMMA CancelPruneKeeps ==
  ASSUME IInv, NEW p \in Proc, CancelPrune(p)
  PROVE  IInv'
<1>. USE SessionRunAssumption
     DEF IInv, STypeOK, RunRow, Run, Proc, Phases, runVars, envVars,
         CancelPrune, Pruned
<1>1. STypeOK'
  OBVIOUS
<1>2. FreshRow'
  BY DEF FreshRow, Watching, Stale
<1>3. ActiveHasRow'
  BY DEF FreshRow, ActiveIsWatched, ActiveHasRow, Active, Holder, Watching, Stale
<1>4. ActiveIsWatched'
  BY DEF ActiveIsWatched, Active, Holder, Watching
<1>5. UnannouncedWhileHeld' /\ AnnouncedOnceWhenFree'
  BY DEF UnannouncedWhileHeld, AnnouncedOnceWhenFree, Holder
<1>8. DeletedStaysFree'
  BY DEF DeletedStaysFree, OneActiveRun, Active, Holder
<1>. QED
  BY <1>1, <1>2, <1>3, <1>4, <1>5, <1>8

LEMMA CancelHandleKeeps ==
  ASSUME IInv, CancelHandle
  PROVE  IInv'
<1>. USE SessionRunAssumption
     DEF IInv, STypeOK, RunRow, Run, Proc, Phases, runVars, envVars,
         CancelHandle
<1>1. STypeOK'
  OBVIOUS
<1>2. FreshRow'
  BY DEF FreshRow, Watching, Stale
<1>3. ActiveHasRow' /\ ActiveIsWatched'
  BY DEF ActiveHasRow, ActiveIsWatched, Active, Holder, Watching
<1>4. UnannouncedWhileHeld' /\ AnnouncedOnceWhenFree'
  BY DEF UnannouncedWhileHeld, AnnouncedOnceWhenFree, Holder
<1>8. DeletedStaysFree'
  BY DEF DeletedStaysFree, OneActiveRun, Active, Holder
<1>. QED
  BY <1>1, <1>2, <1>3, <1>4, <1>8

LEMMA PollKeeps ==
  ASSUME IInv, Poll
  PROVE  IInv'
<1>. USE SessionRunAssumption
     DEF IInv, STypeOK, RunRow, Run, Proc, Phases, runVars, envVars,
         Poll, Pruned
<1>1. STypeOK'
  OBVIOUS
<1>2. FreshRow'
  BY DEF FreshRow, Watching, Stale
<1>3. ActiveHasRow'
  BY DEF FreshRow, ActiveIsWatched, ActiveHasRow, Active, Holder, Watching, Stale
<1>4. ActiveIsWatched'
  BY DEF ActiveIsWatched, Active, Holder, Watching
<1>5. UnannouncedWhileHeld' /\ AnnouncedOnceWhenFree'
  BY DEF UnannouncedWhileHeld, AnnouncedOnceWhenFree, Holder
<1>8. DeletedStaysFree'
  BY DEF DeletedStaysFree, OneActiveRun, Active, Holder
<1>. QED
  BY <1>1, <1>2, <1>3, <1>4, <1>5, <1>8

LEMMA TickKeeps ==
  ASSUME IInv, Tick
  PROVE  IInv'
<1>. USE SessionRunAssumption
     DEF IInv, STypeOK, RunRow, Run, Proc, Phases, runVars, envVars,
         Tick
<1>1. STypeOK'
  OBVIOUS
<1>2. FreshRow'
  BY DEF FreshRow, Watching, Stale
<1>3. ActiveHasRow' /\ ActiveIsWatched'
  BY DEF ActiveHasRow, ActiveIsWatched, Active, Holder, Watching
<1>4. UnannouncedWhileHeld' /\ AnnouncedOnceWhenFree'
  BY DEF UnannouncedWhileHeld, AnnouncedOnceWhenFree, Holder
<1>8. DeletedStaysFree'
  BY DEF DeletedStaysFree, OneActiveRun, Active, Holder
<1>. QED
  BY <1>1, <1>2, <1>3, <1>4, <1>8

LEMMA SuspendKeeps ==
  ASSUME IInv, NEW p \in Proc, Suspend(p)
  PROVE  IInv'
<1>. USE SessionRunAssumption
     DEF IInv, STypeOK, RunRow, Run, Proc, Phases, runVars, envVars,
         Suspend, Owner
<1>1. STypeOK'
  OBVIOUS
<1>2. FreshRow'
  BY DEF FreshRow, Watching, Stale
<1>3. ActiveHasRow' /\ ActiveIsWatched'
  BY DEF ActiveHasRow, ActiveIsWatched, Active, Holder, Watching
<1>4. UnannouncedWhileHeld' /\ AnnouncedOnceWhenFree'
  BY DEF UnannouncedWhileHeld, AnnouncedOnceWhenFree, Holder
<1>8. DeletedStaysFree'
  BY DEF DeletedStaysFree, OneActiveRun, Active, Holder
<1>. QED
  BY <1>1, <1>2, <1>3, <1>4, <1>8

LEMMA CrashKeeps ==
  ASSUME IInv, NEW p \in Proc, Crash(p)
  PROVE  IInv'
<1>. USE SessionRunAssumption
     DEF IInv, STypeOK, RunRow, Run, Proc, Phases, runVars, envVars,
         Crash, Owner
<1>1. STypeOK'
  OBVIOUS
<1>2. FreshRow'
  BY DEF FreshRow, Watching, Stale
<1>3. ActiveHasRow' /\ ActiveIsWatched'
  BY DEF ActiveHasRow, ActiveIsWatched, Active, Holder, Watching
<1>4. UnannouncedWhileHeld' /\ AnnouncedOnceWhenFree'
  BY DEF UnannouncedWhileHeld, AnnouncedOnceWhenFree, Holder
<1>8. DeletedStaysFree'
  BY DEF DeletedStaysFree, OneActiveRun, Active, Holder
<1>. QED
  BY <1>1, <1>2, <1>3, <1>4, <1>8

LEMMA WatchBeatKeeps ==
  ASSUME IInv, NEW r \in Run, WatchBeat(r)
  PROVE  IInv'
<1>. USE SessionRunAssumption DEF IInv, STypeOK, Run
<1>1. CASE Holder = r
  <2>1. /\ row' = [row EXCEPT !.age = 0]
        /\ watch' = [watch EXCEPT ![r] = "idle"]
        /\ late' = late \ {r}
        /\ UNCHANGED <<phase, cancelled, handle, closed, owed, notes,
                       deleted, cancel, aborts, faults>>
    BY <1>1 DEF WatchBeat
  <2>2. row \in RunRow /\ row.run = r
    BY <1>1 DEF Holder
  <2>3. row' \in RunRow \ {None} /\ row'.run = r /\ row'.age = 0
    BY <2>1, <2>2, RowUpdated
  <2>4. Holder' = r
    BY <2>3 DEF Holder
  <2>5. STypeOK'
    BY <2>1, <2>3
  <2>6. FreshRow'
    BY <2>3 DEF FreshRow, Stale
  <2>7. ActiveHasRow' /\ ActiveIsWatched'
    BY <1>1, <2>1, <2>4 DEF ActiveHasRow, ActiveIsWatched, Active, Watching
  <2>8. UnannouncedWhileHeld' /\ AnnouncedOnceWhenFree'
    BY <1>1, <2>1, <2>4 DEF UnannouncedWhileHeld, AnnouncedOnceWhenFree
  <2>9. DeletedStaysFree'
    BY <2>1, <2>2 DEF DeletedStaysFree
  <2>. QED
    BY <2>5, <2>6, <2>7, <2>8, <2>9
<1>2. CASE Holder # r
  <2>1. /\ cancelled' = cancelled \cup {r}
        /\ watch' = [watch EXCEPT ![r] = "off"]
        /\ UNCHANGED <<row, late, phase, handle, closed, owed, notes,
                       deleted, cancel, aborts, faults>>
    BY <1>2 DEF WatchBeat
  <2>2. STypeOK'
    BY <2>1
  <2>3. FreshRow'
    BY <2>1 DEF FreshRow, Stale, Watching
  <2>4. ActiveHasRow' /\ ActiveIsWatched'
    BY <1>2, <2>1 DEF ActiveHasRow, ActiveIsWatched, Active, Watching, Holder
  <2>5. UnannouncedWhileHeld' /\ AnnouncedOnceWhenFree'
    BY <2>1 DEF UnannouncedWhileHeld, AnnouncedOnceWhenFree, Holder
  <2>6. DeletedStaysFree'
    BY <2>1 DEF DeletedStaysFree, OneActiveRun, Active
  <2>. QED
    BY <2>2, <2>3, <2>4, <2>5, <2>6
<1>. QED
  BY <1>1, <1>2

LEMMA CancelMarkKeeps ==
  ASSUME IInv, CancelMark
  PROVE  IInv'
<1>. USE SessionRunAssumption DEF IInv, STypeOK, runVars
<1>1. /\ cancel' = [cancel EXCEPT !.pc = "asked"]
      /\ UNCHANGED <<phase, cancelled, watch, handle, closed, owed, notes, late,
                     deleted, aborts, faults>>
  BY DEF CancelMark
<1>2. /\ row' \in {None} \cup RunRow
      /\ row' = None <=> row = None
      /\ row # None => row'.run = row.run /\ row'.age = 0
  BY RowUpdated DEF CancelMark
<1>3. Holder' = Holder
  BY <1>2 DEF Holder
<1>4. STypeOK'
  BY <1>1, <1>2
<1>5. FreshRow'
  BY <1>2 DEF FreshRow, Stale
<1>6. ActiveHasRow' /\ ActiveIsWatched'
  BY <1>1, <1>3 DEF ActiveHasRow, ActiveIsWatched, Active, Watching
<1>7. UnannouncedWhileHeld' /\ AnnouncedOnceWhenFree'
  BY <1>1, <1>3 DEF UnannouncedWhileHeld, AnnouncedOnceWhenFree
<1>8. DeletedStaysFree'
  BY <1>1, <1>2 DEF DeletedStaysFree, OneActiveRun, Active
<1>. QED
  BY <1>4, <1>5, <1>6, <1>7, <1>8

\* The row goes with the session; who works on it goes on doing so for a while,
\* but is still alone.
LEMMA DeleteSessionKeeps ==
  ASSUME IInv, DeleteSession
  PROVE  IInv'
<1>. USE SessionRunAssumption
     DEF IInv, STypeOK, RunRow, Run, Proc, Phases, runVars, envVars,
         DeleteSession
<1>1. STypeOK'
  OBVIOUS
<1>2. FreshRow'
  BY DEF FreshRow
<1>3. ActiveHasRow'
  BY DEF ActiveHasRow
<1>4. ActiveIsWatched'
  BY DEF ActiveIsWatched, Active, Holder, Watching
<1>5. UnannouncedWhileHeld' /\ AnnouncedOnceWhenFree'
  BY DEF UnannouncedWhileHeld, AnnouncedOnceWhenFree, Holder
<1>6. DeletedStaysFree'
  BY DEF ActiveHasRow, DeletedStaysFree, OneActiveRun, Active, Holder
<1>. QED
  BY <1>1, <1>2, <1>3, <1>4, <1>5, <1>6

LEMMA InitEstablishes == Init => IInv
<1>. USE SessionRunAssumption
     DEF Init, STypeOK, Run, Proc, Phases, Active, Holder
<1>1. ASSUME Init
      PROVE  STypeOK
  <2>1. /\ phase \in [Run -> Phases] /\ watch \in [Run -> {"off", "idle", "read"}]
        /\ handle \in [Proc -> Run \cup {None}] /\ notes \in [Run -> Nat]
    BY <1>1
  <2>2. /\ cancel \in [pc : {"idle", "pruned", "asked"}, proc : Proc]
        /\ aborts \in 0..MaxAborts /\ faults \in 0..MaxFaults
    BY <1>1
  <2>. QED
    BY <1>1, <2>1, <2>2
<1>2. Init => FreshRow /\ ActiveHasRow /\ ActiveIsWatched
  BY DEF FreshRow, ActiveHasRow, ActiveIsWatched
<1>3. Init => UnannouncedWhileHeld /\ AnnouncedOnceWhenFree
  BY DEF UnannouncedWhileHeld, AnnouncedOnceWhenFree
<1>4. Init => DeletedStaysFree
  BY DEF DeletedStaysFree
<1>. QED
  BY <1>1, <1>2, <1>3, <1>4 DEF IInv

LEMMA NextKeeps ==
  ASSUME IInv, [Next]_vars
  PROVE  IInv'
<1>1. ASSUME NEW r \in Run, Acquire(r) \/ Settle(r)
      PROVE  IInv'
  <2>1. CASE Acquire(r)
    BY <2>1, TryAcquireKeeps DEF Acquire
  <2>2. CASE PruneStale(r)
    BY <2>2, PruneStaleKeeps
  <2>3. CASE Retry(r)
    BY <2>3, TryAcquireKeeps DEF Retry
  <2>4. CASE Store(r)
    BY <2>4, StoreKeeps
  <2>5. CASE Unhook(r)
    BY <2>5, UnhookKeeps
  <2>6. CASE StopWatch(r)
    BY <2>6, StopWatchKeeps
  <2>7. CASE Release(r)
    BY <2>7, ReleaseKeeps
  <2>8. CASE Notify(r)
    BY <2>8, NotifyKeeps
  <2>. QED
    BY <1>1, <2>1, <2>2, <2>3, <2>4, <2>5, <2>6, <2>7, <2>8 DEF Settle
<1>2. ASSUME NEW r \in Run, Watch(r) \/ EndTurn(r) \/ ServeRelease(r)
      PROVE  IInv'
  BY <1>2, WatchReadKeeps, WatchBeatKeeps, EndTurnKeeps, ServeReleaseKeeps
     DEF Watch
<1>3. ASSUME NEW p \in Proc, CancelPrune(p) \/ Suspend(p) \/ Crash(p)
      PROVE  IInv'
  BY <1>3, CancelPruneKeeps, SuspendKeeps, CrashKeeps
<1>4. CASE CancelMark \/ CancelHandle \/ DeleteSession \/ Poll \/ Tick
  BY <1>4, CancelMarkKeeps, CancelHandleKeeps, DeleteSessionKeeps, PollKeeps, TickKeeps
<1>5. CASE UNCHANGED vars
  <2>. USE <1>5 DEF vars, IInv
  <2>1. STypeOK'
    BY DEF STypeOK
  <2>2. FreshRow'
    BY DEF FreshRow, Watching, Stale
  <2>3. ActiveHasRow' /\ ActiveIsWatched'
    BY DEF ActiveHasRow, ActiveIsWatched, Active, Holder, Watching
  <2>4. UnannouncedWhileHeld' /\ AnnouncedOnceWhenFree'
    BY DEF UnannouncedWhileHeld, AnnouncedOnceWhenFree, Holder
  <2>5. DeletedStaysFree'
    BY DEF DeletedStaysFree, OneActiveRun, Active
  <2>. QED
    BY <2>1, <2>2, <2>3, <2>4, <2>5
<1>. QED
  BY <1>1, <1>2, <1>3, <1>4, <1>5 DEF Next

LEMMA Invariance == Spec => []IInv
BY InitEstablishes, NextKeeps, PTL DEF Spec
-------------------------------------------------------------------------------
(* The results. *)

\* The variables keep their types.
THEOREM TypeCorrect == Spec => []STypeOK
BY Invariance, PTL DEF IInv

\* One agent at a time works on a session: of two active runs the process of
\* one was suspended since its last heartbeat; a session that is deleted under a
\* run gets no second one.
THEOREM MutualExclusion == Spec => []OneActiveRun
<1>1. IInv => OneActiveRun
  BY DEF IInv, ActiveHasRow, DeletedStaysFree, OneActiveRun
<1>. QED
  BY <1>1, Invariance, PTL

\* A run that has lost the session is cancelled, or has the goroutine that
\* will cancel it.
THEOREM LossIsNoticed == Spec => []LoserIsTold
<1>1. IInv => LoserIsTold
  BY DEF IInv, ActiveIsWatched, LoserIsTold
<1>. QED
  BY <1>1, Invariance, PTL

\* onFinished is called at most once for a run, and when the session is free
\* of it.
THEOREM FinishedOnce == Spec => []AnnouncedOnceWhenFree
BY Invariance, PTL DEF IInv

-------------------------------------------------------------------------------
(* The row is only taken away from an active run that was suspended, or    *)
(* with the session.                                                       *)

\* What prunes may do to the row.
LEMMA PruneSparesActive ==
  ASSUME IInv, NEW r \in Run, Active(r), Holder = r, r \notin late
  PROVE  Pruned = row
<1>1. Watching(r)
  BY DEF IInv, ActiveIsWatched
<1>2. row # None /\ row.run = r
  BY SessionRunAssumption DEF Holder, Run
<1>. QED
  BY <1>1, <1>2 DEF IInv, FreshRow, Pruned

LEMMA StepKeepsRow ==
  ASSUME IInv, [Next]_vars, NEW r \in Run, Active(r), Holder = r, r \notin late
  PROVE  Holder' = r \/ (~deleted /\ deleted')
<1>1. Pruned = row
  BY PruneSparesActive
<1>2. row # None /\ row.run = r /\ row \in RunRow
  BY SessionRunAssumption DEF Holder, Run, IInv, STypeOK
<1>3. row' = row => Holder' = r
  BY DEF Holder
<1>4. ASSUME NEW q \in Run, Acquire(q) \/ Settle(q)
      PROVE  row' = row
  <2>1. CASE Acquire(q) \/ Retry(q)
    BY <1>2, <2>1 DEF Acquire, Retry, TryAcquire
  <2>2. CASE PruneStale(q)
    BY <1>1, <2>2 DEF PruneStale
  <2>3. CASE Release(q)
    <3>1. q # r
      BY <2>3 DEF Release, Active
    <3>. QED
      BY <2>3, <3>1 DEF Release
  <2>4. CASE Store(q) \/ Unhook(q) \/ StopWatch(q) \/ Notify(q)
    BY <2>4 DEF Store, Unhook, StopWatch, Notify
  <2>. QED
    BY <1>4, <2>1, <2>2, <2>3, <2>4 DEF Settle
<1>5. ASSUME NEW q \in Run, Watch(q) \/ EndTurn(q) \/ ServeRelease(q)
      PROVE  Holder' = r
  <2>1. CASE WatchRead(q) \/ EndTurn(q)
    BY <1>3, <2>1 DEF WatchRead, EndTurn
  <2>2. CASE WatchBeat(q)
    <3>1. row' = row \/ row' = [row EXCEPT !.age = 0]
      BY <2>2 DEF WatchBeat
    <3>. QED
      BY <1>2, <1>3, <3>1, RowUpdated, SessionRunAssumption DEF Holder
  <2>3. CASE ServeRelease(q)
    BY <2>3 DEF ServeRelease, Ended, Active
  <2>. QED
    BY <1>5, <2>1, <2>2, <2>3 DEF Watch
<1>6. ASSUME NEW p \in Proc, CancelPrune(p) \/ Suspend(p) \/ Crash(p)
      PROVE  row' = row
  BY <1>1, <1>6 DEF CancelPrune, Suspend, Crash
<1>7. CASE CancelMark \/ Tick
  <2>1. \/ row' = [row EXCEPT !.abort = TRUE, !.age = 0]
        \/ row.age <= StaleAfter /\ row' = [row EXCEPT !.age = row.age + 1]
    BY <1>2, <1>7, SessionRunAssumption DEF CancelMark, Tick, RunRow
  <2>2. row' \in RunRow \ {None} /\ row'.run = r
    BY <1>2, <2>1, RowUpdated, SessionRunAssumption
  <2>. QED
    BY <2>2 DEF Holder
<1>8. CASE CancelHandle \/ Poll
  BY <1>1, <1>3, <1>8 DEF CancelHandle, Poll
<1>9. CASE DeleteSession
  BY <1>9 DEF DeleteSession
<1>10. CASE UNCHANGED vars
  BY <1>3, <1>10 DEF vars
<1>. QED
  BY <1>3, <1>4, <1>5, <1>6, <1>7, <1>8, <1>9, <1>10 DEF Next

\* Only its own end, a suspension of its process, or the deletion of the
\* session takes the row away from an active run.
THEOREM RowIsKept == Spec => RowKept
<1>1. IInv /\ [Next]_vars
      => [\A r \in Run : Active(r) /\ Holder = r /\ r \notin late
                        => Holder' = r \/ (~deleted /\ deleted')]_vars
  BY StepKeepsRow
<1>. QED
  BY <1>1, Invariance, PTL DEF Spec, RowKept
===============================================================================
