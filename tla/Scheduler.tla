------------------------------- MODULE Scheduler -------------------------------
(***************************************************************************)
(* The schedules of the user and the poll loop of the serve process that   *)
(* turns due schedules into jobs (scheduler/service.go,                    *)
(* runtime/maintenance.go).  One pass of the loop lists the due schedules  *)
(* and then, for each of them, asks for an open job, creates the job and   *)
(* moves the schedule on: database calls between which users edit and      *)
(* delete schedules and close jobs, and any of which may fail.             *)
(***************************************************************************)
EXTENDS Naturals

CONSTANTS Schedule,      \* schedule ids
          NoPlan,        \* the schedule does not exist
          MaxTime,       \* bound: the clock
          MaxEdits,      \* bound: calls of users that write schedules
          MaxSchedFaults \* bound: failed database calls and restarts of serve

ASSUME SchedulerAssumption ==
    /\ Schedule # {}
    /\ MaxTime \in Nat \ {0} /\ MaxEdits \in Nat /\ MaxSchedFaults \in Nat

VARIABLES plan,        \* table scheduled_jobs: NoPlan or a Plan
          gone,        \* deleted schedules; their ids are not used again
          openJobs,    \* jobs of a schedule that are todo, ongoing or blocked
          lastMade,    \* history: the occurrence the newest job was created for
          pass,        \* the pass of the loop: [pc, at, due, item]
          now, edits, schedFaults

schedVars == <<plan, gone, openJobs, lastMade, pass, now, edits, schedFaults>>

Time == 0..(MaxTime + 1)
\* cron tells a recurring schedule from a one-shot.
Plan == [cron : BOOLEAN, next : Time, enabled : BOOLEAN]
\* What the pass remembers of a schedule it has listed.
Item == [id : Schedule, cron : BOOLEAN, next : Time]

\* at is the time the pass was begun at.
NoPass == [pc |-> "idle", at |-> 0, due |-> {}, item |-> {}]

SchedTypeOK ==
    /\ plan \in [Schedule -> Plan \cup {NoPlan}]
    /\ gone \subseteq {s \in Schedule : plan[s] = NoPlan}
    /\ openJobs \in [Schedule -> Nat]
    /\ lastMade \in [Schedule -> Time]
    /\ pass \in [pc : {"idle", "check", "create", "advance"}, at : 0..MaxTime,
                due : SUBSET Item, item : SUBSET Item]
    /\ now \in 0..MaxTime /\ edits \in 0..MaxEdits /\ schedFaults \in 0..MaxSchedFaults

SchedInit ==
    /\ plan = [s \in Schedule |-> NoPlan]
    /\ gone = {}
    /\ openJobs = [s \in Schedule |-> 0]
    /\ lastMade = [s \in Schedule |-> 0]
    /\ pass = NoPass
    /\ now = 1 /\ edits = 0 /\ schedFaults = 0

Due(s) == plan[s] # NoPlan /\ plan[s].enabled /\ plan[s].next <= now

\* nextCronRun: the first occurrence after the given time.
NextCronRun(from) == from + 1
-------------------------------------------------------------------------------
(* The calls of users and agents.                                          *)

Edit == edits < MaxEdits /\ edits' = edits + 1

\* Service.Create and Service.Update with valid input; run_at may be past.
WriteSchedule(s, cron, at, enabled) ==
    /\ Edit /\ s \notin gone
    /\ plan[s] = NoPlan => enabled
    /\ plan' = [plan EXCEPT ![s] = [cron |-> cron, enabled |-> enabled,
                                    next |-> IF cron THEN NextCronRun(now) ELSE at]]
    /\ UNCHANGED <<gone, openJobs, lastMade, pass, now, schedFaults>>

\* Service.Delete; the jobs of the schedule lose their link to it.
DeleteSchedule(s) ==
    /\ Edit /\ plan[s] # NoPlan
    /\ plan' = [plan EXCEPT ![s] = NoPlan]
    /\ gone' = gone \cup {s}
    /\ openJobs' = [openJobs EXCEPT ![s] = 0]
    /\ UNCHANGED <<lastMade, pass, now, schedFaults>>

\* A job is completed or deleted; neither is ever undone.
JobCloses(s) ==
    /\ openJobs[s] > 0
    /\ openJobs' = [openJobs EXCEPT ![s] = @ - 1]
    /\ UNCHANGED <<plan, gone, lastMade, pass, now, edits, schedFaults>>

PassTime ==
    /\ now < MaxTime /\ now' = now + 1
    /\ UNCHANGED <<plan, gone, openJobs, lastMade, pass, edits, schedFaults>>
-------------------------------------------------------------------------------
(* Service.MaterializeDue, called by the ticker of StartScheduler.         *)

\* A failed call ends the pass: the rest of the list waits for the next tick.
Fails == schedFaults < MaxSchedFaults /\ schedFaults' = schedFaults + 1 /\ pass' = NoPass

\* The pass is done with its item.
NextItem == pass' = IF pass.due = {} THEN NoPass
                    ELSE [pass EXCEPT !.pc = "check", !.item = {}]

\* DueNow.
ListDue ==
    /\ pass.pc = "idle"
    /\ \E s \in Schedule : Due(s)
    /\ pass' = [pc |-> "check", at |-> now, item |-> {},
                due |-> {[id |-> s, cron |-> plan[s].cron, next |-> plan[s].next] :
                         s \in {q \in Schedule : Due(q)}}]
    /\ UNCHANGED <<plan, gone, openJobs, lastMade, now, edits, schedFaults>>

\* Mutant of CheckOpen: a schedule that has an open job ends the loop.
CheckOpenBreaks(i) ==
    /\ pass.pc = "check"
    /\ \/ /\ openJobs[i.id] > 0 /\ pass' = NoPass
          /\ UNCHANGED schedFaults
       \/ /\ openJobs[i.id] = 0
          /\ pass' = [pass EXCEPT !.pc = "create", !.due = @ \ {i}, !.item = {i}]
          /\ UNCHANGED schedFaults
       \/ Fails
    /\ UNCHANGED <<plan, gone, openJobs, lastMade, now, edits>>

\* Mutant of CheckOpen: only recurring schedules are asked for an open job.
CheckOpenRecurring(i) ==
    /\ pass.pc = "check"
    /\ \/ /\ pass' = IF i.cron /\ openJobs[i.id] > 0
                     THEN IF pass.due = {i} THEN NoPass ELSE [pass EXCEPT !.due = @ \ {i}]
                     ELSE [pass EXCEPT !.pc = "create", !.due = @ \ {i}, !.item = {i}]
          /\ UNCHANGED schedFaults
       \/ Fails
    /\ UNCHANGED <<plan, gone, openJobs, lastMade, now, edits>>

\* HasOpenJobForScheduledJob, for the listed schedules by next_run_at; a
\* schedule with an open job is left due.
CheckOpen(i) ==
    /\ pass.pc = "check"
    /\ \/ /\ pass' = IF openJobs[i.id] > 0
                     THEN IF pass.due = {i} THEN NoPass ELSE [pass EXCEPT !.due = @ \ {i}]
                     ELSE [pass EXCEPT !.pc = "create", !.due = @ \ {i}, !.item = {i}]
          /\ UNCHANGED schedFaults
       \/ Fails
    /\ UNCHANGED <<plan, gone, openJobs, lastMade, now, edits>>

\* A row of table jobs that refers to the schedule.
Made(i) ==
    /\ plan[i.id] # NoPlan
    /\ openJobs' = [openJobs EXCEPT ![i.id] = @ + 1]
    /\ lastMade' = [lastMade EXCEPT ![i.id] = i.next]

\* Mutant of CreateJob: the error of Create is logged and the loop goes on.
CreateJobErrorIgnored(i) ==
    /\ pass.pc = "create"
    /\ \/ Made(i) /\ pass' = [pass EXCEPT !.pc = "advance"] /\ UNCHANGED schedFaults
       \/ /\ schedFaults < MaxSchedFaults /\ schedFaults' = schedFaults + 1
          /\ pass' = [pass EXCEPT !.pc = "advance"]
          /\ UNCHANGED <<openJobs, lastMade>>
       \/ plan[i.id] = NoPlan /\ pass' = NoPass /\ UNCHANGED <<openJobs, lastMade, schedFaults>>
    /\ UNCHANGED <<plan, gone, now, edits>>

\* jobs.Service.Create.  It may fail before or after its INSERT, and the INSERT
\* is refused when the schedule it refers to has been deleted.
CreateJob(i) ==
    /\ pass.pc = "create"
    /\ \/ Made(i) /\ pass' = [pass EXCEPT !.pc = "advance"] /\ UNCHANGED schedFaults
       \/ Made(i) /\ Fails
       \/ Fails /\ UNCHANGED <<openJobs, lastMade>>
       \/ plan[i.id] = NoPlan /\ pass' = NoPass /\ UNCHANGED <<openJobs, lastMade, schedFaults>>
    /\ UNCHANGED <<plan, gone, now, edits>>

\* AdvanceRecurring, to the first occurrence after the time of the pass, or
\* MarkFired, as the listed row says; a schedule that is gone or disabled by now
\* is a conflict, and ignored.
Advance(i) ==
    /\ pass.pc = "advance"
    /\ \/ /\ NextItem
          /\ plan' = IF plan[i.id] = NoPlan \/ ~plan[i.id].enabled THEN plan
                     ELSE IF i.cron THEN [plan EXCEPT ![i.id].next = NextCronRun(pass.at)]
                                    ELSE [plan EXCEPT ![i.id].enabled = FALSE]
          /\ UNCHANGED schedFaults
       \/ Fails /\ UNCHANGED plan
    /\ UNCHANGED <<gone, openJobs, lastMade, now, edits>>

\* The serve process stops and starts again.
SchedRestart ==
    /\ pass.pc # "idle" /\ Fails
    /\ UNCHANGED <<plan, gone, openJobs, lastMade, now, edits>>
-------------------------------------------------------------------------------
First(i) == \A j \in pass.due : i.next <= j.next

PassStep ==
    \/ ListDue
    \/ \E i \in pass.due : First(i) /\ CheckOpen(i)
    \/ \E i \in pass.item : CreateJob(i) \/ Advance(i)

SchedNext ==
    \/ PassStep \/ SchedRestart \/ PassTime
    \/ \E s \in Schedule : \/ DeleteSchedule(s) \/ JobCloses(s)
                           \/ \E cron, enabled \in BOOLEAN, at \in 1..(MaxTime + 1) :
                                WriteSchedule(s, cron, at, enabled)

SchedSpec == SchedInit /\ [][SchedNext]_schedVars
-------------------------------------------------------------------------------
(* A schedule never has two open jobs, whatever is edited and wherever a   *)
(* pass fails or the process stops: MaterializeDue, scheduler/service.go:303. *)
OneOpenJob == \A s \in Schedule : openJobs[s] <= 1

(* No occurrence is dropped: when a pass moves a schedule past the         *)
(* occurrence it listed, that occurrence has had its job                   *)
(* (scheduler/service.go:310).  A schedule the user rewrote while the pass *)
(* was under way is excluded: its new occurrence is overwritten.           *)
NoFiringLost ==
    [][\A s \in Schedule :
         (plan'[s] # plan[s] /\ edits' = edits /\ [id |-> s, cron |-> plan[s].cron,
                                                   next |-> plan[s].next] \in pass.item)
         => lastMade[s] = plan[s].next]_schedVars

(* A pass passes nobody over: when it is done with a schedule it has       *)
(* listed, and nothing failed, that schedule has an open job or has had    *)
(* the job of this occurrence, or users changed it meanwhile; the open job *)
(* of one schedule does not hold up the next (scheduler/service.go:304).   *)
(* A pass whose schedule is deleted before its INSERT ends there, with an  *)
(* error, and the rest of its list waits for the next one.                 *)
NonePassedOver ==
    [][(schedFaults' = schedFaults /\ \A j \in pass.item : plan[j.id] # NoPlan) =>
       \A i \in (pass.due \cup pass.item) \ (pass'.due \cup pass'.item) :
         plan[i.id] # NoPlan /\ plan[i.id].next = i.next
         => openJobs[i.id] > 0 \/ lastMade[i.id] = i.next]_schedVars
===============================================================================
