---------------------------- MODULE AutonomyWorker ----------------------------
(***************************************************************************)
(* The autonomous job worker (cometmind/internal/autonomy) on the jobs     *)
(* table of JobLease.                                                      *)
(*                                                                         *)
(* The poll loop lists ready jobs and starts one goroutine per job, as far *)
(* as its semaphore allows.  The goroutine opens a new session, claims the *)
(* job for it, runs one agent turn in it while a ticker renews the lease,  *)
(* and at the end gives back what the agent has neither completed nor      *)
(* released.  A run is named by its session, which serves one run only.    *)
(*                                                                         *)
(* JobLease lets every claim be late.  Here time is bounded: a run and its *)
(* ticker keep their period HeartbeatInterval (LeaseIsKept).               *)
(***************************************************************************)
EXTENDS JobLease, FiniteSets

CONSTANTS
  Poller,             \* the poll loop's calls on the jobs service
  HeartbeatInterval,  \* period of the lease ticker of a turn
  Limits,             \* settings that maxConcurrent is set to
  AgentClaims         \* whether agents call claim_job during a run

ASSUME WorkerAssumption ==
  /\ Handler = Session /\ Session \cap Maintainer = {}
  /\ Poller \in Maintainer
  /\ HeartbeatInterval \in 1 .. LeaseDuration
  /\ Limits \subseteq Nat \ {0} /\ Limits # {}
  /\ AgentClaims \in BOOLEAN

VARIABLES
  run,      \* the goroutine of each session
  poll,     \* the poll loop
  sem,      \* its semaphore, and the setting maxConcurrent
  snatched  \* history: jobs a late Reconcile has released under a live lease

wvars == <<job, proc, run, poll, sem, snatched>>

RunState == {"free", "start", "claiming", "seed", "unseeded", "turn", "final",
             "failing", "over"}

Run == [ pc        : RunState,
         job       : Job \cup {None},           \* the job it was started for
         holds     : SUBSET Job,                \* claimed and not given up
         beat      : 0 .. HeartbeatInterval,    \* time left to the next tick
         cancelled : BOOLEAN ]                  \* its context is done

NoRun == [ pc |-> "free", job |-> None, holds |-> {}, beat |-> 0,
           cancelled |-> FALSE ]

Poll == [ pc : {"wait", "reconcile", "dispatch"}, ready : SUBSET Job ]
Sem == [ cap : Limits \cup {0}, len : Nat, max : Limits ]  \* cap 0: nil

Alive(s) == run[s].pc \notin {"free", "over"}
Claimant(s) == run[s].pc \in {"seed", "unseeded", "turn", "final", "failing"}

Becomes(s, pc) == run' = [run EXCEPT ![s].pc = pc]

\* The deferred calls at the end of the goroutine: the ticker stops and the
\* token goes back to the semaphore.
EndRun(s) == /\ run' = [run EXCEPT ![s] = [NoRun EXCEPT !.pc = "over"]]
             /\ sem' = [sem EXCEPT !.len = @ - 1]

-------------------------------------------------------------------------------
(* The poll loop. *)

\* ListReady reconciles first.
StartPoll ==
  /\ poll.pc = "wait"
  /\ StartReconcile(Poller)
  /\ poll' = [poll EXCEPT !.pc = "reconcile"]
  /\ UNCHANGED <<run, sem, snatched>>

ListReady ==
  /\ poll.pc = "reconcile"
  /\ proc[Poller].pc = "idle"
  /\ poll' = [pc |-> "dispatch",
              ready |-> {j \in Job : Listed(j, "todo") /\ job[j].retry = 0}]
  /\ UNCHANGED <<job, proc, run, sem, snatched>>

\* Mutant of Resized: replaced at once when the setting has changed.
ResizedAtOnce == IF sem.cap # sem.max
                 THEN [sem EXCEPT !.cap = sem.max, !.len = 0]
                 ELSE sem

\* The semaphore tryAcquire works on: replaced by one of the configured size
\* only while no token of the present one is out.
Resized == IF sem.cap = 0 \/ (sem.cap # sem.max /\ sem.len = 0)
           THEN [sem EXCEPT !.cap = sem.max, !.len = 0]
           ELSE sem

\* Mutant of HasRoom: the channel's capacity is taken for the limit.
HasRoomInChannel(s) == s.len < s.cap

HasRoom(s) == s.len < s.max /\ s.len < s.cap

\* One listed job gets a goroutine with a new session.
Dispatch(s, j) ==
  /\ poll.pc = "dispatch"
  /\ j \in poll.ready
  /\ run[s].pc = "free"
  /\ HasRoom(Resized)
  /\ sem' = [Resized EXCEPT !.len = @ + 1]
  /\ run' = [run EXCEPT ![s].pc = "start", ![s].job = j]
  /\ poll' = [poll EXCEPT !.ready = @ \ {j}]
  /\ UNCHANGED <<job, proc, snatched>>

EndPoll ==
  /\ poll.pc = "dispatch"
  /\ poll.ready = {} \/ ~HasRoom(Resized)
  /\ poll' = [pc |-> "wait", ready |-> {}]
  /\ sem' = IF poll.ready = {} THEN sem ELSE Resized
  /\ UNCHANGED <<job, proc, run, snatched>>

\* UpdateConfig with another maxConcurrent.
UpdateConfig(n) ==
  /\ n # sem.max
  /\ sem' = [sem EXCEPT !.max = n]
  /\ UNCHANGED <<job, proc, run, poll, snatched>>

-------------------------------------------------------------------------------
(* One run. *)

\* EnsureWorkspace, NewAutonomySession or the run guard may fail.
FailToStart(s) ==
  /\ run[s].pc = "start"
  /\ EndRun(s)
  /\ UNCHANGED <<job, proc, poll, snatched>>

RunClaims(s) ==
  /\ run[s].pc = "start"
  /\ StartClaim(s, run[s].job, s)
  /\ Becomes(s, "claiming")
  /\ UNCHANGED <<poll, sem, snatched>>

\* Mutant of ClaimReturns: the number of updated rows is not looked at.
ClaimReturnsUnchecked(s) ==
  /\ run[s].pc = "claiming"
  /\ ClaimJob(s)
  /\ run' = [run EXCEPT ![s].pc = "seed", ![s].holds = {run[s].job},
                        ![s].beat = HeartbeatInterval]
  /\ UNCHANGED <<poll, sem, snatched>>

\* Claim returns: with the job, or with the race for it lost.
ClaimReturns(s) ==
  /\ run[s].pc = "claiming"
  /\ ClaimJob(s)
  /\ IF Claimable(run[s].job)
     THEN /\ run' = [run EXCEPT ![s].pc = "seed",
                                ![s].holds = {run[s].job},
                                ![s].beat = HeartbeatInterval]
          /\ UNCHANGED sem
     ELSE EndRun(s)
  /\ UNCHANGED <<poll, snatched>>

\* The ongoing row of session s that GetJobByAssignedSession returns: one, in
\* an order of the database's own, when the session has several.
HeldBy(s) == {j \in Job : Listed(j, "ongoing") /\ job[j].assignee = s}
JobForSession(s) == IF HeldBy(s) = {} THEN None
                    ELSE CHOOSE j \in HeldBy(s) : TRUE

\* Mutant of HeartbeatSession: returns when the session has a job ("ok" for
\* "!ok"), so that nothing is renewed.
HeartbeatSessionInverted(s) == UNCHANGED <<job, proc>>

\* heartbeatSessionOnce; its result is dropped.
HeartbeatSession(s) ==
  IF JobForSession(s) = None
  THEN UNCHANGED <<job, proc>>
  ELSE Heartbeat(JobForSession(s), s)

\* Mutant of StartTurn: the ticker starts without the first heartbeat.
StartTurnSilently(s) ==
  /\ run[s].pc = "seed"
  /\ run' = [run EXCEPT ![s].pc = "turn", ![s].beat = HeartbeatInterval]
  /\ UNCHANGED <<job, proc, poll, sem, snatched>>

\* The prompt is stored and the runner built: the turn starts, with a first
\* heartbeat unless its context is done by now.
StartTurn(s) ==
  /\ run[s].pc = "seed"
  /\ IF run[s].cancelled THEN UNCHANGED <<job, proc>> ELSE HeartbeatSession(s)
  /\ run' = [run EXCEPT ![s].pc = "turn",
                        ![s].beat = IF run[s].cancelled THEN @
                                    ELSE HeartbeatInterval]
  /\ UNCHANGED <<poll, sem, snatched>>

\* The ticker, which lives until the context ends or the run returns.
Beat(s) ==
  /\ run[s].pc \in {"turn", "final", "failing"}
  /\ ~run[s].cancelled
  /\ run[s].beat = 0
  /\ HeartbeatSession(s)
  /\ run' = [run EXCEPT ![s].beat = HeartbeatInterval]
  /\ UNCHANGED <<poll, sem, snatched>>

\* The agent calls complete_job, release_job or claim_job; a turn runs its
\* tool calls one after the other.
ToolCall(s) ==
  /\ run[s].pc = "turn" /\ ~run[s].cancelled
  /\ \/ \E j \in run[s].holds : \/ StartComplete(s, j, s)
                                \/ StartRelease(s, j, s)
     \/ AgentClaims /\ \E j \in Job : StartClaim(s, j, s)
  /\ UNCHANGED <<run, poll, sem, snatched>>

\* The last statement of such a call, and what the agent makes of its result.
ToolReturns(s) ==
  /\ run[s].pc = "turn"
  /\ LET j == proc[s].target
     IN  \/ /\ CompleteJob(s) \/ ReleaseJob(s)
            /\ run' = [run EXCEPT ![s].holds =
                         IF Listed(j, "ongoing") THEN @ \ {j} ELSE @]
         \/ /\ ClaimJob(s)
            /\ run' = [run EXCEPT ![s].holds =
                         IF Claimable(j) THEN @ \cup {j} ELSE @]
  /\ UNCHANGED <<poll, sem, snatched>>

\* The turn ends: the agent stops, runs out of steps, fails or is cancelled.
EndTurn(s) ==
  /\ run[s].pc = "turn"
  /\ proc[s].pc = "idle"
  /\ Becomes(s, "final")
  /\ UNCHANGED <<job, proc, poll, sem, snatched>>

\* finalizeJob's safety net: what is still assigned is given back, counted as
\* a failure of the worker.
Finalize(s) ==
  /\ run[s].pc = "final"
  /\ proc[s].pc = "idle"
  /\ IF JobForSession(s) = run[s].job
     THEN /\ StartFail(s, run[s].job, s)
          /\ Becomes(s, "failing")
          /\ UNCHANGED sem
     ELSE /\ EndRun(s)
          /\ UNCHANGED <<job, proc>>
  /\ UNCHANGED <<poll, snatched>>

\* The prompt cannot be stored or the runner not be built; no ticker runs yet.
FailToSeed(s) ==
  /\ run[s].pc = "seed" /\ ~run[s].cancelled
  /\ IF AssignedTo(run[s].job, s)
     THEN /\ StartFail(s, run[s].job, s)
          /\ Becomes(s, "unseeded")
          /\ UNCHANGED sem
     ELSE /\ EndRun(s)
          /\ UNCHANGED <<job, proc>>
  /\ UNCHANGED <<poll, snatched>>

\* ReleaseWithClass returns, and the run with it.
RunFails(s) ==
  /\ run[s].pc \in {"failing", "unseeded"}
  /\ RecordJobFailure(s)
  /\ EndRun(s)
  /\ UNCHANGED <<poll, snatched>>

-------------------------------------------------------------------------------
(* Cancellation and crashes. *)

\* The user stops the session: the context of the run ends, and the ticker
\* with it.  finalizeJob has the worker's own context and goes on.
Cancel(s) ==
  /\ Alive(s)
  /\ ~run[s].cancelled
  /\ run' = [run EXCEPT ![s].cancelled = TRUE]
  /\ UNCHANGED <<job, proc, poll, sem, snatched>>

\* Before the turn everything runs on that context, the release after an
\* error included: the run returns and leaves its claim to Reconcile.
Abandon(s) ==
  /\ run[s].cancelled
  /\ run[s].pc \in {"start", "claiming", "seed", "unseeded"}
  /\ EndRun(s)
  /\ Return(s)
  /\ UNCHANGED <<job, poll, snatched>>

\* A tool call of a cancelled turn stops at its next statement.
ToolCancelled(s) ==
  /\ run[s].pc = "turn" /\ run[s].cancelled
  /\ Crash(s)
  /\ UNCHANGED <<run, poll, sem, snatched>>

\* The serve process dies with all its goroutines, and is started again.
ProcessCrash ==
  /\ \E s \in Session : Alive(s)
  /\ run' = [s \in Session |-> IF Alive(s)
                               THEN [NoRun EXCEPT !.pc = "over"] ELSE run[s]]
  /\ proc' = [c \in Call |-> IF c \in Session \cup {Poller}
                             THEN Idle ELSE proc[c]]
  /\ poll' = [pc |-> "wait", ready |-> {}]
  /\ sem' = [sem EXCEPT !.cap = 0, !.len = 0]
  /\ UNCHANGED <<job, snatched>>

-------------------------------------------------------------------------------
(* Everybody else, and time. *)

\* The statements of a call between its first and its last.
CallStep(c) ==
  /\ \/ /\ \/ ListExpired(c) \/ (\E j \in Job : ReadExpired(c, j))
           \/ EndReconcile(c)
           \/ CheckProgress(c) \/ WriteProgress(c)
        /\ UNCHANGED snatched
     \/ LET j == proc[c].victim
        IN  /\ ReleaseExpired(c)
            /\ snatched' = IF Listed(j, "ongoing") /\ ~Expired(j)
                           THEN snatched \cup {j} ELSE snatched
  /\ UNCHANGED <<run, poll, sem>>

\* The maintenance loops of both processes.  Their purges are left out: they
\* take finished and deleted rows, which no run can claim.
Maintain(c) ==
  /\ c # Poller
  /\ StartReconcile(c)
  /\ UNCHANGED <<run, poll, sem, snatched>>

\* The board in the hands of its users.
UserActs(j) ==
  /\ Create(j) \/ Unblock(j) \/ Archive(j) \/ Unarchive(j) \/ SoftDelete(j)
  /\ UNCHANGED <<run, poll, sem, snatched>>

\* LeaseIsKept: between the claim and the end of a run no period of the
\* ticker passes without its heartbeat; the process is not suspended for
\* longer, and a cancelled run returns within one.
LeaseIsKept == \A s \in Session : Claimant(s) => run[s].beat > 0

TimePasses ==
  /\ LeaseIsKept
  /\ Tick
  /\ run' = [s \in Session |->
               IF Claimant(s) THEN [run[s] EXCEPT !.beat = @ - 1] ELSE run[s]]
  /\ UNCHANGED <<poll, sem, snatched>>

-------------------------------------------------------------------------------
WInit ==
  /\ Init
  /\ run = [s \in Session |-> NoRun]
  /\ poll = [pc |-> "wait", ready |-> {}]
  /\ \E n \in Limits : sem = [cap |-> 0, len |-> 0, max |-> n]
  /\ snatched = {}

RunStep(s) ==
  \/ FailToStart(s) \/ RunClaims(s) \/ ClaimReturns(s) \/ StartTurn(s)
  \/ ToolReturns(s) \/ Finalize(s) \/ FailToSeed(s) \/ RunFails(s)
  \/ Abandon(s) \/ ToolCancelled(s)

WNext ==
  \/ \E s \in Session : \/ RunStep(s) \/ Beat(s) \/ ToolCall(s) \/ EndTurn(s)
                        \/ Cancel(s)
  \/ StartPoll \/ ListReady \/ EndPoll
  \/ \E s \in Session, j \in Job : Dispatch(s, j)
  \/ \E n \in Limits : UpdateConfig(n)
  \/ \E c \in Call : CallStep(c)
  \/ \E c \in Maintainer : Maintain(c)
  \/ \E j \in Job : UserActs(j)
  \/ ProcessCrash
  \/ TimePasses

WSpec == WInit /\ [][WNext]_wvars

\* Goroutines that can go on do, the ticker and the clock run, the
\* maintenance loop reconciles, and a turn ends: its steps are limited.
WFairness ==
  /\ WF_wvars(TimePasses)
  /\ \A c \in Call : WF_wvars(CallStep(c))
  /\ \A c \in Maintainer : WF_wvars(Maintain(c))
  /\ \A s \in Session : /\ WF_wvars(RunStep(s))
                        /\ WF_wvars(Beat(s))
                        /\ SF_wvars(EndTurn(s))

WFairSpec == WSpec /\ WFairness

-------------------------------------------------------------------------------
(* Properties. *)

WTypeOK == /\ TypeOK
           /\ run \in [Session -> Run]
           /\ poll \in Poll
           /\ sem \in Sem
           /\ snatched \subseteq Job

\* Session s has claimed j and its agent is at work on it, as far as it knows.
WorksOn(s, j) == run[s].pc \in {"seed", "turn"} /\ j \in run[s].holds

\* LeaseLivesWithTurn: while a turn is at work on a job of its session the
\* lease does not run out ("extends a job lease while its agent turn is
\* running").
LeaseLivesWithTurn ==
  \A j \in Job, s \in Session :
    WorksOn(s, j) /\ job[j].assignee = s => ~Expired(j)

\* OneWorkerPerJob: through cancelled runs, crashes and restarts no two agents
\* work on one job at a time, unless a Reconcile that was overtaken by others
\* has released the job under a live lease.
OneWorkerPerJob ==
  \A j \in Job \ snatched, s, t \in Session :
    WorksOn(s, j) /\ WorksOn(t, j) => s = t

\* RunsWithinLimit: a run is started only while fewer than maxConcurrent runs
\* are alive, whatever the setting was when they started (tryAcquire).
RunsWithinLimit ==
  [][ \A s \in Session, j \in Job :
        Dispatch(s, j) => Cardinality({t \in Session : Alive(t)}) < sem.max
    ]_wvars

\* CountsOwnFailure: with the same exception, the safety net counts a failure
\* only against the claim of its own run, never against a later one.
CountsOwnFailure ==
  [][ \A s \in Session :
        LET j == proc[s].target
        IN  RunFails(s) /\ Listed(j, "ongoing") /\ j \notin snatched
              => job[j].assignee = s ]_wvars

\* ClaimIsSettled: no claim is forever; whatever becomes of its run, the job
\* is completed, released, deleted or handed to another session.
ClaimIsSettled ==
  \A j \in Job, s \in Session :
    (Listed(j, "ongoing") /\ job[j].assignee = s)
      ~> ~(Listed(j, "ongoing") /\ job[j].assignee = s)
===============================================================================
