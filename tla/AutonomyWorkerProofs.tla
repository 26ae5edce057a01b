-------------------------- MODULE AutonomyWorkerProofs --------------------------
(***************************************************************************)
(* Proofs about AutonomyWorker, for every set of jobs and sessions and     *)
(* every value of the settings, on top of what JobLeaseProofs proves about *)
(* the jobs table.                                                         *)
(*                                                                         *)
(* The first half is about the goroutines: the calls a run makes match     *)
(* where it is (RunPhases), and the semaphore counts exactly the runs that *)
(* are alive, through resizes and restarts (Tokens).                       *)
(*                                                                         *)
(* The second half is about runs and rows.  A row that is assigned to a    *)
(* session is what its run holds and its lease outlives the present period *)
(* of its ticker (RowsOfRuns); what a run holds is its own row, or was     *)
(* deleted, unless a late Reconcile has snatched it (HeldIsOwned), so that *)
(* nobody else can have claimed it (OneHolder).  It is proved for agents   *)
(* that do not claim further jobs in their turn: a session with two jobs   *)
(* renews one of them only, and the lease of the other runs out.           *)
(***************************************************************************)
EXTENDS AutonomyWorker, JobLeaseProofs, FiniteSetTheorems

AliveSet == {s \in Session : Alive(s)}

\* A token is out for every run that is alive, and for no other.
Tokens == /\ IsFiniteSet(AliveSet) /\ sem.len = Cardinality(AliveSet)
          /\ sem.cap = 0 => AliveSet = {}

\* The call that a run makes in each phase.
RunPhase(s) ==
  /\ Alive(s) => run[s].job \in Job
  /\ run[s].pc \in {"free", "start", "seed", "final", "over"} => proc[s].pc = "idle"
  /\ run[s].pc = "claiming" => /\ proc[s].pc \in {"list", "pass", "expire", "claim"}
                               /\ proc[s].target = run[s].job
                               /\ proc[s].session = s
  /\ run[s].pc \in {"unseeded", "failing"} => /\ proc[s].pc = "fail"
                                              /\ proc[s].target = run[s].job

RunPhases == \A s \in Session : RunPhase(s)

RunInv == /\ IInv
          /\ run \in [Session -> Run] /\ poll \in Poll /\ sem \in Sem
          /\ snatched \subseteq Job
          /\ RunPhases /\ Tokens

\* The call that the agent makes in its turn is about what the run holds.
TurnCalls ==
  \A s \in Session : run[s].pc = "turn" =>
    /\ proc[s].pc \in {"idle", "release", "progress", "write", "complete"}
    /\ proc[s].pc # "idle" => proc[s].target \in run[s].holds

OngoingFor(j, s) == job[j].status = "ongoing" /\ job[j].assignee = s

\* What a run holds is the job it was started for; nothing was ever assigned to
\* a session that has not claimed yet; a row assigned to a run is held by it,
\* with a lease that outlives the period of the ticker.
RowsOfRun(s) ==
  /\ run[s].holds \subseteq {run[s].job} \cap Job
  /\ ~Claimant(s) => run[s].holds = {}
  /\ run[s].pc \in {"free", "start", "claiming"} =>
       \A j \in Job : job[j].assignee # s
  /\ run[s].pc \in {"unseeded", "failing"} => run[s].job \in run[s].holds
  /\ Claimant(s) => \A j \in Job : OngoingFor(j, s) =>
                      j \in run[s].holds /\ job[j].lease >= run[s].beat

RowsOfRuns == \A s \in Session : RowsOfRun(s)

\* A run owns what it holds, unless it was snatched or deleted.
HeldIsOwned ==
  \A s \in Session, j \in Job \ snatched :
    j \in run[s].holds => OngoingFor(j, s) \/ job[j].deleted

OneHolder ==
  \A s, t \in Session, j \in Job \ snatched :
    j \in run[s].holds /\ j \in run[t].holds => s = t

HoldInv == RowsOfRuns /\ HeldIsOwned /\ OneHolder

WorkerInv == RunInv /\ TurnCalls /\ HoldInv
-------------------------------------------------------------------------------
(* The goroutines.                                                         *)

LEMMA SessionCalls ==
  /\ Handler = Session
  /\ \A s \in Session : s \in Call /\ s \notin Maintainer
  /\ Poller \in Maintainer /\ Maintainer \subseteq Call
BY WorkerAssumption DEF Call

LEMMA JobForSessionProperties ==
  ASSUME NEW s \in Session
  PROVE  /\ JobForSession(s) = None => HeldBy(s) = {}
         /\ JobForSession(s) # None => JobForSession(s) \in HeldBy(s)
         /\ HeldBy(s) \subseteq Job
<1>1. HeldBy(s) \subseteq Job /\ None \notin Job
  BY NoneAssumption DEF HeldBy
<1>2. CASE HeldBy(s) = {}
  BY <1>1, <1>2 DEF JobForSession
<1>3. CASE HeldBy(s) # {}
  <2>1. (CHOOSE j \in HeldBy(s) : TRUE) \in HeldBy(s)
    BY <1>3
  <2>2. JobForSession(s) \in HeldBy(s)
    BY <1>3, <2>1 DEF JobForSession
  <2>. QED
    BY <1>1, <2>2
<1>. QED
  BY <1>2, <1>3

\* Calls that are dropped, with their run or with their process, leave the
\* table as it was.
LEMMA CallsDropped ==
  ASSUME IInv, job' = job, proc' \in [Call -> Proc],
         \A c \in Call : proc'[c] \in {proc[c], Idle}
  PROVE  IInv'
<1>1. TypeOK' /\ RowCoherent'
  BY DEF IInv, TypeOK, RowCoherent
<1>2. CallWellFormed(Idle) /\ Idle.pc # "purge"
  BY DEF CallWellFormed, Idle
<1>3. CallsWellFormed'
  BY <1>2 DEF IInv, CallsWellFormed
<1>4. PurgeSafe'
  BY <1>2 DEF IInv, PurgeSafe
<1>. QED
  BY <1>1, <1>3, <1>4 DEF IInv

LEMMA IdleIsProc == Idle \in Proc /\ Idle.pc = "idle"
BY DeadlineConstants DEF Idle, Proc, Statement

\* A step of JobLease, or the end of some calls.
JobsStep ==
  \/ Next \/ UNCHANGED vars
  \/ /\ job' = job /\ proc' \in [Call -> Proc]
     /\ \A c \in Call : proc'[c] \in {proc[c], Idle}

\* Whatever the worker does, the jobs table lives the life of JobLease, but for
\* a crash, which drops several calls at a time.
LEMMA WorkerStepOnJobs ==
  ASSUME RunInv, WNext
  PROVE  JobsStep
<1>. USE DEF RunInv
<1>1. ASSUME Next \/ UNCHANGED vars
      PROVE  JobsStep
  BY <1>1 DEF JobsStep
<1>2. ASSUME NEW s \in Session, Step(s)
      PROVE  JobsStep
  BY <1>1, <1>2, SessionCalls DEF Next
<1>3. ASSUME NEW s \in Session, NEW j \in Job, Request(s, j, s)
      PROVE  JobsStep
  BY <1>1, <1>3, SessionCalls DEF Next
<1>4. ASSUME NEW s \in Session, HeartbeatSession(s)
      PROVE  JobsStep
  <2>1. CASE JobForSession(s) = None
    BY <1>1, <1>4, <2>1 DEF HeartbeatSession, vars
  <2>2. CASE JobForSession(s) # None
    <3>1. JobForSession(s) \in Job /\ Heartbeat(JobForSession(s), s)
      BY <1>4, <2>2, JobForSessionProperties DEF HeartbeatSession
    <3>. QED
      BY <1>1, <3>1 DEF Next
  <2>. QED
    BY <2>1, <2>2
<1>5. ASSUME NEW s \in Session, RunStep(s)
      PROVE  JobsStep
  <2>0. RunPhase(s)
    BY DEF RunPhases
  <2>1. CASE FailToStart(s)
    BY <1>1, <2>1 DEF FailToStart, vars
  <2>2. CASE RunClaims(s)
    BY <1>3, <2>0, <2>2 DEF RunClaims, Request, RunPhase, Alive
  <2>3. CASE ClaimReturns(s)
    BY <1>2, <2>3 DEF ClaimReturns, Step
  <2>4. CASE StartTurn(s)
    BY <1>1, <1>4, <2>4 DEF StartTurn, vars
  <2>5. CASE ToolReturns(s)
    BY <1>2, <2>5 DEF ToolReturns, Step
  <2>6. CASE Finalize(s) \/ FailToSeed(s)
    BY <1>1, <1>3, <2>0, <2>6 DEF Finalize, FailToSeed, Request, RunPhase, Alive, vars
  <2>7. CASE RunFails(s)
    BY <1>2, <2>7 DEF RunFails, Step
  <2>8. CASE Abandon(s) \/ ToolCancelled(s)
    <3>1. job' = job /\ proc' = [proc EXCEPT ![s] = Idle]
      BY <2>8 DEF Abandon, ToolCancelled, Crash, Return
    <3>2. proc' \in [Call -> Proc] /\ \A c \in Call : proc'[c] \in {proc[c], Idle}
      BY <3>1, IdleIsProc, SessionCalls DEF IInv, TypeOK
    <3>. QED
      BY <3>1, <3>2 DEF JobsStep
  <2>. QED
    BY <1>5, <2>1, <2>2, <2>3, <2>4, <2>5, <2>6, <2>7, <2>8 DEF RunStep
<1>6. ASSUME NEW s \in Session, Beat(s) \/ ToolCall(s) \/ EndTurn(s) \/ Cancel(s)
      PROVE  JobsStep
  <2>1. CASE Beat(s)
    BY <1>4, <2>1 DEF Beat
  <2>2. CASE ToolCall(s)
    <3>1. run[s].holds \subseteq Job
      BY DEF Run
    <3>. QED
      BY <1>3, <2>2, <3>1 DEF ToolCall, Request
  <2>3. CASE EndTurn(s) \/ Cancel(s)
    BY <1>1, <2>3 DEF EndTurn, Cancel, vars
  <2>. QED
    BY <1>6, <2>1, <2>2, <2>3
<1>7. CASE StartPoll \/ \E c \in Maintainer : Maintain(c)
  BY <1>1, <1>7, SessionCalls DEF StartPoll, Maintain, Next
<1>8. CASE \E c \in Call : CallStep(c)
  BY <1>1, <1>8 DEF CallStep, Next, Step
<1>9. CASE \E j \in Job : UserActs(j)
  BY <1>1, <1>9 DEF UserActs, Next
<1>10. CASE TimePasses
  BY <1>1, <1>10 DEF TimePasses, Next
<1>11. CASE ProcessCrash
  <2>1. /\ job' = job
        /\ proc' = [c \in Call |-> IF c \in Session \cup {Poller} THEN Idle ELSE proc[c]]
    BY <1>11 DEF ProcessCrash
  <2>2. proc' \in [Call -> Proc] /\ \A c \in Call : proc'[c] \in {proc[c], Idle}
    BY <2>1, IdleIsProc DEF IInv, TypeOK
  <2>. QED
    BY <2>1, <2>2 DEF JobsStep
<1>12. CASE \/ ListReady \/ EndPoll \/ \E n \in Limits : UpdateConfig(n)
            \/ \E s \in Session, j \in Job : Dispatch(s, j)
  BY <1>1, <1>12 DEF ListReady, EndPoll, UpdateConfig, Dispatch, vars
<1>. QED
  BY <1>5, <1>6, <1>7, <1>8, <1>9, <1>10, <1>11, <1>12 DEF WNext

LEMMA WorkerStepKeepsJobs ==
  ASSUME RunInv, WNext
  PROVE  IInv'
<1>1. IInv /\ JobsStep
  BY WorkerStepOnJobs DEF RunInv
<1>. QED
  BY <1>1, CallsDropped, IInvInductive DEF JobsStep

LEMMA RunConstants ==
  /\ NoRun \in Run
  /\ HeartbeatInterval \in 0 .. HeartbeatInterval
  /\ HeartbeatInterval \in Nat \ {0} /\ HeartbeatInterval <= LeaseDuration
  /\ LeaseDuration \in Nat /\ None \notin Job
<1>1. HeartbeatInterval \in Nat \ {0} /\ HeartbeatInterval <= LeaseDuration
      /\ LeaseDuration \in Nat
  BY WorkerAssumption, SettingsAssumption
<1>2. 0 \in 0 .. HeartbeatInterval
  BY <1>1
<1>3. NoRun \in Run
  BY <1>2 DEF NoRun, Run, RunState
<1>. QED
  BY <1>1, <1>3, NoneAssumption

\* A run goes on, and nobody else's.
LEMMA RunMoves ==
  ASSUME RunInv, IInv', NEW s \in Session, Alive(s),
         NEW r \in Run, r.pc \notin {"free", "over"},
         run' = [run EXCEPT ![s] = r],
         UNCHANGED <<poll, sem, snatched>>,
         \A t \in Session \ {s} : proc'[t] = proc[t],
         RunPhase(s)'
  PROVE  RunInv'
<1>. USE DEF RunInv
<1>1. run' \in [Session -> Run] /\ run'[s] = r
      /\ \A t \in Session \ {s} : run'[t] = run[t]
  OBVIOUS
<1>2. \A t \in Session : Alive(t)' <=> Alive(t)
  BY <1>1 DEF Alive
<1>3. AliveSet' = AliveSet
  BY <1>2 DEF AliveSet
<1>4. Tokens'
  BY <1>3 DEF Tokens
<1>5. RunPhases'
  BY <1>1 DEF RunPhases, RunPhase, Alive
<1>. QED
  BY <1>1, <1>4, <1>5

\* A run ends and gives its token back.
LEMMA RunEnds ==
  ASSUME RunInv, IInv', NEW s \in Session, Alive(s), EndRun(s),
         UNCHANGED <<poll, snatched>>,
         \A t \in Session \ {s} : proc'[t] = proc[t],
         proc'[s].pc = "idle"
  PROVE  RunInv'
<1>. USE DEF RunInv
<1>1. [NoRun EXCEPT !.pc = "over"] \in Run
  BY RunConstants DEF Run, RunState
<1>2. /\ run' \in [Session -> Run] /\ run'[s].pc = "over"
      /\ \A t \in Session \ {s} : run'[t] = run[t]
  BY <1>1, RunConstants DEF EndRun, Run
<1>3. AliveSet' = AliveSet \ {s} /\ s \in AliveSet
  BY <1>2 DEF AliveSet, Alive
<1>4. /\ IsFiniteSet(AliveSet') /\ Cardinality(AliveSet') = sem.len - 1
      /\ sem.len \in Nat \ {0}
  BY <1>3, FS_RemoveElement, FS_EmptySet, FS_CardinalityType DEF Tokens
<1>5. sem' \in Sem /\ sem'.len = sem.len - 1 /\ sem'.cap = sem.cap
  <2>1. sem' = [sem EXCEPT !.len = @ - 1] /\ sem.len - 1 \in Nat
    BY <1>4 DEF EndRun
  <2>. QED
    BY <2>1 DEF Sem
<1>6. Tokens'
  BY <1>3, <1>4, <1>5 DEF Tokens
<1>7. RunPhases'
  BY <1>2 DEF RunPhases, RunPhase, Alive
<1>. QED
  BY <1>2, <1>5, <1>6, <1>7

\* The runs and the semaphore stay as they are.
LEMMA RunsStay ==
  ASSUME RunInv, IInv', UNCHANGED <<run, sem>>, poll' \in Poll,
         snatched' \subseteq Job, RunPhases'
  PROVE  RunInv'
<1>1. AliveSet' = AliveSet
  BY DEF AliveSet, Alive
<1>. QED
  BY <1>1 DEF RunInv, Tokens

LEMMA RunStepKeeps ==
  ASSUME RunInv, IInv', NEW s \in Session, RunStep(s)
  PROVE  RunInv'
<1>. USE DEF RunInv
<1>0. /\ RunPhase(s) /\ run[s] \in Run /\ s \in Call
      /\ proc \in [Call -> Proc] /\ Session \subseteq Call
  BY SessionCalls DEF RunPhases, IInv, TypeOK
<1>1. ASSUME Return(s)
      PROVE  proc'[s] = Idle /\ \A t \in Session \ {s} : proc'[t] = proc[t]
  BY <1>0, <1>1 DEF Return
<1>2. ASSUME NEW pc, NEW j, NEW u, Enter(s, pc, j, u)
      PROVE  /\ proc'[s].pc = pc /\ proc'[s].target = j /\ proc'[s].session = u
             /\ \A t \in Session \ {s} : proc'[t] = proc[t]
  BY <1>0, <1>2 DEF Enter, Idle
<1>3. ASSUME NEW j, NEW u, StartFail(s, j, u)
      PROVE  /\ proc'[s].pc = "fail" /\ proc'[s].target = j
             /\ \A t \in Session \ {s} : proc'[t] = proc[t]
  BY <1>0, <1>3 DEF StartFail, Idle
<1>4. ASSUME NEW pc \in RunState
      PROVE  [run[s] EXCEPT !.pc = pc] \in Run
  BY <1>0 DEF Run
<1>5. CASE FailToStart(s)
  BY <1>0, <1>5, RunEnds DEF FailToStart, Alive, RunPhase
<1>6. CASE RunClaims(s)
  <2>. DEFINE r == [run[s] EXCEPT !.pc = "claiming"]
  <2>1. r \in Run /\ r.pc = "claiming" /\ r.job = run[s].job
    BY <1>0, <1>4 DEF RunState, Run
  <2>2. run' = [run EXCEPT ![s] = r]
    BY <1>6 DEF RunClaims, Becomes
  <2>3. /\ proc'[s].pc = "list" /\ proc'[s].target = run[s].job /\ proc'[s].session = s
        /\ \A t \in Session \ {s} : proc'[t] = proc[t]
    BY <1>2, <1>6 DEF RunClaims, StartClaim
  <2>4. Alive(s) /\ run[s].job \in Job /\ UNCHANGED <<poll, sem, snatched>>
    BY <1>0, <1>6 DEF RunClaims, Alive, RunPhase
  <2>. HIDE DEF r
  <2>5. run'[s] = r
    BY <2>2
  <2>6. RunPhase(s)'
    BY <2>1, <2>3, <2>4, <2>5 DEF RunPhase, Alive
  <2>. QED
    BY <2>1, <2>2, <2>3, <2>4, <2>6, RunMoves
<1>7. CASE ClaimReturns(s)
  <2>0. Alive(s) /\ run[s].job \in Job /\ UNCHANGED <<poll, snatched>>
    BY <1>0, <1>7 DEF ClaimReturns, Alive, RunPhase
  <2>1. proc'[s] = Idle /\ \A t \in Session \ {s} : proc'[t] = proc[t]
    BY <1>1, <1>7 DEF ClaimReturns, ClaimJob
  <2>2. CASE Claimable(run[s].job)
    <3>. DEFINE r == [run[s] EXCEPT !.pc = "seed", !.holds = {run[s].job},
                                    !.beat = HeartbeatInterval]
    <3>1. r \in Run /\ r.pc = "seed" /\ r.job = run[s].job
      BY <1>0, <2>0, RunConstants DEF RunState, Run
    <3>2. run' = [run EXCEPT ![s] = r] /\ sem' = sem
      BY <1>7, <2>2 DEF ClaimReturns
    <3>. HIDE DEF r
    <3>3. RunPhase(s)'
      BY <2>0, <2>1, <3>1, <3>2, IdleIsProc DEF RunPhase, Alive
    <3>. QED
      BY <2>0, <2>1, <3>1, <3>2, <3>3, RunMoves
  <2>3. CASE ~Claimable(run[s].job)
    BY <1>7, <2>0, <2>1, <2>3, IdleIsProc, RunEnds DEF ClaimReturns
  <2>. QED
    BY <2>2, <2>3
<1>8. CASE StartTurn(s)
  <2>. DEFINE r == [run[s] EXCEPT !.pc = "turn",
                      !.beat = IF run[s].cancelled THEN @ ELSE HeartbeatInterval]
  <2>1. r \in Run /\ r.pc = "turn" /\ r.job = run[s].job
    BY <1>0, RunConstants DEF RunState, Run
  <2>2. run' = [run EXCEPT ![s] = r] /\ UNCHANGED <<proc, poll, sem, snatched>>
    BY <1>8 DEF StartTurn, HeartbeatSession, Heartbeat
  <2>3. Alive(s) /\ run[s].job \in Job
    BY <1>0, <1>8 DEF StartTurn, Alive, RunPhase
  <2>. HIDE DEF r
  <2>4. RunPhase(s)'
    BY <2>1, <2>2, <2>3 DEF RunPhase, Alive
  <2>. QED
    BY <2>1, <2>2, <2>3, <2>4, RunMoves
<1>9. CASE ToolReturns(s)
  <2>1. PICK H : run' = [run EXCEPT ![s].holds = H]
                 /\ H \in {run[s].holds, run[s].holds \ {proc[s].target},
                           run[s].holds \cup {proc[s].target}}
                 /\ (H = run[s].holds \cup {proc[s].target} => proc[s].pc = "claim"
                      \/ H = run[s].holds)
    BY <1>0, <1>9 DEF ToolReturns, ClaimJob
  <2>. DEFINE r == [run[s] EXCEPT !.holds = H]
  <2>2. proc[s].pc = "claim" => proc[s].target \in Job
    BY <1>0 DEF IInv, CallsWellFormed, CallWellFormed
  <2>3. r \in Run /\ r.pc = "turn" /\ r.job = run[s].job
    BY <1>0, <1>9, <2>1, <2>2 DEF ToolReturns, Run
  <2>4. run' = [run EXCEPT ![s] = r] /\ UNCHANGED <<poll, sem, snatched>>
    BY <1>9, <2>1 DEF ToolReturns
  <2>5. proc'[s] = Idle /\ \A t \in Session \ {s} : proc'[t] = proc[t]
    BY <1>1, <1>9 DEF ToolReturns, CompleteJob, ReleaseJob, ClaimJob
  <2>6. Alive(s) /\ run[s].job \in Job
    BY <1>0, <1>9 DEF ToolReturns, Alive, RunPhase
  <2>. HIDE DEF r
  <2>7. RunPhase(s)'
    BY <2>3, <2>4, <2>6 DEF RunPhase, Alive
  <2>. QED
    BY <2>3, <2>4, <2>5, <2>6, <2>7, RunMoves
<1>10. ASSUME NEW pc \in {"failing", "unseeded"}, Becomes(s, pc), Alive(s),
              StartFail(s, run[s].job, s), UNCHANGED <<poll, sem, snatched>>
       PROVE  RunInv'
  <2>. DEFINE r == [run[s] EXCEPT !.pc = pc]
  <2>1. r \in Run /\ r.pc = pc /\ r.job = run[s].job
    BY <1>0, <1>4, SMTT(40) DEF RunState, Run
  <2>2. run' = [run EXCEPT ![s] = r]
    BY <1>10 DEF Becomes
  <2>3. /\ proc'[s].pc = "fail" /\ proc'[s].target = run[s].job
        /\ \A t \in Session \ {s} : proc'[t] = proc[t]
    BY <1>3, <1>10
  <2>4. run[s].job \in Job
    BY <1>0, <1>10 DEF RunPhase
  <2>. HIDE DEF r
  <2>5. run'[s] = r
    BY <2>2
  <2>6. RunPhase(s)'
    BY <2>1, <2>3, <2>4, <2>5 DEF RunPhase, Alive
  <2>. QED
    BY <1>10, <2>1, <2>2, <2>3, <2>6, RunMoves
<1>11. CASE Finalize(s) \/ FailToSeed(s)
  <2>1. Alive(s) /\ proc[s].pc = "idle"
    BY <1>0, <1>11 DEF Finalize, FailToSeed, Alive, RunPhase
  <2>2. CASE EndRun(s) /\ UNCHANGED <<proc, poll, snatched>>
    BY <2>1, <2>2, RunEnds
  <2>3. CASE ~(EndRun(s) /\ UNCHANGED <<proc, poll, snatched>>)
    BY <1>10, <1>11, <2>1, <2>3 DEF Finalize, FailToSeed
  <2>. QED
    BY <2>2, <2>3
<1>12. CASE RunFails(s) \/ Abandon(s)
  BY <1>1, <1>12, IdleIsProc, RunEnds DEF RunFails, RecordJobFailure, Abandon, Alive
<1>13. CASE ToolCancelled(s)
  <2>1. proc'[s] = Idle /\ \A t \in Session \ {s} : proc'[t] = proc[t]
    BY <1>1, <1>13 DEF ToolCancelled, Crash
  <2>2. RunPhases'
    BY <1>13, <2>1 DEF ToolCancelled, RunPhases, RunPhase, Alive
  <2>. QED
    BY <1>13, <2>2, RunsStay DEF ToolCancelled
<1>. QED
  BY <1>5, <1>6, <1>7, <1>8, <1>9, <1>11, <1>12, <1>13 DEF RunStep

\* The ticker, the agent and the user.
LEMMA RunActsKeep ==
  ASSUME RunInv, IInv', NEW s \in Session,
         Beat(s) \/ ToolCall(s) \/ EndTurn(s) \/ Cancel(s)
  PROVE  RunInv'
<1>. USE DEF RunInv
<1>0. /\ RunPhase(s) /\ run[s] \in Run /\ s \in Call
      /\ proc \in [Call -> Proc] /\ Session \subseteq Call
  BY SessionCalls DEF RunPhases, IInv, TypeOK
<1>1. ASSUME NEW r \in Run, Alive(s), r.job = run[s].job,
             \/ r.pc = run[s].pc
             \/ run[s].pc = "turn" /\ r.pc = "final" /\ proc[s].pc = "idle",
             run' = [run EXCEPT ![s] = r], UNCHANGED <<proc, poll, sem, snatched>>
      PROVE  RunInv'
  <2>1. run'[s] = r
    BY <1>1
  <2>2. RunPhase(s)' /\ r.pc \notin {"free", "over"}
    BY <1>0, <1>1, <2>1 DEF RunPhase, Alive
  <2>. QED
    BY <1>1, <2>2, RunMoves
<1>2. CASE Beat(s)
  <2>. DEFINE r == [run[s] EXCEPT !.beat = HeartbeatInterval]
  <2>1. r \in Run /\ r.pc = run[s].pc /\ r.job = run[s].job
    BY <1>0, RunConstants DEF Run
  <2>2. run' = [run EXCEPT ![s] = r] /\ UNCHANGED <<proc, poll, sem, snatched>>
    BY <1>2 DEF Beat, HeartbeatSession, Heartbeat
  <2>. HIDE DEF r
  <2>. QED
    BY <1>1, <1>2, <2>1, <2>2 DEF Beat, Alive
<1>3. CASE ToolCall(s)
  <2>1. \A t \in Session \ {s} : proc'[t] = proc[t]
    BY <1>0, <1>3, Zenon DEF ToolCall, StartComplete, StartRelease, StartClaim, Enter
  <2>2. RunPhases'
    BY <1>3, <2>1 DEF ToolCall, RunPhases, RunPhase, Alive
  <2>. QED
    BY <1>3, <2>2, RunsStay, SMTT(40) DEF ToolCall
<1>4. CASE EndTurn(s)
  <2>. DEFINE r == [run[s] EXCEPT !.pc = "final"]
  <2>1. r \in Run /\ r.pc = "final" /\ r.job = run[s].job
    BY <1>0 DEF Run, RunState
  <2>2. run' = [run EXCEPT ![s] = r] /\ UNCHANGED <<proc, poll, sem, snatched>>
    BY <1>4 DEF EndTurn, Becomes
  <2>. HIDE DEF r
  <2>. QED
    BY <1>1, <1>4, <2>1, <2>2 DEF EndTurn, Alive
<1>5. CASE Cancel(s)
  <2>. DEFINE r == [run[s] EXCEPT !.cancelled = TRUE]
  <2>1. r \in Run /\ r.pc = run[s].pc /\ r.job = run[s].job
    BY <1>0 DEF Run
  <2>2. run' = [run EXCEPT ![s] = r] /\ UNCHANGED <<proc, poll, sem, snatched>>
    BY <1>5 DEF Cancel
  <2>. HIDE DEF r
  <2>. QED
    BY <1>1, <1>5, <2>1, <2>2 DEF Cancel, Alive
<1>. QED
  BY <1>2, <1>3, <1>4, <1>5

\* What a statement of Reconcile or UpdateProgress makes of its call.
LEMMA CallStepMoves ==
  ASSUME IInv, NEW c \in Call, CallStep(c)
  PROVE  /\ \A d \in Call \ {c} : proc'[d] = proc[d]
         /\ proc[c].pc \in {"list", "pass", "expire", "progress", "write"}
         /\ proc[c].pc \in {"list", "pass", "expire"} =>
              \/ proc[c].target = None
              \/ /\ proc'[c].pc \in {"list", "pass", "expire", "claim"}
                 /\ proc'[c].target = proc[c].target
                 /\ proc'[c].session = proc[c].session
         /\ proc[c].pc \in {"progress", "write"} =>
              \/ proc'[c].pc = "idle"
              \/ /\ proc'[c].pc \in {"write", "complete"}
                 /\ proc'[c].target = proc[c].target
<1>0. proc \in [Call -> Proc] /\ proc[c] \in Proc
  BY DEF IInv, TypeOK
<1>1. CASE ListExpired(c)
  BY <1>0, <1>1 DEF ListExpired, Proc
<1>2. CASE \E j \in Job : ReadExpired(c, j)
  BY <1>0, <1>2 DEF ReadExpired, Proc
<1>3. CASE ReleaseExpired(c)
  BY <1>0, <1>3 DEF ReleaseExpired, Proc
<1>4. CASE EndReconcile(c)
  BY <1>0, <1>4 DEF EndReconcile, Return, Goto, Proc
<1>5. CASE CheckProgress(c) \/ WriteProgress(c)
  BY <1>0, <1>5, IdleIsProc DEF CheckProgress, WriteProgress, Return, Goto, Proc
<1>. QED
  BY <1>1, <1>2, <1>3, <1>4, <1>5 DEF CallStep

LEMMA OthersKeepRuns ==
  ASSUME RunInv, IInv',
         \/ StartPoll \/ ListReady \/ EndPoll \/ TimePasses \/ ProcessCrash
         \/ \E n \in Limits : UpdateConfig(n)
         \/ \E c \in Call : CallStep(c)
         \/ \E c \in Maintainer : Maintain(c)
         \/ \E j \in Job : UserActs(j)
  PROVE  RunInv'
<1>. USE DEF RunInv
<1>0. proc \in [Call -> Proc] /\ \A s \in Session : s \in Call /\ s \notin Maintainer
  BY SessionCalls DEF IInv, TypeOK
<1>1. ASSUME NEW c \in Maintainer, StartReconcile(c)
      PROVE  \A s \in Session : proc'[s] = proc[s]
  BY <1>0, <1>1 DEF StartReconcile, Enter
<1>2. CASE StartPoll
  <2>1. poll' \in Poll
    BY <1>2 DEF StartPoll, Poll
  <2>2. RunPhases'
    BY <1>1, <1>2, SessionCalls DEF StartPoll, RunPhases, RunPhase, Alive
  <2>. QED
    BY <1>2, <2>1, <2>2, RunsStay DEF StartPoll
<1>3. CASE ListReady
  <2>1. poll' \in Poll /\ RunPhases'
    BY <1>3 DEF ListReady, Poll, RunPhases, RunPhase, Alive
  <2>. QED
    BY <1>3, <2>1, RunsStay DEF ListReady
<1>4. CASE EndPoll
  <2>1. poll' \in Poll /\ RunPhases' /\ AliveSet' = AliveSet
    BY <1>4 DEF EndPoll, Poll, RunPhases, RunPhase, Alive, AliveSet
  <2>2. CASE sem' = sem
    BY <1>4, <2>1, <2>2, RunsStay DEF EndPoll
  <2>3. CASE sem' = [sem EXCEPT !.cap = sem.max, !.len = 0]
             /\ (sem.cap = 0 \/ sem.len = 0)
    <3>1. AliveSet = {} /\ IsFiniteSet({}) /\ Cardinality({}) = 0
      BY <2>3, FS_EmptySet DEF Tokens
    <3>2. sem' \in Sem /\ sem'.len = 0
      BY <2>3 DEF Sem
    <3>. QED
      BY <1>4, <2>1, <3>1, <3>2 DEF EndPoll, Tokens
  <2>. QED
    BY <1>4, <2>2, <2>3 DEF EndPoll, Resized
<1>5. CASE TimePasses
  <2>1. \A s \in Session : Claimant(s) => run[s].beat - 1 \in 0 .. HeartbeatInterval
    <3>1. ASSUME NEW s \in Session, Claimant(s)
          PROVE  run[s].beat - 1 \in 0 .. HeartbeatInterval
      <4>1. run[s].beat > 0 /\ run[s].beat \in 0 .. HeartbeatInterval
        BY <1>5, <3>1 DEF TimePasses, LeaseIsKept, Run
      <4>. QED
        BY <4>1, RunConstants
    <3>. QED
      BY <3>1
  <2>2. \A s \in Session : /\ run'[s] \in Run /\ run'[s].pc = run[s].pc
                           /\ run'[s].job = run[s].job
    BY <1>5, <2>1 DEF TimePasses, Run
  <2>3. run' \in [Session -> Run]
    BY <1>5, <2>2 DEF TimePasses
  <2>4. AliveSet' = AliveSet
    BY <2>2 DEF AliveSet, Alive
  <2>5. \A s \in Session : /\ proc'[s].pc = proc[s].pc /\ proc'[s].target = proc[s].target
                           /\ proc'[s].session = proc[s].session
    BY <1>0, <1>5 DEF TimePasses, Tick, Proc
  <2>6. RunPhases'
    BY <2>2, <2>5 DEF RunPhases, RunPhase, Alive
  <2>. QED
    BY <1>5, <2>3, <2>4, <2>6 DEF TimePasses, Tokens
<1>6. CASE ProcessCrash
  <2>1. /\ [NoRun EXCEPT !.pc = "over"] \in Run
        /\ [NoRun EXCEPT !.pc = "over"].pc = "over"
    BY RunConstants DEF Run, RunState
  <2>2. run' \in [Session -> Run] /\ \A s \in Session : run'[s].pc \in {"free", "over"}
    BY <1>6, <2>1 DEF ProcessCrash, Alive
  <2>3. AliveSet' = {} /\ IsFiniteSet({}) /\ Cardinality({}) = 0
    BY <2>2, FS_EmptySet DEF AliveSet, Alive
  <2>4. sem' \in Sem /\ sem'.len = 0
    BY <1>6 DEF ProcessCrash, Sem
  <2>5. poll' \in Poll
    BY <1>6 DEF ProcessCrash, Poll
  <2>6. \A s \in Session : proc'[s].pc = "idle"
    BY <1>0, <1>6, IdleIsProc DEF ProcessCrash
  <2>7. RunPhases'
    BY <2>2, <2>6 DEF RunPhases, RunPhase, Alive
  <2>. QED
    BY <1>6, <2>2, <2>3, <2>4, <2>5, <2>7 DEF ProcessCrash, Tokens
<1>7. ASSUME NEW n \in Limits, UpdateConfig(n)
      PROVE  RunInv'
  <2>1. sem' \in Sem /\ sem'.len = sem.len /\ sem'.cap = sem.cap
    BY <1>7 DEF UpdateConfig, Sem
  <2>2. RunPhases' /\ AliveSet' = AliveSet
    BY <1>7 DEF UpdateConfig, RunPhases, RunPhase, Alive, AliveSet
  <2>. QED
    BY <1>7, <2>1, <2>2 DEF UpdateConfig, Tokens
<1>8. ASSUME NEW c \in Call, CallStep(c)
      PROVE  RunInv'
  <2>1. snatched' \subseteq Job
    <3>1. ReleaseExpired(c) => proc[c].victim \in Job
      BY DEF ReleaseExpired, IInv, CallsWellFormed, CallWellFormed
    <3>. QED
      BY <1>8, <3>1 DEF CallStep
  <2>2. ASSUME NEW s \in Session
        PROVE  RunPhase(s)'
    <3>1. RunPhase(s) /\ run' = run
      BY <1>8 DEF RunPhases, CallStep
    <3>2. CASE s # c
      BY <1>0, <1>8, <3>1, <3>2, CallStepMoves DEF RunPhase, Alive
    <3>3. CASE s = c
      BY <1>8, <3>1, <3>3, CallStepMoves, RunConstants DEF RunPhase, Alive
    <3>. QED
      BY <3>2, <3>3
  <2>3. RunPhases'
    BY <2>2 DEF RunPhases
  <2>. QED
    BY <1>8, <2>1, <2>3, RunsStay DEF CallStep
<1>9. ASSUME NEW c \in Maintainer, Maintain(c)
      PROVE  RunInv'
  <2>1. RunPhases'
    BY <1>1, <1>9 DEF Maintain, RunPhases, RunPhase, Alive
  <2>. QED
    BY <1>9, <2>1, RunsStay DEF Maintain
<1>10. ASSUME NEW j \in Job, UserActs(j)
       PROVE  RunInv'
  <2>1. UNCHANGED <<proc, run, poll, sem, snatched>>
    BY <1>10 DEF UserActs, Create, Unblock, Archive, Unarchive, SoftDelete
  <2>2. RunPhases'
    BY <2>1 DEF RunPhases, RunPhase, Alive
  <2>. QED
    BY <2>1, <2>2, RunsStay
<1>. QED
  BY <1>2, <1>3, <1>4, <1>5, <1>6, <1>7, <1>8, <1>9, <1>10

\* The semaphore that tryAcquire works on has the tokens of the present one.
LEMMA ResizedProperties ==
  ASSUME RunInv
  PROVE  /\ Resized \in Sem /\ Resized.max = sem.max
         /\ Resized.len = Cardinality(AliveSet) /\ Resized.len \in Nat
         /\ Resized.cap # 0
<1>. USE DEF RunInv
<1>1. sem.max # 0
  BY WorkerAssumption DEF Sem
<1>2. CASE sem.cap = 0 \/ (sem.cap # sem.max /\ sem.len = 0)
  <2>1. Cardinality(AliveSet) = 0
    BY <1>2, FS_EmptySet DEF Tokens
  <2>. QED
    BY <1>1, <1>2, <2>1 DEF Resized, Sem
<1>3. CASE ~(sem.cap = 0 \/ (sem.cap # sem.max /\ sem.len = 0))
  BY <1>3 DEF Resized, Sem, Tokens
<1>. QED
  BY <1>2, <1>3

LEMMA DispatchKeepsRuns ==
  ASSUME RunInv, IInv', NEW s \in Session, NEW j \in Job, Dispatch(s, j)
  PROVE  RunInv'
<1>. USE DEF RunInv
<1>1. run[s] \in Run /\ run[s].pc = "free" /\ proc[s].pc = "idle"
  BY DEF Dispatch, RunPhases, RunPhase
<1>. DEFINE r == [run[s] EXCEPT !.pc = "start", !.job = j]
<1>2. r \in Run /\ r.pc = "start" /\ r.job = j
  BY <1>1 DEF Run, RunState
<1>3. run' = [run EXCEPT ![s] = r] /\ UNCHANGED <<proc, snatched>>
  BY DEF Dispatch
<1>. HIDE DEF r
<1>4. /\ run' \in [Session -> Run] /\ run'[s] = r
      /\ \A t \in Session \ {s} : run'[t] = run[t]
  BY <1>2, <1>3
<1>5. AliveSet' = AliveSet \cup {s} /\ s \notin AliveSet
  BY <1>1, <1>2, <1>4 DEF AliveSet, Alive
<1>6. IsFiniteSet(AliveSet') /\ Cardinality(AliveSet') = Cardinality(AliveSet) + 1
  BY <1>5, FS_AddElement DEF Tokens
<1>7. sem' \in Sem /\ sem'.len = Resized.len + 1 /\ sem'.cap = Resized.cap
  <2>1. sem' = [Resized EXCEPT !.len = @ + 1] /\ Resized.len + 1 \in Nat
    BY ResizedProperties DEF Dispatch
  <2>2. Resized \in Sem
    BY ResizedProperties
  <2>. HIDE DEF Resized
  <2>. QED
    BY <2>1, <2>2 DEF Sem
<1>8. Tokens'
  BY <1>6, <1>7, ResizedProperties DEF Tokens
<1>9. RunPhases'
  BY <1>1, <1>2, <1>3, <1>4 DEF RunPhases, RunPhase, Alive
<1>10. poll' \in Poll
  BY DEF Dispatch, Poll
<1>. QED
  BY <1>3, <1>4, <1>7, <1>8, <1>9, <1>10

LEMMA RunInvInit == WInit => RunInv
<1>. SUFFICES ASSUME WInit
              PROVE  RunInv
  OBVIOUS
<1>1. IInv
  BY InitInv DEF WInit
<1>2. run \in [Session -> Run] /\ \A s \in Session : run[s].pc = "free"
  BY RunConstants DEF WInit, NoRun
<1>3. poll \in Poll /\ sem \in Sem /\ sem.len = 0 /\ snatched \subseteq Job
  BY DEF WInit, Poll, Sem
<1>4. \A s \in Session : proc[s].pc = "idle"
  BY SessionCalls, IdleIsProc DEF WInit, Init
<1>5. AliveSet = {}
  BY <1>2 DEF AliveSet, Alive
<1>6. Tokens
  BY <1>3, <1>5, FS_EmptySet DEF Tokens
<1>7. RunPhases
  BY <1>2, <1>4 DEF RunPhases, RunPhase, Alive
<1>. QED
  BY <1>1, <1>2, <1>3, <1>6, <1>7 DEF RunInv

LEMMA RunInvNext ==
  ASSUME RunInv, [WNext]_wvars
  PROVE  RunInv'
<1>1. ASSUME WNext
      PROVE  RunInv'
  <2>1. IInv'
    BY <1>1, WorkerStepKeepsJobs
  <2>. QED
    BY <1>1, <2>1, RunStepKeeps, RunActsKeep, OthersKeepRuns, DispatchKeepsRuns DEF WNext
<1>2. ASSUME UNCHANGED wvars
      PROVE  RunInv'
  <2>1. IInv'
    BY <1>2, IInvInductive DEF wvars, vars, RunInv
  <2>2. RunPhases'
    BY <1>2 DEF wvars, RunInv, RunPhases, RunPhase, Alive
  <2>. QED
    BY <1>2, <2>1, <2>2, RunsStay DEF wvars, RunInv
<1>. QED
  BY <1>1, <1>2

LEMMA RunInvariance == WSpec => []RunInv
BY RunInvInit, RunInvNext, PTL DEF WSpec
-------------------------------------------------------------------------------
(* What holds of the jobs table alone holds of it under the worker.        *)

LEMMA WorkerStepOnTable ==
  ASSUME RunInv, [WNext]_wvars
  PROVE  /\ IInv
         /\ [Next]_vars \/ job' = job
<1>1. IInv
  BY DEF RunInv
<1>2. CASE WNext
  BY <1>1, <1>2, WorkerStepOnJobs DEF JobsStep
<1>3. CASE UNCHANGED wvars
  BY <1>1, <1>3 DEF wvars
<1>. QED
  BY <1>2, <1>3

\* The jobs table under the worker implements the abstract board as well: with
\* runs that are cancelled, calls that end with their run or their process,
\* and agents that claim jobs of their own, no finished job is reopened, no
\* deleted one returns, and none goes from one session to another directly.
THEOREM WorkerImplementsBoard == WSpec => BoardSpec
<1>1. WInit => Board!Init
  BY InitOnBoard DEF WInit
<1>2. RunInv /\ [WNext]_wvars => [Board!Next]_(Board!vars)
  <2>. SUFFICES ASSUME RunInv, [WNext]_wvars PROVE [Board!Next]_(Board!vars)
    OBVIOUS
  <2>1. CASE [Next]_vars
    BY <2>1, WorkerStepOnTable, NextOnBoard
  <2>2. CASE job' = job
    BY <2>2 DEF Board!vars
  <2>. QED
    BY <2>1, <2>2, WorkerStepOnTable
<1>. QED
  BY <1>1, <1>2, RunInvariance, PTL DEF WSpec, BoardSpec, Board!Spec

\* No cancellation, crash or restart of the worker cuts short the delay before
\* a failed job may be claimed again (recordWorkerFailure).
THEOREM WorkerServesCooldown == WSpec => CooldownServed
<1>1. ASSUME RunInv, [WNext]_wvars
      PROVE  \A j \in Job : job'[j].retry < job[j].retry =>
               \/ job'[j].retry = job[j].retry - 1 /\ job'[j].status = "todo"
               \/ job'[j].deleted
  <2>1. CASE [Next]_vars
    BY <1>1, <2>1, WorkerStepOnTable, CooldownStep
  <2>2. CASE job' = job
    <3>1. \A j \in Job : job[j].retry \in Int
      BY <1>1, DeadlineFacts DEF RunInv, IInv, TypeOK, Row
    <3>. QED
      BY <2>2, <3>1
  <2>. QED
    BY <1>1, <2>1, <2>2, WorkerStepOnTable
<1>. QED
  BY <1>1, RunInvariance, PTL DEF WSpec, CooldownServed
-------------------------------------------------------------------------------
(* Runs and rows.                                                          *)

Early(s) == run[s].pc \in {"free", "start", "claiming"}

\* A step in which run s claims nothing.
RunGoesOn(s) ==
  /\ run'[s].holds \subseteq run[s].holds \cap {run'[s].job}
  /\ Early(s)' => Early(s)
  /\ ~Claimant(s)' => run'[s].holds = {}
  /\ run'[s].pc \in {"unseeded", "failing"} => run'[s].job \in run'[s].holds
  /\ Claimant(s)' => \A j \in Job : OngoingFor(j, s)' =>
                       j \in run'[s].holds /\ job'[j].lease >= run'[s].beat

\* A step in which nobody claims row j, and that takes it away from a run only
\* together with its hold, by a deletion, or by a late Reconcile.
RowGoesOn(j) ==
  /\ job'[j].assignee \in {None, job[j].assignee}
  /\ job[j].deleted => job'[j].deleted
  /\ \A s \in Session : OngoingFor(j, s) =>
       \/ OngoingFor(j, s)' \/ job'[j].deleted
       \/ j \in snatched' \/ j \notin run'[s].holds

LEMMA GoOn ==
  ASSUME HoldInv, snatched \subseteq snatched',
         \A s \in Session : RunGoesOn(s), \A j \in Job : RowGoesOn(j)
  PROVE  HoldInv'
<1>1. ASSUME NEW s \in Session
      PROVE  RowsOfRun(s)'
  <2>1. RunGoesOn(s) /\ RowsOfRun(s)
    BY DEF HoldInv, RowsOfRuns
  <2>2. run'[s].holds \subseteq {run'[s].job} \cap Job
    BY <2>1 DEF RunGoesOn, RowsOfRun
  <2>3. Early(s)' => \A j \in Job : job'[j].assignee # s
    <3>1. SUFFICES ASSUME Early(s)', NEW j \in Job
                   PROVE  job'[j].assignee # s
      OBVIOUS
    <3>2. job[j].assignee # s /\ None # s
      BY <2>1, <3>1, NoneAssumption DEF RunGoesOn, RowsOfRun, Early
    <3>. QED
      BY <3>2 DEF RowGoesOn
  <2>. QED
    BY <2>1, <2>2, <2>3 DEF RunGoesOn, RowsOfRun, Early
<1>2. ASSUME NEW s \in Session, NEW j \in Job \ snatched', j \in run'[s].holds
      PROVE  OngoingFor(j, s)' \/ job'[j].deleted
  <2>1. j \in run[s].holds /\ j \in Job \ snatched
    BY <1>2 DEF RunGoesOn
  <2>2. OngoingFor(j, s) \/ job[j].deleted
    BY <2>1 DEF HoldInv, HeldIsOwned
  <2>. QED
    BY <1>2, <2>2 DEF RowGoesOn
<1>3. ASSUME NEW s \in Session, NEW t \in Session, NEW j \in Job \ snatched',
             j \in run'[s].holds, j \in run'[t].holds
      PROVE  s = t
  <2>1. j \in run[s].holds /\ j \in run[t].holds /\ j \in Job \ snatched
    BY <1>3 DEF RunGoesOn
  <2>. QED
    BY <2>1 DEF HoldInv, OneHolder
<1>. QED
  BY <1>1, <1>2, <1>3 DEF HoldInv, RowsOfRuns, HeldIsOwned, OneHolder

\* A run that is as it was goes on, if no lease of its rows is shortened.
LEMMA SameRunGoesOn ==
  ASSUME HoldInv, NEW s \in Session, run'[s] = run[s],
         \A j \in Job : OngoingFor(j, s)' =>
            OngoingFor(j, s) /\ job'[j].lease = job[j].lease
  PROVE  RunGoesOn(s)
BY DEF HoldInv, RowsOfRuns, RowsOfRun, RunGoesOn, Early, Claimant, OngoingFor

LEMMA OverGoesOn ==
  ASSUME NEW s \in Session, run'[s] = [NoRun EXCEPT !.pc = "over"]
  PROVE  RunGoesOn(s)
BY DEF NoRun, RunGoesOn, Early, Claimant

LEMMA SameRowGoesOn ==
  ASSUME NEW j \in Job, job'[j] = job[j]
  PROVE  RowGoesOn(j)
BY DEF RowGoesOn, OngoingFor

\* The table stays, and one run at most moves.
LEMMA RowsStay ==
  ASSUME HoldInv, UNCHANGED <<job, snatched>>, NEW s \in Session,
         \A t \in Session \ {s} : run'[t] = run[t],
         \/ run'[s] = [NoRun EXCEPT !.pc = "over"]
         \/ /\ run'[s].holds = run[s].holds /\ run'[s].beat = run[s].beat
            /\ Claimant(s)' <=> Claimant(s)
            /\ Early(s)' => Early(s)
            /\ run'[s].job = run[s].job \/ ~Claimant(s)
            /\ run'[s].pc \in {"unseeded", "failing"} => run[s].job \in run[s].holds
  PROVE  HoldInv'
<1>1. \A j \in Job : RowGoesOn(j)
  BY SameRowGoesOn
<1>2. \A j \in Job, t \in Session : OngoingFor(j, t)' <=> OngoingFor(j, t)
  BY DEF OngoingFor
<1>3. ASSUME NEW t \in Session \ {s}
      PROVE  RunGoesOn(t)
  BY <1>2, <1>3, SameRunGoesOn
<1>4. RunGoesOn(s)
  <2>1. CASE run'[s] = [NoRun EXCEPT !.pc = "over"]
    BY <2>1, OverGoesOn
  <2>2. CASE run'[s] # [NoRun EXCEPT !.pc = "over"]
    <3>1. RowsOfRun(s)
      BY DEF HoldInv, RowsOfRuns
    <3>2. run'[s].pc \in {"unseeded", "failing"} => Claimant(s)'
      BY DEF Claimant
    <3>. QED
      BY <1>2, <2>2, <3>1, <3>2 DEF RunGoesOn, RowsOfRun
  <2>. QED
    BY <2>1, <2>2
<1>. QED
  BY <1>1, <1>3, <1>4, GoOn

LEMMA NobodyMoves ==
  ASSUME HoldInv, UNCHANGED <<job, run, snatched>>
  PROVE  HoldInv'
BY DEF HoldInv, RowsOfRuns, RowsOfRun, HeldIsOwned, OneHolder, OngoingFor, Claimant

\* A claim comes to its end: row k loses its holder, or is finished by it.
\* The run concerned, if there is one, gives up its hold in the same step.
LEMMA ClaimEnds ==
  ASSUME RunInv, HoldInv, snatched \subseteq snatched', NEW k \in Job, NEW q,
         job' = [job EXCEPT ![k] = q],
         q.status # "ongoing", q.assignee \in {None, job[k].assignee},
         job[k].deleted => q.deleted,
         \A s \in Session : \/ run'[s] = run[s]
                            \/ run'[s] = [NoRun EXCEPT !.pc = "over"]
                            \/ run[s].pc = "turn" /\ run[s].holds = {k}
                               /\ run'[s] = [run[s] EXCEPT !.holds = {}],
         q.deleted \/ k \in snatched' \/ \A s \in Session : k \notin run'[s].holds
                   \/ ~OngoingFor(k, s)
  PROVE  HoldInv'
<1>0. /\ job'[k] = q /\ \A j \in Job \ {k} : job'[j] = job[j]
  BY DEF RunInv, IInv, TypeOK
<1>1. \A s \in Session : ~OngoingFor(k, s)'
  BY <1>0 DEF OngoingFor
<1>2. \A j \in Job, s \in Session : OngoingFor(j, s)' =>
        j # k /\ OngoingFor(j, s) /\ job'[j].lease = job[j].lease
  BY <1>0, <1>1 DEF OngoingFor
<1>3. ASSUME NEW j \in Job
      PROVE  RowGoesOn(j)
  <2>1. CASE j = k
    BY <1>0, <2>1 DEF RowGoesOn
  <2>2. CASE j # k
    BY <1>0, <2>2, SameRowGoesOn
  <2>. QED
    BY <2>1, <2>2
<1>4. ASSUME NEW s \in Session
      PROVE  RunGoesOn(s)
  <2>1. CASE run'[s] = run[s]
    BY <1>2, <2>1, SameRunGoesOn
  <2>2. CASE run'[s] = [NoRun EXCEPT !.pc = "over"]
    BY <2>2, OverGoesOn
  <2>3. CASE run[s].pc = "turn" /\ run[s].holds = {k}
             /\ run'[s] = [run[s] EXCEPT !.holds = {}]
    <3>1. run[s] \in Run /\ RowsOfRun(s)
      BY DEF RunInv, HoldInv, RowsOfRuns
    <3>2. run'[s].pc = "turn" /\ run'[s].holds = {}
      BY <2>3, <3>1 DEF Run
    <3>3. \A j \in Job : ~OngoingFor(j, s)'
      BY <1>2, <2>3, <3>1 DEF RowsOfRun, Claimant
    <3>. QED
      BY <3>2, <3>3 DEF RunGoesOn, Early, Claimant
  <2>. QED
    BY <2>1, <2>2, <2>3
<1>. QED
  BY <1>3, <1>4, GoOn
\* A statement that ends a claim, on the row it may no longer match.
LEMMA EndOfRows ==
  ASSUME RunInv, NEW k \in Job, Listed(k, "ongoing")
  PROVE  /\ \A q \in {ReleasedRow(job[k]), CompletedRow(job[k])} :
              /\ q.status # "ongoing" /\ q.assignee \in {None, job[k].assignee}
              /\ ~job[k].deleted
         /\ \A st \in {"todo", "blocked"}, d \in Cooldown :
              LET q == FailedRow(job[k], st, d)
              IN  q.status # "ongoing" /\ q.assignee = None
BY DEF RunInv, IInv, TypeOK, Row, ReleasedRow, CompletedRow, FailedRow, Listed

LEMMA HeartbeatHolds ==
  ASSUME RunInv, HoldInv, NEW s \in Session, Claimant(s), HeartbeatSession(s),
         NEW pc \in RunState, pc \notin {"unseeded", "failing"} \/ pc = run[s].pc,
         run' = [run EXCEPT ![s].pc = pc, ![s].beat = HeartbeatInterval],
         Claimant(s)', UNCHANGED snatched
  PROVE  HoldInv'
<1>. USE DEF RunInv, IInv, TypeOK
<1>1. RowsOfRun(s) /\ run[s] \in Run
  BY DEF HoldInv, RowsOfRuns
<1>2. /\ run'[s].pc = pc /\ run'[s].holds = run[s].holds /\ run'[s].job = run[s].job
      /\ run'[s].beat = HeartbeatInterval
      /\ \A t \in Session \ {s} : run'[t] = run[t]
  BY <1>1 DEF Run
<1>3. \A j \in Job : OngoingFor(j, s) <=> j \in HeldBy(s)
  BY DEF OngoingFor, HeldBy, Listed, RowCoherent, ClaimIsWhole
<1>4. \A j \in Job : /\ job'[j].status = job[j].status
                     /\ job'[j].assignee = job[j].assignee
                     /\ job'[j].deleted = job[j].deleted
                     /\ job'[j].lease = IF OngoingFor(j, s) THEN LeaseDuration
                                        ELSE job[j].lease
  <2>1. CASE JobForSession(s) = None
    BY <1>3, <2>1, JobForSessionProperties DEF HeartbeatSession
  <2>2. CASE JobForSession(s) # None
    <3>. DEFINE k == JobForSession(s)
    <3>1. k \in Job /\ k \in HeldBy(s)
      BY <2>2, JobForSessionProperties
    <3>2. job' = [job EXCEPT ![k].lease = LeaseDuration]
      BY <2>2 DEF HeartbeatSession, Heartbeat
    <3>3. \A j \in Job : OngoingFor(j, s) => j = k
      BY <1>1, <1>3, <3>1 DEF RowsOfRun
    <3>. HIDE DEF k
    <3>. QED
      BY <1>3, <3>1, <3>2, <3>3 DEF Row
  <2>. QED
    BY <2>1, <2>2
<1>5. \A j \in Job, t \in Session : OngoingFor(j, t)' <=> OngoingFor(j, t)
  BY <1>4 DEF OngoingFor
<1>6. \A j \in Job : RowGoesOn(j)
  BY <1>4, <1>5 DEF RowGoesOn
<1>7. ASSUME NEW t \in Session \ {s}
      PROVE  RunGoesOn(t)
  <2>1. \A j \in Job : OngoingFor(j, t)' => OngoingFor(j, t) /\ job'[j].lease = job[j].lease
    BY <1>4, <1>5, <1>7 DEF OngoingFor
  <2>. QED
    BY <1>2, <1>7, <2>1, SameRunGoesOn
<1>8. RunGoesOn(s)
  <2>1. \A j \in Job : OngoingFor(j, s)' => job'[j].lease >= HeartbeatInterval
    BY <1>4, <1>5, RunConstants
  <2>2. \A j \in Job : OngoingFor(j, s)' => j \in run[s].holds
    BY <1>1, <1>5 DEF RowsOfRun
  <2>3. run[s].holds \subseteq {run[s].job}
    BY <1>1 DEF RowsOfRun
  <2>4. run[s].pc \in {"unseeded", "failing"} => run[s].job \in run[s].holds
    BY <1>1 DEF RowsOfRun
  <2>5. ~Early(s)'
    BY DEF Early, Claimant
  <2>. QED
    BY <1>2, <2>1, <2>2, <2>3, <2>4, <2>5 DEF RunGoesOn
<1>. QED
  BY <1>6, <1>7, <1>8, GoOn

LEMMA ClaimHolds ==
  ASSUME RunInv, HoldInv, NEW s \in Session, run[s].pc = "claiming",
         NEW k \in Job, k = run[s].job, Claimable(k),
         job' = [job EXCEPT ![k] = ClaimedRow(job[k], s)],
         run' = [run EXCEPT ![s].pc = "seed", ![s].holds = {k},
                            ![s].beat = HeartbeatInterval],
         UNCHANGED snatched
  PROVE  HoldInv'
<1>. USE DEF RunInv, IInv, TypeOK
<1>1. /\ run'[s].pc = "seed" /\ run'[s].holds = {k} /\ run'[s].job = k
      /\ run'[s].beat = HeartbeatInterval
      /\ \A t \in Session \ {s} : run'[t] = run[t]
  BY DEF Run
<1>2. /\ job'[k].status = "ongoing" /\ job'[k].assignee = s
      /\ job'[k].lease = LeaseDuration /\ ~job'[k].deleted
      /\ \A j \in Job \ {k} : job'[j] = job[j]
  BY DEF Row, ClaimedRow, Claimable, Listed
<1>3. \A t \in Session : ~OngoingFor(k, t) /\ ~job[k].deleted
  BY DEF OngoingFor, Claimable, Listed
<1>4. \A t \in Session : k \notin run[t].holds \/ k \in snatched
  BY <1>3 DEF HoldInv, HeldIsOwned
<1>5. \A j \in Job : OngoingFor(j, s)' <=> j = k
  <2>1. \A j \in Job : job[j].assignee # s
    BY DEF HoldInv, RowsOfRuns, RowsOfRun
  <2>. QED
    BY <1>2, <2>1 DEF OngoingFor
<1>6. RowsOfRun(s)'
  BY <1>1, <1>2, <1>5, RunConstants DEF RowsOfRun, Claimant
<1>7. ASSUME NEW t \in Session \ {s}
      PROVE  RowsOfRun(t)'
  <2>1. \A j \in Job : OngoingFor(j, t)' => OngoingFor(j, t) /\ job'[j] = job[j]
    BY <1>2 DEF OngoingFor
  <2>2. \A j \in Job : job'[j].assignee = t => job[j].assignee = t
    BY <1>2
  <2>3. RowsOfRun(t)
    BY DEF HoldInv, RowsOfRuns
  <2>. QED
    BY <1>1, <2>1, <2>2, <2>3 DEF RowsOfRun, Claimant
<1>8. HeldIsOwned'
  <2>1. ASSUME NEW t \in Session, NEW j \in Job \ snatched', j \in run'[t].holds
        PROVE  OngoingFor(j, t)' \/ job'[j].deleted
    <3>1. CASE t = s
      BY <1>1, <1>5, <2>1, <3>1
    <3>2. CASE t # s
      <4>1. j \in run[t].holds /\ j # k
        BY <1>1, <1>4, <2>1, <3>2
      <4>. QED
        BY <1>2, <2>1, <4>1 DEF HoldInv, HeldIsOwned, OngoingFor
    <3>. QED
      BY <3>1, <3>2
  <2>. QED
    BY <2>1 DEF HeldIsOwned
<1>9. OneHolder'
  <2>1. ASSUME NEW t \in Session, NEW u \in Session, NEW j \in Job \ snatched',
               j \in run'[t].holds, j \in run'[u].holds
        PROVE  t = u
    <3>1. CASE j = k
      BY <1>1, <1>4, <2>1, <3>1
    <3>2. CASE j # k
      BY <1>1, <2>1, <3>2 DEF HoldInv, OneHolder
    <3>. QED
      BY <3>1, <3>2
  <2>. QED
    BY <2>1 DEF OneHolder
<1>. QED
  BY <1>6, <1>7, <1>8, <1>9 DEF HoldInv, RowsOfRuns

LEMMA TimeHolds ==
  ASSUME RunInv, HoldInv, TimePasses
  PROVE  HoldInv'
<1>. USE DEF RunInv, IInv, TypeOK
<1>1. \A j \in Job : /\ job'[j].status = job[j].status
                     /\ job'[j].assignee = job[j].assignee
                     /\ job'[j].deleted = job[j].deleted
                     /\ job'[j].lease = LeaseAfterTick(job[j].lease)
  BY ZenonT(60) DEF TimePasses, Tick, Row
<1>2. \A j \in Job, t \in Session : OngoingFor(j, t)' <=> OngoingFor(j, t)
  BY <1>1 DEF OngoingFor
<1>3. \A j \in Job : RowGoesOn(j)
  BY <1>1, <1>2 DEF RowGoesOn
<1>4. ASSUME NEW s \in Session
      PROVE  RunGoesOn(s)
  <2>1. RowsOfRun(s) /\ run[s] \in Run
    BY DEF HoldInv, RowsOfRuns
  <2>2. /\ run'[s].pc = run[s].pc /\ run'[s].holds = run[s].holds
        /\ run'[s].job = run[s].job
    BY <2>1 DEF TimePasses, Run
  <2>3. Claimant(s) => run'[s].beat = run[s].beat - 1 /\ run[s].beat > 0
    BY <2>1 DEF TimePasses, Run, LeaseIsKept
  <2>4. ASSUME Claimant(s), NEW j \in Job, OngoingFor(j, s)
        PROVE  job'[j].lease >= run'[s].beat
    <3>1. /\ job[j].lease \in Lease /\ job[j].lease # None
          /\ job[j].lease >= run[s].beat
      BY <2>1, <2>4 DEF Row, RowCoherent, ClaimIsWhole, OngoingFor, RowsOfRun
    <3>2. job[j].lease \in Int /\ run[s].beat \in Int
      BY <2>1, <3>1, RunConstants DEF Lease, Run
    <3>. QED
      BY <1>1, <2>3, <2>4, <3>1, <3>2 DEF LeaseAfterTick
  <2>. QED
    BY <1>2, <2>1, <2>2, <2>4 DEF RunGoesOn, RowsOfRun, Claimant, Early
<1>5. snatched \subseteq snatched'
  BY DEF TimePasses
<1>. QED
  BY <1>3, <1>4, <1>5, GoOn
\* The last statement of a call of run s on the job that it holds.
LEMMA OwnRowEnds ==
  ASSUME RunInv, HoldInv, NEW s \in Session, NEW k \in run[s].holds,
         NEW q, Update(k, Listed(k, "ongoing"), q),
         q \in {ReleasedRow(job[k]), CompletedRow(job[k])}
         \/ \E st \in {"todo", "blocked"}, d \in Cooldown : q = FailedRow(job[k], st, d),
         \A t \in Session \ {s} : run'[t] = run[t],
         \/ run'[s] = [NoRun EXCEPT !.pc = "over"]
         \/ run[s].pc = "turn" /\ run'[s] = [run[s] EXCEPT !.holds =
               IF Listed(k, "ongoing") THEN @ \ {k} ELSE @],
         UNCHANGED snatched
  PROVE  HoldInv'
<1>. USE DEF RunInv
<1>1. k \in Job /\ run[s].holds = {k} /\ run[s] \in Run
  BY DEF HoldInv, RowsOfRuns, RowsOfRun
<1>2. CASE ~Listed(k, "ongoing")
  <2>1. job' = job
    BY <1>2 DEF Update
  <2>2. \/ run'[s] = [NoRun EXCEPT !.pc = "over"]
        \/ /\ run[s].pc = "turn" /\ run'[s].pc = "turn"
           /\ run'[s].holds = run[s].holds /\ run'[s].job = run[s].job
           /\ run'[s].beat = run[s].beat
    BY <1>1, <1>2 DEF Run
  <2>. QED
    BY <2>1, <2>2, RowsStay DEF Early, Claimant
<1>3. CASE Listed(k, "ongoing")
  <2>1. job' = [job EXCEPT ![k] = q]
    BY <1>3 DEF Update
  <2>2. /\ q.status # "ongoing" /\ q.assignee \in {None, job[k].assignee}
        /\ ~job[k].deleted
    BY <1>1, <1>3, EndOfRows
  <2>3. \/ run'[s] = [NoRun EXCEPT !.pc = "over"]
        \/ run[s].pc = "turn" /\ run[s].holds = {k}
           /\ run'[s] = [run[s] EXCEPT !.holds = {}]
    BY <1>1, <1>3
  <2>4. k \notin run'[s].holds
    BY <1>1, <2>3 DEF NoRun, Run
  <2>5. ASSUME k \notin snatched', NEW t \in Session
        PROVE  k \notin run'[t].holds
    BY <1>1, <2>4, <2>5 DEF HoldInv, OneHolder
  <2>6. k \in snatched' \/ \A t \in Session : k \notin run'[t].holds
    BY <2>5
  <2>7. \A t \in Session : \/ run'[t] = run[t]
                           \/ run'[t] = [NoRun EXCEPT !.pc = "over"]
                           \/ run[t].pc = "turn" /\ run[t].holds = {k}
                              /\ run'[t] = [run[t] EXCEPT !.holds = {}]
    BY <2>3
  <2>. QED
    BY <1>1, <2>1, <2>2, <2>6, <2>7, ClaimEnds
<1>. QED
  BY <1>2, <1>3

LEMMA RunStepHolds ==
  ASSUME RunInv, TurnCalls, HoldInv, NEW s \in Session, RunStep(s)
  PROVE  HoldInv'
<1>. USE DEF RunInv
<1>0. /\ RunPhase(s) /\ run[s] \in Run /\ RowsOfRun(s) /\ s \in Call
      /\ \A j \in Job : OngoingFor(j, s) /\ Claimant(s) => j \in run[s].holds
  BY SessionCalls DEF RunPhases, HoldInv, RowsOfRuns, RowsOfRun
<1>1. ASSUME EndRun(s), UNCHANGED <<job, snatched>>
      PROVE  HoldInv'
  <2>1. run'[s] = [NoRun EXCEPT !.pc = "over"] /\ \A t \in Session \ {s} : run'[t] = run[t]
    BY <1>1 DEF EndRun
  <2>. QED
    BY <1>1, <2>1, RowsStay
<1>2. ASSUME NEW pc \in RunState, Becomes(s, pc), UNCHANGED <<job, snatched>>,
             \/ run[s].pc = "start" /\ pc = "claiming"
             \/ run[s].pc = "seed" /\ pc = "turn"
             \/ Claimant(s) /\ pc \in {"failing", "unseeded"} /\ run[s].job \in run[s].holds
      PROVE  HoldInv'
  <2>1. /\ run'[s].pc = pc /\ run'[s].holds = run[s].holds
        /\ run'[s].beat = run[s].beat /\ run'[s].job = run[s].job
        /\ \A t \in Session \ {s} : run'[t] = run[t]
    BY <1>0, <1>2 DEF Becomes, Run
  <2>2. (Claimant(s)' <=> Claimant(s)) /\ (Early(s)' => Early(s))
    BY <1>2, <2>1 DEF Claimant, Early
  <2>3. run'[s].pc \in {"unseeded", "failing"} => run[s].job \in run[s].holds
    BY <1>2, <2>1
  <2>. HIDE <1>0
  <2>. QED
    BY <1>2, <2>1, <2>2, <2>3, RowsStay
<1>3. CASE FailToStart(s) \/ Abandon(s)
  BY <1>1, <1>3 DEF FailToStart, Abandon
<1>4. CASE RunClaims(s)
  BY <1>2, <1>4 DEF RunClaims, RunState, StartClaim
<1>5. CASE ClaimReturns(s)
  <2>0. run[s].pc = "claiming" /\ UNCHANGED snatched
    BY <1>5 DEF ClaimReturns
  <2>1. /\ run[s].job \in Job /\ proc[s].target = run[s].job /\ proc[s].session = s
    BY <1>0, <2>0 DEF RunPhase, Alive
  <2>2. CASE Claimable(run[s].job)
    <3>1. job' = [job EXCEPT ![run[s].job] = ClaimedRow(job[run[s].job], s)]
      BY <1>5, <2>1, <2>2 DEF ClaimReturns, ClaimJob, Update
    <3>2. run' = [run EXCEPT ![s].pc = "seed", ![s].holds = {run[s].job},
                             ![s].beat = HeartbeatInterval]
      BY <1>5, <2>2 DEF ClaimReturns
    <3>. QED
      BY <2>0, <2>1, <2>2, <3>1, <3>2, ClaimHolds
  <2>3. CASE ~Claimable(run[s].job)
    <3>1. job' = job /\ EndRun(s)
      BY <1>5, <2>1, <2>3 DEF ClaimReturns, ClaimJob, Update
    <3>. QED
      BY <1>1, <2>0, <3>1
  <2>. QED
    BY <2>2, <2>3
<1>6. CASE StartTurn(s)
  <2>1. CASE run[s].cancelled
    <3>1. run' = [run EXCEPT ![s].pc = "turn", ![s].beat = @] /\ UNCHANGED <<job, snatched>>
      BY <1>6, <2>1 DEF StartTurn
    <3>2. [run[s] EXCEPT !.pc = "turn", !.beat = @] = [run[s] EXCEPT !.pc = "turn"]
      BY <1>0 DEF Run
    <3>3. Becomes(s, "turn")
      BY <3>1, <3>2 DEF Becomes
    <3>. QED
      BY <1>2, <1>6, <3>1, <3>3 DEF StartTurn, RunState
  <2>2. CASE ~run[s].cancelled
    <3>1. /\ run' = [run EXCEPT ![s].pc = "turn", ![s].beat = HeartbeatInterval]
          /\ HeartbeatSession(s) /\ UNCHANGED snatched /\ Claimant(s)
      BY <1>6, <2>2 DEF StartTurn, Claimant
    <3>2. run'[s].pc = "turn"
      BY <1>0, <3>1 DEF Run
    <3>3. Claimant(s)' /\ "turn" \in RunState
      BY <3>2 DEF Claimant, RunState
    <3>. HIDE <1>0
    <3>. QED
      BY <3>1, <3>3, HeartbeatHolds
  <2>. QED
    BY <2>1, <2>2
<1>7. CASE ToolReturns(s)
  <2>. DEFINE k == proc[s].target
  <2>1. run[s].pc = "turn" /\ proc[s].pc \in {"complete", "release"} /\ k \in run[s].holds
    BY <1>7 DEF ToolReturns, TurnCalls, CompleteJob, ReleaseJob, ClaimJob
  <2>2. /\ run' = [run EXCEPT ![s].holds = IF Listed(k, "ongoing") THEN @ \ {k} ELSE @]
        /\ UNCHANGED snatched
        /\ CompleteJob(s) \/ ReleaseJob(s)
    BY <1>7, <2>1 DEF ToolReturns, ClaimJob
  <2>3. PICK q \in {ReleasedRow(job[k]), CompletedRow(job[k])} :
          Update(k, Listed(k, "ongoing"), q)
    BY <2>2 DEF CompleteJob, ReleaseJob
  <2>4. /\ run'[s] = [run[s] EXCEPT !.holds = IF Listed(k, "ongoing") THEN @ \ {k} ELSE @]
        /\ \A t \in Session \ {s} : run'[t] = run[t]
    BY <2>2
  <2>. HIDE DEF k
  <2>. QED
    BY <2>1, <2>2, <2>3, <2>4, OwnRowEnds
<1>8. CASE Finalize(s) \/ FailToSeed(s)
  <2>1. /\ Claimant(s) /\ run[s].job \in Job /\ UNCHANGED snatched
    BY <1>0, <1>8 DEF Finalize, FailToSeed, Claimant, RunPhase, Alive
  <2>2. CASE EndRun(s) /\ UNCHANGED job
    BY <1>1, <2>1, <2>2
  <2>3. CASE ~(EndRun(s) /\ UNCHANGED job)
    <3>1. JobForSession(s) = run[s].job \/ AssignedTo(run[s].job, s)
      BY <1>8, <2>3 DEF Finalize, FailToSeed
    <3>2. OngoingFor(run[s].job, s)
      BY <2>1, <3>1, JobForSessionProperties, RunConstants
         DEF OngoingFor, AssignedTo, HeldBy, Listed
    <3>3. run[s].job \in run[s].holds
      BY <1>0, <2>1, <3>2
    <3>4. PICK pc \in {"failing", "unseeded"} : Becomes(s, pc) /\ UNCHANGED job
      BY <1>8, <2>3 DEF Finalize, FailToSeed, StartFail
    <3>5. pc \in RunState
      BY DEF RunState
    <3>. QED
      BY <1>2, <2>1, <3>3, <3>4, <3>5
  <2>. QED
    BY <2>2, <2>3
<1>9. CASE RunFails(s)
  <2>. DEFINE k == run[s].job
  <2>1. k \in run[s].holds /\ proc[s].target = k /\ UNCHANGED snatched
    BY <1>0, <1>9 DEF RunFails, RunPhase, RowsOfRun
  <2>2. /\ run'[s] = [NoRun EXCEPT !.pc = "over"]
        /\ \A t \in Session \ {s} : run'[t] = run[t]
    BY <1>9 DEF RunFails, EndRun
  <2>3. proc[s].status \in {"todo", "blocked"} /\ proc[s].retry \in Cooldown
    BY <1>0 DEF IInv, TypeOK, Proc
  <2>4. Update(k, Listed(k, "ongoing"), FailedRow(job[k], proc[s].status, proc[s].retry))
    BY <1>9, <2>1 DEF RunFails, RecordJobFailure
  <2>. HIDE DEF k
  <2>. HIDE <1>0
  <2>. QED
    BY <2>1, <2>2, <2>3, <2>4, OwnRowEnds
<1>10. CASE ToolCancelled(s)
  BY <1>10, NobodyMoves DEF ToolCancelled, Crash
<1>. QED
  BY <1>3, <1>4, <1>5, <1>6, <1>7, <1>8, <1>9, <1>10 DEF RunStep

LEMMA RunActsHold ==
  ASSUME RunInv, HoldInv, NEW s \in Session,
         Beat(s) \/ ToolCall(s) \/ EndTurn(s) \/ Cancel(s)
  PROVE  HoldInv'
<1>. USE DEF RunInv
<1>1. CASE Beat(s)
  <2>1. run[s] \in Run
    OBVIOUS
  <2>2. [run[s] EXCEPT !.pc = run[s].pc, !.beat = HeartbeatInterval]
          = [run[s] EXCEPT !.beat = HeartbeatInterval]
    BY <2>1 DEF Run
  <2>3. run' = [run EXCEPT ![s].pc = run[s].pc, ![s].beat = HeartbeatInterval]
    BY <1>1, <2>2 DEF Beat
  <2>4. run'[s].pc = run[s].pc
    BY <2>1, <2>3 DEF Run
  <2>5. /\ Claimant(s) /\ Claimant(s)' /\ HeartbeatSession(s) /\ UNCHANGED snatched
        /\ run[s].pc \in RunState
    BY <1>1, <2>1, <2>4 DEF Beat, Claimant, Run
  <2>. QED
    BY <2>3, <2>5, HeartbeatHolds
<1>2. CASE ToolCall(s)
  BY <1>2, NobodyMoves DEF ToolCall, StartComplete, StartRelease, StartClaim
<1>3. CASE EndTurn(s) \/ Cancel(s)
  <2>1. run[s] \in Run /\ RowsOfRun(s) /\ Alive(s)
    BY <1>3 DEF HoldInv, RowsOfRuns, EndTurn, Cancel, Alive
  <2>2. /\ run'[s].holds = run[s].holds /\ run'[s].beat = run[s].beat
        /\ run'[s].job = run[s].job
        /\ \A t \in Session \ {s} : run'[t] = run[t]
        /\ \/ run'[s].pc = run[s].pc
           \/ run[s].pc = "turn" /\ run'[s].pc = "final"
        /\ UNCHANGED <<job, snatched>>
    BY <1>3, <2>1 DEF EndTurn, Cancel, Becomes, Run
  <2>3. (Claimant(s)' <=> Claimant(s)) /\ (Early(s)' => Early(s))
    BY <2>2 DEF Claimant, Early
  <2>4. run'[s].pc \in {"unseeded", "failing"} => run[s].job \in run[s].holds
    BY <2>1, <2>2 DEF RowsOfRun
  <2>. QED
    BY <2>2, <2>3, <2>4, RowsStay
<1>. QED
  BY <1>1, <1>2, <1>3
LEMMA CallStepHolds ==
  ASSUME RunInv, HoldInv, NEW c \in Call, CallStep(c)
  PROVE  HoldInv'
<1>. USE DEF RunInv
<1>1. CASE ~ReleaseExpired(c)
  BY <1>1, NobodyMoves, Zenon DEF CallStep, ListExpired, ReadExpired, EndReconcile,
       CheckProgress, WriteProgress
<1>2. CASE ReleaseExpired(c)
  <2>. DEFINE k == proc[c].victim
  <2>1. k \in Job
    BY <1>2 DEF ReleaseExpired, IInv, CallsWellFormed, CallWellFormed
  <2>2. /\ Update(k, Listed(k, "ongoing"), ReleasedRow(job[k])) /\ run' = run
        /\ snatched' = IF Listed(k, "ongoing") /\ ~Expired(k)
                       THEN snatched \cup {k} ELSE snatched
    BY <1>2 DEF CallStep, ReleaseExpired, ListExpired, ReadExpired, EndReconcile,
                CheckProgress, WriteProgress
  <2>. HIDE DEF k
  <2>3. CASE ~Listed(k, "ongoing")
    BY <2>2, <2>3, NobodyMoves DEF Update
  <2>4. CASE Listed(k, "ongoing")
    <3>1. job' = [job EXCEPT ![k] = ReleasedRow(job[k])]
      BY <2>2, <2>4 DEF Update
    <3>2. ASSUME Expired(k), NEW s \in Session, OngoingFor(k, s)
          PROVE  k \notin run[s].holds
      <4>1. RowsOfRun(s) /\ run[s].beat \in 0 .. HeartbeatInterval
        BY DEF HoldInv, RowsOfRuns, Run
      <4>2. job[k].lease < 0 /\ job[k].lease \in Int
        BY <2>1, <3>2 DEF Expired, IInv, TypeOK, Row, Lease
      <4>3. ~(job[k].lease >= run[s].beat)
        BY <4>1, <4>2, RunConstants
      <4>. QED
        BY <2>1, <3>2, <4>1, <4>3 DEF RowsOfRun
    <3>3. \/ k \in snatched'
          \/ \A s \in Session : k \notin run'[s].holds \/ ~OngoingFor(k, s)
      BY <2>2, <2>4, <3>2
    <3>. QED
      BY <2>1, <2>2, <2>4, <3>1, <3>3, EndOfRows, ClaimEnds
  <2>. QED
    BY <2>3, <2>4
<1>. QED
  BY <1>1, <1>2, SMTT(40)

LEMMA UserHolds ==
  ASSUME RunInv, HoldInv, NEW k \in Job, UserActs(k)
  PROVE  HoldInv'
<1>. USE DEF RunInv
<1>1. job[k] \in Row /\ RowOK(job[k])
  BY DEF IInv, TypeOK, RowCoherent, RowOK
<1>2. PICK q : /\ job' = [job EXCEPT ![k] = q]
               /\ q.status # "ongoing" /\ q.assignee \in {None, job[k].assignee}
               /\ job[k].deleted => q.deleted
               /\ q.deleted \/ job[k].status # "ongoing"
  <2>. DEFINE Over(q) == /\ q.status # "ongoing" /\ q.assignee \in {None, job[k].assignee}
                         /\ job[k].deleted => q.deleted
                         /\ q.deleted \/ job[k].status # "ongoing"
  <2>1. CASE Create(k)
    <3>1. Over(EmptyRow("todo"))
      BY <1>1, <2>1 DEF Create, EmptyRow, RowOK, FinishedKeepsItsWorker
    <3>. QED
      BY <2>1, <3>1 DEF Create
  <2>2. CASE Unblock(k)
    <3>1. Over(ResetRow(job[k]))
      BY <1>1, <2>2 DEF Unblock, ResetRow, Listed, Row
    <3>. QED
      BY <2>2, <3>1 DEF Unblock
  <2>3. CASE Archive(k)
    <3>. DEFINE q == [job[k] EXCEPT !.archived = TRUE, !.lease = None]
    <3>1. job' = [job EXCEPT ![k] = q]
      BY <2>3 DEF Archive
    <3>2. Over(q)
      BY <1>1, <2>3 DEF Archive, Listed, Row
    <3>. QED
      BY <3>1, <3>2
  <2>4. CASE Unarchive(k)
    <3>. DEFINE q == [job[k] EXCEPT !.archived = FALSE]
    <3>1. job' = [job EXCEPT ![k] = q]
      BY <2>4 DEF Unarchive
    <3>2. Over(q)
      BY <1>1, <2>4 DEF Unarchive, Row, RowOK, FinishedKeepsItsWorker
    <3>. QED
      BY <3>1, <3>2
  <2>5. CASE SoftDelete(k)
    <3>1. DeletedRow(job[k]).status # "ongoing" /\ DeletedRow(job[k]).assignee = None
          /\ DeletedRow(job[k]).deleted
      BY <1>1 DEF DeletedRow, Row
    <3>. QED
      BY <2>5, <3>1 DEF SoftDelete
  <2>. QED
    BY <2>1, <2>2, <2>3, <2>4, <2>5 DEF UserActs
<1>3. UNCHANGED <<run, snatched>>
  BY DEF UserActs
<1>. QED
  BY <1>2, <1>3, ClaimEnds DEF OngoingFor

LEMMA OthersHold ==
  ASSUME RunInv, HoldInv,
         \/ StartPoll \/ ListReady \/ EndPoll \/ ProcessCrash
         \/ \E n \in Limits : UpdateConfig(n)
         \/ \E c \in Maintainer : Maintain(c)
         \/ \E s \in Session, j \in Job : Dispatch(s, j)
  PROVE  HoldInv'
<1>. USE DEF RunInv
<1>1. CASE \/ StartPoll \/ ListReady \/ EndPoll \/ \E n \in Limits : UpdateConfig(n)
           \/ \E c \in Maintainer : Maintain(c)
  BY <1>1, NobodyMoves DEF StartPoll, StartReconcile, ListReady, EndPoll,
       UpdateConfig, Maintain
<1>2. CASE ProcessCrash
  <2>1. \A j \in Job : RowGoesOn(j)
    BY <1>2, SameRowGoesOn DEF ProcessCrash
  <2>2. \A j \in Job, s \in Session : OngoingFor(j, s)' =>
           OngoingFor(j, s) /\ job'[j].lease = job[j].lease
    BY <1>2 DEF ProcessCrash, OngoingFor
  <2>3. \A s \in Session : run'[s] = run[s] \/ run'[s] = [NoRun EXCEPT !.pc = "over"]
    BY <1>2 DEF ProcessCrash
  <2>4. \A s \in Session : RunGoesOn(s)
    BY <2>2, <2>3, SameRunGoesOn, OverGoesOn
  <2>5. snatched \subseteq snatched'
    BY <1>2 DEF ProcessCrash
  <2>. QED
    BY <2>1, <2>4, <2>5, GoOn
<1>3. ASSUME NEW s \in Session, NEW j \in Job, Dispatch(s, j)
      PROVE  HoldInv'
  <2>1. run[s] \in Run /\ run[s].pc = "free" /\ ~Claimant(s)
    BY <1>3 DEF Dispatch, Claimant
  <2>2. /\ run'[s].holds = run[s].holds /\ run'[s].beat = run[s].beat
        /\ run'[s].pc = "start"
        /\ \A t \in Session \ {s} : run'[t] = run[t]
        /\ UNCHANGED <<job, snatched>>
    BY <1>3, <2>1 DEF Dispatch, Run
  <2>3. (Claimant(s)' <=> Claimant(s)) /\ (Early(s)' => Early(s))
    BY <2>1, <2>2 DEF Claimant, Early
  <2>. QED
    BY <2>1, <2>2, <2>3, RowsStay
<1>. QED
  BY <1>1, <1>2, <1>3

\* An agent that claims nothing calls only about what its run holds.
LEMMA TurnCallsKept ==
  ASSUME RunInv, TurnCalls, ~AgentClaims, WNext
  PROVE  TurnCalls'
<1>. USE DEF RunInv
<1>0. /\ proc \in [Call -> Proc] /\ run \in [Session -> Run]
      /\ \A s \in Session : s \in Call /\ s \notin Maintainer
  BY SessionCalls DEF IInv, TypeOK
<1>1. ASSUME \A s \in Session : run'[s].pc = "turn" =>
               \/ proc'[s].pc = "idle"
               \/ /\ run[s].pc = "turn" /\ run'[s].holds = run[s].holds
                  /\ proc'[s].pc = proc[s].pc /\ proc'[s].target = proc[s].target
      PROVE  TurnCalls'
  BY <1>1 DEF TurnCalls
<1>2. ASSUME NEW s \in Session, RunStep(s)
      PROVE  TurnCalls'
  <2>1. ASSUME NEW t \in Session \ {s}
        PROVE  run'[t] = run[t] /\ proc'[t] = proc[t]
    <3>1. s \in Call /\ t \in Call
      BY <1>0
    <3>. QED
      BY <1>0, <1>2, <2>1, <3>1 DEF RunStep, FailToStart, RunClaims, ClaimReturns,
         StartTurn, ToolReturns, Finalize, FailToSeed, RunFails, Abandon, ToolCancelled,
         EndRun, Becomes, StartClaim, Enter, ClaimJob, Return, HeartbeatSession, Heartbeat,
         CompleteJob, ReleaseJob, StartFail, RecordJobFailure, Crash
  <2>2. run'[s].pc = "turn" => proc'[s].pc = "idle"
    <3>0. run[s] \in Run /\ s \in Call /\ RunPhase(s)
      BY <1>0 DEF RunPhases
    <3>1. CASE \/ FailToStart(s) \/ RunClaims(s) \/ ClaimReturns(s) \/ Finalize(s)
               \/ FailToSeed(s) \/ RunFails(s) \/ Abandon(s)
      <4>1. run'[s].pc # "turn"
        BY <3>0, <3>1 DEF FailToStart, RunClaims, ClaimReturns, Finalize, FailToSeed,
           RunFails, Abandon, EndRun, Becomes, NoRun, Run
      <4>. QED
        BY <4>1
    <3>2. CASE StartTurn(s)
      <4>1. proc' = proc /\ proc[s].pc = "idle"
        BY <3>0, <3>2 DEF StartTurn, HeartbeatSession, Heartbeat, RunPhase
      <4>. QED
        BY <4>1
    <3>3. CASE ToolReturns(s) \/ ToolCancelled(s)
      BY <1>0, <3>0, <3>3, IdleIsProc DEF ToolReturns, ToolCancelled, CompleteJob,
         ReleaseJob, ClaimJob, Crash, Return
    <3>. QED
      BY <1>2, <3>1, <3>2, <3>3 DEF RunStep
  <2>. QED
    BY <1>1, <2>1, <2>2
<1>3. ASSUME NEW s \in Session, ToolCall(s)
      PROVE  TurnCalls'
  <2>0. s \in Call /\ run' = run
    BY <1>0, <1>3, SMTT(40) DEF ToolCall
  <2>1. \A t \in Session \ {s} : proc'[t] = proc[t]
    BY <1>0, <1>3, <2>0, ZenonT(60) DEF ToolCall, StartComplete, StartRelease, StartClaim, Enter
  <2>2. proc'[s].pc \in {"release", "progress", "complete"}
        /\ proc'[s].target \in run[s].holds
    BY <1>0, <1>3, <2>0, ZenonT(60) DEF ToolCall, StartComplete, StartRelease, Enter, Idle
  <2>. QED
    BY <2>0, <2>1, <2>2 DEF TurnCalls
<1>4. ASSUME NEW s \in Session, Beat(s) \/ EndTurn(s) \/ Cancel(s)
      PROVE  TurnCalls'
  <2>1. proc' = proc
    BY <1>4 DEF Beat, EndTurn, Cancel, HeartbeatSession, Heartbeat
  <2>2. \A t \in Session : run'[t].pc = "turn" =>
          run[t].pc = "turn" /\ run'[t].holds = run[t].holds
    BY <1>0, <1>4 DEF Beat, EndTurn, Cancel, Becomes, Run
  <2>. QED
    BY <1>1, <2>1, <2>2
<1>5. ASSUME NEW c \in Maintainer, StartReconcile(c), UNCHANGED run
      PROVE  TurnCalls'
  <2>1. \A s \in Session : proc'[s] = proc[s]
    BY <1>0, <1>5, SessionCalls DEF StartReconcile, Enter
  <2>. QED
    BY <1>1, <1>5, <2>1
<1>6. CASE StartPoll \/ \E c \in Maintainer : Maintain(c)
  BY <1>5, <1>6, SessionCalls DEF StartPoll, Maintain
<1>7. CASE \/ ListReady \/ EndPoll \/ \E n \in Limits : UpdateConfig(n)
           \/ \E j \in Job : UserActs(j)
  BY <1>1, <1>7 DEF ListReady, EndPoll, UpdateConfig, UserActs, Create, Unblock,
     Archive, Unarchive, SoftDelete
<1>8. ASSUME NEW s \in Session, NEW j \in Job, Dispatch(s, j)
      PROVE  TurnCalls'
  <2>1. /\ proc' = proc /\ run'[s].pc = "start"
        /\ \A t \in Session \ {s} : run'[t] = run[t]
    BY <1>0, <1>8 DEF Dispatch, Run
  <2>. QED
    BY <1>1, <2>1
<1>9. CASE TimePasses
  <2>1. \A s \in Session : proc'[s].pc = proc[s].pc /\ proc'[s].target = proc[s].target
    BY <1>0, <1>9 DEF TimePasses, Tick, Proc
  <2>2. \A s \in Session : run'[s].pc = run[s].pc /\ run'[s].holds = run[s].holds
    BY <1>0, <1>9 DEF TimePasses, Run
  <2>. QED
    BY <1>1, <2>1, <2>2
<1>10. CASE ProcessCrash
  <2>1. \A s \in Session : proc'[s].pc = "idle"
    BY <1>0, <1>10, IdleIsProc DEF ProcessCrash
  <2>. QED
    BY <1>1, <2>1
<1>11. ASSUME NEW c \in Call, CallStep(c)
       PROVE  TurnCalls'
  <2>1. run' = run
    BY <1>11 DEF CallStep
  <2>2. /\ \A d \in Call \ {c} : proc'[d] = proc[d]
        /\ proc[c].pc \in {"list", "pass", "expire", "progress", "write"}
        /\ proc[c].pc \in {"progress", "write"} =>
              \/ proc'[c].pc = "idle"
              \/ /\ proc'[c].pc \in {"write", "complete"}
                 /\ proc'[c].target = proc[c].target
    BY <1>11, CallStepMoves
  <2>3. ASSUME NEW s \in Session, run'[s].pc = "turn"
        PROVE  /\ proc'[s].pc \in {"idle", "release", "progress", "write", "complete"}
               /\ proc'[s].pc # "idle" => proc'[s].target \in run'[s].holds
    BY <1>0, <2>1, <2>2, <2>3 DEF TurnCalls
  <2>. QED
    BY <2>3 DEF TurnCalls
<1>. QED
  BY <1>2, <1>3, <1>4, <1>6, <1>7, <1>8, <1>9, <1>10, <1>11 DEF WNext

LEMMA WorkerInvInit == WInit => WorkerInv
<1>. SUFFICES ASSUME WInit
              PROVE  WorkerInv
  OBVIOUS
<1>1. RunInv
  BY RunInvInit
<1>2. \A s \in Session : run[s].pc = "free" /\ run[s].holds = {}
  BY DEF WInit, NoRun
<1>3. \A j \in Job : job[j].assignee = None
  BY DEF WInit, Init, EmptyRow
<1>4. None \notin Session
  BY NoneAssumption
<1>. QED
  BY <1>1, <1>2, <1>3, <1>4 DEF WorkerInv, TurnCalls, HoldInv, RowsOfRuns, RowsOfRun,
     Claimant, HeldIsOwned, OneHolder

LEMMA WorkerInvNext ==
  ASSUME ~AgentClaims, WorkerInv, [WNext]_wvars
  PROVE  WorkerInv'
<1>1. RunInv'
  BY RunInvNext DEF WorkerInv
<1>2. CASE WNext
  <2>1. TurnCalls'
    BY <1>2, TurnCallsKept DEF WorkerInv
  <2>2. HoldInv'
    BY <1>2, RunStepHolds, RunActsHold, CallStepHolds, UserHolds, OthersHold, TimeHolds
       DEF WorkerInv, WNext
  <2>. QED
    BY <1>1, <2>1, <2>2 DEF WorkerInv
<1>3. CASE UNCHANGED wvars
  BY <1>1, <1>3, NobodyMoves DEF wvars, WorkerInv, TurnCalls
<1>. QED
  BY <1>2, <1>3

LEMMA WorkerInvariance == ~AgentClaims => (WSpec => []WorkerInv)
<1>1. CASE AgentClaims
  BY <1>1
<1>2. CASE ~AgentClaims
  <2>1. WorkerInv /\ [WNext]_wvars => WorkerInv'
    BY <1>2, WorkerInvNext
  <2>. QED
    BY <2>1, WorkerInvInit, PTL DEF WSpec
<1>. QED
  BY <1>1, <1>2
-------------------------------------------------------------------------------
(* Theorems.                                                               *)

\* WorkerTypeCorrect: runs, poll loop and semaphore keep their shape; the
\* lease ticker in particular never runs below zero and the number of tokens
\* never falls below zero (tryAcquire, autonomy/worker.go), though ends of
\* runs, crashes and replaced semaphores mix in any order.
THEOREM WorkerTypeCorrect == WSpec => []WTypeOK
<1>1. RunInv => WTypeOK
  BY DEF RunInv, IInv, WTypeOK
<1>. QED
  BY <1>1, RunInvariance, PTL

\* RunsAreLimited: tryAcquire never lets more than maxConcurrent runs live,
\* whatever the setting was when they started, and whether or not agents
\* claim jobs of their own.
THEOREM RunsAreLimited == WSpec => RunsWithinLimit
<1>1. ASSUME RunInv, NEW s \in Session, NEW j \in Job, Dispatch(s, j)
      PROVE  Cardinality({t \in Session : Alive(t)}) < sem.max
  <2>1. HasRoom(Resized) /\ Cardinality(AliveSet) = Resized.len
        /\ Resized.max = sem.max
    BY <1>1, ResizedProperties DEF Dispatch
  <2>. QED
    BY <2>1 DEF HasRoom, AliveSet
<1>2. RunInv => [\A s \in Session, j \in Job :
                   Dispatch(s, j) => Cardinality({t \in Session : Alive(t)}) < sem.max]_wvars
  BY <1>1
<1>. QED
  BY <1>2, RunInvariance, PTL DEF RunsWithinLimit

\* LeaseOutlivesTurn: while an agent is at work on a job assigned to its
\* session, the lease does not run out (heartbeatSessionOnce and the ticker,
\* jobs/heartbeat.go), for agents that claim no second job.
THEOREM LeaseOutlivesTurn == ~AgentClaims => (WSpec => []LeaseLivesWithTurn)
<1>1. ASSUME WorkerInv, NEW s \in Session, NEW j \in Job,
             WorksOn(s, j), job[j].assignee = s
      PROVE  ~Expired(j)
  <2>1. RowsOfRun(s) /\ Claimant(s) /\ run[s].beat \in 0 .. HeartbeatInterval
    BY <1>1 DEF WorkerInv, RunInv, HoldInv, RowsOfRuns, WorksOn, Claimant, Run
  <2>2. SUFFICES ASSUME Expired(j)
                 PROVE  FALSE
    OBVIOUS
  <2>3. OngoingFor(j, s) /\ job[j].lease < 0 /\ job[j].lease \in Int
    BY <1>1, <2>2 DEF Expired, Listed, OngoingFor, WorkerInv, RunInv, IInv, TypeOK,
       Row, Lease
  <2>. QED
    BY <2>1, <2>3, RunConstants DEF RowsOfRun
<1>2. WorkerInv => LeaseLivesWithTurn
  BY <1>1 DEF LeaseLivesWithTurn
<1>. QED
  BY <1>2, WorkerInvariance, PTL

\* NoTwoWorkers: no two agents work on one job at a time, whatever is
\* cancelled, crashes or restarts in between, except on a job that a late
\* Reconcile has released under a live lease.
THEOREM NoTwoWorkers == ~AgentClaims => (WSpec => []OneWorkerPerJob)
<1>1. WorkerInv => OneWorkerPerJob
  BY DEF WorkerInv, HoldInv, OneHolder, OneWorkerPerJob, WorksOn
<1>. QED
  BY <1>1, WorkerInvariance, PTL

\* FailureIsOwn: with the same exception, finalizeJob's failure is counted
\* only against the claim of its own run.
THEOREM FailureIsOwn == ~AgentClaims => (WSpec => CountsOwnFailure)
<1>1. ASSUME WorkerInv, NEW s \in Session, RunFails(s),
             Listed(proc[s].target, "ongoing"), proc[s].target \notin snatched
      PROVE  job[proc[s].target].assignee = s
  <2>1. RunPhase(s) /\ RowsOfRun(s)
    BY <1>1 DEF WorkerInv, RunInv, RunPhases, HoldInv, RowsOfRuns
  <2>2. proc[s].target \in run[s].holds \cap Job
    BY <1>1, <2>1 DEF RunFails, RunPhase, RowsOfRun
  <2>. QED
    BY <1>1, <2>2 DEF WorkerInv, HoldInv, HeldIsOwned, OngoingFor, Listed
<1>2. WorkerInv => [\A s \in Session :
        LET j == proc[s].target
        IN  RunFails(s) /\ Listed(j, "ongoing") /\ j \notin snatched
              => job[j].assignee = s]_wvars
  BY <1>1
<1>. QED
  BY <1>2, WorkerInvariance, PTL DEF CountsOwnFailure
===============================================================================
