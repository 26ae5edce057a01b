------------------------------ MODULE PartsProofs ------------------------------
(***************************************************************************)
(* Proofs about the components of MCParts that have no proof module of     *)
(* their own - two loops of the serve process that make work of what users *)
(* left in the database, and two state machines of the desktop app - and,  *)
(* with those of SessionRunProofs and McpManagerProofs, about all six.     *)
(*                                                                         *)
(* Scheduler: each pass carries what it has read from one call to the      *)
(* next, and the invariant says what of it still holds when it is used.    *)
(* What was without an open job still is (NoneOpenYet), since only the     *)
(* pass creates jobs of schedules; what is being moved on has had its job  *)
(* (MadeBefore).                                                           *)
(*                                                                         *)
(* Inbox: every turn is paid for by an attempt counted before it           *)
(* (TurnPerAttempt), so that a stop at any moment can lose a turn but      *)
(* never gives one away.                                                   *)
(*                                                                         *)
(* Queue: no submission is numbered above the counter (NumbersAreTaken),   *)
(* so that whatever is queued or started next is the newest.               *)
(*                                                                         *)
(* Supervisor: a probe may reset the respawn attempts only because some    *)
(* serve still answers; if none is tracked, that one has been told to stop *)
(* and a settings save that will start another waits for it (ToldIsAwaited)*)
(***************************************************************************)
EXTENDS MCParts, SessionRunProofs, McpManagerProofs, SequenceTheorems, FiniteSetTheorems, TLAPS

\* A pass works on one schedule at a time.
OneItem ==
    /\ \A i, j \in pass.item : i = j
    /\ pass.pc \in {"idle", "check"} => pass.item = {}
    /\ pass.pc = "idle" => pass.due = {}

\* What was asked for an open job and is about to get one has none: nobody
\* but the pass creates jobs of schedules.
NoneOpenYet == pass.pc = "create" => \A i \in pass.item : openJobs[i.id] = 0

\* A schedule that is about to be moved on has had its job.
MadeBefore == pass.pc = "advance" => \A i \in pass.item : lastMade[i.id] = i.next

SchedInv == SchedTypeOK /\ OneItem /\ NoneOpenYet /\ MadeBefore /\ OneOpenJob
-------------------------------------------------------------------------------
LEMMA SchedInitInv == SchedInit => SchedInv
<1>. USE SchedulerAssumption DEF SchedInit, NoPass
<1>1. SchedInit => SchedTypeOK
  BY DEF SchedTypeOK, Item, Time
<1>2. SchedInit => OneItem /\ NoneOpenYet /\ MadeBefore /\ OneOpenJob
  BY DEF OneItem, NoneOpenYet, MadeBefore, OneOpenJob
<1>. QED
  BY <1>1, <1>2 DEF SchedInv

\* The steps of users, jobs and the clock leave the pass alone and make no job.
LEMMA OthersKeep ==
  ASSUME SchedInv, pass' = pass, lastMade' = lastMade, SchedTypeOK',
         \A s \in Schedule : openJobs'[s] <= openJobs[s]
  PROVE  SchedInv'
<1>1. OneItem' /\ MadeBefore'
  BY DEF SchedInv, OneItem, MadeBefore
<1>2. NoneOpenYet'
  BY DEF SchedInv, NoneOpenYet, SchedTypeOK, Item
<1>3. OneOpenJob'
  BY DEF SchedInv, OneOpenJob, SchedTypeOK
<1>. QED
  BY <1>1, <1>2, <1>3 DEF SchedInv

LEMMA UserStepKeeps ==
  ASSUME SchedInv,
         NEW s \in Schedule,
         \/ DeleteSchedule(s) \/ JobCloses(s) \/ PassTime
         \/ \E cron, enabled \in BOOLEAN, at \in 1..(MaxTime + 1) :
               WriteSchedule(s, cron, at, enabled)
  PROVE  SchedInv'
<1>. USE SchedulerAssumption DEF SchedInv, SchedTypeOK, Time, Plan
<1>1. CASE DeleteSchedule(s)
  BY <1>1, OthersKeep DEF DeleteSchedule, Edit
<1>2. CASE JobCloses(s)
  BY <1>2, OthersKeep DEF JobCloses
<1>3. CASE PassTime
  BY <1>3, OthersKeep DEF PassTime
<1>4. ASSUME NEW cron \in BOOLEAN, NEW enabled \in BOOLEAN,
             NEW at \in 1..(MaxTime + 1), WriteSchedule(s, cron, at, enabled)
      PROVE  SchedInv'
  BY <1>4, OthersKeep DEF WriteSchedule, Edit, NextCronRun
<1>. QED
  BY <1>1, <1>2, <1>3, <1>4

\* A step that ends the pass.
LEMMA PassEnds ==
  ASSUME SchedInv, pass' = NoPass, SchedTypeOK', OneOpenJob'
  PROVE  SchedInv'
BY DEF SchedInv, NoPass, OneItem, NoneOpenYet, MadeBefore

LEMMA ListDueKeeps ==
  ASSUME SchedInv, ListDue
  PROVE  SchedInv'
<1>1. pass'.due \subseteq Item
  BY DEF ListDue, Due, SchedInv, SchedTypeOK, Item, Plan, Time
<1>2. SchedTypeOK'
  BY <1>1 DEF ListDue, SchedInv, SchedTypeOK
<1>3. OneItem' /\ NoneOpenYet' /\ MadeBefore' /\ OneOpenJob'
  BY DEF ListDue, SchedInv, OneItem, NoneOpenYet, MadeBefore, OneOpenJob
<1>. QED
  BY <1>2, <1>3 DEF SchedInv

LEMMA CheckOpenKeeps ==
  ASSUME SchedInv, NEW i \in pass.due, CheckOpen(i)
  PROVE  SchedInv'
<1>. USE DEF CheckOpen, SchedInv
<1>1. i \in Item /\ i.id \in Schedule
  BY DEF SchedTypeOK, Item
<1>0. /\ 0 \in 0..MaxTime
      /\ pass' \in {NoPass, [pass EXCEPT !.due = @ \ {i}],
                   [pass EXCEPT !.pc = "create", !.due = @ \ {i}, !.item = {i}]}
  BY SchedulerAssumption DEF Fails
<1>2. SchedTypeOK' /\ OneOpenJob'
  <2>1. pass' \in [pc : {"idle", "check", "create", "advance"}, at : 0..MaxTime,
                   due : SUBSET Item, item : SUBSET Item]
    <3>1. CASE pass' = NoPass
      BY <1>0, <3>1 DEF NoPass
    <3>2. CASE pass' = [pass EXCEPT !.due = @ \ {i}]
      BY <3>2 DEF SchedTypeOK
    <3>3. CASE pass' = [pass EXCEPT !.pc = "create", !.due = @ \ {i}, !.item = {i}]
      BY <1>1, <3>3 DEF SchedTypeOK
    <3>. QED
      BY <1>0, <3>1, <3>2, <3>3
  <2>2. schedFaults' \in 0..MaxSchedFaults
    BY SchedulerAssumption DEF Fails, SchedTypeOK
  <2>. QED
    BY <2>1, <2>2 DEF SchedTypeOK, OneOpenJob
<1>3. CASE pass' = NoPass
  BY <1>2, <1>3, PassEnds
<1>4. CASE openJobs[i.id] > 0 /\ pass' = [pass EXCEPT !.due = @ \ {i}]
  BY <1>2, <1>4 DEF SchedTypeOK, OneItem, NoneOpenYet, MadeBefore
<1>5. CASE /\ openJobs[i.id] = 0
           /\ pass' = [pass EXCEPT !.pc = "create", !.due = @ \ {i}, !.item = {i}]
  BY <1>2, <1>5 DEF SchedTypeOK, OneItem, NoneOpenYet, MadeBefore
<1>. QED
  BY <1>1, <1>3, <1>4, <1>5 DEF SchedTypeOK, Fails

LEMMA CreateJobKeeps ==
  ASSUME SchedInv, NEW i \in pass.item, CreateJob(i)
  PROVE  SchedInv'
<1>. USE DEF CreateJob, SchedInv
<1>1. i \in Item /\ i.id \in Schedule /\ i.next \in Time
  BY DEF SchedTypeOK, Item
<1>2. openJobs[i.id] = 0
  BY DEF NoneOpenYet
<1>3. SchedTypeOK' /\ OneOpenJob'
  BY <1>1, <1>2, SchedulerAssumption DEF SchedTypeOK, OneOpenJob, Fails, NoPass, Made
<1>4. CASE pass' = NoPass
  BY <1>3, <1>4, PassEnds
<1>5. CASE Made(i) /\ pass' = [pass EXCEPT !.pc = "advance"]
  <2>1. pass'.item = pass.item /\ pass'.pc = "advance"
    BY <1>5 DEF SchedTypeOK
  <2>2. MadeBefore'
    BY <1>1, <1>5, <2>1 DEF Made, OneItem, MadeBefore, SchedTypeOK
  <2>. QED
    BY <1>3, <2>1, <2>2 DEF OneItem, NoneOpenYet
<1>. QED
  BY <1>4, <1>5 DEF Fails

LEMMA AdvanceKeeps ==
  ASSUME SchedInv, NEW i \in pass.item, Advance(i)
  PROVE  SchedInv'
<1>. USE DEF Advance, SchedInv
<1>1. i \in Item /\ i.id \in Schedule
  BY DEF SchedTypeOK, Item
<1>2. NextCronRun(pass.at) \in Time
  BY SchedulerAssumption DEF SchedTypeOK, NextCronRun, Time
<1>3. plan' \in [Schedule -> Plan \cup {NoPlan}]
  <2>1. CASE plan' = plan
    BY <2>1 DEF SchedTypeOK
  <2>2. CASE plan[i.id] # NoPlan /\ plan' = [plan EXCEPT ![i.id].next = NextCronRun(pass.at)]
    BY <1>1, <1>2, <2>2 DEF SchedTypeOK, Plan
  <2>3. CASE plan[i.id] # NoPlan /\ plan' = [plan EXCEPT ![i.id].enabled = FALSE]
    <3>1. plan[i.id] \in Plan
      BY <1>1, <2>3 DEF SchedTypeOK
    <3>2. [plan[i.id] EXCEPT !.enabled = FALSE] \in Plan
      BY <3>1 DEF Plan
    <3>. QED
      BY <1>1, <2>3, <3>2 DEF SchedTypeOK
  <2>. QED
    BY <2>1, <2>2, <2>3
<1>4. gone' \subseteq {s \in Schedule : plan'[s] = NoPlan}
  BY <1>1 DEF SchedTypeOK
<1>5. pass' = NoPass \/ pass' = [pass EXCEPT !.pc = "check", !.item = {}]
  BY DEF Fails, NextItem
<1>6. SchedTypeOK'
  <2>1. pass' \in [pc : {"idle", "check", "create", "advance"}, at : 0..MaxTime,
                   due : SUBSET Item, item : SUBSET Item]
    <3>1. CASE pass' = NoPass
      BY <3>1, SchedulerAssumption DEF NoPass
    <3>2. CASE pass' = [pass EXCEPT !.pc = "check", !.item = {}]
      BY <3>2 DEF SchedTypeOK
    <3>. QED
      BY <1>5, <3>1, <3>2
  <2>2. schedFaults' \in 0..MaxSchedFaults
    BY SchedulerAssumption DEF Fails, SchedTypeOK
  <2>. QED
    BY <1>3, <1>4, <2>1, <2>2 DEF SchedTypeOK
<1>7. OneOpenJob'
  BY DEF OneOpenJob
<1>8. CASE pass' = NoPass
  BY <1>6, <1>7, <1>8, PassEnds
<1>9. CASE pass' = [pass EXCEPT !.pc = "check", !.item = {}]
  BY <1>6, <1>7, <1>9 DEF SchedTypeOK, OneItem, NoneOpenYet, MadeBefore
<1>. QED
  BY <1>5, <1>8, <1>9

LEMMA SchedNextInv ==
  ASSUME SchedInv, [SchedNext]_schedVars
  PROVE  SchedInv'
<1>1. CASE PassStep
  BY <1>1, ListDueKeeps, CheckOpenKeeps, CreateJobKeeps, AdvanceKeeps DEF PassStep
<1>2. CASE SchedRestart
  <2>1. SchedTypeOK' /\ OneOpenJob'
    BY <1>2, SchedulerAssumption
       DEF SchedInv, SchedRestart, Fails, NoPass, SchedTypeOK, OneOpenJob
  <2>. QED
    BY <1>2, <2>1, PassEnds DEF SchedRestart, Fails
<1>3. CASE PassTime
  BY <1>3, SchedulerAssumption, UserStepKeeps
<1>4. ASSUME NEW s \in Schedule,
             \/ DeleteSchedule(s) \/ JobCloses(s)
             \/ \E cron, enabled \in BOOLEAN, at \in 1..(MaxTime + 1) :
                   WriteSchedule(s, cron, at, enabled)
      PROVE  SchedInv'
  BY <1>4, UserStepKeeps
<1>5. CASE UNCHANGED schedVars
  BY <1>5 DEF schedVars, SchedInv, SchedTypeOK, OneItem, NoneOpenYet, MadeBefore,
              OneOpenJob, Due
<1>. QED
  BY <1>1, <1>2, <1>3, <1>4, <1>5 DEF SchedNext

LEMMA SchedInvariance == SchedSpec => []SchedInv
BY SchedInitInv, SchedNextInv, PTL DEF SchedSpec

-------------------------------------------------------------------------------
\* Schedules, jobs and the pass keep their types; in particular nobody counts
\* a job away that is not there, and ids of deleted schedules stay unused.
THEOREM SchedTypeCorrect == SchedSpec => []SchedTypeOK
BY SchedInvariance, PTL DEF SchedInv

\* A schedule has at most one open job, although the question and the creation
\* are two database calls.
THEOREM OneJobPerSchedule == SchedSpec => []OneOpenJob
BY SchedInvariance, PTL DEF SchedInv

LEMMA StepLosesNoFiring ==
  ASSUME SchedInv, [SchedNext]_schedVars, NEW s \in Schedule,
         plan'[s] # plan[s], edits' = edits,
         [id |-> s, cron |-> plan[s].cron, next |-> plan[s].next] \in pass.item
  PROVE  lastMade[s] = plan[s].next
<1>. DEFINE k == [id |-> s, cron |-> plan[s].cron, next |-> plan[s].next]
<1>1. pass.pc = "advance" => lastMade[s] = plan[s].next
  <2>1. k.id = s /\ k.next = plan[s].next
    OBVIOUS
  <2>. QED
    BY <2>1 DEF SchedInv, MadeBefore
<1>2. \E i \in pass.item : Advance(i)
  <2>1. ~ \E q \in Schedule : DeleteSchedule(q)
    BY DEF DeleteSchedule, Edit, SchedInv, SchedTypeOK
  <2>2. ~ \E q \in Schedule, cron, enabled \in BOOLEAN, at \in 1..(MaxTime + 1) :
              WriteSchedule(q, cron, at, enabled)
    BY DEF WriteSchedule, Edit, SchedInv, SchedTypeOK
  <2>3. plan' # plan
    OBVIOUS
  <2>4. ~ (ListDue \/ SchedRestart \/ PassTime \/ UNCHANGED schedVars)
    BY <2>3 DEF ListDue, SchedRestart, PassTime, schedVars
  <2>5. ~ ((\E i \in pass.due : CheckOpen(i)) \/ (\E i \in pass.item : CreateJob(i))
           \/ (\E q \in Schedule : JobCloses(q)))
    BY <2>3 DEF CheckOpen, CreateJob, JobCloses
  <2>. QED
    BY <2>1, <2>2, <2>4, <2>5 DEF SchedNext, PassStep
<1>. QED
  BY <1>1, <1>2 DEF Advance

\* The loop moves a schedule on only after the job of that occurrence exists,
\* whatever users do to it between the calls of the pass.
THEOREM NoFiringIsLost == SchedSpec => NoFiringLost
<1>1. SchedInv /\ [SchedNext]_schedVars
      => [\A s \in Schedule :
            (plan'[s] # plan[s] /\ edits' = edits
             /\ [id |-> s, cron |-> plan[s].cron, next |-> plan[s].next] \in pass.item)
            => lastMade[s] = plan[s].next]_schedVars
  BY StepLosesNoFiring
<1>. QED
  BY <1>1, SchedInvariance, PTL DEF SchedSpec, NoFiringLost

LEMMA StepPassesNobodyOver ==
  ASSUME SchedInv, [SchedNext]_schedVars, schedFaults' = schedFaults,
         \A j \in pass.item : plan[j.id] # NoPlan,
         NEW i \in (pass.due \cup pass.item) \ (pass'.due \cup pass'.item)
  PROVE  openJobs[i.id] > 0 \/ lastMade[i.id] = i.next
<1>. USE DEF SchedInv
<1>1. ~Fails
  BY DEF Fails, SchedTypeOK
<1>2. pass' # pass
  OBVIOUS
<1>3. CASE ListDue
  BY <1>3 DEF ListDue, OneItem
<1>4. ASSUME NEW k \in pass.due, CheckOpen(k)
      PROVE  openJobs[i.id] > 0
  <2>1. k.id \in Schedule
    BY DEF SchedTypeOK, Item
  <2>2. pass.item = {} /\ i \in pass.due
    BY <1>4 DEF CheckOpen, OneItem
  <2>3. CASE openJobs[k.id] > 0
    <3>1. i = k
      BY <1>1, <1>4, <2>2, <2>3 DEF CheckOpen, SchedTypeOK, NoPass
    <3>. QED
      BY <2>3, <3>1
  <2>4. CASE ~(openJobs[k.id] > 0)
    <3>1. pass' = [pass EXCEPT !.pc = "create", !.due = @ \ {k}, !.item = {k}]
      BY <1>1, <1>4, <2>4 DEF CheckOpen
    <3>2. pass'.due = pass.due \ {k} /\ pass'.item = {k}
      BY <3>1 DEF SchedTypeOK
    <3>. QED
      BY <2>2, <3>2
  <2>. QED
    BY <2>3, <2>4
<1>5. ASSUME NEW k \in pass.item, CreateJob(k)
      PROVE  FALSE
  <2>1. pass' = [pass EXCEPT !.pc = "advance"]
    BY <1>1, <1>5 DEF CreateJob
  <2>. QED
    BY <2>1 DEF SchedTypeOK
<1>6. ASSUME NEW k \in pass.item, Advance(k)
      PROVE  lastMade[i.id] = i.next
  <2>1. i \in pass.item
    BY <1>1, <1>6 DEF Advance, NextItem, SchedTypeOK
  <2>. QED
    BY <1>6, <2>1 DEF Advance, MadeBefore
<1>7. CASE SchedRestart
  BY <1>1, <1>7 DEF SchedRestart
<1>8. ~ (PassTime \/ UNCHANGED schedVars)
  BY <1>2 DEF PassTime, schedVars
<1>9. ~ \E s \in Schedule :
           \/ DeleteSchedule(s) \/ JobCloses(s)
           \/ \E cron, enabled \in BOOLEAN, at \in 1..(MaxTime + 1) :
                 WriteSchedule(s, cron, at, enabled)
  BY <1>2 DEF DeleteSchedule, JobCloses, WriteSchedule
<1>. QED
  BY <1>3, <1>4, <1>5, <1>6, <1>7, <1>8, <1>9 DEF SchedNext, PassStep

\* A pass that meets no failed call leaves no due schedule without a job.
THEOREM NobodyPassedOver == SchedSpec => NonePassedOver
<1>1. SchedInv /\ [SchedNext]_schedVars
      => [(schedFaults' = schedFaults /\ \A j \in pass.item : plan[j.id] # NoPlan) =>
          \A i \in (pass.due \cup pass.item) \ (pass'.due \cup pass'.item) :
            plan[i.id] # NoPlan /\ plan[i.id].next = i.next
            => openJobs[i.id] > 0 \/ lastMade[i.id] = i.next]_schedVars
  BY StepPassesNobodyOver
<1>. QED
  BY <1>1, SchedInvariance, PTL DEF SchedSpec, NonePassedOver
-------------------------------------------------------------------------------
(* The inbox and its worker.                                               *)

\* The worker has one message at a time.
OneMessage ==
    /\ \A m, n \in worker.msg : m = n
    /\ worker.pc \in {"idle", "claim"} => worker.msg = {}

\* Only replies are tried.
TriedAreReplies == \A m \in Message : attempts[m] > 0 => mail[m] \in {"replied", "purged"}

\* A turn takes the attempt that its claim has counted.
TurnPerAttempt ==
    \A m \in Message :
      /\ turns[m] <= attempts[m]
      /\ worker.pc = "prepare" /\ m \in worker.msg => turns[m] < attempts[m]

InboxInv == /\ InboxTypeOK
            /\ OneMessage /\ TriedAreReplies /\ TurnPerAttempt
            /\ GivenUpIsRecorded
-------------------------------------------------------------------------------
LEMMA InboxInitInv == InboxInit => InboxInv
<1>. USE InboxAssumption DEF InboxInit, Idle
<1>1. InboxInit => InboxTypeOK
  BY DEF InboxTypeOK
<1>2. InboxInit => OneMessage /\ TriedAreReplies /\ TurnPerAttempt /\ GivenUpIsRecorded
  BY DEF OneMessage, TriedAreReplies, TurnPerAttempt, GivenUpIsRecorded
<1>. QED
  BY <1>1, <1>2 DEF InboxInv

LEMMA BecomesKeeps ==
  ASSUME InboxInv, NEW m \in Message, NEW from, NEW to,
         Becomes(m, from, to),
         \/ from = {"new"} /\ to = "open"
         \/ from = {"open"} /\ to \in {"replied", "dismissed"}
         \/ from = {"replied", "dismissed"} /\ to = "purged"
  PROVE  InboxInv'
<1>. USE DEF Becomes, InboxInv, InboxTypeOK
<1>1. InboxTypeOK'
  OBVIOUS
<1>2. OneMessage' /\ TurnPerAttempt'
  BY DEF OneMessage, TurnPerAttempt
<1>3. TriedAreReplies'
  BY DEF TriedAreReplies
<1>4. GivenUpIsRecorded'
  BY InboxAssumption DEF GivenUpIsRecorded, TriedAreReplies
<1>. QED
  BY <1>1, <1>2, <1>3, <1>4

LEMMA PollOnceKeeps ==
  ASSUME InboxInv, PollOnce
  PROVE  InboxInv'
<1>. USE DEF PollOnce, InboxInv
<1>1. InboxTypeOK'
  BY DEF InboxTypeOK
<1>2. OneMessage' /\ TriedAreReplies' /\ TurnPerAttempt'
  BY DEF OneMessage, TriedAreReplies, TurnPerAttempt
<1>3. GivenUpIsRecorded'
  BY DEF GivenUpIsRecorded, OneMessage
<1>. QED
  BY <1>1, <1>2, <1>3

LEMMA ClaimKeeps ==
  ASSUME InboxInv, NEW m \in worker.todo, ClaimForProcess(m)
  PROVE  InboxInv'
<1>. USE DEF ClaimForProcess, InboxInv, InboxTypeOK
<1>1. m \in Message /\ worker.msg = {}
  BY DEF OneMessage
<1>2. CASE Pending(m)
  <2>1. /\ attempts' = [attempts EXCEPT ![m] = @ + 1]
        /\ worker' = [pc |-> "prepare", todo |-> worker.todo \ {m}, msg |-> {m}]
        /\ blurred' = blurred \ {m}
        /\ mail[m] = "replied" /\ attempts[m] < MaxAttempts
    BY <1>2 DEF Pending
  <2>2. InboxTypeOK'
    <3>1. attempts' \in [Message -> 0..MaxAttempts]
      BY <1>1, <2>1, InboxAssumption
    <3>2. worker' \in [pc : {"idle", "claim", "prepare", "turn"},
                       todo : SUBSET Message, msg : SUBSET Message]
      BY <1>1, <2>1
    <3>. QED
      BY <3>1, <3>2, <2>1
  <2>3. OneMessage' /\ TriedAreReplies'
    BY <1>1, <2>1 DEF OneMessage, TriedAreReplies
  <2>4. TurnPerAttempt'
    BY <1>1, <2>1 DEF TurnPerAttempt
  <2>5. GivenUpIsRecorded'
    BY <1>1, <2>1 DEF GivenUpIsRecorded
  <2>. QED
    BY <2>2, <2>3, <2>4, <2>5
<1>3. CASE ~Pending(m)
  <2>1. /\ worker' \in [pc : {"idle", "claim"}, todo : SUBSET Message, msg : {{}}]
        /\ UNCHANGED <<mail, attempts, processed, turns, blurred, stops>>
    BY <1>1, <1>3 DEF Idle
  <2>2. InboxTypeOK'
    BY <2>1
  <2>3. OneMessage' /\ TriedAreReplies' /\ TurnPerAttempt'
    BY <2>1 DEF OneMessage, TriedAreReplies, TurnPerAttempt
  <2>4. GivenUpIsRecorded'
    BY <1>1, <2>1 DEF GivenUpIsRecorded
  <2>. QED
    BY <2>2, <2>3, <2>4
<1>. QED
  BY <1>2, <1>3

\* The worker lets go of a message: it has been marked, or it may be tried
\* again, or the write was lost.
LEMMA NextMessageKeeps ==
  ASSUME InboxInv, NEW m \in worker.msg, NextMessage,
         \/ \E how \in {"done", "failed"} : MarkProcessed(m, how)
         \/ Failed(m),
         UNCHANGED <<mail, attempts, turns>>
  PROVE  InboxInv'
<1>. USE DEF InboxInv, InboxTypeOK
<1>1. m \in Message /\ worker.msg = {m}
  BY DEF OneMessage
<1>2. worker' \in [pc : {"idle", "claim"}, todo : SUBSET Message, msg : {{}}]
  BY DEF NextMessage, Idle
<1>3. \/ \E how \in {"done", "failed"} :
            processed' = [processed EXCEPT ![m] = IF mail[m] = "purged" THEN @ ELSE how]
            /\ UNCHANGED <<blurred, stops>>
      \/ stops < MaxStops /\ stops' = stops + 1 /\ blurred' = blurred \cup {m}
         /\ UNCHANGED processed
      \/ attempts[m] < MaxAttempts /\ UNCHANGED <<processed, blurred, stops>>
  BY <1>1, InboxAssumption DEF MarkProcessed, Failed
<1>4. InboxTypeOK'
  BY <1>1, <1>2, <1>3, InboxAssumption
<1>5. OneMessage' /\ TriedAreReplies' /\ TurnPerAttempt'
  BY <1>2 DEF OneMessage, TriedAreReplies, TurnPerAttempt
<1>6. GivenUpIsRecorded'
  BY <1>1, <1>3 DEF GivenUpIsRecorded
<1>. QED
  BY <1>4, <1>5, <1>6

LEMMA PrepareKeeps ==
  ASSUME InboxInv, NEW m \in worker.msg, Prepare(m)
  PROVE  InboxInv'
<1>1. CASE NextMessage /\ Failed(m) /\ UNCHANGED turns
  BY <1>1, NextMessageKeeps DEF Prepare
<1>2. CASE /\ worker' = [worker EXCEPT !.pc = "turn"]
           /\ turns' = [turns EXCEPT ![m] = IF @ > MaxAttempts THEN @ ELSE @ + 1]
           /\ UNCHANGED <<processed, blurred, stops>>
  <2>. USE <1>2 DEF Prepare, InboxInv, InboxTypeOK
  <2>1. m \in Message /\ worker.pc = "prepare" /\ turns[m] < attempts[m]
    BY DEF TurnPerAttempt
  <2>2. turns' = [turns EXCEPT ![m] = @ + 1]
    <3>1. turns[m] \in 0..(MaxAttempts + 1) /\ attempts[m] \in 0..MaxAttempts
      BY <2>1
    <3>2. ~(turns[m] > MaxAttempts)
      BY <2>1, <3>1, InboxAssumption
    <3>. QED
      BY <3>2
  <2>3. InboxTypeOK'
    <3>1. turns' \in [Message -> 0..(MaxAttempts + 1)]
      BY <2>1, <2>2, InboxAssumption
    <3>2. worker' \in [pc : {"idle", "claim", "prepare", "turn"},
                       todo : SUBSET Message, msg : SUBSET Message]
      OBVIOUS
    <3>. QED
      BY <3>1, <3>2
  <2>4. OneMessage' /\ TriedAreReplies'
    BY <2>1 DEF OneMessage, TriedAreReplies
  <2>5. TurnPerAttempt'
    BY <2>1, <2>2 DEF TurnPerAttempt
  <2>6. GivenUpIsRecorded'
    BY DEF GivenUpIsRecorded
  <2>. QED
    BY <2>3, <2>4, <2>5, <2>6
<1>. QED
  BY <1>1, <1>2 DEF Prepare

LEMMA WorkerStopsKeeps ==
  ASSUME InboxInv, WorkerStops
  PROVE  InboxInv'
<1>. USE DEF WorkerStops, InboxInv, Idle
<1>1. InboxTypeOK'
  BY InboxAssumption DEF InboxTypeOK
<1>2. OneMessage' /\ TriedAreReplies' /\ TurnPerAttempt'
  BY DEF OneMessage, TriedAreReplies, TurnPerAttempt
<1>3. GivenUpIsRecorded'
  BY DEF GivenUpIsRecorded
<1>. QED
  BY <1>1, <1>2, <1>3

LEMMA InboxNextInv ==
  ASSUME InboxInv, [InboxNext]_inboxVars
  PROVE  InboxInv'
<1>1. CASE PollOnce
  BY <1>1, PollOnceKeeps
<1>2. ASSUME NEW m \in worker.todo, ClaimForProcess(m)
      PROVE  InboxInv'
  BY <1>2, ClaimKeeps
<1>3. ASSUME NEW m \in worker.msg, Prepare(m)
      PROVE  InboxInv'
  BY <1>3, PrepareKeeps
<1>4. ASSUME NEW m \in worker.msg, FinishRun(m)
      PROVE  InboxInv'
  BY <1>4, NextMessageKeeps DEF FinishRun
<1>5. CASE WorkerStops
  BY <1>5, WorkerStopsKeeps
<1>6. ASSUME NEW m \in Message,
             CreateMessage(m) \/ Reply(m) \/ Dismiss(m) \/ PurgeExpired(m)
      PROVE  InboxInv'
  BY <1>6, BecomesKeeps DEF CreateMessage, Reply, Dismiss, PurgeExpired
<1>7. CASE UNCHANGED inboxVars
  BY <1>7 DEF inboxVars, InboxInv, InboxTypeOK, OneMessage, TriedAreReplies,
              TurnPerAttempt, GivenUpIsRecorded
<1>. QED
  BY <1>1, <1>2, <1>3, <1>4, <1>5, <1>6, <1>7 DEF InboxNext, WorkerStep

LEMMA InboxInvariance == InboxSpec => []InboxInv
BY InboxInitInv, InboxNextInv, PTL DEF InboxSpec
-------------------------------------------------------------------------------
\* The messages and the poll keep their types; in particular no claim counts
\* beyond the limit of attempts.
THEOREM InboxTypeCorrect == InboxSpec => []InboxTypeOK
BY InboxInvariance, PTL DEF InboxInv

\* No reply is worked on more often than it may be tried, wherever the serve
\* process stops.
THEOREM TurnsAreBounded == InboxSpec => []TurnsBounded
<1>1. ASSUME InboxInv, NEW m \in Message
      PROVE  turns[m] <= MaxAttempts
  <2>1. /\ turns[m] \in 0..(MaxAttempts + 1) /\ attempts[m] \in 0..MaxAttempts
        /\ turns[m] <= attempts[m]
    BY <1>1 DEF InboxInv, InboxTypeOK, TurnPerAttempt
  <2>. QED
    BY <2>1, InboxAssumption
<1>2. InboxInv => TurnsBounded
  BY <1>1 DEF TurnsBounded
<1>. QED
  BY <1>2, InboxInvariance, PTL

\* A reply that is out of attempts is marked, unless a stop or a failed write
\* came in between.
THEOREM GivenUpSaysSo == InboxSpec => []GivenUpIsRecorded
BY InboxInvariance, PTL DEF InboxInv

-------------------------------------------------------------------------------
\* Submissions that wait or have started were numbered before.
NumbersAreTaken ==
    /\ \A i \in DOMAIN queue : queue[i].n <= submits
    /\ started <= submits

QueueInv == QueueTypeOK /\ NumbersAreTaken /\ TurnsInOrder /\ NobodyStranded

\* What is left when one element is removed keeps its order.
LEMMA RemoveAtProperties ==
  ASSUME NEW S, NEW s \in Seq(S), NEW k \in 1..Len(s)
  PROVE  /\ RemoveAt(s, k) \in Seq(S)
         /\ Len(RemoveAt(s, k)) = Len(s) - 1
         /\ \A i \in 1..(Len(s) - 1) :
              RemoveAt(s, k)[i] = IF i < k THEN s[i] ELSE s[i + 1]
<1>. DEFINE a == SubSeq(s, 1, k - 1)
            b == SubSeq(s, k + 1, Len(s))
<1>1. Len(s) \in Nat /\ \A i \in 1..Len(s) : s[i] \in S
  BY LenProperties, ElementOfSeq
<1>2. /\ a \in Seq(S) /\ Len(a) = k - 1
      /\ \A i \in 1..(k - 1) : a[i] = s[i]
  <2>1. \A i \in 1..(k - 1) : s[i] \in S
    BY <1>1
  <2>2. /\ a \in Seq(S)
        /\ Len(a) = IF 1 <= k - 1 THEN k - 1 - 1 + 1 ELSE 0
        /\ \A i \in 1..(k - 1 - 1 + 1) : a[i] = s[1 + i - 1]
    <3>1. 1 \in Int /\ k - 1 \in Int
      BY <1>1
    <3>. QED
      BY <2>1, <3>1, SubSeqProperties
  <2>. QED
    BY <1>1, <2>2
<1>3. /\ b \in Seq(S) /\ Len(b) = Len(s) - k
      /\ \A i \in 1..(Len(s) - k) : b[i] = s[k + i]
  <2>1. \A i \in (k + 1)..Len(s) : s[i] \in S
    BY <1>1
  <2>2. /\ b \in Seq(S)
        /\ Len(b) = IF k + 1 <= Len(s) THEN Len(s) - (k + 1) + 1 ELSE 0
        /\ \A i \in 1..(Len(s) - (k + 1) + 1) : b[i] = s[(k + 1) + i - 1]
    <3>1. Len(s) \in Int /\ k + 1 \in Int
      BY <1>1
    <3>. QED
      BY <2>1, <3>1, SubSeqProperties
  <2>. QED
    BY <1>1, <2>2
<1>4. RemoveAt(s, k) = a \o b
  BY DEF RemoveAt
<1>. HIDE DEF a, b
<1>5. /\ a \o b \in Seq(S)
      /\ Len(a \o b) = Len(a) + Len(b)
      /\ \A i \in 1..(Len(a) + Len(b)) :
           (a \o b)[i] = IF i <= Len(a) THEN a[i] ELSE b[i - Len(a)]
  BY <1>2, <1>3, ConcatProperties
<1>6. ASSUME NEW i \in 1..(Len(s) - 1)
      PROVE  (a \o b)[i] = IF i < k THEN s[i] ELSE s[i + 1]
  <2>1. CASE i < k
    BY <1>1, <1>2, <1>3, <1>5, <2>1
  <2>2. CASE ~(i < k)
    <3>1. i - (k - 1) \in 1..(Len(s) - k) /\ k + (i - (k - 1)) = i + 1
      BY <1>1, <2>2
    <3>2. (a \o b)[i] = b[i - (k - 1)]
      BY <1>1, <1>2, <1>3, <1>5, <2>2
    <3>. QED
      BY <1>3, <2>2, <3>1, <3>2
  <2>. QED
    BY <2>1, <2>2
<1>7. Len(a \o b) = Len(s) - 1
  BY <1>1, <1>2, <1>3, <1>5
<1>. QED
  BY <1>4, <1>5, <1>6, <1>7

\* The queue as numbers: what the steps have to look at.
LEMMA QueueShape ==
  ASSUME QueueTypeOK
  PROVE  /\ Len(queue) \in Nat /\ DOMAIN queue = 1..Len(queue)
         /\ \A i \in DOMAIN queue : queue[i] \in Submission /\ queue[i].n \in Nat
         /\ queue = <<>> <=> Len(queue) = 0
         /\ submits \in Nat /\ started \in Nat
<1>1. queue \in Seq(Submission)
  BY DEF QueueTypeOK
<1>2. Len(queue) \in Nat /\ DOMAIN queue = 1..Len(queue)
  BY <1>1, LenProperties
<1>3. \A i \in DOMAIN queue : queue[i] \in Submission
  BY <1>1, <1>2, ElementOfSeq
<1>4. \A i \in DOMAIN queue : queue[i].n \in Nat
  BY <1>3, QueueAssumption DEF Submission
<1>5. queue = <<>> <=> Len(queue) = 0
  BY <1>1, EmptySeq
<1>. QED
  BY <1>2, <1>3, <1>4, <1>5, QueueAssumption DEF QueueTypeOK

LEMMA QueueInitInv == QueueInit => QueueInv
BY QueueAssumption DEF QueueInit, QueueInv, QueueTypeOK, NumbersAreTaken,
                       TurnsInOrder, NobodyStranded

LEMMA EnqueueKeeps ==
  ASSUME QueueInv, NEW p \in Payload, Enqueue(p)
  PROVE  QueueInv'
<1>. USE DEF Enqueue, QueueInv
<1>. DEFINE sub == [n |-> submits + 1, payload |-> p]
<1>0. /\ Len(queue) \in Nat /\ DOMAIN queue = 1..Len(queue)
      /\ \A i \in DOMAIN queue : queue[i].n \in Nat
      /\ submits \in Nat /\ started \in Nat
  BY QueueShape
<1>1. submits' = submits + 1 /\ submits' \in 1..MaxSubmits /\ sub \in Submission
  BY QueueAssumption DEF QueueTypeOK, Submission
<1>2. CASE loop = "idle"
  <2>1. queue = <<>> /\ queue' = queue /\ StartTurn(sub)
    BY <1>1, <1>2 DEF NobodyStranded
  <2>2. QueueTypeOK'
    BY <1>1, <2>1 DEF QueueTypeOK, StartTurn
  <2>. QED
    BY <1>1, <2>1, <2>2 DEF NumbersAreTaken, TurnsInOrder, NobodyStranded, StartTurn
<1>3. CASE loop # "idle" /\ Duplicate(p)
  <2>1. UNCHANGED <<queue, loop, running, started>>
    BY <1>3
  <2>2. QueueTypeOK'
    BY <1>1, <2>1 DEF QueueTypeOK
  <2>. QED
    <3>1. NumbersAreTaken'
      BY <1>0, <1>1, <2>1, <1>3 DEF NumbersAreTaken
    <3>2. TurnsInOrder' /\ NobodyStranded'
      BY <1>3, <2>1 DEF TurnsInOrder, NobodyStranded
    <3>. QED
      BY <2>2, <3>1, <3>2
<1>4. CASE loop # "idle" /\ ~Duplicate(p)
  <2>1. queue' = Append(queue, sub) /\ UNCHANGED <<loop, running, started>>
    BY <1>1, <1>4
  <2>2. queue \in Seq(Submission)
    BY DEF QueueTypeOK
  <2>3. /\ queue' \in Seq(Submission)
        /\ Len(queue') = Len(queue) + 1
        /\ \A i \in 1..Len(queue) : queue'[i] = queue[i]
        /\ queue'[Len(queue) + 1] = sub
    BY <1>1, <2>1, <2>2, AppendProperties
  <2>4. DOMAIN queue' = 1..(Len(queue) + 1)
    BY <2>3, LenProperties
  <2>5. QueueTypeOK'
    BY <1>1, <2>1, <2>3 DEF QueueTypeOK
  <2>6. sub.n = submits + 1
    OBVIOUS
  <2>7. /\ \A i \in 1..Len(queue) : queue'[i].n = queue[i].n
        /\ queue'[Len(queue) + 1].n = submits + 1
    BY <2>3, <2>6
  <2>. HIDE DEF Enqueue, sub
  <2>8. NumbersAreTaken'
    <3>1. ASSUME NEW i \in DOMAIN queue'
          PROVE  queue'[i].n <= submits + 1
      <4>1. i \in 1..Len(queue) \/ i = Len(queue) + 1
        BY <1>0, <2>4
      <4>. QED
        BY <1>0, <2>7, <4>1 DEF NumbersAreTaken
    <3>. QED
      BY <1>0, <1>1, <2>1, <3>1 DEF NumbersAreTaken
  <2>9. TurnsInOrder'
    <3>1. ASSUME NEW i \in DOMAIN queue'
          PROVE  queue'[i].n > started
      <4>1. i \in 1..Len(queue) \/ i = Len(queue) + 1
        BY <1>0, <2>4
      <4>. QED
        BY <1>0, <2>7, <4>1 DEF NumbersAreTaken, TurnsInOrder
    <3>2. ASSUME NEW i \in DOMAIN queue', NEW j \in DOMAIN queue', i < j
          PROVE  queue'[i].n < queue'[j].n
      <4>1. i \in 1..Len(queue) /\ (j \in 1..Len(queue) \/ j = Len(queue) + 1)
        BY <1>0, <2>4, <3>2
      <4>. QED
        BY <1>0, <2>7, <3>2, <4>1 DEF NumbersAreTaken, TurnsInOrder
    <3>. QED
      BY <2>1, <3>1, <3>2 DEF TurnsInOrder
  <2>. QED
    BY <1>4, <2>1, <2>5, <2>8, <2>9 DEF NobodyStranded
<1>. QED
  BY <1>2, <1>3, <1>4

LEMMA RemoveQueuedKeeps ==
  ASSUME QueueInv, NEW k \in DOMAIN queue, RemoveQueued(k)
  PROVE  QueueInv'
<1>. USE DEF RemoveQueued, QueueInv
<1>0. /\ Len(queue) \in Nat /\ DOMAIN queue = 1..Len(queue)
      /\ \A i \in DOMAIN queue : queue[i].n \in Nat
      /\ submits \in Nat /\ started \in Nat
  BY QueueShape
<1>1. queue \in Seq(Submission) /\ k \in 1..Len(queue) /\ Len(queue) \in Nat
  BY QueueShape DEF QueueTypeOK
<1>2. /\ queue' \in Seq(Submission) /\ Len(queue') = Len(queue) - 1
      /\ \A i \in 1..(Len(queue) - 1) :
           queue'[i] = IF i < k THEN queue[i] ELSE queue[i + 1]
  BY <1>1, RemoveAtProperties
<1>3. DOMAIN queue' = 1..(Len(queue) - 1)
  BY <1>2, LenProperties
<1>4. QueueTypeOK'
  BY <1>2 DEF QueueTypeOK
<1>. DEFINE was(i) == IF i < k THEN i ELSE i + 1
<1>a. ASSUME NEW i \in DOMAIN queue'
      PROVE  was(i) \in DOMAIN queue /\ queue'[i] = queue[was(i)]
  BY <1>0, <1>1, <1>2, <1>3
<1>b. ASSUME NEW i \in DOMAIN queue', NEW j \in DOMAIN queue', i < j
      PROVE  was(i) < was(j)
  BY <1>0, <1>1, <1>3, <1>b
<1>. HIDE DEF was
<1>5. NumbersAreTaken'
  BY <1>a DEF NumbersAreTaken
<1>6. TurnsInOrder'
  BY <1>a, <1>b DEF TurnsInOrder
<1>7. NobodyStranded'
  BY <1>1, QueueShape DEF NobodyStranded
<1>. QED
  BY <1>4, <1>5, <1>6, <1>7

LEMMA LoopGoesOnKeeps ==
  ASSUME QueueInv, LoopGoesOn
  PROVE  QueueInv'
<1>. USE DEF LoopGoesOn, QueueInv
<1>1. CASE queue = <<>>
  BY <1>1 DEF QueueTypeOK, NumbersAreTaken, TurnsInOrder, NobodyStranded
<1>2. CASE queue # <<>>
  <2>1. /\ queue' = Tail(queue) /\ StartTurn(Head(queue)) /\ submits' = submits
        /\ queue \in Seq(Submission)
    BY <1>2 DEF QueueTypeOK
  <2>2. /\ Len(queue) \in Nat \ {0}
        /\ queue' \in Seq(Submission) /\ Len(queue') = Len(queue) - 1
        /\ \A i \in 1..(Len(queue) - 1) : queue'[i] = queue[i + 1]
        /\ Head(queue) = queue[1]
    BY <1>2, <2>1, HeadTailProperties, LenProperties, EmptySeq
  <2>3. DOMAIN queue' = 1..(Len(queue) - 1)
    BY <2>2, LenProperties
  <2>4. queue[1] \in Submission /\ 1 \in DOMAIN queue
    BY <2>2, QueueShape
  <2>5. QueueTypeOK'
    BY <2>1, <2>2, <2>4 DEF QueueTypeOK, StartTurn, Submission
  <2>6. NumbersAreTaken'
    BY <2>1, <2>2, <2>3, <2>4, QueueShape DEF NumbersAreTaken, StartTurn
  <2>7. TurnsInOrder'
    <3>1. started' = queue[1].n
      BY <2>1, <2>2 DEF StartTurn
    <3>2. \A i \in DOMAIN queue' : /\ i + 1 \in DOMAIN queue /\ 1 < i + 1
                                   /\ queue'[i] = queue[i + 1]
      BY <2>2, <2>3, QueueShape
    <3>3. \A i, j \in DOMAIN queue : i < j => queue[i].n < queue[j].n
      BY DEF TurnsInOrder
    <3>4. \A i, j \in DOMAIN queue' : i < j => i + 1 < j + 1
      BY <2>2, <2>3
    <3>. QED
      BY <2>4, <3>1, <3>2, <3>3, <3>4 DEF TurnsInOrder
  <2>. QED
    BY <2>1, <2>5, <2>6, <2>7 DEF NobodyStranded, StartTurn
<1>. QED
  BY <1>1, <1>2

LEMMA QueueNextInv ==
  ASSUME QueueInv, [QueueNext]_queueVars
  PROVE  QueueInv'
<1>. USE DEF QueueInv
<1>1. CASE TurnEnds
  BY <1>1 DEF TurnEnds, QueueTypeOK, NumbersAreTaken, TurnsInOrder, NobodyStranded
<1>2. CASE BlockUntil
  <2>1. QueueTypeOK'
    BY <1>2, QueueAssumption DEF BlockUntil, QueueTypeOK
  <2>2. NumbersAreTaken'
    BY <1>2, QueueShape DEF BlockUntil, NumbersAreTaken
  <2>. QED
    BY <1>2, <2>1, <2>2 DEF BlockUntil, TurnsInOrder, NobodyStranded
<1>3. CASE Clear
  BY <1>3 DEF Clear, QueueTypeOK, NumbersAreTaken, TurnsInOrder, NobodyStranded
<1>4. CASE UNCHANGED queueVars
  BY <1>4 DEF queueVars, QueueTypeOK, NumbersAreTaken, TurnsInOrder, NobodyStranded
<1>. QED
  BY <1>1, <1>2, <1>3, <1>4, EnqueueKeeps, RemoveQueuedKeeps, LoopGoesOnKeeps
     DEF QueueNext, LoopStep

LEMMA QueueInvariance == QueueSpec => []QueueInv
BY QueueInitInv, QueueNextInv, PTL DEF QueueSpec
-------------------------------------------------------------------------------
\* The queue and the loop keep their types; a payload is running exactly while
\* the loop awaits a turn.
THEOREM QueueTypeCorrect == QueueSpec => []QueueTypeOK
BY QueueInvariance, PTL DEF QueueInv

\* Turns run in the order of submission.
THEOREM TurnsRunInOrder == QueueSpec => []TurnsInOrder
BY QueueInvariance, PTL DEF QueueInv

\* Whoever waits, waits for a loop that is going on.
THEOREM NobodyIsStranded == QueueSpec => []NobodyStranded
BY QueueInvariance, PTL DEF QueueInv
-------------------------------------------------------------------------------
(* The supervisor.                                                         *)

\* A child that was told to stop, and is not gone yet, is awaited by a save
\* that will start another one, or the app quits.
ToldIsAwaited ==
    Suppressed \/ \A c \in Child : children[c] = "told" =>
                    \E v \in Save : save[v] = "stopping" /\ waits[v] = c

\* Children are spawned one after the other and never come back, so that the
\* next one is new; every probe belongs to a child of its own.
SpawnedInOrder ==
    /\ \A c \in Child : children[c] # "unborn" <=> c <= Spawned
    /\ Tracked => children[serve] # "unborn"
    /\ probes <= Spawned

SidecarInv == /\ SidecarTypeOK /\ SpawnedInOrder
              /\ NoOrphanServe /\ ToldIsAwaited /\ DeadIsRespawned

LEMMA CountOfPrefix ==
  ASSUME NEW f, NEW n \in Nat, n <= MaxSpawns,
         \A c \in Child : f[c] # "unborn" <=> c <= n
  PROVE  Cardinality({c \in Child : f[c] # "unborn"}) = n
<1>1. {c \in Child : f[c] # "unborn"} = 1..n
  BY SidecarAssumption DEF Child
<1>2. Cardinality(1..n) = n
  BY FS_Interval
<1>. QED
  BY <1>1, <1>2

LEMMA SpawnedType == Spawned \in Nat
<1>1. IsFiniteSet(Child)
  BY SidecarAssumption, FS_Interval DEF Child
<1>2. IsFiniteSet({c \in Child : children[c] # "unborn"})
  BY <1>1, FS_Subset
<1>. QED
  BY <1>2, FS_CardinalityType DEF Spawned

\* A step that spawns nothing.
LEMMA OrderKept ==
  ASSUME SidecarInv, serve' \in {serve, NoChild}, probes' <= probes, probes' \in Nat,
         \A c \in Child : children'[c] # "unborn" <=> children[c] # "unborn"
  PROVE  SpawnedInOrder'
<1>1. {c \in Child : children'[c] # "unborn"} = {c \in Child : children[c] # "unborn"}
  OBVIOUS
<1>2. Spawned' = Spawned
  BY <1>1 DEF Spawned, Child
<1>3. Spawned \in Nat /\ probes \in Nat
  BY SpawnedType, SidecarAssumption DEF SidecarInv, SidecarTypeOK
<1>4. Tracked' => Tracked /\ serve' = serve /\ serve \in Child
  BY DEF Tracked, SidecarInv, SidecarTypeOK
<1>. HIDE DEF Spawned
<1>. QED
  BY <1>2, <1>3, <1>4 DEF SidecarInv, SpawnedInOrder, Child

LEMMA SidecarInitInv == SidecarInit => SidecarInv
<1>1. ASSUME SidecarInit
      PROVE  SidecarTypeOK
  <2>1. 1 \in Child
    BY SidecarAssumption DEF Child
  <2>2. 0 \in 0..MaxRespawns /\ 0 \in 0..MaxSpawns /\ 0 \in 0..MaxCrashes
    BY SidecarAssumption
  <2>. QED
    BY <1>1, <2>1, <2>2 DEF SidecarInit, SidecarTypeOK
<1>2. ASSUME SidecarInit
      PROVE  NoOrphanServe /\ ToldIsAwaited
  BY <1>2 DEF SidecarInit, NoOrphanServe, ToldIsAwaited
<1>3. ASSUME SidecarInit
      PROVE  DeadIsRespawned
  BY <1>3, SidecarAssumption DEF SidecarInit, DeadIsRespawned, Tracked
<1>4. ASSUME SidecarInit
      PROVE  SpawnedInOrder
  <2>1. \A c \in Child : children[c] # "unborn" <=> c <= 1
    BY <1>4, SidecarAssumption DEF SidecarInit, Child
  <2>2. Spawned = 1
    BY <2>1, CountOfPrefix, SidecarAssumption DEF Spawned
  <2>. QED
    BY <1>4, <2>1, <2>2, SidecarAssumption DEF SidecarInit, SpawnedInOrder, Child
<1>. QED
  BY <1>1, <1>2, <1>3, <1>4 DEF SidecarInv

\* Whoever calls start() has a tracked child after it, and nobody else's child
\* is touched.
LEMMA StartProperties ==
  ASSUME SidecarInv, quit # "done", Start
  PROVE  /\ serve' \in Child
         /\ children' \in [Child -> {"unborn", "alive", "told", "dead"}]
         /\ \A c \in Child : children'[c] = "alive" => c = serve'
         /\ \A c \in Child : children'[c] = "told" => children[c] = "told"
         /\ \A c \in Child : children'[c] # "unborn" <=> c <= Spawned'
         /\ children'[serve'] # "unborn"
         /\ Spawned' = (IF Tracked THEN Spawned ELSE Spawned + 1)
<1>. USE DEF SidecarInv, SidecarTypeOK, NoOrphanServe
<1>1. CASE Tracked
  BY <1>1 DEF Start, Tracked, SpawnedInOrder, Spawned, Child
<1>2. CASE ~Tracked
  <2>1. Spawned + 1 \in Child /\ Spawned \in Nat /\ Spawned + 1 <= MaxSpawns
    BY <1>2, SpawnedType, SidecarAssumption DEF Start, Child
  <2>2. serve' = Spawned + 1 /\ children' = [children EXCEPT ![Spawned + 1] = "alive"]
    BY <1>2 DEF Start
  <2>3. serve \notin Child
    BY <1>2, SidecarAssumption DEF Tracked, Child
  <2>. HIDE DEF Spawned
  <2>4. \A c \in Child : children'[c] # "unborn" <=> c <= Spawned + 1
    BY <2>1, <2>2 DEF SpawnedInOrder, Child
  <2>5. Spawned' = Spawned + 1
    <3>1. Cardinality({c \in Child : children'[c] # "unborn"}) = Spawned + 1
      BY <2>1, <2>4, CountOfPrefix
    <3>. QED
      BY <3>1 DEF Spawned
  <2>6. /\ serve' \in Child /\ children'[serve'] # "unborn"
        /\ children' \in [Child -> {"unborn", "alive", "told", "dead"}]
        /\ \A c \in Child : children'[c] = "alive" => c = serve'
        /\ \A c \in Child : children'[c] = "told" => children[c] = "told"
    BY <2>1, <2>2, <2>3
  <2>. QED
    BY <1>2, <2>4, <2>5, <2>6
<1>. QED
  BY <1>1, <1>2

\* Whoever calls stop() leaves no child alive.
LEMMA StopProperties ==
  ASSUME SidecarInv, NEW x \in Stopper, Stop(x)
  PROVE  /\ serve' = NoChild /\ waits' \in [Stopper -> Child \cup {NoChild}]
         /\ children' \in [Child -> {"unborn", "alive", "told", "dead"}]
         /\ \A c \in Child : children'[c] # "alive"
         /\ \A c \in Child : children'[c] = "told" => children[c] = "told" \/ waits'[x] = c
         /\ \A y \in Stopper : y # x => waits'[y] = waits[y]
         /\ \A c \in Child : children'[c] # "unborn" <=> children[c] # "unborn"
<1>. USE DEF SidecarInv, SidecarTypeOK, NoOrphanServe, Stop
<1>1. CASE Tracked
  BY <1>1 DEF Tracked, SpawnedInOrder
<1>2. CASE ~Tracked
  <2>1. serve \notin Child
    BY <1>2, SidecarAssumption DEF Tracked, Child
  <2>. QED
    BY <1>2, <2>1
<1>. QED
  BY <1>1, <1>2

LEMMA ExitKeeps ==
  ASSUME SidecarInv, quit # "done", NEW c \in Child, Exit(c), children[c] # "unborn",
         crashes' \in 0..MaxCrashes
  PROVE  SidecarInv'
<1>. USE DEF SidecarInv, Exit
<1>1. respawns' \in 0..MaxRespawns /\ timer' \in BOOLEAN
  <2>1. timer \in BOOLEAN /\ respawns \in 0..MaxRespawns
    BY DEF SidecarTypeOK
  <2>2. \/ timer' = timer /\ respawns' = respawns
        \/ timer' = TRUE /\ respawns' = respawns + 1 /\ ~(respawns >= MaxRespawns)
    BY DEF ScheduleRespawn
  <2>3. respawns' \in 0..MaxRespawns
    BY <2>1, <2>2, SidecarAssumption
  <2>4. timer' \in BOOLEAN
    BY <2>1, <2>2
  <2>. QED
    BY <2>3, <2>4
<1>2. serve' = (IF serve = c THEN NoChild ELSE serve)
      /\ children' = [children EXCEPT ![c] = "dead"]
      /\ UNCHANGED <<probes, save, waits, quit>>
  OBVIOUS
<1>3. SidecarTypeOK'
  BY <1>1, <1>2 DEF SidecarTypeOK
<1>4. NoOrphanServe' /\ ToldIsAwaited'
  BY <1>2 DEF NoOrphanServe, ToldIsAwaited, SidecarTypeOK, Suppressed
<1>5. DeadIsRespawned'
  <2>1. CASE serve = c
    BY <1>2, <2>1 DEF DeadIsRespawned, ScheduleRespawn, Suppressed
  <2>2. CASE serve # c
    BY <1>2, <2>2 DEF DeadIsRespawned, Tracked, Suppressed
  <2>. QED
    BY <2>1, <2>2
<1>6. SpawnedInOrder'
  <2>1. \A d \in Child : children'[d] # "unborn" <=> children[d] # "unborn"
    BY <1>2 DEF SidecarTypeOK
  <2>. QED
    BY <1>2, <2>1, OrderKept, SidecarAssumption DEF SidecarTypeOK
<1>. QED
  BY <1>3, <1>4, <1>5, <1>6

LEMMA RespawnKeeps ==
  ASSUME SidecarInv, quit # "done", Respawn
  PROVE  SidecarInv'
<1>. USE DEF SidecarInv, Respawn
<1>1. CASE Suppressed \/ Tracked
  <2>1. SidecarTypeOK' /\ NoOrphanServe' /\ ToldIsAwaited' /\ DeadIsRespawned'
    BY <1>1 DEF SidecarTypeOK, NoOrphanServe, ToldIsAwaited, DeadIsRespawned, Suppressed,
                Tracked
  <2>2. SpawnedInOrder'
    BY <1>1, OrderKept, SidecarAssumption DEF SidecarTypeOK
  <2>. QED
    BY <2>1, <2>2
<1>2. CASE ~(Suppressed \/ Tracked)
  <2>1. Start /\ probes' = probes + 1
    BY <1>2
  <2>2. /\ serve' \in Child
        /\ children' \in [Child -> {"unborn", "alive", "told", "dead"}]
        /\ \A c \in Child : children'[c] = "alive" => c = serve'
        /\ \A c \in Child : children'[c] = "told" => children[c] = "told"
        /\ \A c \in Child : children'[c] # "unborn" <=> c <= Spawned'
        /\ children'[serve'] # "unborn" /\ Spawned' = Spawned + 1
    BY <1>2, <2>1, StartProperties
  <2>3. Spawned \in Nat /\ probes <= Spawned /\ probes \in Nat
    BY SpawnedType, SidecarAssumption DEF SpawnedInOrder, SidecarTypeOK
  <2>. HIDE DEF Spawned
  <2>4. probes' \in 0..MaxSpawns
    BY <1>2, <2>1, <2>3, SidecarAssumption DEF Start
  <2>5. SidecarTypeOK'
    BY <2>2, <2>4 DEF SidecarTypeOK
  <2>6. SpawnedInOrder'
    BY <2>1, <2>2, <2>3 DEF SpawnedInOrder, Child
  <2>. QED
    BY <1>2, <2>2, <2>5, <2>6, SidecarAssumption
       DEF NoOrphanServe, ToldIsAwaited, DeadIsRespawned, Suppressed, Tracked, Child
<1>. QED
  BY <1>1, <1>2

LEMMA ProbeEndsKeeps ==
  ASSUME SidecarInv, ProbeEnds
  PROVE  SidecarInv'
<1>. USE DEF SidecarInv, ProbeEnds
<1>1. SidecarTypeOK'
  BY SidecarAssumption DEF SidecarTypeOK
<1>2. NoOrphanServe' /\ ToldIsAwaited'
  BY DEF NoOrphanServe, ToldIsAwaited, Suppressed
<1>3. DeadIsRespawned'
  <2>1. CASE Tracked \/ Suppressed \/ respawns' = respawns
    BY <2>1 DEF DeadIsRespawned, Tracked, Suppressed
  <2>2. ASSUME ~Tracked, ~Suppressed,
               NEW c \in Child, children[c] \in {"alive", "told"}
        PROVE  \E v \in Save : save'[v] = "stopping"
    <3>1. children[c] # "alive"
      BY <2>2, SidecarAssumption DEF NoOrphanServe, Tracked, Child
    <3>. QED
      BY <2>2, <3>1 DEF ToldIsAwaited
  <2>. QED
    BY <2>1, <2>2 DEF DeadIsRespawned
<1>4. SpawnedInOrder'
  BY OrderKept, SidecarAssumption DEF SidecarTypeOK
<1>. QED
  BY <1>1, <1>2, <1>3, <1>4

\* stop() on behalf of a save: a restart, or a reload that failed.
LEMMA SaveStopKeeps ==
  ASSUME SidecarInv, NEW v \in Save, save[v] \in {"idle", "reload"},
         Stop(v), SaveTo(v, "stopping"), UNCHANGED <<probes, quit, crashes>>
  PROVE  SidecarInv'
<1>. USE DEF SidecarInv
<1>1. /\ serve' = NoChild /\ waits' \in [Stopper -> Child \cup {NoChild}]
      /\ children' \in [Child -> {"unborn", "alive", "told", "dead"}]
      /\ \A c \in Child : children'[c] # "alive"
      /\ \A c \in Child : children'[c] = "told" => children[c] = "told" \/ waits'[v] = c
      /\ \A y \in Stopper : y # v => waits'[y] = waits[y]
      /\ \A c \in Child : children'[c] # "unborn" <=> children[c] # "unborn"
  BY StopProperties DEF Stopper
<1>2. /\ timer' = FALSE /\ respawns' = 0
      /\ save' = [save EXCEPT ![v] = "stopping"]
  BY DEF Stop, SaveTo
<1>3. save'[v] = "stopping" /\ \A u \in Save : u # v => save'[u] = save[u]
  BY <1>2 DEF SidecarTypeOK
<1>4. SidecarTypeOK' /\ SpawnedInOrder'
  <2>1. save' \in [Save -> {"idle", "reload", "stopping", "wait", "saved"}]
    BY <1>2 DEF SidecarTypeOK
  <2>2. probes' = probes /\ probes \in 0..MaxSpawns /\ quit' = quit /\ crashes' = crashes
    BY DEF SidecarTypeOK
  <2>3. SpawnedInOrder'
    BY <1>1, <2>2, OrderKept, SidecarAssumption
  <2>4. 0 \in 0..MaxRespawns
    BY SidecarAssumption
  <2>. QED
    BY <1>1, <1>2, <2>1, <2>2, <2>3, <2>4 DEF SidecarTypeOK
<1>5. NoOrphanServe' /\ DeadIsRespawned'
  BY <1>1, <1>3 DEF NoOrphanServe, DeadIsRespawned
<1>6. ToldIsAwaited'
  BY <1>1, <1>3 DEF ToldIsAwaited, Suppressed, Stopper
<1>. QED
  BY <1>4, <1>5, <1>6

\* start() on behalf of a save.
LEMMA SaveStartKeeps ==
  ASSUME SidecarInv, quit # "done", NEW v \in Save,
         \/ save[v] = "idle"
         \/ save[v] = "stopping" /\ StopDone(v),
         Start, SaveTo(v, "wait"),
         UNCHANGED <<timer, respawns, probes, waits, quit, crashes>>
  PROVE  SidecarInv'
<1>. USE DEF SidecarInv
<1>1. /\ serve' \in Child
      /\ children' \in [Child -> {"unborn", "alive", "told", "dead"}]
      /\ \A c \in Child : children'[c] = "alive" => c = serve'
      /\ \A c \in Child : children'[c] = "told" => children[c] = "told"
      /\ \A c \in Child : children'[c] # "unborn" <=> c <= Spawned'
      /\ children'[serve'] # "unborn" /\ Spawned' \in {Spawned, Spawned + 1}
  BY StartProperties
<1>2. save' = [save EXCEPT ![v] = "wait"]
  BY DEF SaveTo
<1>3. SidecarTypeOK' /\ SpawnedInOrder'
  <2>1. Spawned \in Nat /\ probes <= Spawned /\ probes \in Nat
    BY SpawnedType, SidecarAssumption DEF SpawnedInOrder, SidecarTypeOK
  <2>. HIDE DEF Spawned
  <2>2. SpawnedInOrder'
    BY <1>1, <2>1 DEF SpawnedInOrder, Child
  <2>. QED
    BY <1>1, <1>2, <2>2 DEF SidecarTypeOK
<1>4. NoOrphanServe' /\ DeadIsRespawned'
  BY <1>1, SidecarAssumption DEF NoOrphanServe, DeadIsRespawned, Tracked, Child
<1>5. ToldIsAwaited'
  <2>1. ASSUME NEW c \in Child, children'[c] = "told", ~Suppressed
        PROVE  \E u \in Save : save'[u] = "stopping" /\ waits'[u] = c
    <3>1. children[c] = "told"
      BY <1>1, <2>1
    <3>2. PICK u \in Save : save[u] = "stopping" /\ waits[u] = c
      BY <2>1, <3>1 DEF ToldIsAwaited
    <3>3. u # v
      BY <3>1, <3>2 DEF StopDone
    <3>. QED
      BY <1>2, <3>2, <3>3 DEF SidecarTypeOK
  <2>. QED
    BY <2>1 DEF ToldIsAwaited, Suppressed
<1>. QED
  BY <1>3, <1>4, <1>5

\* The steps of a save that neither stop nor start a child.
LEMMA SaveMovesKeeps ==
  ASSUME SidecarInv, NEW v \in Save, save[v] # "stopping",
         NEW pc \in {"reload", "wait", "saved"}, SaveTo(v, pc),
         UNCHANGED <<serve, children, timer, respawns, probes, waits, quit, crashes>>
  PROVE  SidecarInv'
<1>. USE DEF SidecarInv, SaveTo
<1>1. SidecarTypeOK'
  BY DEF SidecarTypeOK
<1>2. \A u \in Save : save[u] = "stopping" => save'[u] = "stopping"
  BY DEF SidecarTypeOK
<1>3. NoOrphanServe'
  BY DEF NoOrphanServe
<1>4. ToldIsAwaited' /\ DeadIsRespawned'
  BY <1>2 DEF ToldIsAwaited, DeadIsRespawned, Suppressed, Tracked
<1>5. SpawnedInOrder'
  BY OrderKept, SidecarAssumption DEF SidecarTypeOK
<1>. QED
  BY <1>1, <1>3, <1>4, <1>5

LEMMA QuitKeeps ==
  ASSUME SidecarInv, quit # "done", QuitStops \/ TerminateForExit
  PROVE  SidecarInv'
<1>. USE DEF SidecarInv
<1>1. Suppressed'
  BY DEF QuitStops, TerminateForExit, Suppressed
<1>2. CASE QuitStops
  <2>1. /\ serve' = NoChild /\ waits' \in [Stopper -> Child \cup {NoChild}]
        /\ children' \in [Child -> {"unborn", "alive", "told", "dead"}]
        /\ \A c \in Child : children'[c] # "alive"
        /\ \A c \in Child : children'[c] # "unborn" <=> children[c] # "unborn"
    BY <1>2, StopProperties DEF QuitStops, Stopper
  <2>2. SidecarTypeOK' /\ SpawnedInOrder'
    <3>1. /\ timer' = FALSE /\ respawns' = 0 /\ quit' = "stopping"
          /\ probes' = probes /\ save' = save /\ crashes' = crashes
      BY <1>2 DEF QuitStops, Stop
    <3>2. SpawnedInOrder'
      BY <2>1, <3>1, OrderKept, SidecarAssumption DEF SidecarTypeOK
    <3>3. 0 \in 0..MaxRespawns
      BY SidecarAssumption
    <3>. QED
      BY <2>1, <3>1, <3>2, <3>3 DEF SidecarTypeOK
  <2>. QED
    BY <1>1, <2>1, <2>2 DEF NoOrphanServe, ToldIsAwaited, DeadIsRespawned
<1>3. CASE TerminateForExit
  <2>1. SidecarTypeOK'
    BY <1>3, SidecarAssumption DEF TerminateForExit, SidecarTypeOK, Tracked
  <2>2. NoOrphanServe'
    BY <1>3, SidecarAssumption
       DEF TerminateForExit, NoOrphanServe, Tracked, Child, SidecarTypeOK
  <2>3. SpawnedInOrder'
    <3>1. \A c \in Child : children'[c] # "unborn" <=> children[c] # "unborn"
      BY <1>3 DEF TerminateForExit, SpawnedInOrder, SidecarTypeOK
    <3>. QED
      BY <1>3, <3>1, OrderKept, SidecarAssumption DEF TerminateForExit, SidecarTypeOK
  <2>. QED
    BY <1>1, <2>1, <2>2, <2>3 DEF ToldIsAwaited, DeadIsRespawned
<1>. QED
  BY <1>2, <1>3

LEMMA SidecarNextInv ==
  ASSUME SidecarInv, [SidecarNext]_sidecarVars
  PROVE  SidecarInv'
<1>1. CASE UNCHANGED sidecarVars
  BY <1>1 DEF sidecarVars, SidecarInv, SidecarTypeOK, NoOrphanServe, ToldIsAwaited,
              DeadIsRespawned, Suppressed, Tracked, SpawnedInOrder, Spawned
<1>2. ASSUME quit # "done", NEW v \in Save,
             \/ SaveRestart(v) \/ SaveReload(v) \/ ReloadFails(v)
             \/ ReloadWorks(v) \/ SaveStarts(v) \/ SaveHealthChecked(v)
      PROVE  SidecarInv'
  <2>1. CASE SaveRestart(v) \/ ReloadFails(v)
    BY <2>1, SaveStopKeeps DEF SaveRestart, ReloadFails
  <2>2. CASE SaveReload(v) /\ Tracked
    BY <2>2, SaveMovesKeeps DEF SaveReload
  <2>3. CASE SaveReload(v) /\ ~Tracked
    BY <1>2, <2>3, SaveStartKeeps DEF SaveReload
  <2>4. CASE ReloadWorks(v) \/ SaveHealthChecked(v)
    BY <2>4, SaveMovesKeeps DEF ReloadWorks, SaveHealthChecked
  <2>5. CASE SaveStarts(v)
    BY <1>2, <2>5, SaveStartKeeps DEF SaveStarts
  <2>. QED
    BY <1>2, <2>1, <2>2, <2>3, <2>4, <2>5
<1>3. ASSUME quit # "done", NEW c \in Child, Stops(c) \/ PortTaken(c) \/ Crashes(c)
      PROVE  SidecarInv'
  <2>1. Exit(c) /\ crashes' \in 0..MaxCrashes /\ children[c] # "unborn"
    BY <1>3, SidecarAssumption DEF Stops, PortTaken, Crashes, SidecarInv, SidecarTypeOK
  <2>. QED
    BY <1>3, <2>1, ExitKeeps
<1>. QED
  BY <1>1, <1>2, <1>3, RespawnKeeps, ProbeEndsKeeps, QuitKeeps DEF SidecarNext

LEMMA SidecarInvariance == SidecarSpec => []SidecarInv
BY SidecarInitInv, SidecarNextInv, PTL DEF SidecarSpec
-------------------------------------------------------------------------------
\* The supervisor keeps its types; in particular it spawns no child beyond the
\* bound, and does not count respawns beyond their limit.
THEOREM SidecarTypeCorrect == SidecarSpec => []SidecarTypeOK
BY SidecarInvariance, PTL DEF SidecarInv

\* The user is not left without a sidecar, nor with nobody who will start one.
THEOREM DeadIsAlwaysRespawned == SidecarSpec => []DeadIsRespawned
BY SidecarInvariance, PTL DEF SidecarInv

\* No serve process runs on untracked, nor after the app has exited.
THEOREM NoOrphanIsLeft == SidecarSpec => []NoOrphanServe
BY SidecarInvariance, PTL DEF SidecarInv

-------------------------------------------------------------------------------
(***************************************************************************)
(* All six together.                                                       *)
(***************************************************************************)

(* A step of MCParts is a step of one component, which the others do not   *)
(* notice.                                                                 *)
LEMMA OnePartMoves ==
  ASSUME [PartsNext]_partsVars
  PROVE  /\ [Next]_vars /\ [McpNext]_mcpVars /\ [SchedNext]_schedVars
         /\ [InboxNext]_inboxVars /\ [QueueNext]_queueVars /\ [SidecarNext]_sidecarVars
<1>1. CASE UNCHANGED partsVars
  BY <1>1 DEF partsVars
<1>2. CASE PartsNext
  BY <1>2 DEF PartsNext
<1>. QED  BY <1>1, <1>2

(* What MCParts checks of its six components together is what the theorems *)
(* above say of each: a behaviour of MCParts is a behaviour of every one   *)
(* of them, whichever of them moves.                                       *)
THEOREM PartsAreIndependent ==
  PartsSpec => Spec /\ McpSpec /\ SchedSpec /\ InboxSpec /\ QueueSpec /\ SidecarSpec
<1>1. PartsInit => Init /\ McpInit /\ SchedInit /\ InboxInit /\ QueueInit /\ SidecarInit
  BY DEF PartsInit
<1>2. [PartsNext]_partsVars => /\ [Next]_vars /\ [McpNext]_mcpVars /\ [SchedNext]_schedVars
                               /\ [InboxNext]_inboxVars /\ [QueueNext]_queueVars
                               /\ [SidecarNext]_sidecarVars
  BY OnePartMoves
<1>. QED
  BY <1>1, <1>2, PTL DEF PartsSpec, Spec, McpSpec, SchedSpec, InboxSpec, QueueSpec, SidecarSpec

(* Whichever of the six components moves, and however its steps interleave,*)
(* the rows, tables, queues and maps of all keep the types that the code   *)
(* declares for them.                                                      *)
THEOREM PartsTypeCorrect == PartsSpec => []PartsTypeOK
<1>1. STypeOK /\ McpTypeOK /\ SchedTypeOK /\ InboxTypeOK /\ QueueTypeOK /\ SidecarTypeOK
        => PartsTypeOK
  BY DEF PartsTypeOK
<1>. QED
  BY <1>1, PartsAreIndependent, TypeCorrect, McpTypeCorrect, SchedTypeCorrect,
     InboxTypeCorrect, QueueTypeCorrect, SidecarTypeCorrect, PTL
===============================================================================
