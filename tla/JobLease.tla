------------------------------- MODULE JobLease -------------------------------
(***************************************************************************)
(* The jobs table and the operations of cometmind/internal/jobs on it.     *)
(*                                                                         *)
(* Every process opens the database with one connection, so one SQL        *)
(* statement is one atomic step, and any number of goroutines of the serve *)
(* and the gateway process interleave between statements.  A Service       *)
(* method that reads the row and then updates it is therefore two steps,   *)
(* and what it read may be stale when the UPDATE runs: the UPDATE is       *)
(* guarded by its own WHERE clause only.  A "call" is one goroutine inside *)
(* a Service method; proc[c] says where it is and what it has read.        *)
(*                                                                         *)
(* Time: lease and retry hold the time LEFT until lease_expires_at and     *)
(* next_retry_at, and Tick lets one unit of it pass for every row and for  *)
(* every deadline a call has already computed.  No clock grows, and the    *)
(* model is finite without a bound on time.                                *)
(***************************************************************************)
EXTENDS Integers

CONSTANTS
  Job,               \* ids of jobs rows
  Session,           \* session ids that claim jobs
  Handler,           \* goroutines serving HTTP, tool and worker calls
  Maintainer,        \* the jobs maintenance goroutine of each process
  Mortal,            \* the calls that may die between two statements
  None,              \* the SQL NULL
  LeaseDuration,     \* settings: leaseMinutes
  MaxFailures,       \* settings: maxConsecutiveFailures
  RetryCooldown,     \* settings: retryCooldownMinutes
  MaxRetryCooldown,  \* settings: maxRetryCooldownMinutes
  FailureBound       \* bound of the model on failure_count

\* The accessors of the settings replace non-positive values by defaults.
ASSUME SettingsAssumption ==
  /\ LeaseDuration \in Nat \ {0}
  /\ MaxFailures \in Nat \ {0}
  /\ RetryCooldown \in Nat \ {0}
  /\ MaxRetryCooldown \in Nat \ {0}
  /\ FailureBound \in Nat

ASSUME NoneAssumption == None \notin Session \cup Job \cup Int

ASSUME CallAssumption == Mortal \subseteq Handler \cup Maintainer

VARIABLES
  job,   \* the jobs table: a row for every id
  proc   \* what each call is doing

vars == <<job, proc>>

Call == Handler \cup Maintainer

-------------------------------------------------------------------------------
(* The rows. *)

Lease == {None} \cup (-1 .. LeaseDuration)  \* NULL, run out, time left
Cooldown == 0 .. MaxRetryCooldown           \* 0: NULL or already passed

Row == [ status   : {"absent", "todo", "ongoing", "blocked", "done", "purged"},
         assignee : Session \cup {None},
         lease    : Lease,
         failures : Nat,
         retry    : Cooldown,
         archived : BOOLEAN,
         deleted  : BOOLEAN ]

EmptyRow(status) ==
  [ status |-> status, assignee |-> None, lease |-> None, failures |-> 0,
    retry |-> 0, archived |-> FALSE, deleted |-> FALSE ]

\* "deleted_at IS NULL AND archived_at IS NULL AND status = st"
Listed(j, st) == /\ job[j].status = st
                 /\ ~job[j].deleted
                 /\ ~job[j].archived

Exists(j) == job[j].status \notin {"absent", "purged"}

\* Mutant of Expired: the comparison with now is the wrong way round.
ExpiredSwapped(j) == Listed(j, "ongoing") /\ job[j].lease # None /\ job[j].lease > 0

\* lease_expires_at is set and lies before now.
Expired(j) == Listed(j, "ongoing") /\ job[j].lease # None /\ job[j].lease < 0

\* The SET clauses of jobs.sql.
ClaimedRow(r, s) ==
  [r EXCEPT !.status = "ongoing", !.assignee = s, !.lease = LeaseDuration]
ReleasedRow(r) ==
  [r EXCEPT !.status = "todo", !.assignee = None, !.lease = None]
CompletedRow(r) ==
  [r EXCEPT !.status = "done", !.lease = None, !.failures = 0, !.retry = 0]
FailedRow(r, status, cooldown) ==
  [r EXCEPT !.status = status, !.assignee = None, !.lease = None,
            !.failures = @ + 1, !.retry = cooldown]
ResetRow(r) ==
  [r EXCEPT !.status = "todo", !.assignee = None, !.lease = None,
            !.failures = 0, !.retry = 0]
DeletedRow(r) ==
  [r EXCEPT !.status = IF @ \in {"ongoing", "blocked"} THEN "todo" ELSE @,
            !.assignee = None, !.lease = None, !.failures = 0, !.retry = 0,
            !.archived = FALSE, !.deleted = TRUE]

-------------------------------------------------------------------------------
(* The calls. *)

\* Where a call stands: the statement it runs next.
Statement == {"idle", "list", "pass", "expire", "claim", "release", "fail",
              "progress", "write", "complete", "purge"}

Proc == [ pc      : Statement,
          target  : Job \cup {None},      \* the job id it was called with
          session : Session \cup {None},  \* on behalf of this session
          rows    : SUBSET Job,           \* ids listed and not handled yet
          victim  : Job \cup {None},      \* the row its Reconcile has read
          status  : {"todo", "blocked"},  \* recordWorkerFailure's verdict
          retry   : Cooldown ]            \* and retry deadline

Idle == [ pc |-> "idle", target |-> None, session |-> None, rows |-> {},
          victim |-> None, status |-> "todo", retry |-> 0 ]

\* Call c starts a method on job j for session s, at statement pc.
Enter(c, pc, j, s) ==
  /\ proc[c].pc = "idle"
  /\ proc' = [proc EXCEPT ![c] = [Idle EXCEPT !.pc = pc, !.target = j,
                                              !.session = s]]

Goto(c, pc) == proc' = [proc EXCEPT ![c].pc = pc]
Return(c) == proc' = [proc EXCEPT ![c] = Idle]

\* Get's row, checked by Release, Complete and UpdateProgress.
AssignedTo(j, s) == job[j].status = "ongoing" /\ job[j].assignee = s

\* An UPDATE of row j: matched is its WHERE clause, r the row it leaves.
Update(j, matched, r) ==
  job' = IF matched THEN [job EXCEPT ![j] = r] ELSE job

-------------------------------------------------------------------------------
(* Reconcile: list the ongoing rows, keep those whose lease ran out, and  *)
(* for each of them read the row again and release it.                    *)

\* The maintenance loop, ListReady and the startup recovery call Reconcile.
StartReconcile(c) == Enter(c, "list", None, None) /\ UNCHANGED job

\* Claim calls Reconcile before its own UPDATE.
StartClaim(c, j, s) == Enter(c, "list", j, s) /\ UNCHANGED job

\* ListOngoingJobs, and the clock read right after it.
ListExpired(c) ==
  /\ proc[c].pc = "list"
  /\ proc' = [proc EXCEPT ![c].pc = "pass",
                          ![c].rows = {j \in Job : Expired(j)}]
  /\ UNCHANGED job

\* ReleaseWithClass reads a listed row; a row that is no longer ongoing is
\* skipped.  Neither the lease nor the assignee is looked at again.
ReadExpired(c, j) ==
  /\ proc[c].pc = "pass"
  /\ j \in proc[c].rows
  /\ proc' = [proc EXCEPT ![c].rows = @ \ {j},
                          ![c].pc = IF job[j].status = "ongoing"
                                    THEN "expire" ELSE "pass",
                          ![c].victim = IF job[j].status = "ongoing"
                                        THEN j ELSE None]
  /\ UNCHANGED job

ReleaseExpired(c) ==
  /\ proc[c].pc = "expire"
  /\ LET j == proc[c].victim
     IN  Update(j, Listed(j, "ongoing"), ReleasedRow(job[j]))
  /\ proc' = [proc EXCEPT ![c].pc = "pass", ![c].victim = None]

\* Reconcile returns: into the Claim that called it, or to the caller.
EndReconcile(c) ==
  /\ proc[c].pc = "pass"
  /\ proc[c].rows = {}
  /\ IF proc[c].target = None THEN Return(c) ELSE Goto(c, "claim")
  /\ UNCHANGED job

-------------------------------------------------------------------------------
(* The life of a claim. *)

\* Mutant of Claimable: the WHERE clause forgets next_retry_at.
ClaimableInCooldown(j) == Listed(j, "todo") /\ job[j].assignee = None

\* ClaimJob's WHERE clause.
Claimable(j) == /\ Listed(j, "todo")
                /\ job[j].retry = 0
                /\ job[j].assignee = None

ClaimJob(c) ==
  /\ proc[c].pc = "claim"
  /\ LET j == proc[c].target
     IN  Update(j, Claimable(j), ClaimedRow(job[j], proc[c].session))
  /\ Return(c)

\* One statement, whoever sends it: the tools and handlers right after a
\* claim, the ticker of a running turn, every posted message.
Heartbeat(j, s) ==
  /\ Listed(j, "ongoing")
  /\ job[j].assignee = s
  /\ job' = [job EXCEPT ![j].lease = LeaseDuration]
  /\ UNCHANGED proc

\* Release, and ReleaseForSession after a failed turn.
StartRelease(c, j, s) ==
  /\ AssignedTo(j, s)
  /\ Enter(c, "release", j, s)
  /\ UNCHANGED job

\* Mutant of ReleaseJob: the WHERE clause forgets the status, on the ground
\* that ReleaseWithClass has just checked it.
ReleaseJobOfAnyStatus(c) ==
  /\ proc[c].pc = "release"
  /\ LET j == proc[c].target
     IN  Update(j, Exists(j) /\ ~job[j].deleted, ReleasedRow(job[j]))
  /\ Return(c)

ReleaseJob(c) ==
  /\ proc[c].pc = "release"
  /\ LET j == proc[c].target
     IN  Update(j, Listed(j, "ongoing"), ReleasedRow(job[j]))
  /\ Return(c)

\* Mutant of RetryAfter: the cooldown grows without the maximum.
RetryAfterUncapped(n) == n * RetryCooldown

RetryAfter(n) == IF n * RetryCooldown > MaxRetryCooldown
                 THEN MaxRetryCooldown ELSE n * RetryCooldown

\* ReleaseWithClass(FailureWorkerError): the status and the retry deadline
\* are computed from the row as read; failure_count itself is incremented by
\* the UPDATE.
StartFail(c, j, s) ==
  LET n == job[j].failures + 1
      exhausted == n >= MaxFailures
  IN  /\ AssignedTo(j, s)
      /\ job[j].failures < FailureBound
      /\ proc[c].pc = "idle"
      /\ proc' = [proc EXCEPT ![c] =
            [Idle EXCEPT !.pc = "fail", !.target = j, !.session = s,
                         !.status = IF exhausted THEN "blocked" ELSE "todo",
                         !.retry = IF exhausted THEN 0 ELSE RetryAfter(n)]]
      /\ UNCHANGED job

RecordJobFailure(c) ==
  /\ proc[c].pc = "fail"
  /\ LET j == proc[c].target
     IN  Update(j, Listed(j, "ongoing"),
                FailedRow(job[j], proc[c].status, proc[c].retry))
  /\ Return(c)

\* Complete, with the final progress text or without.
StartComplete(c, j, s) ==
  /\ AssignedTo(j, s)
  /\ \/ Enter(c, "progress", j, s)
     \/ Enter(c, "complete", j, s)
  /\ UNCHANGED job

\* UpdateProgress reads the row once more and gives up if it is not ours.
CheckProgress(c) ==
  /\ proc[c].pc = "progress"
  /\ IF AssignedTo(proc[c].target, proc[c].session)
     THEN Goto(c, "write") ELSE Return(c)
  /\ UNCHANGED job

\* The text itself is not modelled, whether a row matched is.
WriteProgress(c) ==
  /\ proc[c].pc = "write"
  /\ IF Listed(proc[c].target, "ongoing")
     THEN Goto(c, "complete") ELSE Return(c)
  /\ UNCHANGED job

\* Mutant of CompleteJob: the WHERE clause forgets the status.
CompleteJobOfAnyStatus(c) ==
  /\ proc[c].pc = "complete"
  /\ LET j == proc[c].target
     IN  Update(j, Exists(j) /\ ~job[j].deleted, CompletedRow(job[j]))
  /\ Return(c)

CompleteJob(c) ==
  /\ proc[c].pc = "complete"
  /\ LET j == proc[c].target
     IN  Update(j, Listed(j, "ongoing"), CompletedRow(job[j]))
  /\ Return(c)

-------------------------------------------------------------------------------
(* Statements that need no earlier read to be right: their own WHERE       *)
(* clause repeats every check their method made.                           *)

Create(j) ==
  /\ job[j].status = "absent"
  /\ job' = [job EXCEPT ![j] = EmptyRow("todo")]
  /\ UNCHANGED proc

Unblock(j) ==
  /\ Listed(j, "blocked")
  /\ job' = [job EXCEPT ![j] = ResetRow(job[j])]
  /\ UNCHANGED proc

\* Archive, and one iteration of ArchiveDone.
Archive(j) ==
  /\ Listed(j, "done")
  /\ job' = [job EXCEPT ![j].archived = TRUE, ![j].lease = None]
  /\ UNCHANGED proc

Unarchive(j) ==
  /\ job[j].archived /\ ~job[j].deleted
  /\ job' = [job EXCEPT ![j].archived = FALSE]
  /\ UNCHANGED proc

SoftDelete(j) ==
  /\ Exists(j) /\ ~job[j].deleted
  /\ job' = [job EXCEPT ![j] = DeletedRow(job[j])]
  /\ UNCHANGED proc

-------------------------------------------------------------------------------
(* PurgeArchived and PurgeDeleted: list old rows, then DELETE each by id.  *)

\* Which rows are older than the cutoff is not modelled: any may be.
Deleted == {j \in Job : job[j].deleted}
Hidden == {j \in Job : job[j].archived /\ ~job[j].deleted}

ListPurgeable(c) ==
  /\ proc[c].pc = "idle"
  /\ \E rows \in (SUBSET Deleted) \cup (SUBSET Hidden) :
        /\ rows # {}
        /\ proc' = [proc EXCEPT ![c] = [Idle EXCEPT !.pc = "purge",
                                                    !.rows = rows]]
  /\ UNCHANGED job

HardDelete(c, j) ==
  /\ proc[c].pc = "purge"
  /\ j \in proc[c].rows
  /\ job' = [job EXCEPT ![j] = EmptyRow("purged")]
  /\ IF proc[c].rows = {j}
     THEN Return(c)
     ELSE proc' = [proc EXCEPT ![c].rows = @ \ {j}]

-------------------------------------------------------------------------------
(* The environment. *)

\* The process of call c dies, or its context is cancelled, between two
\* statements: the rest of the method never runs.
Crash(c) ==
  /\ c \in Mortal
  /\ proc[c].pc # "idle"
  /\ Return(c)
  /\ UNCHANGED job

LeaseAfterTick(l) == IF l = None THEN None ELSE IF l < 0 THEN -1 ELSE l - 1
RetryAfterTick(r) == IF r = 0 THEN 0 ELSE r - 1

Tick ==
  /\ job' = [j \in Job |->
        [job[j] EXCEPT !.lease = LeaseAfterTick(@), !.retry = RetryAfterTick(@)]]
  /\ proc' = [c \in Call |-> [proc[c] EXCEPT !.retry = RetryAfterTick(@)]]

-------------------------------------------------------------------------------
Init == /\ job = [j \in Job |-> EmptyRow("absent")]
        /\ proc = [c \in Call |-> Idle]

\* What call c does once it has entered a method.
Step(c) ==
  \/ ListExpired(c) \/ (\E j \in Job : ReadExpired(c, j))
  \/ ReleaseExpired(c) \/ EndReconcile(c)
  \/ ClaimJob(c) \/ ReleaseJob(c) \/ RecordJobFailure(c)
  \/ CheckProgress(c) \/ WriteProgress(c) \/ CompleteJob(c)
  \/ (\E j \in Job : HardDelete(c, j))

Request(c, j, s) == \/ StartClaim(c, j, s)
                    \/ StartRelease(c, j, s)
                    \/ StartFail(c, j, s)
                    \/ StartComplete(c, j, s)

Next ==
  \/ \E c \in Call : Step(c) \/ StartReconcile(c) \/ Crash(c)
  \/ \E c \in Maintainer : ListPurgeable(c)
  \/ \E c \in Handler, j \in Job, s \in Session : Request(c, j, s)
  \/ \E j \in Job, s \in Session : Heartbeat(j, s)
  \/ \E j \in Job : Create(j) \/ Unblock(j) \/ Archive(j) \/ Unarchive(j)
                    \/ SoftDelete(j)
  \/ Tick

Spec == Init /\ [][Next]_vars

-------------------------------------------------------------------------------
(* Properties. *)

\* Every row has every column in its range, every call is at a statement.
TypeOK == /\ job \in [Job -> Row]
          /\ proc \in [Call -> Proc]

\* A claim is whole: a row is ongoing exactly while it has a holder and a
\* lease, and it is then visible and past any retry deadline.
ClaimIsWhole(r) ==
  /\ r.status = "ongoing" => /\ r.assignee # None /\ r.retry = 0
                             /\ ~r.archived /\ ~r.deleted
  /\ r.status = "ongoing" <=> r.lease # None

\* Only a finished row outlives its claim with a holder, only finished rows
\* are archived, and no deleted row is ongoing or blocked.
FinishedKeepsItsWorker(r) ==
  /\ r.status = "done" /\ ~r.deleted => r.assignee # None /\ r.failures = 0
  /\ r.assignee # None => r.status \in {"ongoing", "done"}
  /\ r.archived => r.status = "done" /\ ~r.deleted
  /\ r.deleted => r.status \in {"todo", "done"}

\* A retry deadline and a block both come from a counted failure.
FailureIsCounted(r) ==
  /\ r.retry > 0 => r.status = "todo" /\ r.failures > 0 /\ ~r.deleted
  /\ r.status = "blocked" => r.failures > 0

\* RowCoherent: no interleaving of the methods' reads and UPDATEs, however
\* stale the reads, leaves a half-claimed, half-finished or half-failed row
\* (the nine UPDATEs of jobs.sql, each of which sets only some columns).
RowCoherent == \A j \in Job : /\ ClaimIsWhole(job[j])
                              /\ FinishedKeepsItsWorker(job[j])
                              /\ FailureIsCounted(job[j])

\* CooldownServed: the delay recordWorkerFailure imposes is only ever cut
\* short by the clock or by deleting the job; no release, completion, retry
\* or second failure that was already in flight shortens it.
CooldownServed ==
  [][ \A j \in Job :
        job'[j].retry < job[j].retry =>
          \/ job'[j].retry = job[j].retry - 1 /\ job'[j].status = "todo"
          \/ job'[j].deleted ]_vars

\* The column of the board a row is shown in.
BoardState(r) == IF r.deleted THEN "deleted"
                 ELSE IF r.archived THEN "archived" ELSE r.status

\* BoardSpec: through all interleavings the row of a job lives the life of
\* the abstract board: done is final, deleted stays deleted, and a job goes
\* from one session to another only through todo.
Board == INSTANCE JobBoard WITH
  state <- [j \in Job |-> BoardState(job[j])],
  holder <- [j \in Job |-> job[j].assignee]

BoardSpec == Board!Spec

\* ReconcileSparesLiveLease: Reconcile releases a job only when its lease has
\* run out ("releases ongoing jobs whose lease has expired").
ReconcileSparesLiveLease ==
  [][ \A c \in Call :
        ReleaseExpired(c) /\ Listed(proc[c].victim, "ongoing")
          => Expired(proc[c].victim) ]_vars

\* CompletesOwnJob: a session finishes only a job that is assigned to it
\* ("Mark an ongoing job assigned to this session as done").
CompletesOwnJob ==
  [][ \A c \in Call :
        CompleteJob(c) /\ Listed(proc[c].target, "ongoing")
          => job[proc[c].target].assignee = proc[c].session ]_vars
===============================================================================
