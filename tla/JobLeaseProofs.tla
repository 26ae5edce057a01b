---------------------------- MODULE JobLeaseProofs ----------------------------
(***************************************************************************)
(* Proofs about JobLease, for every set of jobs, sessions and calls and    *)
(* every value of the settings.                                            *)
(*                                                                         *)
(* The argument has two halves.  The first (RowsStep) looks at the calls:  *)
(* whatever a call has read and however stale it is, a step of the system  *)
(* changes each row in one of the few ways RowStep lists.  It needs to     *)
(* know that calls carry proper arguments (CallsWellFormed) and that a     *)
(* purge only holds ids of finished or deleted rows (PurgeSafe), because   *)
(* HardDelete has no WHERE clause but the id.  The second half forgets the *)
(* calls: row coherence, the cooldown and the refinement of the board all  *)
(* follow from RowStep alone.                                              *)
(***************************************************************************)
EXTENDS JobLease, TLAPS

-------------------------------------------------------------------------------
(* The strengthening that makes the invariants inductive. *)

CallWellFormed(p) ==
  /\ p.pc \in {"claim", "release", "fail", "progress", "write", "complete"}
       => p.target \in Job
  /\ p.pc \in {"list", "pass", "expire", "claim"} /\ p.target # None
       => p.session \in Session
  /\ p.pc = "expire" => p.victim \in Job
  /\ p.status = "blocked" => p.retry = 0

CallsWellFormed == \A c \in Call : CallWellFormed(proc[c])

Purgeable(r) == r.deleted \/ r.status \in {"done", "purged"}

PurgeSafe == \A c \in Call : proc[c].pc = "purge" =>
               \A j \in proc[c].rows : Purgeable(job[j])

IInv == TypeOK /\ RowCoherent /\ CallsWellFormed /\ PurgeSafe

\* The ways in which one step changes one row.
Shown(r, st) == r.status = st /\ ~r.deleted /\ ~r.archived

ClaimChange(r, q) ==
  /\ Shown(r, "todo") /\ r.retry = 0 /\ r.assignee = None
  /\ \E s \in Session : q = ClaimedRow(r, s)

HolderChange(r, q) ==
  /\ Shown(r, "ongoing")
  /\ \/ q = ReleasedRow(r)
     \/ q = CompletedRow(r)
     \/ q = [r EXCEPT !.lease = LeaseDuration]
     \/ \E st \in {"todo", "blocked"}, d \in Cooldown :
          (st = "blocked" => d = 0) /\ q = FailedRow(r, st, d)

BoardChange(r, q) ==
  \/ r.status = "absent" /\ q = EmptyRow("todo")
  \/ Shown(r, "blocked") /\ q = ResetRow(r)
  \/ Shown(r, "done") /\ q = [r EXCEPT !.archived = TRUE, !.lease = None]
  \/ r.archived /\ ~r.deleted /\ q = [r EXCEPT !.archived = FALSE]
  \/ r.status \notin {"absent", "purged"} /\ ~r.deleted /\ q = DeletedRow(r)
  \/ Purgeable(r) /\ q = EmptyRow("purged")

RowTimePasses(r, q) ==
  q = [r EXCEPT !.lease = LeaseAfterTick(@), !.retry = RetryAfterTick(@)]

RowStep(r, q) == ClaimChange(r, q) \/ HolderChange(r, q) \/ BoardChange(r, q)

RowOK(r) == ClaimIsWhole(r) /\ FinishedKeepsItsWorker(r) /\ FailureIsCounted(r)

-------------------------------------------------------------------------------
(* Rows. *)

\* What a lease and a cooldown are, and what an hour of the clock makes of
\* them; the lemmas about rows need no more.
LEMMA DeadlineFacts ==
  /\ None \in Lease /\ LeaseDuration \in Lease /\ LeaseDuration # None
  /\ \A l \in Lease : /\ LeaseAfterTick(l) \in Lease
                      /\ LeaseAfterTick(l) = None <=> l = None
  /\ 0 \in Cooldown
  /\ \A d \in Cooldown : d \in Nat /\ RetryAfterTick(d) \in Cooldown
  /\ RetryAfterTick(0) = 0
BY SettingsAssumption, NoneAssumption
   DEF Lease, Cooldown, LeaseAfterTick, RetryAfterTick

LEMMA DeadlineConstants ==
  None \in Lease /\ LeaseDuration \in Lease /\ 0 \in Cooldown
BY DeadlineFacts

LEMMA EmptyRowFacts ==
  ASSUME NEW st \in {"todo", "absent", "purged"}
  PROVE  EmptyRow(st) \in Row /\ RowOK(EmptyRow(st))
<1>1. EmptyRow(st) \in Row
  BY DeadlineConstants DEF EmptyRow, Row
<1>2. RowOK(EmptyRow(st))
  BY DEF EmptyRow, RowOK, ClaimIsWhole, FinishedKeepsItsWorker, FailureIsCounted
<1>. QED
  BY <1>1, <1>2

LEMMA RowChangeType ==
  ASSUME NEW r \in Row, NEW q, RowStep(r, q)
  PROVE  q \in Row
<1>1. CASE ClaimChange(r, q)
  BY <1>1, DeadlineConstants DEF ClaimChange, ClaimedRow, Row
<1>2. CASE HolderChange(r, q)
  <2>1. CASE q = ReleasedRow(r)
    BY <2>1, DeadlineConstants DEF ReleasedRow, Row
  <2>2. CASE q = CompletedRow(r)
    BY <2>2, DeadlineConstants DEF CompletedRow, Row
  <2>3. CASE q = [r EXCEPT !.lease = LeaseDuration]
    BY <2>3, DeadlineConstants DEF Row
  <2>4. ASSUME NEW st \in {"todo", "blocked"}, NEW d \in Cooldown,
               q = FailedRow(r, st, d)
        PROVE  q \in Row
    <3>1. r.failures + 1 \in Nat
      BY DEF Row
    <3>. QED
      BY <2>4, <3>1, DeadlineConstants DEF FailedRow, Row
  <2>. QED
    BY <1>2, <2>1, <2>2, <2>3, <2>4 DEF HolderChange
<1>3. CASE BoardChange(r, q)
  <2>. USE DeadlineConstants DEF Row
  <2>1. CASE q = EmptyRow("todo") \/ q = EmptyRow("purged")
    BY <2>1, EmptyRowFacts
  <2>2. CASE q = ResetRow(r)
    BY <2>2 DEF ResetRow
  <2>3. CASE q = [r EXCEPT !.archived = TRUE, !.lease = None]
    BY <2>3
  <2>4. CASE q = [r EXCEPT !.archived = FALSE]
    BY <2>4
  <2>5. CASE q = DeletedRow(r)
    BY <2>5 DEF DeletedRow
  <2>. QED
    BY <1>3, <2>1, <2>2, <2>3, <2>4, <2>5 DEF BoardChange
<1>. QED
  BY <1>1, <1>2, <1>3 DEF RowStep

LEMMA TickType ==
  ASSUME NEW r \in Row, NEW q, RowTimePasses(r, q)
  PROVE  q \in Row
BY DeadlineFacts DEF RowTimePasses, Row

LEMMA RowChangeCoherent ==
  ASSUME NEW r \in Row, NEW q, RowOK(r), RowStep(r, q)
  PROVE  RowOK(q)
<1>. USE DeadlineFacts, NoneAssumption
     DEF RowOK, ClaimIsWhole, FinishedKeepsItsWorker, FailureIsCounted
<1>1. CASE ClaimChange(r, q)
  BY <1>1 DEF ClaimChange, Shown, ClaimedRow, Row
<1>2. CASE HolderChange(r, q)
  <2>. USE <1>2 DEF HolderChange, Shown, Row
  <2>1. CASE q = ReleasedRow(r)
    BY <2>1 DEF ReleasedRow
  <2>2. CASE q = CompletedRow(r)
    BY <2>2 DEF CompletedRow
  <2>3. CASE q = [r EXCEPT !.lease = LeaseDuration]
    BY <2>3
  <2>4. ASSUME NEW st \in {"todo", "blocked"}, NEW d \in Cooldown,
               st = "blocked" => d = 0, q = FailedRow(r, st, d)
        PROVE  RowOK(q)
    <3>1. /\ q.status = st /\ q.assignee = None /\ q.lease = None
          /\ q.retry = d /\ q.failures = r.failures + 1
          /\ q.archived = r.archived /\ q.deleted = r.deleted
      BY <2>4 DEF FailedRow
    <3>2. q.failures > 0 /\ ~q.archived /\ ~q.deleted
      BY <3>1
    <3>. QED
      BY <2>4, <3>1, <3>2
  <2>. QED
    BY <2>1, <2>2, <2>3, <2>4
<1>3. CASE BoardChange(r, q)
  <2>. USE DEF Shown, Row
  <2>1. CASE q = EmptyRow("todo") \/ q = EmptyRow("purged")
    BY <2>1, EmptyRowFacts
  <2>2. CASE Shown(r, "blocked") /\ q = ResetRow(r)
    BY <2>2 DEF ResetRow
  <2>3. CASE Shown(r, "done") /\ q = [r EXCEPT !.archived = TRUE, !.lease = None]
    BY <2>3
  <2>4. CASE r.archived /\ ~r.deleted /\ q = [r EXCEPT !.archived = FALSE]
    BY <2>4
  <2>5. CASE r.status \notin {"absent", "purged"} /\ q = DeletedRow(r)
    BY <2>5 DEF DeletedRow
  <2>. QED
    BY <1>3, <2>1, <2>2, <2>3, <2>4, <2>5 DEF BoardChange
<1>. QED
  BY <1>1, <1>2, <1>3 DEF RowStep

LEMMA TickCoherent ==
  ASSUME NEW r \in Row, NEW q, RowOK(r), RowTimePasses(r, q)
  PROVE  RowOK(q)
BY DeadlineFacts DEF RowOK, ClaimIsWhole, FinishedKeepsItsWorker,
   FailureIsCounted, RowTimePasses, RetryAfterTick, Row

LEMMA PurgeableStays ==
  ASSUME NEW r \in Row, NEW q, Purgeable(r), RowOK(r),
         RowStep(r, q) \/ RowTimePasses(r, q)
  PROVE  Purgeable(q)
<1>. USE DEF Purgeable, Row
<1>1. ~ClaimChange(r, q) /\ ~HolderChange(r, q)
  BY DEF ClaimChange, HolderChange, Shown
<1>4. r.status = "absent" => ~r.deleted
  BY DEF RowOK, FinishedKeepsItsWorker
<1>2. CASE BoardChange(r, q)
  <2>1. CASE q = EmptyRow("todo") /\ r.status = "absent"
    BY <2>1, <1>4
  <2>2. CASE q = EmptyRow("purged")
    BY <2>2 DEF EmptyRow
  <2>3. CASE q = DeletedRow(r)
    BY <2>3 DEF DeletedRow
  <2>4. CASE q = [r EXCEPT !.archived = TRUE, !.lease = None]
             \/ q = [r EXCEPT !.archived = FALSE]
    BY <2>4
  <2>. QED
    BY <1>2, <2>1, <2>2, <2>3, <2>4 DEF BoardChange, Shown
<1>3. CASE RowTimePasses(r, q)
  BY <1>3 DEF RowTimePasses
<1>. QED
  BY <1>1, <1>2, <1>3 DEF RowStep

-------------------------------------------------------------------------------
(* Calls: every step changes at most one row, and in a way RowStep allows. *)

OneRow == \/ UNCHANGED job
          \/ \E j \in Job, q \in Row : /\ RowStep(job[j], q)
                                       /\ job' = [job EXCEPT ![j] = q]

AllTick == /\ job' \in [Job -> Row]
           /\ \A j \in Job : RowTimePasses(job[j], job'[j])

LEMMA OneRowIntro ==
  ASSUME TypeOK, NEW j \in Job, NEW q, RowStep(job[j], q),
         job' = [job EXCEPT ![j] = q]
  PROVE  OneRow
BY RowChangeType DEF OneRow, TypeOK

\* The UPDATEs: a matched WHERE clause is the guard of its row change.
LEMMA StepRow ==
  ASSUME IInv, NEW c \in Call, Step(c)
  PROVE  OneRow
<1>. USE DEF IInv
<1>1. CASE ListExpired(c)
  BY <1>1 DEF ListExpired, OneRow
<1>2. CASE \E j \in Job : ReadExpired(c, j)
  BY <1>2 DEF ReadExpired, OneRow
<1>3. CASE ReleaseExpired(c)
  <2>. DEFINE j == proc[c].victim
  <2>1. j \in Job
    BY <1>3 DEF ReleaseExpired, CallsWellFormed, CallWellFormed
  <2>2. CASE Listed(j, "ongoing")
    <3>1. RowStep(job[j], ReleasedRow(job[j]))
      BY <2>2 DEF RowStep, HolderChange, Shown, Listed
    <3>. QED
      BY <1>3, <2>1, <2>2, <3>1, OneRowIntro DEF ReleaseExpired, Update
  <2>. QED
    BY <1>3, <2>2 DEF ReleaseExpired, Update, OneRow
<1>4. CASE EndReconcile(c)
  BY <1>4 DEF EndReconcile, OneRow
<1>5. CASE ClaimJob(c)
  <2>. DEFINE j == proc[c].target  s == proc[c].session
  <2>1. j \in Job /\ s \in Session
    BY <1>5, NoneAssumption DEF ClaimJob, CallsWellFormed, CallWellFormed
  <2>2. CASE Claimable(j)
    <3>1. RowStep(job[j], ClaimedRow(job[j], s))
      BY <2>1, <2>2 DEF RowStep, ClaimChange, Shown, Listed, Claimable
    <3>. QED
      BY <1>5, <2>1, <2>2, <3>1, OneRowIntro DEF ClaimJob, Update
  <2>. QED
    BY <1>5, <2>2 DEF ClaimJob, Update, OneRow
<1>6. CASE ReleaseJob(c)
  <2>. DEFINE j == proc[c].target
  <2>1. j \in Job
    BY <1>6 DEF ReleaseJob, CallsWellFormed, CallWellFormed
  <2>2. CASE Listed(j, "ongoing")
    <3>1. RowStep(job[j], ReleasedRow(job[j]))
      BY <2>2 DEF RowStep, HolderChange, Shown, Listed
    <3>. QED
      BY <1>6, <2>1, <2>2, <3>1, OneRowIntro DEF ReleaseJob, Update
  <2>. QED
    BY <1>6, <2>2 DEF ReleaseJob, Update, OneRow
<1>7. CASE RecordJobFailure(c)
  <2>. DEFINE j == proc[c].target  st == proc[c].status  d == proc[c].retry
  <2>1. /\ j \in Job /\ st \in {"todo", "blocked"} /\ d \in Cooldown
        /\ st = "blocked" => d = 0
    BY <1>7 DEF RecordJobFailure, CallsWellFormed, CallWellFormed, TypeOK, Proc
  <2>2. CASE Listed(j, "ongoing")
    <3>1. RowStep(job[j], FailedRow(job[j], st, d))
      BY <2>1, <2>2 DEF RowStep, HolderChange, Shown, Listed
    <3>. QED
      BY <1>7, <2>1, <2>2, <3>1, OneRowIntro DEF RecordJobFailure, Update
  <2>. QED
    BY <1>7, <2>2 DEF RecordJobFailure, Update, OneRow
<1>8. CASE CheckProgress(c) \/ WriteProgress(c)
  BY <1>8 DEF CheckProgress, WriteProgress, OneRow
<1>9. CASE CompleteJob(c)
  <2>. DEFINE j == proc[c].target
  <2>1. j \in Job
    BY <1>9 DEF CompleteJob, CallsWellFormed, CallWellFormed
  <2>2. CASE Listed(j, "ongoing")
    <3>1. RowStep(job[j], CompletedRow(job[j]))
      BY <2>2 DEF RowStep, HolderChange, Shown, Listed
    <3>. QED
      BY <1>9, <2>1, <2>2, <3>1, OneRowIntro DEF CompleteJob, Update
  <2>. QED
    BY <1>9, <2>2 DEF CompleteJob, Update, OneRow
<1>10. CASE \E j \in Job : HardDelete(c, j)
  <2>1. PICK j \in Job : HardDelete(c, j)
    BY <1>10
  <2>2. RowStep(job[j], EmptyRow("purged"))
    BY <2>1 DEF HardDelete, PurgeSafe, RowStep, BoardChange
  <2>. QED
    BY <2>1, <2>2, OneRowIntro DEF HardDelete
<1>. QED
  BY <1>1, <1>2, <1>3, <1>4, <1>5, <1>6, <1>7, <1>8, <1>9, <1>10 DEF Step

LEMMA NextRow ==
  ASSUME IInv, Next
  PROVE  OneRow \/ AllTick
<1>. USE DEF IInv
<1>1. CASE \E c \in Call : Step(c) \/ StartReconcile(c) \/ Crash(c)
  BY <1>1, StepRow DEF StartReconcile, Crash, OneRow
<1>2. CASE \E c \in Maintainer : ListPurgeable(c)
  BY <1>2 DEF ListPurgeable, OneRow
<1>3. CASE \E c \in Handler, j \in Job, s \in Session : Request(c, j, s)
  BY <1>3 DEF Request, StartClaim, StartRelease, StartFail, StartComplete, OneRow
<1>4. CASE \E j \in Job, s \in Session : Heartbeat(j, s)
  <2>1. PICK j \in Job, s \in Session : Heartbeat(j, s)
    BY <1>4
  <2>2. RowStep(job[j], [job[j] EXCEPT !.lease = LeaseDuration])
    BY <2>1 DEF Heartbeat, Listed, RowStep, HolderChange, Shown
  <2>. QED
    BY <2>1, <2>2, OneRowIntro DEF Heartbeat
<1>5. ASSUME NEW j \in Job,
             Create(j) \/ Unblock(j) \/ Archive(j) \/ Unarchive(j)
               \/ SoftDelete(j)
      PROVE  OneRow
  <2>. USE DEF RowStep, BoardChange, Shown, Listed
  <2>1. CASE Create(j)
    BY <2>1, OneRowIntro DEF Create
  <2>2. CASE Unblock(j)
    BY <2>2, OneRowIntro DEF Unblock
  <2>3. CASE Archive(j)
    <3>1. job' = [job EXCEPT ![j] =
                    [job[j] EXCEPT !.archived = TRUE, !.lease = None]]
      BY <2>3 DEF Archive, TypeOK, Row
    <3>. QED
      BY <2>3, <3>1, OneRowIntro DEF Archive
  <2>4. CASE Unarchive(j)
    BY <2>4, OneRowIntro DEF Unarchive
  <2>5. CASE SoftDelete(j)
    BY <2>5, OneRowIntro DEF SoftDelete, Exists
  <2>. QED
    BY <1>5, <2>1, <2>2, <2>3, <2>4, <2>5
<1>6. CASE Tick
  <2>1. ASSUME NEW j \in Job
        PROVE  RowTimePasses(job[j], job'[j])
    BY <1>6 DEF Tick, RowTimePasses, TypeOK
  <2>2. job' \in [Job -> Row]
    <3>1. ASSUME NEW j \in Job
          PROVE  job'[j] \in Row
      BY <2>1, TickType DEF TypeOK
    <3>. QED
      BY <1>6, <3>1 DEF Tick
  <2>. QED
    BY <2>1, <2>2 DEF AllTick
<1>. QED
  BY <1>1, <1>2, <1>3, <1>4, <1>5, <1>6 DEF Next

-------------------------------------------------------------------------------
(* Calls: every step moves at most one call, to well-formed local state.   *)

\* What call c may become: whatever it does next, its arguments are there.
CallMove(p) == /\ p \in Proc
               /\ CallWellFormed(p)
               /\ p.pc = "purge" => \A j \in p.rows : Purgeable(job[j])

OneCall == \/ UNCHANGED proc
           \/ \E c \in Call : \E p :
                CallMove(p) /\ proc' = [proc EXCEPT ![c] = p]

CallTick == proc' = [c \in Call |-> [proc[c] EXCEPT !.retry = RetryAfterTick(@)]]

LEMMA OneCallIntro ==
  ASSUME TypeOK, NEW c \in Call, NEW p, CallMove(p),
         proc' = [proc EXCEPT ![c] = p]
  PROVE  OneCall
BY DEF OneCall

LEMMA IdleMove == CallMove(Idle)
BY DeadlineConstants DEF CallMove, CallWellFormed, Idle, Proc, Statement

LEMMA ReturnMove ==
  ASSUME TypeOK, NEW c \in Call, Return(c)
  PROVE  OneCall
BY IdleMove, OneCallIntro DEF Return

LEMMA EnterMove ==
  ASSUME TypeOK, NEW c \in Call, NEW pc \in Statement \ {"expire", "purge"},
         NEW j \in Job \cup {None}, NEW s \in Session \cup {None},
         Enter(c, pc, j, s),
         j = None => pc \in {"list", "pass"},
         j # None => s \in Session
  PROVE  OneCall
<1>. DEFINE p == [Idle EXCEPT !.pc = pc, !.target = j, !.session = s]
<1>1. p \in Proc
  BY DeadlineConstants DEF Idle, Proc, Statement
<1>2. CallMove(p)
  BY <1>1 DEF CallMove, CallWellFormed, Idle
<1>. QED
  BY <1>2, OneCallIntro DEF Enter

LEMMA GotoMove ==
  ASSUME TypeOK, CallsWellFormed, NEW c \in Call,
         NEW pc \in {"claim", "write", "complete"},
         Goto(c, pc), proc[c].target \in Job,
         pc = "claim" => proc[c].session \in Session
  PROVE  OneCall
<1>. DEFINE p == [proc[c] EXCEPT !.pc = pc]
<1>1. p \in Proc
  BY DEF TypeOK, Proc, Statement
<1>2. CallMove(p)
  BY <1>1 DEF CallMove, CallWellFormed, CallsWellFormed, TypeOK, Proc
<1>3. proc' = [proc EXCEPT ![c] = p]
  BY DEF Goto, TypeOK
<1>. QED
  BY <1>2, <1>3, OneCallIntro

LEMMA StepCall ==
  ASSUME IInv, NEW c \in Call, Step(c)
  PROVE  OneCall
<1>. USE DEF IInv
<1>0. proc[c] \in Proc /\ CallWellFormed(proc[c])
  BY DEF TypeOK, CallsWellFormed
<1>1. CASE ListExpired(c)
  <2>. DEFINE p == [proc[c] EXCEPT !.pc = "pass",
                                   !.rows = {j \in Job : Expired(j)}]
  <2>1. CallMove(p)
    BY <1>0, <1>1 DEF ListExpired, CallMove, CallWellFormed, Proc, Statement
  <2>2. proc' = [proc EXCEPT ![c] = p]
    BY <1>1 DEF ListExpired, TypeOK
  <2>. QED
    BY <2>1, <2>2, OneCallIntro
<1>2. CASE \E j \in Job : ReadExpired(c, j)
  <2>1. PICK j \in Job : ReadExpired(c, j)
    BY <1>2
  <2>. DEFINE found == job[j].status = "ongoing"
              p == [proc[c] EXCEPT !.rows = @ \ {j},
                                   !.pc = IF found THEN "expire" ELSE "pass",
                                   !.victim = IF found THEN j ELSE None]
  <2>2. p \in Proc
    BY <1>0 DEF Proc, Statement
  <2>3. CallMove(p)
    BY <1>0, <2>1, <2>2 DEF ReadExpired, CallMove, CallWellFormed, Proc
  <2>4. proc' = [proc EXCEPT ![c] = p]
    BY <2>1 DEF ReadExpired, TypeOK
  <2>. QED
    BY <2>3, <2>4, OneCallIntro
<1>3. CASE ReleaseExpired(c)
  <2>. DEFINE p == [proc[c] EXCEPT !.pc = "pass", !.victim = None]
  <2>1. CallMove(p)
    BY <1>0, <1>3 DEF ReleaseExpired, CallMove, CallWellFormed, Proc, Statement
  <2>2. proc' = [proc EXCEPT ![c] = p]
    BY <1>3 DEF ReleaseExpired, TypeOK
  <2>. QED
    BY <2>1, <2>2, OneCallIntro
<1>4. CASE EndReconcile(c)
  <2>1. CASE proc[c].target = None
    BY <1>4, <2>1, ReturnMove DEF EndReconcile
  <2>2. CASE proc[c].target # None
    <3>1. proc[c].target \in Job /\ proc[c].session \in Session
      BY <1>0, <1>4, <2>2 DEF EndReconcile, CallWellFormed, Proc
    <3>. QED
      BY <1>4, <2>2, <3>1, GotoMove DEF EndReconcile
  <2>. QED
    BY <2>1, <2>2
<1>5. CASE ClaimJob(c) \/ ReleaseJob(c) \/ RecordJobFailure(c) \/ CompleteJob(c)
  BY <1>5, ReturnMove DEF ClaimJob, ReleaseJob, RecordJobFailure, CompleteJob
<1>6. CASE CheckProgress(c) \/ WriteProgress(c)
  <2>1. proc[c].target \in Job
    BY <1>0, <1>6 DEF CheckProgress, WriteProgress, CallWellFormed
  <2>2. Return(c) \/ Goto(c, "write") \/ Goto(c, "complete")
    BY <1>6 DEF CheckProgress, WriteProgress
  <2>. QED
    BY <2>1, <2>2, ReturnMove, GotoMove
<1>7. CASE \E j \in Job : HardDelete(c, j)
  <2>1. PICK j \in Job : HardDelete(c, j)
    BY <1>7
  <2>2. CASE proc[c].rows = {j}
    BY <2>1, <2>2, ReturnMove DEF HardDelete
  <2>3. CASE proc[c].rows # {j}
    <3>. DEFINE p == [proc[c] EXCEPT !.rows = @ \ {j}]
    <3>1. p \in Proc /\ CallWellFormed(p)
      BY <1>0, <2>1 DEF HardDelete, CallWellFormed, Proc
    <3>2. \A k \in p.rows : Purgeable(job[k])
      BY <1>0, <2>1 DEF HardDelete, PurgeSafe, Proc
    <3>3. CallMove(p)
      BY <3>1, <3>2 DEF CallMove
    <3>4. proc' = [proc EXCEPT ![c] = p]
      BY <2>1, <2>3 DEF HardDelete, TypeOK
    <3>. QED
      BY <3>3, <3>4, OneCallIntro
  <2>. QED
    BY <2>2, <2>3
<1>. QED
  BY <1>1, <1>2, <1>3, <1>4, <1>5, <1>6, <1>7 DEF Step

LEMMA RetryAfterType == \A n \in Nat \ {0} : RetryAfter(n) \in Cooldown
<1>1. \A n \in Nat \ {0} : n * RetryCooldown \in Nat
  BY SettingsAssumption
<1>. QED
  BY <1>1, SettingsAssumption DEF RetryAfter, Cooldown

LEMMA RequestCall ==
  ASSUME IInv, NEW c \in Call, NEW j \in Job, NEW s \in Session,
         Request(c, j, s)
  PROVE  OneCall
<1>. USE DEF IInv
<1>0. j # None
  BY NoneAssumption
<1>1. CASE StartClaim(c, j, s)
  BY <1>0, <1>1, EnterMove DEF StartClaim, Statement
<1>2. CASE StartRelease(c, j, s)
  BY <1>0, <1>2, EnterMove DEF StartRelease, Statement
<1>3. CASE StartFail(c, j, s)
  <2>. DEFINE n == job[j].failures + 1
              exhausted == n >= MaxFailures
              p == [Idle EXCEPT !.pc = "fail", !.target = j, !.session = s,
                       !.status = IF exhausted THEN "blocked" ELSE "todo",
                       !.retry = IF exhausted THEN 0 ELSE RetryAfter(n)]
  <2>1. RetryAfter(n) \in Cooldown
    <3>1. n \in Nat \ {0}
      BY DEF TypeOK, Row
    <3>. QED
      BY <3>1, RetryAfterType
  <2>2. p \in Proc
    <3>. HIDE DEF exhausted, n
    <3>. QED
      BY <2>1, DeadlineConstants DEF Idle, Proc, Statement
  <2>3. CallMove(p)
    <3>. HIDE DEF exhausted, n
    <3>. QED
      BY <2>2 DEF CallMove, CallWellFormed, Idle
  <2>4. proc' = [proc EXCEPT ![c] = p]
    BY <1>3 DEF StartFail
  <2>. QED
    BY <2>3, <2>4, OneCallIntro
<1>4. CASE StartComplete(c, j, s)
  BY <1>0, <1>4, EnterMove DEF StartComplete, Statement
<1>. QED
  BY <1>1, <1>2, <1>3, <1>4 DEF Request

LEMMA NextCall ==
  ASSUME IInv, Next
  PROVE  OneCall \/ CallTick
<1>. USE DEF IInv
<1>1. ASSUME NEW c \in Call, StartReconcile(c)
      PROVE  OneCall
  BY <1>1, EnterMove DEF StartReconcile, Statement
<1>2. ASSUME NEW c \in Call, Crash(c)
      PROVE  OneCall
  BY <1>2, ReturnMove DEF Crash
<1>3. ASSUME NEW c \in Maintainer, ListPurgeable(c)
      PROVE  OneCall
  <2>1. PICK rows \in SUBSET Job :
          /\ \A j \in rows : job[j].deleted \/ job[j].archived
          /\ proc' = [proc EXCEPT ![c] = [Idle EXCEPT !.pc = "purge",
                                                      !.rows = rows]]
    BY <1>3 DEF ListPurgeable, Deleted, Hidden
  <2>. DEFINE p == [Idle EXCEPT !.pc = "purge", !.rows = rows]
  <2>2. p \in Proc /\ CallWellFormed(p)
    BY DeadlineConstants DEF Idle, Proc, Statement, CallWellFormed
  <2>3. \A j \in p.rows : Purgeable(job[j])
    BY <2>1 DEF Idle, Purgeable, RowCoherent, FinishedKeepsItsWorker
  <2>4. CallMove(p)
    BY <2>2, <2>3 DEF CallMove
  <2>. QED
    BY <2>1, <2>4, OneCallIntro DEF Call
<1>4. ASSUME NEW c \in Handler, NEW j \in Job, NEW s \in Session,
             Request(c, j, s)
      PROVE  OneCall
  BY <1>4, RequestCall DEF Call
<1>5. ASSUME NEW j \in Job,
             \/ \E s \in Session : Heartbeat(j, s)
             \/ Create(j) \/ Unblock(j) \/ Archive(j) \/ Unarchive(j)
             \/ SoftDelete(j)
      PROVE  OneCall
  BY <1>5 DEF Heartbeat, Create, Unblock, Archive, Unarchive, SoftDelete, OneCall
<1>6. CASE Tick
  BY <1>6 DEF Tick, CallTick
<1>. QED
  BY <1>1, <1>2, <1>3, <1>4, <1>5, <1>6, StepCall DEF Next

-------------------------------------------------------------------------------
(* The inductive invariant. *)

LEMMA InitInv == Init => IInv
<1>. SUFFICES ASSUME Init
              PROVE  IInv
  OBVIOUS
<1>1. EmptyRow("absent") \in Row /\ RowOK(EmptyRow("absent"))
  BY EmptyRowFacts
<1>2. CallMove(Idle) /\ Idle.pc = "idle"
  BY IdleMove DEF Idle
<1>3. TypeOK
  BY <1>1, <1>2 DEF Init, TypeOK, CallMove
<1>4. RowCoherent
  BY <1>1 DEF Init, RowCoherent, RowOK
<1>5. CallsWellFormed
  BY <1>2 DEF Init, CallsWellFormed, CallMove
<1>6. PurgeSafe
  BY <1>2 DEF Init, PurgeSafe
<1>. QED
  BY <1>3, <1>4, <1>5, <1>6 DEF IInv

\* Rows: what holds of every row and survives each change of a row.
LEMMA RowsInductive ==
  ASSUME IInv, Next
  PROVE  /\ job' \in [Job -> Row]
         /\ RowCoherent'
         /\ \A j \in Job : Purgeable(job[j]) => Purgeable(job'[j])
<1>. USE DEF IInv
<1>1. \A j \in Job : job[j] \in Row /\ RowOK(job[j])
  BY DEF TypeOK, RowCoherent, RowOK
<1>2. CASE UNCHANGED job
  BY <1>2 DEF TypeOK, RowCoherent, ClaimIsWhole, FinishedKeepsItsWorker,
     FailureIsCounted
<1>3. CASE \E j \in Job, q \in Row : /\ RowStep(job[j], q)
                                     /\ job' = [job EXCEPT ![j] = q]
  <2>1. PICK j \in Job, q \in Row : /\ RowStep(job[j], q)
                                    /\ job' = [job EXCEPT ![j] = q]
    BY <1>3
  <2>2. RowOK(q)
    BY <1>1, <2>1, RowChangeCoherent
  <2>3. Purgeable(job[j]) => Purgeable(q)
    BY <1>1, <2>1, PurgeableStays
  <2>4. job' \in [Job -> Row]
    BY <2>1 DEF TypeOK
  <2>5. \A k \in Job : job'[k] = IF k = j THEN q ELSE job[k]
    BY <2>1 DEF TypeOK
  <2>6. \A k \in Job : RowOK(job'[k])
    BY <1>1, <2>2, <2>5
  <2>. QED
    BY <2>3, <2>4, <2>5, <2>6 DEF RowCoherent, RowOK
<1>4. CASE AllTick
  <2>1. \A j \in Job : RowOK(job'[j])
    BY <1>1, <1>4, TickCoherent DEF AllTick
  <2>2. \A j \in Job : Purgeable(job[j]) => Purgeable(job'[j])
    BY <1>1, <1>4, PurgeableStays DEF AllTick
  <2>. QED
    BY <1>4, <2>1, <2>2 DEF AllTick, RowCoherent, RowOK
<1>. QED
  BY <1>2, <1>3, <1>4, NextRow DEF OneRow

LEMMA CallsInductive ==
  ASSUME IInv, Next
  PROVE  proc' \in [Call -> Proc] /\ CallsWellFormed' /\ PurgeSafe'
<1>. USE DEF IInv
<1>0. /\ \A c \in Call : proc[c] \in Proc /\ CallWellFormed(proc[c])
      /\ \A j \in Job : Purgeable(job[j]) => Purgeable(job'[j])
  BY RowsInductive DEF TypeOK, CallsWellFormed
<1>1. CASE UNCHANGED proc
  <2>1. CallsWellFormed'
    BY <1>0, <1>1 DEF CallsWellFormed, CallWellFormed
  <2>2. PurgeSafe'
    BY <1>0, <1>1 DEF PurgeSafe, Proc
  <2>. QED
    BY <1>1, <2>1, <2>2 DEF TypeOK
<1>2. CASE \E c \in Call : \E p : CallMove(p) /\ proc' = [proc EXCEPT ![c] = p]
  <2>0. PICK c \in Call : \E p : CallMove(p) /\ proc' = [proc EXCEPT ![c] = p]
    BY <1>2
  <2>1. PICK p : CallMove(p) /\ proc' = [proc EXCEPT ![c] = p]
    BY <2>0
  <2>2. \A d \in Call : proc'[d] = IF d = c THEN p ELSE proc[d]
    BY <2>1 DEF TypeOK
  <2>3. proc' \in [Call -> Proc]
    BY <2>1 DEF CallMove, TypeOK
  <2>4. \A d \in Call : CallWellFormed(proc'[d])
    BY <1>0, <2>1, <2>2 DEF CallMove
  <2>5. ASSUME NEW d \in Call, proc'[d].pc = "purge", NEW j \in proc'[d].rows
        PROVE  Purgeable(job'[j])
    <3>1. Purgeable(job[j])
      BY <2>1, <2>2, <2>5 DEF CallMove, PurgeSafe
    <3>2. j \in Job
      BY <2>3, <2>5 DEF Proc
    <3>. QED
      BY <1>0, <3>1, <3>2
  <2>. QED
    BY <2>3, <2>4, <2>5 DEF CallsWellFormed, PurgeSafe, Purgeable, CallWellFormed
<1>3. CASE CallTick
  <2>1. ASSUME NEW c \in Call
        PROVE  /\ proc'[c] \in Proc /\ CallWellFormed(proc'[c])
               /\ proc'[c].pc = proc[c].pc /\ proc'[c].rows = proc[c].rows
    <3>1. proc'[c] = [proc[c] EXCEPT !.retry = RetryAfterTick(@)]
      BY <1>3 DEF CallTick
    <3>2. /\ RetryAfterTick(proc[c].retry) \in Cooldown
          /\ proc[c].retry = 0 => RetryAfterTick(proc[c].retry) = 0
      BY <1>0, DeadlineFacts DEF Proc
    <3>. QED
      BY <1>0, <3>1, <3>2 DEF Proc, CallWellFormed
  <2>2. proc' \in [Call -> Proc]
    BY <1>3, <2>1 DEF CallTick
  <2>3. ASSUME NEW c \in Call, proc'[c].pc = "purge", NEW j \in proc'[c].rows
        PROVE  Purgeable(job'[j])
    BY <1>0, <2>1, <2>3 DEF PurgeSafe, Proc
  <2>. QED
    BY <2>1, <2>2, <2>3 DEF CallsWellFormed, PurgeSafe, Purgeable, CallWellFormed
<1>. QED
  BY <1>1, <1>2, <1>3, NextCall DEF OneCall

LEMMA IInvInductive == IInv /\ [Next]_vars => IInv'
<1>1. ASSUME IInv, Next
      PROVE  IInv'
  BY <1>1, RowsInductive, CallsInductive DEF IInv, TypeOK
<1>2. ASSUME IInv, UNCHANGED vars
      PROVE  IInv'
  BY <1>2 DEF vars, IInv, TypeOK, RowCoherent, ClaimIsWhole,
     FinishedKeepsItsWorker, FailureIsCounted, CallsWellFormed, CallWellFormed,
     PurgeSafe, Purgeable
<1>. QED
  BY <1>1, <1>2

\* The inductive invariant holds: rows, claims and the calls in flight fit
\* together at every point between two statements of the jobs service.
THEOREM Invariance == Spec => []IInv
BY InitInv, IInvInductive, PTL DEF Spec

-------------------------------------------------------------------------------
(* The theorems. *)

\* Every column stays in its range and every call at a statement, whatever
\* the interleaving.
THEOREM TypeCorrect == Spec => []TypeOK
BY Invariance, PTL DEF IInv

\* No interleaving of stale reads and UPDATEs leaves a half-claimed,
\* half-finished or half-failed row.
THEOREM RowsCoherent == Spec => []RowCoherent
BY Invariance, PTL DEF IInv

\* Every row changes by a RowStep, with the clock, or not at all.
LEMMA RowsStep ==
  ASSUME IInv, [Next]_vars, NEW j \in Job
  PROVE  \/ job'[j] = job[j]
         \/ RowStep(job[j], job'[j])
         \/ RowTimePasses(job[j], job'[j])
<1>1. CASE OneRow
  BY <1>1 DEF OneRow, IInv, TypeOK
<1>2. CASE AllTick
  BY <1>2 DEF AllTick
<1>3. CASE UNCHANGED vars
  BY <1>3 DEF vars
<1>. QED
  BY <1>1, <1>2, <1>3, NextRow

LEMMA RowCooldown ==
  ASSUME NEW r \in Row, NEW q, RowOK(r),
         RowStep(r, q) \/ RowTimePasses(r, q), q.retry < r.retry
  PROVE  (q.retry = r.retry - 1 /\ q.status = "todo") \/ q.deleted
<1>1. r.status = "todo" /\ ~r.deleted /\ r.retry > 0 /\ ~r.archived
  <2>1. r.retry > 0
    <3>1. ASSUME r.retry = 0
          PROVE  FALSE
      <4>1. q \in Row
        BY RowChangeType, TickType
      <4>. QED
        BY <3>1, <4>1, DeadlineFacts DEF Row
    <3>. QED
      BY <3>1, DeadlineFacts DEF Row
  <2>. QED
    BY <2>1 DEF RowOK, FailureIsCounted, FinishedKeepsItsWorker
<1>2. CASE ClaimChange(r, q)
  BY <1>1, <1>2 DEF ClaimChange
<1>3. CASE HolderChange(r, q)
  BY <1>1, <1>3 DEF HolderChange, Shown
<1>4. CASE BoardChange(r, q)
  <2>1. q = DeletedRow(r)
    BY <1>1, <1>4 DEF BoardChange, Shown, Purgeable
  <2>. QED
    BY <2>1 DEF DeletedRow, Row
<1>5. CASE RowTimePasses(r, q)
  BY <1>1, <1>5 DEF RowTimePasses, RetryAfterTick, Row
<1>. QED
  BY <1>2, <1>3, <1>4, <1>5 DEF RowStep

\* No step takes more than a tick from a delay, but for a deletion.
LEMMA CooldownStep ==
  ASSUME IInv, [Next]_vars
  PROVE  \A j \in Job : job'[j].retry < job[j].retry =>
           \/ job'[j].retry = job[j].retry - 1 /\ job'[j].status = "todo"
           \/ job'[j].deleted
<1>. TAKE j \in Job
<1>. HAVE job'[j].retry < job[j].retry
<1>1. job[j] \in Row /\ RowOK(job[j])
  BY DEF IInv, TypeOK, RowCoherent, RowOK
<1>2. job'[j] # job[j]
  BY <1>1, DeadlineFacts DEF Row
<1>. QED
  BY <1>1, <1>2, RowsStep, RowCooldown

\* The delay before a failed job may be claimed again is cut short by the
\* clock or by deletion only, whatever was in flight when the job failed.
THEOREM CooldownIsServed == Spec => CooldownServed
BY CooldownStep, Invariance, PTL DEF Spec, CooldownServed

-------------------------------------------------------------------------------
(* JobLease implements JobBoard. *)

BState == [j \in Job |-> BoardState(job[j])]
BHolder == [j \in Job |-> job[j].assignee]

\* A row moves on the board from one of the states "from" to "to", held by h.
Moves(r, q, from, to, h) ==
  BoardState(r) \in from /\ BoardState(q) = to /\ q.assignee = h

BoardMove(r, q) ==
  \/ BoardState(q) = BoardState(r) /\ q.assignee = r.assignee
  \/ Moves(r, q, {"absent"}, "todo", None)
  \/ \E s \in Session : Moves(r, q, {"todo"}, "ongoing", s)
  \/ Moves(r, q, {"ongoing"}, "todo", None)
  \/ Moves(r, q, {"ongoing"}, "blocked", None)
  \/ Moves(r, q, {"ongoing"}, "done", r.assignee)
  \/ Moves(r, q, {"blocked"}, "todo", None)
  \/ Moves(r, q, {"done"}, "archived", r.assignee)
  \/ Moves(r, q, {"archived"}, "done", r.assignee)
  \/ Moves(r, q, Board!Present, "deleted", None)
  \/ Moves(r, q, {"deleted", "archived", "done"}, "purged", None)

LEMMA RowOnBoard ==
  ASSUME NEW r \in Row, NEW q, RowOK(r), RowStep(r, q)
  PROVE  BoardMove(r, q)
<1>. USE DEF BoardMove, Moves, BoardState
<1>1. CASE ClaimChange(r, q)
  BY <1>1 DEF ClaimChange, Shown, ClaimedRow, Row
<1>2. CASE HolderChange(r, q)
  <2>. USE <1>2 DEF HolderChange, Shown, Row
  <2>1. CASE q = ReleasedRow(r)
    BY <2>1 DEF ReleasedRow
  <2>2. CASE q = CompletedRow(r)
    BY <2>2 DEF CompletedRow
  <2>3. CASE q = [r EXCEPT !.lease = LeaseDuration]
    BY <2>3
  <2>4. ASSUME NEW st \in {"todo", "blocked"}, NEW d \in Cooldown,
               q = FailedRow(r, st, d)
        PROVE  BoardMove(r, q)
    BY <2>4 DEF FailedRow
  <2>. QED
    BY <2>1, <2>2, <2>3, <2>4
<1>3. CASE BoardChange(r, q)
  <2>. USE DEF Shown, Row
  <2>1. CASE r.status = "absent" /\ q = EmptyRow("todo")
    BY <2>1 DEF EmptyRow, RowOK, FinishedKeepsItsWorker
  <2>2. CASE Shown(r, "blocked") /\ q = ResetRow(r)
    BY <2>2 DEF ResetRow
  <2>3. CASE Shown(r, "done") /\ q = [r EXCEPT !.archived = TRUE, !.lease = None]
    BY <2>3
  <2>4. CASE r.archived /\ ~r.deleted /\ q = [r EXCEPT !.archived = FALSE]
    BY <2>4 DEF RowOK, FinishedKeepsItsWorker
  <2>5. CASE /\ r.status \notin {"absent", "purged"} /\ ~r.deleted
             /\ q = DeletedRow(r)
    BY <2>5 DEF DeletedRow, Board!Present, Board!Open
  <2>6. CASE Purgeable(r) /\ q = EmptyRow("purged")
    <3>1. BoardState(q) = "purged" /\ q.assignee = None
      BY <2>6 DEF EmptyRow
    <3>2. BoardState(r) \in {"deleted", "archived", "done", "purged"}
      BY <2>6 DEF Purgeable
    <3>3. BoardState(r) = "purged" => r.assignee = None
      BY DEF RowOK, FinishedKeepsItsWorker
    <3>. QED
      BY <3>1, <3>2, <3>3
  <2>. QED
    BY <1>3, <2>1, <2>2, <2>3, <2>4, <2>5, <2>6 DEF BoardChange
<1>. QED
  BY <1>1, <1>2, <1>3 DEF RowStep

LEMMA TickOnBoard ==
  ASSUME NEW r \in Row, NEW q, RowTimePasses(r, q)
  PROVE  BoardState(q) = BoardState(r) /\ q.assignee = r.assignee
BY DEF RowTimePasses, BoardState, Row

\* One row that moves on the board is one step of the board.
LEMMA BoardStep ==
  ASSUME TypeOK, NEW j \in Job, NEW q \in Row, BoardMove(job[j], q),
         job' = [job EXCEPT ![j] = q]
  PROVE  [Board!Next]_(Board!vars)
<1>. DEFINE r == job[j]
<1>1. /\ BState' = [BState EXCEPT ![j] = BoardState(q)]
      /\ BHolder' = [BHolder EXCEPT ![j] = q.assignee]
      /\ BState[j] = BoardState(r) /\ BHolder[j] = r.assignee
  BY DEF TypeOK, BState, BHolder
<1>2. ASSUME NEW from, NEW to, NEW h, Moves(r, q, from, to, h)
      PROVE  Board!Move(j, from, to, h)
  BY <1>1, <1>2 DEF Moves, Board!Move, BState, BHolder
<1>3. CASE BoardState(q) = BoardState(r) /\ q.assignee = r.assignee
  <2>1. BState' = BState /\ BHolder' = BHolder
    BY <1>1, <1>3 DEF BState, BHolder
  <2>. QED
    BY <2>1 DEF Board!vars, BState, BHolder
<1>4. CASE \E s \in Session : Moves(r, q, {"todo"}, "ongoing", s)
  BY <1>2, <1>4 DEF Board!Next, Board!Claim
<1>5. CASE Moves(r, q, {"absent"}, "todo", None)
  BY <1>2, <1>5 DEF Board!Next, Board!Create
<1>6. CASE \/ Moves(r, q, {"ongoing"}, "todo", None)
           \/ Moves(r, q, {"ongoing"}, "blocked", None)
           \/ Moves(r, q, {"ongoing"}, "done", r.assignee)
  <2>1. CASE Moves(r, q, {"ongoing"}, "todo", None)
    BY <1>2, <2>1 DEF Board!Next, Board!Return
  <2>2. CASE Moves(r, q, {"ongoing"}, "blocked", None)
    BY <1>2, <2>2 DEF Board!Next, Board!Block
  <2>3. CASE Moves(r, q, {"ongoing"}, "done", r.assignee)
    <3>1. Board!Finish(j)
      BY <1>1, <2>3 DEF Moves, Board!Finish, Board!Move, BState, BHolder
    <3>. QED
      BY <3>1 DEF Board!Next
  <2>. QED
    BY <1>6, <2>1, <2>2, <2>3
<1>7. CASE \/ Moves(r, q, {"blocked"}, "todo", None)
           \/ Moves(r, q, {"done"}, "archived", r.assignee)
           \/ Moves(r, q, {"archived"}, "done", r.assignee)
  <2>1. CASE Moves(r, q, {"blocked"}, "todo", None)
    BY <1>2, <2>1 DEF Board!Next, Board!Unblock
  <2>2. CASE Moves(r, q, {"done"}, "archived", r.assignee)
    <3>1. Board!Archive(j)
      BY <1>1, <2>2 DEF Moves, Board!Archive, Board!Move, BState, BHolder
    <3>. QED
      BY <3>1 DEF Board!Next
  <2>3. CASE Moves(r, q, {"archived"}, "done", r.assignee)
    <3>1. Board!Unarchive(j)
      BY <1>1, <2>3 DEF Moves, Board!Unarchive, Board!Move, BState, BHolder
    <3>. QED
      BY <3>1 DEF Board!Next
  <2>. QED
    BY <1>7, <2>1, <2>2, <2>3
<1>8. CASE \/ Moves(r, q, Board!Present, "deleted", None)
           \/ Moves(r, q, {"deleted", "archived", "done"}, "purged", None)
  BY <1>2, <1>8 DEF Board!Next, Board!Delete, Board!Purge
<1>. QED
  BY <1>3, <1>4, <1>5, <1>6, <1>7, <1>8 DEF BoardMove

LEMMA NextOnBoard ==
  ASSUME IInv, [Next]_vars
  PROVE  [Board!Next]_(Board!vars)
<1>. USE DEF IInv
<1>1. CASE \E j \in Job, q \in Row : /\ RowStep(job[j], q)
                                     /\ job' = [job EXCEPT ![j] = q]
  <2>1. PICK j \in Job, q \in Row : /\ RowStep(job[j], q)
                                    /\ job' = [job EXCEPT ![j] = q]
    BY <1>1
  <2>2. job[j] \in Row /\ RowOK(job[j])
    BY DEF TypeOK, RowCoherent, RowOK
  <2>. QED
    BY <2>1, <2>2, RowOnBoard, BoardStep
<1>2. CASE AllTick
  <2>1. \A j \in Job : /\ BoardState(job'[j]) = BoardState(job[j])
                       /\ job'[j].assignee = job[j].assignee
    BY <1>2, TickOnBoard DEF AllTick, TypeOK
  <2>2. BState' = BState /\ BHolder' = BHolder
    BY <2>1 DEF BState, BHolder
  <2>. QED
    BY <2>2 DEF Board!vars, BState, BHolder
<1>3. CASE UNCHANGED job
  BY <1>3 DEF Board!vars
<1>. QED
  BY <1>1, <1>2, <1>3, NextRow DEF OneRow, vars

LEMMA InitOnBoard == Init => Board!Init
BY DEF Init, Board!Init, EmptyRow, BoardState

\* The jobs table, with its leases, retries, clock and stale calls,
\* implements the abstract board.
THEOREM ImplementsBoard == Spec => BoardSpec
BY InitOnBoard, NextOnBoard, Invariance, PTL DEF Spec, BoardSpec, Board!Spec

===============================================================================
