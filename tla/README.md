# Cometline: a TLA+ model

Cometline is a desktop AI workspace. This directory models the parts of it that
coordinate: which process, goroutine or agent may do what to shared state, and
what survives when one of them is late, is cancelled or dies. It holds TLA+
modules, TLC configurations and TLAPS proofs. All source paths are relative to
`src/`; short Go paths are relative to `src/cometmind/internal/`.

## 1. The system

Three modules of code:

- `comet-sdk`: a Go library for talking to model providers (wire formats, SSE, retries).
- `cometmind`: the Go runtime. The same binary runs as `serve` (HTTP API,
  agents, workers) and as `gateway` (chat platforms). Both open one SQLite
  database in WAL mode with a pool of **one connection per process**, so a single
  SQL statement is atomic, and the statements of all goroutines of both
  processes interleave.
- `cometline`: a SvelteKit renderer and the Electron main process, which starts
  and watches the `cometmind` process.

### Components

| component | state | operations | interacts with | hard behaviour | what makes it correct |
|---|---|---|---|---|---|
| jobs (`jobs/`) | `jobs` table: status, assignee, lease, failures, retry time, archive and delete marks | create, claim, heartbeat, release, fail, complete, unblock, archive, purge, reconcile | everyone below that owns a job | read-then-update methods with stale reads; two processes; lease time | rows stay coherent; a live lease is respected; nothing is stuck |
| autonomy worker (`autonomy/`, `jobs/heartbeat.go`) | poll loop, semaphore, one goroutine per run | poll, dispatch, claim, run a turn, heartbeat, finalize | jobs, run manager, agent | cancellation, crash, limit changed live, ticker against lease | one agent per job; lease lives with the turn; within the limit |
| run leases (`runstate/`, `server/run_manager.go`, `gateway/run_tracker.go`) | `session_runs` row per running session, cancel handles | start, heartbeat, abort, release by run id, prune stale | HTTP, gateway, autonomy | pause longer than the stale limit, abort racing a new run, deletion under a run | one run per session; an abort hits the run it was meant for; a run without its row is told |
| event stream (`event/session_hub.go`, `gateway/event_bridge.go`) | replay log and subscribers per session, sequence numbers, forwarder queue | start, publish, subscribe, finish, forward | turns, HTTP/SSE, gateway | enqueue outside the lock, retries, eviction | each subscriber sees the replay, in order, once |
| scheduler (`scheduler/`) | schedules, next run | materialize due, edit, pause | jobs | two statements per firing, crash in between | no two jobs of a schedule open at once; no firing lost |
| subagents (`subagent/`) | children per parent, pending results | register, complete, wait, cancel | agent tools | result claimed by a cancelled wait | what the table holds is handed over once |
| MCP manager (`mcp/`) | server entries, connections, generations | connect, reconnect, reload, close, monitor | agent tools, settings | superseded connections, overlapping reloads | status belongs to the live connection |
| memory and re-embedding (`memory/`) | memories, embeddings, one re-embed job | store, retrieve, start/cancel re-embed | agent, autonomy | concurrent starts, cancel against completion | one job at a time; cancelled stays cancelled |
| inbox (`inbox/`, `inboxworker/`) | messages with attempts | receive, claim, process | memory, agent | crash in the last attempt, two workers | each message is processed, at most `MaxProcessAttempts` tries |
| agent turn (`agent/`) | step counter, retries, continuations, calls of a step | run a turn, tools, completion gate | everything above | limits, cancellation in the middle of a tool batch | a turn ends; every call it asks for gets one result |
| transcript (`session/`, `agent/compaction.go`) | message and tool call rows, rolling summary and its mark | append, compact, fork, clear | agent turn, server | forks, notes and clearings beside a turn, late compactions | a prompt pairs calls and results; nothing falls between summary and window |
| server (`server/`) | none of its own | HTTP handlers | all | order of finish, done event and persistence | see run leases and event stream |
| sessions, workspaces, usage | session, path and usage tables | create, list, title, delete | server, agent | few multi-statement operations | referential integrity (foreign keys) |
| retention, backup, skill curator | timers | delete old rows and files, copy the database | sessions, jobs | crash half way | nothing needed is removed |
| config, settings, wakeup | settings file, change channels | load, save, reload | all workers | reload while running | the next cycle sees the new value |
| gateway | proposals, chat clients | router, proposal confirm | jobs, run manager, event bridge | double confirmation, reconnects | one job per confirmed proposal |
| provider, generation, tools, ACP, media, skills, wiki | caches | requests to models, files and programs | agent | remote failures | I/O, not modelled |
| db, sqlite, apigen | generated | queries, migrations | all | - | assumed: one statement is one step |
| comet-sdk | none across calls | stream, retry | provider | retry after partial output | not modelled |
| cometline renderer | turn queue, stores, reducers | submit, remove, clear, open a session | server over HTTP/SSE | submissions and barriers between awaits | turns in order, none stranded |
| Electron main | the sidecar process, windows | start, respawn, reload, restart, quit | `cometmind serve` | crashes, taken port, overlapping saves | the sidecar comes back; no orphan |

`PROJECT.json` repeats this list with the status of each component, and lists
under `hazards` what is hard to test, each at its line, with the property that
covers it, or the reason why none does.

## 2. Modules

| module | models | role |
|---|---|---|
| `JobBoard` | what the board promises its readers | abstract specification |
| `JobLease` | the jobs table and every statement of `jobs.Service` on it | core model |
| `AutonomyWorker` | the worker on the table of `JobLease` (EXTENDS it) | composition |
| `MCJobLease`, `MCAutonomyWorker` | symmetry sets | for TLC |
| `SessionRun` | run lease of a session, in two processes | component |
| `RunFeed` | what a watching client is promised | abstract specification |
| `EventStream` | hub, message handler, forwarder, clients | implements `RunFeed` |
| `Transcript` | rows, summary, compaction, fork, clear | component |
| `MCSession` | `EventStream` or `Transcript`, chosen at the start | for TLC |
| `Subagents` | the orchestrator's table of one parent | component |
| `AgentTurn` | the step loop over it (EXTENDS `Subagents`) | composition |
| `McpManager` | connections of one MCP server | component |
| `Scheduler` | schedules and the pass that makes jobs of them | component |
| `InboxWorker` | inbox replies and the worker | component |
| `ChatTurnQueue` | the renderer's queue of turns | component |
| `Sidecar` | supervision of `cometmind serve` by Electron | component |
| `MCParts` | one of the six components that stand alone | for TLC |
| `JobLeaseProofs`, `AutonomyWorkerProofs` | theorems about the jobs table, and about the worker on it | proofs |
| `SessionRunProofs`, `McpManagerProofs`, `AgentTurnProofs` | theorems about these components | proofs |
| `TranscriptProofs`, `EventStreamProofs` | theorems about the transcript; about the stream and `MCSession` | proofs |
| `PartsProofs` | theorems about scheduler, inbox, queue and sidecar, and about `MCParts` | proofs |

### JobLease

`job` is the table, one record per id: the columns a transition depends on. The
statuses `absent` and `purged` stand for "no row yet" and "row deleted"; an id
is never used again. `proc[c]` is one goroutine inside a method: `pc` names the
statement it runs next, the other fields what it has read. Each SQL statement is
one action, so `Complete` is `StartComplete` (read and check), optionally
`CheckProgress` and `WriteProgress`, and `CompleteJob` (the UPDATE); any other
call may come between. Each UPDATE has exactly the WHERE clause of `jobs.sql`
as its condition and the SET clause as a row operator (`ClaimedRow`,
`FailedRow`, ...). Where the WHERE clause repeats every check of the method
(`Heartbeat`, `Unblock`, `Archive`, ...), the read before it cannot change the
outcome, and the method is one action.

| action | code |
|---|---|
| `StartReconcile`, `ListExpired`, `ReadExpired`, `ReleaseExpired`, `EndReconcile` | `Service.Reconcile` and the `ReleaseWithClass` it calls |
| `StartClaim` ... `ClaimJob` | `Service.Claim`, with its Reconcile first |
| `StartRelease`, `ReleaseJob` | `Service.Release`, `ReleaseForSession` |
| `StartFail`, `RecordJobFailure` | `ReleaseWithClass(FailureWorkerError)` |
| `StartComplete` ... `CompleteJob` | `Service.Complete` |
| `ListPurgeable`, `HardDelete` | `PurgeArchived`, `PurgeDeleted` |
| `Crash` | the process dies or the context is cancelled between two statements |
| `Tick` | the clock |

Time is held as time *left* (until `lease_expires_at`, until `next_retry_at`,
and until a deadline a call has computed but not yet written), and `Tick` lowers
all of it together. A lease of 0 is due now, -1 has run out (the code compares
with `<`). No clock grows, so time needs no bound.

Abstracted: texts, timestamps for sorting, the event log, notifications, and the
age limits of archiving and purging (any row of the right kind may be old
enough). The settings of the jobs service are constants.

### AutonomyWorker

`run[s]` is the goroutine that works in session `s`. `NewAutonomySession` makes a
session for each run, so the session names the run and is used once. Its `pc`
follows `runJob`: `start`, `claiming` (inside `Claim`), `seed` (prompt and
runner), `turn`, `final` and `failing` (inside `finalizeJob`); `unseeded` is the
release after a failed setup, which, unlike `finalizeJob`, uses the run's own
context. `holds` is what the agent believes it holds. `beat` is the time to the
next tick of the heartbeat ticker. `poll` is the poll loop, `sem` the semaphore
(`cap 0` is the nil channel) with the configured maximum. Statements inside a
call are the actions of `JobLease`, on `proc[s]` for a run and `proc[Poller]` for
the poll loop.

Faults: `Cancel` (user stops the session at any time), `FailToStart`,
`FailToSeed`, `ProcessCrash` (serve dies with all goroutines and restarts, the
table stays), a second process with its own Reconcile (`m1`), users who edit the
board, and `UpdateConfig` at any time.

`snatched` is a history variable: jobs that a `ReleaseExpired` took although the
lease was live, i.e. where the finding of `JobLease_reconcile` struck. No guard
reads it. `OneWorkerPerJob` and `CountsOwnFailure` are stated for the other
jobs; without the exception TLC violates `OneWorkerPerJob` with three sessions:
one Reconcile lists the job and stalls, another releases it, a second run
claims it, the first one releases it again, a third run claims it, and two
agents work on one job.

### SessionRun

`row` is the row of `session_runs` (run id, age since `updated_at`, abort mark);
`phase[r]` says where the code that owns run `r` is, `watch[r]` where its
heartbeat goroutine, `handle[p]` is the cancel map of process `p`
(`RunManager.cancels` in serve, `TurnRunTracker.cancels` in the gateway). A
statement on the row is one action.

| action | code |
|---|---|
| `Acquire` = `TryAcquire`, `PruneStale`, `Retry`, `Store` | `Service.Acquire` (insert; on conflict prune and insert once more), then the handle map |
| `WatchRead`, `WatchBeat` | a round of `Lease.watch`: read the abort mark, then the heartbeat, which cancels the context when it hits no row |
| `EndTurn`, `Unhook`, `StopWatch`, `Release`, `Notify` | `finish`, `Lease.Finish`, `RunManager.Release` and the callback |
| `ServeRelease` | the Finish packet of a gateway turn, which serve turns into a release |
| `CancelPrune`, `CancelMark`, `CancelHandle` | `RunManager.Cancel`, `TurnRunTracker.Stop` |
| `Poll` | `Running`, which prunes as well |
| `DeleteSession` | `Service.DeleteSession`: the cascade takes the row with the session |
| `Tick`, `Suspend`, `Crash` | time, a suspended process, a dead one |

`Tick` assumes that a goroutine that is not suspended renews its row in time (one
period in a stale limit of several); `Suspend` is the machine that does not. A
manual compaction is a serve run that owes no callback.

`DeleteSession` may come at any time. `handleDeleteSession` deletes right after its
cancel call, without waiting for the run; a child session goes with its parent, with no
cancel at all; the container of a job or an inbox item goes with the worker that is done
with it. `session_runs.session_id` has ON DELETE CASCADE, so the row goes too, and since
the row refers to a session that no longer exists, no later insert succeeds
(`TryAcquire` is refused once `deleted`).

### EventStream and RunFeed

`stream` is `SessionHub.streams[session]` (run, replay, last sequence number,
subscribers), `finished` its marks; `packets[r]` is the queue of the forwarder of
a gateway run, `stray` are requests that timed out and may still arrive. Events are
numbers, `Done` is the last. `Emit` is what a turn publishes, `Save` the
persistence of a step; when a step is saved the replay is cut (`appendReplay`), which is
why a client may start later than the first event.

| action | code |
|---|---|
| `Begin`, `OpenStream`, `Emit`, `Save`, `EndTurn`, `Announce` | a run, from `beginMessageRun` or `EventForwarder.Start` to `publishDone` |
| `HubStart`, `HubPublish`, `HubFinish`, `Ingest` | `SessionHub` (operators inside the actions) |
| `Send`, `AfterConflict`, `Discard`, `TimesOut`, `ArrivesLate`, `AnswerLost` | `EventForwarder.run` and `send`, with the network |
| `ReadCurrent`, `Subscribe`, `Deliver`, `StreamEnds` | `GET /events`: the lookup and the subscription are two steps |
| `Restart` | serve restarts, gateway turns go on |

An ingest request that has passed its lease check is assumed to be finished
before the forwarder repeats it; the requests in flight when serve stops die with
it. `RunFeed` knows runs, the number of events emitted and saved, and what each
client has got: attach anywhere up to the first unsaved event, receive without a
gap, done last. The feeds of runs in `broken` were interrupted: `Restart` puts
all runs there, a stale `Subscribe` the run whose stream it replaces (finding 4).
Their clients may miss events, but get none twice or out of order.

A run keeps its row until it ends: `EventStream` has neither the pruning of a suspended
run nor the deletion of the session, which are in `SessionRun`. After a deletion the
packets of a gateway turn are refused, its Finish packet too, and nobody calls
`onFinished`: a client that watches waits until it disconnects (a listed hazard).

### Transcript

`msgs` are the rows of one session, `stored` its summary and mark
(`compacted_until_message_id`), `held` says which of a turn and a manual
compaction has the run lease, `copy` the session the holder works with. A call and its
result are rows of the database written one by one, so each is an action.

| action | code |
|---|---|
| `PostMessage`, `LoadSession`, `Answer`, `WriteCall`, `WriteResult`, `LeaveCalls`, `EndRun` | a message turn and the rows it writes |
| `AskCompaction`, `StartCompaction` | the handler of a manual compaction: it reads the session before it has the lease |
| `FoldBegin`, `FoldDone`, `FoldSkipped` | `runCompact`: choose the window, summarise, store |
| `Note` | `ChangeSessionWorkspace`, which writes a system row and needs no lease |
| `ClearChecks`, `ClearDeletes`, `ClearResets`, `ClearFails` | `handleClearSession`, which needs none either |
| `ForkBegin`, `ForkCopies`, `ForkEnds` | `copyTranscript`: the rows listed once, the calls read row by row |

`LeaveCalls` is the answer that was saved with calls and finished with stop
(`step_settle.go:56`): the calls stay in the transcript without a result.

A summary is the set of rows it speaks of. Token counts are left out: the window
may start at any row that is not a tool result (`RecentWindowStartForKeep`). Two
history variables name what the code permits and the properties therefore
exempt: `torn` (another actor wrote into the transcript in the middle of a turn or fork), and
`blind` (`initTurnState` goes on when it cannot load the session).

### Subagents and AgentTurn

`Subagents` has one parent: children in flight, which handles a `Wait` has
claimed, results nobody claimed (`pending`) and results in the channel of a handle
(`box`). `AgentTurn` is the only caller of `Wait`. `turn` is the place in
`Runner.Run`, or how the last turn ended; `calls[k]` is the state of the k-th
tool call of the current step.

| action | code |
|---|---|
| `BeginTurn`, `PrepareStep`, `FoundCancelled`, `HistoryFails` | top of the loop of `Runner.Run`, `prepareStep` |
| `StreamStopped`, `StreamRetries`, `StreamFails`, `StepNotSaved` | `streamStep`, recovery, `persistPartial` |
| `StepIsFinal`, `StepStops`, `StepCallsTools`, `StepCutInTool`, `StepCutInText` | `settleModelStep` and its outcomes |
| `ToolReturns`, `ToolSpawns`, `ToolWaits`, `ToolWaitEnds`, `ToolNotSaved`, `ToolWaitNotSaved`, `CallsCancelled`, `BatchEnds` | `executeToolBatch`, `spawn_general_agent`, `wait_subagents` |
| `CollectStarts`, `CollectFails`, `CollectNothing`, `CollectReturns` | `continueForFollowUp`: results of children, then the completion gate |
| `WaitReceives`, `WaitGivesUp`, `Complete`, `Register` | the orchestrator |
| `AbortChildren`, `AbortTurn` | `handleAbortSession`: children first, then the run |

`StepStops(n, cut)` is a step that finished with stop, or a step without calls: what it
was saved with stays there, `n` complete calls that are neither run nor settled (state
`left`) and `cut` incomplete ones that already have their result. `ToolWaitEnds` is the
whole of `wait_subagents` after `Wait` has returned: with explicit ids it reads the finished children it was
not handed again from the database, any subset of them, since a read may fail or the ids
may be empty, which asks for all and reads none. `retold` are the children told that way.

Left out: prompt text, memories, how a doom loop is recognised (`halt` may be set by
any batch), `delegate_coding_task`, which waits for its own child, and children of an
earlier lifetime of serve, of which only the database knows.

### McpManager

One server entry: its generation, connection and status; `task` holds the
goroutines that connect, each between its two critical sections
(`ConnectBegin`, `ConnectEnd`) or asleep; `monitor` the goroutines that wait for
the death of a session. `ReloadBegin`, `ReloadClose` and `ReloadInstall` are the
three sections of `Reload`, `BootLeave` the end of a first attempt. A session is
named by the settings and the generation it was made under. Servers share
nothing but the map and the reloading flag.

### Scheduler

`plan[s]` is the row of a schedule, `openJobs[s]` how many of its jobs are open,
`pass` the position of `MaterializeDue`. `CheckOpen`, `CreateJob` and `Advance`
are its three statements per item; users write and delete schedules and close jobs
in between, each statement may fail, serve may restart. A pass works with the time at
its start (`pass.at`), also where it computes the next run. One that fails ends
there, as in the code. `lastMade` (history) is the occurrence the newest job was made for.

### InboxWorker, ChatTurnQueue, Sidecar

- `InboxWorker`: `mail`, `attempts` and `processed` are columns of
  `inbox_messages`; `PollOnce` lists, `ClaimForProcess` counts an attempt,
  `FinishRun` marks, `WorkerStops` ends the process anywhere. `blurred` (history)
  are messages whose last attempt met a stop or a failed write.
- `ChatTurnQueue`: one action is what runs between two awaits of the event loop:
  `Enqueue`, `BlockUntil`, `RemoveQueued`, `Clear`, `TurnEnds`, `LoopGoesOn`.
- `Sidecar`: `serve` is the tracked child; `Start`, `Exit`, `Respawn`,
  `ProbeEnds` and `Stop` are the functions of the lifecycle, `Save...` the steps
  of the settings handler (saves may overlap), `QuitStops` and `TerminateForExit`
  the quit. `PortTaken` is the new child that exits because the old one still has the port.
  `StopDone` waits for the exit of the child; the code gives up waiting on a hard timer
  some time after SIGKILL, which is left out.

### MCSession and MCParts

Components that share no variable are checked in one run: `part` is chosen
at the start and only that component moves, so the states of the run are the
sum of theirs, not the product, and each property says what it says in a run of
its own. Fairness is that of the component while it is the one that moves.

## 3. Runs

| run | instance | checks | shows |
|---|---|---|---|
| `JobLease_safety` | 1 job, 2 sessions, 3 handlers, 1 maintenance loop, all mortal | `TypeOK`, `RowCoherent`, `CooldownServed`, `BoardSpec` | the table is coherent under all interleavings, and implements the board |
| `JobLease_reconcile` | 1 job, 2 sessions, 2 handlers | `ReconcileSparesLiveLease` | finding: Reconcile takes a live lease |
| `JobLease_complete` | same | `CompletesOwnJob` | finding: Complete finishes another session's job |
| `Autonomy_safety` | 1 job, 3 sessions, limit 2, second process | `LeaseLivesWithTurn`, `OneWorkerPerJob`, `CountsOwnFailure` | the worker's safety through cancellation and crash |
| `Autonomy_limit` | 1 job, 3 sessions, limits 1 and 2 | `WTypeOK`, `RunsWithinLimit` | the semaphore, while the limit is changed |
| `Autonomy_live` | 1 job, 2 sessions | `ClaimIsSettled` under `WFairSpec` | no claim is stuck |
| `Autonomy_second` | 2 jobs, 1 session, agents may claim | `LeaseLivesWithTurn` | finding: the second claim of a session is not renewed |
| `MCSession` | 1 message run, 1 gateway run, 1 client; 4 rows, 2 calls a step | `SessionTypeOK`, `NoGhostStream`, `FeedSpec`, `WatcherIsReleased`; `PromptPairs`, `NothingForgotten` | the feed of a session through losses and a restart; its transcript through compactions, forks and clearings |
| `EventStream_stale` | 1 message run, 1 compaction, 1 client | `ActiveRunHasStream` | finding: a late subscription takes the stream of the live run |
| `AgentTurn` | 2 turns, 2 children (one hangs), 2 calls a step, 1 abort | `TurnTypeOK`, `ResultsAccounted`, `CallsSettled`, `StopLeavesNoChild`, `TurnEnds`, `StopEndsTurn` | turns settle what they begin, and end |
| `MCParts` | see below | `PartsTypeOK` and 17 properties of six components | the safety of each, and liveness of the run lease |
| `McpManager_reload` | 1 reload, 1 reconnect, 1 death | `SettingsInForce` | finding: an attempt of the old settings survives a reload |

Bounds, and why they are enough:

- One job: no statement relates two jobs, except the LIMIT 1 of
  `GetJobByAssignedSession`; that is what `Autonomy_second` has two jobs for.
- Three handlers: the deepest race needs a call with a stale read, one that
  changes the row, and one that takes it over. The second process is left out of
  `Autonomy_limit`: the semaphore belongs to one process. Two sessions suffice in `JobLease`,
  since rows only tell "mine" from "another's"; the worker needs three for the
  race described above.
- `RetryCooldown = 3 > MaxRetryCooldown = 2` in `JobLease_safety`, so that the cap
  works and a cooldown lasts two ticks; `MaxFailures = 2` reaches both the retry and
  the block.
- `FailureBound` limits `failure_count` in `StartFail`. It is above
  `MaxFailures - 1`, so a stale call can push the count past the limit. In the
  worker's runs it is 3, which with one failure per run is never reached.
- `LeaseDuration` is 2 (1 in the worker's runs) and `HeartbeatInterval` 1: renewed
  in time or just not.
- The worker's runs leave out the purges (they only take finished and deleted
  rows) and `AgentClaims` except where it matters.

Symmetry: sessions, handlers and jobs in `JobLease_safety`; sessions in
`Autonomy_safety` and `Autonomy_limit` (`JobForSession` chooses among jobs, never
among sessions); none in the liveness run. All properties are checked with deadlock detection on:
time always passes or a goroutine can move.

Bounds of the newer runs:

- `MCSession`, stream: the gateway run has two events, so that one can be repeated
  or lost after another has come (three were checked as well: 743 030 states); the message run has one, which is a plain
  part or a step. One lost answer or timeout, one restart; `MaxFinished = 1`
  makes the set of marks evict. One client, because subscribers share nothing but
  the replay.
- `MCSession`, transcript: four rows are a question, an answer with a call, its
  result and one more row for a note, an error or the next question; two calls a
  step let a result come between; two compactions follow one another; one guest
  (fork, note, clearing, manual compaction or failed load) at a time. Five rows
  were checked as well.
- `AgentTurn`: every budget is 1 or 2 so that each limit is reached; two turns,
  since what one leaves behind is the next one's; one child ends only when cancelled.
- `MCParts`: one serve and one gateway run, `StaleAfter = 1`, one cancel call, one
  suspension or crash; one MCP server with a retry budget of 2, one reload,
  reconnect and death; two schedules with three edits and one failure, the clock
  up to 2; two messages with two attempts and two stops; two payloads and four
  submissions; two saves, two respawns, two crashes and five spawns.
- `EventStream_stale` and `McpManager_reload` use the smallest instances that
  show the finding.

No symmetry is used in these runs: their sets have one or two elements, and
most check liveness. Deadlock is not checked: a component stops when
its bounded inputs are used up.

Fairness of `EventStream`: a run that is open comes to its end, the forwarder
goes on and the handlers of clients run; nobody has to start or watch a run.
`AgentTurn`: weak fairness of the goroutine of the turn together with the second
half of an abort that has begun, and of the children that end by themselves: tools and model streams have
deadlines, an external agent (`Hanging`) has none. `SessionRun`: weak fairness of
heartbeats, of the steps of a cancel call, of time and of a client that asks
whether the session runs (the sidebar polls); strong fairness of the code that
ends a run, which a suspended process interrupts.

### Assumptions of the worker

- `LeaseIsKept`: between claim and end of a run no period of the ticker passes
  without its heartbeat. The real numbers are five minutes against a default lease
  of thirty, so this says the goroutine is scheduled, the database answers, and
  the machine is not suspended for that long. `TimePasses` is guarded by it.
  `JobLease` makes no such assumption: there any call may be arbitrarily late.
- `HeartbeatInterval <= LeaseDuration`: true of the defaults. `leaseMinutes` is a
  setting and the interval a constant of the code, so a lease under five minutes
  breaks it (a listed hazard).
- Fairness: weak fairness of each goroutine's next statement and of the
  ticker (the Go scheduler), of the clock and of the maintenance loop (a timer
  that rearms itself). Strong fairness of `EndTurn`, because tool calls disable
  it again and again, while `MaxStepsPerRun` bounds their number. Nothing is
  assumed of users, agents, crashes, cancellation or of runs being dispatched.

## 4. Properties

- `RowCoherent`: a row is ongoing exactly when it has a holder and a lease, a retry
  time and a block come from a counted failure, only done rows are archived. It is
  hard because the UPDATEs set some columns each and run on stale reads.
- `CooldownServed`: what `recordWorkerFailure` imposes is shortened by the clock or a
  deletion only.
- `BoardSpec`: refinement. With `state = BoardState(row)` and `holder = assignee`,
  every step is a step of `JobBoard` or a stutter. In particular a finished job is
  never reopened, a deleted one never returns, a job passes from one
  session to another only over `todo`, and open work is never purged.
- `LeaseLivesWithTurn`, `OneWorkerPerJob`, `RunsWithinLimit`, `CountsOwnFailure`,
  `ClaimIsSettled`: see the comments in `AutonomyWorker`.
- Run lease: `OneActiveRun` (two agents on a session only after a suspension),
  `LoserIsTold` (and then the loser has somebody to tell it), `RowKept` (late ends
  and packets leave the row of the next run alone; only a run's own end, a suspension or the
  deletion of the session takes its row), `AnnouncedOnceWhenFree`, `AbortIsHeard` (a run
  that was aborted, displaced or whose session is deleted stops) and `SessionComesFree`,
  both liveness.
- Stream: `FeedSpec` is a refinement: every step of the hub, the bridge and the
  network is a step of `RunFeed` or a stutter. `NoGhostStream`: a client that
  comes late opens no stream for a finished run that nobody will close.
  `WatcherIsReleased` (liveness): whoever watches gets to the end, whatever is lost.
- Transcript: `PromptPairs` (no request has a tool result without its call; models
  reject it) and `NothingForgotten` (every row is in the summary or after the mark, also in
  the pair a turn works with).
- Turn: `ResultsAccounted`: the orchestrator's copy of a child's result is in one place on
  its way to the model, and what `wait_subagents` reads again from the database
  was told before, was lost with a turn that was cut, or is stuck in a channel that nobody
  reads; it never tells a result the orchestrator still holds. `CallsSettled`: one
  result for each call a step asks for; the calls of a step that says stop get none.
  Further `StopLeavesNoChild`, `TurnEnds` and `StopEndsTurn`.
- MCP: `ConnIsNewest`, `StatusIsOwned`. Scheduler: `OneOpenJob`, `NoFiringLost`,
  `NonePassedOver`. Inbox: `TurnsBounded`, `GivenUpIsRecorded`. Queue: `TurnsInOrder`,
  `NobodyStranded`. Sidecar: `DeadIsRespawned`, `NoOrphanServe`.

Exceptions, each written into the property and its comment, are what the code
permits: runs of a suspended process (`late`), interrupted feeds (`broken`),
children claimed by a cancelled `Wait` (`abandoned`), torn transcripts and turns
that could not load their session (`torn`, `blind`), a last attempt that met a stop
(`blurred`), schedules rewritten during the pass. Two of them deserve
attention: a workspace note between a call and its result, followed by a
compaction whose window starts on that note, sends a result without its call
(without the exception TLC finds this in ten states; `prompt_budget.go:86`
says a window never starts on a result, and here it does not, it starts one row
before); and clearing takes no lease, so a turn that began after its check
works on deleted rows.

Every property has a mutant in `PROJECT.json`: a plausible bug, next to the
definition it changes, that makes the property fail.

## 5. Findings

1. `Reconcile` decides on its listing and releases on a row of which only the status
   is looked at again (`jobs/lifecycle.go:271`): a renewed lease, or the lease
   of a new holder, is taken.
2. `Complete` checks the assignee on a row read earlier; its UPDATE
   (`db/queries/jobs.sql:134`) does not repeat the check: another session's job is
   marked done. `RecordJobFailure` and `ReleaseJob` have the same shape.
   A condition on `assigned_session_id` (and the lease, for Reconcile) in the WHERE clauses
   would close both; the `Heartbeat` statement has it.
3. The heartbeat renews one job per session (`jobs/heartbeat.go:14`), but a session
   may claim several. `finalizeJob` looks at the same single row.
4. A client that looked up run A subscribes after A has ended and run B has opened
   its stream (`event/session_hub.go:341`): the stream of B is replaced by an
   empty one for A, and B's events are dropped. A mark in `finished` prevents it
   for message runs, but a manual compaction ends without one, and marks are evicted.
5. Reload starts the generations of its new map at 0 (`mcp/manager.go:231`), and
   the test for superseded attempts (`:148`) compares generations only: an attempt made with the
   old settings can install its connection. A counter of the manager instead of
   the entry would close it.

Two more things were met while proving; neither has a run of its own.

- One flag for all reloads. The comment of `Reload` (`mcp/manager.go:212`) says
  that manual reconnects are refused while its background connecting is in
  flight; `ReloadIsFlagged` (`McpManager`) states it. As a conjunct of `McpInv`
  it was not inductive, and with `MaxReloads = 2` TLC refutes it: the goroutine of an
  earlier reload lowers the flag (`:247`) in the window of a later one. No other
  property depends on it.
- The gap after an interruption. The first version of `RunFeed` promised a feed without
  gaps to whoever attached, also after an interruption. The refinement proof
  failed there, and with three gateway events and two clients TLC finds why: a stale
  client replaces the stream, a packet that timed out arrives late, and a client
  that had attached to the new, empty stream gets event 1 and then event 3.
  `Follows` now says so for runs in `broken`.

## 6. Proofs

Eight modules hold proofs. Each states an inductive invariant, proves that the
initial states satisfy it and that every action keeps it (one step per action),
and reads the properties off it. All hold for any values of the constants that
satisfy the named assumptions; the bounds of the models (numbers of faults, rows,
events) are constants too, so they are proved for every bound.

| module | theorem | statement |
|---|---|---|
| `JobLeaseProofs` | `Invariance` | `Spec => []IInv` |
| | `TypeCorrect`, `RowsCoherent` | `Spec => []TypeOK`, `[]RowCoherent` |
| | `CooldownIsServed` | `Spec => CooldownServed` |
| | `ImplementsBoard` | `Spec => BoardSpec` |
| `AutonomyWorkerProofs` | `WorkerTypeCorrect`, `RunsAreLimited` | `WSpec => []WTypeOK`, `RunsWithinLimit` |
| | `LeaseOutlivesTurn`, `NoTwoWorkers`, `FailureIsOwn` | `~AgentClaims => (WSpec => []LeaseLivesWithTurn)`, `[]OneWorkerPerJob`, `CountsOwnFailure` |
| | `WorkerImplementsBoard`, `WorkerServesCooldown` | `WSpec => BoardSpec`, `CooldownServed` |
| `SessionRunProofs` | `TypeCorrect`, `MutualExclusion` | `Spec => []STypeOK`, `[]OneActiveRun` |
| | `LossIsNoticed`, `FinishedOnce`, `RowIsKept` | `Spec => []LoserIsTold`, `[]AnnouncedOnceWhenFree`, `RowKept` |
| `AgentTurnProofs` | `TurnTypeCorrect`, `NoResultIsLost` | `TurnSpec => []TurnTypeOK`, `[]ResultsAccounted` |
| | `EveryCallIsSettled`, `AnswerLeavesNoChild` | `TurnSpec => []CallsSettled`, `[]StopLeavesNoChild` |
| `McpManagerProofs` | `McpTypeCorrect`, `ConnIsAlwaysNewest`, `StatusIsAlwaysOwned` | `McpSpec => []McpTypeOK`, `[]ConnIsNewest`, `[]StatusIsOwned` |
| `TranscriptProofs` | `TranscriptTypeCorrect`, `NothingIsForgotten`, `PromptsPair` | `TranscriptSpec => []TranscriptTypeOK`, `[]NothingForgotten`, `[]PromptPairs` |
| `EventStreamProofs` | `FeedInvariant`, `StreamTypeCorrect` | `Spec => []FeedInv`, `[]STypeOK` |
| | `NoStreamOfFinishedRun`, `StreamImplementsFeed` | `Spec => []NoGhostStream`, `FeedSpec` |
| | `SessionPartsAreIndependent`, `SessionTypeCorrect` | `SessionSpec => Spec /\ TranscriptSpec`, `[]SessionTypeOK` |
| `PartsProofs` | `SchedTypeCorrect`, `OneJobPerSchedule` | `SchedSpec => []SchedTypeOK`, `[]OneOpenJob` |
| | `NoFiringIsLost`, `NobodyPassedOver` | `SchedSpec => NoFiringLost`, `NonePassedOver` |
| | `InboxTypeCorrect`, `TurnsAreBounded`, `GivenUpSaysSo` | `InboxSpec => []InboxTypeOK`, `[]TurnsBounded`, `[]GivenUpIsRecorded` |
| | `QueueTypeCorrect`, `TurnsRunInOrder`, `NobodyIsStranded` | `QueueSpec => []QueueTypeOK`, `[]TurnsInOrder`, `[]NobodyStranded` |
| | `SidecarTypeCorrect`, `DeadIsAlwaysRespawned`, `NoOrphanIsLeft` | `SidecarSpec => []SidecarTypeOK`, `[]DeadIsRespawned`, `[]NoOrphanServe` |
| | `PartsAreIndependent`, `PartsTypeCorrect` | `PartsSpec =>` the six specifications, `[]PartsTypeOK` |

`PartsAreIndependent` and `SessionPartsAreIndependent` connect the theorems with
the runs: a behaviour that `MCParts` or `MCSession` explores is a behaviour of every
component in it, so what is proved of a component is proved of what the run checks.

### Why the properties are not inductive, and what is added

- **Jobs table.** A call that is about to write carries arguments
  (target, session, victim, verdict), which must be proper ones (`CallsWellFormed`):
  a claim with no session would make an ongoing row without a holder, and a "blocked"
  verdict with a retry time a blocked row in cooldown. And `HardDelete` has no WHERE
  clause but the id, so the ids a purge still holds must belong to rows that stay
  finished or deleted until it comes to them (`PurgeSafe`). Whatever a call has
  read, each step changes each row in one of the few ways of `RowStep`, or lets
  time pass; the rest forgets the calls: type, coherence, cooldown and the board
  follow from one row changing by `RowStep`.
- **Autonomy worker.** `RunInv` adds to the invariant of the table what call a
  run makes in each phase (`RunPhases`) and that the semaphore has given out one
  token per living run (`Tokens`), through resizing and restarts. The properties
  that relate runs and rows need `WorkerInv`: a row assigned to a session is what its
  run holds, and its lease outlives the present period of the ticker
  (`RowsOfRuns`); what a run holds is its own row unless it was deleted or
  snatched (`HeldIsOwned`); nobody else holds it (`OneHolder`). They are proved for agents that
  claim no further job, which is what an autonomous run is started for; with
  further claims `Autonomy_second` refutes the first of them, and the theorems would be false.
  The board and the cooldown need no such hypothesis: on the table each step of the
  worker is a step of `JobLease` or only ends calls (`WorkerStepOnTable`), so both
  carry over.
- **Run lease.** The row of a run whose goroutine was not suspended is never older
  than the limit (`FreshRow`), so nobody prunes it; a run that is active without the row
  was suspended, or the session is deleted (`ActiveHasRow`), after which the row never
  comes back (`DeletedStaysFree`); a heartbeat goroutine ends only after it cancelled its
  run, or with it (`ActiveIsWatched`).
- **Agent turn.** `TurnInv`: the counter of a step that works is below the limit
  (`StepsInv`), the open calls are the next ones of the batch and none is beside calls that
  were left (`BatchInv`), the result of a child that is back is in exactly one place
  (`Partition`), what was told again is not still to come (`RetoldInv`), a `Wait` hands over only
  what is recorded for it (`WaitInv`), and one that is not cancelled watches every child it is
  about (`FlightInv`), so that the empty answer of the last `Wait` means that nothing is in flight.
- **MCP.** A connection has the generation of its entry (`ConnHasGen`): every change of
  the generation takes the connection out.
- **Transcript.** `TranscriptInv`: a summary with its mark is true of the rows whoever
  holds it and however old it is (`Sound`, `Summaries`), since rows are appended,
  deleted together or given calls; every result stands behind its call with only results
  between (`Chained`); what a fork has copied and has still to copy is a beginning of the
  transcript (`ForkFollows`).
- **Event stream.** `FeedInv` follows an event from the agent to the client. The packets
  in the queue of a forwarder continue what the stream has: the head is the next event
  or the last one, sent again, and a packet that comes late is never ahead of the head
  (`BridgeInv`). The stream has the events of one run in order (`StreamInv`), and what
  a client has got, replays and has queued is one sequence in order that ends where the
  stream ends (`SeatsInv`). From this every step is one of `RunFeed` or a stutter, with
  the mapping of `EventStream` (`emitted` is the length of the log, `over` the runs
  that are done, `seat` what a client has got).
- **Scheduler.** What a pass was told has no open job still has none when it creates one
  (`NoneOpenYet`), and what it moves on has had its job (`MadeBefore`).
- **Inbox.** Every turn is paid for by an attempt counted before it (`TurnPerAttempt`).
- **Queue.** No submission has a number above the counter (`NumbersAreTaken`).
- **Sidecar.** Children are numbered in the order of spawning, and if none is tracked
  while one still answers, it has been told to stop and a save that will
  start another waits for it (`ToldIsAwaited`).

Each invariant was given to TLC before it was proved, on the instance of the
component's run or a larger one (`FeedInv` with 245 410 states, `TurnInv` with 273 736,
`TranscriptInv` with five rows and two guests, 12.5 million).

### Assumptions

All are named in the module that declares the constants, and TLC evaluates them in
every run. They say that bounds are natural numbers, that limits which the code
defaults to a positive number are positive (`MaxSteps`, `MaxCalls`, `MaxAttempts`,
`StaleAfter`, `LeaseDuration`, ...), that sets of ids are disjoint and that `None`,
`NoSession` and `NoChild` are none of the things they stand in for. Two say more:
`HeartbeatInterval <= LeaseDuration` and `Handler = Session` (each run has its own
session) in `AutonomyWorker`, see section 3.

### Only model-checked

`ClaimIsSettled`, `WatcherIsReleased`, `TurnEnds`, `StopEndsTurn`, `AbortIsHeard` and
`SessionComesFree` are liveness under fairness, which with ENABLED is outside the
prover's reach. Every invariant and action property of the passing runs has a theorem.

## 7. Not modelled, and the plan

Next for the proofs:

1. `PromptPairs` with notes: which notes do harm, as a lemma instead of the exception
   `torn`.
2. Action properties that the liveness arguments rest on: the measure that falls
   with each step of a turn (`TurnEnds`), the row that ages (`SessionComesFree`).
3. Lemmas shared by `EventStreamProofs` and `TranscriptProofs` on sequences.

Not modelled, and why:

- Memory and re-embedding: numeric retrieval over embeddings, and one maintenance
  job per process whose two races (start against start, cancel against end) are
  listed as hazards without a property.
- Gateway router, chat clients and job proposals: network code; the turns they
  start are in `SessionRun` and `EventStream`. The double confirmation of a proposal
  is a listed hazard.
- Retention, backup, skill curator, usage, git graph: file and row cleanup and
  reports, with hardly any state of their own.
- The stubbing of old tool outputs (`session/prune.go`) changes no row's place.
- Provider adapters, `comet-sdk`, tool bodies, parsers, configuration, user
  interface, migrations and generated code are I/O, data formats or layout.
  Generated code and these adapters are most of the repository's lines.
