------------------------------- MODULE AgentTurn -------------------------------
(***************************************************************************)
(* The turns of one session: the step loop of agent.Runner (runner.go,     *)
(* step_loop.go, step_settle.go, stream_step.go, tool_batch.go) with the   *)
(* tools that spawn and await subagents, and the abort handler of the      *)
(* serve process.  What a step sends to the model is left out, but for the *)
(* subagent results it carries; a tool is what it does to the turn.        *)
(***************************************************************************)
EXTENDS Subagents

CONSTANTS MaxSteps,     \* work rounds before the final request (100)
          MaxCalls,     \* bound: tool calls of a step
          MaxOutput,    \* continuations after a text cut off (8)
          MaxCutTool,   \* continuations after a call cut off (4)
          MaxRecovery,  \* retries of a model stream (3)
          GateBudget,   \* refused text-only stops while a job is held (2)
          MaxTurns,     \* bound: turns in a behaviour
          MaxAborts     \* bound: abort requests in a behaviour

ASSUME AgentTurnAssumption ==
    /\ MaxSteps \in Nat \ {0} /\ MaxCalls \in Nat \ {0}
    /\ {MaxOutput, MaxCutTool, MaxRecovery, GateBudget, MaxTurns, MaxAborts} \subseteq Nat

VARIABLES turn,      \* where the turn is, or how the last one ended
          steps,     \* turnState.steps
          halt,      \* turnState.doomLoopHalt
          final,     \* stepRequest.finalizing of the current step
          tries,     \* [retries, overflow] of the current stream
          conts,     \* [output, tool]: the continuations used
          job,       \* [held, gate]: JobProgressTracker.active, refusals used
          calls,     \* tool calls of the current step and their results
          at,        \* index of the call the batch has come to
          nudge,     \* subagent results the next request will carry
          asked,     \* subagent results the current request carries
          seen,      \* subagent results a model step or a tool result held
          lost,      \* subagent results of a turn that was cut
          retold,    \* children whose summary a tool read again from the database
          turns, abort, aborts

turnOnly == <<turn, steps, halt, final, tries, conts, job, calls, at, nudge,
              asked, seen, lost, retold>>
abortVars == <<turns, abort, aborts>>
turnVars == <<subVars, cancelled, turnOnly, abortVars>>

Ends == {"answered", "truncated", "final", "stopped", "failed", "unsaved"}
Over == turn \in Ends
NoConts == [output |-> 0, tool |-> 0]
NoJob == [held |-> FALSE, gate |-> 0]
NoTries == [retries |-> 0, overflow |-> FALSE]
NoCalls == [k \in 1..MaxCalls |-> "none"]
OpenCalls == {k \in 1..MaxCalls : calls[k] = "open"}

TurnTypeOK ==
    /\ SubTypeOK
    /\ turn \in Ends \cup {"prepare", "stream", "tools", "toolwait", "followup", "collect"}
    /\ steps \in 0..MaxSteps
    /\ halt \in BOOLEAN /\ final \in BOOLEAN
    /\ tries \in [retries : 0..MaxRecovery, overflow : BOOLEAN]
    /\ conts \in [output : 0..MaxOutput, tool : 0..MaxCutTool]
    /\ job \in [held : BOOLEAN, gate : 0..GateBudget]
    /\ calls \in [1..MaxCalls -> {"none", "open", "settled", "twice", "left"}]
    /\ at \in 1..(MaxCalls + 1)
    /\ nudge \subseteq Child /\ asked \subseteq Child
    /\ seen \subseteq Child /\ lost \subseteq Child /\ retold \subseteq Child
    /\ turns \in 0..MaxTurns /\ abort \in BOOLEAN /\ aborts \in 0..MaxAborts

TurnInit ==
    /\ SubInit
    /\ turn = "answered" /\ steps = 0 /\ halt = FALSE /\ final = FALSE
    /\ tries = NoTries
    /\ conts = NoConts /\ job = NoJob
    /\ calls = NoCalls /\ at = 1
    /\ nudge = {} /\ asked = {} /\ seen = {} /\ lost = {} /\ retold = {}
    /\ turns = 0 /\ abort = FALSE /\ aborts = 0

GoTo(p) == turn' = p
\* Run returns: how it ended stays, the turn's own state is gone.
Returns(p) ==
    /\ turn' = p
    /\ steps' = 0 /\ halt' = FALSE /\ final' = FALSE /\ at' = 1
    /\ tries' = NoTries /\ conts' = NoConts /\ job' = NoJob
\* Another model step: the counter is advanced.
Again == steps' = steps + 1 /\ turn' = "prepare"
-------------------------------------------------------------------------------
(* Runner.Run: a new turn, and the top of its loop.                        *)

BeginTurn ==
    /\ Over /\ turns < MaxTurns
    /\ GoTo("prepare")
    /\ \E h \in BOOLEAN : job' = [held |-> h, gate |-> 0]
    /\ calls' = NoCalls
    /\ nudge' = {} /\ asked' = {} /\ lost' = lost \cup nudge \cup asked
    /\ turns' = turns + 1
    /\ cancelled' = FALSE
    /\ UNCHANGED <<subVars, steps, halt, final, tries, conts, at, seen, retold, abort,
                   aborts>>

FoundCancelled ==
    /\ turn = "prepare" /\ cancelled
    /\ Returns("stopped")
    /\ UNCHANGED <<subVars, cancelled, calls, nudge, asked, seen, lost, retold,
                   abortVars>>

\* BuildSDKMessages fails.
HistoryFails ==
    /\ turn = "prepare"
    /\ Returns("failed")
    /\ UNCHANGED <<subVars, cancelled, calls, nudge, asked, seen, lost, retold,
                   abortVars>>

\* Mutant of PrepareStep: the limit itself is taken for one more round of work.
PrepareStepLate ==
    /\ turn = "prepare" /\ ~cancelled
    /\ final' = (steps > MaxSteps \/ halt)
    /\ calls' = NoCalls
    /\ asked' = nudge /\ nudge' = {}
    /\ GoTo("stream")
    /\ UNCHANGED <<subVars, cancelled, steps, halt, tries, conts, job, at, seen, lost,
                   retold, abortVars>>

PrepareStep ==
    /\ turn = "prepare" /\ ~cancelled
    /\ final' = (steps = MaxSteps \/ halt)
    /\ calls' = NoCalls
    /\ asked' = nudge /\ nudge' = {}
    /\ GoTo("stream")
    /\ UNCHANGED <<subVars, cancelled, steps, halt, tries, conts, job, at, seen, lost,
                   retold, abortVars>>
-------------------------------------------------------------------------------
(* streamStep: the model stream fails, is retried, or is stopped.          *)

\* isUserStop, in the stream or in the pause before a retry.
StreamStopped ==
    /\ turn = "stream" /\ cancelled
    /\ Returns("stopped")
    /\ UNCHANGED <<subVars, cancelled, calls, nudge, asked, seen, lost, retold,
                   abortVars>>

\* Mutant of StreamRetries: the recovery from an overflow is not remembered.
StreamRetriesForever ==
    /\ turn = "stream" /\ ~cancelled
    /\ tries' = [tries EXCEPT !.overflow = ~@]
    /\ UNCHANGED <<subVars, cancelled, turn, steps, halt, final, conts, job, calls, at,
                   nudge, asked, seen, lost, retold, abortVars>>

\* A recoverable failure with no complete tool call, or the one recovery from an
\* overflow of the context: the same step is streamed again.
StreamRetries ==
    /\ turn = "stream" /\ ~cancelled
    /\ \/ /\ tries.retries < MaxRecovery
          /\ tries' = [tries EXCEPT !.retries = @ + 1]
       \/ /\ ~tries.overflow
          /\ tries' = [tries EXCEPT !.overflow = TRUE]
    /\ UNCHANGED <<subVars, cancelled, turn, steps, halt, final, conts, job, calls, at,
                   nudge, asked, seen, lost, retold, abortVars>>

StreamFails ==
    /\ turn = "stream"
    /\ Returns("failed")
    /\ UNCHANGED <<subVars, cancelled, calls, nudge, asked, seen, lost, retold,
                   abortVars>>
-------------------------------------------------------------------------------
(* settleModelStep: the step is saved and says how the turn goes on.       *)

\* The step's n complete calls are saved open, the cut ones with a result.
Persisted(n, cut) == [k \in 1..MaxCalls |-> CASE k <= n -> "open"
                                              [] k > n /\ k <= n + cut -> "settled"
                                              [] OTHER -> "none"]
Answered == seen' = seen \cup asked /\ asked' = {}

\* SaveTokenUsage or AppendAssistantStep fails, or SaveAssistantProviderState does
\* after the calls were saved.  A cancelled context makes any of them fail.
StepNotSaved ==
    /\ turn = "stream"
    /\ Answered
    /\ \/ UNCHANGED calls
       \/ ~final /\ \E n \in 1..MaxCalls : calls' = Persisted(n, 0)
    /\ Returns("unsaved")
    /\ UNCHANGED <<subVars, cancelled, nudge, lost, retold, abortVars>>

\* completeTurn of the finalizing step, whose tool calls are dropped.
StepIsFinal ==
    /\ turn = "stream" /\ final /\ ~cancelled
    /\ Answered
    /\ Returns("final")
    /\ UNCHANGED <<subVars, cancelled, calls, nudge, lost, retold, abortVars>>

\* FinishStop, or a step without calls whose continuations are used up: the turn
\* looks for what else there is to do.  Calls saved with a step that finishes with
\* stop are left there: they are not run, and get no result.
StepStops(n, cut) ==
    /\ turn = "stream" /\ ~final /\ ~cancelled /\ n + cut <= MaxCalls
    /\ calls' = [k \in 1..MaxCalls |-> IF k <= n THEN "left" ELSE Persisted(n, cut)[k]]
    /\ Answered
    /\ GoTo("followup")
    /\ tries' = NoTries
    /\ UNCHANGED <<subVars, cancelled, steps, halt, final, conts, job, at, nudge, lost,
                   retold, abortVars>>

StepCallsTools(n, cut) ==
    /\ turn = "stream" /\ ~final /\ ~cancelled /\ n + cut <= MaxCalls
    /\ calls' = Persisted(n, cut)
    /\ Answered
    /\ GoTo("tools")
    /\ tries' = NoTries
    /\ UNCHANGED <<subVars, cancelled, steps, halt, final, conts, job, at, nudge, lost,
                   retold, abortVars>>

\* FinishMaxTokens inside a tool call: another step, or the end of the turn.
StepCutInTool ==
    /\ turn = "stream" /\ ~final /\ ~cancelled
    /\ calls' = Persisted(0, 1)
    /\ Answered
    /\ \/ /\ conts.tool < MaxCutTool /\ steps < MaxSteps
          /\ conts' = [conts EXCEPT !.tool = @ + 1]
          /\ Again
          /\ tries' = NoTries
          /\ UNCHANGED <<halt, final, job, at>>
       \/ /\ conts.tool = MaxCutTool \/ steps = MaxSteps
          /\ Returns("truncated")
    /\ UNCHANGED <<subVars, cancelled, nudge, lost, retold, abortVars>>

\* FinishMaxTokens in the text.
StepCutInText ==
    /\ turn = "stream" /\ ~final /\ ~cancelled
    /\ Answered
    /\ conts.output < MaxOutput /\ steps < MaxSteps
    /\ conts' = [conts EXCEPT !.output = @ + 1]
    /\ Again
    /\ tries' = NoTries
    /\ UNCHANGED <<subVars, cancelled, halt, final, job, calls, at, nudge, lost, retold,
                   abortVars>>
-------------------------------------------------------------------------------
(* executeToolBatch: one call after the other, each with its result.       *)

SettleCall(k) == calls' = [calls EXCEPT ![k] = IF @ = "open" THEN "settled" ELSE "twice"]
AtCall == turn = "tools" /\ at <= MaxCalls /\ calls[at] = "open"

\* Any other tool, a refused spawn, a skipped call: a result and no more.  The
\* third identical call in a row halts the loop; complete_job and release_job
\* end the job for the tracker, whether they succeed or not.
ToolReturns ==
    /\ AtCall /\ ~cancelled
    /\ SettleCall(at) /\ at' = at + 1
    /\ \/ UNCHANGED <<halt, job>>
       \/ halt' = TRUE /\ UNCHANGED job
       \/ job.held /\ job' = [job EXCEPT !.held = FALSE] /\ UNCHANGED halt
    /\ UNCHANGED <<subVars, cancelled, turn, steps, final, tries, conts, nudge, asked,
                   seen, lost, retold, abortVars>>

ToolSpawns(c) ==
    /\ AtCall /\ ~cancelled
    /\ Register(c)
    /\ SettleCall(at) /\ at' = at + 1
    /\ UNCHANGED <<cancelled, turn, steps, halt, final, tries, conts, job, nudge, asked,
                   seen, lost, retold, abortVars>>

ToolWaits(ids) ==
    /\ AtCall /\ ~cancelled
    /\ SnapshotHandles(ids)
    /\ GoTo("toolwait")
    /\ UNCHANGED <<cancelled, steps, halt, final, tries, conts, job, calls, at, nudge,
                   asked, seen, lost, retold, abortVars>>

\* wait_subagents returns: its output is the result of the call.  Children it was
\* asked for by name, and that the orchestrator knows no more of, are looked up in
\* the database and told once more, whoever was told of them before; a child whose
\* row can not be read, or does not say that it ended, is left out.
ToolWaitEnds ==
    /\ turn = "toolwait"
    /\ \/ /\ WaitInterrupted
          /\ lost' = lost \cup wait.got /\ UNCHANGED <<seen, retold>>
       \/ \E results \in SUBSET Child :
             /\ TakePending(results)
             /\ seen' = seen \cup results /\ UNCHANGED lost
             /\ \E again \in SUBSET {c \in wait.ids \ results : child[c] = "back"} :
                   retold' = retold \cup again
    /\ SettleCall(at) /\ at' = at + 1
    /\ GoTo("tools")
    /\ UNCHANGED <<cancelled, steps, halt, final, tries, conts, job, nudge, asked, abortVars>>

\* persistToolResult fails after the call was run.
ToolNotSaved ==
    /\ AtCall
    /\ UNCHANGED subVars \/ \E c \in Child : Register(c)
    /\ Returns("unsaved")
    /\ UNCHANGED <<cancelled, calls, nudge, asked, seen, lost, retold, abortVars>>

ToolWaitNotSaved ==
    /\ turn = "toolwait"
    /\ \E results \in SUBSET Child : TakePending(results) /\ lost' = lost \cup results
    /\ Returns("unsaved")
    /\ UNCHANGED <<cancelled, calls, nudge, asked, seen, retold, abortVars>>

\* Mutant of CallsCancelled: only the call at hand gets the cancelled result.
CallsCancelledOne ==
    /\ turn = "tools" /\ cancelled
    /\ IF at <= MaxCalls THEN SettleCall(at) ELSE UNCHANGED calls
    /\ Returns("stopped")
    /\ UNCHANGED <<subVars, cancelled, nudge, asked, seen, lost, retold, abortVars>>

\* The context is cancelled before or after a call: the rest get their result.
CallsCancelled ==
    /\ turn = "tools" /\ cancelled
    /\ calls' = [k \in 1..MaxCalls |->
                    IF k >= at /\ calls[k] = "open" THEN "settled" ELSE calls[k]]
    /\ Returns("stopped")
    /\ UNCHANGED <<subVars, cancelled, nudge, asked, seen, lost, retold, abortVars>>

BatchEnds ==
    /\ turn = "tools" /\ ~AtCall /\ ~cancelled
    /\ Again
    /\ at' = 1
    /\ UNCHANGED <<subVars, cancelled, halt, final, tries, conts, job, calls, nudge,
                   asked, seen, lost, retold, abortVars>>
-------------------------------------------------------------------------------
(* continueForFollowUp: subagent results, then the gate, then the end.     *)

\* Mutant of CollectStarts: children in flight are sampled first, so that results
\* which came in before are not fetched.
CollectStartsIfActive ==
    /\ turn = "followup"
    /\ \/ Flight = {} /\ Returns("answered") /\ UNCHANGED subVars
       \/ /\ Flight # {} /\ SnapshotHandles(Child) /\ GoTo("collect")
          /\ UNCHANGED <<steps, halt, final, tries, conts, job, at>>
    /\ UNCHANGED <<cancelled, calls, nudge, asked, seen, lost, retold, abortVars>>

CollectStarts ==
    /\ turn = "followup"
    /\ SnapshotHandles(Child)
    /\ GoTo("collect")
    /\ UNCHANGED <<cancelled, steps, halt, final, tries, conts, job, calls, at, nudge,
                   asked, seen, lost, retold, abortVars>>

CollectFails ==
    /\ turn = "collect" /\ wait.had
    /\ WaitInterrupted
    /\ lost' = lost \cup wait.got
    /\ Returns("failed")
    /\ UNCHANGED <<cancelled, calls, nudge, asked, seen, retold, abortVars>>

\* TryConsumeCompletionGate: with a job held, the stop is refused while the budget lasts.
GateOrComplete ==
    \/ /\ job.held /\ job.gate < GateBudget
       /\ job' = [job EXCEPT !.gate = @ + 1]
       /\ Again
       /\ UNCHANGED <<halt, final, tries, conts, at>>
    \/ /\ ~job.held \/ job.gate = GateBudget
       /\ Returns("answered")

CollectNothing ==
    /\ turn = "collect"
    /\ \/ ~wait.had /\ WaitInterrupted
       \/ TakePending({})
    /\ GateOrComplete
    /\ UNCHANGED <<cancelled, calls, nudge, asked, seen, lost, retold, abortVars>>

CollectReturns ==
    /\ turn = "collect"
    /\ \E results \in SUBSET Child \ {{}} : TakePending(results) /\ nudge' = results
    /\ Again
    /\ UNCHANGED <<cancelled, halt, final, tries, conts, job, calls, at, asked, seen,
                   lost, retold, abortVars>>
-------------------------------------------------------------------------------
(* handleAbortSession: the children first, then the run of the session.    *)

AbortChildren ==
    /\ ~abort /\ aborts < MaxAborts /\ turns > 0
    /\ CancelForParent
    /\ abort' = TRUE /\ aborts' = aborts + 1
    /\ UNCHANGED <<cancelled, turnOnly, turns>>

AbortTurn ==
    /\ abort
    /\ cancelled' = (cancelled \/ ~Over)
    /\ abort' = FALSE
    /\ UNCHANGED <<subVars, turnOnly, turns, aborts>>
-------------------------------------------------------------------------------
Stream == \/ StreamStopped \/ StreamRetries \/ StreamFails
          \/ StepNotSaved \/ StepIsFinal
          \/ \E n \in 0..MaxCalls, cut \in 0..1 : StepStops(n, cut)
          \/ \E n \in 1..MaxCalls, cut \in 0..1 : StepCallsTools(n, cut)
          \/ StepCutInTool \/ StepCutInText

Tools == \/ ToolReturns \/ ToolWaitEnds \/ ToolNotSaved \/ ToolWaitNotSaved
         \/ CallsCancelled \/ BatchEnds
         \/ \E c \in Child : ToolSpawns(c)
         \/ \E ids \in SUBSET Child \ {{}} : ToolWaits(ids)

FollowUp == CollectStarts \/ CollectFails \/ CollectNothing \/ CollectReturns

WaitStep == /\ \E c \in Child : WaitReceives(c) \/ WaitGivesUp(c)
            /\ UNCHANGED <<turnOnly, abortVars>>

\* A step of the turn's own goroutines.
TurnStep ==
    \/ FoundCancelled \/ HistoryFails \/ PrepareStep
    \/ Stream \/ Tools \/ WaitStep \/ FollowUp

ChildStep == /\ \E c \in Child : Complete(c)
             /\ UNCHANGED <<turnOnly, abortVars>>

TurnNext == BeginTurn \/ TurnStep \/ ChildStep \/ AbortChildren \/ AbortTurn

TurnSpec == TurnInit /\ [][TurnNext]_turnVars

\* The turn's goroutines and the abort handler run, the model stream and every tool
\* return or fail (their clients have deadlines), and a child ends by itself unless
\* it is Hanging.
TurnFairSpec ==
    /\ TurnSpec
    /\ WF_turnVars(TurnStep \/ AbortTurn)
    /\ WF_turnVars(ChildStep)
-------------------------------------------------------------------------------
\* The places a child's result can be in.
Places(c) == {p \in {<<"pending", pending>>, <<"box", box>>, <<"got", wait.got>>,
                     <<"nudge", nudge>>, <<"asked", asked>>, <<"seen", seen>>,
                     <<"lost", lost>>} : c \in p[2]}

\* No result of a subagent is dropped: what the orchestrator holds of a child that
\* came back is in one place on its way from Complete to a model request, and stays
\* in a channel nobody reads only when a cancelled Wait had claimed the child.  A
\* turn that completes leaves no collected result unsaid.  What wait_subagents reads
\* again from the database is never a result that is still to come: it was told,
\* was lost with a turn that was cut, or is stuck in such a channel, which nobody
\* but the database can make good.
ResultsAccounted ==
    /\ \A c \in Child : Cardinality(Places(c)) = (IF child[c] = "back" THEN 1 ELSE 0)
    /\ box \subseteq wait.open \cup abandoned
    /\ turn \in {"answered", "truncated", "final"} => nudge \cup asked = {}
    /\ retold \subseteq seen \cup lost \cup (box \ wait.open)

\* Every tool call a step asks for gets one result, whatever cuts the turn short (the
\* token limit, a stop in the middle of a batch, the step limit), unless the store
\* itself fails.  The calls a step is saved with although it finishes with stop are
\* the exception: they are left, and nothing else of that step waits for a result.
CallsSettled ==
    /\ turn \notin {"tools", "toolwait", "unsaved"} => OpenCalls = {}
    /\ \A k \in 1..MaxCalls : calls[k] # "twice"
    /\ (\E k \in 1..MaxCalls : calls[k] = "left") => OpenCalls = {}

\* A turn that ends by its own answer leaves no child in flight and no result
\* behind: the check for children and the fetch of results are one step.
StopLeavesNoChild ==
    turn = "answered" /\ ~cancelled => Flight = {} /\ pending = {}

\* Every turn ends, however the model stops, retries or loops, unless it waits for a
\* child that does not end by itself.
TurnEnds == ~Over ~> (Over \/ wait.open \cap Hanging # {})

\* A stop ends the turn, also one that waits for a child which never ends.
StopEndsTurn == cancelled ~> Over
===============================================================================
