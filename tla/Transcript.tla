------------------------------ MODULE Transcript ------------------------------
(***************************************************************************)
(* The transcript of one session and what of it is sent to the model: the  *)
(* rows a turn writes (session/messages.go), the rolling summary that      *)
(* replaces the oldest of them (agent/compaction.go), the copy a fork      *)
(* takes (session/fork.go) and the clearing of a session                   *)
(* (session/sessions.go).  A turn and a manual compaction hold the run     *)
(* lease of the session, which SessionRun models; a fork, the clearing and *)
(* a change of the workspace do not, and run beside them.                  *)
(*                                                                         *)
(* The contents of the rows are left out, and with them the stubbing of    *)
(* old tool outputs (session/prune.go), which changes no row's place.  A   *)
(* crash is the end of whatever was under way, at the point it had reached.*)
(***************************************************************************)
EXTENDS Naturals, Sequences, FiniteSets

CONSTANTS MaxRows,     \* bound: rows written to the session
          MaxCalls,    \* bound: tool calls of one answer
          MaxFolds,    \* bound: compactions
          MaxGuests    \* bound: failed loads, and what is begun beside the holders

ASSUME TranscriptAssumption == {MaxRows, MaxCalls, MaxFolds, MaxGuests} \subseteq Nat

VARIABLES
  msgs,     \* the rows of the session, oldest first
  made,     \* how many rows were ever written: the ids are 1, 2, ...
  stored,   \* the session's summary and the row up to which it reaches
  held,     \* who holds the run lease: "none", "turn" or "manual"
  stage,    \* where the holder is
  copy,     \* the holder's own copy of the summary and the mark
  blind,    \* the turn could not read the session and goes on without
  fold,     \* the rows being summarised
  step,     \* the answer whose calls are written, and the next call
  asked,    \* what a request for a compaction read before it has the lease
  clearing, \* where the clearing of the session is
  fork,     \* the copy: where it is, the rows left to copy, those copied
  torn,     \* which transcripts were written to in the middle of another's work
  folds, guests

leaseVars == <<held, stage, copy, blind, fold, step>>
countVars == <<folds, guests>>
transcriptVars == <<msgs, made, stored, leaseVars, asked, clearing, fork, torn, countVars>>

NoCall == <<0, 0>>
Blank == [summary |-> {}, mark |-> 0]    \* no summary, every row in the window
NoFork == [at |-> "no", left |-> <<>>, rows |-> <<>>]
NoStep == [of |-> 0, calls |-> 0, next |-> 0]

Ids(rows) == {rows[i].id : i \in DOMAIN rows}
Called(rows) == UNION {{rows[i].id} \X rows[i].calls : i \in DOMAIN rows}

(* FilterMessagesAfterCompacted: the rows behind the marked one, all of    *)
(* them when it is gone.                                                   *)
Window(rows, mark) ==
    IF mark \in Ids(rows)
    THEN SubSeq(rows, 1 + (CHOOSE i \in DOMAIN rows : rows[i].id = mark), Len(rows))
    ELSE rows

TranscriptInit ==
    /\ msgs = <<>> /\ made = 0 /\ stored = Blank
    /\ held = "none" /\ stage = "out" /\ copy = Blank /\ blind = FALSE
    /\ fold = {} /\ step = NoStep
    /\ asked = {} /\ clearing = "no"
    /\ fork = NoFork /\ torn = {}
    /\ folds = 0 /\ guests = 0

Write(role, of) ==
    /\ made < MaxRows
    /\ made' = made + 1
    /\ msgs' = Append(msgs, [id |-> made + 1, role |-> role, calls |-> {}, of |-> of])

Guest == guests < MaxGuests /\ guests' = guests + 1

LetGo == held' = "none" /\ stage' = "out" /\ copy' = Blank /\ blind' = FALSE
         /\ fold' = {} /\ step' = NoStep

-------------------------------------------------------------------------------
(* The turn.  The lease is taken and the user's message written.           *)
PostMessage ==
    /\ held = "none" /\ held' = "turn" /\ stage' = "load"
    /\ Write("user", NoCall)
    /\ UNCHANGED <<stored, copy, blind, fold, step, asked, clearing, fork, torn, countVars>>

(* initTurnState reads the session; when it cannot, the turn goes on as if *)
(* nothing had been summarised.                                            *)
LoadSession ==
    /\ held = "turn" /\ stage = "load" /\ stage' = "before"
    /\ \/ copy' = stored /\ UNCHANGED <<blind, guests>>
       \/ copy' = Blank /\ blind' = TRUE /\ Guest
    /\ UNCHANGED <<msgs, made, stored, held, fold, step, asked, clearing, fork, torn, folds>>

(* The model answers, with the calls it wants made.                        *)
Answer(n) ==
    /\ held = "turn" /\ stage = "asked"
    /\ Write("assistant", NoCall)
    /\ IF n = 0 THEN stage' = "before" /\ UNCHANGED step
                ELSE stage' = "calls" /\ step' = [of |-> made + 1, calls |-> n, next |-> 1]
    /\ UNCHANGED <<stored, held, copy, blind, fold, asked, clearing, fork, torn, countVars>>

(* One row of tool_calls for each call, written after the answer's own row *)
(* and outside of any transaction.                                         *)
WriteCall ==
    /\ held = "turn" /\ stage = "calls" /\ step.of \in Ids(msgs)
    /\ msgs' = [i \in DOMAIN msgs |-> IF msgs[i].id = step.of
                                      THEN [msgs[i] EXCEPT !.calls = @ \cup {step.next}]
                                      ELSE msgs[i]]
    /\ IF step.next = step.calls
       THEN stage' = "results" /\ step' = [step EXCEPT !.next = 1]
       ELSE step' = [step EXCEPT !.next = @ + 1] /\ UNCHANGED stage
    /\ UNCHANGED <<made, stored, held, copy, blind, fold, asked, clearing, fork, torn, countVars>>

(* The result of the next call: a row of its own.                          *)
WriteResult ==
    /\ held = "turn" /\ stage = "results"
    /\ Write("result", <<step.of, step.next>>)
    /\ IF step.next = step.calls
       THEN stage' = "before" /\ step' = NoStep
       ELSE step' = [step EXCEPT !.next = @ + 1] /\ UNCHANGED stage
    /\ UNCHANGED <<stored, held, copy, blind, fold, asked, clearing, fork, torn, countVars>>

(* The answer came with the finish reason stop: the calls written with it  *)
(* are not run, and those without a result stay without one.               *)
LeaveCalls ==
    /\ held = "turn" /\ stage = "results"
    /\ stage' = "before" /\ step' = NoStep
    /\ UNCHANGED <<msgs, made, stored, held, copy, blind, fold, asked, clearing, fork, torn,
                   countVars>>

(* The turn is over: answered, stopped or failed, at any point; a failure  *)
(* is written as a system row.                                             *)
EndRun ==
    /\ held = "turn" /\ LetGo
    /\ Write("system", NoCall) \/ UNCHANGED <<msgs, made>>
    /\ UNCHANGED <<stored, asked, clearing, fork, torn, countVars>>

-------------------------------------------------------------------------------
(* Compaction.  The handler of a manual one reads the session before it    *)
(* has the lease.                                                          *)
AskCompaction ==
    /\ Guest /\ UNCHANGED folds
    /\ asked = {} /\ asked' = {stored}
    /\ UNCHANGED <<msgs, made, stored, leaseVars, clearing, fork, torn>>

StartCompaction ==
    /\ asked # {} /\ asked' = {}
    /\ IF held = "none"
       THEN /\ held' = "manual" /\ stage' = "before" /\ copy' \in asked
            /\ UNCHANGED <<blind, fold, step>>
       ELSE UNCHANGED leaseVars
    /\ UNCHANGED <<msgs, made, stored, clearing, fork, torn, countVars>>

\* Mutant of WindowStarts: the window may start on a tool result.
WindowStartsAnywhere(rows) == 2..Len(rows)

(* RecentWindowStartForKeep: the rows kept verbatim fit a budget of tokens *)
(* and start at any row but a result.  The sizes of the rows are left out, *)
(* so the window may start at each of those.                               *)
WindowStarts(rows) == {i \in 2..Len(rows) : rows[i].role # "result"}

\* Mutant of FoldBegin: the rows to fold are those after the mark the database has now.
FoldBeginFromStored ==
    /\ held # "none" /\ stage \in {"before", "asked"} /\ folds < MaxFolds
    /\ LET active == Window(msgs, stored.mark) IN
       \E i \in WindowStarts(active) : fold' = Ids(SubSeq(active, 1, i - 1))
    /\ stage' = "folding" /\ folds' = folds + 1
    /\ UNCHANGED <<msgs, made, stored, held, copy, blind, step, asked, clearing, fork, torn,
                   guests>>

(* runCompact, up to the request for the summary: before a step of a turn, *)
(* after an overflow of the context, or on demand.                         *)
FoldBegin ==
    /\ held # "none" /\ stage \in {"before", "asked"} /\ folds < MaxFolds
    /\ LET active == Window(msgs, copy.mark) IN
       \E i \in WindowStarts(active) : fold' = Ids(SubSeq(active, 1, i - 1))
    /\ stage' = "folding" /\ folds' = folds + 1
    /\ UNCHANGED <<msgs, made, stored, held, copy, blind, step, asked, clearing, fork, torn,
                   guests>>

AfterFold ==
    IF held = "manual" THEN LetGo
    ELSE /\ stage' = "asked" /\ fold' = {} /\ UNCHANGED <<held, step>>

(* The summary and the mark are stored together.                           *)
FoldDone ==
    /\ stage = "folding" /\ AfterFold
    /\ LET new == [summary |-> copy.summary \cup fold,
                   mark    |-> CHOOSE x \in fold : \A y \in fold : y <= x] IN
       /\ stored' = new
       /\ held = "turn" => copy' = new /\ blind' = FALSE
    /\ UNCHANGED <<msgs, made, asked, clearing, fork, torn, countVars>>

(* Nothing to fold, or the summary could not be made: all stays as it was. *)
FoldSkipped ==
    /\ held # "none" /\ stage \in {"before", "folding"} /\ AfterFold
    /\ held = "turn" => UNCHANGED <<copy, blind>>
    /\ UNCHANGED <<msgs, made, stored, asked, clearing, fork, torn, countVars>>

-------------------------------------------------------------------------------
(* What runs beside the holder.  A change of the workspace leaves a note.  *)
Note ==
    /\ Write("system", NoCall)
    /\ torn' = IF stage \in {"calls", "results"} THEN torn \cup {"session"} ELSE torn
    /\ Guest /\ UNCHANGED folds
    /\ UNCHANGED <<stored, leaseVars, asked, clearing, fork>>

(* Clearing is refused while a run is under way, and takes no lease.       *)
ClearChecks ==
    /\ clearing = "no" /\ held = "none" /\ clearing' = "checked"
    /\ Guest /\ UNCHANGED folds
    /\ UNCHANGED <<msgs, made, stored, leaseVars, asked, fork, torn>>

ClearDeletes ==
    /\ clearing = "checked" /\ clearing' = "deleted"
    /\ msgs' = <<>>
    /\ torn' = torn \cup (IF held = "turn" THEN {"session"} ELSE {})
                    \cup (IF fork.at = "copying" THEN {"fork"} ELSE {})
    /\ UNCHANGED <<made, stored, leaseVars, asked, fork, countVars>>

ClearResets ==
    /\ clearing = "deleted" /\ clearing' = "no"
    /\ stored' = Blank
    /\ UNCHANGED <<msgs, made, leaseVars, asked, fork, torn, countVars>>

ClearFails ==
    /\ clearing # "no" /\ clearing' = "no"
    /\ UNCHANGED <<msgs, made, stored, leaseVars, asked, fork, torn, countVars>>

(* A fork lists the rows once and then the calls row by row; a result is   *)
(* given the new id of its call, if that was copied.  One fork.            *)
ForkBegin ==
    /\ fork.at = "no"
    /\ fork' = [at |-> "copying", left |-> msgs, rows |-> <<>>]
    /\ Guest /\ UNCHANGED folds
    /\ UNCHANGED <<msgs, made, stored, leaseVars, asked, clearing, torn>>

CallsNow(m) == UNION {msgs[i].calls : i \in {j \in DOMAIN msgs : msgs[j].id = m.id}}

Copied(m, calls) ==
    [m EXCEPT !.calls = calls, !.of = IF @ \in Called(fork.rows) THEN @ ELSE NoCall]

ForkCopies ==
    /\ fork.at = "copying" /\ fork.left # <<>>
    /\ LET m == Head(fork.left) IN
       fork' = [fork EXCEPT !.left = Tail(@), !.rows = Append(@, Copied(m, CallsNow(m)))]
    /\ UNCHANGED <<msgs, made, stored, leaseVars, asked, clearing, torn, countVars>>

(* The fork is complete, or fails.  What was copied stays, and is no       *)
(* longer looked at: a last row copied without all of its calls has no     *)
(* result after it.                                                        *)
ForkEnds ==
    /\ fork.at = "copying" /\ fork' = NoFork /\ torn' = torn \ {"fork"}
    /\ UNCHANGED <<msgs, made, stored, leaseVars, asked, clearing, countVars>>

TranscriptNext ==
    \/ PostMessage \/ LoadSession \/ (\E n \in 0..MaxCalls : Answer(n))
    \/ WriteCall \/ WriteResult \/ LeaveCalls \/ EndRun
    \/ AskCompaction \/ StartCompaction \/ FoldBegin \/ FoldDone \/ FoldSkipped
    \/ Note \/ ClearChecks \/ ClearDeletes \/ ClearResets \/ ClearFails
    \/ ForkBegin \/ ForkCopies \/ ForkEnds

TranscriptSpec == TranscriptInit /\ [][TranscriptNext]_transcriptVars

-------------------------------------------------------------------------------
(* The types of the variables.                                             *)
Row == [id : 1..MaxRows, role : {"user", "assistant", "result", "system"},
        calls : SUBSET (1..MaxCalls), of : (0..MaxRows) \X (0..MaxCalls)]
Summary == [summary : SUBSET (1..MaxRows), mark : 0..MaxRows]

TranscriptTypeOK ==
    /\ made \in 0..MaxRows /\ msgs \in Seq(Row) /\ fork.left \in Seq(Row)
    /\ fork.rows \in Seq(Row) /\ fork.at \in {"no", "copying"}
    /\ stored \in Summary /\ copy \in Summary /\ asked \subseteq Summary
    /\ held \in {"none", "turn", "manual"} /\ blind \in BOOLEAN
    /\ stage \in {"out", "load", "before", "folding", "asked", "calls", "results"}
    /\ (held = "none") = (stage = "out") /\ (stage = "folding") = (fold # {})
    /\ clearing \in {"no", "checked", "deleted"} /\ torn \subseteq {"session", "fork"}
    /\ Cardinality(asked) <= 1 /\ (stage \in {"calls", "results"}) = (step # NoStep)

(* What is sent of these rows: system rows are not, nor are calls without  *)
(* a result.  Every result must follow its call, with only results between.*)
Paired(rows) ==
    \A j \in DOMAIN rows : rows[j].role = "result" =>
        \E i \in 1..(j - 1) :
            /\ rows[i].role = "assistant" /\ rows[j].of \in {rows[i].id} \X rows[i].calls
            /\ \A k \in (i + 1)..(j - 1) : /\ rows[k].role \in {"result", "system"}
                                          /\ rows[k].of # rows[j].of

(* No request ever shows the model a tool result whose call it does not    *)
(* show: not after a compaction, a stop, a failure or a lost write, nor    *)
(* after a restart, and not in a fork taken while a turn writes            *)
(* (buildSDKMessagesFromRows, RecentWindowStartForKeep, copyTranscript).   *)
(* The transcripts another actor wrote into are left out: a note between a *)
(* call and its result, and a clearing in the middle of a turn or a fork,  *)
(* can leave a result alone.                                               *)
PromptPairs ==
    /\ "session" \notin torn => Paired(Window(msgs, stored.mark))
    /\ "fork" \notin torn /\ "session" \notin torn => Paired(fork.rows)

(* Every row is in the summary or in the window after the mark, for the    *)
(* stored pair and for the pair a turn works with, whose summary is its    *)
(* own and whose window is read anew: however late a compaction comes, and *)
(* whatever it had read (runCompact, compactBeforeStep, initTurnState).  A *)
(* turn that could not read the session is left out.                       *)
NothingForgotten ==
    LET window == Ids(Window(msgs, stored.mark)) IN
    /\ Ids(msgs) \subseteq stored.summary \cup window
    /\ held = "turn" /\ stage # "load" /\ ~blind =>
          Ids(msgs) \subseteq copy.summary \cup window
===============================================================================
