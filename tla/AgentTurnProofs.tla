---------------------------- MODULE AgentTurnProofs ----------------------------
(***************************************************************************)
(* Proofs about AgentTurn and Subagents, for any number of children, calls *)
(* and turns and every value of the limits.                                *)
(*                                                                         *)
(* TurnInv has five parts that lean on each other.  StepsInv: a step that  *)
(* works has a counter below the limit.  BatchInv: the calls still open    *)
(* are the next ones of the batch.  Partition: every child that is back    *)
(* has its result in exactly one place, which no counting in the actions   *)
(* guarantees by itself: a Wait may hand over only what WaitInv says it    *)
(* has, and Complete may use a channel only for a claimed handle.          *)
(* FlightInv: a Wait that is not cancelled watches every child it is       *)
(* about, so that the empty answer of the last Wait of a turn means that   *)
(* nothing is in flight.  RetoldInv: what is read again from the database  *)
(* is a result that no Wait will bring.                                    *)
(***************************************************************************)
EXTENDS AgentTurn, FiniteSetTheorems, TLAPS

\* A step that does work is counted in time: only the finalizing one may come
\* when the counter is at its limit.
StepsInv ==
    /\ turn \in {"stream", "tools", "toolwait", "followup", "collect"} /\ ~final =>
         steps < MaxSteps
    /\ turn \in {"tools", "toolwait", "followup", "collect"} => ~final

\* The calls that are still open are the next ones of the batch, without a gap.
BatchInv ==
    /\ \A k \in 1..MaxCalls : calls[k] # "twice"
    /\ turn \notin {"tools", "toolwait"} => at = 1
    /\ turn \notin {"tools", "toolwait", "unsaved"} =>
         \A k \in 1..MaxCalls : calls[k] # "open"
    /\ turn \in {"tools", "toolwait"} =>
         \A k \in 1..MaxCalls : calls[k] = "open" =>
            at <= k /\ \A i \in at..k : calls[i] = "open"
    /\ turn = "toolwait" => at <= MaxCalls /\ calls[at] = "open"
    /\ (\E k \in 1..MaxCalls : calls[k] = "left") => \A k \in 1..MaxCalls : calls[k] # "open"

\* The results of the children that are back, each in one place.
Partition ==
    /\ pending \cap (box \cup wait.got \cup nudge \cup asked \cup seen \cup lost) = {}
    /\ box \cap (wait.got \cup nudge \cup asked \cup seen \cup lost) = {}
    /\ wait.got \cap (nudge \cup asked \cup seen \cup lost) = {}
    /\ nudge \cap (asked \cup seen \cup lost) = {}
    /\ asked \cap (seen \cup lost) = {}
    /\ seen \cap lost = {}
    /\ \A c \in Child : child[c] = "back" <=>
         c \in pending \cup box \cup wait.got \cup nudge \cup asked \cup seen \cup lost

\* Who waits, for whom, and where the results of earlier waits are by then.
WaitInv ==
    /\ wait.on <=> turn \in {"toolwait", "collect"}
    /\ ~wait.on => wait = NoWait
    /\ ~wait.had => wait.open = {} /\ wait.got = {}
    /\ box \subseteq wait.open \cup abandoned
    /\ claimed \subseteq wait.open \cup abandoned
    /\ turn \in {"tools", "toolwait", "followup", "collect", "answered", "truncated", "final"} =>
         nudge = {} /\ asked = {}
    /\ turn = "prepare" => asked = {}
    /\ turn = "stream" => nudge = {}

\* A Wait that nobody cancels watches every child it is about.
FlightInv ==
    /\ wait.on /\ ~cancelled => Flight \cap wait.ids \subseteq wait.open
    /\ turn = "collect" => wait.ids = Child
    /\ turn = "answered" /\ ~cancelled => Flight = {} /\ pending = {}

\* What was told again has been told, was lost, or is out of the reach of a Wait.
RetoldInv == retold \subseteq seen \cup lost \cup (box \ wait.open)

TurnInv ==
    /\ TurnTypeOK /\ StepsInv /\ BatchInv /\ Partition /\ WaitInv /\ FlightInv
    /\ RetoldInv
-------------------------------------------------------------------------------
(* Types.                                                                  *)

LEMMA TurnBounds ==
  /\ MaxSteps \in Nat \ {0} /\ MaxCalls \in Nat \ {0}
  /\ MaxOutput \in Nat /\ MaxCutTool \in Nat /\ MaxRecovery \in Nat
  /\ GateBudget \in Nat /\ MaxTurns \in Nat /\ MaxAborts \in Nat
BY AgentTurnAssumption

LEMMA TurnConstants ==
  /\ MaxSteps \in Nat \ {0} /\ MaxCalls \in Nat \ {0}
  /\ MaxOutput \in Nat /\ MaxCutTool \in Nat /\ MaxRecovery \in Nat
  /\ GateBudget \in Nat /\ MaxTurns \in Nat /\ MaxAborts \in Nat
  /\ 0 \in 0..MaxSteps /\ 1 \in 1..(MaxCalls + 1)
  /\ NoTries \in [retries : 0..MaxRecovery, overflow : BOOLEAN]
  /\ NoConts \in [output : 0..MaxOutput, tool : 0..MaxCutTool]
  /\ NoJob \in [held : BOOLEAN, gate : 0..GateBudget]
  /\ NoCalls \in [1..MaxCalls -> {"none", "open", "settled", "twice", "left"}]
<1>1. /\ MaxSteps \in Nat \ {0} /\ MaxCalls \in Nat \ {0}
      /\ MaxOutput \in Nat /\ MaxCutTool \in Nat /\ MaxRecovery \in Nat
      /\ GateBudget \in Nat /\ MaxTurns \in Nat /\ MaxAborts \in Nat
  BY AgentTurnAssumption
<1>. QED
  BY <1>1 DEF NoTries, NoConts, NoJob, NoCalls

\* The orchestrator's part of the types.
LEMMA SubTypes ==
  ASSUME SubTypeOK
  PROVE  /\ UNCHANGED subVars /\ cancelled' \in BOOLEAN => SubTypeOK'
         /\ \A c \in Child : Register(c) /\ UNCHANGED cancelled => SubTypeOK'
         /\ \A ids \in SUBSET Child : SnapshotHandles(ids) /\ UNCHANGED cancelled => SubTypeOK'
         /\ \A c \in Child : Complete(c) => SubTypeOK'
         /\ \A c \in Child : WaitReceives(c) \/ WaitGivesUp(c) => SubTypeOK'
         /\ WaitInterrupted /\ UNCHANGED cancelled => SubTypeOK'
         /\ \A results : TakePending(results) /\ UNCHANGED cancelled => SubTypeOK'
         /\ CancelForParent /\ UNCHANGED cancelled => SubTypeOK'
<1>. DEFINE Wait == [on : BOOLEAN, ids : SUBSET Child, open : SUBSET Child,
                     got : SUBSET Child, had : BOOLEAN]
<1>. USE DEF SubTypeOK
<1>1. UNCHANGED subVars /\ cancelled' \in BOOLEAN => SubTypeOK'
  BY DEF subVars, Flight
<1>2. ASSUME NEW c \in Child, Register(c), UNCHANGED cancelled
      PROVE  SubTypeOK'
  BY <1>2 DEF Register, Flight
<1>3. ASSUME NEW ids \in SUBSET Child, SnapshotHandles(ids), UNCHANGED cancelled
      PROVE  SubTypeOK'
  BY <1>3 DEF SnapshotHandles, Flight
<1>4. ASSUME NEW c \in Child, Complete(c)
      PROVE  SubTypeOK'
  BY <1>4 DEF Complete, Flight
<1>5. ASSUME NEW c \in Child, WaitReceives(c) \/ WaitGivesUp(c)
      PROVE  SubTypeOK'
  <2>0. wait \in Wait
    OBVIOUS
  <2>1. /\ [wait EXCEPT !.open = @ \ {c}, !.got = @ \cup {c}] \in Wait
        /\ [wait EXCEPT !.open = @ \ {c}] \in Wait
    BY <2>0
  <2>. QED
    BY <1>5, <2>1, ZenonT(60) DEF WaitReceives, WaitGivesUp, Flight
<1>6. NoWait \in Wait
  BY DEF NoWait
<1>7. ASSUME WaitInterrupted, UNCHANGED cancelled
      PROVE  SubTypeOK'
  BY <1>6, <1>7 DEF WaitInterrupted, Flight
<1>8. ASSUME NEW results, TakePending(results), UNCHANGED cancelled
      PROVE  SubTypeOK'
  BY <1>6, <1>8 DEF TakePending, Flight
<1>9. CancelForParent /\ UNCHANGED cancelled => SubTypeOK'
  BY DEF CancelForParent, Flight
<1>. QED
  BY <1>1, <1>2, <1>3, <1>4, <1>5, <1>7, <1>8, <1>9

TurnOnlyTypes ==
  /\ turn \in Ends \cup {"prepare", "stream", "tools", "toolwait", "followup", "collect"}
  /\ steps \in 0..MaxSteps
  /\ halt \in BOOLEAN /\ final \in BOOLEAN
  /\ tries \in [retries : 0..MaxRecovery, overflow : BOOLEAN]
  /\ conts \in [output : 0..MaxOutput, tool : 0..MaxCutTool]
  /\ job \in [held : BOOLEAN, gate : 0..GateBudget]
  /\ at \in 1..(MaxCalls + 1)

CallTypes == calls \in [1..MaxCalls -> {"none", "open", "settled", "twice", "left"}]
ResultTypes == /\ nudge \subseteq Child /\ asked \subseteq Child
               /\ seen \subseteq Child /\ lost \subseteq Child /\ retold \subseteq Child
BoundTypes == turns \in 0..MaxTurns /\ abort \in BOOLEAN /\ aborts \in 0..MaxAborts

LEMMA ReturnsTypes ==
  ASSUME NEW p \in Ends, Returns(p)
  PROVE  TurnOnlyTypes'
BY TurnConstants DEF Returns, TurnOnlyTypes

LEMMA AgainTypes ==
  ASSUME TurnOnlyTypes, Again, steps < MaxSteps, tries' \in {tries, NoTries},
         conts' \in [output : 0..MaxOutput, tool : 0..MaxCutTool],
         job' \in [held : BOOLEAN, gate : 0..GateBudget],
         UNCHANGED <<halt, final>>, at' \in {at, 1}
  PROVE  TurnOnlyTypes'
<1>1. steps' \in 0..MaxSteps
  BY TurnConstants DEF Again, TurnOnlyTypes
<1>. QED
  BY <1>1, TurnConstants, ZenonT(60) DEF Again, TurnOnlyTypes

LEMMA GoToTypes ==
  ASSUME TurnOnlyTypes, NEW p \in {"prepare", "stream", "tools", "toolwait", "followup", "collect"},
         GoTo(p), tries' \in {tries, NoTries}, final' \in BOOLEAN,
         job' \in [held : BOOLEAN, gate : 0..GateBudget],
         UNCHANGED <<steps, halt, conts, at>>
  PROVE  TurnOnlyTypes'
BY TurnConstants DEF GoTo, TurnOnlyTypes

LEMMA CallsTypes ==
  ASSUME CallTypes
  PROVE  /\ \A k : SettleCall(k) => CallTypes'
         /\ \A n, cut : Persisted(n, cut) \in [1..MaxCalls -> {"none", "open", "settled", "twice", "left"}]
         /\ \A n, cut : StepStops(n, cut) => CallTypes'
<1>1. \A n, cut : Persisted(n, cut) \in [1..MaxCalls -> {"none", "open", "settled", "twice", "left"}]
  BY DEF Persisted
<1>. DEFINE State == {"none", "open", "settled", "twice", "left"}
<1>2. ASSUME NEW k, SettleCall(k)
      PROVE  CallTypes'
  <2>. DEFINE new == IF calls[k] = "open" THEN "settled" ELSE "twice"
  <2>1. new \in State
    OBVIOUS
  <2>2. calls \in [1..MaxCalls -> State] /\ calls' = [calls EXCEPT ![k] = new]
    BY <1>2 DEF CallTypes, SettleCall
  <2>. HIDE DEF new, State
  <2>3. calls' \in [1..MaxCalls -> State]
    BY <2>1, <2>2
  <2>. QED
    BY <2>3 DEF CallTypes, State
<1>3. ASSUME NEW n, NEW cut, StepStops(n, cut)
      PROVE  CallTypes'
  BY <1>1, <1>3 DEF CallTypes, StepStops
<1>. HIDE DEF State
<1>. QED
  BY <1>1, <1>2, <1>3

LEMMA TypeParts ==
  /\ TurnTypeOK <=> SubTypeOK /\ TurnOnlyTypes /\ CallTypes /\ ResultTypes /\ BoundTypes
  /\ TurnTypeOK' <=> SubTypeOK' /\ TurnOnlyTypes' /\ CallTypes' /\ ResultTypes' /\ BoundTypes'
BY DEF TurnTypeOK, TurnOnlyTypes, CallTypes, ResultTypes, BoundTypes

LEMMA TurnOnlyTyped ==
  ASSUME TurnTypeOK, StepsInv, BatchInv, TurnNext
  PROVE  TurnOnlyTypes'
<1>. USE DEF Ends
<1>0. /\ TurnOnlyTypes
      /\ tries.retries \in 0..MaxRecovery /\ conts.tool \in 0..MaxCutTool
      /\ conts.output \in 0..MaxOutput /\ job.gate \in 0..GateBudget
  BY TypeParts DEF TurnOnlyTypes
<1>1. CASE BeginTurn
  <2>1. job' \in [held : BOOLEAN, gate : 0..GateBudget]
    <3>1. PICK h \in BOOLEAN : job' = [held |-> h, gate |-> 0]
      BY <1>1 DEF BeginTurn
    <3>2. 0 \in 0..GateBudget
      BY TurnConstants
    <3>. QED
      BY <3>1, <3>2
  <2>. QED
    BY <1>0, <1>1, <2>1, GoToTypes DEF BeginTurn, TurnOnlyTypes
<1>2. CASE \/ FoundCancelled \/ HistoryFails \/ StreamStopped \/ StreamFails
           \/ StepNotSaved \/ StepIsFinal \/ ToolNotSaved \/ ToolWaitNotSaved
           \/ CallsCancelled \/ CollectFails
  BY <1>2, ReturnsTypes DEF FoundCancelled, HistoryFails, StreamStopped, StreamFails,
     StepNotSaved, StepIsFinal, ToolNotSaved, ToolWaitNotSaved, CallsCancelled, CollectFails
<1>3. CASE \/ PrepareStep \/ CollectStarts
           \/ \E n \in 0..MaxCalls, cut \in 0..1 : StepStops(n, cut)
           \/ \E n \in 1..MaxCalls, cut \in 0..1 : StepCallsTools(n, cut)
           \/ \E ids \in SUBSET Child \ {{}} : ToolWaits(ids)
  BY <1>0, <1>3, GoToTypes DEF PrepareStep, StepStops, CollectStarts, StepCallsTools,
     ToolWaits, TurnOnlyTypes
<1>4. CASE StreamRetries
  <2>1. tries' \in [retries : 0..MaxRecovery, overflow : BOOLEAN]
    <3>1. CASE tries.retries < MaxRecovery /\ tries' = [tries EXCEPT !.retries = @ + 1]
      <4>1. tries.retries + 1 \in 0..MaxRecovery
        BY <1>0, <3>1, TurnBounds
      <4>. QED
        BY <1>0, <3>1, <4>1 DEF TurnOnlyTypes
    <3>2. CASE tries' = [tries EXCEPT !.overflow = TRUE]
      BY <1>0, <3>2 DEF TurnOnlyTypes
    <3>. QED
      BY <1>4, <3>1, <3>2 DEF StreamRetries
  <2>. QED
    BY <1>0, <1>4, <2>1 DEF StreamRetries, TurnOnlyTypes
<1>5. CASE StepCutInTool
  <2>1. CASE Returns("truncated")
    BY <2>1, ReturnsTypes
  <2>2. CASE ~Returns("truncated")
    <3>1. /\ conts.tool < MaxCutTool /\ steps < MaxSteps /\ Again /\ tries' = NoTries
          /\ conts' = [conts EXCEPT !.tool = @ + 1] /\ UNCHANGED <<halt, final, job, at>>
      BY <1>5, <2>2 DEF StepCutInTool
    <3>2. conts.tool + 1 \in 0..MaxCutTool
      BY <1>0, <3>1, TurnBounds
    <3>3. conts' \in [output : 0..MaxOutput, tool : 0..MaxCutTool]
      BY <1>0, <3>1, <3>2 DEF TurnOnlyTypes
    <3>. QED
      BY <1>0, <3>1, <3>3, AgainTypes DEF TurnOnlyTypes
  <2>. QED
    BY <2>1, <2>2
<1>6. CASE StepCutInText
  <2>1. conts.output + 1 \in 0..MaxOutput
    BY <1>0, <1>6, TurnBounds DEF StepCutInText
  <2>2. conts' \in [output : 0..MaxOutput, tool : 0..MaxCutTool]
    BY <1>0, <1>6, <2>1 DEF StepCutInText, TurnOnlyTypes
  <2>. QED
    BY <1>0, <1>6, <2>2, AgainTypes DEF StepCutInText, TurnOnlyTypes
<1>7. CASE ToolReturns \/ ToolWaitEnds \/ \E c \in Child : ToolSpawns(c)
  <2>1. at <= MaxCalls /\ at' = at + 1
    BY <1>7 DEF ToolReturns, ToolWaitEnds, ToolSpawns, AtCall, BatchInv
  <2>2. at' \in 1..(MaxCalls + 1)
    BY <1>0, <2>1, TurnConstants DEF TurnOnlyTypes
  <2>3. [job EXCEPT !.held = FALSE] \in [held : BOOLEAN, gate : 0..GateBudget]
    BY <1>0 DEF TurnOnlyTypes
  <2>. QED
    BY <1>0, <1>7, <2>2, <2>3 DEF ToolReturns, ToolWaitEnds, ToolSpawns, GoTo, TurnOnlyTypes
<1>8. CASE BatchEnds \/ CollectReturns
  BY <1>0, <1>8, AgainTypes DEF BatchEnds, CollectReturns, StepsInv, TurnOnlyTypes
<1>9. CASE CollectNothing
  <2>1. CASE Returns("answered")
    BY <2>1, ReturnsTypes
  <2>2. CASE ~Returns("answered")
    <3>1. /\ job.gate < GateBudget /\ job' = [job EXCEPT !.gate = @ + 1]
          /\ Again /\ UNCHANGED <<halt, final, tries, conts, at>>
      BY <1>9, <2>2 DEF CollectNothing, GateOrComplete
    <3>2. job.gate + 1 \in 0..GateBudget
      BY <1>0, <3>1, TurnBounds
    <3>3. job' \in [held : BOOLEAN, gate : 0..GateBudget] /\ steps < MaxSteps
      BY <1>0, <1>9, <3>1, <3>2 DEF TurnOnlyTypes, StepsInv, CollectNothing
    <3>. QED
      BY <1>0, <3>1, <3>3, AgainTypes DEF TurnOnlyTypes
  <2>. QED
    BY <2>1, <2>2
<1>10. CASE WaitStep \/ ChildStep \/ AbortChildren \/ AbortTurn
  BY <1>0, <1>10 DEF WaitStep, ChildStep, AbortChildren, AbortTurn, turnOnly, TurnOnlyTypes
<1>11. CASE Stream
  BY <1>2, <1>3, <1>4, <1>5, <1>6, <1>11 DEF Stream
<1>12. CASE Tools
  BY <1>2, <1>3, <1>7, <1>8, <1>12 DEF Tools
<1>13. CASE FollowUp
  BY <1>2, <1>3, <1>8, <1>9, <1>13 DEF FollowUp
<1>. QED
  BY <1>1, <1>2, <1>3, <1>10, <1>11, <1>12, <1>13 DEF TurnNext, TurnStep

LEMMA TurnTyped ==
  ASSUME TurnTypeOK, StepsInv, BatchInv, TurnNext
  PROVE  TurnTypeOK'
<1>0. SubTypeOK /\ CallTypes /\ ResultTypes /\ BoundTypes
  BY TypeParts
<1>1. SubTypeOK'
  <2>. USE <1>0, SubTypes
  <2>1. CASE BeginTurn \/ AbortTurn
    <3>1. UNCHANGED subVars /\ cancelled' \in BOOLEAN
      BY <2>1 DEF BeginTurn, AbortTurn
    <3>. QED
      BY <3>1
  <2>2. CASE \/ FoundCancelled \/ HistoryFails \/ PrepareStep \/ Stream
             \/ ToolReturns \/ CallsCancelled \/ BatchEnds
    <3>1. UNCHANGED subVars /\ cancelled' = cancelled
      BY <2>2 DEF FoundCancelled, HistoryFails, PrepareStep, Stream, StreamStopped,
         StreamRetries, StreamFails, StepNotSaved, StepIsFinal, StepStops, StepCallsTools,
         StepCutInTool, StepCutInText, ToolReturns, CallsCancelled, BatchEnds
    <3>. QED
      BY <3>1 DEF SubTypeOK
  <2>3. CASE ToolNotSaved \/ \E c \in Child : ToolSpawns(c)
    BY <2>3 DEF ToolNotSaved, ToolSpawns, SubTypeOK
  <2>4. CASE CollectStarts \/ \E ids \in SUBSET Child \ {{}} : ToolWaits(ids)
    BY <2>4 DEF CollectStarts, ToolWaits
  <2>5. CASE ToolWaitEnds \/ ToolWaitNotSaved \/ CollectFails \/ CollectNothing \/ CollectReturns
    BY <2>5 DEF ToolWaitEnds, ToolWaitNotSaved, CollectFails, CollectNothing, CollectReturns
  <2>6. CASE WaitStep \/ ChildStep \/ AbortChildren
    BY <2>6 DEF WaitStep, ChildStep, AbortChildren
  <2>. QED
    BY <2>1, <2>2, <2>3, <2>4, <2>5, <2>6 DEF TurnNext, TurnStep, Tools, FollowUp
<1>2. CallTypes'
  <2>1. calls' = calls \/ (\E k : SettleCall(k)) \/ (\E n, cut : calls' = Persisted(n, cut))
        \/ calls' = NoCalls \/ CallsCancelled \/ (\E n, cut : StepStops(n, cut))
    BY DEF TurnNext, TurnStep, Stream, Tools, FollowUp, WaitStep, ChildStep, turnOnly,
       BeginTurn, FoundCancelled, HistoryFails, PrepareStep, StreamStopped, StreamRetries,
       StreamFails, StepNotSaved, StepIsFinal, StepCallsTools, StepCutInTool,
       StepCutInText, ToolReturns, ToolSpawns, ToolWaits, ToolWaitEnds, ToolNotSaved,
       ToolWaitNotSaved, BatchEnds, CollectStarts, CollectFails, CollectNothing,
       CollectReturns, AbortChildren, AbortTurn
  <2>2. CASE CallsCancelled
    BY <1>0, <2>2 DEF CallsCancelled, CallTypes
  <2>3. CASE ~CallsCancelled
    BY <1>0, <2>1, <2>3, CallsTypes, TurnConstants DEF CallTypes
  <2>. QED
    BY <2>2, <2>3
<1>3. ResultTypes'
  <2>1. ASSUME NEW results, TakePending(results)
        PROVE  results \subseteq Child
    BY <1>0, <2>1 DEF TakePending, SubTypeOK
  <2>2. wait.got \subseteq Child
    BY <1>0 DEF SubTypeOK
  <2>3. CASE ToolWaitEnds
    <3>1. UNCHANGED <<nudge, asked>>
      BY <2>3 DEF ToolWaitEnds
    <3>2. CASE lost' = lost \cup wait.got /\ UNCHANGED <<seen, retold>>
      BY <1>0, <2>2, <3>1, <3>2 DEF ResultTypes
    <3>3. CASE ~(lost' = lost \cup wait.got /\ UNCHANGED <<seen, retold>>)
      <4>1. PICK results \in SUBSET Child :
              /\ seen' = seen \cup results /\ lost' = lost
              /\ \E again \in SUBSET {c \in wait.ids \ results : child[c] = "back"} :
                    retold' = retold \cup again
        BY <2>3, <3>3 DEF ToolWaitEnds
      <4>2. wait.ids \subseteq Child
        BY <1>0 DEF SubTypeOK
      <4>. QED
        BY <1>0, <3>1, <4>1, <4>2 DEF ResultTypes
    <3>. QED
      BY <3>2, <3>3
  <2>4. CASE CollectReturns \/ CollectFails \/ CollectNothing \/ CollectStarts
    BY <1>0, <2>1, <2>2, <2>4 DEF ResultTypes, Answered, CollectReturns, CollectFails,
       CollectNothing, CollectStarts, turnOnly
  <2>5. CASE Stream
    BY <1>0, <2>5 DEF ResultTypes, Answered, Stream, StreamStopped, StreamRetries, StreamFails,
       StepNotSaved, StepIsFinal, StepStops, StepCallsTools, StepCutInTool, StepCutInText
  <2>6. CASE \/ ToolReturns \/ ToolNotSaved \/ ToolWaitNotSaved \/ CallsCancelled
             \/ BatchEnds \/ (\E c \in Child : ToolSpawns(c))
             \/ (\E ids \in SUBSET Child \ {{}} : ToolWaits(ids))
    BY <1>0, <2>2, <2>6 DEF ResultTypes, ToolReturns, ToolNotSaved, ToolWaitNotSaved,
       CallsCancelled, BatchEnds, ToolSpawns, ToolWaits, turnOnly
  <2>7. CASE \/ BeginTurn \/ FoundCancelled \/ HistoryFails \/ PrepareStep \/ WaitStep
             \/ ChildStep \/ AbortChildren \/ AbortTurn
    BY <1>0, <2>1, <2>7 DEF ResultTypes, BeginTurn, FoundCancelled, HistoryFails,
       PrepareStep, WaitStep, ChildStep, AbortChildren, AbortTurn, turnOnly
  <2>. QED
    BY <2>3, <2>4, <2>5, <2>6, <2>7 DEF TurnNext, TurnStep, Tools, FollowUp
<1>4. BoundTypes'
  <2>1. CASE UNCHANGED abortVars
    BY <1>0, <2>1 DEF BoundTypes, abortVars
  <2>2. CASE BeginTurn
    <3>1. turns + 1 \in 0..MaxTurns
      BY <1>0, <2>2, TurnConstants DEF BoundTypes, BeginTurn
    <3>. QED
      BY <1>0, <2>2, <3>1 DEF BoundTypes, BeginTurn
  <2>3. CASE AbortChildren \/ AbortTurn
    <3>1. AbortChildren => aborts + 1 \in 0..MaxAborts
      BY <1>0, TurnConstants DEF BoundTypes, AbortChildren
    <3>. QED
      BY <1>0, <2>3, <3>1 DEF BoundTypes, AbortChildren, AbortTurn
  <2>4. TurnStep \/ ChildStep => UNCHANGED abortVars
    BY DEF TurnStep, Stream, Tools, FollowUp, WaitStep, ChildStep,
       FoundCancelled, HistoryFails, PrepareStep, StreamStopped, StreamRetries,
       StreamFails, StepNotSaved, StepIsFinal, StepStops, StepCallsTools, StepCutInTool,
       StepCutInText, ToolReturns, ToolSpawns, ToolWaits, ToolWaitEnds, ToolNotSaved,
       ToolWaitNotSaved, CallsCancelled, BatchEnds, CollectStarts, CollectFails,
       CollectNothing, CollectReturns
  <2>. QED
    BY <2>1, <2>2, <2>3, <2>4 DEF TurnNext
<1>. QED
  BY <1>1, <1>2, <1>3, <1>4, TypeParts, TurnOnlyTyped
-------------------------------------------------------------------------------
(* Steps and calls.                                                        *)

LEMMA StepsKept ==
  ASSUME TurnTypeOK, StepsInv, TurnNext
  PROVE  StepsInv'
<1>. USE DEF StepsInv
<1>0. /\ steps \in 0..MaxSteps /\ final \in BOOLEAN /\ MaxSteps \in Nat
      /\ turn \in Ends \cup {"prepare", "stream", "tools", "toolwait", "followup", "collect"}
  BY TurnBounds DEF TurnTypeOK
<1>1. ASSUME turn' \in Ends \cup {"prepare"}
      PROVE  StepsInv'
  BY <1>1 DEF Ends
<1>2. CASE PrepareStep
  <2>1. turn' = "stream" /\ steps' = steps /\ (steps = MaxSteps => final')
    BY <1>2 DEF PrepareStep, GoTo
  <2>2. steps # MaxSteps => steps < MaxSteps
    BY <1>0
  <2>. QED
    BY <2>1, <2>2
<1>3. ASSUME UNCHANGED <<turn, steps, final>>
      PROVE  StepsInv'
  BY <1>3
<1>4. CASE BeginTurn \/ FoundCancelled \/ HistoryFails
  BY <1>1, <1>4 DEF BeginTurn, FoundCancelled, HistoryFails, GoTo, Returns, Ends
<1>5. CASE Stream
  <2>1. CASE \/ \E n \in 0..MaxCalls, cut \in 0..1 : StepStops(n, cut)
             \/ \E n \in 1..MaxCalls, cut \in 0..1 : StepCallsTools(n, cut)
    BY <2>1 DEF StepStops, StepCallsTools, GoTo
  <2>2. CASE StreamRetries
    BY <1>3, <2>2 DEF StreamRetries
  <2>3. CASE \/ StreamStopped \/ StreamFails \/ StepNotSaved \/ StepIsFinal
             \/ StepCutInTool \/ StepCutInText
    BY <1>1, <2>3 DEF StreamStopped, StreamFails, StepNotSaved, StepIsFinal,
       StepCutInTool, StepCutInText, Returns, Again, Ends
  <2>. QED
    BY <1>5, <2>1, <2>2, <2>3 DEF Stream
<1>6. CASE Tools
  <2>1. CASE \/ ToolReturns \/ ToolWaitEnds
             \/ \E c \in Child : ToolSpawns(c)
    BY <2>1 DEF ToolReturns, ToolSpawns, ToolWaitEnds, GoTo, AtCall
  <2>2. CASE \E ids \in SUBSET Child \ {{}} : ToolWaits(ids)
    BY <2>2 DEF ToolWaits, GoTo, AtCall
  <2>3. CASE ToolNotSaved \/ ToolWaitNotSaved \/ CallsCancelled \/ BatchEnds
    BY <1>1, <2>3 DEF ToolNotSaved, ToolWaitNotSaved, CallsCancelled, BatchEnds, Returns,
       Again, Ends
  <2>. QED
    BY <1>6, <2>1, <2>2, <2>3 DEF Tools
<1>7. CASE FollowUp
  <2>1. CASE CollectStarts
    BY <2>1 DEF CollectStarts, GoTo
  <2>2. CASE CollectFails \/ CollectNothing \/ CollectReturns
    BY <1>1, <2>2 DEF CollectFails, CollectNothing, CollectReturns, GateOrComplete,
       Returns, Again, Ends
  <2>. QED
    BY <1>7, <2>1, <2>2 DEF FollowUp
<1>8. CASE WaitStep \/ ChildStep \/ AbortChildren \/ AbortTurn
  BY <1>3, <1>8 DEF WaitStep, ChildStep, AbortChildren, AbortTurn, turnOnly
<1>. QED
  BY <1>2, <1>4, <1>5, <1>6, <1>7, <1>8 DEF TurnNext, TurnStep

\* The call at hand gets its result: the rest of the batch is as it was.
LEMMA CallSettles ==
  ASSUME TurnTypeOK, BatchInv, turn \in {"tools", "toolwait"},
         at <= MaxCalls, calls[at] = "open", SettleCall(at), at' = at + 1,
         turn' = "tools"
  PROVE  BatchInv'
<1>1. /\ calls \in [1..MaxCalls -> {"none", "open", "settled", "twice", "left"}]
      /\ at \in 1..MaxCalls /\ MaxCalls \in Nat
  BY TurnBounds DEF TurnTypeOK
<1>2. /\ calls'[at] = "settled"
      /\ \A k \in 1..MaxCalls : k # at => calls'[k] = calls[k]
  BY <1>1 DEF SettleCall
<1>. QED
  BY <1>1, <1>2 DEF BatchInv

LEMMA BatchKept ==
  ASSUME TurnTypeOK, BatchInv, TurnNext
  PROVE  BatchInv'
<1>0. /\ calls \in [1..MaxCalls -> {"none", "open", "settled", "twice", "left"}]
      /\ at \in 1..(MaxCalls + 1) /\ MaxCalls \in Nat
  BY TurnBounds DEF TurnTypeOK
<1>1. ASSUME UNCHANGED <<turn, calls, at>>
      PROVE  BatchInv'
  BY <1>1 DEF BatchInv
\* Outside of a batch the calls stay, or are those of a step without open ones.
<1>2. ASSUME turn \notin {"tools", "toolwait"}, turn' \notin {"tools", "toolwait"},
             at' \in {at, 1},
             \/ calls' = calls /\ (turn = "unsaved" => turn' = "unsaved")
             \/ calls' \in {NoCalls, Persisted(0, 1)}
             \/ (\E n \in 1..MaxCalls : calls' = Persisted(n, 0)) /\ turn' = "unsaved"
      PROVE  BatchInv'
  BY <1>0, <1>2 DEF BatchInv, NoCalls, Persisted
<1>3. CASE BeginTurn \/ FoundCancelled \/ HistoryFails \/ PrepareStep
  BY <1>2, <1>3 DEF BeginTurn, FoundCancelled, HistoryFails, PrepareStep, GoTo, Returns,
     Over, Ends
<1>4. CASE Stream
  <2>1. ASSUME NEW n \in 1..MaxCalls, NEW cut \in 0..1, StepCallsTools(n, cut)
        PROVE  BatchInv'
    <3>1. calls' = Persisted(n, cut) /\ at' = at /\ at = 1 /\ turn' = "tools"
      BY <2>1 DEF StepCallsTools, BatchInv, GoTo
    <3>2. \A k \in 1..MaxCalls : /\ calls'[k] = "open" <=> k <= n
                                 /\ calls'[k] \notin {"twice", "left"}
      BY <1>0, <3>1 DEF Persisted
    <3>. QED
      BY <1>0, <3>1, <3>2 DEF BatchInv
  <2>2. CASE StreamRetries
    BY <1>1, <2>2 DEF StreamRetries
  <2>3. CASE StepNotSaved
    BY <1>2, <2>3 DEF StepNotSaved, Returns
  <2>4. CASE StreamStopped \/ StreamFails \/ StepIsFinal
    BY <1>2, <2>4 DEF StreamStopped, StreamFails, StepIsFinal, Returns
  <2>5. CASE StepCutInTool \/ StepCutInText
    BY <1>2, <2>5 DEF StepCutInTool, StepCutInText, Returns, Again
  <2>6. ASSUME NEW n \in 0..MaxCalls, NEW cut \in 0..1, StepStops(n, cut)
        PROVE  BatchInv'
    <3>1. at' = at /\ at = 1 /\ turn' = "followup"
      BY <2>6 DEF StepStops, BatchInv, GoTo
    <3>2. \A k \in 1..MaxCalls : calls'[k] # "open" /\ calls'[k] # "twice"
      BY <1>0, <2>6 DEF StepStops, Persisted
    <3>. QED
      BY <3>1, <3>2 DEF BatchInv
  <2>. QED
    BY <1>4, <2>1, <2>2, <2>3, <2>4, <2>5, <2>6 DEF Stream
<1>5. CASE Tools
  <2>1. CASE \/ ToolReturns
             \/ \E c \in Child : ToolSpawns(c)
    BY <2>1, CallSettles DEF ToolReturns, ToolSpawns, AtCall
  <2>2. CASE ToolWaitEnds
    BY <2>2, CallSettles DEF ToolWaitEnds, GoTo, BatchInv
  <2>3. CASE \E ids \in SUBSET Child \ {{}} : ToolWaits(ids)
    BY <2>3 DEF ToolWaits, AtCall, GoTo, BatchInv
  <2>4. CASE ToolNotSaved \/ ToolWaitNotSaved
    BY <2>4 DEF ToolNotSaved, ToolWaitNotSaved, Returns, BatchInv
  <2>5. CASE CallsCancelled
    BY <1>0, <2>5 DEF CallsCancelled, Returns, BatchInv
  <2>6. CASE BatchEnds
    <3>1. \A k \in 1..MaxCalls : calls[k] # "open"
      BY <1>0, <2>6 DEF BatchEnds, AtCall, BatchInv
    <3>. QED
      BY <2>6, <3>1 DEF BatchEnds, Again, BatchInv
  <2>. QED
    BY <1>5, <2>1, <2>2, <2>3, <2>4, <2>5, <2>6 DEF Tools
<1>6. CASE FollowUp
  BY <1>2, <1>6 DEF FollowUp, CollectStarts, CollectFails, CollectNothing, CollectReturns,
     GateOrComplete, Returns, Again, GoTo
<1>7. CASE WaitStep \/ ChildStep \/ AbortChildren \/ AbortTurn
  BY <1>1, <1>7 DEF WaitStep, ChildStep, AbortChildren, AbortTurn, turnOnly
<1>. QED
  BY <1>3, <1>4, <1>5, <1>6, <1>7 DEF TurnNext, TurnStep
-------------------------------------------------------------------------------
(* Results.                                                                *)

\* What a Wait that comes to its end hands over, and what it leaves.
LEMMA WaitEnds ==
  ASSUME TurnTypeOK, Partition, WaitInv
  PROVE  /\ WaitInterrupted =>
              /\ wait' = NoWait /\ UNCHANGED <<child, pending, box, claimed, abandoned>>
              /\ wait.open = {}
         /\ \A results : TakePending(results) =>
              /\ wait' = NoWait /\ UNCHANGED <<child, box, claimed, abandoned>>
              /\ wait.open = {} /\ results \subseteq wait.got \cup pending
              /\ pending' = pending \ results
              /\ wait.got \subseteq results
<1>1. pending \cap wait.got = {}
  BY DEF Partition
<1>. QED
  BY <1>1 DEF WaitInterrupted, TakePending

LEMMA PartitionKept ==
  ASSUME TurnTypeOK, Partition, WaitInv, TurnNext
  PROVE  Partition'
<1>0. /\ child \in [Child -> {"new", "flying", "back"}] /\ claimed \subseteq Flight
      /\ wait.got \subseteq Child /\ pending \subseteq Child
  BY DEF TurnTypeOK, SubTypeOK
<1>1. NoWait.got = {}
  BY DEF NoWait
\* Results that stay in the orchestrator.
<1>2. ASSUME \A c \in Child : (child'[c] = "back") <=> (child[c] = "back"),
             UNCHANGED <<pending, box, nudge, asked, seen, lost>>,
             wait'.got = wait.got \/ (wait.got = {} /\ wait'.got = {})
      PROVE  Partition'
  BY <1>2 DEF Partition
\* Results that move on in the turn.
<1>3. ASSUME UNCHANGED <<child, pending, box, wait>>,
             \/ UNCHANGED <<nudge, asked, seen, lost>>
             \/ nudge' = {} /\ asked' = {} /\ lost' = lost \cup nudge \cup asked
                /\ UNCHANGED seen
             \/ asked' = nudge /\ nudge' = {} /\ asked = {} /\ UNCHANGED <<seen, lost>>
             \/ seen' = seen \cup asked /\ asked' = {} /\ UNCHANGED <<nudge, lost>>
      PROVE  Partition'
  BY <1>3 DEF Partition
\* Results that a Wait hands over to the turn.
<1>4. ASSUME NEW results, wait' = NoWait, UNCHANGED <<child, box, asked>>,
             wait.got \subseteq results, results \subseteq wait.got \cup pending,
             pending' = pending \ results,
             \/ seen' = seen \cup results /\ UNCHANGED <<nudge, lost>>
             \/ lost' = lost \cup results /\ UNCHANGED <<nudge, seen>>
             \/ nudge = {} /\ nudge' = results /\ UNCHANGED <<seen, lost>>
             \/ results = {} /\ UNCHANGED <<nudge, seen, lost>>
      PROVE  Partition'
  BY <1>1, <1>4 DEF Partition
<1>5. CASE BeginTurn \/ FoundCancelled \/ HistoryFails \/ PrepareStep
  BY <1>3, <1>5 DEF BeginTurn, FoundCancelled, HistoryFails, PrepareStep, subVars, WaitInv
<1>6. CASE Stream
  BY <1>3, <1>6 DEF Stream, StreamStopped, StreamRetries, StreamFails, StepNotSaved,
     StepIsFinal, StepStops, StepCallsTools, StepCutInTool, StepCutInText, Answered, subVars
<1>7. CASE Tools
  <2>1. ASSUME NEW c \in Child, Register(c), UNCHANGED <<nudge, asked, seen, lost>>
        PROVE  Partition'
    BY <1>0, <1>2, <2>1 DEF Register
  <2>2. CASE \E ids \in SUBSET Child \ {{}} : ToolWaits(ids)
    BY <1>2, <2>2, <1>1 DEF ToolWaits, SnapshotHandles, WaitInv
  <2>3. CASE ToolWaitEnds
    <3>1. CASE WaitInterrupted /\ lost' = lost \cup wait.got /\ UNCHANGED <<seen, retold>>
      <4>1. pending' = pending \ wait.got
        BY <3>1, WaitEnds DEF Partition
      <4>. QED
        BY <1>4, <2>3, <3>1, <4>1, WaitEnds DEF ToolWaitEnds
    <3>2. CASE \E results \in SUBSET Child :
                 TakePending(results) /\ seen' = seen \cup results /\ UNCHANGED lost
      BY <1>4, <2>3, <3>2, WaitEnds DEF ToolWaitEnds
    <3>. QED
      BY <2>3, <3>1, <3>2 DEF ToolWaitEnds
  <2>4. CASE ToolWaitNotSaved
    BY <1>4, <2>4, WaitEnds DEF ToolWaitNotSaved
  <2>5. CASE ToolReturns \/ CallsCancelled \/ BatchEnds
    BY <1>3, <2>5 DEF ToolReturns, CallsCancelled, BatchEnds, subVars
  <2>6. CASE ToolNotSaved
    BY <1>3, <2>1, <2>6 DEF ToolNotSaved, subVars
  <2>7. CASE \E c \in Child : ToolSpawns(c)
    BY <2>1, <2>7 DEF ToolSpawns
  <2>. QED
    BY <1>7, <2>2, <2>3, <2>4, <2>5, <2>6, <2>7 DEF Tools
<1>8. CASE FollowUp
  <2>1. CASE CollectStarts
    BY <1>1, <1>2, <2>1 DEF CollectStarts, SnapshotHandles, WaitInv
  <2>2. CASE CollectFails
    <3>1. pending' = pending \ wait.got
      BY <2>2, WaitEnds DEF CollectFails, Partition
    <3>. QED
      BY <1>4, <2>2, <3>1, WaitEnds DEF CollectFails
  <2>3. CASE CollectNothing
    <3>1. CASE ~wait.had /\ WaitInterrupted
      BY <1>1, <1>2, <2>3, <3>1, WaitEnds DEF CollectNothing, WaitInv
    <3>2. CASE TakePending({})
      BY <1>4, <2>3, <3>2, WaitEnds DEF CollectNothing
    <3>. QED
      BY <2>3, <3>1, <3>2 DEF CollectNothing
  <2>4. CASE CollectReturns
    BY <1>4, <2>4, WaitEnds DEF CollectReturns, WaitInv
  <2>. QED
    BY <1>8, <2>1, <2>2, <2>3, <2>4 DEF FollowUp
<1>9. ASSUME NEW c \in Child, WaitReceives(c), UNCHANGED <<nudge, asked, seen, lost>>
      PROVE  Partition'
  <2>1. wait'.got = wait.got \cup {c} /\ box' = box \ {c} /\ c \in box
    BY <1>9 DEF WaitReceives, TurnTypeOK, SubTypeOK
  <2>. QED
    BY <1>9, <2>1 DEF WaitReceives, Partition
<1>10. ASSUME NEW c \in Child, WaitGivesUp(c), UNCHANGED <<nudge, asked, seen, lost>>
       PROVE  Partition'
  <2>1. wait'.got = wait.got
    BY <1>10 DEF WaitGivesUp, TurnTypeOK, SubTypeOK
  <2>. QED
    BY <1>2, <1>10, <2>1 DEF WaitGivesUp
<1>11. ASSUME NEW c \in Child, Complete(c), UNCHANGED <<nudge, asked, seen, lost>>
       PROVE  Partition'
  <2>1. /\ child[c] # "back" /\ child'[c] = "back"
        /\ \A d \in Child \ {c} : child'[d] = child[d]
    BY <1>0, <1>11 DEF Complete
  <2>. QED
    BY <1>11, <2>1 DEF Complete, Partition
<1>12. CASE WaitStep \/ ChildStep
  BY <1>9, <1>10, <1>11, <1>12 DEF WaitStep, ChildStep, turnOnly
<1>13. CASE AbortChildren \/ AbortTurn
  BY <1>3, <1>13 DEF AbortChildren, AbortTurn, CancelForParent, subVars, turnOnly
<1>. QED
  BY <1>5, <1>6, <1>7, <1>8, <1>12, <1>13 DEF TurnNext, TurnStep

LEMMA WaitKept ==
  ASSUME TurnTypeOK, Partition, WaitInv, TurnNext
  PROVE  WaitInv'
<1>. USE DEF WaitInv
<1>0. /\ child \in [Child -> {"new", "flying", "back"}] /\ claimed \subseteq Flight
      /\ NoWait.on = FALSE /\ NoWait.open = {} /\ NoWait.got = {}
      /\ wait \in [on : BOOLEAN, ids : SUBSET Child, open : SUBSET Child,
                   got : SUBSET Child, had : BOOLEAN]
  BY DEF TurnTypeOK, SubTypeOK, NoWait
<1>1. ASSUME UNCHANGED <<wait, box, claimed, abandoned>>, ~wait.on,
             turn' \notin {"toolwait", "collect"},
             \/ turn' \in {"failed", "stopped", "unsaved"}
             \/ turn' = "prepare" /\ asked' = {}
             \/ turn' = "stream" /\ nudge' = {}
             \/ nudge' = {} /\ asked' = {}
      PROVE  WaitInv'
  BY <1>1
<1>2. CASE BeginTurn \/ FoundCancelled \/ HistoryFails \/ PrepareStep
  <2>1. ~wait.on
    BY <1>2 DEF BeginTurn, FoundCancelled, HistoryFails, PrepareStep, Over, Ends
  <2>. QED
    BY <1>1, <1>2, <2>1 DEF BeginTurn, FoundCancelled, HistoryFails, PrepareStep, GoTo,
       Returns, subVars
<1>3. CASE Stream
  BY <1>1, <1>3 DEF Stream, StreamStopped, StreamRetries, StreamFails, StepNotSaved,
     StepIsFinal, StepStops, StepCallsTools, StepCutInTool, StepCutInText, Answered,
     GoTo, Returns, Again, subVars
\* A Wait starts.
<1>4. ASSUME NEW ids \in SUBSET Child, SnapshotHandles(ids),
             turn \in {"tools", "followup"}, turn' \in {"toolwait", "collect"},
             UNCHANGED <<nudge, asked>>
      PROVE  WaitInv'
  <2>1. /\ wait'.on = TRUE /\ wait'.open = ids \cap Flight /\ wait'.got = {}
        /\ wait'.had = (ids \cap Flight # {})
        /\ wait.open = {}
    BY <1>0, <1>4 DEF SnapshotHandles
  <2>. QED
    BY <1>0, <1>4, <2>1 DEF SnapshotHandles
\* A Wait ends.
<1>5. ASSUME wait.open = {}, wait' = NoWait, UNCHANGED <<box, claimed, abandoned>>,
             turn' \notin {"toolwait", "collect"},
             \/ turn' \in {"failed", "stopped", "unsaved"}
             \/ turn' = "prepare" /\ asked' = {}
             \/ nudge' = {} /\ asked' = {}
      PROVE  WaitInv'
  BY <1>0, <1>5
<1>6. CASE Tools
  <2>1. CASE \/ ToolReturns \/ CallsCancelled \/ BatchEnds \/ ToolNotSaved
             \/ \E c \in Child : ToolSpawns(c)
    BY <1>1, <2>1 DEF ToolReturns, CallsCancelled, BatchEnds, ToolNotSaved, ToolSpawns,
       Register, AtCall, Again, Returns, subVars
  <2>2. CASE \E ids \in SUBSET Child \ {{}} : ToolWaits(ids)
    BY <1>4, <2>2 DEF ToolWaits, AtCall, GoTo
  <2>3. CASE ToolWaitEnds \/ ToolWaitNotSaved
    BY <1>5, <2>3 DEF ToolWaitEnds, ToolWaitNotSaved, WaitInterrupted, TakePending,
       GoTo, Returns
  <2>. QED
    BY <1>6, <2>1, <2>2, <2>3 DEF Tools
<1>7. CASE FollowUp
  <2>1. CASE CollectStarts
    BY <1>4, <2>1 DEF CollectStarts, GoTo
  <2>2. CASE CollectFails \/ CollectNothing \/ CollectReturns
    BY <1>5, <2>2 DEF CollectFails, CollectNothing, CollectReturns, WaitInterrupted,
       TakePending, GateOrComplete, Returns, Again
  <2>. QED
    BY <1>7, <2>1, <2>2 DEF FollowUp
<1>8. ASSUME NEW c \in Child, WaitReceives(c) \/ WaitGivesUp(c), UNCHANGED <<turn, nudge, asked>>
      PROVE  WaitInv'
  <2>1. /\ wait'.on = wait.on /\ wait'.had = wait.had /\ wait.had
        /\ wait'.open = wait.open \ {c} /\ c \in wait.open
    BY <1>0, <1>8 DEF WaitReceives, WaitGivesUp
  <2>2. WaitReceives(c) => c \notin claimed
    BY <1>0 DEF WaitReceives, Partition, Flight
  <2>. QED
    BY <1>8, <2>1, <2>2 DEF WaitReceives, WaitGivesUp
<1>9. ASSUME NEW c \in Child, Complete(c), UNCHANGED <<turn, nudge, asked>>
      PROVE  WaitInv'
  BY <1>9 DEF Complete
<1>10. CASE WaitStep \/ ChildStep
  BY <1>8, <1>9, <1>10 DEF WaitStep, ChildStep, turnOnly
<1>11. CASE AbortChildren \/ AbortTurn
  BY <1>11 DEF AbortChildren, AbortTurn, CancelForParent, subVars, turnOnly
<1>. QED
  BY <1>2, <1>3, <1>6, <1>7, <1>10, <1>11 DEF TurnNext, TurnStep

LEMMA FlightKept ==
  ASSUME TurnTypeOK, Partition, WaitInv, FlightInv, TurnNext
  PROVE  FlightInv'
<1>0. /\ child \in [Child -> {"new", "flying", "back"}] /\ pending \subseteq Child
      /\ NoWait.on = FALSE
      /\ wait \in [on : BOOLEAN, ids : SUBSET Child, open : SUBSET Child,
                   got : SUBSET Child, had : BOOLEAN]
      /\ wait.on <=> turn \in {"toolwait", "collect"}
      /\ cancelled \in BOOLEAN
  BY DEF TurnTypeOK, SubTypeOK, WaitInv, NoWait
\* Nobody waits, and the turn has no answer.
<1>1. ASSUME ~wait'.on, turn' \notin {"collect", "answered"}
      PROVE  FlightInv'
  BY <1>1 DEF FlightInv
<1>2. ASSUME UNCHANGED <<turn, child, pending, wait>>, cancelled => cancelled',
             turn = "answered" => cancelled' = cancelled
      PROVE  FlightInv'
  BY <1>2 DEF FlightInv, Flight
<1>3. CASE BeginTurn \/ FoundCancelled \/ HistoryFails \/ PrepareStep
  BY <1>0, <1>1, <1>3 DEF BeginTurn, FoundCancelled, HistoryFails, PrepareStep, GoTo,
     Returns, subVars, Over, Ends
<1>4. CASE Stream
  BY <1>0, <1>1, <1>4 DEF Stream, StreamStopped, StreamRetries, StreamFails, StepNotSaved,
     StepIsFinal, StepStops, StepCallsTools, StepCutInTool, StepCutInText,
     GoTo, Returns, Again, subVars
<1>5. ASSUME NEW ids \in SUBSET Child, SnapshotHandles(ids), UNCHANGED cancelled,
             turn' = "toolwait" \/ (turn' = "collect" /\ ids = Child)
      PROVE  FlightInv'
  <2>1. wait'.ids = ids /\ wait'.open = ids \cap Flight /\ child' = child
    BY <1>5 DEF SnapshotHandles
  <2>. QED
    BY <1>5, <2>1 DEF FlightInv, Flight
<1>6. CASE Tools
  <2>1. CASE \/ ToolReturns \/ CallsCancelled \/ BatchEnds \/ ToolNotSaved
             \/ \E c \in Child : ToolSpawns(c)
    BY <1>0, <1>1, <2>1 DEF ToolReturns, CallsCancelled, BatchEnds, ToolNotSaved, ToolSpawns,
       Register, AtCall, Again, Returns, subVars
  <2>2. CASE \E ids \in SUBSET Child \ {{}} : ToolWaits(ids)
    BY <1>5, <2>2 DEF ToolWaits, GoTo
  <2>3. CASE ToolWaitEnds \/ ToolWaitNotSaved
    BY <1>0, <1>1, <2>3 DEF ToolWaitEnds, ToolWaitNotSaved, WaitInterrupted, TakePending,
       GoTo, Returns
  <2>. QED
    BY <1>6, <2>1, <2>2, <2>3 DEF Tools
<1>7. CASE FollowUp
  <2>1. CASE CollectStarts
    BY <1>5, <2>1 DEF CollectStarts, GoTo
  <2>2. CASE CollectFails \/ CollectReturns
    BY <1>0, <1>1, <2>2 DEF CollectFails, CollectReturns, WaitInterrupted, TakePending,
       Returns, Again
  <2>3. CASE CollectNothing
    <3>1. ~wait'.on /\ turn' # "collect" /\ child' = child /\ cancelled' = cancelled
      BY <1>0, <2>3 DEF CollectNothing, WaitInterrupted, TakePending, GateOrComplete,
         Returns, Again
    <3>2. ASSUME ~cancelled
          PROVE  Flight = {} /\ pending' = {}
      <4>1. TakePending({}) /\ wait.ids = Child
        BY <2>3, <3>2 DEF CollectNothing, WaitInterrupted, FlightInv
      <4>2. wait.open = {} /\ wait.on /\ pending' = pending \ Child
        BY <4>1 DEF TakePending
      <4>3. Flight \cap Child \subseteq {}
        BY <3>2, <4>1, <4>2 DEF FlightInv
      <4>. QED
        BY <1>0, <4>2, <4>3 DEF Flight
    <3>. QED
      BY <1>0, <3>1, <3>2 DEF FlightInv, Flight
  <2>. QED
    BY <1>7, <2>1, <2>2, <2>3 DEF FollowUp
<1>8. ASSUME NEW c \in Child, WaitReceives(c) \/ WaitGivesUp(c), UNCHANGED turn
      PROVE  FlightInv'
  <2>1. /\ wait'.on = wait.on /\ wait.on /\ wait'.ids = wait.ids
        /\ wait'.open = wait.open \ {c} /\ child' = child /\ cancelled' = cancelled
    BY <1>0, <1>8 DEF WaitReceives, WaitGivesUp
  <2>2. c \notin Flight \/ cancelled
    BY <1>8 DEF WaitReceives, WaitGivesUp, Partition, Flight
  <2>. QED
    BY <1>0, <1>8, <2>1, <2>2 DEF FlightInv, Flight
<1>9. ASSUME NEW c \in Child, Complete(c), UNCHANGED turn
      PROVE  FlightInv'
  <2>1. Flight' = Flight \ {c} /\ c \in Flight /\ UNCHANGED <<wait, cancelled>>
    BY <1>0, <1>9 DEF Complete, Flight
  <2>. QED
    BY <1>9, <2>1 DEF FlightInv
<1>10. CASE WaitStep \/ ChildStep
  BY <1>8, <1>9, <1>10 DEF WaitStep, ChildStep, turnOnly
<1>11. CASE AbortChildren \/ AbortTurn
  <2>1. UNCHANGED <<turn, child, pending, wait>>
    BY <1>11 DEF AbortChildren, AbortTurn, CancelForParent, subVars, turnOnly
  <2>2. cancelled' = cancelled \/ (cancelled' = TRUE /\ turn # "answered")
    BY <1>0, <1>11 DEF AbortChildren, AbortTurn, Over, Ends
  <2>. QED
    BY <1>2, <2>1, <2>2
<1>. QED
  BY <1>3, <1>4, <1>6, <1>7, <1>10, <1>11 DEF TurnNext, TurnStep

\* A Wait that ends has nothing of a child that is back but what it hands over,
\* and a result that comes in later is not one that was told already.
LEMMA RetoldKept ==
  ASSUME TurnTypeOK, Partition, WaitInv, RetoldInv, TurnNext
  PROVE  RetoldInv'
<1>0. /\ child \in [Child -> {"new", "flying", "back"}] /\ retold \subseteq Child
      /\ NoWait.open = {}
      /\ wait \in [on : BOOLEAN, ids : SUBSET Child, open : SUBSET Child,
                   got : SUBSET Child, had : BOOLEAN]
  BY DEF TurnTypeOK, SubTypeOK, NoWait
<1>1. ASSUME UNCHANGED <<box, retold>>, wait'.open = wait.open,
             seen \subseteq seen', lost \subseteq lost'
      PROVE  RetoldInv'
  BY <1>1 DEF RetoldInv
<1>2. CASE \/ BeginTurn \/ FoundCancelled \/ HistoryFails \/ PrepareStep \/ Stream
           \/ AbortChildren \/ AbortTurn
  BY <1>1, <1>2 DEF BeginTurn, FoundCancelled, HistoryFails, PrepareStep, Stream,
     StreamStopped, StreamRetries, StreamFails, StepNotSaved, StepIsFinal, StepStops,
     StepCallsTools, StepCutInTool, StepCutInText, Answered, AbortChildren, AbortTurn,
     CancelForParent, subVars, turnOnly
\* A Wait starts, on children that are not back.
<1>3. ASSUME NEW ids \in SUBSET Child, SnapshotHandles(ids),
             UNCHANGED <<seen, lost, retold>>
      PROVE  RetoldInv'
  <2>1. wait'.open = ids \cap Flight /\ box' = box
    BY <1>3 DEF SnapshotHandles
  <2>2. box \cap Flight = {}
    BY <1>0 DEF Flight, Partition, TurnTypeOK, SubTypeOK
  <2>. QED
    BY <1>3, <2>1, <2>2 DEF RetoldInv
\* A Wait ends.
<1>4. ASSUME wait.open = {}, wait' = NoWait, box' = box,
             seen \subseteq seen', lost \subseteq lost',
             retold' \subseteq retold \cup seen' \cup lost' \cup box
      PROVE  RetoldInv'
  BY <1>0, <1>4 DEF RetoldInv
<1>5. CASE Tools
  <2>1. CASE \/ ToolReturns \/ CallsCancelled \/ BatchEnds \/ ToolNotSaved
             \/ \E c \in Child : ToolSpawns(c)
    BY <1>1, <2>1 DEF ToolReturns, CallsCancelled, BatchEnds, ToolNotSaved, ToolSpawns,
       Register, subVars
  <2>2. CASE \E ids \in SUBSET Child \ {{}} : ToolWaits(ids)
    BY <1>3, <2>2 DEF ToolWaits
  <2>3. CASE ToolWaitEnds
    <3>1. CASE WaitInterrupted /\ lost' = lost \cup wait.got /\ UNCHANGED <<seen, retold>>
      BY <1>4, <3>1, WaitEnds
    <3>2. ASSUME NEW results \in SUBSET Child, TakePending(results),
                 seen' = seen \cup results, UNCHANGED lost,
                 NEW again \in SUBSET {c \in wait.ids \ results : child[c] = "back"},
                 retold' = retold \cup again
          PROVE  RetoldInv'
      <4>1. /\ wait.open = {} /\ wait' = NoWait /\ box' = box
            /\ results = wait.got \cup (pending \cap wait.ids)
        BY <3>2 DEF TakePending
      <4>2. nudge = {} /\ asked = {}
        BY <2>3 DEF WaitInv, ToolWaitEnds
      <4>3. again \subseteq seen \cup lost \cup box
        BY <1>0, <3>2, <4>1, <4>2 DEF Partition
      <4>. QED
        BY <1>4, <3>2, <4>1, <4>3
    <3>. QED
      BY <2>3, <3>1, <3>2 DEF ToolWaitEnds
  <2>4. CASE ToolWaitNotSaved
    BY <1>4, <2>4, WaitEnds DEF ToolWaitNotSaved
  <2>. QED
    BY <1>5, <2>1, <2>2, <2>3, <2>4 DEF Tools
<1>6. CASE FollowUp
  <2>1. CASE CollectStarts
    BY <1>3, <2>1 DEF CollectStarts
  <2>2. CASE CollectFails \/ CollectNothing \/ CollectReturns
    BY <1>4, <2>2, WaitEnds DEF CollectFails, CollectNothing, CollectReturns
  <2>. QED
    BY <1>6, <2>1, <2>2 DEF FollowUp
<1>7. ASSUME NEW c \in Child, WaitReceives(c) \/ WaitGivesUp(c),
             UNCHANGED <<seen, lost, retold>>
      PROVE  RetoldInv'
  <2>1. wait'.open = wait.open \ {c} /\ c \in wait.open
    BY <1>0, <1>7 DEF WaitReceives, WaitGivesUp
  <2>. QED
    BY <1>7, <2>1 DEF WaitReceives, WaitGivesUp, RetoldInv
<1>8. ASSUME NEW c \in Child, Complete(c), UNCHANGED <<seen, lost, retold>>
      PROVE  RetoldInv'
  BY <1>8 DEF Complete, RetoldInv
<1>9. CASE WaitStep \/ ChildStep
  BY <1>7, <1>8, <1>9 DEF WaitStep, ChildStep, turnOnly
<1>. QED
  BY <1>2, <1>5, <1>6, <1>9 DEF TurnNext, TurnStep

LEMMA TurnInvInit == TurnInit => TurnInv
<1>. SUFFICES ASSUME TurnInit
              PROVE  TurnInv
  OBVIOUS
<1>1. NoWait \in [on : BOOLEAN, ids : SUBSET Child, open : SUBSET Child,
                  got : SUBSET Child, had : BOOLEAN]
      /\ ~NoWait.on /\ NoWait.open = {} /\ NoWait.got = {}
  BY DEF NoWait
<1>2. SubTypeOK /\ Flight = {}
  BY <1>1 DEF TurnInit, SubInit, SubTypeOK, Flight
<1>3. TurnTypeOK
  <2>1. TurnOnlyTypes /\ CallTypes
    BY TurnConstants DEF TurnInit, TurnOnlyTypes, CallTypes, Ends
  <2>2. ResultTypes /\ BoundTypes
    <3>1. 0 \in 0..MaxTurns /\ 0 \in 0..MaxAborts
      BY TurnBounds
    <3>. QED
      BY <3>1 DEF TurnInit, ResultTypes, BoundTypes
  <2>. QED
    BY <1>2, <2>1, <2>2, TypeParts
<1>4. StepsInv /\ BatchInv
  BY DEF TurnInit, StepsInv, BatchInv, NoCalls
<1>5. Partition /\ WaitInv /\ FlightInv /\ RetoldInv
  BY <1>1, <1>2 DEF TurnInit, SubInit, Partition, WaitInv, FlightInv, RetoldInv
<1>. QED
  BY <1>3, <1>4, <1>5 DEF TurnInv

LEMMA TurnInvNext ==
  ASSUME TurnInv, [TurnNext]_turnVars
  PROVE  TurnInv'
<1>1. CASE TurnNext
  BY <1>1, TurnTyped, StepsKept, BatchKept, PartitionKept, WaitKept, FlightKept, RetoldKept
     DEF TurnInv
<1>2. CASE UNCHANGED turnVars
  <2>. USE <1>2 DEF turnVars, subVars, turnOnly, abortVars
  <2>1. TurnTypeOK'
    BY SubTypes DEF TurnInv, TurnTypeOK, SubTypeOK
  <2>2. StepsInv' /\ BatchInv'
    BY DEF TurnInv, StepsInv, BatchInv
  <2>3. Partition' /\ WaitInv' /\ FlightInv' /\ RetoldInv'
    BY DEF TurnInv, Partition, WaitInv, FlightInv, RetoldInv, Flight
  <2>. QED
    BY <2>1, <2>2, <2>3 DEF TurnInv
<1>. QED
  BY <1>1, <1>2

LEMMA TurnInvariance == TurnSpec => []TurnInv
BY TurnInvInit, TurnInvNext, PTL DEF TurnSpec
-------------------------------------------------------------------------------
(* Theorems.                                                               *)

\* TurnTypeCorrect: the counters of a turn stay in their limits: a step is never
\* started beyond MaxSteps, continuations, retries and refusals stay within theirs.
THEOREM TurnTypeCorrect == TurnSpec => []TurnTypeOK
<1>1. TurnInv => TurnTypeOK
  BY DEF TurnInv
<1>. QED
  BY <1>1, TurnInvariance, PTL

\* NoResultIsLost: for any number of children, what the orchestrator holds of a
\* child that came back is in one place on its way to the model, whatever is awaited,
\* cancelled or refused, and stays in a channel only when a cancelled Wait had
\* claimed the child; a summary that is read again from the database is never one
\* that is still on that way.
THEOREM NoResultIsLost == TurnSpec => []ResultsAccounted
<1>1. ASSUME TurnInv, NEW c \in Child
      PROVE  Cardinality(Places(c)) = IF child[c] = "back" THEN 1 ELSE 0
  <2>1. Partition
    BY <1>1 DEF TurnInv
  <2>. DEFINE All == {<<"pending", pending>>, <<"box", box>>, <<"got", wait.got>>,
                      <<"nudge", nudge>>, <<"asked", asked>>, <<"seen", seen>>,
                      <<"lost", lost>>}
  <2>2. CASE child[c] # "back"
    <3>1. Places(c) = {}
      BY <2>1, <2>2 DEF Places, Partition
    <3>. QED
      BY <2>2, <3>1, FS_EmptySet
  <2>3. CASE child[c] = "back"
    <3>1. PICK p \in All : c \in p[2]
      BY <2>1, <2>3 DEF Partition
    <3>2. \A q \in All : c \in q[2] => q = p
      BY <2>1, <3>1 DEF Partition
    <3>3. Places(c) = {p}
      BY <3>1, <3>2 DEF Places
    <3>. QED
      BY <2>3, <3>3, FS_Singleton
  <2>. QED
    BY <2>2, <2>3
<1>2. TurnInv => ResultsAccounted
  BY <1>1 DEF ResultsAccounted, TurnInv, WaitInv, RetoldInv
<1>. QED
  BY <1>2, TurnInvariance, PTL

\* EveryCallIsSettled: for batches of any size, every tool call that is saved gets
\* one result before the turn is over or the model is asked again, unless the
\* store fails or the step finished with stop, which leaves its calls; a step never
\* leaves some of its calls and runs others.
THEOREM EveryCallIsSettled == TurnSpec => []CallsSettled
<1>1. TurnInv => CallsSettled
  BY DEF TurnInv, BatchInv, CallsSettled, OpenCalls
<1>. QED
  BY <1>1, TurnInvariance, PTL

\* AnswerLeavesNoChild: a turn that was not stopped and ends by its answer has no
\* child in flight and has told the model every result.
THEOREM AnswerLeavesNoChild == TurnSpec => []StopLeavesNoChild
<1>1. TurnInv => StopLeavesNoChild
  BY DEF TurnInv, FlightInv, StopLeavesNoChild
<1>. QED
  BY <1>1, TurnInvariance, PTL
===============================================================================
