----------------------------- MODULE ChatTurnQueue -----------------------------
(***************************************************************************)
(* The queue of one chat session in the renderer                           *)
(* (cometline/src/lib/actions/chat-turn-queue.ts): turns run one at a time *)
(* while the user goes on submitting, removes what waits, clears the queue *)
(* or opens the session, which holds turns back behind a barrier.  One     *)
(* action is what runs between two awaits of the event loop.               *)
(***************************************************************************)
EXTENDS Naturals, SequencesExt

CONSTANTS Payload,     \* what a user submits, equal payloads have equal signatures
          MaxSubmits   \* bound: submissions and barriers

ASSUME QueueAssumption == Payload # {} /\ MaxSubmits \in Nat

VARIABLES queue,     \* submissions that wait
          loop,      \* runLoop: idle, barrier, turn, or between two turns
          running,   \* activeTurnSignature: at most one payload
          submits,   \* numbers submissions
          started    \* history: the number of the turn started last

queueVars == <<queue, loop, running, submits, started>>

Submission == [n : 1..MaxSubmits, payload : Payload]

QueueTypeOK ==
    /\ queue \in Seq(Submission)
    /\ loop \in {"idle", "barrier", "turn", "between"}
    /\ running \subseteq Payload /\ (running # {}) = (loop = "turn")
    /\ submits \in 0..MaxSubmits /\ started \in 0..MaxSubmits

QueueInit == /\ queue = <<>> /\ loop = "idle" /\ running = {}
             /\ submits = 0 /\ started = 0

\* isDuplicate: the same payload is running or was the last to be queued.
Duplicate(p) == p \in running \/ (queue # <<>> /\ Last(queue).payload = p)

StartTurn(sub) == /\ loop' = "turn"
                  /\ running' = {sub.payload}
                  /\ started' = sub.n
-------------------------------------------------------------------------------
\* Mutant of Enqueue: only a running turn makes a submission wait.
EnqueueIfRunning(p) ==
    /\ submits < MaxSubmits /\ submits' = submits + 1
    /\ LET sub == [n |-> submits', payload |-> p] IN
       IF running = {}
       THEN StartTurn(sub) /\ UNCHANGED queue
       ELSE /\ queue' = IF Duplicate(p) THEN queue ELSE Append(queue, sub)
            /\ UNCHANGED <<loop, running, started>>

\* enqueue: while the loop is busy the submission waits, unless it repeats the
\* last one; otherwise it becomes the first turn of a new loop.
Enqueue(p) ==
    /\ submits < MaxSubmits /\ submits' = submits + 1
    /\ LET sub == [n |-> submits', payload |-> p] IN
       IF loop = "idle"
       THEN StartTurn(sub) /\ UNCHANGED queue
       ELSE /\ queue' = IF Duplicate(p) THEN queue ELSE Append(queue, sub)
            /\ UNCHANGED <<loop, running, started>>

\* blockUntil: the loop starts with the barrier; a busy loop is not held up.
BlockUntil ==
    /\ submits < MaxSubmits /\ submits' = submits + 1
    /\ loop' = IF loop = "idle" THEN "barrier" ELSE loop
    /\ UNCHANGED <<queue, running, started>>

RemoveQueued(i) == /\ queue' = RemoveAt(queue, i)
                   /\ UNCHANGED <<loop, running, submits, started>>

Clear == /\ queue # <<>> /\ queue' = <<>>
         /\ UNCHANGED <<loop, running, submits, started>>

\* Mutant of TurnEnds: the error of a turn leaves the loop.
TurnEndsThrows ==
    /\ loop = "turn"
    /\ loop' \in {"between", "idle"}
    /\ running' = {}
    /\ UNCHANGED <<queue, submits, started>>

\* runTurnTracked is over, well or with an error that runTurnSafely drops.
TurnEnds ==
    /\ loop = "turn"
    /\ loop' = "between"
    /\ running' = {}
    /\ UNCHANGED <<queue, submits, started>>

\* The barrier or the last turn is over: the next submission, or the end.
LoopGoesOn ==
    /\ loop \in {"barrier", "between"}
    /\ IF queue = <<>>
       THEN loop' = "idle" /\ UNCHANGED <<queue, running, started>>
       ELSE queue' = Tail(queue) /\ StartTurn(Head(queue))
    /\ UNCHANGED submits
-------------------------------------------------------------------------------
LoopStep == TurnEnds \/ LoopGoesOn

QueueNext == \/ LoopStep \/ BlockUntil \/ Clear
             \/ \E p \in Payload : Enqueue(p)
             \/ \E i \in DOMAIN queue : RemoveQueued(i)

QueueSpec == QueueInit /\ [][QueueNext]_queueVars
-------------------------------------------------------------------------------
(* Turns run in the order of submission: whatever waits is newer than the  *)
(* turn started last, also when it was submitted behind a barrier or       *)
(* between two turns (chat-turn-queue.ts:3).                               *)
TurnsInOrder ==
    /\ \A i \in DOMAIN queue : queue[i].n > started
    /\ \A i, j \in DOMAIN queue : i < j => queue[i].n < queue[j].n

(* No accepted submission is stranded: whoever waits, waits for a loop     *)
(* that is going on, although turns fail, barriers are late and the queue  *)
(* is edited meanwhile (chat-turn-queue.ts:85).                            *)
NobodyStranded == queue # <<>> => loop # "idle"
===============================================================================
