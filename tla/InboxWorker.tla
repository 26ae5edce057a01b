------------------------------ MODULE InboxWorker ------------------------------
(***************************************************************************)
(* The inbox (inbox/service.go, table inbox_messages) and the worker of    *)
(* the serve process that has an agent internalise the replies of the user *)
(* (inboxworker/worker.go).  The worker is one goroutine; users answer and *)
(* retention purges while it works.  A poll takes at most five messages,   *)
(* the bound on Message stays below that.                                  *)
(***************************************************************************)
EXTENDS Naturals

CONSTANTS Message,      \* inbox message ids
          MaxAttempts,  \* MaxProcessAttempts (3)
          MaxStops      \* bound: shutdowns, crashes and failed writes

ASSUME InboxAssumption ==
    /\ Message # {}
    /\ MaxAttempts \in Nat \ {0} /\ MaxStops \in Nat

VARIABLES mail,      \* status of a message, "new" before it is created
          attempts,  \* process_attempts
          processed, \* processed_at and process_error: no, done, failed
          worker,    \* [pc, todo, msg]: the poll in progress
          turns,     \* history: internalisation turns started for a message
          blurred,   \* history: messages whose last attempt met a stop or a failed write
          stops

inboxVars == <<mail, attempts, processed, worker, turns, blurred, stops>>

Idle == [pc |-> "idle", todo |-> {}, msg |-> {}]

\* Turns are counted up to one more than there may be.
InboxTypeOK ==
    /\ mail \in [Message -> {"new", "open", "replied", "dismissed", "purged"}]
    /\ attempts \in [Message -> 0..MaxAttempts]
    /\ processed \in [Message -> {"no", "done", "failed"}]
    /\ worker \in [pc : {"idle", "claim", "prepare", "turn"},
                  todo : SUBSET Message, msg : SUBSET Message]
    /\ turns \in [Message -> 0..(MaxAttempts + 1)]
    /\ blurred \subseteq Message /\ stops \in 0..MaxStops

InboxInit ==
    /\ mail = [m \in Message |-> "new"]
    /\ attempts = [m \in Message |-> 0]
    /\ processed = [m \in Message |-> "no"]
    /\ worker = Idle
    /\ turns = [m \in Message |-> 0]
    /\ blurred = {} /\ stops = 0

\* The condition of ListInboxMessagesPendingProcess and of the claim.
Pending(m) == mail[m] = "replied" /\ processed[m] = "no" /\ attempts[m] < MaxAttempts
-------------------------------------------------------------------------------
(* Service.Create, Reply, Dismiss and PurgeExpired.                        *)

Becomes(m, from, to) ==
    /\ mail[m] \in from
    /\ mail' = [mail EXCEPT ![m] = to]
    /\ UNCHANGED <<attempts, processed, worker, turns, blurred, stops>>

CreateMessage(m) == Becomes(m, {"new"}, "open")
Reply(m) == Becomes(m, {"open"}, "replied")
Dismiss(m) == Becomes(m, {"open"}, "dismissed")
\* Archived messages past the retention time go, processed or not.
PurgeExpired(m) == Becomes(m, {"replied", "dismissed"}, "purged")
-------------------------------------------------------------------------------
(* Worker.pollOnce and processOne.                                         *)

PollOnce ==
    /\ worker.pc = "idle"
    /\ \E m \in Message : Pending(m)
    /\ worker' = [pc |-> "claim", todo |-> {m \in Message : Pending(m)}, msg |-> {}]
    /\ UNCHANGED <<mail, attempts, processed, turns, blurred, stops>>

NextMessage == worker' = IF worker.todo = {} THEN Idle
                         ELSE [worker EXCEPT !.pc = "claim", !.msg = {}]

\* Mutant of ClaimForProcess: the claim looks at the message and counts nothing.
ClaimUncounted(m) ==
    /\ worker.pc = "claim"
    /\ worker' = IF Pending(m)
                 THEN [pc |-> "prepare", todo |-> worker.todo \ {m}, msg |-> {m}]
                 ELSE IF worker.todo = {m} THEN Idle ELSE [worker EXCEPT !.todo = @ \ {m}]
    /\ UNCHANGED <<mail, attempts, processed, turns, blurred, stops>>

\* The claim counts the attempt; a message that is no longer pending is skipped.
ClaimForProcess(m) ==
    /\ worker.pc = "claim"
    /\ IF Pending(m)
       THEN /\ attempts' = [attempts EXCEPT ![m] = @ + 1]
            /\ worker' = [pc |-> "prepare", todo |-> worker.todo \ {m}, msg |-> {m}]
            /\ blurred' = blurred \ {m}
       ELSE /\ worker' = IF worker.todo = {m} THEN Idle ELSE [worker EXCEPT !.todo = @ \ {m}]
            /\ UNCHANGED <<attempts, blurred>>
    /\ UNCHANGED <<mail, processed, turns, stops>>

\* MarkProcessed, whose error is dropped; the row may have been purged.
MarkProcessed(m, how) ==
    \/ processed' = [processed EXCEPT ![m] = IF mail[m] = "purged" THEN @ ELSE how]
       /\ UNCHANGED <<blurred, stops>>
    \/ /\ stops < MaxStops /\ stops' = stops + 1
       /\ blurred' = blurred \cup {m}
       /\ UNCHANGED processed

\* Mutant of Failed: the last attempt is not the one that reaches the limit.
FailedNeverLast(m) == IF attempts[m] > MaxAttempts THEN MarkProcessed(m, "failed")
                      ELSE UNCHANGED <<processed, blurred, stops>>

\* finishWithError and the failure branch of finishRun.
Failed(m) == IF attempts[m] >= MaxAttempts THEN MarkProcessed(m, "failed")
             ELSE UNCHANGED <<processed, blurred, stops>>

\* Workspace, session, run guard, prompt and runner, each of which may fail.
Prepare(m) ==
    /\ worker.pc = "prepare"
    /\ \/ /\ worker' = [worker EXCEPT !.pc = "turn"]
          /\ turns' = [turns EXCEPT ![m] = IF @ > MaxAttempts THEN @ ELSE @ + 1]
          /\ UNCHANGED <<processed, blurred, stops>>
       \/ NextMessage /\ Failed(m) /\ UNCHANGED turns
    /\ UNCHANGED <<mail, attempts>>

\* finishRun after RunHostedTurn.
FinishRun(m) ==
    /\ worker.pc = "turn"
    /\ NextMessage
    /\ MarkProcessed(m, "done") \/ Failed(m)
    /\ UNCHANGED <<mail, attempts, turns>>

\* The serve process stops, by itself or because it is told to: the turn ends
\* with its context, under which nothing is written any more.
WorkerStops ==
    /\ worker.pc # "idle" /\ stops < MaxStops
    /\ stops' = stops + 1
    /\ worker' = Idle
    /\ blurred' = blurred \cup worker.msg
    /\ UNCHANGED <<mail, attempts, processed, turns>>
-------------------------------------------------------------------------------
WorkerStep ==
    \/ PollOnce
    \/ \E m \in worker.todo : ClaimForProcess(m)
    \/ \E m \in worker.msg : Prepare(m) \/ FinishRun(m)

InboxNext ==
    \/ WorkerStep \/ WorkerStops
    \/ \E m \in Message : CreateMessage(m) \/ Reply(m) \/ Dismiss(m) \/ PurgeExpired(m)

InboxSpec == InboxInit /\ [][InboxNext]_inboxVars
-------------------------------------------------------------------------------
(* A reply is worked on a bounded number of times, also when the process   *)
(* is stopped in the middle of every turn (inbox/service.go:196).          *)
TurnsBounded == \A m \in Message : turns[m] <= MaxAttempts

(* A reply that will not be tried again says so: unless its last attempt   *)
(* met a stop or a failed write, a message out of attempts is marked, with *)
(* its reason (finishRun, inboxworker/worker.go:242).                      *)
GivenUpIsRecorded ==
    \A m \in Message :
      (/\ mail[m] = "replied" /\ attempts[m] = MaxAttempts
       /\ m \notin worker.msg /\ m \notin blurred)
      => processed[m] # "no"
===============================================================================
