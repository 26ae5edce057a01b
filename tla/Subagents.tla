------------------------------- MODULE Subagents -------------------------------
(***************************************************************************)
(* The subagent orchestrator (subagent/orchestrator.go) for one parent     *)
(* session: children in flight, results that finished before a Wait        *)
(* claimed them, and the Wait of the parent's turn.  The turns of a        *)
(* session follow one another, so there is one Wait at a time; its callers *)
(* are the actions of AgentTurn.                                           *)
(***************************************************************************)
EXTENDS Naturals, FiniteSets

CONSTANTS Child,    \* child sessions; each is registered at most once
          Hanging,  \* children that end only when they are cancelled
          MaxPer    \* cap on children in flight (5)

ASSUME SubagentsAssumption == Hanging \subseteq Child /\ MaxPer \in Nat \ {0}

VARIABLES child,      \* new, flying (in o.children), back (Complete was called)
          claimed,    \* handles with claimed set
          pending,    \* results nobody had claimed
          box,        \* results sent on the done channel of their handle
          stopped,    \* children whose cancel function was called
          wait,       \* the Wait in progress: [on, ids, open, got, had]
          abandoned,  \* children a cancelled Wait has left claimed
          cancelled   \* the context of the parent's turn is cancelled

subVars == <<child, claimed, pending, box, stopped, wait, abandoned>>

Flight == {c \in Child : child[c] = "flying"}
NoWait == [on |-> FALSE, ids |-> {}, open |-> {}, got |-> {}, had |-> FALSE]

SubTypeOK ==
    /\ child \in [Child -> {"new", "flying", "back"}]
    /\ claimed \subseteq Flight
    /\ pending \subseteq Child /\ box \subseteq Child
    /\ stopped \subseteq Child /\ abandoned \subseteq Child
    /\ wait \in [on : BOOLEAN, ids : SUBSET Child, open : SUBSET Child,
                 got : SUBSET Child, had : BOOLEAN]
    /\ cancelled \in BOOLEAN

SubInit ==
    /\ child = [c \in Child |-> "new"]
    /\ claimed = {} /\ pending = {} /\ box = {} /\ stopped = {} /\ abandoned = {}
    /\ wait = NoWait
    /\ cancelled = FALSE
-------------------------------------------------------------------------------
Register(c) ==
    /\ child[c] = "new" /\ Cardinality(Flight) < MaxPer
    /\ child' = [child EXCEPT ![c] = "flying"]
    /\ UNCHANGED <<claimed, pending, box, stopped, wait, abandoned>>

\* Mutant of Complete: the claim is not looked at, the result is sent both ways.
CompleteTwice(c) ==
    /\ child[c] = "flying"
    /\ (c \in Hanging => c \in stopped)
    /\ child' = [child EXCEPT ![c] = "back"]
    /\ claimed' = claimed \ {c}
    /\ pending' = pending \cup {c}
    /\ box' = IF c \in claimed THEN box \cup {c} ELSE box
    /\ UNCHANGED <<stopped, wait, abandoned, cancelled>>

\* The child's goroutine ends: its result goes to the Wait that claimed the
\* handle, or is kept for a later one.
Complete(c) ==
    /\ child[c] = "flying"
    /\ (c \in Hanging => c \in stopped)
    /\ child' = [child EXCEPT ![c] = "back"]
    /\ claimed' = claimed \ {c}
    /\ IF c \in claimed
       THEN box' = box \cup {c} /\ UNCHANGED pending
       ELSE pending' = pending \cup {c} /\ UNCHANGED box
    /\ UNCHANGED <<stopped, wait, abandoned, cancelled>>

CancelForParent == /\ stopped' = stopped \cup Flight
                   /\ UNCHANGED <<child, claimed, pending, box, wait, abandoned>>
-------------------------------------------------------------------------------
(* Wait: claim the handles, read their channels, take what is pending.     *)

SnapshotHandles(ids) ==
    /\ ~wait.on
    /\ claimed' = claimed \cup (ids \cap Flight)
    /\ wait' = [on |-> TRUE, ids |-> ids, open |-> ids \cap Flight, got |-> {},
                had |-> ids \cap Flight # {}]
    /\ UNCHANGED <<child, pending, box, stopped, abandoned>>

WaitReceives(c) ==
    /\ wait.on /\ c \in wait.open \cap box
    /\ wait' = [wait EXCEPT !.open = @ \ {c}, !.got = @ \cup {c}]
    /\ box' = box \ {c}
    /\ UNCHANGED <<child, claimed, pending, stopped, abandoned, cancelled>>

\* Mutant of WaitGivesUp: the context is not selected on.
WaitGivesUpNever(c) == FALSE

WaitGivesUp(c) ==
    /\ wait.on /\ c \in wait.open /\ cancelled
    /\ wait' = [wait EXCEPT !.open = @ \ {c}]
    /\ abandoned' = abandoned \cup {c}
    /\ UNCHANGED <<child, claimed, pending, box, stopped, cancelled>>

\* Every handle was read or given up, and the context is cancelled: an error
\* when there were handles, an empty result when there were none.
WaitInterrupted ==
    /\ wait.on /\ wait.open = {} /\ cancelled
    /\ wait' = NoWait
    /\ UNCHANGED <<child, claimed, pending, box, stopped, abandoned>>

TakePending(results) ==
    /\ wait.on /\ wait.open = {} /\ ~cancelled
    /\ results = wait.got \cup (pending \cap wait.ids)
    /\ pending' = pending \ wait.ids
    /\ wait' = NoWait
    /\ UNCHANGED <<child, claimed, box, stopped, abandoned>>
===============================================================================
