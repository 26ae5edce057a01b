------------------------------- MODULE JobBoard -------------------------------
(***************************************************************************)
(* What the jobs board promises to its readers: the life of a job as the   *)
(* board shows it, without leases, retries, clocks or database statements. *)
(* A job is open (todo, ongoing, blocked), done, hidden (archived or       *)
(* deleted) or purged, and holder[j] is the session whose work the row     *)
(* stands for.  JobLease, the model of cometmind/internal/jobs, implements *)
(* this specification.                                                     *)
(***************************************************************************)
CONSTANTS Job,      \* job ids
          Session,  \* session ids
          None      \* the SQL NULL

VARIABLES state, holder

vars == <<state, holder>>

Open == {"todo", "ongoing", "blocked"}
Present == Open \cup {"done", "archived"}

TypeOK == /\ state \in [Job -> Present \cup {"absent", "deleted", "purged"}]
          /\ holder \in [Job -> Session \cup {None}]

Init == /\ state = [j \in Job |-> "absent"]
        /\ holder = [j \in Job |-> None]

\* Job j goes from a state of "from" to the state "to", held by h.
Move(j, from, to, h) ==
    /\ state[j] \in from
    /\ state' = [state EXCEPT ![j] = to]
    /\ holder' = [holder EXCEPT ![j] = h]

Create(j)    == Move(j, {"absent"}, "todo", None)
Claim(j, s)  == Move(j, {"todo"}, "ongoing", s)
Return(j)    == Move(j, {"ongoing"}, "todo", None)
Block(j)     == Move(j, {"ongoing"}, "blocked", None)
Finish(j)    == Move(j, {"ongoing"}, "done", holder[j])
Unblock(j)   == Move(j, {"blocked"}, "todo", None)
Archive(j)   == Move(j, {"done"}, "archived", holder[j])
Unarchive(j) == Move(j, {"archived"}, "done", holder[j])
Delete(j)    == Move(j, Present, "deleted", None)
\* A finished job may leave the board for good; open work never does.
Purge(j)     == Move(j, {"deleted", "archived", "done"}, "purged", None)

Next == \E j \in Job :
          \/ Create(j) \/ Return(j) \/ Block(j) \/ Finish(j) \/ Unblock(j)
          \/ Archive(j) \/ Unarchive(j) \/ Delete(j) \/ Purge(j)
          \/ \E s \in Session : Claim(j, s)

Spec == Init /\ [][Next]_vars
===============================================================================
