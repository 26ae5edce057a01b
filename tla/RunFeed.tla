-------------------------------- MODULE RunFeed --------------------------------
(***************************************************************************)
(* What the event stream of a session promises to a client that watches a  *)
(* run: events arrive one by one in the order in which the agent emitted   *)
(* them, none twice, and the done event comes last.  Unless its feed was   *)
(* interrupted none is left out and they start no later than with the      *)
(* first event that is not in the transcript.  No hub, replay buffer,      *)
(* packets or retries here; EventStream implements it.                     *)
(***************************************************************************)
EXTENDS Naturals, Sequences

CONSTANTS Run,   \* run ids
          Sub,   \* watching clients
          None   \* watches nothing

VARIABLES emitted,  \* number of events a run has emitted
          saved,    \* how many of them the transcript holds
          over,     \* runs whose end was announced
          broken,   \* runs whose feed was interrupted
          seat      \* what a client watches and has got: [run, got]

vars == <<emitted, saved, over, broken, seat>>

Done == 0  \* the done event; the others are numbered from 1

TypeOK == /\ emitted \in [Run -> Nat] /\ saved \in [Run -> Nat]
          /\ over \subseteq Run /\ broken \subseteq Run
          /\ seat \in [Sub -> [run : Run \cup {None}, got : Seq(Nat)]]

Init == /\ emitted = [r \in Run |-> 0]
        /\ saved = [r \in Run |-> 0]
        /\ over = {} /\ broken = {}
        /\ seat = [s \in Sub |-> [run |-> None, got |-> <<>>]]

Emit(r) == /\ r \notin over
           /\ emitted' = [emitted EXCEPT ![r] = @ + 1]
           /\ UNCHANGED <<saved, over, broken, seat>>

Save(r) == /\ saved[r] < emitted[r]
           /\ saved' = [saved EXCEPT ![r] = emitted[r]]
           /\ UNCHANGED <<emitted, over, broken, seat>>

End(r) == /\ over' = over \cup {r}
          /\ UNCHANGED <<emitted, saved, broken, seat>>

\* The feeds of some runs are interrupted; what was not saved is lost to
\* those who come later.
Break == \E R \in SUBSET Run : /\ broken' = broken \cup R
                               /\ UNCHANGED <<emitted, saved, over, seat>>

Attach(s, r) == /\ seat[s].run = None
                /\ seat' = [seat EXCEPT ![s].run = r]
                /\ UNCHANGED <<emitted, saved, over, broken>>

\* The event a client may get next: none is left out unless the feed was
\* interrupted, and none comes twice or too late even then.
Follows(s, n) ==
    LET r == seat[s].run
        got == seat[s].got
    IN IF got = <<>> THEN n <= saved[r] + 1 \/ r \in broken
       ELSE /\ got[Len(got)] # Done
            /\ n = got[Len(got)] + 1 \/ (r \in broken /\ n > got[Len(got)])

Receive(s) ==
    /\ seat[s].run # None
    /\ \E n \in 1..emitted[seat[s].run] :
         /\ Follows(s, n)
         /\ seat' = [seat EXCEPT ![s].got = Append(@, n)]
    /\ UNCHANGED <<emitted, saved, over, broken>>

\* The end of the run, after everything it emitted unless the feed was broken.
ReceiveDone(s) ==
    LET r == seat[s].run IN
    /\ r # None /\ r \in over
    /\ seat[s].got # <<>> => Follows(s, emitted[r] + 1) \/ r \in broken
    /\ \A i \in 1..Len(seat[s].got) : seat[s].got[i] # Done
    /\ seat' = [seat EXCEPT ![s].got = Append(@, Done)]
    /\ UNCHANGED <<emitted, saved, over, broken>>

Next == \/ \E r \in Run : Emit(r) \/ Save(r) \/ End(r) \/ (\E s \in Sub : Attach(s, r))
        \/ \E s \in Sub : Receive(s) \/ ReceiveDone(s)
        \/ Break

Spec == Init /\ [][Next]_vars
===============================================================================
