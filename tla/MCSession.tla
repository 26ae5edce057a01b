------------------------------- MODULE MCSession -------------------------------
(***************************************************************************)
(* The event stream of a session and its transcript share no state in the  *)
(* model and are checked in one run: a behaviour of this module is a       *)
(* behaviour of one of them, chosen at the start.                          *)
(***************************************************************************)
EXTENDS EventStream, Transcript

VARIABLE part  \* the component that moves

sessionVars == <<part, vars, transcriptVars>>

SessionInit == part \in {"stream", "transcript"} /\ Init /\ TranscriptInit

SessionNext ==
    /\ UNCHANGED part
    /\ \/ part = "stream" /\ Next /\ UNCHANGED transcriptVars
       \/ part = "transcript" /\ TranscriptNext /\ UNCHANGED vars

\* The fairness of EventStream while it moves.
SessionFairness ==
    /\ \A r \in Run : /\ WF_vars(part = "stream" /\ OpenStream(r))
                      /\ WF_vars(part = "stream" /\ Announce(r))
                      /\ WF_vars(part = "stream" /\ EndTurn(r))
    /\ \A r \in GatewayRun : WF_vars(part = "stream" /\ Forward(r))
    /\ \A s \in Sub : WF_vars(part = "stream" /\ Watch(s))

SessionSpec == SessionInit /\ [][SessionNext]_sessionVars /\ SessionFairness

(* The variables of both components keep their types.                      *)
SessionTypeOK == STypeOK /\ TranscriptTypeOK
===============================================================================
