-------------------------------- MODULE MCParts --------------------------------
(***************************************************************************)
(* Six components that share no state, checked in one run: a behaviour of  *)
(* this module is a behaviour of one of them, chosen at the start.  Every  *)
(* property is about the variables of one component and says the same here *)
(* as in a run of its own.                                                 *)
(***************************************************************************)
EXTENDS SessionRun, McpManager, Scheduler, InboxWorker, ChatTurnQueue, Sidecar

VARIABLE part  \* the component that moves

partsVars == <<part, vars, mcpVars, schedVars, inboxVars, queueVars, sidecarVars>>

PartsInit ==
    /\ part \in {"run", "mcp", "scheduler", "inbox", "queue", "sidecar"}
    /\ Init /\ McpInit /\ SchedInit /\ InboxInit /\ QueueInit /\ SidecarInit
    /\ part # "mcp" => setting = "on"

PartsNext ==
    /\ UNCHANGED part
    /\ \/ part = "run" /\ Next
          /\ UNCHANGED <<mcpVars, schedVars, inboxVars, queueVars, sidecarVars>>
       \/ part = "mcp" /\ McpNext
          /\ UNCHANGED <<vars, schedVars, inboxVars, queueVars, sidecarVars>>
       \/ part = "scheduler" /\ SchedNext
          /\ UNCHANGED <<vars, mcpVars, inboxVars, queueVars, sidecarVars>>
       \/ part = "inbox" /\ InboxNext
          /\ UNCHANGED <<vars, mcpVars, schedVars, queueVars, sidecarVars>>
       \/ part = "queue" /\ QueueNext
          /\ UNCHANGED <<vars, mcpVars, schedVars, inboxVars, sidecarVars>>
       \/ part = "sidecar" /\ SidecarNext
          /\ UNCHANGED <<vars, mcpVars, schedVars, inboxVars, queueVars>>

\* The fairness of SessionRun while it moves.
PartsFairness ==
    /\ \A r \in Run : /\ SF_vars(part = "run" /\ (Settle(r) \/ EndCancelled(r)))
                      /\ WF_vars(part = "run" /\ Watch(r))
    /\ WF_vars(part = "run" /\ (CancelMark \/ CancelHandle))
    /\ WF_vars(part = "run" /\ Poll) /\ WF_vars(part = "run" /\ Tick)

PartsSpec == PartsInit /\ [][PartsNext]_partsVars /\ PartsFairness

(* The variables of every component keep their types.                      *)
PartsTypeOK == /\ STypeOK /\ McpTypeOK /\ SchedTypeOK
               /\ InboxTypeOK /\ QueueTypeOK /\ SidecarTypeOK
===============================================================================
