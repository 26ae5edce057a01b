------------------------------ MODULE McpManager ------------------------------
(***************************************************************************)
(* The MCP connection manager of the serve process (mcp/manager.go and     *)
(* manager_reconnect.go) for one configured server.  Servers share only    *)
(* the reloading flag, and what another server's handshake does to it is a *)
(* delay of the last step of a reload, which this model has anyway.        *)
(*                                                                         *)
(* A connection attempt is two critical sections around a slow handshake;  *)
(* attempts are made by Start and Reload ("boot"), by Manager.Reconnect    *)
(* ("user") and by the retry loop after a lost session ("auto").  A        *)
(* session is named by the attempt that opened it: the configuration it    *)
(* was made under and its generation.                                      *)
(***************************************************************************)
EXTENDS Naturals

CONSTANTS NoSession,    \* no connection
          MaxRetries,   \* length of mcpAutoReconnectBackoff (3)
          MaxReloads,   \* bound: settings reloads in a behaviour
          MaxReconnects,\* bound: manual reconnects
          MaxDeaths     \* bound: sessions that die by themselves

ASSUME McpAssumption ==
    /\ MaxRetries \in Nat \ {0}
    /\ MaxReloads \in Nat /\ MaxReconnects \in Nat /\ MaxDeaths \in Nat
    /\ NoSession \notin [config : 1..(MaxReloads + 1), gen : Nat]

VARIABLES setting,    \* m.cfg and entry.cfg: on, off (disabled) or absent
          config,     \* how often the settings were installed, Start is 1
          entry,      \* managedServer: [gen, conn, status]
          opened,     \* sessions whose transport is open
          monitor,    \* sessions with a monitorConnection goroutine
          task,       \* goroutines that connect: see Task
          reload,     \* Manager.Reload in progress: idle, flagged, closed
          reloading,  \* m.reloading
          reconnects, deaths

mcpVars == <<setting, config, entry, opened, monitor, task, reload, reloading,
             reconnects, deaths>>
reloadVars == <<setting, config, reload>>

Session == [config : 1..(MaxReloads + 1), gen : Nat]
\* error is an error worth a retry, fatal one that skipAutoReconnect names.
Status == {"disabled", "disconnected", "connecting", "connected", "error", "fatal"}
Task == [by   : {"boot", "user", "auto"},
         id   : Nat,                                \* tells equal goroutines apart
         try  : Nat,                                \* of the backoff, 0 if not auto
         pc   : {"sleep", "call", "dial", "leave"},
         sess : Session \cup {NoSession}]           \* the session being dialled

McpTypeOK ==
    /\ setting \in {"on", "off", "absent"}
    /\ config \in 1..(MaxReloads + 1)
    /\ entry \in [gen : Nat, conn : Session \cup {NoSession}, status : Status]
    /\ opened \subseteq Session /\ monitor \subseteq Session
    /\ task \subseteq Task
    /\ \A t \in task : (t.pc = "dial") = (t.sess # NoSession) /\ t.try <= MaxRetries
    /\ reload \in {"idle", "flagged", "closed"} /\ reloading \in BOOLEAN
    /\ (reload # "idle") => config <= MaxReloads
    /\ reconnects \in 0..MaxReconnects /\ deaths \in 0..MaxDeaths

\* The goroutine of Start or Reload; it has nothing to connect when the server
\* is not enabled.
Boot(c, set) == [by |-> "boot", id |-> c, try |-> 0, sess |-> NoSession,
                 pc |-> IF set = "on" THEN "call" ELSE "leave"]
Fresh(set) == [gen |-> 0, conn |-> NoSession,
               status |-> IF set = "on" THEN "disconnected" ELSE "disabled"]

\* Start has built the map, and its goroutine is about to connect.
McpInit ==
    /\ setting \in {"on", "off"}
    /\ config = 1
    /\ entry = Fresh(setting)
    /\ opened = {} /\ monitor = {}
    /\ task = {Boot(1, setting)}
    /\ reload = "idle" /\ reloading = FALSE
    /\ reconnects = 0 /\ deaths = 0
-------------------------------------------------------------------------------
(* Manager.connectOne.                                                     *)

\* The goroutine goes on after connectOne returned res: boot goroutines end the
\* reload, the retry loop sleeps for its next attempt or gives up.
After(t, res) ==
    IF t.by = "boot" THEN {[t EXCEPT !.pc = "leave", !.sess = NoSession]}
    ELSE IF t.by = "auto" /\ res = "error" /\ t.try < MaxRetries
         THEN {[t EXCEPT !.pc = "sleep", !.try = @ + 1, !.sess = NoSession]}
         ELSE {}

\* First critical section: a new generation, and the old session is taken out
\* of the entry and closed.  The enabled flags are not looked at here.
ConnectBegin(t) ==
    /\ t.pc = "call"
    /\ IF setting = "absent"
       THEN /\ task' = (task \ {t}) \cup After(t, "ok")
            /\ UNCHANGED <<entry, opened>>
       ELSE LET sess == [config |-> config, gen |-> entry.gen + 1] IN
            /\ entry' = [gen |-> sess.gen, conn |-> NoSession, status |-> "connecting"]
            /\ opened' = opened \ {entry.conn}
            /\ task' = (task \ {t}) \cup {[t EXCEPT !.pc = "dial", !.sess = sess]}
    /\ UNCHANGED <<reloadVars, monitor, reloading, reconnects, deaths>>

\* The entry changed hands while the handshake was in flight.
Superseded(gen) == setting = "absent" \/ entry.gen # gen

\* Mutant of ConnectEnd: the second critical section does not compare generations.
ConnectEndBlind(t, res) ==
    /\ t.pc = "dial"
    /\ task' = (task \ {t}) \cup After(t, res)
    /\ IF res = "ok"
       THEN /\ entry' = [entry EXCEPT !.conn = t.sess, !.status = "connected"]
            /\ opened' = opened \cup {t.sess}
            /\ monitor' = monitor \cup {t.sess}
       ELSE /\ entry' = [entry EXCEPT !.conn = NoSession, !.status = res]
            /\ UNCHANGED <<opened, monitor>>
    /\ UNCHANGED <<reloadVars, reloading, reconnects, deaths>>

\* Second critical section, after connectServer returned res: the result is
\* discarded (a new session is closed again) or written to the entry.  A
\* connection the entry holds is overwritten without being closed.
ConnectEnd(t, res) ==
    /\ t.pc = "dial"
    /\ IF Superseded(t.sess.gen)
       THEN /\ task' = (task \ {t}) \cup After(t, "ok")
            /\ UNCHANGED <<entry, opened, monitor>>
       ELSE /\ task' = (task \ {t}) \cup After(t, res)
            /\ IF res = "ok"
               THEN /\ entry' = [entry EXCEPT !.conn = t.sess, !.status = "connected"]
                    /\ opened' = opened \cup {t.sess}
                    /\ monitor' = monitor \cup {t.sess}
               ELSE /\ entry' = [entry EXCEPT !.conn = NoSession, !.status = res]
                    /\ UNCHANGED <<opened, monitor>>
    /\ UNCHANGED <<reloadVars, reloading, reconnects, deaths>>

\* The goroutine of a reload ends and lowers the flag; that of Start just ends.
BootLeave(t) ==
    /\ t.by = "boot" /\ t.pc = "leave"
    /\ task' = task \ {t}
    /\ reloading' = IF t.id = 1 THEN reloading ELSE FALSE
    /\ UNCHANGED <<reloadVars, entry, opened, monitor, reconnects, deaths>>
-------------------------------------------------------------------------------
(* A session dies, monitorConnection and autoReconnect.                    *)

SessionDies(s) ==
    /\ s \in opened /\ deaths < MaxDeaths
    /\ opened' = opened \ {s}
    /\ deaths' = deaths + 1
    /\ UNCHANGED <<reloadVars, entry, monitor, task, reloading, reconnects>>

\* session.Wait returned, with an error that is retried or not, or without one.
MonitorWakes(s, res) ==
    /\ s \in monitor \ opened
    /\ monitor' = monitor \ {s}
    /\ IF Superseded(s.gen)
       THEN UNCHANGED <<entry, task>>
       ELSE /\ entry' = [entry EXCEPT !.conn = NoSession, !.status = res]
            /\ task' = task \cup {[by |-> "auto", id |-> 10 * s.config + s.gen, try |-> 1,
                                   pc |-> "sleep", sess |-> NoSession]}
    /\ UNCHANGED <<reloadVars, opened, reloading, reconnects, deaths>>

\* After its sleep the loop looks whether a retry is still wanted.
AutoCheck(t) ==
    /\ t.by = "auto" /\ t.pc = "sleep"
    /\ task' = (task \ {t}) \cup
               (IF setting = "on" /\ ~reloading /\ entry.status \notin {"connected", "fatal"}
                THEN {[t EXCEPT !.pc = "call"]} ELSE {})
    /\ UNCHANGED <<reloadVars, entry, opened, monitor, reloading, reconnects, deaths>>

\* Manager.Reconnect up to its unlock; refused during a reload.
Reconnect ==
    /\ reconnects < MaxReconnects /\ ~reloading /\ setting # "absent"
    /\ reconnects' = reconnects + 1
    /\ IF setting = "off"
       THEN /\ entry' = [entry EXCEPT !.status = "disabled"]
            /\ UNCHANGED task
       ELSE /\ task' = task \cup {[by |-> "user", id |-> reconnects', try |-> 0,
                                   pc |-> "call", sess |-> NoSession]}
            /\ UNCHANGED entry
    /\ UNCHANGED <<reloadVars, opened, monitor, reloading, deaths>>
-------------------------------------------------------------------------------
(* Manager.Reload; its caller Runtime.Reload holds reloadMu.               *)

ReloadBegin ==
    /\ reload = "idle" /\ config <= MaxReloads
    /\ reload' = "flagged"
    /\ reloading' = TRUE
    /\ UNCHANGED <<setting, config, entry, opened, monitor, task, reconnects, deaths>>

\* Mutant of ReloadClose: Close resets the status of connected servers only.
ReloadCloseConnected ==
    /\ reload = "flagged"
    /\ reload' = "closed"
    /\ entry' = [gen |-> entry.gen + 1, conn |-> NoSession,
                  status |-> IF entry.conn # NoSession THEN "disconnected" ELSE entry.status]
    /\ opened' = opened \ {entry.conn}
    /\ UNCHANGED <<setting, config, monitor, task, reloading, reconnects, deaths>>

\* Manager.Close: every entry gets a new generation and loses its session.
ReloadClose ==
    /\ reload = "flagged"
    /\ reload' = "closed"
    /\ entry' = [entry EXCEPT !.gen = @ + 1, !.conn = NoSession, !.status = "disconnected"]
    /\ opened' = opened \ {entry.conn}
    /\ UNCHANGED <<setting, config, monitor, task, reloading, reconnects, deaths>>

\* The new map: its entries start at generation 0 again.
ReloadInstall(set) ==
    /\ reload = "closed"
    /\ reload' = "idle"
    /\ setting' = set
    /\ config' = config + 1
    /\ entry' = Fresh(set)
    /\ task' = task \cup {Boot(config', set)}
    /\ UNCHANGED <<opened, monitor, reloading, reconnects, deaths>>
-------------------------------------------------------------------------------
McpNext ==
    \/ \E t \in task : \/ ConnectBegin(t) \/ BootLeave(t) \/ AutoCheck(t)
                       \/ \E res \in {"ok", "error", "fatal"} : ConnectEnd(t, res)
    \/ \E s \in opened : SessionDies(s)
    \/ \E s \in monitor, res \in {"error", "fatal"} : MonitorWakes(s, res)
    \/ Reconnect
    \/ ReloadBegin \/ ReloadClose
    \/ \E set \in {"on", "off", "absent"} : ReloadInstall(set)

McpSpec == McpInit /\ [][McpNext]_mcpVars
-------------------------------------------------------------------------------
(* What CallTool reaches belongs to the newest attempt made under the      *)
(* settings in force: no order in which handshakes, retries, reconnects    *)
(* and reloads finish leaves an older attempt of these settings in the     *)
(* entry (generation, manager.go:35).                                      *)
ConnIsNewest ==
    (entry.conn # NoSession /\ entry.conn.config = config) => entry.conn.gen = entry.gen

(* A status that promises news has somebody to bring it: a server shown as *)
(* connecting is being dialled by the attempt whose result the entry will  *)
(* take, one shown as connected has a connection and a goroutine that will *)
(* notice its death.  Otherwise the settings page and the tool list stay   *)
(* wrong until the next restart (manager_reconnect.go:23).                 *)
StatusIsOwned ==
    /\ entry.status = "connecting" =>
          \E t \in task : t.pc = "dial" /\ t.sess.gen = entry.gen
    /\ entry.status = "connected" => entry.conn \in monitor

(* While a reload and the connecting it starts are under way, the manager  *)
(* says so and refuses a manual reconnect (the word of manager.go:212-217).*)
ReloadIsFlagged ==
    (reload # "idle" \/ \E t \in task : t.by = "boot" /\ t.id > 1 /\ t.id = config)
    => reloading

(* A connection in use was made under the settings in force: a result that *)
(* a reload has superseded is discarded (manager.go:149), although a new   *)
(* map starts its generations at 0 again.                                  *)
SettingsInForce == entry.conn # NoSession => entry.conn.config = config
===============================================================================
