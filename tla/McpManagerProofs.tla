---------------------------- MODULE McpManagerProofs ----------------------------
(***************************************************************************)
(* Proofs about McpManager, for any number of reloads, reconnects and      *)
(* deaths.                                                                 *)
(*                                                                         *)
(* The argument: every change of the generation of the entry takes the     *)
(* connection out of it, and a connection is written only by the attempt   *)
(* that has the generation of the entry (ConnHasGen).  So whoever finds    *)
(* another generation may leave the entry alone, and a result that meets   *)
(* its own generation replaces the status it was dialled for.              *)
(***************************************************************************)
EXTENDS McpManager, TLAPS

\* The connection has the generation of the entry, whatever settings it was
\* made under, and a server that was removed has none.
ConnHasGen ==
    /\ entry.conn # NoSession => entry.conn.gen = entry.gen
    /\ entry.status \in {"connecting", "connected"} => setting # "absent"

McpInv == McpTypeOK /\ ConnHasGen /\ StatusIsOwned

Results == {"ok", "error", "fatal"}

\* What a goroutine does after its attempt is again a goroutine with nothing
\* to dial.
LEMMA AfterType ==
  ASSUME NEW t \in Task, t.try <= MaxRetries, NEW res
  PROVE  After(t, res) \subseteq {u \in Task : u.pc # "dial" /\ u.sess = NoSession
                                               /\ u.try <= MaxRetries}
<1>1. [t EXCEPT !.pc = "leave", !.sess = NoSession]
        \in {u \in Task : u.pc # "dial" /\ u.sess = NoSession /\ u.try <= MaxRetries}
  BY DEF Task
<1>2. ASSUME t.try < MaxRetries
      PROVE  [t EXCEPT !.pc = "sleep", !.try = t.try + 1, !.sess = NoSession]
               \in {u \in Task : u.pc # "dial" /\ u.sess = NoSession /\ u.try <= MaxRetries}
  <2>1. t.try \in Nat /\ t.try + 1 \in Nat /\ t.try + 1 <= MaxRetries
    BY <1>2, McpAssumption DEF Task
  <2>. DEFINE next == [t EXCEPT !.pc = "sleep", !.try = t.try + 1, !.sess = NoSession]
  <2>2. next \in Task
    BY <2>1 DEF Task
  <2>3. next.pc = "sleep" /\ next.sess = NoSession /\ next.try = t.try + 1
    BY DEF Task
  <2>4. next \in {u \in Task : u.pc # "dial" /\ u.sess = NoSession /\ u.try <= MaxRetries}
    <3>. HIDE DEF next
    <3>. QED
      BY <2>1, <2>2, <2>3
  <2>. QED
    BY <2>4
<1>. QED
  BY <1>1, <1>2 DEF After

LEMMA TasksStayTyped ==
  ASSUME McpTypeOK, NEW T,
         T \subseteq {u \in Task : (u.pc = "dial") = (u.sess # NoSession)
                                   /\ u.try <= MaxRetries},
         task' \subseteq task \cup T
  PROVE  /\ task' \subseteq Task
         /\ \A t \in task' : (t.pc = "dial") = (t.sess # NoSession) /\ t.try <= MaxRetries
BY DEF McpTypeOK

LEMMA TaskAdded ==
  ASSUME McpTypeOK, NEW u \in Task, u.pc # "dial", u.sess = NoSession,
         u.try <= MaxRetries, task' = task \cup {u}
  PROVE  /\ task' \subseteq Task
         /\ \A t \in task' : (t.pc = "dial") = (t.sess # NoSession) /\ t.try <= MaxRetries
BY DEF McpTypeOK

LEMMA McpInitInv == McpInit => McpInv
<1>1. ASSUME McpInit
      PROVE  Boot(1, setting) \in Task /\ Fresh(setting) \in
               [gen : Nat, conn : Session \cup {NoSession}, status : Status]
  BY <1>1 DEF Boot, Fresh, Task, Status
<1>2. ASSUME McpInit
      PROVE  McpTypeOK
  <2>1. /\ task \subseteq Task
        /\ \A t \in task : (t.pc = "dial") = (t.sess # NoSession) /\ t.try <= MaxRetries
    <3>1. Boot(1, setting).pc \in {"call", "leave"} /\ Boot(1, setting).sess = NoSession
          /\ Boot(1, setting).try = 0
      BY DEF Boot
    <3>2. 0 <= MaxRetries /\ task = {Boot(1, setting)}
      BY <1>2, McpAssumption DEF McpInit
    <3>. QED
      BY <1>1, <1>2, <3>1, <3>2
  <2>2. /\ 1 \in 1..(MaxReloads + 1) /\ 0 \in 0..MaxReconnects /\ 0 \in 0..MaxDeaths
    BY McpAssumption
  <2>. QED
    BY <1>1, <1>2, <2>1, <2>2 DEF McpInit, McpTypeOK
<1>3. ASSUME McpInit
      PROVE  ConnHasGen /\ StatusIsOwned
  BY <1>3 DEF McpInit, ConnHasGen, StatusIsOwned, Fresh
<1>. QED
  BY <1>2, <1>3 DEF McpInv

LEMMA ConnectBeginKeeps ==
  ASSUME McpInv, NEW t \in task, ConnectBegin(t)
  PROVE  McpInv'
<1>. USE DEF McpInv, ConnectBegin, reloadVars
<1>1. t \in Task /\ t.try <= MaxRetries /\ t.pc = "call"
  BY DEF McpTypeOK
<1>2. CASE setting = "absent"
  <2>1. task' = (task \ {t}) \cup After(t, "ok") /\ UNCHANGED <<entry, opened>>
    BY <1>2
  <2>2. /\ task' \subseteq Task
        /\ \A u \in task' : (u.pc = "dial") = (u.sess # NoSession) /\ u.try <= MaxRetries
    BY <1>1, <2>1, AfterType, TasksStayTyped
  <2>3. McpTypeOK'
    BY <2>1, <2>2 DEF McpTypeOK
  <2>4. ConnHasGen' /\ StatusIsOwned'
    BY <1>2, <2>1 DEF ConnHasGen, StatusIsOwned
  <2>. QED
    BY <2>3, <2>4
<1>3. CASE setting # "absent"
  <2>. DEFINE sess == [config |-> config, gen |-> entry.gen + 1]
             next == [t EXCEPT !.pc = "dial", !.sess = sess]
  <2>1. /\ entry' = [gen |-> entry.gen + 1, conn |-> NoSession, status |-> "connecting"]
        /\ opened' = opened \ {entry.conn}
        /\ task' = (task \ {t}) \cup {next}
    BY <1>3
  <2>2. sess \in Session /\ sess # NoSession
    BY McpAssumption DEF McpTypeOK, Session
  <2>3. /\ next \in Task /\ next.pc = "dial" /\ next.sess = sess
        /\ next.try = t.try
    BY <1>1, <2>2 DEF Task
  <2>. HIDE DEF next
  <2>4. /\ task' \subseteq Task
        /\ \A u \in task' : (u.pc = "dial") = (u.sess # NoSession) /\ u.try <= MaxRetries
    BY <1>1, <2>1, <2>2, <2>3, TasksStayTyped, ZenonT(60)
  <2>5. entry' \in [gen : Nat, conn : Session \cup {NoSession}, status : Status]
    BY <2>1 DEF McpTypeOK, Status
  <2>6. McpTypeOK'
    BY <2>1, <2>4, <2>5 DEF McpTypeOK
  <2>7. ConnHasGen' /\ StatusIsOwned'
    BY <1>3, <2>1, <2>3 DEF ConnHasGen, StatusIsOwned
  <2>. QED
    BY <2>6, <2>7
<1>. QED
  BY <1>2, <1>3

LEMMA ConnectEndKeeps ==
  ASSUME McpInv, NEW t \in task, NEW res \in Results, ConnectEnd(t, res)
  PROVE  McpInv'
<1>. USE DEF McpInv, ConnectEnd, reloadVars
<1>1. /\ t \in Task /\ t.try <= MaxRetries /\ t.pc = "dial"
      /\ t.sess \in Session /\ t.sess # NoSession
  BY DEF McpTypeOK, Task
<1>2. /\ task' \subseteq (task \ {t}) \cup After(t, "ok") \cup After(t, res)
      /\ task \ {t} \subseteq task'
  OBVIOUS
<1>3. /\ task' \subseteq Task
      /\ \A u \in task' : (u.pc = "dial") = (u.sess # NoSession) /\ u.try <= MaxRetries
  BY <1>1, <1>2, AfterType, TasksStayTyped
<1>4. CASE Superseded(t.sess.gen)
  <2>1. UNCHANGED <<entry, opened, monitor>>
    BY <1>4
  <2>2. McpTypeOK'
    BY <1>3, <2>1 DEF McpTypeOK
  <2>3. ConnHasGen'
    BY <2>1 DEF ConnHasGen
  <2>4. StatusIsOwned'
    BY <1>2, <1>4, <2>1 DEF StatusIsOwned, ConnHasGen, Superseded
  <2>. QED
    BY <2>2, <2>3, <2>4
<1>5. CASE ~Superseded(t.sess.gen) /\ res = "ok"
  <2>1. /\ entry' = [entry EXCEPT !.conn = t.sess, !.status = "connected"]
        /\ opened' = opened \cup {t.sess}
        /\ monitor' = monitor \cup {t.sess}
    BY <1>5
  <2>2. /\ entry' \in [gen : Nat, conn : Session \cup {NoSession}, status : Status]
        /\ entry'.conn = t.sess /\ entry'.gen = entry.gen /\ entry'.status = "connected"
    BY <1>1, <2>1 DEF McpTypeOK, Status
  <2>3. McpTypeOK'
    BY <1>1, <1>3, <2>1, <2>2 DEF McpTypeOK
  <2>4. ConnHasGen' /\ StatusIsOwned'
    BY <1>5, <2>1, <2>2 DEF ConnHasGen, StatusIsOwned, Superseded
  <2>. QED
    BY <2>3, <2>4
<1>6. CASE ~Superseded(t.sess.gen) /\ res # "ok"
  <2>1. /\ entry' = [entry EXCEPT !.conn = NoSession, !.status = res]
        /\ UNCHANGED <<opened, monitor>>
    BY <1>6
  <2>2. /\ entry' \in [gen : Nat, conn : Session \cup {NoSession}, status : Status]
        /\ entry'.conn = NoSession /\ entry'.status \in {"error", "fatal"}
    BY <1>6, <2>1 DEF McpTypeOK, Status, Results
  <2>3. McpTypeOK'
    BY <1>3, <2>1, <2>2 DEF McpTypeOK
  <2>4. ConnHasGen' /\ StatusIsOwned'
    BY <2>2 DEF ConnHasGen, StatusIsOwned
  <2>. QED
    BY <2>3, <2>4
<1>. QED
  BY <1>4, <1>5, <1>6

\* A goroutine that is not dialling moves on or ends, and the entry stays.
LEMMA TaskMovesKeeps ==
  ASSUME McpInv, NEW t \in task, BootLeave(t) \/ AutoCheck(t)
  PROVE  McpInv'
<1>. USE DEF McpInv, BootLeave, AutoCheck, reloadVars
<1>. DEFINE next == [t EXCEPT !.pc = "call"]
<1>1. t \in Task /\ t.try <= MaxRetries /\ t.pc # "dial" /\ t.sess = NoSession
  BY DEF McpTypeOK
<1>2. next \in Task /\ next.pc = "call" /\ next.sess = NoSession /\ next.try = t.try
  BY <1>1 DEF Task
<1>3. task' \subseteq (task \ {t}) \cup {next} /\ task \ {t} \subseteq task'
  OBVIOUS
<1>. HIDE DEF next
<1>4. /\ task' \subseteq Task
      /\ \A u \in task' : (u.pc = "dial") = (u.sess # NoSession) /\ u.try <= MaxRetries
  BY <1>1, <1>2, <1>3, TasksStayTyped
<1>5. UNCHANGED <<setting, config, reload, entry, opened, monitor, reconnects, deaths>>
      /\ reloading' \in BOOLEAN
  BY DEF McpTypeOK
<1>6. McpTypeOK'
  BY <1>4, <1>5 DEF McpTypeOK
<1>7. ConnHasGen' /\ StatusIsOwned'
  BY <1>1, <1>3, <1>5 DEF ConnHasGen, StatusIsOwned
<1>. QED
  BY <1>6, <1>7

LEMMA SessionDiesKeeps ==
  ASSUME McpInv, NEW s \in opened, SessionDies(s)
  PROVE  McpInv'
<1>. USE DEF McpInv, SessionDies, reloadVars
<1>1. McpTypeOK'
  BY McpAssumption DEF McpTypeOK
<1>2. ConnHasGen' /\ StatusIsOwned'
  BY DEF ConnHasGen, StatusIsOwned
<1>. QED
  BY <1>1, <1>2

LEMMA MonitorWakesKeeps ==
  ASSUME McpInv, NEW s \in monitor, NEW res \in {"error", "fatal"}, MonitorWakes(s, res)
  PROVE  McpInv'
<1>. USE DEF McpInv, MonitorWakes, reloadVars
<1>. DEFINE auto == [by |-> "auto", id |-> 10 * s.config + s.gen, try |-> 1,
                     pc |-> "sleep", sess |-> NoSession]
<1>1. s \in Session /\ s.config \in Nat /\ s.gen \in Nat /\ monitor' = monitor \ {s}
  BY McpAssumption DEF McpTypeOK, Session
<1>2. CASE Superseded(s.gen)
  <2>1. UNCHANGED <<entry, task>>
    BY <1>2
  <2>2. McpTypeOK'
    BY <1>1, <2>1 DEF McpTypeOK
  <2>3. entry.status = "connected" => entry.conn # s
    BY <1>1, <1>2, McpAssumption DEF ConnHasGen, Superseded, Session
  <2>4. ConnHasGen' /\ StatusIsOwned'
    BY <1>1, <2>1, <2>3 DEF ConnHasGen, StatusIsOwned
  <2>. QED
    BY <2>2, <2>4
<1>3. CASE ~Superseded(s.gen)
  <2>1. /\ entry' = [entry EXCEPT !.conn = NoSession, !.status = res]
        /\ task' = task \cup {auto}
    BY <1>3
  <2>2. /\ entry' \in [gen : Nat, conn : Session \cup {NoSession}, status : Status]
        /\ entry'.conn = NoSession /\ entry'.status \in {"error", "fatal"}
    BY <2>1 DEF McpTypeOK, Status
  <2>3. auto \in Task /\ auto.pc # "dial" /\ auto.sess = NoSession /\ auto.try <= MaxRetries
    <3>1. 10 * s.config + s.gen \in Nat
      BY <1>1
    <3>. QED
      BY <3>1, McpAssumption DEF Task
  <2>. HIDE DEF auto
  <2>4. /\ task' \subseteq Task
        /\ \A u \in task' : (u.pc = "dial") = (u.sess # NoSession) /\ u.try <= MaxRetries
    BY <2>1, <2>3, TaskAdded
  <2>5. McpTypeOK'
    BY <1>1, <2>2, <2>4 DEF McpTypeOK
  <2>6. ConnHasGen' /\ StatusIsOwned'
    BY <2>2 DEF ConnHasGen, StatusIsOwned
  <2>. QED
    BY <2>5, <2>6
<1>. QED
  BY <1>2, <1>3

LEMMA ReconnectKeeps ==
  ASSUME McpInv, Reconnect
  PROVE  McpInv'
<1>. USE DEF McpInv, Reconnect, reloadVars
<1>. DEFINE user == [by |-> "user", id |-> reconnects', try |-> 0,
                     pc |-> "call", sess |-> NoSession]
<1>1. reconnects' \in 0..MaxReconnects /\ reconnects' \in Nat
  BY McpAssumption DEF McpTypeOK
<1>2. CASE setting = "off"
  <2>1. entry' = [entry EXCEPT !.status = "disabled"] /\ UNCHANGED task
    BY <1>2
  <2>2. /\ entry' \in [gen : Nat, conn : Session \cup {NoSession}, status : Status]
        /\ entry'.conn = entry.conn /\ entry'.gen = entry.gen /\ entry'.status = "disabled"
    BY <2>1 DEF McpTypeOK, Status
  <2>3. McpTypeOK'
    BY <1>1, <2>1, <2>2 DEF McpTypeOK
  <2>4. ConnHasGen' /\ StatusIsOwned'
    BY <2>2 DEF ConnHasGen, StatusIsOwned
  <2>. QED
    BY <2>3, <2>4
<1>3. CASE setting # "off"
  <2>1. task' = task \cup {user} /\ UNCHANGED entry
    BY <1>3
  <2>2. user \in Task /\ user.pc # "dial" /\ user.sess = NoSession /\ user.try <= MaxRetries
    BY <1>1, McpAssumption DEF Task
  <2>. HIDE DEF user
  <2>3. /\ task' \subseteq Task
        /\ \A u \in task' : (u.pc = "dial") = (u.sess # NoSession) /\ u.try <= MaxRetries
    BY <2>1, <2>2, TaskAdded
  <2>4. McpTypeOK'
    BY <1>1, <2>1, <2>3 DEF McpTypeOK
  <2>5. ConnHasGen' /\ StatusIsOwned'
    BY <2>1 DEF ConnHasGen, StatusIsOwned
  <2>. QED
    BY <2>4, <2>5
<1>. QED
  BY <1>2, <1>3

LEMMA ReloadKeeps ==
  ASSUME McpInv,
         \/ ReloadBegin \/ ReloadClose
         \/ \E set \in {"on", "off", "absent"} : ReloadInstall(set)
  PROVE  McpInv'
<1>. USE DEF McpInv
<1>1. CASE ReloadBegin
  BY <1>1 DEF ReloadBegin, McpTypeOK, ConnHasGen, StatusIsOwned
<1>2. CASE ReloadClose
  <2>1. entry' = [entry EXCEPT !.gen = @ + 1, !.conn = NoSession, !.status = "disconnected"]
    BY <1>2 DEF ReloadClose
  <2>2. /\ entry' \in [gen : Nat, conn : Session \cup {NoSession}, status : Status]
        /\ entry'.conn = NoSession /\ entry'.status = "disconnected"
    <3>1. entry' = [gen |-> entry.gen + 1, conn |-> NoSession, status |-> "disconnected"]
      BY <2>1 DEF McpTypeOK
    <3>2. entry.gen + 1 \in Nat
      BY DEF McpTypeOK
    <3>. QED
      BY <3>1, <3>2 DEF Status
  <2>3. McpTypeOK'
    BY <1>2, <2>2 DEF ReloadClose, McpTypeOK
  <2>4. ConnHasGen' /\ StatusIsOwned'
    BY <2>2 DEF ConnHasGen, StatusIsOwned
  <2>. QED
    BY <2>3, <2>4
<1>3. ASSUME NEW set \in {"on", "off", "absent"}, ReloadInstall(set)
      PROVE  McpInv'
  <2>1. /\ config' = config + 1 /\ config' \in 1..(MaxReloads + 1) /\ config' \in Nat
    BY <1>3, McpAssumption DEF ReloadInstall, McpTypeOK
  <2>2. /\ entry' \in [gen : Nat, conn : Session \cup {NoSession}, status : Status]
        /\ entry'.conn = NoSession /\ entry'.status \in {"disconnected", "disabled"}
    BY <1>3 DEF ReloadInstall, Fresh, Status
  <2>3. /\ Boot(config', set) \in Task /\ Boot(config', set).pc # "dial"
        /\ Boot(config', set).sess = NoSession /\ Boot(config', set).try <= MaxRetries
    BY <2>1, McpAssumption DEF Boot, Task
  <2>4. /\ task' \subseteq Task
        /\ \A u \in task' : (u.pc = "dial") = (u.sess # NoSession) /\ u.try <= MaxRetries
    BY <1>3, <2>3, TaskAdded DEF ReloadInstall
  <2>5. McpTypeOK'
    BY <1>3, <2>1, <2>2, <2>4 DEF ReloadInstall, McpTypeOK
  <2>6. ConnHasGen' /\ StatusIsOwned'
    BY <2>2 DEF ConnHasGen, StatusIsOwned
  <2>. QED
    BY <2>5, <2>6
<1>. QED
  BY <1>1, <1>2, <1>3

LEMMA McpNextInv ==
  ASSUME McpInv, [McpNext]_mcpVars
  PROVE  McpInv'
<1>1. ASSUME NEW t \in task,
             \/ ConnectBegin(t) \/ BootLeave(t) \/ AutoCheck(t)
             \/ \E res \in {"ok", "error", "fatal"} : ConnectEnd(t, res)
      PROVE  McpInv'
  BY <1>1, ConnectBeginKeeps, TaskMovesKeeps, ConnectEndKeeps DEF Results
<1>2. CASE UNCHANGED mcpVars
  BY <1>2 DEF mcpVars, McpInv, McpTypeOK, ConnHasGen, StatusIsOwned
<1>. QED
  BY <1>1, <1>2, SessionDiesKeeps, MonitorWakesKeeps, ReconnectKeeps, ReloadKeeps
     DEF McpNext

LEMMA McpInvariance == McpSpec => []McpInv
BY McpInitInv, McpNextInv, PTL DEF McpSpec
-------------------------------------------------------------------------------
\* The entry and the goroutines that connect keep their types: exactly those
\* that dial have a session, and none retries beyond the backoff.
THEOREM McpTypeCorrect == McpSpec => []McpTypeOK
BY McpInvariance, PTL DEF McpInv

\* No older attempt of the settings in force is left in the entry.
THEOREM ConnIsAlwaysNewest == McpSpec => []ConnIsNewest
<1>1. McpInv => ConnIsNewest
  BY DEF McpInv, ConnHasGen, ConnIsNewest
<1>. QED
  BY <1>1, McpInvariance, PTL

\* A status that promises news has somebody to bring it.
THEOREM StatusIsAlwaysOwned == McpSpec => []StatusIsOwned
BY McpInvariance, PTL DEF McpInv
===============================================================================
