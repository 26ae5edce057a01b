------------------------------ MODULE EventStream ------------------------------
(***************************************************************************)
(* The event stream of one session: SessionHub (event/session_hub.go), the *)
(* message handler that publishes to it, the forwarder that brings the     *)
(* events of a gateway turn to it in packets (gateway/event_bridge.go),    *)
(* and the clients of GET and POST /events (server/session_events.go).     *)
(* The row of session_runs is reduced to the run that has it.              *)
(***************************************************************************)
EXTENDS Naturals, Sequences, FiniteSets, SequencesExt

CONSTANTS MessageRun, GatewayRun, CompactRun,  \* runs by what starts them
          Sub,          \* clients that watch the session
          None,
          MessageEvents, GatewayEvents,  \* bounds: events of a run
          MaxLosses,    \* bound: packets that time out or whose answer is lost
          MaxRestarts,  \* bound: restarts of serve
          MaxFinished   \* maxFinishedRuns

ASSUME EventStreamAssumption ==
    /\ MessageRun \cap GatewayRun = {} /\ CompactRun \cap (MessageRun \cup GatewayRun) = {}
    /\ None \notin MessageRun \cup GatewayRun \cup CompactRun
    /\ MessageEvents \in Nat /\ GatewayEvents \in Nat /\ MaxLosses \in Nat /\ MaxRestarts \in Nat
    /\ MaxFinished \in Nat \ {0}

VARIABLES cur,       \* the run that has the row of session_runs
          phase,     \* idle, up (row, no stream yet), live, ended, released, done, dead
          log,       \* kinds of the events the run has emitted, in order
          saved,     \* how many of them the transcript holds
          stream,    \* SessionHub.streams[session]
          finished,  \* SessionHub.finished
          sub,       \* the clients
          packets,   \* EventForwarder.queue
          stray,     \* packets that timed out and may still arrive
          discard,   \* EventForwarder.run: discardUntilFinish
          broken,    \* runs whose feed was interrupted (history)
          losses, restarts

vars == <<cur, phase, log, saved, stream, finished, sub, packets, stray, discard,
          broken, losses, restarts>>
hubVars == <<stream, finished, sub, broken>>
runVars == <<cur, phase, log, saved>>
bridgeVars == <<packets, stray, discard, losses>>

Run == MessageRun \cup GatewayRun \cup CompactRun
Done == 0
MaxEvents(r) == IF r \in GatewayRun THEN GatewayEvents ELSE MessageEvents
Packet == [run : GatewayRun, kind : {"start", "event", "finish"}, n : 0..GatewayEvents]

NoStream == [run |-> None, replay |-> <<>>, stepDone |-> FALSE, lastSeq |-> 0,
             started |-> FALSE, subs |-> {}]
NewStream(r) == [NoStream EXCEPT !.run = r]
Seat == [pc |-> "out", run |-> None, replay |-> <<>>, queue |-> <<>>,
         closed |-> FALSE, got |-> <<>>]

STypeOK ==
    /\ cur \in Run \cup {None}
    /\ phase \in [Run -> {"idle", "up", "live", "ended", "released", "done", "dead"}]
    /\ log \in [Run -> Seq({"part", "step", "status"})]
    /\ saved \in [Run -> Nat]
    /\ stream.run \in Run \cup {None} /\ stream.subs \subseteq Sub
    /\ finished \subseteq Run /\ Cardinality(finished) <= MaxFinished
    /\ \A s \in Sub : sub[s].pc \in {"out", "read", "in", "left"}
    /\ \A r \in GatewayRun : ToSet(packets[r]) \subseteq Packet
    /\ stray \subseteq Packet
    /\ losses \in 0..MaxLosses /\ restarts \in 0..MaxRestarts

Init ==
    /\ cur = None
    /\ phase = [r \in Run |-> "idle"]
    /\ log = [r \in Run |-> <<>>]
    /\ saved = [r \in Run |-> 0]
    /\ stream = NoStream /\ finished = {}
    /\ sub = [s \in Sub |-> Seat]
    /\ packets = [r \in GatewayRun |-> <<>>]
    /\ stray = {} /\ discard = {} /\ broken = {}
    /\ losses = 0 /\ restarts = 0
-------------------------------------------------------------------------------
(* SessionHub.                                                             *)

\* sessionSubscriber.close: what is still queued is dropped.
Closed(s) == [sub[s] EXCEPT !.queue = <<>>, !.closed = TRUE]
\* streams[session] is replaced; the subscribers of the old stream are closed.
Replace(new, clients) ==
    /\ stream' = new
    /\ sub' = [s \in Sub |-> IF s \in stream.subs THEN Closed(s) ELSE clients[s]]

\* SessionHub.Start.
HubStart(r) ==
    /\ IF stream.run = r
       THEN stream' = [stream EXCEPT !.started = TRUE] /\ UNCHANGED sub
       ELSE Replace([NewStream(r) EXCEPT !.started = TRUE], sub)
    /\ UNCHANGED <<finished, broken>>

\* appendReplay: a status after a finished step means the step was persisted,
\* done makes everything before it superfluous.  An event stands for the
\* deltas that appendMerged merges into one.
AppendReplay(st, n, kind) ==
    CASE n = Done -> [st EXCEPT !.replay = <<Done>>, !.stepDone = FALSE]
      [] kind = "status" /\ st.stepDone ->
           [st EXCEPT !.replay = <<n>>, !.stepDone = FALSE]
      [] OTHER -> [st EXCEPT !.replay = Append(@, n),
                             !.stepDone = @ \/ kind = "step"]

\* Fan-out to the subscribers of the stream.
Enqueued(n) == [s \in Sub |-> IF s \in stream.subs /\ ~sub[s].closed
                              THEN [sub[s] EXCEPT !.queue = Append(@, n)] ELSE sub[s]]

\* SessionHub.Publish and PublishSequenced (seq > lastSeq) for the stream's run.
HubPublish(n, kind) ==
    /\ stream' = [AppendReplay(stream, n, kind) EXCEPT !.lastSeq = n]
    /\ sub' = Enqueued(n)
    /\ UNCHANGED <<finished, broken>>

\* Mutant of HubFinish: the marks of finished runs are never evicted.
HubFinishUnbounded(r) ==
    IF stream.run # r THEN UNCHANGED hubVars ELSE
    /\ sub' = [s \in Sub |-> IF s \in stream.subs /\ ~sub[s].closed
                             THEN [sub[s] EXCEPT !.queue = Append(@, Done), !.closed = TRUE]
                             ELSE sub[s]]
    /\ stream' = NoStream
    /\ finished' = finished \cup {r}
    /\ UNCHANGED broken

\* Mutant of HubFinish: the subscribers are not told.
HubFinishSilently(r) ==
    IF stream.run # r THEN UNCHANGED hubVars ELSE
    /\ stream' = NoStream
    /\ finished' = {r}
    /\ UNCHANGED <<sub, broken>>

\* SessionHub.Finish: done is added unless it is there, subscribers are closed
\* after what they have queued, and the run is remembered as finished.
HubFinish(r) ==
    IF stream.run # r THEN UNCHANGED hubVars ELSE
    /\ sub' = [s \in Sub |-> IF s \in stream.subs /\ ~sub[s].closed
                             THEN [sub[s] EXCEPT !.queue = Append(@, Done), !.closed = TRUE]
                             ELSE sub[s]]
    /\ stream' = NoStream
    /\ IF Cardinality(finished) >= MaxFinished
       THEN \E old \in finished : finished' = (finished \ {old}) \cup {r}
       ELSE finished' = finished \cup {r}
    /\ UNCHANGED broken
-------------------------------------------------------------------------------
(* The life of a run and its producer. *)

Goto(r, ph) == phase' = [phase EXCEPT ![r] = ph]
Kind(r, n) == log[r][n]

\* Acquire; a gateway turn queues its Start packet.
Begin(r) ==
    /\ phase[r] = "idle" /\ cur = None
    /\ cur' = r
    /\ Goto(r, IF r \in MessageRun THEN "up" ELSE "live")
    /\ packets' = IF r \in GatewayRun
                  THEN [packets EXCEPT ![r] = <<[run |-> r, kind |-> "start", n |-> 0]>>]
                  ELSE packets
    /\ UNCHANGED <<log, saved, hubVars, stray, discard, losses, restarts>>

\* beginMessageRun: SessionHub.Start after Acquire.
OpenStream(r) ==
    /\ phase[r] = "up"
    /\ HubStart(r)
    /\ Goto(r, "live")
    /\ UNCHANGED <<cur, log, saved, bridgeVars, restarts>>

\* What the agent may emit next: a finished step is persisted before anything
\* else happens and is followed by a status (elsewhere a status is one more
\* part, prepareStep and settleModelStep).
MayEmit(r, kind) ==
    LET n == Len(log[r]) IN
    /\ r \in MessageRun \cup GatewayRun
    /\ phase[r] = "live" /\ n < MaxEvents(r)
    /\ IF n > 0 /\ log[r][n] = "step" THEN kind = "status" /\ saved[r] = n
                                      ELSE kind # "status"

\* The agent emits an event: published directly, or queued as a packet.
Emit(r, kind) ==
    /\ MayEmit(r, kind)
    /\ log' = [log EXCEPT ![r] = Append(@, kind)]
    /\ LET n == Len(log[r]) + 1
       IN IF r \in GatewayRun
          THEN /\ packets' = [packets EXCEPT ![r] = Append(@, [run |-> r, kind |-> "event", n |-> n])]
               /\ UNCHANGED hubVars
          ELSE /\ IF stream.run = r THEN HubPublish(n, kind) ELSE UNCHANGED hubVars
               /\ UNCHANGED packets
    /\ UNCHANGED <<cur, phase, saved, stray, discard, losses, restarts>>

\* persistAssistantStep.
Save(r) ==
    /\ phase[r] = "live" /\ saved[r] < Len(log[r])
    /\ Last(log[r]) = "step"
    /\ saved' = [saved EXCEPT ![r] = Len(log[r])]
    /\ UNCHANGED <<cur, phase, log, hubVars, bridgeVars, restarts>>

\* The turn is over: a serve run deletes its row; a gateway turn closes its
\* forwarder, which queues Finish.
EndTurn(r) ==
    /\ phase[r] = "live"
    /\ \/ /\ r \notin GatewayRun
          /\ cur' = IF cur = r THEN None ELSE cur
          /\ Goto(r, IF r \in CompactRun THEN "done" ELSE "released")
          /\ UNCHANGED packets
       \/ /\ r \in GatewayRun
          /\ packets' = [packets EXCEPT ![r] = Append(@, [run |-> r, kind |-> "finish", n |-> 0])]
          /\ Goto(r, "ended")
          /\ UNCHANGED cur
    /\ UNCHANGED <<log, saved, hubVars, stray, discard, losses, restarts>>

\* RunManager.notifyFinished; publishDone comes after it and finds no stream.
Announce(r) ==
    /\ phase[r] = "released"
    /\ HubFinish(r)
    /\ Goto(r, "done")
    /\ UNCHANGED <<cur, log, saved, bridgeVars, restarts>>
-------------------------------------------------------------------------------
(* handleIngestSessionEvent: a packet of gateway run p.run reaches serve.  *)

Accepted(p) == /\ cur = p.run
               /\ p.kind = "event" => stream.run = p.run

\* Mutant of Ingest: the sequence number of an event is not compared.
IngestRepeated(p) ==
    IF ~Accepted(p) THEN UNCHANGED <<runVars, hubVars>>
    ELSE CASE p.kind = "start"  -> HubStart(p.run) /\ UNCHANGED runVars
           [] p.kind = "event"  -> HubPublish(p.n, Kind(p.run, p.n)) /\ UNCHANGED runVars
           [] p.kind = "finish" ->
                /\ cur' = None
                /\ Goto(p.run, "released")
                /\ UNCHANGED <<log, saved, hubVars>>

\* A packet that is not accepted changes nothing, and neither does an event
\* the stream has seen already.
Ingest(p) ==
    IF ~Accepted(p) THEN UNCHANGED <<runVars, hubVars>>
    ELSE CASE p.kind = "start"  -> HubStart(p.run) /\ UNCHANGED runVars
           [] p.kind = "event"  ->
                /\ IF p.n <= stream.lastSeq THEN UNCHANGED hubVars
                   ELSE HubPublish(p.n, Kind(p.run, p.n))
                /\ UNCHANGED runVars
           [] p.kind = "finish" ->
                /\ cur' = None
                /\ Goto(p.run, "released")
                /\ UNCHANGED <<log, saved, hubVars>>

\* All of a queue but the Finish packet is dropped.
OnlyFinish(q) == IF \E i \in DOMAIN q : q[i].kind = "finish"
                 THEN <<CHOOSE p \in ToSet(q) : p.kind = "finish">> ELSE <<>>

\* A refused packet is a conflict: everything up to Finish is dropped then.
AfterConflict(r) == IF Head(packets[r]).kind = "finish" THEN <<>> ELSE OnlyFinish(packets[r])

\* The head of the queue is sent and answered.
Send(r) ==
    /\ packets[r] # <<>>
    /\ LET p == Head(packets[r]) IN
       /\ Ingest(p)
       /\ IF Accepted(p) \/ (p.kind = "finish" /\ p.run \in finished)
          THEN packets' = [packets EXCEPT ![r] = Tail(@)] /\ UNCHANGED discard
          ELSE /\ packets' = [packets EXCEPT ![r] = AfterConflict(r)]
               /\ discard' = discard \cup {r}
    /\ UNCHANGED <<stray, losses, restarts>>

\* While it discards, the forwarder drops what is queued in front of Finish.
Discard(r) ==
    /\ r \in discard
    /\ packets[r] # <<>> /\ Head(packets[r]).kind # "finish"
    /\ packets' = [packets EXCEPT ![r] = OnlyFinish(@)]
    /\ UNCHANGED <<runVars, hubVars, stray, discard, losses, restarts>>

\* The packet is handled but the answer does not arrive: it will be sent again.
AnswerLost(r) ==
    /\ packets[r] # <<>> /\ r \notin discard /\ losses < MaxLosses
    /\ Ingest(Head(packets[r]))
    /\ losses' = losses + 1
    /\ UNCHANGED <<packets, stray, discard, restarts>>

\* The request times out before serve has looked at it.
TimesOut(r) ==
    /\ packets[r] # <<>> /\ r \notin discard /\ losses < MaxLosses
    /\ stray' = stray \cup {Head(packets[r])}
    /\ losses' = losses + 1
    /\ UNCHANGED <<runVars, hubVars, packets, discard, restarts>>

\* ... and serve looks at it later.
ArrivesLate(p) ==
    /\ p \in stray
    /\ Ingest(p)
    /\ stray' = stray \ {p}
    /\ UNCHANGED <<packets, discard, losses, restarts>>
-------------------------------------------------------------------------------
(* handleSessionEvents: a client watches. *)

\* RunManager.Current; the client is refused when the session does not run.
ReadCurrent(s) ==
    /\ sub[s].pc = "out" /\ cur # None
    /\ sub' = [sub EXCEPT ![s].pc = "read", ![s].run = cur]
    /\ UNCHANGED <<runVars, stream, finished, broken, bridgeVars, restarts>>

\* Mutant of Subscribe: the mark of a finished run is not looked at.
SubscribeUnmarked(s) ==
    LET r == sub[s].run
        st == IF stream.run = r THEN stream ELSE NewStream(r)
        seated == [sub EXCEPT ![s].pc = "in", ![s].replay = st.replay]
    IN /\ sub[s].pc = "read"
       /\ IF stream.run \in {r, None}
          THEN /\ stream' = [st EXCEPT !.subs = @ \cup {s}]
               /\ sub' = seated
               /\ UNCHANGED broken
          ELSE /\ Replace([st EXCEPT !.subs = {s}], seated)
               /\ broken' = broken \cup {stream.run}
       /\ UNCHANGED <<finished, runVars, bridgeVars, restarts>>

\* SessionHub.Subscribe: refused for a finished run; otherwise the stream of
\* the run that was read is taken, and made if the session has none or one of
\* another run.
Subscribe(s) ==
    LET r == sub[s].run
        st == IF stream.run = r THEN stream ELSE NewStream(r)
        seated == [sub EXCEPT ![s].pc = "in", ![s].replay = st.replay]
    IN /\ sub[s].pc = "read"
       /\ \/ /\ r \in finished
             /\ sub' = [sub EXCEPT ![s].pc = "left"]
             /\ UNCHANGED <<stream, broken>>
          \/ /\ r \notin finished
             /\ IF stream.run \in {r, None}
                THEN /\ stream' = [st EXCEPT !.subs = @ \cup {s}]
                     /\ sub' = seated
                     /\ UNCHANGED broken
                ELSE /\ Replace([st EXCEPT !.subs = {s}], seated)
                     /\ broken' = broken \cup {stream.run}
       /\ UNCHANGED <<finished, runVars, bridgeVars, restarts>>

\* The replay is written first, then what arrives on the channel.
Deliver(s) ==
    /\ sub[s].pc = "in"
    /\ \/ /\ sub[s].replay # <<>>
          /\ sub' = [sub EXCEPT ![s].replay = Tail(@), ![s].got = Append(@, Head(sub[s].replay)),
                                ![s].pc = IF Head(sub[s].replay) = Done THEN "left" ELSE "in"]
       \/ /\ sub[s].replay = <<>> /\ sub[s].queue # <<>>
          /\ sub' = [sub EXCEPT ![s].queue = Tail(@), ![s].got = Append(@, Head(sub[s].queue)),
                                ![s].pc = IF Head(sub[s].queue) = Done THEN "left" ELSE "in"]
    /\ UNCHANGED <<runVars, stream, finished, broken, bridgeVars, restarts>>

\* The channel is closed and drained.
StreamEnds(s) ==
    /\ sub[s].pc = "in" /\ sub[s].closed
    /\ sub[s].replay = <<>> /\ sub[s].queue = <<>>
    /\ sub' = [sub EXCEPT ![s].pc = "left"]
    /\ stream' = [stream EXCEPT !.subs = @ \ {s}]
    /\ UNCHANGED <<runVars, finished, broken, bridgeVars, restarts>>

\* The serve process is restarted: streams, marks, handlers, the requests it
\* has not looked at and its own runs are gone (their rows go stale); a gateway
\* run goes on.
Restart ==
    /\ restarts < MaxRestarts
    /\ restarts' = restarts + 1
    /\ stream' = NoStream /\ finished' = {}
    /\ sub' = [s \in Sub |-> IF sub[s].pc \in {"read", "in"}
                             THEN [Closed(s) EXCEPT !.replay = <<>>, !.pc = "left"] ELSE sub[s]]
    /\ phase' = [r \in Run |-> IF (r \notin GatewayRun /\ phase[r] \in {"up", "live", "released"})
                                  \/ (r \in GatewayRun /\ phase[r] = "released")
                               THEN "dead" ELSE phase[r]]
    /\ cur' = IF cur \in GatewayRun THEN cur ELSE None
    /\ broken' = Run
    /\ stray' = {}
    /\ UNCHANGED <<log, saved, packets, discard, losses>>
-------------------------------------------------------------------------------
Produce(r) == \/ Begin(r) \/ OpenStream(r) \/ Save(r) \/ EndTurn(r) \/ Announce(r)
              \/ \E kind \in {"part", "step", "status"} : Emit(r, kind)
Forward(r) == Send(r) \/ Discard(r)
Watch(s) == Subscribe(s) \/ Deliver(s) \/ StreamEnds(s)

Next == \/ \E r \in Run : Produce(r)
        \/ \E r \in GatewayRun : Forward(r) \/ AnswerLost(r) \/ TimesOut(r)
        \/ \E p \in stray : ArrivesLate(p)
        \/ \E s \in Sub : ReadCurrent(s) \/ Watch(s)
        \/ Restart

Spec == Init /\ [][Next]_vars

\* A turn that runs comes to its end, the forwarder goes on sending and the
\* handlers of clients run; nobody has to start a run or to watch it.
Fairness == /\ \A r \in Run : /\ WF_vars(OpenStream(r)) /\ WF_vars(Announce(r))
                              /\ WF_vars(EndTurn(r))
            /\ \A r \in GatewayRun : WF_vars(Forward(r))
            /\ \A s \in Sub : WF_vars(Watch(s))

FairSpec == Spec /\ Fairness
-------------------------------------------------------------------------------
(* The hub with its bridge is the feed of RunFeed: whatever is lost,       *)
(* repeated or late on the way, a client gets every event once and in      *)
(* order, from the first one the transcript does not have.  Interrupted    *)
(* feeds (restarts, streams replaced by a stale client) are in "broken",   *)
(* and may leave events out.                                               *)
Feed == INSTANCE RunFeed WITH
    emitted <- [r \in Run |-> Len(log[r])],
    over <- {r \in Run : phase[r] = "done"},
    seat <- [s \in Sub |-> [run |-> sub[s].run, got |-> sub[s].got]]
FeedSpec == Feed!Spec

(* The live run has the stream: once opened, the stream of the run that    *)
(* has the session is not taken over by a client that asked for another    *)
(* run.  (the word of session_hub.go:109: a lossless stream for each       *)
(* active run)                                                             *)
ActiveRunHasStream ==
    \A r \in MessageRun : phase[r] = "live" /\ restarts = 0 => stream.run = r

(* A client that watches a run before its end is announced gets to the end *)
(* of its stream, whatever is lost or repeated between gateway and serve.  *)
WatcherIsReleased ==
    \A s \in Sub : (sub[s].pc = "in" /\ sub[s].run \notin CompactRun
                    /\ phase[sub[s].run] # "done") ~> (sub[s].pc = "left")

(* A finished run stays finished: no stream is kept for it that nobody     *)
(* will close, as long as its mark is there.                               *)
NoGhostStream == stream.run \notin finished
===============================================================================
