--------------------------- MODULE EventStreamProofs ---------------------------
(***************************************************************************)
(* Proofs about the event stream of a session: it implements RunFeed, and  *)
(* no stream is kept for a finished run.  With those of TranscriptProofs,  *)
(* also about MCSession.                                                   *)
(*                                                                         *)
(* The invariant follows an event from the agent to the client.  The       *)
(* packets of a gateway run that wait to be sent continue what the stream  *)
(* has (BridgeInv): the head of the queue is the next event of the stream  *)
(* or the last one it has, sent again, and a late packet is never ahead of *)
(* the head.  The stream has the events of one run in order (StreamInv),   *)
(* and what a client has got, replays and has queued is one sequence in    *)
(* order that ends where the stream ends (SeatsInv).  Only the clients of  *)
(* runs in broken may miss events.                                         *)
(***************************************************************************)
EXTENDS MCSession, TranscriptProofs, SequenceTheorems, FiniteSetTheorems, TLAPS

(* The event stream: the inductive invariant.                              *)

Kinds == {"part", "step", "status"}
StreamSet == [run : Run \cup {None}, replay : Seq(Nat), stepDone : BOOLEAN, lastSeq : Nat,
              started : BOOLEAN, subs : SUBSET Sub]
SeatSet == [pc : {"out", "read", "in", "left"}, run : Run \cup {None}, replay : Seq(Nat),
            queue : Seq(Nat), closed : BOOLEAN, got : Seq(Nat)]

RunTypes ==
    /\ cur \in Run \cup {None}
    /\ phase \in [Run -> {"idle", "up", "live", "ended", "released", "done", "dead"}]
    /\ log \in [Run -> Seq(Kinds)]
    /\ saved \in [Run -> Nat]
HubTypes ==
    /\ stream \in StreamSet /\ sub \in [Sub -> SeatSet] /\ broken \subseteq Run
    /\ finished \subseteq Run /\ IsFiniteSet(finished) /\ Cardinality(finished) <= MaxFinished
BridgeTypes ==
    /\ packets \in [GatewayRun -> Seq(Packet)]
    /\ \A r \in GatewayRun : \A i \in 1..Len(packets[r]) : packets[r][i].run = r
    /\ stray \subseteq Packet /\ discard \subseteq GatewayRun
    /\ losses \in 0..MaxLosses /\ restarts \in 0..MaxRestarts

\* The run that has the session is the only one under way; what its transcript
\* holds; a status follows what was saved.
Holding == {"up", "live", "ended"}
PhasesInv ==
    /\ cur # None => phase[cur] \in Holding
    /\ \A r \in Run :
         /\ phase[r] \in Holding => cur = r
         /\ phase[r] = "up" => r \in MessageRun
         /\ phase[r] = "ended" => r \in GatewayRun
         /\ phase[r] \in {"idle", "up"} \/ r \in CompactRun => Len(log[r]) = 0
         /\ saved[r] <= Len(log[r])
         /\ \A n \in 1..Len(log[r]) : log[r][n] = "status" => n <= saved[r] + 1

\* A mark is of a run that is over; streams and clients are of runs that began.
MarksInv ==
    /\ \A r \in finished : phase[r] = "done"
    /\ stream.run \notin finished
    /\ stream.run # None => phase[stream.run] # "idle"
    /\ \A s \in Sub : sub[s].run # None => phase[sub[s].run] # "idle"

Over == {r \in Run : phase[r] = "done"}

\* The events F of run r, of which len were emitted and sv saved: the next one
\* after each and the end after the last, unless r is one of the broken B; the
\* end only for the runs E that are over.
InOrder(F, r, len, sv, B, E) ==
    /\ \A i \in 1..Len(F) : F[i] \in 0..len /\ (F[i] = 0 => i = Len(F) /\ r \in E)
    /\ \A i \in 1..(Len(F) - 1) :
         /\ F[i + 1] = 0 => r \in B \/ F[i] = len
         /\ F[i + 1] # 0 => F[i + 1] > F[i] /\ (r \in B \/ F[i + 1] = F[i] + 1)
    /\ Len(F) > 0 => r \in B \/ F[1] <= sv + 1
RunOrder(F, r, lg, sv, B, E) == InOrder(F, r, Len(lg[r]), sv[r], B, E)
EndsAt(F, n) == IF Len(F) = 0 THEN n = 0 ELSE F[Len(F)] = n

\* What the stream would replay.
StreamOK(st, lg, sv, B) ==
    st.run # None =>
      /\ RunOrder(st.replay, st.run, lg, sv, B, {})
      /\ EndsAt(st.replay, st.lastSeq) /\ st.lastSeq <= Len(lg[st.run])

\* What a client has got and what it will get are one sequence.
ToCome(seat) == (seat.got \o seat.replay) \o seat.queue
SeatOK(seat, lg, sv, B, E) ==
    /\ seat.pc = "out" => seat.run = None
    /\ seat.pc \in {"out", "read"} => seat.got = <<>> /\ seat.replay = <<>> /\ seat.queue = <<>>
                                      /\ seat.closed = FALSE
    /\ seat.pc \in {"read", "in"} => seat.run # None
    /\ seat.pc = "in" => RunOrder(ToCome(seat), seat.run, lg, sv, B, E)
SubscribedOK(seat, r, last, lg, sv, B) ==
    /\ seat.pc = "in" /\ seat.closed = FALSE /\ seat.run = r
    /\ RunOrder(ToCome(seat), seat.run, lg, sv, B, {})
    /\ EndsAt(ToCome(seat), last)
StreamInv == StreamOK(stream, log, saved, broken)
SeatsInv == /\ \A s \in Sub : SeatOK(sub[s], log, saved, broken, Over)
            /\ \A s \in stream.subs : SubscribedOK(sub[s], stream.run, stream.lastSeq, log, saved, broken)

\* The stream of a run of serve has all its events, and so has the stream of a
\* run that is over, if it is not made anew by a late client.
LiveInv ==
    /\ \A r \in MessageRun : phase[r] = "live" /\ r \notin broken =>
         stream.run = r /\ stream.lastSeq = Len(log[r])
    /\ stream.run # None /\ stream.run \notin broken /\ phase[stream.run] \notin {"live", "ended"}
         => stream.lastSeq \in {0, Len(log[stream.run])}

PacketsInv ==
    /\ \A r \in GatewayRun :
         /\ phase[r] = "idle" => packets[r] = <<>> /\ r \notin discard
         /\ \A i \in 1..Len(packets[r]) :
              packets[r][i].kind = "event" => packets[r][i].n \in 1..Len(log[r])
    /\ \A p \in stray : /\ phase[p.run] # "idle"
                        /\ p.kind = "event" => p.n \in 1..Len(log[p.run])

\* The packets of a gateway run: its start, the events that the stream does not
\* have and perhaps the last one it has, and the end.
Queued(q, len) ==
    /\ \A i \in 1..Len(q) : /\ q[i].kind = "start" => i = 1 /\ q[i].n = 0
                            /\ q[i].kind = "finish" => i = Len(q)
    /\ \A i \in 1..(Len(q) - 1) : /\ q[i + 1].kind = "finish" => q[i].n = len
                                  /\ q[i + 1].kind # "finish" => q[i + 1].n = q[i].n + 1
    /\ Len(q) > 0 /\ q[Len(q)].kind # "finish" => q[Len(q)].n = len
HeadKind(q) == IF Len(q) = 0 THEN "none" ELSE q[1].kind

Sent(q, len, has, last, strays) ==
    /\ HeadKind(q) = "start" => /\ has => last = 0
                                /\ \A p \in strays : p.kind = "start"
    /\ HeadKind(q) # "start" =>
         /\ has
         /\ HeadKind(q) = "event" => q[1].n \in {last, last + 1}
         /\ HeadKind(q) # "event" => last = len
         /\ \A p \in strays :
              /\ p.kind = "event" => p.n <= IF HeadKind(q) = "event" THEN q[1].n ELSE last
              /\ p.kind = "finish" => HeadKind(q) = "finish"
Strays(r) == {p \in stray : p.run = r}
BridgeOK(r) ==
    /\ r \notin discard
    /\ Queued(packets[r], Len(log[r]))
    /\ (phase[r] = "ended") = (Len(packets[r]) > 0 /\ packets[r][Len(packets[r])].kind = "finish")
    /\ Sent(packets[r], Len(log[r]), stream.run = r, stream.lastSeq, Strays(r))
BridgeInv ==
    \A r \in GatewayRun : phase[r] \in {"live", "ended"} /\ r \notin broken => BridgeOK(r)

HubInv == /\ RunTypes /\ HubTypes /\ PhasesInv /\ MarksInv
          /\ StreamInv /\ SeatsInv /\ LiveInv
FeedInv == HubInv /\ BridgeTypes /\ PacketsInv /\ BridgeInv
-------------------------------------------------------------------------------
LEMMA RunFacts ==
    /\ MessageRun \cap GatewayRun = {} /\ CompactRun \cap (MessageRun \cup GatewayRun) = {}
    /\ None \notin Run /\ MessageRun \subseteq Run /\ GatewayRun \subseteq Run
    /\ MessageEvents \in Nat /\ GatewayEvents \in Nat /\ MaxLosses \in Nat /\ MaxRestarts \in Nat
    /\ MaxFinished \in Nat /\ MaxFinished > 0
BY EventStreamAssumption DEF Run

\* What a step may do to the events of the runs: add to them, save more of them,
\* interrupt more feeds; no events come after the end.
Grows(lg, sv, B, E, lg2, sv2, B2, E2) ==
    /\ \A r \in Run : /\ Len(lg[r]) <= Len(lg2[r]) /\ sv[r] <= sv2[r]
                      /\ r \in E => r \in E2 /\ Len(lg[r]) = Len(lg2[r])
    /\ B \subseteq B2
FeedGrows == Grows(log, saved, broken, Over, log', saved', broken', Over')

LEMMA OrderGrows ==
  ASSUME NEW F \in Seq(Nat), NEW r, NEW len \in Nat, NEW sv \in Nat, NEW B, NEW E,
         NEW len2 \in Nat, NEW sv2 \in Nat, NEW B2, NEW E2,
         InOrder(F, r, len, sv, B, E), len <= len2, sv <= sv2, B \subseteq B2,
         r \in E => r \in E2 /\ len = len2
  PROVE  InOrder(F, r, len2, sv2, B2, E2)
<1>1. Len(F) \in Nat /\ \A i \in 1..Len(F) : F[i] \in Nat
  OBVIOUS
<1>2. \A i \in 1..(Len(F) - 1) : i \in 1..Len(F) /\ i + 1 \in 1..Len(F)
  BY <1>1
<1>3. \A i \in 1..Len(F) : F[i] \in 0..len2 /\ (F[i] = 0 => i = Len(F) /\ r \in E2)
  BY <1>1 DEF InOrder
<1>4. ASSUME NEW i \in 1..(Len(F) - 1), F[i + 1] = 0 PROVE r \in B2 \/ F[i] = len2
  BY <1>1, <1>2, <1>4 DEF InOrder
<1>5. ASSUME NEW i \in 1..(Len(F) - 1), F[i + 1] # 0
      PROVE  F[i + 1] > F[i] /\ (r \in B2 \/ F[i + 1] = F[i] + 1)
  BY <1>1, <1>2, <1>5 DEF InOrder
<1>6. Len(F) > 0 => r \in B2 \/ F[1] <= sv2 + 1
  BY <1>1 DEF InOrder
<1>. QED
  BY <1>3, <1>4, <1>5, <1>6 DEF InOrder

LEMMA NothingInOrder ==
  ASSUME NEW r, NEW len, NEW sv, NEW B, NEW E
  PROVE  InOrder(<<>>, r, len, sv, B, E) /\ EndsAt(<<>>, 0)
<1>1. Len(<<>>) = 0
  OBVIOUS
<1>. QED
  BY <1>1 DEF InOrder, EndsAt

LEMMA OneInOrder ==
  ASSUME NEW r, NEW len \in Nat, NEW sv \in Nat, NEW B, NEW n \in 1..len,
         r \in B \/ n <= sv + 1
  PROVE  InOrder(<<n>>, r, len, sv, B, {}) /\ EndsAt(<<n>>, n)
<1>1. Len(<<n>>) = 1 /\ <<n>>[1] = n
  OBVIOUS
<1>. QED
  BY <1>1 DEF InOrder, EndsAt

LEMMA OrderAppends ==
  ASSUME NEW F \in Seq(Nat), NEW r, NEW len \in Nat, NEW sv \in Nat, NEW B, NEW m \in Nat,
         NEW n \in 1..len, InOrder(F, r, len, sv, B, {}), EndsAt(F, m),
         n > m, r \in B \/ n = m + 1
  PROVE  InOrder(Append(F, n), r, len, sv, B, {}) /\ EndsAt(Append(F, n), n)
<1>. DEFINE G == Append(F, n)
<1>1. /\ Len(F) \in Nat /\ Len(G) = Len(F) + 1 /\ G[Len(F) + 1] = n
      /\ \A i \in 1..Len(F) : F[i] \in Nat /\ G[i] = F[i]
  OBVIOUS
<1>. HIDE DEF G
<1>2. ASSUME NEW i \in 1..Len(G) PROVE G[i] \in 0..len /\ G[i] # 0
  BY <1>1, SMTT(40) DEF InOrder
<1>3. ASSUME NEW i \in 1..(Len(G) - 1)
      PROVE  G[i + 1] > G[i] /\ (r \in B \/ G[i + 1] = G[i] + 1)
  <2>1. CASE i = Len(F)
    BY <1>1, <1>3, <2>1 DEF EndsAt
  <2>2. CASE i # Len(F)
    <3>1. i \in 1..(Len(F) - 1) /\ i \in 1..Len(F) /\ i + 1 \in 1..Len(F)
      BY <1>1, <1>3, <2>2
    <3>. QED
      BY <1>1, <3>1 DEF InOrder
  <2>. QED
    BY <2>1, <2>2
<1>4. r \in B \/ G[1] <= sv + 1
  <2>1. CASE Len(F) = 0
    BY <1>1, <2>1 DEF EndsAt
  <2>2. CASE Len(F) > 0
    BY <1>1, <2>2 DEF InOrder
  <2>. QED
    BY <1>1, <2>1, <2>2
<1>5. \A i \in 1..(Len(G) - 1) : i + 1 \in 1..Len(G)
  BY <1>1
<1>6. InOrder(G, r, len, sv, B, {})
  BY <1>2, <1>3, <1>4, <1>5 DEF InOrder
<1>7. EndsAt(G, n)
  BY <1>1 DEF EndsAt
<1>. QED
  BY <1>6, <1>7 DEF G

LEMMA OrderEnds ==
  ASSUME NEW F \in Seq(Nat), NEW r, NEW len \in Nat, NEW sv \in Nat, NEW B, NEW m \in Nat, NEW E,
         InOrder(F, r, len, sv, B, {}), EndsAt(F, m), r \in B \/ m \in {0, len}, r \in E
  PROVE  InOrder(Append(F, 0), r, len, sv, B, E)
<1>. DEFINE G == Append(F, 0)
<1>1. /\ Len(F) \in Nat /\ Len(G) = Len(F) + 1 /\ G[Len(F) + 1] = 0
      /\ \A i \in 1..Len(F) : F[i] \in Nat /\ G[i] = F[i]
  OBVIOUS
<1>. HIDE DEF G
<1>2. ASSUME NEW i \in 1..Len(G)
      PROVE  G[i] \in 0..len /\ (G[i] = 0 => i = Len(G) /\ r \in E)
  BY <1>1 DEF InOrder
<1>3. ASSUME NEW i \in 1..(Len(G) - 1)
      PROVE  /\ G[i + 1] = 0 => r \in B \/ G[i] = len
             /\ G[i + 1] # 0 => G[i + 1] > G[i] /\ (r \in B \/ G[i + 1] = G[i] + 1)
  <2>1. CASE i = Len(F)
    <3>1. G[i] = m /\ G[i + 1] = 0 /\ F[i] # 0
      BY <1>1, <1>3, <2>1 DEF EndsAt, InOrder
    <3>. QED
      BY <1>1, <1>3, <2>1, <3>1
  <2>2. CASE i # Len(F)
    <3>1. i \in 1..(Len(F) - 1) /\ i \in 1..Len(F) /\ i + 1 \in 1..Len(F)
      BY <1>1, <1>3, <2>2
    <3>. QED
      BY <1>1, <3>1 DEF InOrder
  <2>. QED
    BY <2>1, <2>2
<1>4. r \in B \/ G[1] <= sv + 1
  <2>1. CASE Len(F) = 0
    BY <1>1, <2>1
  <2>2. CASE Len(F) > 0
    BY <1>1, <2>2 DEF InOrder
  <2>. QED
    BY <1>1, <2>1, <2>2
<1>. QED
  BY <1>2, <1>3, <1>4 DEF InOrder, G

LEMMA OrderPrefix ==
  ASSUME NEW F \in Seq(Nat), NEW G \in Seq(Nat), NEW r, NEW len \in Nat, NEW sv \in Nat,
         NEW B, NEW E, InOrder(F \o G, r, len, sv, B, E)
  PROVE  InOrder(F, r, len, sv, B, E)
<1>. DEFINE H == F \o G
<1>1. /\ Len(F) \in Nat /\ Len(G) \in Nat /\ Len(H) = Len(F) + Len(G)
      /\ \A i \in 1..Len(F) : F[i] = H[i] /\ i \in 1..Len(H)
  OBVIOUS
<1>. HIDE DEF H
<1>2. InOrder(H, r, len, sv, B, E)
  BY DEF H
<1>3. ASSUME NEW i \in 1..Len(F)
      PROVE  F[i] \in 0..len /\ (F[i] = 0 => i = Len(F) /\ r \in E)
  BY <1>1, <1>2 DEF InOrder
<1>4. ASSUME NEW i \in 1..(Len(F) - 1)
      PROVE  /\ F[i + 1] = 0 => r \in B \/ F[i] = len
             /\ F[i + 1] # 0 => F[i + 1] > F[i] /\ (r \in B \/ F[i + 1] = F[i] + 1)
  <2>1. i \in 1..(Len(H) - 1) /\ i \in 1..Len(F) /\ i + 1 \in 1..Len(F)
    BY <1>1
  <2>. QED
    BY <1>1, <1>2, <2>1 DEF InOrder
<1>5. Len(F) > 0 => r \in B \/ F[1] <= sv + 1
  BY <1>1, <1>2 DEF InOrder
<1>. QED
  BY <1>3, <1>4, <1>5 DEF InOrder

\* Moving the next event from what is to come to what was got changes nothing.
LEMMA ReplayGoesOn ==
  ASSUME NEW a \in Seq(Nat), NEW b \in Seq(Nat), NEW c \in Seq(Nat), b # <<>>
  PROVE  (Append(a, Head(b)) \o Tail(b)) \o c = (a \o b) \o c
<1>1. /\ Head(b) \in Nat /\ Tail(b) \in Seq(Nat) /\ Len(Tail(b)) = Len(b) - 1 /\ Head(b) = b[1]
      /\ \A i \in 1..(Len(b) - 1) : Tail(b)[i] = b[i + 1]
      /\ Len(b) \in Nat /\ Len(b) > 0 /\ Len(a) \in Nat
  OBVIOUS
<1>. DEFINE x == Append(a, Head(b)) \o Tail(b)
<1>2. x \in Seq(Nat) /\ Len(x) = Len(a) + Len(b) /\ a \o b \in Seq(Nat) /\ Len(a \o b) = Len(a) + Len(b)
  BY <1>1
<1>3. ASSUME NEW i \in 1..(Len(a) + Len(b)) PROVE x[i] = (a \o b)[i]
  <2>1. CASE i <= Len(a)
    BY <1>1, <2>1
  <2>2. CASE i = Len(a) + 1
    BY <1>1, <2>2
  <2>3. CASE i > Len(a) + 1
    <3>1. i - (Len(a) + 1) \in 1..(Len(b) - 1) /\ (i - (Len(a) + 1)) + 1 = i - Len(a)
      BY <1>1, <2>3
    <3>2. Append(a, Head(b)) \in Seq(Nat) /\ Len(Append(a, Head(b))) = Len(a) + 1
      BY <1>1
    <3>3. x[i] = Tail(b)[i - (Len(a) + 1)]
      BY <1>1, <2>3, <3>2, ConcatProperties
    <3>. QED
      BY <1>1, <2>3, <3>1, <3>3, SMTT(40)
  <2>4. i <= Len(a) \/ i = Len(a) + 1 \/ i > Len(a) + 1
    BY <1>1, SMTT(40)
  <2>. QED
    BY <2>1, <2>2, <2>3, <2>4, Zenon
<1>4. x = a \o b
  BY <1>1, <1>2, <1>3, SeqEqual
<1>. QED
  BY <1>4

LEMMA QueueGoesOn ==
  ASSUME NEW a \in Seq(Nat), NEW c \in Seq(Nat), c # <<>>
  PROVE  (Append(a, Head(c)) \o <<>>) \o Tail(c) = (a \o <<>>) \o c
<1>1. Append(a, Head(c)) \in Seq(Nat) /\ Tail(c) \in Seq(Nat) /\ <<>> \in Seq(Nat)
  OBVIOUS
<1>2. Append(a, Head(c)) \o <<>> = Append(a, Head(c)) /\ a \o <<>> = a
  BY <1>1
<1>3. (Append(a, Head(c)) \o Tail(c)) \o <<>> = (a \o c) \o <<>>
  BY <1>1, ReplayGoesOn
<1>4. Append(a, Head(c)) \o Tail(c) \in Seq(Nat) /\ a \o c \in Seq(Nat)
  BY <1>1
<1>. QED
  BY <1>2, <1>3, <1>4, ConcatEmptySeq

LEMMA QueueGrows ==
  ASSUME NEW b \in Seq(Nat), NEW c \in Seq(Nat), NEW n \in Nat
  PROVE  b \o Append(c, n) = Append(b \o c, n)
<1>1. /\ b \o Append(c, n) \in Seq(Nat) /\ Append(b \o c, n) \in Seq(Nat)
      /\ Len(b \o Append(c, n)) = Len(b) + Len(c) + 1 /\ Len(Append(b \o c, n)) = Len(b) + Len(c) + 1
      /\ Len(b) \in Nat /\ Len(c) \in Nat
  OBVIOUS
<1>2. ASSUME NEW i \in 1..(Len(b) + Len(c) + 1)
      PROVE  (b \o Append(c, n))[i] = Append(b \o c, n)[i]
  <2>1. CASE i <= Len(b)
    BY <1>1, <2>1
  <2>2. CASE i > Len(b) /\ i <= Len(b) + Len(c)
    BY <1>1, <2>2
  <2>3. CASE i = Len(b) + Len(c) + 1
    BY <1>1, <2>3
  <2>. QED
    BY <1>1, <2>1, <2>2, <2>3
<1>. QED
  BY <1>1, <1>2, SeqEqual

LEMMA RunOrderGrows ==
  ASSUME NEW lg \in [Run -> Seq(Kinds)], NEW sv \in [Run -> Nat], NEW B, NEW E,
         NEW lg2 \in [Run -> Seq(Kinds)], NEW sv2 \in [Run -> Nat], NEW B2, NEW E2,
         Grows(lg, sv, B, E, lg2, sv2, B2, E2), NEW r \in Run, NEW F \in Seq(Nat)
  PROVE  /\ RunOrder(F, r, lg, sv, B, E) => RunOrder(F, r, lg2, sv2, B2, E2)
         /\ RunOrder(F, r, lg, sv, B, {}) => RunOrder(F, r, lg2, sv2, B2, E2)
         /\ RunOrder(F, r, lg, sv, B, {}) => RunOrder(F, r, lg2, sv2, B2, {})
<1>1. /\ Len(lg[r]) \in Nat /\ Len(lg2[r]) \in Nat /\ sv[r] \in Nat /\ sv2[r] \in Nat
      /\ Len(lg[r]) <= Len(lg2[r]) /\ sv[r] <= sv2[r] /\ B \subseteq B2
      /\ r \in E => r \in E2 /\ Len(lg[r]) = Len(lg2[r])
  BY DEF Grows
<1>2. RunOrder(F, r, lg, sv, B, E) => RunOrder(F, r, lg2, sv2, B2, E2)
  BY <1>1, OrderGrows DEF RunOrder
<1>3. r \notin {}
  OBVIOUS
<1>4. /\ RunOrder(F, r, lg, sv, B, {}) => RunOrder(F, r, lg2, sv2, B2, E2)
      /\ RunOrder(F, r, lg, sv, B, {}) => RunOrder(F, r, lg2, sv2, B2, {})
  BY <1>1, <1>3, OrderGrows DEF RunOrder
<1>. QED
  BY <1>2, <1>4

LEMMA ToComeType ==
  ASSUME NEW seat \in SeatSet
  PROVE  /\ ToCome(seat) \in Seq(Nat) /\ seat.got \o seat.replay \in Seq(Nat)
         /\ seat.run \in Run \cup {None}
<1>1. seat.got \in Seq(Nat) /\ seat.replay \in Seq(Nat) /\ seat.queue \in Seq(Nat)
  BY DEF SeatSet
<1>2. seat.got \o seat.replay \in Seq(Nat)
  BY <1>1
<1>3. (seat.got \o seat.replay) \o seat.queue \in Seq(Nat)
  BY <1>1, <1>2
<1>. QED
  BY <1>2, <1>3 DEF ToCome, SeatSet

LEMMA SeatGrows ==
  ASSUME NEW lg \in [Run -> Seq(Kinds)], NEW sv \in [Run -> Nat], NEW B, NEW E,
         NEW lg2 \in [Run -> Seq(Kinds)], NEW sv2 \in [Run -> Nat], NEW B2, NEW E2,
         Grows(lg, sv, B, E, lg2, sv2, B2, E2)
  PROVE  /\ \A seat \in SeatSet : SeatOK(seat, lg, sv, B, E) => SeatOK(seat, lg2, sv2, B2, E2)
         /\ \A seat \in SeatSet, r \in Run, last \in Nat :
              SubscribedOK(seat, r, last, lg, sv, B) => SubscribedOK(seat, r, last, lg2, sv2, B2)
         /\ \A st \in StreamSet : StreamOK(st, lg, sv, B) => StreamOK(st, lg2, sv2, B2)
<1>1. ASSUME NEW seat \in SeatSet, SeatOK(seat, lg, sv, B, E)
      PROVE  SeatOK(seat, lg2, sv2, B2, E2)
  <2>1. ToCome(seat) \in Seq(Nat) /\ seat.run \in Run \cup {None}
    BY ToComeType
  <2>2. seat.pc = "in" => RunOrder(ToCome(seat), seat.run, lg2, sv2, B2, E2)
    BY <1>1, <2>1, RunOrderGrows, ZenonT(60) DEF SeatOK
  <2>. QED
    BY <1>1, <2>2 DEF SeatOK
<1>2. ASSUME NEW seat \in SeatSet, NEW r \in Run, NEW last \in Nat,
             SubscribedOK(seat, r, last, lg, sv, B)
      PROVE  SubscribedOK(seat, r, last, lg2, sv2, B2)
  <2>1. ToCome(seat) \in Seq(Nat) /\ seat.run \in Run
    BY <1>2, ToComeType DEF SubscribedOK
  <2>2. RunOrder(ToCome(seat), seat.run, lg2, sv2, B2, {})
    BY <1>2, <2>1, RunOrderGrows DEF SubscribedOK
  <2>. QED
    BY <1>2, <2>2 DEF SubscribedOK
<1>3. ASSUME NEW st \in StreamSet, StreamOK(st, lg, sv, B), st.run # None
      PROVE  StreamOK(st, lg2, sv2, B2)
  <2>1. st.run \in Run /\ st.replay \in Seq(Nat) /\ st.lastSeq \in Nat
    BY <1>3 DEF StreamSet
  <2>2. RunOrder(st.replay, st.run, lg2, sv2, B2, {})
    BY <1>3, <2>1, RunOrderGrows DEF StreamOK
  <2>3. /\ Len(lg[st.run]) <= Len(lg2[st.run]) /\ st.lastSeq <= Len(lg[st.run])
        /\ Len(lg[st.run]) \in Nat /\ Len(lg2[st.run]) \in Nat
    BY <1>3, <2>1 DEF StreamOK, Grows
  <2>. QED
    BY <1>3, <2>1, <2>2, <2>3 DEF StreamOK
<1>. QED
  BY <1>1, <1>2, <1>3 DEF StreamOK

\* The queue of a seat is dropped, gets an event, or gets the end.
LEMMA SeatClosed ==
  ASSUME NEW lg \in [Run -> Seq(Kinds)], NEW sv \in [Run -> Nat], NEW B, NEW E,
         NEW seat \in SeatSet, SeatOK(seat, lg, sv, B, E), seat.pc = "in"
  PROVE  LET e == [seat EXCEPT !.queue = <<>>, !.closed = TRUE]
         IN  e \in SeatSet /\ e.run = seat.run /\ e.got = seat.got /\ SeatOK(e, lg, sv, B, E)
<1>. DEFINE e == [seat EXCEPT !.queue = <<>>, !.closed = TRUE]
            F == seat.got \o seat.replay
<1>1. /\ e \in SeatSet /\ e.run = seat.run /\ e.got = seat.got /\ e.pc = "in"
      /\ e.replay = seat.replay /\ e.queue = <<>>
  <2>1. <<>> \in Seq(Nat) /\ TRUE \in BOOLEAN
    OBVIOUS
  <2>. QED
    BY <2>1 DEF SeatSet
<1>2. F \in Seq(Nat) /\ seat.run \in Run /\ seat.queue \in Seq(Nat)
  BY ToComeType DEF SeatOK, SeatSet
<1>3. ToCome(e) = F
  <2>1. ToCome(e) = F \o <<>>
    BY <1>1 DEF ToCome
  <2>. QED
    BY <1>2, <2>1, ConcatEmptySeq
<1>4. RunOrder(F \o seat.queue, seat.run, lg, sv, B, E)
  BY DEF SeatOK, ToCome
<1>. HIDE DEF F, e
<1>5. Len(lg[seat.run]) \in Nat /\ sv[seat.run] \in Nat
  BY <1>2
<1>6. RunOrder(F, seat.run, lg, sv, B, E)
  BY <1>2, <1>4, <1>5, OrderPrefix DEF RunOrder
<1>7. SeatOK(e, lg, sv, B, E)
  BY <1>1, <1>3, <1>6, <1>2, RunFacts DEF SeatOK
<1>. QED
  BY <1>1, <1>7 DEF e

LEMMA SeatGets ==
  ASSUME NEW lg \in [Run -> Seq(Kinds)], NEW sv \in [Run -> Nat], NEW B, NEW E,
         NEW seat \in SeatSet, NEW r \in Run, NEW last \in Nat, NEW n \in Nat,
         SubscribedOK(seat, r, last, lg, sv, B), n > last, n <= Len(lg[r]),
         r \in B \/ n = last + 1
  PROVE  LET e == [seat EXCEPT !.queue = Append(@, n)]
         IN  /\ e \in SeatSet /\ e.run = seat.run /\ e.got = seat.got
             /\ SeatOK(e, lg, sv, B, E) /\ SubscribedOK(e, r, n, lg, sv, B)
<1>. DEFINE e == [seat EXCEPT !.queue = Append(@, n)]
            F == ToCome(seat)
<1>1. seat.queue \in Seq(Nat) /\ Append(seat.queue, n) \in Seq(Nat)
  BY DEF SeatSet
<1>2. /\ e \in SeatSet /\ e.run = seat.run /\ e.got = seat.got /\ e.pc = seat.pc
      /\ e.replay = seat.replay /\ e.queue = Append(seat.queue, n) /\ e.closed = seat.closed
  BY <1>1 DEF SeatSet
<1>3. F \in Seq(Nat) /\ seat.run = r
  BY ToComeType DEF SubscribedOK
<1>4. ToCome(e) = Append(F, n)
  <2>1. seat.got \o seat.replay \in Seq(Nat)
    BY ToComeType
  <2>2. (seat.got \o seat.replay) \o Append(seat.queue, n)
          = Append((seat.got \o seat.replay) \o seat.queue, n)
    BY <1>1, <2>1, QueueGrows
  <2>. QED
    BY <1>2, <2>2 DEF ToCome
<1>5. /\ Len(lg[r]) \in Nat /\ sv[r] \in Nat
      /\ InOrder(F, r, Len(lg[r]), sv[r], B, {}) /\ EndsAt(F, last)
      /\ seat.pc = "in" /\ seat.closed = FALSE
  BY <1>3 DEF SubscribedOK, RunOrder
<1>6. n \in 1..Len(lg[r]) /\ n > last /\ (r \in B \/ n = last + 1)
  BY <1>3, <1>5
<1>. HIDE DEF F, e
<1>7. InOrder(Append(F, n), r, Len(lg[r]), sv[r], B, {}) /\ EndsAt(Append(F, n), n)
  BY <1>3, <1>5, <1>6, OrderAppends
<1>8. SubscribedOK(e, r, n, lg, sv, B)
  BY <1>2, <1>3, <1>4, <1>5, <1>7 DEF SubscribedOK, RunOrder
<1>9. InOrder(Append(F, n), r, Len(lg[r]), sv[r], B, E)
  BY <1>5, <1>7 DEF InOrder
<1>10. SeatOK(e, lg, sv, B, E)
  BY <1>2, <1>3, <1>4, <1>5, <1>9, RunFacts DEF SeatOK, RunOrder
<1>. QED
  BY <1>2, <1>8, <1>10 DEF e

LEMMA SeatEnds ==
  ASSUME NEW lg \in [Run -> Seq(Kinds)], NEW sv \in [Run -> Nat], NEW B, NEW E,
         NEW seat \in SeatSet, NEW r \in Run, NEW last \in Nat,
         SubscribedOK(seat, r, last, lg, sv, B), r \in E,
         r \in B \/ last \in {0, Len(lg[r])}
  PROVE  LET e == [seat EXCEPT !.queue = Append(@, 0), !.closed = TRUE]
         IN  e \in SeatSet /\ e.run = seat.run /\ e.got = seat.got /\ SeatOK(e, lg, sv, B, E)
<1>. DEFINE e == [seat EXCEPT !.queue = Append(@, 0), !.closed = TRUE]
            F == ToCome(seat)
<1>1. seat.queue \in Seq(Nat) /\ Append(seat.queue, 0) \in Seq(Nat) /\ TRUE \in BOOLEAN
  BY DEF SeatSet
<1>2. /\ e \in SeatSet /\ e.run = seat.run /\ e.got = seat.got /\ e.pc = seat.pc
      /\ e.replay = seat.replay /\ e.queue = Append(seat.queue, 0)
  BY <1>1 DEF SeatSet
<1>3. F \in Seq(Nat) /\ seat.run = r
  BY ToComeType DEF SubscribedOK
<1>4. ToCome(e) = Append(F, 0)
  <2>1. seat.got \o seat.replay \in Seq(Nat) /\ 0 \in Nat
    BY ToComeType
  <2>2. (seat.got \o seat.replay) \o Append(seat.queue, 0)
          = Append((seat.got \o seat.replay) \o seat.queue, 0)
    BY <1>1, <2>1, QueueGrows
  <2>. QED
    BY <1>2, <2>2 DEF ToCome
<1>5. /\ Len(lg[r]) \in Nat /\ sv[r] \in Nat
      /\ InOrder(F, r, Len(lg[r]), sv[r], B, {}) /\ EndsAt(F, last)
      /\ seat.pc = "in"
  BY <1>3 DEF SubscribedOK, RunOrder
<1>6. r \in E /\ (r \in B \/ last \in {0, Len(lg[r])})
  OBVIOUS
<1>. HIDE DEF F, e
<1>7. InOrder(Append(F, 0), r, Len(lg[r]), sv[r], B, E)
  BY <1>3, <1>5, <1>6, OrderEnds
<1>8. SeatOK(e, lg, sv, B, E)
  BY <1>2, <1>3, <1>4, <1>5, <1>7, RunFacts DEF SeatOK, RunOrder
<1>. QED
  BY <1>2, <1>8 DEF e

Settled == HubTypes /\ StreamInv /\ SeatsInv
Ready == RunTypes /\ Settled /\ RunTypes' /\ FeedGrows
SameSeats == \A s \in Sub : sub'[s].run = sub[s].run /\ sub'[s].got = sub[s].got

LEMMA ReadyFacts ==
  ASSUME Ready
  PROVE  /\ stream \in StreamSet /\ stream.run \in Run \cup {None} /\ stream.subs \subseteq Sub
         /\ \A s \in Sub : sub[s] \in SeatSet
         /\ \A s \in Sub : SeatOK(sub[s], log', saved', broken', Over')
         /\ \A s \in stream.subs : /\ stream.run # None /\ sub[s].pc = "in"
                                   /\ SubscribedOK(sub[s], stream.run, stream.lastSeq, log', saved', broken')
         /\ StreamOK(stream, log', saved', broken')
<1>1. /\ log \in [Run -> Seq(Kinds)] /\ saved \in [Run -> Nat]
      /\ log' \in [Run -> Seq(Kinds)] /\ saved' \in [Run -> Nat]
      /\ stream \in StreamSet /\ \A s \in Sub : sub[s] \in SeatSet
  BY DEF Ready, Settled, RunTypes, HubTypes
<1>2. stream.run \in Run \cup {None} /\ stream.subs \subseteq Sub /\ stream.lastSeq \in Nat
  BY <1>1 DEF StreamSet
<1>3. /\ \A seat \in SeatSet : SeatOK(seat, log, saved, broken, Over)
                                 => SeatOK(seat, log', saved', broken', Over')
      /\ \A seat \in SeatSet, r \in Run, last \in Nat :
           SubscribedOK(seat, r, last, log, saved, broken)
             => SubscribedOK(seat, r, last, log', saved', broken')
      /\ \A st \in StreamSet : StreamOK(st, log, saved, broken)
                                 => StreamOK(st, log', saved', broken')
  <2>1. Grows(log, saved, broken, Over, log', saved', broken', Over')
    BY DEF Ready, FeedGrows
  <2>. HIDE DEF Over
  <2>. QED
    BY <1>1, <2>1, SeatGrows
<1>4. ASSUME NEW s \in stream.subs
      PROVE  stream.run # None /\ sub[s].pc = "in" /\ s \in Sub
             /\ SubscribedOK(sub[s], stream.run, stream.lastSeq, log, saved, broken)
  <2>1. s \in Sub /\ SubscribedOK(sub[s], stream.run, stream.lastSeq, log, saved, broken)
        /\ SeatOK(sub[s], log, saved, broken, Over)
    BY <1>2 DEF Ready, Settled, SeatsInv
  <2>. QED
    BY <2>1 DEF SubscribedOK, SeatOK
<1>5. /\ \A s \in Sub : SeatOK(sub[s], log, saved, broken, Over)
      /\ StreamOK(stream, log, saved, broken)
  BY DEF Ready, Settled, SeatsInv, StreamInv
<1>. QED
  BY <1>1, <1>2, <1>3, <1>4, <1>5

LEMMA HubQuiet ==
  ASSUME Ready, stream' = stream, sub' = sub, finished' = finished, broken' \subseteq Run
  PROVE  Settled' /\ SameSeats
<1>1. HubTypes'
  BY DEF Ready, Settled, HubTypes
<1>2. StreamInv'
  BY ReadyFacts DEF StreamInv
<1>3. SeatsInv'
  BY ReadyFacts DEF SeatsInv
<1>. QED
  BY <1>1, <1>2, <1>3 DEF Settled, SameSeats

LEMMA HubPublished ==
  ASSUME Ready, NEW n \in Nat, n > 0, NEW kind, HubPublish(n, kind), stream.run # None,
         n <= Len(log'[stream.run]), n > stream.lastSeq,
         stream.run \in broken \/ n = stream.lastSeq + 1,
         kind = "status" => n <= saved'[stream.run] + 1
  PROVE  /\ Settled' /\ SameSeats /\ stream'.run = stream.run /\ stream'.lastSeq = n
         /\ finished' = finished /\ broken' = broken
<1>. DEFINE r == stream.run
            st == AppendReplay(stream, n, kind)
            len == Len(log'[r])
            sv == saved'[r]
<1>1. /\ finished' = finished /\ broken' = broken /\ stream' = [st EXCEPT !.lastSeq = n]
      /\ sub' = [s \in Sub |-> IF s \in stream.subs /\ ~sub[s].closed
                               THEN [sub[s] EXCEPT !.queue = Append(@, n)] ELSE sub[s]]
  BY DEF HubPublish, Enqueued
<1>2. /\ stream \in StreamSet /\ r \in Run /\ stream.replay \in Seq(Nat) /\ stream.lastSeq \in Nat
      /\ len \in Nat /\ sv \in Nat /\ n \in 1..len
      /\ log' \in [Run -> Seq(Kinds)] /\ saved' \in [Run -> Nat]
  <2>1. stream \in StreamSet /\ r \in Run
    BY ReadyFacts
  <2>2. log' \in [Run -> Seq(Kinds)] /\ saved' \in [Run -> Nat]
    BY DEF Ready, RunTypes
  <2>3. len \in Nat /\ sv \in Nat
    BY <2>1, <2>2
  <2>4. stream.replay \in Seq(Nat) /\ stream.lastSeq \in Nat
    BY <2>1 DEF StreamSet
  <2>. QED
    BY <2>1, <2>2, <2>3, <2>4
<1>3. /\ InOrder(stream.replay, r, len, sv, broken', {}) /\ EndsAt(stream.replay, stream.lastSeq)
      /\ stream.lastSeq <= len
  BY <1>2, ReadyFacts DEF StreamOK, RunOrder
<1>4. /\ (st.replay = <<n>> /\ kind = "status") \/ st.replay = Append(stream.replay, n)
      /\ st \in StreamSet /\ st.run = r /\ st.subs = stream.subs
  <2>1. n # Done
    BY DEF Done
  <2>2. CASE kind = "status" /\ stream.stepDone
    <3>1. st = [stream EXCEPT !.replay = <<n>>, !.stepDone = FALSE]
      BY <2>1, <2>2 DEF AppendReplay
    <3>2. <<n>> \in Seq(Nat) /\ FALSE \in BOOLEAN
      OBVIOUS
    <3>. QED
      BY <1>2, <2>2, <3>1, <3>2 DEF StreamSet
  <2>3. CASE ~(kind = "status" /\ stream.stepDone)
    <3>1. st = [stream EXCEPT !.replay = Append(@, n), !.stepDone = @ \/ kind = "step"]
      BY <2>1, <2>3 DEF AppendReplay
    <3>2. Append(stream.replay, n) \in Seq(Nat) /\ (stream.stepDone \/ kind = "step") \in BOOLEAN
      BY <1>2
    <3>. DEFINE b == (stream.stepDone \/ kind = "step")
    <3>3. st = [stream EXCEPT !.replay = Append(stream.replay, n), !.stepDone = b]
      BY <3>1
    <3>4. b \in BOOLEAN
      BY <3>2
    <3>. HIDE DEF b
    <3>. QED
      BY <1>2, <3>2, <3>3, <3>4 DEF StreamSet
  <2>. QED
    BY <2>2, <2>3
<1>. HIDE DEF st
<1>5. /\ stream' \in StreamSet /\ stream'.run = r /\ stream'.lastSeq = n
      /\ stream'.replay = st.replay /\ stream'.subs = stream.subs
  BY <1>1, <1>4 DEF StreamSet
<1>6. InOrder(st.replay, r, len, sv, broken', {}) /\ EndsAt(st.replay, n)
  <2>1. CASE st.replay = <<n>> /\ kind = "status"
    <3>1. n <= sv + 1
      BY <2>1
    <3>. HIDE DEF r, len, sv
    <3>. QED
      BY <1>2, <2>1, <3>1, OneInOrder
  <2>2. CASE st.replay = Append(stream.replay, n)
    <3>1. r \in broken' \/ n = stream.lastSeq + 1
      BY <1>1
    <3>2. n > stream.lastSeq
      OBVIOUS
    <3>. HIDE DEF r, len, sv
    <3>3. InOrder(Append(stream.replay, n), r, len, sv, broken', {})
          /\ EndsAt(Append(stream.replay, n), n)
      <4>1. stream.replay \in Seq(Nat) /\ len \in Nat /\ sv \in Nat /\ stream.lastSeq \in Nat
        BY <1>2
      <4>2. n \in 1..len /\ n > stream.lastSeq /\ (r \in broken' \/ n = stream.lastSeq + 1)
        BY <1>2, <3>1, <3>2
      <4>3. InOrder(stream.replay, r, len, sv, broken', {}) /\ EndsAt(stream.replay, stream.lastSeq)
        BY <1>3
      <4>. QED
        BY <4>1, <4>2, <4>3, OrderAppends
    <3>. QED
      BY <2>2, <3>3
  <2>. QED
    BY <1>4, <2>1, <2>2
<1>7. StreamInv'
  BY <1>2, <1>5, <1>6 DEF StreamInv, StreamOK, RunOrder
<1>8. ASSUME NEW s \in Sub
      PROVE  /\ sub'[s] \in SeatSet /\ sub'[s].run = sub[s].run /\ sub'[s].got = sub[s].got
             /\ SeatOK(sub'[s], log', saved', broken', Over')
             /\ s \in stream.subs =>
                  SubscribedOK(sub'[s], stream'.run, stream'.lastSeq, log', saved', broken')
  <2>1. CASE s \notin stream.subs
    BY <1>1, <2>1, ReadyFacts
  <2>2. CASE s \in stream.subs
    <3>1. SubscribedOK(sub[s], stream.run, stream.lastSeq, log', saved', broken') /\ sub[s] \in SeatSet
      BY <2>2, ReadyFacts
    <3>2. sub'[s] = [sub[s] EXCEPT !.queue = Append(@, n)]
      BY <1>1, <2>2, <3>1 DEF SubscribedOK
    <3>3. /\ n > 0 /\ n <= Len(log'[stream.run]) /\ n > stream.lastSeq /\ ~(n = 0)
          /\ stream'.run = stream.run /\ stream'.lastSeq = n
          /\ (stream.run \in broken' \/ n = stream.lastSeq + 1)
      BY <1>1, <1>5
    <3>4. LET e == [sub[s] EXCEPT !.queue = Append(@, n)]
          IN  /\ e \in SeatSet /\ e.run = sub[s].run /\ e.got = sub[s].got
              /\ SeatOK(e, log', saved', broken', Over')
              /\ SubscribedOK(e, stream'.run, stream'.lastSeq, log', saved', broken')
      <4>1. /\ log' \in [Run -> Seq(Kinds)] /\ saved' \in [Run -> Nat]
            /\ stream.run \in Run /\ stream.lastSeq \in Nat
            /\ sub[s] \in SeatSet
            /\ SubscribedOK(sub[s], stream.run, stream.lastSeq, log', saved', broken')
        BY <1>2, <3>1
      <4>2. /\ n > stream.lastSeq /\ n <= Len(log'[stream.run])
            /\ (stream.run \in broken' \/ n = stream.lastSeq + 1)
        BY <3>3
      <4>3. LET e == [sub[s] EXCEPT !.queue = Append(@, n)]
            IN  /\ e \in SeatSet /\ e.run = sub[s].run /\ e.got = sub[s].got
                /\ SeatOK(e, log', saved', broken', Over')
                /\ SubscribedOK(e, stream.run, n, log', saved', broken')
        BY <4>1, <4>2, SeatGets
      <4>. QED
        BY <3>3, <4>3
    <3>. QED
      BY <3>2, <3>4
  <2>. QED
    BY <2>1, <2>2
<1>9. sub' \in [Sub -> SeatSet]
  BY <1>1, <1>8
<1>10. HubTypes'
  BY <1>1, <1>5, <1>9 DEF Ready, Settled, HubTypes
<1>11. SeatsInv'
  BY <1>5, <1>8, ReadyFacts DEF SeatsInv
<1>. QED
  BY <1>1, <1>5, <1>7, <1>8, <1>10, <1>11 DEF Settled, SameSeats

\* A stream is replaced: its clients are closed.
LEMMA Closes ==
  ASSUME Ready, NEW s \in Sub
  PROVE  LET e == IF s \in stream.subs THEN Closed(s) ELSE sub[s]
         IN  /\ e \in SeatSet /\ e.run = sub[s].run /\ e.got = sub[s].got
             /\ SeatOK(e, log', saved', broken', Over')
<1>1. sub[s] \in SeatSet /\ SeatOK(sub[s], log', saved', broken', Over')
  BY ReadyFacts
<1>2. CASE s \in stream.subs
  <2>1. log' \in [Run -> Seq(Kinds)] /\ saved' \in [Run -> Nat] /\ sub[s].pc = "in"
    BY <1>2, ReadyFacts DEF Ready, RunTypes
  <2>. DEFINE e == [sub[s] EXCEPT !.queue = <<>>, !.closed = TRUE]
  <2>2. /\ e \in SeatSet /\ e.run = sub[s].run /\ e.got = sub[s].got
        /\ SeatOK(e, log', saved', broken', Over')
    BY <1>1, <2>1, SeatClosed
  <2>. QED
    BY <1>2, <2>2 DEF Closed
<1>. QED
  BY <1>1, <1>2

LEMMA NewStreamFacts ==
  ASSUME NEW r \in Run
  PROVE  /\ NewStream(r) \in StreamSet /\ NewStream(r).run = r /\ NewStream(r).replay = <<>>
         /\ NewStream(r).lastSeq = 0 /\ NewStream(r).subs = {}
         /\ NoStream \in StreamSet /\ NoStream.run = None /\ NoStream.subs = {}
<1>1. <<>> \in Seq(Nat) /\ FALSE \in BOOLEAN /\ {} \in SUBSET Sub /\ 0 \in Nat
  OBVIOUS
<1>2. NoStream \in StreamSet /\ NoStream.run = None /\ NoStream.subs = {}
  BY <1>1 DEF NoStream, StreamSet
<1>. QED
  BY <1>1, <1>2 DEF NewStream, NoStream, StreamSet

\* A stream without events is sound.
LEMMA NewStreamOK ==
  ASSUME NEW lg \in [Run -> Seq(Kinds)], NEW sv, NEW B, NEW st, st.run \in Run,
         st.replay = <<>>, st.lastSeq = 0
  PROVE  StreamOK(st, lg, sv, B)
<1>1. Len(lg[st.run]) \in Nat
  OBVIOUS
<1>. QED
  BY <1>1, NothingInOrder DEF StreamOK, RunOrder

LEMMA HubStarted ==
  ASSUME Ready, NEW r \in Run, HubStart(r)
  PROVE  /\ Settled' /\ SameSeats /\ stream'.run = r
         /\ stream'.lastSeq = IF stream.run = r THEN stream.lastSeq ELSE 0
         /\ finished' = finished /\ broken' = broken
<1>1. finished' = finished /\ broken' = broken
  BY DEF HubStart
<1>2. stream \in StreamSet /\ broken' \subseteq Run /\ log' \in [Run -> Seq(Kinds)]
  BY <1>1, ReadyFacts DEF Ready, Settled, HubTypes, RunTypes
<1>3. CASE stream.run = r
  <2>1. stream' = [stream EXCEPT !.started = TRUE] /\ sub' = sub
    BY <1>3 DEF HubStart
  <2>2. /\ stream' \in StreamSet /\ stream'.run = r /\ stream'.replay = stream.replay
        /\ stream'.lastSeq = stream.lastSeq /\ stream'.subs = stream.subs
    <3>1. TRUE \in BOOLEAN
      OBVIOUS
    <3>. QED
      BY <1>2, <1>3, <2>1, <3>1 DEF StreamSet
  <2>3. HubTypes'
    BY <1>1, <2>1, <2>2 DEF Ready, Settled, HubTypes
  <2>4. StreamInv'
    BY <1>3, <2>2, ReadyFacts DEF StreamInv, StreamOK
  <2>5. SeatsInv'
    BY <1>3, <2>1, <2>2, ReadyFacts DEF SeatsInv, SubscribedOK
  <2>. QED
    BY <1>1, <1>3, <2>1, <2>2, <2>3, <2>4, <2>5 DEF Settled, SameSeats
<1>4. CASE stream.run # r
  <2>1. /\ stream' = [NewStream(r) EXCEPT !.started = TRUE]
        /\ sub' = [s \in Sub |-> IF s \in stream.subs THEN Closed(s) ELSE sub[s]]
    BY <1>4 DEF HubStart, Replace
  <2>2. /\ stream' \in StreamSet /\ stream'.run = r /\ stream'.replay = <<>>
        /\ stream'.lastSeq = 0 /\ stream'.subs = {}
    <3>1. TRUE \in BOOLEAN
      OBVIOUS
    <3>. QED
      BY <2>1, <3>1, NewStreamFacts, ZenonT(60) DEF StreamSet
  <2>3. \A s \in Sub : /\ sub'[s] \in SeatSet /\ sub'[s].run = sub[s].run /\ sub'[s].got = sub[s].got
                       /\ SeatOK(sub'[s], log', saved', broken', Over')
    BY <2>1, Closes
  <2>4. HubTypes'
    <3>1. sub' \in [Sub -> SeatSet]
      BY <2>1, <2>3
    <3>. QED
      BY <1>1, <2>2, <3>1 DEF Ready, Settled, HubTypes
  <2>5. StreamInv'
    BY <1>2, <2>2, NewStreamOK DEF StreamInv
  <2>6. SeatsInv'
    BY <2>2, <2>3 DEF SeatsInv
  <2>. QED
    BY <1>1, <1>4, <2>2, <2>3, <2>4, <2>5, <2>6 DEF Settled, SameSeats
<1>. QED
  BY <1>3, <1>4

LEMMA HubFinished ==
  ASSUME Ready, NEW r \in Run, HubFinish(r), r \in Over',
         stream.run = r => r \in broken \/ stream.lastSeq \in {0, Len(log'[r])}
  PROVE  /\ Settled' /\ SameSeats /\ finished' \subseteq finished \cup {r} /\ broken' = broken
         /\ IF stream.run = r THEN stream'.run = None ELSE stream' = stream
<1>1. CASE stream.run # r
  <2>1. UNCHANGED <<stream, finished, sub, broken>>
    BY <1>1 DEF HubFinish, hubVars
  <2>2. broken' \subseteq Run
    BY <2>1, SMTT(40) DEF Ready, Settled, HubTypes
  <2>. QED
    BY <1>1, <2>1, <2>2, HubQuiet
<1>2. CASE stream.run = r
  <2>1. /\ sub' = [s \in Sub |-> IF s \in stream.subs /\ ~sub[s].closed
                                 THEN [sub[s] EXCEPT !.queue = Append(@, Done), !.closed = TRUE]
                                 ELSE sub[s]]
        /\ stream' = NoStream /\ broken' = broken
    BY <1>2 DEF HubFinish
  <2>2. \/ /\ Cardinality(finished) >= MaxFinished
           /\ \E old \in finished : finished' = (finished \ {old}) \cup {r}
        \/ Cardinality(finished) < MaxFinished /\ finished' = finished \cup {r}
    <3>1. Cardinality(finished) \in Nat
      BY FS_CardinalityType DEF Ready, Settled, HubTypes
    <3>. QED
      <4>1. IF Cardinality(finished) >= MaxFinished
            THEN \E old \in finished : finished' = (finished \ {old}) \cup {r}
            ELSE finished' = finished \cup {r}
        BY <1>2 DEF HubFinish
      <4>. QED
        BY <3>1, <4>1, RunFacts
  <2>3. finished \subseteq Run /\ IsFiniteSet(finished) /\ Cardinality(finished) <= MaxFinished
    BY DEF Ready, Settled, HubTypes
  <2>4. /\ finished' \subseteq finished \cup {r} /\ IsFiniteSet(finished')
        /\ Cardinality(finished') <= MaxFinished
    <3>1. ASSUME Cardinality(finished) < MaxFinished, finished' = finished \cup {r}
          PROVE  IsFiniteSet(finished') /\ Cardinality(finished') <= MaxFinished
      <4>1. Cardinality(finished) \in Nat
        BY <2>3, FS_CardinalityType
      <4>. QED
        <5>1. /\ IsFiniteSet(finished \cup {r})
              /\ Cardinality(finished \cup {r}) = IF r \in finished THEN Cardinality(finished)
                                                                   ELSE Cardinality(finished) + 1
          BY <2>3, FS_AddElement
        <5>. QED
          BY <3>1, <4>1, <5>1, RunFacts
    <3>2. ASSUME NEW old \in finished, finished' = (finished \ {old}) \cup {r}
          PROVE  IsFiniteSet(finished') /\ Cardinality(finished') <= MaxFinished
      <4>1. IsFiniteSet(finished \ {old}) /\ Cardinality(finished \ {old}) = Cardinality(finished) - 1
        BY <2>3, FS_RemoveElement
      <4>2. Cardinality(finished) \in Nat
        BY <2>3, FS_CardinalityType
      <4>3. /\ IsFiniteSet((finished \ {old}) \cup {r})
            /\ Cardinality((finished \ {old}) \cup {r}) =
                 IF r \in finished \ {old} THEN Cardinality(finished \ {old})
                                           ELSE Cardinality(finished \ {old}) + 1
        BY <4>1, FS_AddElement
      <4>. QED
        BY <2>3, <3>2, <4>1, <4>2, <4>3, RunFacts
    <3>. QED
      BY <2>2, <3>1, <3>2
  <2>5. /\ stream.lastSeq \in Nat /\ log' \in [Run -> Seq(Kinds)] /\ saved' \in [Run -> Nat]
        /\ \A s \in stream.subs : SubscribedOK(sub[s], stream.run, stream.lastSeq, log', saved', broken')
    BY ReadyFacts DEF Ready, RunTypes, StreamSet
  <2>6. ASSUME NEW s \in Sub
        PROVE  /\ sub'[s] \in SeatSet /\ sub'[s].run = sub[s].run /\ sub'[s].got = sub[s].got
               /\ SeatOK(sub'[s], log', saved', broken', Over')
    <3>1. sub[s] \in SeatSet /\ SeatOK(sub[s], log', saved', broken', Over')
      BY ReadyFacts
    <3>2. CASE s \notin stream.subs
      BY <2>1, <3>1, <3>2
    <3>3. CASE s \in stream.subs
      <4>1. SubscribedOK(sub[s], stream.run, stream.lastSeq, log', saved', broken')
        BY <3>3, ReadyFacts
      <4>2. sub'[s] = [sub[s] EXCEPT !.queue = Append(@, 0), !.closed = TRUE]
        BY <2>1, <3>3, <4>1 DEF SubscribedOK, Done
      <4>3. /\ stream.run \in Over' /\ stream.run \in Run
            /\ (stream.run \in broken' \/ stream.lastSeq \in {0, Len(log'[stream.run])})
        BY <1>2, <2>1
      <4>4. LET f == [sub[s] EXCEPT !.queue = Append(@, 0), !.closed = TRUE]
            IN  /\ f \in SeatSet /\ f.run = sub[s].run /\ f.got = sub[s].got
                /\ SeatOK(f, log', saved', broken', Over')
        BY <2>5, <3>1, <4>1, <4>3, SeatEnds
      <4>. QED
        BY <4>2, <4>4
    <3>. QED
      BY <3>2, <3>3
  <2>7. stream' \in StreamSet /\ stream'.run = None /\ stream'.subs = {}
    BY <2>1, NewStreamFacts
  <2>8. HubTypes'
    <3>1. sub' \in [Sub -> SeatSet]
      BY <2>1, <2>6
    <3>2. broken' \subseteq Run /\ finished' \subseteq Run
      BY <2>1, <2>3, <2>4 DEF Ready, Settled, HubTypes
    <3>. QED
      BY <2>4, <2>7, <3>1, <3>2, SMTT(40) DEF HubTypes
  <2>9. StreamInv' /\ SeatsInv'
    BY <2>6, <2>7 DEF StreamInv, StreamOK, SeatsInv
  <2>. QED
    BY <1>2, <2>1, <2>4, <2>6, <2>7, <2>8, <2>9 DEF Settled, SameSeats
<1>. QED
  BY <1>1, <1>2

\* The three parts of a seat's events.
LEMMA PartsOfConcat ==
  ASSUME NEW a \in Seq(Nat), NEW b \in Seq(Nat), NEW c \in Seq(Nat)
  PROVE  /\ Len(a) \in Nat /\ Len(b) \in Nat /\ Len(c) \in Nat
         /\ Len((a \o b) \o c) = (Len(a) + Len(b)) + Len(c)
         /\ \A i \in 1..Len(a) : ((a \o b) \o c)[i] = a[i]
         /\ Len(b) > 0 => ((a \o b) \o c)[Len(a) + 1] = b[1]
         /\ Len(b) = 0 /\ Len(c) > 0 => ((a \o b) \o c)[Len(a) + 1] = c[1]
<1>1. /\ a \o b \in Seq(Nat) /\ Len(a \o b) = Len(a) + Len(b)
      /\ Len(a) \in Nat /\ Len(b) \in Nat /\ Len(c) \in Nat
  OBVIOUS
<1>2. Len((a \o b) \o c) = (Len(a) + Len(b)) + Len(c)
  BY <1>1
<1>3. \A i \in 1..Len(a) : ((a \o b) \o c)[i] = a[i]
  <2>. SUFFICES ASSUME NEW i \in 1..Len(a) PROVE ((a \o b) \o c)[i] = a[i]
    OBVIOUS
  <2>1. (a \o b)[i] = a[i] /\ i \in 1..Len(a \o b)
    BY <1>1
  <2>2. ((a \o b) \o c)[i] = (a \o b)[i]
    BY <1>1, <2>1, ConcatProperties
  <2>. QED
    BY <2>1, <2>2
<1>4. ASSUME Len(b) > 0 PROVE ((a \o b) \o c)[Len(a) + 1] = b[1]
  <2>1. (a \o b)[Len(a) + 1] = b[1] /\ Len(a) + 1 \in 1..Len(a \o b)
    BY <1>1, <1>4
  <2>2. ((a \o b) \o c)[Len(a) + 1] = (a \o b)[Len(a) + 1]
    BY <1>1, <2>1, ConcatProperties
  <2>. QED
    BY <2>1, <2>2
<1>5. ASSUME Len(b) = 0, Len(c) > 0 PROVE ((a \o b) \o c)[Len(a) + 1] = c[1]
  BY <1>1, <1>5
<1>. QED
  BY <1>1, <1>2, <1>3, <1>4, <1>5

\* The next event of a seat is the one behind those it has got.
LEMMA NextToCome ==
  ASSUME NEW seat \in SeatSet,
         seat.replay # <<>> \/ (seat.replay = <<>> /\ seat.queue # <<>>)
  PROVE  LET F == ToCome(seat)
             k == Len(seat.got)
             n == IF seat.replay # <<>> THEN Head(seat.replay) ELSE Head(seat.queue)
         IN  /\ k \in Nat /\ Len(F) \in Nat /\ k + 1 <= Len(F)
             /\ F[k + 1] = n /\ \A i \in 1..k : F[i] = seat.got[i]
<1>. DEFINE a == seat.got
            b == seat.replay
            c == seat.queue
            F == (a \o b) \o c
            k == Len(a)
<1>1. a \in Seq(Nat) /\ b \in Seq(Nat) /\ c \in Seq(Nat)
  BY DEF SeatSet
<1>2. /\ a # <<>> => Len(a) > 0
      /\ b # <<>> => Len(b) > 0 /\ Head(b) = b[1]
      /\ b = <<>> => Len(b) = 0
      /\ c # <<>> => Len(c) > 0 /\ Head(c) = c[1]
  BY <1>1, SMTT(40)
<1>3. ToCome(seat) = F /\ ((b # <<>>) \/ (b = <<>> /\ c # <<>>))
  BY DEF ToCome
<1>. HIDE DEF a, b, c
<1>4. /\ Len(a) \in Nat /\ Len(b) \in Nat /\ Len(c) \in Nat
      /\ Len((a \o b) \o c) = (Len(a) + Len(b)) + Len(c)
      /\ \A i \in 1..Len(a) : ((a \o b) \o c)[i] = a[i]
      /\ Len(b) > 0 => ((a \o b) \o c)[Len(a) + 1] = b[1]
      /\ Len(b) = 0 /\ Len(c) > 0 => ((a \o b) \o c)[Len(a) + 1] = c[1]
  BY ONLY <1>1, PartsOfConcat, SMTT(40)
<1>5. /\ k \in Nat /\ Len(b) \in Nat /\ Len(c) \in Nat /\ Len(F) = (k + Len(b)) + Len(c)
      /\ \A i \in 1..k : F[i] = a[i]
      /\ Len(b) > 0 => F[k + 1] = b[1]
      /\ Len(b) = 0 /\ Len(c) > 0 => F[k + 1] = c[1]
  BY <1>4
<1>. HIDE DEF F, k
<1>6. Len(F) \in Nat /\ k + 1 <= Len(F)
  BY <1>2, <1>3, <1>5
<1>7. F[k + 1] = IF b # <<>> THEN Head(b) ELSE Head(c)
  <2>1. CASE b # <<>>
    BY <1>2, <1>5, <2>1
  <2>2. CASE b = <<>>
    BY <1>2, <1>3, <1>5, <2>2
  <2>. QED
    BY <2>1, <2>2
<1>. QED
  BY <1>3, <1>5, <1>6, <1>7 DEF a, b, c, k

LEMMA ClientReads ==
  ASSUME Ready, NEW s \in Sub, ReadCurrent(s)
  PROVE  /\ Settled' /\ stream' = stream /\ finished' = finished /\ broken' = broken
         /\ sub[s].run = None /\ sub'[s].run = cur /\ sub'[s].got = sub[s].got /\ cur \in Run
         /\ \A t \in Sub : t # s => sub'[t] = sub[t]
<1>1. /\ sub[s].pc = "out" /\ cur \in Run
      /\ sub' = [sub EXCEPT ![s].pc = "read", ![s].run = cur]
      /\ stream' = stream /\ finished' = finished /\ broken' = broken
  BY DEF ReadCurrent, Ready, RunTypes
<1>2. sub \in [Sub -> SeatSet] /\ sub[s] \in SeatSet
  BY DEF Ready, Settled, HubTypes
<1>3. s \notin stream.subs /\ SeatOK(sub[s], log', saved', broken', Over')
  BY <1>1, ReadyFacts
<1>. DEFINE e == [sub[s] EXCEPT !.pc = "read", !.run = cur]
<1>4. /\ e \in SeatSet /\ e.pc = "read" /\ e.run = cur /\ e.got = sub[s].got
      /\ e.replay = sub[s].replay /\ e.queue = sub[s].queue /\ e.closed = sub[s].closed
  BY <1>1, <1>2 DEF SeatSet
<1>5. sub'[s] = e /\ \A t \in Sub : t # s => sub'[t] = sub[t]
  BY <1>1, <1>2
<1>6. sub[s].run = None /\ SeatOK(e, log', saved', broken', Over')
  BY <1>1, <1>3, <1>4, RunFacts DEF SeatOK
<1>. HIDE DEF e
<1>7. sub' \in [Sub -> SeatSet]
  BY <1>1, <1>2, <1>4, <1>5
<1>8. HubTypes'
  BY <1>1, <1>7 DEF Ready, Settled, HubTypes
<1>9. StreamInv' /\ SeatsInv'
  BY <1>1, <1>3, <1>5, <1>6, ReadyFacts DEF StreamInv, SeatsInv
<1>. QED
  BY <1>1, <1>4, <1>5, <1>6, <1>8, <1>9 DEF Settled

LEMMA ClientSubscribes ==
  ASSUME Ready, NEW s \in Sub, Subscribe(s)
  PROVE  /\ Settled' /\ SameSeats /\ finished' = finished
         /\ \/ stream'.run = stream.run /\ stream'.lastSeq = stream.lastSeq /\ broken' = broken
            \/ /\ stream'.run = sub[s].run /\ stream'.run # stream.run
               /\ sub[s].run \in Run \ finished
               /\ stream'.lastSeq = 0
               /\ broken' = broken \cup (IF stream.run = None THEN {} ELSE {stream.run})
<1>. DEFINE r == sub[s].run
            st == IF stream.run = r THEN stream ELSE NewStream(r)
            e == [sub[s] EXCEPT !.pc = "in", !.replay = st.replay]
            seated == [sub EXCEPT ![s].pc = "in", ![s].replay = st.replay]
<1>1. sub \in [Sub -> SeatSet] /\ sub[s] \in SeatSet /\ stream \in StreamSet
      /\ finished' = finished /\ sub[s].pc = "read"
  BY ReadyFacts DEF Ready, Settled, HubTypes, Subscribe
<1>2. /\ s \notin stream.subs /\ r \in Run
      /\ sub[s].got = <<>> /\ sub[s].queue = <<>> /\ sub[s].closed = FALSE
  <2>1. SeatOK(sub[s], log', saved', broken', Over') /\ s \notin stream.subs
    BY <1>1, ReadyFacts
  <2>2. r \in Run \cup {None}
    BY <1>1 DEF SeatSet
  <2>. QED
    BY <1>1, <2>1, <2>2 DEF SeatOK
<1>3. /\ log' \in [Run -> Seq(Kinds)] /\ saved' \in [Run -> Nat] /\ broken \subseteq Run
      /\ finished \subseteq Run /\ IsFiniteSet(finished) /\ Cardinality(finished) <= MaxFinished
  BY DEF Ready, Settled, RunTypes, HubTypes
<1>4. CASE sub' = [sub EXCEPT ![s].pc = "left"] /\ stream' = stream /\ broken' = broken
  <2>1. /\ sub'[s] \in SeatSet /\ sub'[s].pc = "left" /\ sub'[s].run = sub[s].run
        /\ sub'[s].got = sub[s].got /\ \A t \in Sub : t # s => sub'[t] = sub[t]
    BY <1>1, <1>4 DEF SeatSet
  <2>2. sub' \in [Sub -> SeatSet]
    BY <1>1, <1>4, <2>1
  <2>3. HubTypes'
    BY <1>1, <1>3, <1>4, <2>2 DEF HubTypes
  <2>4. SeatOK(sub'[s], log', saved', broken', Over')
    BY <2>1 DEF SeatOK
  <2>5. StreamInv' /\ SeatsInv'
    BY <1>2, <1>4, <2>1, <2>4, ReadyFacts DEF StreamInv, SeatsInv
  <2>. QED
    BY <1>1, <1>4, <2>1, <2>3, <2>5 DEF Settled, SameSeats
<1>5. CASE r \notin finished
           /\ IF stream.run \in {r, None}
              THEN /\ stream' = [st EXCEPT !.subs = @ \cup {s}]
                   /\ sub' = seated
                   /\ UNCHANGED broken
              ELSE /\ Replace([st EXCEPT !.subs = {s}], seated)
                   /\ broken' = broken \cup {stream.run}
  <2>1. /\ st \in StreamSet /\ st.run = r
        /\ stream.run # r => st.replay = <<>> /\ st.lastSeq = 0 /\ st.subs = {}
    BY <1>1, <1>2, NewStreamFacts
  <2>2. StreamOK(st, log', saved', broken')
    <3>1. CASE stream.run = r
      BY <3>1, ReadyFacts
    <3>2. CASE stream.run # r
      BY <1>2, <1>3, <2>1, <3>2, NewStreamOK
    <3>. QED
      BY <3>1, <3>2
  <2>3. st.replay \in Seq(Nat) /\ st.lastSeq \in Nat /\ st.subs \subseteq Sub
    BY <2>1 DEF StreamSet
  <2>4. /\ RunOrder(st.replay, r, log', saved', broken', {})
        /\ EndsAt(st.replay, st.lastSeq)
    BY <1>2, <2>1, <2>2, RunFacts DEF StreamOK
  <2>. HIDE DEF st
  <2>5. /\ e \in SeatSet /\ e.pc = "in" /\ e.run = r /\ e.got = <<>> /\ e.queue = <<>>
        /\ e.closed = FALSE /\ e.replay = st.replay
    BY <1>1, <1>2, <2>3 DEF SeatSet
  <2>6. seated[s] = e /\ seated \in [Sub -> SeatSet] /\ \A t \in Sub : t # s => seated[t] = sub[t]
    BY <1>1, <2>5
  <2>. HIDE DEF e, seated
  <2>7. ToCome(e) = st.replay
    <3>1. ToCome(e) = (<<>> \o st.replay) \o <<>>
      BY <2>5 DEF ToCome
    <3>. QED
      BY <2>3, <3>1, ConcatEmptySeq
  <2>8. SubscribedOK(e, r, st.lastSeq, log', saved', broken')
    BY <2>4, <2>5, <2>7 DEF SubscribedOK
  <2>9. SeatOK(e, log', saved', broken', Over')
    <3>1. RunOrder(st.replay, r, log', saved', broken', Over')
      BY <2>4 DEF RunOrder, InOrder
    <3>. QED
      BY <1>2, <2>5, <2>7, <3>1, RunFacts DEF SeatOK
  <2>10. CASE stream.run \in {r, None}
    <3>1. stream' = [st EXCEPT !.subs = @ \cup {s}] /\ sub' = seated /\ broken' = broken
      BY <1>5, <2>10
    <3>2. /\ stream' \in StreamSet /\ stream'.run = r /\ stream'.lastSeq = st.lastSeq
          /\ stream'.replay = st.replay /\ stream'.subs = st.subs \cup {s}
      BY <2>1, <2>3, <3>1 DEF StreamSet
    <3>3. HubTypes'
      BY <1>1, <1>3, <2>6, <3>1, <3>2 DEF HubTypes
    <3>4. StreamInv'
      BY <2>1, <2>2, <3>2 DEF StreamInv, StreamOK
    <3>5. \A t \in Sub : SeatOK(sub'[t], log', saved', broken', Over')
      BY <2>6, <2>9, <3>1, ReadyFacts
    <3>6. ASSUME NEW t \in stream'.subs
          PROVE  SubscribedOK(sub'[t], stream'.run, stream'.lastSeq, log', saved', broken')
      <4>1. CASE t = s
        BY <2>6, <2>8, <3>1, <3>2, <4>1
      <4>2. CASE t # s
        <5>1. t \in st.subs /\ t \in Sub
          BY <2>3, <3>2, <4>2
        <5>2. stream.run = r /\ st = stream
          BY <2>1, <5>1 DEF st
        <5>. QED
          BY <2>6, <3>1, <3>2, <4>2, <5>1, <5>2, ReadyFacts
      <4>. QED
        BY <4>1, <4>2
    <3>7. SameSeats
      BY <1>2, <2>5, <2>6, <3>1 DEF SameSeats
    <3>8. stream.run = r => stream'.lastSeq = stream.lastSeq
      BY <3>2 DEF st
    <3>9. stream.run # r => stream.run = None /\ stream'.lastSeq = 0
      BY <2>1, <2>10, <3>2
    <3>. QED
      BY <1>1, <1>2, <1>5, <3>1, <3>2, <3>3, <3>4, <3>5, <3>6, <3>7, <3>8, <3>9
         DEF Settled, SeatsInv
  <2>11. CASE stream.run \notin {r, None}
    <3>1. /\ stream' = [st EXCEPT !.subs = {s}] /\ broken' = broken \cup {stream.run}
          /\ sub' = [t \in Sub |-> IF t \in stream.subs THEN Closed(t) ELSE seated[t]]
      BY <1>5, <2>11 DEF Replace
    <3>2. /\ stream' \in StreamSet /\ stream'.run = r /\ stream'.lastSeq = st.lastSeq
          /\ stream'.replay = st.replay /\ stream'.subs = {s}
      BY <2>1, <2>3, <3>1 DEF StreamSet
    <3>3. ASSUME NEW t \in Sub
          PROVE  /\ sub'[t] \in SeatSet /\ sub'[t].run = sub[t].run /\ sub'[t].got = sub[t].got
                 /\ SeatOK(sub'[t], log', saved', broken', Over')
                 /\ t = s => sub'[t] = e
      <4>1. CASE t = s
        BY <1>2, <2>5, <2>6, <2>9, <3>1, <4>1
      <4>2. CASE t # s
        BY <2>6, <3>1, <4>2, Closes
      <4>. QED
        BY <4>1, <4>2
    <3>4. sub' \in [Sub -> SeatSet]
      BY <3>1, <3>3
    <3>5. HubTypes'
      <4>1. broken' \subseteq Run
        BY <1>3, <2>11, <3>1, ReadyFacts
      <4>. QED
        BY <1>1, <1>3, <3>2, <3>4, <4>1 DEF HubTypes
    <3>6. StreamInv'
      BY <2>1, <2>2, <3>2 DEF StreamInv, StreamOK
    <3>7. SeatsInv'
      BY <2>8, <3>2, <3>3 DEF SeatsInv
    <3>. QED
      BY <1>1, <1>2, <1>5, <2>1, <2>11, <3>1, <3>2, <3>3, <3>5, <3>6, <3>7 DEF Settled, SameSeats
  <2>. QED
    BY <2>10, <2>11
<1>. QED
  BY <1>4, <1>5 DEF Subscribe

LEMMA ClientGets ==
  ASSUME Ready, NEW s \in Sub, Deliver(s)
  PROVE  /\ Settled' /\ stream' = stream /\ finished' = finished /\ broken' = broken
         /\ sub[s].pc = "in" /\ sub'[s].run = sub[s].run
         /\ \A t \in Sub : t # s => sub'[t] = sub[t]
         /\ sub[s].replay # <<>> \/ (sub[s].replay = <<>> /\ sub[s].queue # <<>>)
         /\ sub'[s].got = Append(sub[s].got, IF sub[s].replay # <<>> THEN Head(sub[s].replay)
                                                                     ELSE Head(sub[s].queue))
<1>. DEFINE seat == sub[s]
            n == IF seat.replay # <<>> THEN Head(seat.replay) ELSE Head(seat.queue)
            e == [seat EXCEPT !.replay = IF seat.replay # <<>> THEN Tail(seat.replay) ELSE <<>>,
                              !.queue = IF seat.replay # <<>> THEN @ ELSE Tail(@),
                              !.got = Append(@, n),
                              !.pc = IF n = Done THEN "left" ELSE "in"]
<1>1. /\ sub \in [Sub -> SeatSet] /\ seat \in SeatSet /\ stream' = stream /\ broken' = broken
      /\ finished' = finished /\ seat.pc = "in"
      /\ seat.replay \in Seq(Nat) /\ seat.queue \in Seq(Nat) /\ seat.got \in Seq(Nat)
  BY SMTT(40) DEF Ready, Settled, HubTypes, Deliver, SeatSet
<1>2. /\ seat.replay # <<>> \/ (seat.replay = <<>> /\ seat.queue # <<>>)
      /\ sub' = [sub EXCEPT ![s] = e]
  <2>1. CASE /\ seat.replay # <<>>
             /\ sub' = [sub EXCEPT ![s].replay = Tail(@), ![s].got = Append(@, Head(sub[s].replay)),
                                   ![s].pc = IF Head(sub[s].replay) = Done THEN "left" ELSE "in"]
    BY <1>1, <2>1, ZenonT(60) DEF SeatSet
  <2>2. CASE /\ seat.replay = <<>> /\ seat.queue # <<>>
             /\ sub' = [sub EXCEPT ![s].queue = Tail(@), ![s].got = Append(@, Head(sub[s].queue)),
                                   ![s].pc = IF Head(sub[s].queue) = Done THEN "left" ELSE "in"]
    <3>1. e = [seat EXCEPT !.queue = Tail(@), !.got = Append(@, Head(seat.queue)),
                           !.pc = IF Head(seat.queue) = Done THEN "left" ELSE "in"]
      BY <1>1, <2>2 DEF SeatSet
    <3>. QED
      BY <1>1, <2>2, <3>1
  <2>. QED
    BY <2>1, <2>2 DEF Deliver
<1>3. /\ n \in Nat /\ e \in SeatSet /\ e.run = seat.run /\ e.got = Append(seat.got, n)
      /\ e.closed = seat.closed /\ e.pc = IF n = Done THEN "left" ELSE "in"
      /\ e.replay = IF seat.replay # <<>> THEN Tail(seat.replay) ELSE <<>>
      /\ e.queue = IF seat.replay # <<>> THEN seat.queue ELSE Tail(seat.queue)
  <2>1. n \in Nat /\ Append(seat.got, n) \in Seq(Nat) /\ <<>> \in Seq(Nat)
    BY <1>1, <1>2, SMTT(40)
  <2>2. /\ (IF seat.replay # <<>> THEN Tail(seat.replay) ELSE <<>>) \in Seq(Nat)
        /\ (IF seat.replay # <<>> THEN seat.queue ELSE Tail(seat.queue)) \in Seq(Nat)
    BY <1>1, <1>2
  <2>. HIDE DEF n
  <2>. QED
    BY <1>1, <2>1, <2>2 DEF SeatSet
<1>4. ToCome(e) = ToCome(seat)
  <2>. HIDE DEF e
  <2>1. CASE seat.replay # <<>>
    <3>1. /\ e.got = Append(seat.got, Head(seat.replay)) /\ e.replay = Tail(seat.replay)
          /\ e.queue = seat.queue
      BY <1>3, <2>1
    <3>2. (Append(seat.got, Head(seat.replay)) \o Tail(seat.replay)) \o seat.queue
            = (seat.got \o seat.replay) \o seat.queue
      BY <1>1, <2>1, ReplayGoesOn
    <3>. QED
      BY <3>1, <3>2, Zenon DEF ToCome
  <2>2. CASE seat.replay = <<>> /\ seat.queue # <<>>
    <3>1. /\ e.got = Append(seat.got, Head(seat.queue)) /\ e.replay = <<>>
          /\ e.queue = Tail(seat.queue)
      BY <1>3, <2>2
    <3>2. (Append(seat.got, Head(seat.queue)) \o <<>>) \o Tail(seat.queue)
            = (seat.got \o <<>>) \o seat.queue
      BY <1>1, <2>2, QueueGoesOn
    <3>. QED
      BY <2>2, <3>1, <3>2 DEF ToCome
  <2>. QED
    BY <1>2, <2>1, <2>2
<1>5. /\ Len(seat.got) \in Nat /\ Len(seat.got) + 1 \in 1..Len(ToCome(seat))
      /\ ToCome(seat)[Len(seat.got) + 1] = n
  BY <1>1, <1>2, NextToCome
<1>. HIDE DEF e, n
<1>6. SeatOK(e, log', saved', broken', Over')
  <2>1. SeatOK(seat, log', saved', broken', Over')
    BY ReadyFacts
  <2>. QED
    BY <1>1, <1>3, <1>4, <2>1 DEF SeatOK
<1>7. s \in stream.subs => SubscribedOK(e, stream.run, stream.lastSeq, log', saved', broken')
  <2>. SUFFICES ASSUME s \in stream.subs
                PROVE  SubscribedOK(e, stream.run, stream.lastSeq, log', saved', broken')
    OBVIOUS
  <2>1. SubscribedOK(seat, stream.run, stream.lastSeq, log', saved', broken')
    BY ReadyFacts
  <2>2. n # Done
    BY <1>5, <2>1 DEF SubscribedOK, RunOrder, InOrder, Done
  <2>. QED
    BY <1>3, <1>4, <2>1, <2>2 DEF SubscribedOK
<1>8. /\ sub'[s] = e /\ sub' \in [Sub -> SeatSet] /\ \A t \in Sub : t # s => sub'[t] = sub[t]
  BY <1>1, <1>2, <1>3
<1>9. HubTypes'
  BY <1>1, <1>8 DEF Ready, Settled, HubTypes
<1>10. StreamInv' /\ SeatsInv'
  BY <1>1, <1>6, <1>7, <1>8, ReadyFacts DEF StreamInv, SeatsInv
<1>. QED
  BY <1>1, <1>2, <1>3, <1>8, <1>9, <1>10 DEF Settled, n

LEMMA ClientLeaves ==
  ASSUME Ready, NEW s \in Sub, StreamEnds(s)
  PROVE  /\ Settled' /\ SameSeats /\ finished' = finished /\ broken' = broken
         /\ stream'.run = stream.run /\ stream'.lastSeq = stream.lastSeq
<1>1. /\ sub \in [Sub -> SeatSet] /\ sub[s] \in SeatSet /\ stream \in StreamSet
      /\ broken' = broken /\ finished' = finished /\ sub[s].closed
      /\ sub' = [sub EXCEPT ![s].pc = "left"]
      /\ stream' = [stream EXCEPT !.subs = @ \ {s}]
  BY DEF Ready, Settled, HubTypes, StreamEnds
<1>2. s \notin stream.subs
  BY <1>1, ReadyFacts DEF SubscribedOK
<1>3. stream.subs \ {s} = stream.subs
  BY <1>2
<1>4. /\ stream' \in StreamSet /\ stream'.run = stream.run /\ stream'.lastSeq = stream.lastSeq
      /\ stream'.replay = stream.replay /\ stream'.subs = stream.subs
  BY <1>1, <1>3 DEF StreamSet
<1>5. /\ sub'[s] \in SeatSet /\ sub'[s].pc = "left" /\ sub'[s].run = sub[s].run
      /\ sub'[s].got = sub[s].got /\ \A t \in Sub : t # s => sub'[t] = sub[t]
  BY <1>1 DEF SeatSet
<1>6. sub' \in [Sub -> SeatSet]
  BY <1>1, <1>5
<1>7. HubTypes'
  BY <1>1, <1>4, <1>6 DEF Ready, Settled, HubTypes
<1>8. SeatOK(sub'[s], log', saved', broken', Over')
  BY <1>5 DEF SeatOK
<1>9. StreamInv'
  BY <1>4, ReadyFacts DEF StreamInv, StreamOK
<1>10. SeatsInv'
  BY <1>2, <1>4, <1>5, <1>8, ReadyFacts, SMTT(40) DEF SeatsInv
<1>. QED
  BY <1>1, <1>4, <1>5, <1>7, <1>9, <1>10 DEF Settled, SameSeats

LEMMA ServeRestarts ==
  ASSUME Ready, Restart
  PROVE  /\ Settled' /\ SameSeats /\ finished' = {} /\ broken' = Run
         /\ stream' = NoStream /\ stream'.run = None
<1>1. /\ stream' = NoStream /\ finished' = {} /\ broken' = Run
      /\ sub' = [s \in Sub |-> IF sub[s].pc \in {"read", "in"}
                               THEN [Closed(s) EXCEPT !.replay = <<>>, !.pc = "left"] ELSE sub[s]]
  BY DEF Restart
<1>2. NoStream.run = None /\ NoStream.subs = {} /\ NoStream \in StreamSet
  <2>1. <<>> \in Seq(Nat) /\ FALSE \in BOOLEAN
    OBVIOUS
  <2>. QED
    BY <2>1 DEF NoStream, StreamSet
<1>3. ASSUME NEW s \in Sub
      PROVE  /\ sub'[s] \in SeatSet /\ sub'[s].run = sub[s].run /\ sub'[s].got = sub[s].got
             /\ SeatOK(sub'[s], log', saved', broken', Over')
  <2>1. sub[s] \in SeatSet /\ SeatOK(sub[s], log', saved', broken', Over')
    BY ReadyFacts
  <2>2. CASE sub[s].pc \in {"read", "in"}
    <3>1. <<>> \in Seq(Nat) /\ TRUE \in BOOLEAN
      OBVIOUS
    <3>2. sub'[s] = [Closed(s) EXCEPT !.replay = <<>>, !.pc = "left"]
      BY <1>1, <2>2
    <3>3. /\ sub'[s] \in SeatSet /\ sub'[s].run = sub[s].run /\ sub'[s].got = sub[s].got
          /\ sub'[s].pc = "left"
      BY <2>1, <3>1, <3>2, ZenonT(60) DEF SeatSet, Closed
    <3>4. SeatOK(sub'[s], log', saved', broken', Over')
      BY <3>3 DEF SeatOK
    <3>. QED
      BY <3>3, <3>4
  <2>3. CASE sub[s].pc \notin {"read", "in"}
    BY <1>1, <2>1, <2>3
  <2>. QED
    BY <2>2, <2>3
<1>4. sub' \in [Sub -> SeatSet]
  BY <1>1, <1>3
<1>5. IsFiniteSet({}) /\ Cardinality({}) <= MaxFinished
  BY FS_EmptySet, RunFacts, SMTT(40)
<1>6. HubTypes'
  BY <1>1, <1>2, <1>4, <1>5, ZenonT(60) DEF HubTypes
<1>7. StreamInv' /\ SeatsInv'
  BY <1>1, <1>2, <1>3 DEF StreamInv, StreamOK, SeatsInv
<1>. QED
  BY <1>1, <1>2, <1>3, <1>6, <1>7 DEF Settled, SameSeats

-------------------------------------------------------------------------------
(* What a step does to the runs.                                           *)

Phases == {"idle", "up", "live", "ended", "released", "done", "dead"}
Begun == \A r \in Run : phase[r] # "idle" => phase'[r] # "idle"
RunStep == RunTypes' /\ PhasesInv' /\ FeedGrows /\ Begun

LEMMA RunsKept ==
  ASSUME RunTypes, PhasesInv, UNCHANGED runVars, broken \subseteq broken'
  PROVE  RunStep
<1>1. cur' = cur /\ phase' = phase /\ log' = log /\ saved' = saved
  BY DEF runVars
<1>2. RunTypes' /\ PhasesInv' /\ Begun
  BY <1>1 DEF RunTypes, PhasesInv, Begun
<1>3. \A r \in Run : Len(log[r]) \in Nat /\ saved[r] \in Nat
  BY DEF RunTypes
<1>4. FeedGrows
  BY <1>1, <1>3 DEF FeedGrows, Grows, Over
<1>. QED
  BY <1>2, <1>4 DEF RunStep

LEMMA PhaseMoves ==
  ASSUME RunTypes, NEW r \in Run, NEW ph \in Phases, Goto(r, ph), log' = log, saved' = saved,
         broken' = broken, cur' \in Run \cup {None}, phase[r] = "done" => ph = "done", ph # "idle"
  PROVE  /\ RunTypes' /\ FeedGrows /\ Begun /\ phase'[r] = ph
         /\ \A q \in Run : q # r => phase'[q] = phase[q]
<1>1. /\ phase \in [Run -> Phases] /\ phase' = [phase EXCEPT ![r] = ph]
      /\ \A q \in Run : Len(log[q]) \in Nat /\ saved[q] \in Nat
  BY DEF RunTypes, Phases, Goto
<1>2. phase' \in [Run -> Phases] /\ phase'[r] = ph /\ \A q \in Run : q # r => phase'[q] = phase[q]
  BY <1>1
<1>3. RunTypes'
  BY <1>2 DEF RunTypes, Phases
<1>4. FeedGrows
  BY <1>1, <1>2 DEF FeedGrows, Grows, Over
<1>. QED
  BY <1>2, <1>3, <1>4 DEF Begun

LEMMA BeginRuns ==
  ASSUME RunTypes, PhasesInv, NEW r \in Run, Begin(r)
  PROVE  /\ RunStep /\ phase'[r] \in {"up", "live"} /\ (phase'[r] = "live" => r \notin MessageRun)
         /\ \A q \in Run : q # r => phase'[q] = phase[q]
<1>. DEFINE ph == IF r \in MessageRun THEN "up" ELSE "live"
<1>1. /\ phase[r] = "idle" /\ cur = None /\ cur' = r /\ Goto(r, ph)
      /\ log' = log /\ saved' = saved /\ broken' = broken
  BY DEF Begin, hubVars
<1>2. ph \in Phases /\ ph # "idle" /\ ph \in {"up", "live"} /\ (ph = "up" <=> r \in MessageRun)
  BY DEF Phases
<1>. HIDE DEF ph
<1>3. /\ RunTypes' /\ FeedGrows /\ Begun /\ phase'[r] = ph
      /\ \A q \in Run : q # r => phase'[q] = phase[q]
  BY <1>1, <1>2, PhaseMoves
<1>4. PhasesInv'
  BY <1>1, <1>2, <1>3, RunFacts DEF PhasesInv, Holding
<1>. QED
  BY <1>2, <1>3, <1>4 DEF RunStep

LEMMA StreamOpens ==
  ASSUME RunTypes, PhasesInv, NEW r \in Run, OpenStream(r)
  PROVE  /\ RunStep /\ phase[r] = "up" /\ phase'[r] = "live" /\ r \in MessageRun /\ cur = r
         /\ log' = log /\ saved' = saved
         /\ \A q \in Run : q # r => phase'[q] = phase[q]
<1>1. /\ phase[r] = "up" /\ cur' = cur /\ Goto(r, "live") /\ cur \in Run \cup {None}
      /\ log' = log /\ saved' = saved /\ broken' = broken /\ "live" \in Phases
  BY DEF OpenStream, HubStart, Phases, RunTypes
<1>2. /\ RunTypes' /\ FeedGrows /\ Begun /\ phase'[r] = "live"
      /\ \A q \in Run : q # r => phase'[q] = phase[q]
  BY <1>1, PhaseMoves
<1>3. PhasesInv' /\ r \in MessageRun /\ cur = r
  BY <1>1, <1>2 DEF PhasesInv, Holding
<1>. QED
  BY <1>1, <1>2, <1>3 DEF RunStep

LEMMA TurnsEnd ==
  ASSUME RunTypes, PhasesInv, NEW r \in Run, EndTurn(r)
  PROVE  /\ RunStep /\ phase[r] = "live" /\ cur = r /\ log' = log /\ saved' = saved
         /\ UNCHANGED <<stream, finished, sub, broken, stray, discard, losses, restarts>>
         /\ \A q \in Run : q # r => phase'[q] = phase[q]
         /\ \/ /\ r \in MessageRun /\ phase'[r] = "released" /\ packets' = packets
            \/ /\ r \in CompactRun /\ r \notin MessageRun \cup GatewayRun
               /\ phase'[r] = "done" /\ packets' = packets /\ Len(log[r]) = 0
            \/ /\ r \in GatewayRun /\ r \notin MessageRun /\ phase'[r] = "ended"
               /\ packets' = [packets EXCEPT ![r] = Append(@, [run |-> r, kind |-> "finish", n |-> 0])]
<1>1. /\ phase[r] = "live" /\ cur = r /\ log' = log /\ saved' = saved
      /\ UNCHANGED <<stream, finished, sub, broken, stray, discard, losses, restarts>>
      /\ r \in CompactRun => Len(log[r]) = 0
  BY DEF EndTurn, hubVars, PhasesInv, Holding
<1>2. CASE /\ r \notin GatewayRun
           /\ cur' = IF cur = r THEN None ELSE cur
           /\ Goto(r, IF r \in CompactRun THEN "done" ELSE "released")
           /\ UNCHANGED packets
  <2>. DEFINE ph == IF r \in CompactRun THEN "done" ELSE "released"
  <2>1. ph \in Phases /\ cur' \in Run \cup {None} /\ ph # "idle" /\ ph \notin Holding /\ cur' = None
        /\ (r \in CompactRun => ph = "done" /\ r \notin MessageRun)
        /\ (r \notin CompactRun => ph = "released" /\ r \in MessageRun)
    BY <1>1, <1>2, RunFacts DEF Phases, Holding, Run
  <2>. HIDE DEF ph
  <2>2. Goto(r, ph)
    BY <1>2 DEF ph
  <2>3. /\ RunTypes' /\ FeedGrows /\ Begun /\ phase'[r] = ph
        /\ \A q \in Run : q # r => phase'[q] = phase[q]
    BY <1>1, <2>1, <2>2, PhaseMoves
  <2>4. PhasesInv'
    BY <1>1, <2>1, <2>3 DEF PhasesInv, Holding
  <2>. QED
    BY <1>1, <1>2, <2>1, <2>3, <2>4 DEF RunStep
<1>3. CASE /\ r \in GatewayRun
           /\ packets' = [packets EXCEPT ![r] = Append(@, [run |-> r, kind |-> "finish", n |-> 0])]
           /\ Goto(r, "ended")
           /\ UNCHANGED cur
  <2>1. "ended" \in Phases /\ cur' \in Run \cup {None} /\ r \notin MessageRun
    BY <1>1, <1>3, RunFacts DEF Phases
  <2>2. /\ RunTypes' /\ FeedGrows /\ Begun /\ phase'[r] = "ended"
        /\ \A q \in Run : q # r => phase'[q] = phase[q]
    BY <1>1, <1>3, <2>1, PhaseMoves
  <2>3. PhasesInv'
    BY <1>1, <1>3, <2>2 DEF PhasesInv, Holding
  <2>. QED
    BY <1>1, <1>3, <2>1, <2>2, <2>3 DEF RunStep
<1>. QED
  BY <1>2, <1>3 DEF EndTurn

LEMMA EndIsAnnounced ==
  ASSUME RunTypes, PhasesInv, NEW r \in Run, Announce(r)
  PROVE  /\ RunStep /\ phase[r] = "released" /\ phase'[r] = "done" /\ log' = log /\ saved' = saved
         /\ \A q \in Run : q # r => phase'[q] = phase[q]
<1>1. /\ phase[r] = "released" /\ cur' = cur /\ Goto(r, "done") /\ cur \in Run \cup {None}
      /\ log' = log /\ saved' = saved /\ broken' = broken /\ "done" \in Phases
  BY DEF Announce, HubFinish, hubVars, Phases, RunTypes
<1>2. /\ RunTypes' /\ FeedGrows /\ Begun /\ phase'[r] = "done"
      /\ \A q \in Run : q # r => phase'[q] = phase[q]
  BY <1>1, PhaseMoves
<1>3. PhasesInv'
  BY <1>1, <1>2 DEF PhasesInv, Holding
<1>. QED
  BY <1>1, <1>2, <1>3 DEF RunStep

LEMMA AgentEmits ==
  ASSUME RunTypes, PhasesInv, NEW r \in Run, NEW kind \in Kinds, Emit(r, kind)
  PROVE  LET n == Len(log[r]) + 1 IN
         /\ RunStep /\ phase' = phase /\ saved' = saved /\ cur' = cur /\ phase[r] = "live" /\ cur = r
         /\ n \in Nat /\ n > 0 /\ Len(log'[r]) = n /\ log'[r][n] = kind /\ n <= MaxEvents(r)
         /\ kind = "status" => n <= saved'[r] + 1
         /\ \A q \in Run : q # r => log'[q] = log[q]
         /\ UNCHANGED <<stray, discard, losses, restarts>>
         /\ \/ /\ r \in GatewayRun /\ r \notin MessageRun /\ UNCHANGED hubVars
               /\ packets' = [packets EXCEPT ![r] = Append(@, [run |-> r, kind |-> "event", n |-> n])]
            \/ /\ r \in MessageRun /\ r \notin GatewayRun /\ packets' = packets
               /\ IF stream.run = r THEN HubPublish(n, kind) ELSE UNCHANGED hubVars
<1>. DEFINE n == Len(log[r]) + 1
<1>1. /\ log \in [Run -> Seq(Kinds)] /\ saved \in [Run -> Nat] /\ phase \in [Run -> Phases]
      /\ log' = [log EXCEPT ![r] = Append(@, kind)]
      /\ cur' = cur /\ phase' = phase /\ saved' = saved /\ UNCHANGED <<stray, discard, losses, restarts>>
      /\ phase[r] = "live" /\ r \in MessageRun \cup GatewayRun
  BY DEF Emit, MayEmit, RunTypes, Phases
<1>2. /\ Len(log[r]) \in Nat /\ n \in Nat /\ n > 0 /\ log'[r] = Append(log[r], kind)
      /\ Len(log'[r]) = n /\ log'[r][n] = kind
      /\ \A i \in 1..Len(log[r]) : log'[r][i] = log[r][i]
      /\ \A q \in Run : q # r => log'[q] = log[q]
      /\ log' \in [Run -> Seq(Kinds)]
  BY <1>1
<1>3. n <= MaxEvents(r) /\ (kind = "status" => n <= saved[r] + 1)
  <2>1. MaxEvents(r) \in Nat
    BY RunFacts DEF MaxEvents
  <2>. QED
    BY <1>1, <1>2, <2>1 DEF Emit, MayEmit
<1>4. \/ /\ r \in GatewayRun /\ r \notin MessageRun /\ UNCHANGED hubVars
         /\ packets' = [packets EXCEPT ![r] = Append(@, [run |-> r, kind |-> "event", n |-> n])]
      \/ /\ r \in MessageRun /\ r \notin GatewayRun /\ packets' = packets
         /\ IF stream.run = r THEN HubPublish(n, kind) ELSE UNCHANGED hubVars
  <2>1. r \in GatewayRun => r \notin MessageRun
    BY RunFacts
  <2>. QED
    BY <1>1, <2>1 DEF Emit
<1>5. broken' = broken
  BY <1>4 DEF hubVars, HubPublish
<1>6. RunTypes'
  BY <1>1, <1>2 DEF RunTypes
<1>7. \A q \in Run : Len(log[q]) \in Nat /\ saved[q] \in Nat
  BY <1>1
<1>. HIDE DEF n
<1>8. \A q \in Run : Len(log[q]) <= Len(log'[q]) /\ (q # r => Len(log'[q]) = Len(log[q]))
  BY <1>2, <1>7 DEF n
<1>9. FeedGrows
  BY <1>1, <1>5, <1>7, <1>8 DEF FeedGrows, Grows, Over
<1>10. PhasesInv'
  <2>1. cur' # None => phase'[cur'] \in Holding
    BY <1>1 DEF PhasesInv
  <2>2. ASSUME NEW q \in Run
        PROVE  /\ phase'[q] \in Holding => cur' = q
               /\ phase'[q] = "up" => q \in MessageRun
               /\ phase'[q] = "ended" => q \in GatewayRun
               /\ phase'[q] \in {"idle", "up"} \/ q \in CompactRun => Len(log'[q]) = 0
               /\ saved'[q] <= Len(log'[q])
               /\ \A i \in 1..Len(log'[q]) : log'[q][i] = "status" => i <= saved'[q] + 1
    <3>1. CASE q # r
      BY <1>1, <1>2, <3>1 DEF PhasesInv
    <3>2. CASE q = r
      <4>1. /\ phase'[q] \in Holding => cur' = q
            /\ phase'[q] = "up" => q \in MessageRun
            /\ phase'[q] = "ended" => q \in GatewayRun
            /\ phase'[q] \in {"idle", "up"} \/ q \in CompactRun => Len(log'[q]) = 0
        BY <1>1, <3>2, RunFacts DEF PhasesInv
      <4>2. saved'[q] <= Len(log'[q])
        BY <1>1, <1>2, <1>7, <1>8, <3>2 DEF PhasesInv
      <4>3. ASSUME NEW i \in 1..Len(log'[q]), log'[q][i] = "status" PROVE i <= saved'[q] + 1
        <5>1. i \in 1..n
          BY <1>2, <3>2, <4>3
        <5>2. CASE i = n
          BY <1>1, <1>2, <1>3, <3>2, <4>3, <5>2
        <5>3. CASE i # n
          <6>1. i \in 1..Len(log[r]) /\ log[r][i] = "status"
            BY <1>2, <3>2, <4>3, <5>1, <5>3 DEF n
          <6>. QED
            BY <1>1, <3>2, <6>1 DEF PhasesInv
        <5>. QED
          BY <5>2, <5>3
      <4>. QED
        BY <4>1, <4>2, <4>3
    <3>. QED
      BY <3>1, <3>2
  <2>. QED
    BY <2>1, <2>2 DEF PhasesInv
<1>11. Begun /\ cur = r
  BY <1>1 DEF Begun, PhasesInv, Holding
<1>. QED
  BY <1>1, <1>2, <1>3, <1>4, <1>6, <1>9, <1>10, <1>11 DEF RunStep, n

LEMMA StepIsSaved ==
  ASSUME RunTypes, PhasesInv, NEW r \in Run, Save(r)
  PROVE  /\ RunStep /\ phase' = phase /\ log' = log /\ UNCHANGED hubVars
         /\ UNCHANGED <<packets, stray, discard, losses, restarts>>
         /\ saved[r] < Len(log[r]) /\ saved' = [saved EXCEPT ![r] = Len(log[r])]
<1>1. /\ cur' = cur /\ phase' = phase /\ log' = log /\ UNCHANGED hubVars /\ broken' = broken
      /\ UNCHANGED <<packets, stray, discard, losses, restarts>> /\ saved \in [Run -> Nat]
      /\ log \in [Run -> Seq(Kinds)]
      /\ saved[r] < Len(log[r]) /\ saved' = [saved EXCEPT ![r] = Len(log[r])]
  BY DEF Save, hubVars, bridgeVars, RunTypes
<1>2. \A q \in Run : Len(log[q]) \in Nat /\ saved[q] \in Nat
  BY <1>1
<1>3. /\ saved' \in [Run -> Nat] /\ saved'[r] = Len(log[r])
      /\ \A q \in Run : q # r => saved'[q] = saved[q]
  BY <1>1, <1>2
<1>4. \A q \in Run : saved[q] <= saved'[q] /\ saved'[q] \in Nat
  BY <1>1, <1>2, <1>3
<1>5. RunTypes' /\ Begun
  BY <1>1, <1>3 DEF RunTypes, Begun
<1>6. FeedGrows
  BY <1>1, <1>2, <1>4 DEF FeedGrows, Grows, Over
<1>7. PhasesInv'
  <2>1. \A q \in Run : saved'[q] <= Len(log'[q])
    BY <1>1, <1>2, <1>3 DEF PhasesInv
  <2>2. ASSUME NEW q \in Run, NEW i \in 1..Len(log'[q]), log'[q][i] = "status"
        PROVE  i <= saved'[q] + 1
    <3>1. i <= saved[q] + 1 /\ i \in Nat
      BY <1>1, <2>2 DEF PhasesInv
    <3>. QED
      BY <1>2, <1>4, <3>1
  <2>. QED
    BY <1>1, <2>1, <2>2 DEF PhasesInv
<1>. QED
  BY <1>1, <1>5, <1>6, <1>7 DEF RunStep

\* What serve does with a packet.
Unmoved == UNCHANGED <<cur, phase, log, saved>> /\ UNCHANGED <<stream, finished, sub, broken>>
Finishes(r) ==
    /\ phase[r] \in {"live", "ended"} /\ phase'[r] = "released" /\ cur' = None
    /\ \A q \in Run : q # r => phase'[q] = phase[q]
    /\ log' = log /\ saved' = saved /\ UNCHANGED <<stream, finished, sub, broken>>

LEMMA PacketHandled ==
  ASSUME RunTypes, PhasesInv, NEW p \in Packet, Ingest(p)
  PROVE  /\ RunStep /\ p.run \in GatewayRun /\ p.n \in Nat
         /\ \/ /\ Unmoved
               /\ \/ cur # p.run
                  \/ p.kind = "event" /\ (stream.run # p.run \/ p.n <= stream.lastSeq)
            \/ /\ cur = p.run /\ p.kind = "start" /\ HubStart(p.run)
               /\ UNCHANGED <<cur, phase, log, saved>>
            \/ /\ cur = p.run /\ p.kind = "event" /\ stream.run = p.run /\ ~(p.n <= stream.lastSeq)
               /\ HubPublish(p.n, log[p.run][p.n]) /\ UNCHANGED <<cur, phase, log, saved>>
            \/ cur = p.run /\ p.kind = "finish" /\ Finishes(p.run)
<1>1. /\ p.run \in GatewayRun /\ p.kind \in {"start", "event", "finish"} /\ p.n \in 0..GatewayEvents
      /\ GatewayEvents \in Nat
  BY RunFacts DEF Packet
<1>2. p.n \in Nat /\ p.run \in Run
  BY <1>1, RunFacts
<1>3. CASE Unmoved
           /\ \/ cur # p.run
              \/ p.kind = "event" /\ (stream.run # p.run \/ p.n <= stream.lastSeq)
  <2>1. UNCHANGED runVars /\ broken \subseteq broken'
    BY <1>3 DEF Unmoved, runVars
  <2>. QED
    BY <1>1, <1>2, <1>3, <2>1, RunsKept
<1>4. CASE /\ cur = p.run /\ p.kind = "start" /\ HubStart(p.run)
           /\ UNCHANGED <<cur, phase, log, saved>>
  <2>1. UNCHANGED runVars /\ broken \subseteq broken'
    BY <1>4 DEF HubStart, runVars
  <2>. QED
    BY <1>1, <1>2, <1>4, <2>1, RunsKept
<1>5. CASE /\ cur = p.run /\ p.kind = "event" /\ stream.run = p.run /\ ~(p.n <= stream.lastSeq)
           /\ HubPublish(p.n, log[p.run][p.n]) /\ UNCHANGED <<cur, phase, log, saved>>
  <2>1. UNCHANGED runVars /\ broken \subseteq broken'
    BY <1>5 DEF HubPublish, runVars
  <2>. QED
    BY <1>1, <1>2, <1>5, <2>1, RunsKept
<1>6. CASE /\ cur = p.run /\ p.kind = "finish" /\ cur' = None /\ Goto(p.run, "released")
           /\ UNCHANGED <<log, saved, hubVars>>
  <2>1. /\ "released" \in Phases /\ cur' \in Run \cup {None} /\ phase[p.run] \in {"live", "ended"}
        /\ UNCHANGED <<stream, finished, sub, broken>> /\ log' = log /\ saved' = saved
    BY <1>1, <1>2, <1>6, RunFacts DEF PhasesInv, Holding, Phases, hubVars
  <2>2. /\ RunTypes' /\ FeedGrows /\ Begun /\ phase'[p.run] = "released"
        /\ \A q \in Run : q # p.run => phase'[q] = phase[q]
    BY <1>2, <1>6, <2>1, PhaseMoves
  <2>3. PhasesInv'
    BY <1>2, <1>6, <2>1, <2>2 DEF PhasesInv, Holding
  <2>. QED
    BY <1>1, <1>2, <1>6, <2>1, <2>2, <2>3 DEF RunStep, Finishes
<1>7. CASE ~Accepted(p)
  BY <1>1, <1>3, <1>7 DEF Ingest, Accepted, Unmoved, runVars, hubVars
<1>8. CASE Accepted(p)
  <2>1. CASE p.kind = "start"
    BY <1>4, <1>8, <2>1 DEF Ingest, Accepted, runVars
  <2>2. CASE p.kind = "event"
    <3>1. cur = p.run /\ stream.run = p.run
      BY <1>8, <2>2 DEF Accepted
    <3>2. /\ IF p.n <= stream.lastSeq THEN UNCHANGED hubVars
             ELSE HubPublish(p.n, Kind(p.run, p.n))
          /\ UNCHANGED runVars
      BY <1>8, <2>2 DEF Ingest
    <3>. QED
      BY <1>3, <1>5, <2>2, <3>1, <3>2 DEF Unmoved, runVars, hubVars, Kind
  <2>3. CASE p.kind = "finish"
    BY <1>6, <1>8, <2>3 DEF Ingest, Accepted
  <2>. QED
    BY <1>1, <2>1, <2>2, <2>3
<1>. QED
  BY <1>7, <1>8

LEMMA RunsSurvive ==
  ASSUME RunTypes, PhasesInv, HubTypes, Restart
  PROVE  /\ RunStep /\ log' = log /\ saved' = saved
         /\ \A r \in GatewayRun : phase'[r] \in {"live", "ended"} => phase'[r] = phase[r]
         /\ \A r \in Run : phase[r] = "idle" <=> phase'[r] = "idle"
<1>1. /\ phase' = [r \in Run |-> IF (r \notin GatewayRun /\ phase[r] \in {"up", "live", "released"})
                                  \/ (r \in GatewayRun /\ phase[r] = "released")
                                 THEN "dead" ELSE phase[r]]
      /\ cur' = IF cur \in GatewayRun THEN cur ELSE None
      /\ broken' = Run /\ log' = log /\ saved' = saved
      /\ phase \in [Run -> Phases] /\ broken \subseteq Run /\ cur \in Run \cup {None}
      /\ \A q \in Run : Len(log[q]) \in Nat /\ saved[q] \in Nat
  <2>1. \A q \in Run : Len(log[q]) \in Nat /\ saved[q] \in Nat
    BY DEF RunTypes
  <2>. QED
    BY <2>1 DEF Restart, RunTypes, HubTypes, Phases
<1>2. /\ \A r \in Run : phase'[r] = "dead" \/ phase'[r] = phase[r]
      /\ \A r \in GatewayRun : phase[r] \in Holding => phase'[r] = phase[r]
      /\ \A r \in Run : phase'[r] \in Holding => phase'[r] = phase[r] /\ r \in GatewayRun
      /\ \A r \in Run : phase[r] = "done" <=> phase'[r] = "done"
      /\ \A r \in Run : phase[r] = "idle" <=> phase'[r] = "idle"
      /\ phase' \in [Run -> Phases]
  <2>1. \A r \in Run : phase[r] = "ended" => r \in GatewayRun
    BY DEF PhasesInv
  <2>2. "dead" \in Phases
    BY DEF Phases
  <2>. QED
    BY <1>1, <2>1, <2>2, RunFacts DEF Holding
<1>3. RunTypes' /\ Begun
  BY <1>1, <1>2 DEF RunTypes, Phases, Begun
<1>4. FeedGrows
  BY <1>1, <1>2 DEF FeedGrows, Grows, Over
<1>5. PhasesInv'
  <2>1. cur' # None => phase'[cur'] \in Holding
    BY <1>1, <1>2, RunFacts DEF PhasesInv
  <2>2. \A r \in Run : phase'[r] \in Holding => cur' = r
    BY <1>1, <1>2 DEF PhasesInv
  <2>3. \A r \in Run : /\ phase'[r] = "up" => r \in MessageRun
                       /\ phase'[r] = "ended" => r \in GatewayRun
    BY <1>2 DEF PhasesInv, Holding
  <2>4. \A r \in Run : phase'[r] \in {"idle", "up"} \/ r \in CompactRun => Len(log'[r]) = 0
    BY <1>1, <1>2 DEF PhasesInv, Holding
  <2>. QED
    BY <1>1, <2>1, <2>2, <2>3, <2>4 DEF PhasesInv
<1>. QED
  BY <1>1, <1>2, <1>3, <1>4, <1>5, RunFacts DEF RunStep, Holding

-------------------------------------------------------------------------------
(* What a step does to the hub.                                            *)

LEMMA HubReady ==
  ASSUME HubInv, RunStep
  PROVE  /\ Ready /\ RunTypes' /\ PhasesInv' /\ broken \subseteq broken'
         /\ \A r \in Run : phase[r] = "done" => phase'[r] = "done"
         /\ stream.run \in Run \cup {None} /\ finished \subseteq Run
         /\ \A s \in Sub : sub[s].run \in Run \cup {None}
         /\ \A r \in Run : Len(log[r]) \in Nat /\ Len(log'[r]) \in Nat
         /\ stream.lastSeq \in Nat
         /\ stream.run # None => stream.lastSeq <= Len(log[stream.run])
<1>1. Ready
  BY DEF HubInv, RunStep, Ready, Settled
<1>2. /\ RunTypes' /\ PhasesInv' /\ broken \subseteq broken'
      /\ \A r \in Run : phase[r] = "done" => phase'[r] = "done"
  BY DEF RunStep, FeedGrows, Grows, Over
<1>3. /\ stream \in StreamSet /\ finished \subseteq Run /\ sub \in [Sub -> SeatSet]
  BY DEF HubInv, HubTypes
<1>4. stream.run \in Run \cup {None} /\ stream.lastSeq \in Nat
  BY <1>3 DEF StreamSet
<1>5. \A s \in Sub : sub[s].run \in Run \cup {None}
  BY <1>3 DEF SeatSet
<1>6. \A r \in Run : Len(log[r]) \in Nat /\ Len(log'[r]) \in Nat
  BY <1>2 DEF HubInv, RunTypes
<1>7. stream.run # None => stream.lastSeq <= Len(log[stream.run])
  BY DEF HubInv, StreamInv, StreamOK
<1>. QED
  BY <1>1, <1>2, <1>3, <1>4, <1>5, <1>6, <1>7

LEMMA MarksKept ==
  ASSUME HubInv, RunStep,
         \A q \in finished' : q \in finished \/ (q \in Run /\ phase'[q] = "done" /\ stream'.run # q),
         \/ stream'.run \in {stream.run, None}
         \/ stream'.run \in Run \ finished /\ phase[stream'.run] # "idle",
         \A s \in Sub : sub'[s].run = sub[s].run \/ (sub'[s].run = cur /\ cur # None)
  PROVE  MarksInv'
<1>1. /\ \A r \in Run : phase[r] = "done" => phase'[r] = "done"
      /\ stream.run \in Run \cup {None} /\ finished \subseteq Run
      /\ \A s \in Sub : sub[s].run \in Run \cup {None}
      /\ cur \in Run \cup {None} /\ (cur # None => phase[cur] # "idle")
      /\ \A r \in Run : phase[r] # "idle" => phase'[r] # "idle"
  BY HubReady DEF HubInv, PhasesInv, Holding, RunTypes, RunStep, Begun
<1>2. MarksInv
  BY DEF HubInv
<1>3. \A r \in finished' : phase'[r] = "done"
  BY <1>1, <1>2 DEF MarksInv
<1>4. stream'.run \notin finished'
  BY <1>1, <1>2, RunFacts DEF MarksInv
<1>5. stream'.run # None => phase'[stream'.run] # "idle"
  BY <1>1, <1>2 DEF MarksInv
<1>6. \A s \in Sub : sub'[s].run # None => phase'[sub'[s].run] # "idle"
  BY <1>1, <1>2 DEF MarksInv
<1>. QED
  BY <1>3, <1>4, <1>5, <1>6 DEF MarksInv

LEMMA LiveKept ==
  ASSUME HubInv, RunStep,
         stream'.run = stream.run => stream'.lastSeq = stream.lastSeq,
         stream'.run # stream.run => stream'.run = None \/ stream'.lastSeq = 0,
         \A r \in MessageRun : phase'[r] = "live" /\ r \notin broken'
           => phase[r] = "live" /\ stream'.run = stream.run /\ log'[r] = log[r],
         \A r \in Run : stream.run = r /\ r \notin broken' /\ phase'[r] \notin {"live", "ended"}
           => \/ phase[r] \notin {"live", "ended"} /\ log'[r] = log[r]
              \/ stream.lastSeq \in {0, Len(log'[r])}
  PROVE  LiveInv'
<1>1. LiveInv /\ broken \subseteq broken' /\ stream.run \in Run \cup {None}
  BY HubReady DEF HubInv
<1>2. ASSUME NEW r \in MessageRun, phase'[r] = "live", r \notin broken'
      PROVE  stream'.run = r /\ stream'.lastSeq = Len(log'[r])
  BY <1>1, <1>2 DEF LiveInv
<1>3. ASSUME stream'.run # None, stream'.run \notin broken', phase'[stream'.run] \notin {"live", "ended"}
      PROVE  stream'.lastSeq \in {0, Len(log'[stream'.run])}
  <2>1. CASE stream'.run = stream.run
    BY <1>1, <1>3, <2>1 DEF LiveInv
  <2>2. CASE stream'.run # stream.run
    BY <1>3, <2>2
  <2>. QED
    BY <2>1, <2>2
<1>. QED
  BY <1>2, <1>3 DEF LiveInv

\* The hub is left alone while the runs move.
LEMMA HubLeftAlone ==
  ASSUME HubInv, RunStep, UNCHANGED <<stream, finished, sub, broken>>,
         \A r \in MessageRun : phase'[r] = "live" /\ r \notin broken
           => phase[r] = "live" /\ log'[r] = log[r],
         \A r \in Run : stream.run = r /\ r \notin broken /\ phase'[r] \notin {"live", "ended"}
           => \/ phase[r] \notin {"live", "ended"} /\ log'[r] = log[r]
              \/ stream.lastSeq \in {0, Len(log'[r])}
  PROVE  HubInv' /\ SameSeats
<1>1. broken' \subseteq Run
  BY DEF HubInv, HubTypes
<1>2. Settled' /\ SameSeats
  BY <1>1, HubReady, HubQuiet
<1>3. MarksInv'
  BY MarksKept
<1>4. LiveInv'
  BY LiveKept
<1>. QED
  BY <1>2, <1>3, <1>4 DEF HubInv, RunStep, Settled

LEMMA HubUnmoved ==
  ASSUME HubInv, RunStep, Unmoved
  PROVE  HubInv' /\ SameSeats
BY HubLeftAlone DEF Unmoved

LEMMA BeginHub ==
  ASSUME HubInv, NEW r \in Run, Begin(r)
  PROVE  HubInv' /\ SameSeats
<1>1. RunTypes /\ PhasesInv /\ MarksInv
  BY DEF HubInv
<1>2. /\ RunStep /\ phase'[r] \in {"up", "live"} /\ (phase'[r] = "live" => r \notin MessageRun)
      /\ \A q \in Run : q # r => phase'[q] = phase[q]
  BY <1>1, BeginRuns
<1>3. /\ UNCHANGED <<stream, finished, sub, broken>> /\ log' = log /\ phase[r] = "idle"
  BY DEF Begin, hubVars
<1>4. stream.run # r
  BY <1>1, <1>3, RunFacts DEF MarksInv
<1>. QED
  BY <1>2, <1>3, <1>4, RunFacts, HubLeftAlone

LEMMA OpenHub ==
  ASSUME HubInv, NEW r \in Run, OpenStream(r)
  PROVE  HubInv' /\ SameSeats /\ stream'.run = r /\ broken' = broken
<1>1. RunTypes /\ PhasesInv /\ MarksInv /\ StreamInv
  BY DEF HubInv
<1>2. /\ RunStep /\ phase[r] = "up" /\ phase'[r] = "live" /\ r \in MessageRun /\ cur = r
      /\ log' = log /\ \A q \in Run : q # r => phase'[q] = phase[q]
  BY <1>1, StreamOpens
<1>3. HubStart(r) /\ Ready
  BY <1>2, HubReady DEF OpenStream
<1>4. /\ Settled' /\ SameSeats /\ stream'.run = r
      /\ stream'.lastSeq = IF stream.run = r THEN stream.lastSeq ELSE 0
      /\ finished' = finished /\ broken' = broken
  BY <1>3, HubStarted
<1>5. Len(log[r]) = 0
  BY <1>1, <1>2 DEF PhasesInv
<1>6. stream'.lastSeq = 0
  BY <1>2, <1>4, <1>5, HubReady, RunFacts
<1>7. r \notin finished
  BY <1>1, <1>2 DEF MarksInv
<1>8. MarksInv'
  BY <1>2, <1>4, <1>7, MarksKept DEF SameSeats
<1>9. \A q \in MessageRun : phase'[q] = "live" => q = r
  <2>1. \A q \in MessageRun : phase'[q] = "live" /\ q # r => cur = q
    BY <1>1, <1>2, RunFacts DEF PhasesInv, Holding
  <2>. QED
    BY <1>2, <2>1
<1>10. LiveInv'
  BY <1>2, <1>4, <1>5, <1>6, <1>9 DEF LiveInv
<1>. QED
  BY <1>2, <1>4, <1>8, <1>10 DEF HubInv, RunStep, Settled

LEMMA EmitHub ==
  ASSUME HubInv, NEW r \in Run, NEW kind \in Kinds, Emit(r, kind)
  PROVE  /\ HubInv' /\ SameSeats /\ broken' = broken
         /\ r \in GatewayRun => stream' = stream
         /\ r \in MessageRun => stream'.run = stream.run
         /\ stream.run # r => stream' = stream
<1>. DEFINE n == Len(log[r]) + 1
<1>1. RunTypes /\ PhasesInv /\ LiveInv
  BY DEF HubInv
<1>2. /\ RunStep /\ phase' = phase /\ saved' = saved /\ cur' = cur /\ phase[r] = "live" /\ cur = r
      /\ n \in Nat /\ n > 0 /\ Len(log'[r]) = n
      /\ kind = "status" => n <= saved'[r] + 1
      /\ \A q \in Run : q # r => log'[q] = log[q]
      /\ \/ r \in GatewayRun /\ r \notin MessageRun /\ UNCHANGED hubVars
         \/ /\ r \in MessageRun /\ r \notin GatewayRun
            /\ IF stream.run = r THEN HubPublish(n, kind) ELSE UNCHANGED hubVars
  BY <1>1, AgentEmits
<1>. HIDE DEF n
<1>3. \A q \in MessageRun : phase[q] = "live" => q = r
  BY <1>1, <1>2, RunFacts DEF PhasesInv, Holding
<1>4. CASE UNCHANGED hubVars /\ (r \in MessageRun => stream.run # r)
  <2>1. UNCHANGED <<stream, finished, sub, broken>>
    BY <1>4 DEF hubVars
  <2>2. r \in MessageRun => r \in broken
    BY <1>1, <1>2, <1>4 DEF LiveInv
  <2>3. \A q \in MessageRun : phase'[q] = "live" /\ q \notin broken
           => phase[q] = "live" /\ log'[q] = log[q]
    BY <1>2, <1>3, <2>2
  <2>4. \A q \in Run : stream.run = q /\ q \notin broken /\ phase'[q] \notin {"live", "ended"}
           => \/ phase[q] \notin {"live", "ended"} /\ log'[q] = log[q]
              \/ stream.lastSeq \in {0, Len(log'[q])}
    BY <1>2
  <2>5. HubInv' /\ SameSeats
    BY <1>2, <2>1, <2>3, <2>4, HubLeftAlone
  <2>. QED
    BY <1>2, <2>1, <2>5
<1>5. CASE r \in MessageRun /\ r \notin GatewayRun /\ stream.run = r /\ HubPublish(n, kind)
  <2>1. Ready /\ stream.run # None /\ stream.lastSeq \in Nat /\ stream.lastSeq <= Len(log[r])
        /\ Len(log[r]) \in Nat
    BY <1>2, <1>5, HubReady, RunFacts
  <2>2. stream.run \in broken \/ n = stream.lastSeq + 1
    BY <1>1, <1>2, <1>5 DEF LiveInv, n
  <2>3. n > stream.lastSeq /\ n <= Len(log'[stream.run])
    BY <1>2, <1>5, <2>1 DEF n
  <2>4. /\ Settled' /\ SameSeats /\ stream'.run = stream.run /\ stream'.lastSeq = n
        /\ finished' = finished /\ broken' = broken
    BY <1>2, <1>5, <2>1, <2>2, <2>3, HubPublished
  <2>5. MarksInv'
    BY <1>2, <2>4, MarksKept DEF SameSeats
  <2>6. LiveInv'
    BY <1>2, <1>3, <1>5, <2>4 DEF LiveInv
  <2>. QED
    BY <1>2, <1>5, <2>4, <2>5, <2>6 DEF HubInv, RunStep, Settled
<1>. QED
  BY <1>2, <1>4, <1>5

LEMMA SaveHub ==
  ASSUME HubInv, NEW r \in Run, Save(r)
  PROVE  HubInv' /\ SameSeats
<1>1. RunTypes /\ PhasesInv
  BY DEF HubInv
<1>2. RunStep /\ phase' = phase /\ log' = log /\ UNCHANGED <<stream, finished, sub, broken>>
  BY <1>1, StepIsSaved DEF hubVars
<1>. QED
  BY <1>2, HubLeftAlone

LEMMA EndHub ==
  ASSUME HubInv, NEW r \in Run, EndTurn(r)
  PROVE  HubInv' /\ SameSeats
<1>1. RunTypes /\ PhasesInv /\ LiveInv
  BY DEF HubInv
<1>2. /\ RunStep /\ phase[r] = "live" /\ cur = r /\ log' = log
      /\ UNCHANGED <<stream, finished, sub, broken>>
      /\ \A q \in Run : q # r => phase'[q] = phase[q]
      /\ \/ r \in MessageRun /\ phase'[r] = "released"
         \/ r \notin MessageRun /\ phase'[r] = "done" /\ Len(log[r]) = 0
         \/ r \notin MessageRun /\ phase'[r] = "ended"
  BY <1>1, TurnsEnd
<1>3. \A q \in MessageRun : phase'[q] = "live" => phase[q] = "live"
  BY <1>2, RunFacts
<1>4. stream.run = r /\ r \notin broken /\ phase'[r] \notin {"live", "ended"}
        => stream.lastSeq \in {0, Len(log'[r])}
  <2>1. CASE r \in MessageRun
    BY <1>1, <1>2, <2>1 DEF LiveInv
  <2>2. CASE Len(log[r]) = 0
    BY <1>2, <2>2, HubReady, RunFacts
  <2>. QED
    BY <1>2, <2>1, <2>2
<1>5. \A q \in Run : stream.run = q /\ q \notin broken /\ phase'[q] \notin {"live", "ended"}
           => \/ phase[q] \notin {"live", "ended"} /\ log'[q] = log[q]
              \/ stream.lastSeq \in {0, Len(log'[q])}
  BY <1>2, <1>4
<1>. QED
  BY <1>2, <1>3, <1>5, HubLeftAlone

LEMMA AnnounceHub ==
  ASSUME HubInv, NEW r \in Run, Announce(r)
  PROVE  /\ HubInv' /\ SameSeats /\ broken' = broken
         /\ \A q \in Run : phase[q] \in {"live", "ended"} /\ stream.run = q => stream' = stream
<1>1. RunTypes /\ PhasesInv /\ MarksInv /\ LiveInv
  BY DEF HubInv
<1>2. /\ RunStep /\ phase[r] = "released" /\ phase'[r] = "done" /\ log' = log
      /\ \A q \in Run : q # r => phase'[q] = phase[q]
  BY <1>1, EndIsAnnounced
<1>3. HubFinish(r) /\ Ready /\ r \in Over'
  BY <1>2, HubReady DEF Announce, Over
<1>4. stream.run = r => r \in broken \/ stream.lastSeq \in {0, Len(log'[r])}
  BY <1>1, <1>2, RunFacts DEF LiveInv
<1>5. /\ Settled' /\ SameSeats /\ finished' \subseteq finished \cup {r} /\ broken' = broken
      /\ IF stream.run = r THEN stream'.run = None ELSE stream' = stream
  BY <1>3, <1>4, HubFinished
<1>6. stream'.run # r
  BY <1>5, RunFacts
<1>7. MarksInv'
  BY <1>2, <1>5, <1>6, MarksKept DEF SameSeats
<1>8. \A q \in MessageRun : phase'[q] = "live" => phase[q] = "live" /\ q # r
  BY <1>2, RunFacts
<1>9. LiveInv'
  <2>1. ASSUME NEW q \in MessageRun, phase'[q] = "live", q \notin broken'
        PROVE  stream'.run = q /\ stream'.lastSeq = Len(log'[q])
    <3>1. stream.run = q /\ stream.lastSeq = Len(log[q]) /\ q # r
      BY <1>1, <1>5, <1>8, <2>1 DEF LiveInv
    <3>. QED
      BY <1>2, <1>5, <3>1
  <2>2. ASSUME stream'.run # None, stream'.run \notin broken', phase'[stream'.run] \notin {"live", "ended"}
        PROVE  stream'.lastSeq \in {0, Len(log'[stream'.run])}
    <3>1. stream' = stream /\ stream.run # r /\ stream.run \in Run
      BY <1>2, <1>5, <2>2, HubReady
    <3>. QED
      BY <1>1, <1>2, <1>5, <2>2, <3>1 DEF LiveInv
  <2>. QED
    BY <2>1, <2>2 DEF LiveInv
<1>. QED
  BY <1>2, <1>5, <1>7, <1>9 DEF HubInv, RunStep, Settled

\* What a packet does when it is taken: the three kinds of it.
PacketMoves(p) ==
    \/ /\ Unmoved
       /\ \/ cur # p.run
          \/ p.kind = "event" /\ (stream.run # p.run \/ p.n <= stream.lastSeq)
    \/ /\ cur = p.run /\ p.kind = "start" /\ UNCHANGED <<cur, phase, log, saved>>
       /\ stream'.run = p.run
       /\ stream'.lastSeq = IF stream.run = p.run THEN stream.lastSeq ELSE 0
    \/ /\ cur = p.run /\ p.kind = "event" /\ UNCHANGED <<cur, phase, log, saved>>
       /\ stream.run = p.run /\ ~(p.n <= stream.lastSeq)
       /\ stream'.run = p.run /\ stream'.lastSeq = p.n
    \/ cur = p.run /\ p.kind = "finish" /\ Finishes(p.run)

\* An event in a packet is one of the run, and not ahead of the stream; the
\* end comes when the stream has all the events.
Timely(p) ==
    /\ p.kind = "event" => p.n <= Len(log[p.run])
    /\ cur = p.run /\ stream.run = p.run /\ p.run \notin broken =>
         /\ p.kind = "event" /\ ~(p.n <= stream.lastSeq) => p.n = stream.lastSeq + 1
         /\ p.kind = "finish" => stream.lastSeq = Len(log[p.run])

LEMMA PacketHub ==
  ASSUME HubInv, NEW p \in Packet, Ingest(p), Timely(p)
  PROVE  /\ HubInv' /\ SameSeats /\ broken' = broken /\ PacketMoves(p) /\ RunStep
         /\ p.run \in GatewayRun /\ p.run \in Run /\ p.n \in Nat
         /\ cur = p.run => phase[p.run] \in {"live", "ended"}
<1>. DEFINE r == p.run
<1>1. RunTypes /\ PhasesInv /\ LiveInv /\ MarksInv
  BY DEF HubInv
<1>2. /\ RunStep /\ r \in GatewayRun /\ p.n \in Nat
      /\ \/ /\ Unmoved
            /\ \/ cur # r
               \/ p.kind = "event" /\ (stream.run # r \/ p.n <= stream.lastSeq)
         \/ /\ cur = r /\ p.kind = "start" /\ HubStart(r)
            /\ UNCHANGED <<cur, phase, log, saved>>
         \/ /\ cur = r /\ p.kind = "event" /\ stream.run = r /\ ~(p.n <= stream.lastSeq)
            /\ HubPublish(p.n, log[r][p.n]) /\ UNCHANGED <<cur, phase, log, saved>>
         \/ cur = r /\ p.kind = "finish" /\ Finishes(r)
  BY <1>1, PacketHandled
<1>3. r \in Run /\ r \notin MessageRun /\ r # None
  BY <1>2, RunFacts
<1>4. cur = r => phase[r] \in {"live", "ended"} /\ r \notin finished
  BY <1>1, <1>3 DEF PhasesInv, MarksInv, Holding
<1>5. CASE Unmoved /\ (cur # r \/ (p.kind = "event" /\ (stream.run # r \/ p.n <= stream.lastSeq)))
  <2>1. HubInv' /\ SameSeats
    BY <1>2, <1>5, HubUnmoved
  <2>2. broken' = broken
    BY <1>5 DEF Unmoved
  <2>3. PacketMoves(p)
    BY <1>5 DEF PacketMoves
  <2>. QED
    BY <1>2, <1>3, <1>4, <2>1, <2>2, <2>3
<1>6. CASE cur = r /\ p.kind = "start" /\ HubStart(r) /\ UNCHANGED <<cur, phase, log, saved>>
  <2>1. /\ Settled' /\ SameSeats /\ stream'.run = r
        /\ stream'.lastSeq = IF stream.run = r THEN stream.lastSeq ELSE 0
        /\ finished' = finished /\ broken' = broken
    BY <1>2, <1>3, <1>6, HubReady, HubStarted
  <2>2. MarksInv'
    BY <1>2, <1>3, <1>4, <1>6, <2>1, MarksKept DEF SameSeats
  <2>3. \A q \in MessageRun : phase'[q] # "live"
    <3>1. \A q \in MessageRun : phase[q] = "live" => cur = q
      BY <1>1, RunFacts DEF PhasesInv, Holding
    <3>. QED
      BY <1>3, <1>6, <3>1
  <2>4. LiveInv'
    BY <1>4, <1>6, <2>1, <2>3 DEF LiveInv
  <2>5. PacketMoves(p)
    BY <1>6, <2>1 DEF PacketMoves
  <2>. QED
    BY <1>2, <1>3, <1>4, <2>1, <2>2, <2>4, <2>5 DEF HubInv, RunStep, Settled
<1>7. CASE /\ cur = r /\ p.kind = "event" /\ stream.run = r /\ ~(p.n <= stream.lastSeq)
           /\ HubPublish(p.n, log[r][p.n]) /\ UNCHANGED <<cur, phase, log, saved>>
  <2>1. /\ p.n \in Nat /\ stream.lastSeq \in Nat /\ p.n > 0 /\ p.n > stream.lastSeq
        /\ p.n <= Len(log'[r]) /\ Len(log[r]) \in Nat
    BY <1>2, <1>3, <1>7, HubReady DEF Timely
  <2>2. stream.run \in broken \/ p.n = stream.lastSeq + 1
    BY <1>7 DEF Timely
  <2>3. log[r][p.n] = "status" => p.n <= saved'[r] + 1
    <3>1. p.n \in 1..Len(log[r])
      BY <1>7, <2>1
    <3>. QED
      BY <1>1, <1>3, <1>7, <3>1 DEF PhasesInv
  <2>4. Ready /\ stream.run # None
    BY <1>2, <1>3, <1>7, HubReady
  <2>. DEFINE kind == log[r][p.n]
              n == p.n
  <2>5. /\ n \in Nat /\ n > 0 /\ HubPublish(n, kind) /\ n <= Len(log'[stream.run]) /\ n > stream.lastSeq
        /\ (stream.run \in broken \/ n = stream.lastSeq + 1)
        /\ (kind = "status" => n <= saved'[stream.run] + 1)
    BY <1>7, <2>1, <2>2, <2>3
  <2>. HIDE DEF kind, n
  <2>6. /\ Settled' /\ SameSeats /\ stream'.run = stream.run /\ stream'.lastSeq = n
        /\ finished' = finished /\ broken' = broken
    BY <2>4, <2>5, HubPublished
  <2>7. stream'.lastSeq = p.n
    BY <2>6 DEF n
  <2>8. MarksInv'
    BY <1>2, <2>6, MarksKept DEF SameSeats
  <2>9. \A q \in MessageRun : phase'[q] # "live"
    <3>1. \A q \in MessageRun : phase[q] = "live" => cur = q
      BY <1>1, RunFacts DEF PhasesInv, Holding
    <3>. QED
      BY <1>3, <1>7, <3>1
  <2>10. LiveInv'
    BY <1>4, <1>7, <2>6, <2>9 DEF LiveInv
  <2>11. PacketMoves(p)
    BY <1>7, <2>6, <2>7 DEF PacketMoves
  <2>. QED
    BY <1>2, <1>3, <1>4, <2>6, <2>8, <2>10, <2>11 DEF HubInv, RunStep, Settled
<1>8. CASE cur = r /\ p.kind = "finish" /\ Finishes(r)
  <2>1. /\ UNCHANGED <<stream, finished, sub, broken>> /\ log' = log
        /\ \A q \in Run : q # r => phase'[q] = phase[q]
    BY <1>8 DEF Finishes
  <2>2. stream.run = r /\ r \notin broken => stream.lastSeq = Len(log'[r])
    BY <1>8, <2>1 DEF Timely
  <2>3. HubInv' /\ SameSeats
    BY <1>2, <1>3, <2>1, <2>2, RunFacts, HubLeftAlone
  <2>4. PacketMoves(p)
    BY <1>8 DEF PacketMoves
  <2>. QED
    BY <1>2, <1>3, <1>4, <2>1, <2>3, <2>4
<1>. QED
  BY <1>2, <1>5, <1>6, <1>7, <1>8

\* The clients.
LEMMA ReadHub ==
  ASSUME HubInv, NEW s \in Sub, ReadCurrent(s)
  PROVE  /\ HubInv' /\ stream' = stream /\ broken' = broken /\ RunStep
         /\ sub[s].run = None /\ sub'[s].run = cur /\ sub'[s].got = sub[s].got /\ cur \in Run
         /\ \A t \in Sub : t # s => sub'[t] = sub[t]
<1>1. RunTypes /\ PhasesInv /\ UNCHANGED runVars /\ broken' = broken /\ cur # None
      /\ UNCHANGED <<cur, phase, log, saved>>
  BY DEF HubInv, ReadCurrent, runVars
<1>2. RunStep
  BY <1>1, RunsKept
<1>3. /\ Settled' /\ stream' = stream /\ finished' = finished /\ broken' = broken
      /\ sub[s].run = None /\ sub'[s].run = cur /\ sub'[s].got = sub[s].got /\ cur \in Run
      /\ \A t \in Sub : t # s => sub'[t] = sub[t]
  BY <1>2, HubReady, ClientReads
<1>4. MarksInv'
  <2>1. \A t \in Sub : sub'[t].run = sub[t].run \/ (sub'[t].run = cur /\ cur # None)
    BY <1>1, <1>3
  <2>. QED
    BY <1>2, <1>3, <2>1, MarksKept
<1>5. LiveInv'
  BY <1>1, <1>2, <1>3, LiveKept
<1>. QED
  BY <1>2, <1>3, <1>4, <1>5 DEF HubInv, RunStep, Settled

LEMMA SubscribeHub ==
  ASSUME HubInv, NEW s \in Sub, Subscribe(s)
  PROVE  /\ HubInv' /\ SameSeats /\ RunStep /\ broken \subseteq broken' /\ broken' \subseteq Run
         /\ \/ stream'.run = stream.run /\ stream'.lastSeq = stream.lastSeq
            \/ stream'.lastSeq = 0 /\ (stream.run = None \/ stream.run \in broken')
<1>1. RunTypes /\ PhasesInv /\ MarksInv /\ LiveInv /\ UNCHANGED runVars
      /\ UNCHANGED <<cur, phase, log, saved>> /\ broken \subseteq broken'
  BY DEF HubInv, Subscribe, Replace, runVars
<1>2. RunStep
  BY <1>1, RunsKept
<1>3. /\ Settled' /\ SameSeats /\ finished' = finished
      /\ \/ stream'.run = stream.run /\ stream'.lastSeq = stream.lastSeq /\ broken' = broken
         \/ /\ stream'.run = sub[s].run /\ stream'.run # stream.run
            /\ sub[s].run \in Run \ finished
            /\ stream'.lastSeq = 0
            /\ broken' = broken \cup (IF stream.run = None THEN {} ELSE {stream.run})
  BY <1>2, HubReady, ClientSubscribes
<1>4. sub[s].run \in Run => phase[sub[s].run] # "idle"
  BY <1>1, RunFacts DEF MarksInv
<1>5. MarksInv'
  BY <1>2, <1>3, <1>4, MarksKept DEF SameSeats
<1>6. LiveInv'
  <2>1. \A r \in MessageRun : phase'[r] = "live" /\ r \notin broken'
           => phase[r] = "live" /\ stream'.run = stream.run /\ log'[r] = log[r]
    <3>1. \A r \in MessageRun : phase[r] = "live" /\ r \notin broken => stream.run = r
      BY <1>1 DEF LiveInv
    <3>. QED
      BY <1>1, <1>3, <3>1, RunFacts
  <2>. QED
    BY <1>1, <1>2, <1>3, <2>1, LiveKept
<1>7. broken' \subseteq Run
  BY <1>3 DEF Settled, HubTypes
<1>. QED
  BY <1>1, <1>2, <1>3, <1>5, <1>6, <1>7 DEF HubInv, RunStep, Settled

LEMMA DeliverHub ==
  ASSUME HubInv, NEW s \in Sub, Deliver(s)
  PROVE  /\ HubInv' /\ stream' = stream /\ broken' = broken /\ RunStep
         /\ sub[s].pc = "in" /\ sub'[s].run = sub[s].run
         /\ \A t \in Sub : t # s => sub'[t] = sub[t]
         /\ sub[s].replay # <<>> \/ (sub[s].replay = <<>> /\ sub[s].queue # <<>>)
         /\ sub'[s].got = Append(sub[s].got, IF sub[s].replay # <<>> THEN Head(sub[s].replay)
                                                                     ELSE Head(sub[s].queue))
<1>1. RunTypes /\ PhasesInv /\ UNCHANGED runVars /\ broken' = broken
      /\ UNCHANGED <<cur, phase, log, saved>>
  BY DEF HubInv, Deliver, runVars
<1>2. RunStep
  BY <1>1, RunsKept
<1>3. /\ Settled' /\ stream' = stream /\ finished' = finished /\ broken' = broken
      /\ sub[s].pc = "in" /\ sub'[s].run = sub[s].run
      /\ \A t \in Sub : t # s => sub'[t] = sub[t]
      /\ sub[s].replay # <<>> \/ (sub[s].replay = <<>> /\ sub[s].queue # <<>>)
      /\ sub'[s].got = Append(sub[s].got, IF sub[s].replay # <<>> THEN Head(sub[s].replay)
                                                                  ELSE Head(sub[s].queue))
  BY <1>2, HubReady, ClientGets
<1>4. MarksInv'
  <2>1. \A t \in Sub : sub'[t].run = sub[t].run
    BY <1>3
  <2>. QED
    BY <1>2, <1>3, <2>1, MarksKept
<1>5. LiveInv'
  BY <1>1, <1>2, <1>3, LiveKept
<1>. QED
  BY <1>2, <1>3, <1>4, <1>5 DEF HubInv, RunStep, Settled

LEMMA LeaveHub ==
  ASSUME HubInv, NEW s \in Sub, StreamEnds(s)
  PROVE  /\ HubInv' /\ SameSeats /\ RunStep /\ broken' = broken
         /\ stream'.run = stream.run /\ stream'.lastSeq = stream.lastSeq
<1>1. RunTypes /\ PhasesInv /\ UNCHANGED runVars /\ broken' = broken
      /\ UNCHANGED <<cur, phase, log, saved>>
  BY DEF HubInv, StreamEnds, runVars
<1>2. RunStep
  BY <1>1, RunsKept
<1>3. /\ Settled' /\ SameSeats /\ finished' = finished
      /\ stream'.run = stream.run /\ stream'.lastSeq = stream.lastSeq
  BY <1>2, HubReady, ClientLeaves
<1>4. MarksInv'
  BY <1>2, <1>3, MarksKept DEF SameSeats
<1>5. LiveInv'
  BY <1>1, <1>2, <1>3, LiveKept
<1>. QED
  BY <1>1, <1>2, <1>3, <1>4, <1>5 DEF HubInv, RunStep, Settled

LEMMA RestartHub ==
  ASSUME HubInv, Restart
  PROVE  /\ HubInv' /\ SameSeats /\ RunStep /\ broken' = Run
<1>1. RunTypes /\ PhasesInv /\ HubTypes
  BY DEF HubInv
<1>2. RunStep
  BY <1>1, RunsSurvive
<1>3. /\ Settled' /\ SameSeats /\ finished' = {} /\ broken' = Run /\ stream'.run = None
  BY <1>2, HubReady, ServeRestarts
<1>4. MarksInv'
  BY <1>2, <1>3, MarksKept DEF SameSeats
<1>5. LiveInv'
  BY <1>3, RunFacts DEF LiveInv
<1>. QED
  BY <1>2, <1>3, <1>4, <1>5 DEF HubInv, RunStep, Settled

-------------------------------------------------------------------------------
(* The packets.                                                            *)

QueueOK(q, r, len) ==
    \A i \in 1..Len(q) : q[i].run = r /\ (q[i].kind = "event" => q[i].n \in 1..len)

LEMMA PacketsKept ==
  ASSUME HubInv, BridgeTypes, PacketsInv, RunStep,
         packets' \in [GatewayRun -> Seq(Packet)],
         \A r \in GatewayRun : \/ packets'[r] = packets[r]
                               \/ phase'[r] # "idle" /\ QueueOK(packets'[r], r, Len(log'[r])),
         \A r \in discard' : r \in discard \/ (r \in GatewayRun /\ phase'[r] # "idle"),
         \A p \in stray' : \/ p \in stray
                           \/ /\ p \in Packet /\ phase'[p.run] # "idle"
                              /\ p.kind = "event" => p.n \in 1..Len(log'[p.run]),
         losses' \in 0..MaxLosses, restarts' \in 0..MaxRestarts
  PROVE  BridgeTypes' /\ PacketsInv'
<1>1. /\ \A r \in Run : Len(log[r]) \in Nat /\ Len(log'[r]) \in Nat /\ Len(log[r]) <= Len(log'[r])
      /\ \A r \in Run : phase[r] # "idle" => phase'[r] # "idle"
      /\ GatewayRun \subseteq Run
  BY HubReady, RunFacts DEF RunStep, FeedGrows, Grows, Begun
<1>2. ASSUME NEW r \in GatewayRun
      PROVE  /\ QueueOK(packets'[r], r, Len(log'[r]))
             /\ phase'[r] = "idle" => packets'[r] = <<>> /\ r \notin discard'
  <2>1. QueueOK(packets[r], r, Len(log'[r]))
    BY <1>1, SMTT(40) DEF QueueOK, BridgeTypes, PacketsInv
  <2>2. phase'[r] = "idle" => packets[r] = <<>> /\ r \notin discard
    BY <1>1 DEF PacketsInv
  <2>. QED
    BY <2>1, <2>2
<1>3. ASSUME NEW p \in stray'
      PROVE  /\ p \in Packet /\ phase'[p.run] # "idle"
             /\ p.kind = "event" => p.n \in 1..Len(log'[p.run])
  <2>1. CASE p \in stray
    <3>1. /\ p \in Packet /\ phase[p.run] # "idle" /\ p.run \in GatewayRun
          /\ p.kind = "event" => p.n \in 1..Len(log[p.run])
      BY <2>1 DEF BridgeTypes, PacketsInv, Packet
    <3>. QED
      BY <1>1, <3>1
  <2>. QED
    BY <1>3, <2>1
<1>4. discard' \subseteq GatewayRun
  BY DEF BridgeTypes
<1>5. BridgeTypes'
  BY <1>2, <1>3, <1>4 DEF BridgeTypes, QueueOK
<1>6. PacketsInv'
  BY <1>2, <1>3 DEF PacketsInv, QueueOK
<1>. QED
  BY <1>5, <1>6

LEMMA SentKept ==
  ASSUME NEW q, NEW len, NEW has, NEW last, NEW S, NEW has2, NEW last2, NEW S2,
         Sent(q, len, has, last, S), S2 \subseteq S, has => has2,
         has2 => last2 = IF has THEN last ELSE 0
  PROVE  Sent(q, len, has2, last2, S2)
BY DEF Sent

\* The packets of the run that has the session are left alone.
LEMMA BridgeKept ==
  ASSUME HubInv, BridgeInv, RunStep, broken \subseteq broken',
         \A r \in GatewayRun : cur' = r /\ phase'[r] \in {"live", "ended"} /\ r \notin broken' =>
           /\ phase'[r] = phase[r] /\ log'[r] = log[r]
           /\ packets'[r] = packets[r] /\ (r \in discard' => r \in discard)
           /\ \A p \in stray' : p.run = r => p \in stray
           /\ stream.run = r => stream'.run = r
           /\ stream'.run = r => stream'.lastSeq = IF stream.run = r THEN stream.lastSeq ELSE 0
  PROVE  BridgeInv'
<1>. SUFFICES ASSUME NEW r \in GatewayRun, phase'[r] \in {"live", "ended"}, r \notin broken'
              PROVE  BridgeOK(r)'
  BY DEF BridgeInv
<1>1. cur' = r
  BY RunFacts DEF RunStep, PhasesInv, Holding
<1>2. /\ phase'[r] = phase[r] /\ log'[r] = log[r]
      /\ packets'[r] = packets[r] /\ (r \in discard' => r \in discard)
      /\ \A p \in stray' : p.run = r => p \in stray
      /\ stream.run = r => stream'.run = r
      /\ stream'.run = r => stream'.lastSeq = IF stream.run = r THEN stream.lastSeq ELSE 0
  BY <1>1
<1>3. BridgeOK(r)
  BY <1>2 DEF BridgeInv
<1>4. Strays(r)' \subseteq Strays(r)
  BY <1>2 DEF Strays
<1>5. Sent(packets[r], Len(log[r]), stream.run = r, stream.lastSeq, Strays(r))
  BY <1>3 DEF BridgeOK
<1>6. Sent(packets[r], Len(log[r]), stream'.run = r, stream'.lastSeq, Strays(r)')
  BY <1>2, <1>4, <1>5, SentKept, ZenonT(60)
<1>. QED
  BY <1>2, <1>3, <1>6 DEF BridgeOK

\* The head of the queue.
LEMMA HeadFacts ==
  ASSUME HubInv, BridgeTypes, PacketsInv, NEW r \in GatewayRun, packets[r] # <<>>
  PROVE  LET q == packets[r]
             p == Head(packets[r]) IN
         /\ p = q[1] /\ p \in Packet /\ p.run = r /\ p.kind \in {"start", "event", "finish"}
         /\ p.n \in Nat /\ p.kind = HeadKind(q) /\ Len(q) \in Nat /\ Len(q) > 0 /\ phase[r] # "idle"
         /\ p.kind = "event" => p.n \in 1..Len(log[r])
         /\ Tail(q) \in Seq(Packet) /\ Len(Tail(q)) = Len(q) - 1
         /\ \A i \in 1..Len(Tail(q)) : Tail(q)[i] = q[i + 1]
         /\ r \in Run /\ Len(log[r]) \in Nat
<1>. DEFINE q == packets[r]
<1>1. q \in Seq(Packet) /\ q # <<>>
  BY DEF BridgeTypes
<1>2. /\ Len(q) \in Nat /\ Len(q) > 0 /\ Head(q) = q[1] /\ q[1] \in Packet /\ 1 \in 1..Len(q)
      /\ Tail(q) \in Seq(Packet) /\ Len(Tail(q)) = Len(q) - 1
      /\ \A i \in 1..Len(Tail(q)) : Tail(q)[i] = q[i + 1]
  BY <1>1
<1>3. /\ q[1].run = r /\ (q[1].kind = "event" => q[1].n \in 1..Len(log[r])) /\ phase[r] # "idle"
  BY <1>1, <1>2 DEF BridgeTypes, PacketsInv
<1>4. q[1].kind \in {"start", "event", "finish"} /\ q[1].n \in Nat
  BY <1>2, RunFacts DEF Packet
<1>5. q[1].kind = HeadKind(q)
  BY <1>2 DEF HeadKind
<1>6. r \in Run /\ Len(log[r]) \in Nat
  BY RunFacts DEF HubInv, RunTypes
<1>. QED
  BY <1>2, <1>3, <1>4, <1>5, <1>6

\* The head of a queue, and a late packet, are timely.
LEMMA HeadIsTimely ==
  ASSUME FeedInv, NEW r \in GatewayRun, packets[r] # <<>>
  PROVE  Timely(Head(packets[r]))
<1>. DEFINE p == Head(packets[r])
<1>1. /\ p = packets[r][1] /\ p.run = r /\ p.kind \in {"start", "event", "finish"}
      /\ p.n \in Nat /\ p.kind = HeadKind(packets[r]) /\ r \in Run
      /\ p.kind = "event" => p.n \in 1..Len(log[r])
  BY HeadFacts DEF FeedInv
<1>. HIDE DEF p
<1>2. p.kind = "event" => p.n <= Len(log[p.run])
  BY <1>1
<1>3. ASSUME cur = p.run, stream.run = p.run, p.run \notin broken
      PROVE  /\ p.kind = "event" /\ ~(p.n <= stream.lastSeq) => p.n = stream.lastSeq + 1
             /\ p.kind = "finish" => stream.lastSeq = Len(log[p.run])
  <2>1. phase[r] \in {"live", "ended"}
    BY <1>1, <1>3, RunFacts DEF FeedInv, HubInv, PhasesInv, Holding
  <2>2. Sent(packets[r], Len(log[r]), TRUE, stream.lastSeq, Strays(r))
    BY <1>1, <1>3, <2>1 DEF FeedInv, BridgeInv, BridgeOK
  <2>3. stream.lastSeq \in Nat
    BY DEF FeedInv, HubInv, HubTypes, StreamSet
  <2>. QED
    BY <1>1, <2>2, <2>3 DEF Sent
<1>4. Timely(p)
  BY <1>2, <1>3 DEF Timely
<1>. QED
  BY <1>4 DEF p

LEMMA StrayIsTimely ==
  ASSUME FeedInv, NEW p \in stray
  PROVE  /\ Timely(p) /\ p \in Packet /\ p.run \in GatewayRun /\ p.n \in Nat
         /\ p.kind \in {"start", "event", "finish"} /\ phase[p.run] # "idle"
         /\ p.kind = "event" => p.n \in 1..Len(log[p.run])
<1>. DEFINE r == p.run
<1>1. /\ p \in Packet /\ r \in GatewayRun /\ p.kind \in {"start", "event", "finish"} /\ r \in Run
      /\ p.n \in Nat /\ p \in Strays(r) /\ phase[r] # "idle"
      /\ p.kind = "event" => p.n \in 1..Len(log[r])
  BY RunFacts DEF FeedInv, BridgeTypes, PacketsInv, Packet, Strays
<1>2. ASSUME cur = r, stream.run = r, r \notin broken
      PROVE  /\ p.kind = "event" /\ ~(p.n <= stream.lastSeq) => p.n = stream.lastSeq + 1
             /\ p.kind = "finish" => stream.lastSeq = Len(log[r])
  <2>1. phase[r] \in {"live", "ended"}
    BY <1>1, <1>2, RunFacts DEF FeedInv, HubInv, PhasesInv, Holding
  <2>2. Sent(packets[r], Len(log[r]), TRUE, stream.lastSeq, Strays(r))
    BY <1>1, <1>2, <2>1 DEF FeedInv, BridgeInv, BridgeOK
  <2>3. stream.lastSeq \in Nat
    BY DEF FeedInv, HubInv, HubTypes, StreamSet
  <2>. QED
    BY <1>1, <2>2, <2>3 DEF Sent
<1>. QED
  BY <1>1, <1>2 DEF Timely

\* A queue gets an event, gets the end, or moves on.
Ends(q) == Len(q) > 0 /\ q[Len(q)].kind = "finish"

LEMMA QueueGetsEvent ==
  ASSUME NEW q \in Seq(Packet), NEW len \in Nat, NEW has, NEW last \in Nat, NEW S \in SUBSET Packet,
         NEW p \in Packet, p.kind = "event", p.n = len + 1,
         Queued(q, len), ~Ends(q), Sent(q, len, has, last, S)
  PROVE  /\ Queued(Append(q, p), len + 1) /\ ~Ends(Append(q, p))
         /\ Sent(Append(q, p), len + 1, has, last, S)
<1>. DEFINE q2 == Append(q, p)
<1>1. /\ Len(q) \in Nat /\ Len(q2) = Len(q) + 1 /\ q2[Len(q) + 1] = p
      /\ \A i \in 1..Len(q) : q2[i] = q[i]
      /\ \A x \in S : x.n \in Nat
  BY RunFacts DEF Packet
<1>. HIDE DEF q2
<1>2. \A i \in 1..Len(q2) : i \in 1..Len(q) \/ i = Len(q) + 1
  BY <1>1
<1>3. Len(q) > 0 => q[Len(q)].n = len /\ Len(q) \in 1..Len(q)
  BY <1>1 DEF Queued, Ends
<1>4. \A i \in 1..Len(q2) : /\ q2[i].kind = "start" => i = 1 /\ q2[i].n = 0
                            /\ q2[i].kind = "finish" => i = Len(q2)
  <2>. SUFFICES ASSUME NEW i \in 1..Len(q2)
                PROVE  /\ q2[i].kind = "start" => i = 1 /\ q2[i].n = 0
                       /\ q2[i].kind = "finish" => i = Len(q2)
    OBVIOUS
  <2>1. CASE i = Len(q) + 1
    BY <1>1, <2>1
  <2>2. CASE i \in 1..Len(q)
    <3>1. q2[i] = q[i] /\ (q[i].kind = "finish" => i = Len(q))
      BY <1>1, <2>2 DEF Queued
    <3>2. q[i].kind # "finish"
      BY <1>1, <2>2, <3>1 DEF Ends
    <3>. QED
      BY <2>2, <3>1, <3>2 DEF Queued
  <2>. QED
    BY <1>2, <2>1, <2>2
<1>5. \A i \in 1..(Len(q2) - 1) : /\ q2[i + 1].kind = "finish" => q2[i].n = len + 1
                                  /\ q2[i + 1].kind # "finish" => q2[i + 1].n = q2[i].n + 1
  <2>. SUFFICES ASSUME NEW i \in 1..(Len(q2) - 1)
                PROVE  /\ q2[i + 1].kind # "finish" /\ q2[i + 1].n = q2[i].n + 1
    OBVIOUS
  <2>0. i \in 1..Len(q) /\ q2[i] = q[i]
    BY <1>1
  <2>1. CASE i = Len(q)
    BY <1>1, <1>3, <2>0, <2>1
  <2>2. CASE i # Len(q)
    <3>1. i \in 1..(Len(q) - 1) /\ i + 1 \in 1..Len(q)
      BY <1>1, <2>0, <2>2
    <3>2. q2[i + 1] = q[i + 1] /\ (q[i + 1].kind = "finish" => i + 1 = Len(q))
      BY <1>1, <3>1 DEF Queued
    <3>3. q[i + 1].kind # "finish"
      BY <1>1, <3>1, <3>2 DEF Ends
    <3>. QED
      BY <2>0, <3>1, <3>2, <3>3 DEF Queued
  <2>. QED
    BY <2>1, <2>2
<1>6. Queued(q2, len + 1) /\ ~Ends(q2)
  BY <1>1, <1>4, <1>5 DEF Queued, Ends
<1>7. Sent(q2, len + 1, has, last, S)
  <2>1. CASE Len(q) = 0
    <3>1. HeadKind(q) = "none" /\ HeadKind(q2) = "event" /\ q2[1] = p
      BY <1>1, <2>1 DEF HeadKind
    <3>2. has /\ last = len /\ \A x \in S : /\ x.kind = "event" => x.n <= last
                                            /\ x.kind # "finish"
      BY <3>1 DEF Sent
    <3>3. \A x \in S : x.kind = "event" => x.n <= len + 1
      BY <1>1, <3>2
    <3>. QED
      BY <3>1, <3>2, <3>3 DEF Sent
  <2>2. CASE Len(q) > 0
    <3>1. q2[1] = q[1] /\ HeadKind(q2) = HeadKind(q) /\ 1 \in 1..Len(q) /\ HeadKind(q) = q[1].kind
      BY <1>1, <2>2 DEF HeadKind
    <3>2. HeadKind(q) # "finish"
      BY <1>1, <2>2, <3>1 DEF Queued, Ends
    <3>3. HeadKind(q) \in {"start", "event"}
      <4>1. q[1] \in Packet
        BY <3>1
      <4>. QED
        BY <3>1, <3>2, <4>1 DEF Packet
    <3>. QED
      BY <3>1, <3>3 DEF Sent
  <2>. QED
    BY <1>1, <2>1, <2>2
<1>. QED
  BY <1>6, <1>7 DEF q2

LEMMA QueueGetsEnd ==
  ASSUME NEW q \in Seq(Packet), NEW len \in Nat, NEW has, NEW last \in Nat, NEW S \in SUBSET Packet,
         NEW p, p.kind = "finish", Queued(q, len), ~Ends(q), Sent(q, len, has, last, S)
  PROVE  /\ Queued(Append(q, p), len) /\ Ends(Append(q, p))
         /\ Sent(Append(q, p), len, has, last, S)
<1>. DEFINE q2 == Append(q, p)
<1>1. /\ Len(q) \in Nat /\ Len(q2) = Len(q) + 1 /\ q2[Len(q) + 1] = p
      /\ \A i \in 1..Len(q) : q2[i] = q[i]
  OBVIOUS
<1>. HIDE DEF q2
<1>2. \A i \in 1..Len(q2) : i \in 1..Len(q) \/ i = Len(q) + 1
  BY <1>1
<1>3. Len(q) > 0 => q[Len(q)].n = len /\ Len(q) \in 1..Len(q)
  BY <1>1 DEF Queued, Ends
<1>4. \A i \in 1..Len(q2) : /\ q2[i].kind = "start" => i = 1 /\ q2[i].n = 0
                            /\ q2[i].kind = "finish" => i = Len(q2)
  <2>. SUFFICES ASSUME NEW i \in 1..Len(q2)
                PROVE  /\ q2[i].kind = "start" => i = 1 /\ q2[i].n = 0
                       /\ q2[i].kind = "finish" => i = Len(q2)
    OBVIOUS
  <2>1. CASE i = Len(q) + 1
    BY <1>1, <2>1
  <2>2. CASE i \in 1..Len(q)
    <3>1. q2[i] = q[i] /\ (q[i].kind = "finish" => i = Len(q))
      BY <1>1, <2>2 DEF Queued
    <3>2. q[i].kind # "finish"
      BY <1>1, <2>2, <3>1 DEF Ends
    <3>. QED
      BY <2>2, <3>1, <3>2 DEF Queued
  <2>. QED
    BY <1>2, <2>1, <2>2
<1>5. \A i \in 1..(Len(q2) - 1) : /\ q2[i + 1].kind = "finish" => q2[i].n = len
                                  /\ q2[i + 1].kind # "finish" => q2[i + 1].n = q2[i].n + 1
  <2>. SUFFICES ASSUME NEW i \in 1..(Len(q2) - 1)
                PROVE  /\ q2[i + 1].kind = "finish" => q2[i].n = len
                       /\ q2[i + 1].kind # "finish" => q2[i + 1].n = q2[i].n + 1
    OBVIOUS
  <2>0. i \in 1..Len(q) /\ q2[i] = q[i]
    BY <1>1
  <2>1. CASE i = Len(q)
    BY <1>1, <1>3, <2>0, <2>1
  <2>2. CASE i # Len(q)
    <3>1. i \in 1..(Len(q) - 1) /\ i + 1 \in 1..Len(q)
      BY <1>1, <2>0, <2>2
    <3>2. q2[i + 1] = q[i + 1]
      BY <1>1, <3>1
    <3>. QED
      BY <2>0, <3>1, <3>2 DEF Queued
  <2>. QED
    BY <2>1, <2>2
<1>6. Queued(q2, len) /\ Ends(q2)
  BY <1>1, <1>4, <1>5 DEF Queued, Ends
<1>7. Sent(q2, len, has, last, S)
  <2>1. CASE Len(q) = 0
    <3>1. HeadKind(q) = "none" /\ HeadKind(q2) = "finish"
      BY <1>1, <2>1 DEF HeadKind
    <3>. QED
      BY <3>1 DEF Sent
  <2>2. CASE Len(q) > 0
    <3>1. q2[1] = q[1] /\ HeadKind(q2) = HeadKind(q)
      BY <1>1, <2>2 DEF HeadKind
    <3>. QED
      BY <3>1 DEF Sent
  <2>. QED
    BY <1>1, <2>1, <2>2
<1>. QED
  BY <1>6, <1>7 DEF q2

LEMMA QueueMovesOn ==
  ASSUME NEW q \in Seq(Packet), NEW len \in Nat, NEW has, NEW last \in Nat, NEW S \in SUBSET Packet,
         NEW last2, q # <<>>, Queued(q, len), Sent(q, len, has, last, S),
         \/ q[1].kind = "start" /\ last2 = 0
         \/ q[1].kind = "event" /\ last2 = q[1].n
  PROVE  /\ Queued(Tail(q), len) /\ Ends(Tail(q)) = Ends(q)
         /\ Sent(Tail(q), len, TRUE, last2, S)
<1>. DEFINE t == Tail(q)
<1>1. /\ Len(q) \in Nat /\ Len(q) > 0 /\ t \in Seq(Packet) /\ Len(t) = Len(q) - 1
      /\ \A i \in 1..Len(t) : t[i] = q[i + 1] /\ i + 1 \in 1..Len(q)
  OBVIOUS
<1>2. q[1].n = last2 /\ q[1] \in Packet
  <2>1. 1 \in 1..Len(q) /\ q[1] \in Packet
    BY <1>1
  <2>. QED
    BY <2>1 DEF Queued
<1>. HIDE DEF t
<1>3. \A i \in 1..Len(t) : /\ t[i].kind # "start"
                           /\ t[i].kind = "finish" => i = Len(t)
  <2>. SUFFICES ASSUME NEW i \in 1..Len(t)
                PROVE  /\ t[i].kind # "start"
                       /\ t[i].kind = "finish" => i = Len(t)
    OBVIOUS
  <2>1. /\ t[i] = q[i + 1] /\ i + 1 \in 1..Len(q) /\ i + 1 # 1
    BY <1>1
  <2>2. q[i + 1].kind # "start" /\ (q[i + 1].kind = "finish" => i + 1 = Len(q))
    BY <2>1 DEF Queued
  <2>. QED
    BY <1>1, <2>1, <2>2
<1>4. \A i \in 1..(Len(t) - 1) : /\ t[i + 1].kind = "finish" => t[i].n = len
                                 /\ t[i + 1].kind # "finish" => t[i + 1].n = t[i].n + 1
  <2>. SUFFICES ASSUME NEW i \in 1..(Len(t) - 1)
                PROVE  /\ t[i + 1].kind = "finish" => t[i].n = len
                       /\ t[i + 1].kind # "finish" => t[i + 1].n = t[i].n + 1
    OBVIOUS
  <2>1. /\ i \in 1..Len(t) /\ i + 1 \in 1..Len(t) /\ i + 1 \in 1..(Len(q) - 1)
    BY <1>1
  <2>2. t[i] = q[i + 1] /\ t[i + 1] = q[(i + 1) + 1]
    BY <1>1, <2>1
  <2>. QED
    BY <2>1, <2>2 DEF Queued
<1>5. Len(t) > 0 => t[Len(t)] = q[Len(q)] /\ t[1] = q[2] /\ 1 \in 1..(Len(q) - 1) /\ 1 + 1 = 2
  BY <1>1
<1>6. Queued(t, len)
  <2>1. Len(t) > 0 /\ t[Len(t)].kind # "finish" => t[Len(t)].n = len
    BY <1>1, <1>5 DEF Queued
  <2>. QED
    BY <1>3, <1>4, <2>1 DEF Queued
<1>7. Ends(t) = Ends(q)
  <2>1. CASE Len(t) > 0
    BY <1>1, <1>5, <2>1 DEF Ends
  <2>2. CASE Len(t) = 0
    <3>1. Len(q) = 1
      BY <1>1, <2>2
    <3>. QED
      BY <2>2, <3>1 DEF Ends
  <2>. QED
    BY <1>1, <2>1, <2>2
<1>8. \A x \in S : (x.kind = "event" => x.n <= last2) /\ x.kind # "finish"
  <2>1. CASE q[1].kind = "start"
    <3>1. HeadKind(q) = "start"
      BY <1>1, <2>1 DEF HeadKind
    <3>. QED
      BY <3>1 DEF Sent
  <2>2. CASE q[1].kind = "event" /\ last2 = q[1].n
    <3>1. HeadKind(q) = "event"
      BY <1>1, <2>2 DEF HeadKind
    <3>. QED
      BY <2>2, <3>1 DEF Sent
  <2>. QED
    BY <2>1, <2>2
<1>9. last2 \in Nat /\ \A x \in S : x.n \in Nat
  BY <1>2, RunFacts DEF Packet
<1>10. CASE Len(t) = 0
  <2>1. HeadKind(t) = "none" /\ Len(q) = 1
    BY <1>1, <1>10 DEF HeadKind
  <2>2. last2 = len
    BY <1>2, <2>1 DEF Queued
  <2>. QED
    BY <1>6, <1>7, <1>8, <2>1, <2>2 DEF Sent, t
<1>11. CASE Len(t) > 0
  <2>1. HeadKind(t) = q[2].kind /\ t[1] = q[2] /\ q[2].kind # "start"
    <3>1. 1 \in 1..Len(t)
      BY <1>1, <1>11
    <3>. QED
      BY <1>3, <1>5, <1>11, <3>1 DEF HeadKind
  <2>2. /\ q[2].kind = "finish" => last2 = len
        /\ q[2].kind # "finish" => q[2].n = last2 + 1
    BY <1>2, <1>5, <1>11 DEF Queued
  <2>3. q[2].kind \in {"event", "finish"}
    <3>1. q[2] \in Packet
      BY <1>5, <1>11, <1>1
    <3>. QED
      BY <2>1, <3>1 DEF Packet
  <2>4. \A x \in S : x.kind = "event" => x.n <= last2 + 1
    BY <1>8, <1>9
  <2>5. Sent(t, len, TRUE, last2, S)
    BY <1>8, <1>9, <2>1, <2>2, <2>3, <2>4 DEF Sent
  <2>. QED
    BY <1>6, <1>7, <2>5 DEF t
<1>12. Len(t) = 0 \/ Len(t) > 0
  BY <1>1
<1>. QED
  BY <1>10, <1>11, <1>12

-------------------------------------------------------------------------------
(* Each step keeps the invariant.                                          *)

LEMMA FeedBegins ==
  ASSUME FeedInv, NEW r \in Run, Begin(r)
  PROVE  FeedInv' /\ SameSeats
<1>1. HubInv /\ BridgeTypes /\ PacketsInv /\ BridgeInv /\ RunTypes /\ PhasesInv /\ MarksInv
  BY DEF FeedInv, HubInv
<1>2. /\ RunStep /\ phase'[r] \in {"up", "live"}
      /\ \A q \in Run : q # r => phase'[q] = phase[q]
  BY <1>1, BeginRuns
<1>3. HubInv' /\ SameSeats
  BY <1>1, BeginHub
<1>4. /\ phase[r] = "idle" /\ cur' = r /\ log' = log /\ stream' = stream /\ broken' = broken
      /\ UNCHANGED <<stray, discard, losses, restarts>>
      /\ packets' = IF r \in GatewayRun
                    THEN [packets EXCEPT ![r] = <<[run |-> r, kind |-> "start", n |-> 0]>>]
                    ELSE packets
  BY DEF Begin, hubVars
<1>. DEFINE p == [run |-> r, kind |-> "start", n |-> 0]
            q == <<p>>
<1>5. packets \in [GatewayRun -> Seq(Packet)] /\ losses \in 0..MaxLosses /\ restarts \in 0..MaxRestarts
  BY <1>1 DEF BridgeTypes
<1>6. CASE r \notin GatewayRun
  <2>1. packets' = packets
    BY <1>4, <1>6
  <2>2. BridgeTypes' /\ PacketsInv'
    BY <1>1, <1>2, <1>4, <1>5, <2>1, PacketsKept
  <2>3. BridgeInv'
    BY <1>1, <1>2, <1>4, <1>6, BridgeKept
  <2>. QED
    BY <1>3, <2>2, <2>3 DEF FeedInv
<1>7. CASE r \in GatewayRun
  <2>1. /\ p \in Packet /\ p.kind = "start" /\ p.n = 0 /\ p.run = r
        /\ q \in Seq(Packet) /\ Len(q) = 1 /\ q[1] = p
    BY <1>7, RunFacts DEF Packet
  <2>. HIDE DEF p, q
  <2>2. packets' = [packets EXCEPT ![r] = q]
    BY <1>4, <1>7 DEF p, q
  <2>3. packets' \in [GatewayRun -> Seq(Packet)] /\ packets'[r] = q
        /\ \A x \in GatewayRun : x # r => packets'[x] = packets[x]
    BY <1>5, <1>7, <2>1, <2>2
  <2>4. QueueOK(q, r, Len(log'[r]))
    BY <2>1 DEF QueueOK
  <2>5. BridgeTypes' /\ PacketsInv'
    BY <1>1, <1>2, <1>4, <1>5, <2>3, <2>4, PacketsKept
  <2>6. Len(log'[r]) = 0 /\ r \notin discard /\ stream.run # r /\ Strays(r) = {}
    BY <1>1, <1>4, <1>7, RunFacts DEF PhasesInv, PacketsInv, MarksInv, Strays
  <2>7. ASSUME phase'[r] \in {"live", "ended"} PROVE BridgeOK(r)'
    <3>1. phase'[r] # "ended"
      BY <1>2
    <3>2. Queued(q, 0) /\ HeadKind(q) = "start" /\ q[Len(q)].kind # "finish"
      BY <2>1 DEF Queued, HeadKind
    <3>3. Sent(q, 0, FALSE, stream.lastSeq, {})
      BY <3>2 DEF Sent
    <3>4. Strays(r)' = {} /\ (stream'.run = r) = FALSE
      BY <1>4, <2>6 DEF Strays
    <3>. QED
      BY <1>4, <2>3, <2>6, <3>1, <3>2, <3>3, <3>4 DEF BridgeOK
  <2>8. BridgeInv'
    <3>1. \A x \in GatewayRun : phase'[x] \in {"live", "ended"} => x = r
      <4>1. PhasesInv'
        BY <1>3 DEF HubInv
      <4>. QED
        BY <1>4, <4>1, RunFacts DEF PhasesInv, Holding
    <3>. QED
      BY <2>7, <3>1 DEF BridgeInv
  <2>. QED
    BY <1>3, <2>5, <2>8 DEF FeedInv
<1>. QED
  BY <1>6, <1>7

\* The bridge is left alone.
LEMMA BridgeAlone ==
  ASSUME FeedInv, RunStep, HubInv', broken \subseteq broken',
         UNCHANGED <<packets, discard, losses, restarts>>, stray' \subseteq stray,
         \A r \in GatewayRun : cur' = r /\ phase'[r] \in {"live", "ended"} /\ r \notin broken' =>
           /\ phase'[r] = phase[r] /\ log'[r] = log[r]
           /\ stream.run = r => stream'.run = r
           /\ stream'.run = r => stream'.lastSeq = IF stream.run = r THEN stream.lastSeq ELSE 0
  PROVE  FeedInv'
<1>1. HubInv /\ BridgeTypes /\ PacketsInv /\ BridgeInv
  BY DEF FeedInv
<1>2. packets \in [GatewayRun -> Seq(Packet)] /\ losses \in 0..MaxLosses /\ restarts \in 0..MaxRestarts
  BY <1>1 DEF BridgeTypes
<1>3. BridgeTypes' /\ PacketsInv'
  BY <1>1, <1>2, PacketsKept
<1>4. BridgeInv'
  BY <1>1, BridgeKept
<1>. QED
  BY <1>3, <1>4 DEF FeedInv

LEMMA FeedOpens ==
  ASSUME FeedInv, NEW r \in Run, OpenStream(r)
  PROVE  FeedInv' /\ SameSeats
<1>1. HubInv /\ RunTypes /\ PhasesInv
  BY DEF FeedInv, HubInv
<1>2. RunStep /\ r \in MessageRun /\ cur = r
  BY <1>1, StreamOpens
<1>3. HubInv' /\ SameSeats /\ broken' = broken
  BY <1>1, OpenHub
<1>4. UNCHANGED <<packets, discard, losses, restarts, stray, cur>>
  BY DEF OpenStream, bridgeVars
<1>. QED
  BY <1>2, <1>3, <1>4, RunFacts, BridgeAlone

LEMMA FeedSaves ==
  ASSUME FeedInv, NEW r \in Run, Save(r)
  PROVE  FeedInv' /\ SameSeats
<1>1. HubInv /\ RunTypes /\ PhasesInv
  BY DEF FeedInv, HubInv
<1>2. /\ RunStep /\ phase' = phase /\ log' = log /\ stream' = stream /\ broken' = broken
      /\ UNCHANGED <<packets, stray, discard, losses, restarts>>
  BY <1>1, StepIsSaved DEF hubVars
<1>3. HubInv' /\ SameSeats
  BY <1>1, SaveHub
<1>. QED
  BY <1>2, <1>3, BridgeAlone

LEMMA FeedIsAnnounced ==
  ASSUME FeedInv, NEW r \in Run, Announce(r)
  PROVE  FeedInv' /\ SameSeats
<1>1. HubInv /\ RunTypes /\ PhasesInv
  BY DEF FeedInv, HubInv
<1>2. /\ RunStep /\ phase[r] = "released" /\ phase'[r] = "done" /\ log' = log
      /\ \A q \in Run : q # r => phase'[q] = phase[q]
  BY <1>1, EndIsAnnounced
<1>3. /\ HubInv' /\ SameSeats /\ broken' = broken
      /\ \A q \in Run : phase[q] \in {"live", "ended"} /\ stream.run = q => stream' = stream
  BY <1>1, AnnounceHub
<1>4. UNCHANGED <<packets, discard, losses, restarts, stray, cur>>
      /\ (stream' = stream \/ stream' = NoStream)
  BY DEF Announce, bridgeVars, HubFinish, hubVars
<1>5. NoStream.run = None
  BY DEF NoStream
<1>6. ASSUME NEW q \in GatewayRun, phase'[q] \in {"live", "ended"}
      PROVE  /\ phase'[q] = phase[q]
             /\ stream.run = q => stream'.run = q
             /\ stream'.run = q => stream'.lastSeq = IF stream.run = q THEN stream.lastSeq ELSE 0
  <2>1. q \in Run /\ q # r /\ phase'[q] = phase[q] /\ q # None
    BY <1>2, <1>6, RunFacts
  <2>2. stream.run = q => stream' = stream
    BY <1>3, <1>6, <2>1
  <2>3. stream'.run = q => stream' = stream
    BY <1>4, <1>5, <2>1
  <2>. QED
    BY <2>1, <2>2, <2>3
<1>. QED
  BY <1>2, <1>3, <1>4, <1>6, BridgeAlone

LEMMA FeedEnds ==
  ASSUME FeedInv, NEW r \in Run, EndTurn(r)
  PROVE  FeedInv' /\ SameSeats
<1>1. HubInv /\ BridgeTypes /\ PacketsInv /\ BridgeInv /\ RunTypes /\ PhasesInv
  BY DEF FeedInv, HubInv
<1>. DEFINE p == [run |-> r, kind |-> "finish", n |-> 0]
<1>2. /\ RunStep /\ phase[r] = "live" /\ cur = r /\ log' = log /\ stream' = stream /\ broken' = broken
      /\ UNCHANGED <<stray, discard, losses, restarts>>
      /\ \A q \in Run : q # r => phase'[q] = phase[q]
      /\ \/ r \in MessageRun /\ phase'[r] = "released" /\ packets' = packets
         \/ r \notin GatewayRun /\ phase'[r] = "done" /\ packets' = packets
         \/ /\ r \in GatewayRun /\ phase'[r] = "ended"
            /\ packets' = [packets EXCEPT ![r] = Append(@, p)]
  BY <1>1, TurnsEnd
<1>3. HubInv' /\ SameSeats
  BY <1>1, EndHub
<1>4. CASE phase'[r] \notin {"live", "ended"} /\ packets' = packets
  <2>1. \A q \in GatewayRun : phase'[q] \in {"live", "ended"} => phase'[q] = phase[q]
    BY <1>2, <1>4, RunFacts
  <2>. QED
    BY <1>2, <1>3, <1>4, <2>1, BridgeAlone
<1>5. CASE r \in GatewayRun /\ phase'[r] = "ended" /\ packets' = [packets EXCEPT ![r] = Append(@, p)]
  <2>. DEFINE q == packets[r]
  <2>1. /\ p \in Packet /\ p.kind = "finish" /\ p.run = r /\ q \in Seq(Packet)
        /\ packets \in [GatewayRun -> Seq(Packet)]
        /\ losses \in 0..MaxLosses /\ restarts \in 0..MaxRestarts /\ Strays(r) \in SUBSET Packet
    <3>1. p \in Packet
      BY <1>5, RunFacts DEF Packet
    <3>2. Strays(r) \in SUBSET Packet
      BY <1>1 DEF BridgeTypes, Strays
    <3>. QED
      BY <1>1, <1>5, <3>1, <3>2 DEF BridgeTypes
  <2>2. /\ packets' \in [GatewayRun -> Seq(Packet)] /\ packets'[r] = Append(q, p)
        /\ \A x \in GatewayRun : x # r => packets'[x] = packets[x]
    BY <1>5, <2>1
  <2>3. QueueOK(packets'[r], r, Len(log'[r]))
    <3>1. QueueOK(q, r, Len(log[r]))
      BY <1>1, <1>5 DEF BridgeTypes, PacketsInv, QueueOK
    <3>. HIDE DEF p, q
    <3>2. \A i \in 1..Len(Append(q, p)) : Append(q, p)[i] = p \/ (i \in 1..Len(q) /\ Append(q, p)[i] = q[i])
      BY <2>1
    <3>. QED
      BY <1>2, <2>1, <2>2, <3>1, <3>2 DEF QueueOK
  <2>4. BridgeTypes' /\ PacketsInv'
    BY <1>1, <1>2, <1>5, <2>1, <2>2, <2>3, PacketsKept
  <2>5. ASSUME r \notin broken PROVE BridgeOK(r)'
    <3>1. BridgeOK(r) /\ phase[r] # "ended" /\ phase'[r] = "ended"
      BY <1>1, <1>2, <1>5, <2>5 DEF BridgeInv
    <3>2. Len(log[r]) \in Nat /\ stream.lastSeq \in Nat
      BY <1>1, <1>2, HubReady
    <3>3. /\ Queued(q, Len(log[r])) /\ ~Ends(q)
          /\ Sent(q, Len(log[r]), stream.run = r, stream.lastSeq, Strays(r))
      BY <3>1 DEF BridgeOK, Ends
    <3>. HIDE DEF p, q
    <3>4. /\ Queued(Append(q, p), Len(log[r])) /\ Ends(Append(q, p))
          /\ Sent(Append(q, p), Len(log[r]), stream.run = r, stream.lastSeq, Strays(r))
      BY <2>1, <3>2, <3>3, QueueGetsEnd
    <3>5. Strays(r)' = Strays(r)
      BY <1>2 DEF Strays
    <3>. QED
      BY <1>2, <2>2, <3>1, <3>4, <3>5 DEF BridgeOK, Ends
  <2>6. BridgeInv'
    <3>1. \A x \in GatewayRun : phase'[x] \in {"live", "ended"} => x = r
      <4>1. \A x \in GatewayRun : phase[x] \in {"live", "ended"} => x = r
        BY <1>1, <1>2, RunFacts DEF PhasesInv, Holding
      <4>. QED
        BY <1>2, <4>1, RunFacts
    <3>. QED
      BY <1>2, <2>5, <3>1 DEF BridgeInv
  <2>. QED
    BY <1>3, <2>4, <2>6 DEF FeedInv
<1>. QED
  BY <1>2, <1>4, <1>5, RunFacts

LEMMA FeedEmits ==
  ASSUME FeedInv, NEW r \in Run, NEW kind \in Kinds, Emit(r, kind)
  PROVE  FeedInv' /\ SameSeats
<1>1. HubInv /\ BridgeTypes /\ PacketsInv /\ BridgeInv /\ RunTypes /\ PhasesInv
  BY DEF FeedInv, HubInv
<1>. DEFINE n == Len(log[r]) + 1
            p == [run |-> r, kind |-> "event", n |-> n]
<1>2. /\ RunStep /\ phase' = phase /\ cur' = cur /\ phase[r] = "live" /\ cur = r
      /\ n \in Nat /\ Len(log'[r]) = n /\ n > 0 /\ n <= MaxEvents(r)
      /\ UNCHANGED <<stray, discard, losses, restarts>>
      /\ \/ /\ r \in GatewayRun /\ UNCHANGED hubVars
            /\ packets' = [packets EXCEPT ![r] = Append(@, p)]
         \/ r \notin GatewayRun /\ packets' = packets
  BY <1>1, AgentEmits
<1>3. HubInv' /\ SameSeats /\ broken' = broken
  BY <1>1, EmitHub
<1>4. CASE r \notin GatewayRun /\ packets' = packets
  BY <1>2, <1>3, <1>4, BridgeAlone
<1>5. CASE r \in GatewayRun /\ UNCHANGED hubVars /\ packets' = [packets EXCEPT ![r] = Append(@, p)]
  <2>. DEFINE q == packets[r]
  <2>0. p \in Packet /\ p.kind = "event" /\ p.run = r /\ p.n = n
    BY <1>2, <1>5, RunFacts DEF Packet, MaxEvents
  <2>1. /\ q \in Seq(Packet) /\ packets \in [GatewayRun -> Seq(Packet)]
        /\ losses \in 0..MaxLosses /\ restarts \in 0..MaxRestarts /\ Strays(r) \in SUBSET Packet
    BY <1>1, <1>5 DEF BridgeTypes, Strays
  <2>2. /\ packets' \in [GatewayRun -> Seq(Packet)] /\ packets'[r] = Append(q, p)
        /\ \A x \in GatewayRun : x # r => packets'[x] = packets[x]
    BY <1>5, <2>0, <2>1
  <2>3. QueueOK(packets'[r], r, Len(log'[r]))
    <3>1. QueueOK(q, r, Len(log[r])) /\ Len(log[r]) \in Nat
      BY <1>1, <1>5, RunFacts DEF BridgeTypes, PacketsInv, QueueOK, RunTypes
    <3>2. \A x : x \in 1..Len(log[r]) => x \in 1..n
      BY <3>1
    <3>. HIDE DEF p, q
    <3>3. \A i \in 1..Len(Append(q, p)) : Append(q, p)[i] = p \/ (i \in 1..Len(q) /\ Append(q, p)[i] = q[i])
      BY <2>0, <2>1
    <3>4. n \in 1..n
      BY <1>2
    <3>. HIDE DEF n
    <3>. QED
      BY <1>2, <2>0, <2>2, <3>1, <3>2, <3>3, <3>4 DEF QueueOK
  <2>4. BridgeTypes' /\ PacketsInv'
    <3>1. phase'[r] # "idle"
      BY <1>2
    <3>. QED
      BY <1>1, <1>2, <2>1, <2>2, <2>3, <3>1, PacketsKept
  <2>5. ASSUME r \notin broken PROVE BridgeOK(r)'
    <3>1. BridgeOK(r) /\ phase[r] # "ended" /\ phase'[r] # "ended"
      BY <1>1, <1>2, <1>5, <2>5 DEF BridgeInv
    <3>2. Len(log[r]) \in Nat /\ stream.lastSeq \in Nat
      BY <1>1, <1>2, HubReady
    <3>3. /\ Queued(q, Len(log[r])) /\ ~Ends(q)
          /\ Sent(q, Len(log[r]), stream.run = r, stream.lastSeq, Strays(r))
      BY <3>1 DEF BridgeOK, Ends
    <3>. HIDE DEF p, q
    <3>4. /\ Queued(Append(q, p), n) /\ ~Ends(Append(q, p))
          /\ Sent(Append(q, p), n, stream.run = r, stream.lastSeq, Strays(r))
      BY <2>0, <2>1, <3>2, <3>3, QueueGetsEvent
    <3>5. Strays(r)' = Strays(r) /\ stream' = stream
      BY <1>2, <1>5 DEF Strays, hubVars
    <3>. HIDE DEF n
    <3>. QED
      BY <1>2, <2>2, <3>1, <3>4, <3>5 DEF BridgeOK, Ends
  <2>6. BridgeInv'
    <3>1. \A x \in GatewayRun : phase'[x] \in {"live", "ended"} => x = r
      BY <1>1, <1>2, RunFacts DEF PhasesInv, Holding
    <3>. QED
      BY <1>3, <2>5, <3>1 DEF BridgeInv
  <2>. QED
    BY <1>3, <2>4, <2>6 DEF FeedInv
<1>. QED
  BY <1>2, <1>4, <1>5

LEMMA EndIsKept ==
  ASSUME NEW q \in Seq(Packet), NEW r, NEW len, QueueOK(q, r, len)
  PROVE  OnlyFinish(q) \in Seq(Packet) /\ QueueOK(OnlyFinish(q), r, len)
<1>1. CASE \E i \in DOMAIN q : q[i].kind = "finish"
  <2>. DEFINE p == CHOOSE x \in ToSet(q) : x.kind = "finish"
  <2>1. \E x \in ToSet(q) : x.kind = "finish"
    BY <1>1 DEF ToSet
  <2>2. p \in ToSet(q) /\ p.kind = "finish"
    BY <2>1
  <2>. HIDE DEF p
  <2>3. PICK i \in 1..Len(q) : p = q[i]
    BY <2>2 DEF ToSet
  <2>4. p \in Packet /\ p.run = r
    BY <2>3 DEF QueueOK
  <2>5. OnlyFinish(q) = <<p>>
    BY <1>1 DEF OnlyFinish, p
  <2>6. <<p>> \in Seq(Packet) /\ Len(<<p>>) = 1 /\ <<p>>[1] = p
    BY <2>4
  <2>. QED
    BY <2>2, <2>4, <2>5, <2>6 DEF QueueOK
<1>2. CASE ~(\E i \in DOMAIN q : q[i].kind = "finish")
  <2>1. OnlyFinish(q) = <<>>
    BY <1>2 DEF OnlyFinish
  <2>. QED
    BY <2>1 DEF QueueOK
<1>. QED
  BY <1>1, <1>2

\* The queues of runs that do not have the session, or whose feed was
\* interrupted, may change as they like.
LEMMA IdleQueue ==
  ASSUME FeedInv, RunStep, HubInv', broken' = broken, NEW r \in GatewayRun,
         packets' \in [GatewayRun -> Seq(Packet)],
         \A x \in GatewayRun : x # r => packets'[x] = packets[x],
         QueueOK(packets'[r], r, Len(log'[r])), phase'[r] # "idle",
         discard' \subseteq discard \cup {r}, stray' = stray,
         losses' \in 0..MaxLosses, restarts' = restarts,
         cur' = r /\ phase'[r] \in {"live", "ended"} => r \in broken,
         \A x \in GatewayRun : cur' = x /\ phase'[x] \in {"live", "ended"} /\ x # r /\ x \notin broken =>
           /\ phase'[x] = phase[x] /\ log'[x] = log[x]
           /\ stream.run = x => stream'.run = x
           /\ stream'.run = x => stream'.lastSeq = IF stream.run = x THEN stream.lastSeq ELSE 0
  PROVE  FeedInv'
<1>1. HubInv /\ BridgeTypes /\ PacketsInv /\ BridgeInv /\ restarts \in 0..MaxRestarts
  BY DEF FeedInv, BridgeTypes
<1>2. BridgeTypes' /\ PacketsInv'
  BY <1>1, PacketsKept
<1>3. BridgeInv'
  BY <1>1, BridgeKept
<1>. QED
  BY <1>2, <1>3 DEF FeedInv

LEMMA FeedDiscards ==
  ASSUME FeedInv, NEW r \in GatewayRun, Discard(r)
  PROVE  FeedInv' /\ SameSeats
<1>1. /\ HubInv /\ BridgeTypes /\ PacketsInv /\ BridgeInv /\ RunTypes /\ PhasesInv
      /\ packets \in [GatewayRun -> Seq(Packet)] /\ losses \in 0..MaxLosses
  BY DEF FeedInv, HubInv, BridgeTypes
<1>2. /\ r \in discard /\ packets[r] # <<>> /\ UNCHANGED runVars /\ UNCHANGED hubVars
      /\ packets' = [packets EXCEPT ![r] = OnlyFinish(packets[r])]
      /\ UNCHANGED <<stray, discard, losses, restarts>>
  BY <1>1 DEF Discard
<1>3. Unmoved
  BY <1>2 DEF Unmoved, runVars, hubVars
<1>4. RunStep
  BY <1>1, <1>2, <1>3, RunsKept DEF Unmoved
<1>5. HubInv' /\ SameSeats
  BY <1>1, <1>3, <1>4, HubUnmoved
<1>6. QueueOK(packets[r], r, Len(log[r])) /\ phase[r] # "idle"
  BY <1>1, <1>2 DEF BridgeTypes, PacketsInv, QueueOK
<1>7. /\ packets' \in [GatewayRun -> Seq(Packet)] /\ QueueOK(packets'[r], r, Len(log[r]))
      /\ \A x \in GatewayRun : x # r => packets'[x] = packets[x]
  <2>1. packets[r] \in Seq(Packet)
    BY <1>1
  <2>2. OnlyFinish(packets[r]) \in Seq(Packet) /\ QueueOK(OnlyFinish(packets[r]), r, Len(log[r]))
    BY <1>6, <2>1, EndIsKept
  <2>. QED
    BY <1>1, <1>2, <2>2
<1>8. phase[r] \in {"live", "ended"} => r \in broken
  BY <1>1, <1>2 DEF BridgeInv, BridgeOK
<1>. QED
  BY <1>1, <1>2, <1>3, <1>4, <1>5, <1>6, <1>7, <1>8, IdleQueue DEF Unmoved

LEMMA FeedTimesOut ==
  ASSUME FeedInv, NEW r \in GatewayRun, TimesOut(r)
  PROVE  FeedInv' /\ SameSeats
<1>. DEFINE p == Head(packets[r])
<1>1. /\ HubInv /\ BridgeTypes /\ PacketsInv /\ BridgeInv /\ RunTypes /\ PhasesInv
      /\ packets \in [GatewayRun -> Seq(Packet)] /\ losses \in 0..MaxLosses
      /\ restarts \in 0..MaxRestarts /\ MaxLosses \in Nat
  BY RunFacts DEF FeedInv, HubInv, BridgeTypes
<1>2. /\ packets[r] # <<>> /\ UNCHANGED runVars /\ UNCHANGED hubVars /\ losses < MaxLosses
      /\ stray' = stray \cup {p} /\ losses' = losses + 1
      /\ UNCHANGED <<packets, discard, restarts>>
  BY DEF TimesOut
<1>3. Unmoved
  BY <1>2 DEF Unmoved, runVars, hubVars
<1>4. RunStep
  BY <1>1, <1>2, <1>3, RunsKept DEF Unmoved
<1>5. HubInv' /\ SameSeats
  BY <1>1, <1>3, <1>4, HubUnmoved
<1>6. /\ p = packets[r][1] /\ p \in Packet /\ p.run = r /\ p.kind \in {"start", "event", "finish"}
      /\ p.n \in Nat /\ p.kind = HeadKind(packets[r]) /\ phase[r] # "idle"
      /\ p.kind = "event" => p.n \in 1..Len(log[r])
  BY <1>1, <1>2, HeadFacts
<1>. HIDE DEF p
<1>7. losses' \in 0..MaxLosses
  BY <1>1, <1>2
<1>8. BridgeTypes' /\ PacketsInv'
  BY <1>1, <1>2, <1>3, <1>4, <1>6, <1>7, PacketsKept DEF Unmoved
<1>9. BridgeInv'
  <2>. SUFFICES ASSUME NEW x \in GatewayRun, phase[x] \in {"live", "ended"}, x \notin broken
                PROVE  BridgeOK(x)'
    BY <1>3 DEF BridgeInv, Unmoved
  <2>1. BridgeOK(x)
    BY <1>1 DEF BridgeInv
  <2>2. CASE x # r
    <3>1. Strays(x)' = Strays(x)
      BY <1>2, <1>6, <2>2 DEF Strays
    <3>. QED
      BY <1>2, <1>3, <2>1, <3>1 DEF BridgeOK, Unmoved
  <2>3. CASE x = r
    <3>1. Sent(packets[r], Len(log[r]), stream.run = r, stream.lastSeq, Strays(r))
      BY <2>1, <2>3 DEF BridgeOK
    <3>2. \A s \in Strays(r)' : s \in Strays(r) \/ s = p
      BY <1>2 DEF Strays
    <3>3. \A s \in Strays(r)' :
            \/ s \in Strays(r)
            \/ /\ s.kind = HeadKind(packets[r])
               /\ s.kind = "event" => s.n <= packets[r][1].n
      BY <1>6, <3>2
    <3>4. Sent(packets[r], Len(log[r]), stream.run = r, stream.lastSeq, Strays(r)')
      BY <3>1, <3>3 DEF Sent
    <3>. QED
      BY <1>2, <1>3, <2>1, <2>3, <3>4 DEF BridgeOK, Unmoved
  <2>. QED
    BY <2>2, <2>3
<1>. QED
  BY <1>5, <1>8, <1>9 DEF FeedInv

\* A packet that stays in the queue, or comes late, is taken.
LEMMA PacketBridge ==
  ASSUME FeedInv, NEW p, p.run \in GatewayRun, p.kind \in {"start", "event", "finish"},
         RunStep, broken' = broken, PacketMoves(p),
         packets' = packets, discard' = discard, stray' \subseteq stray,
         cur = p.run /\ stream.run = p.run /\ p.run \notin broken
           /\ p.kind = "event" /\ ~(p.n <= stream.lastSeq)
           => HeadKind(packets[p.run]) = "event" /\ packets[p.run][1].n = p.n
  PROVE  BridgeInv'
<1>. DEFINE r == p.run
<1>1. HubInv /\ BridgeInv /\ RunTypes /\ PhasesInv
  BY DEF FeedInv, HubInv
<1>2. CASE Unmoved
  BY <1>1, <1>2, BridgeKept DEF Unmoved
<1>3. CASE /\ cur = r /\ p.kind = "start" /\ UNCHANGED <<cur, phase, log, saved>>
           /\ stream'.run = r
           /\ stream'.lastSeq = IF stream.run = r THEN stream.lastSeq ELSE 0
  BY <1>1, <1>3, BridgeKept
<1>4. CASE cur = r /\ p.kind = "finish" /\ Finishes(r)
  <2>1. cur' = None
    BY <1>4 DEF Finishes
  <2>. QED
    BY <1>1, <2>1, RunFacts, BridgeKept
<1>5. CASE /\ cur = r /\ p.kind = "event" /\ UNCHANGED <<cur, phase, log, saved>>
           /\ stream.run = r /\ ~(p.n <= stream.lastSeq)
           /\ stream'.run = r /\ stream'.lastSeq = p.n
  <2>. SUFFICES ASSUME NEW x \in GatewayRun, phase[x] \in {"live", "ended"}, x \notin broken
                PROVE  BridgeOK(x)'
    BY <1>5 DEF BridgeInv
  <2>1. BridgeOK(x) /\ x = r
    BY <1>1, <1>5, RunFacts DEF BridgeInv, PhasesInv, Holding
  <2>2. HeadKind(packets[r]) = "event" /\ packets[r][1].n = p.n
    BY <1>5, <2>1
  <2>3. Sent(packets[r], Len(log[r]), TRUE, stream.lastSeq, Strays(r))
    BY <1>5, <2>1 DEF BridgeOK
  <2>4. Strays(r)' \subseteq Strays(r)
    BY DEF Strays
  <2>5. Sent(packets[r], Len(log[r]), TRUE, p.n, Strays(r)')
    BY <2>2, <2>3, <2>4 DEF Sent
  <2>. QED
    BY <1>5, <2>1, <2>5 DEF BridgeOK
<1>. QED
  BY <1>2, <1>3, <1>4, <1>5 DEF PacketMoves

LEMMA FeedAnswerLost ==
  ASSUME FeedInv, NEW r \in GatewayRun, AnswerLost(r)
  PROVE  FeedInv' /\ SameSeats
<1>. DEFINE p == Head(packets[r])
<1>1. /\ HubInv /\ BridgeTypes /\ PacketsInv
      /\ packets \in [GatewayRun -> Seq(Packet)] /\ losses \in 0..MaxLosses
      /\ restarts \in 0..MaxRestarts /\ MaxLosses \in Nat
  BY RunFacts DEF FeedInv, BridgeTypes
<1>2. /\ packets[r] # <<>> /\ Ingest(p) /\ losses < MaxLosses /\ losses' = losses + 1
      /\ UNCHANGED <<packets, stray, discard, restarts>>
  BY DEF AnswerLost
<1>3. /\ p = packets[r][1] /\ p \in Packet /\ p.run = r /\ p.kind \in {"start", "event", "finish"}
      /\ p.kind = HeadKind(packets[r])
  BY <1>1, <1>2, HeadFacts
<1>4. Timely(p)
  BY <1>2, HeadIsTimely
<1>. HIDE DEF p
<1>5. HubInv' /\ SameSeats /\ broken' = broken /\ PacketMoves(p) /\ RunStep
  BY <1>1, <1>2, <1>3, <1>4, PacketHub
<1>6. losses' \in 0..MaxLosses
  BY <1>1, <1>2
<1>7. BridgeTypes' /\ PacketsInv'
  BY <1>1, <1>2, <1>5, <1>6, PacketsKept
<1>8. BridgeInv'
  BY <1>2, <1>3, <1>5, PacketBridge
<1>. QED
  BY <1>5, <1>7, <1>8 DEF FeedInv

LEMMA FeedArrivesLate ==
  ASSUME FeedInv, NEW p \in stray, ArrivesLate(p)
  PROVE  FeedInv' /\ SameSeats
<1>1. /\ HubInv /\ BridgeTypes /\ PacketsInv /\ BridgeInv
      /\ packets \in [GatewayRun -> Seq(Packet)] /\ losses \in 0..MaxLosses
      /\ restarts \in 0..MaxRestarts
  BY DEF FeedInv, BridgeTypes
<1>2. /\ Ingest(p) /\ stray' = stray \ {p} /\ UNCHANGED <<packets, losses, discard, restarts>>
  BY DEF ArrivesLate
<1>3. /\ p \in Packet /\ p.run \in GatewayRun /\ p.kind \in {"start", "event", "finish"}
      /\ Timely(p) /\ p.n \in Nat
  BY StrayIsTimely
<1>4. HubInv' /\ SameSeats /\ broken' = broken /\ PacketMoves(p) /\ RunStep
      /\ (cur = p.run => phase[p.run] \in {"live", "ended"})
  BY <1>1, <1>2, <1>3, PacketHub
<1>5. BridgeTypes' /\ PacketsInv'
  BY <1>1, <1>2, <1>4, PacketsKept
<1>6. ASSUME cur = p.run, stream.run = p.run, p.run \notin broken,
             p.kind = "event", ~(p.n <= stream.lastSeq)
      PROVE  HeadKind(packets[p.run]) = "event" /\ packets[p.run][1].n = p.n
  <2>1. Sent(packets[p.run], Len(log[p.run]), TRUE, stream.lastSeq, Strays(p.run)) /\ p \in Strays(p.run)
    BY <1>1, <1>3, <1>4, <1>6 DEF BridgeInv, BridgeOK, Strays
  <2>2. stream.lastSeq \in Nat
    BY <1>1, <1>4, HubReady
  <2>. QED
    BY <1>3, <1>6, <2>1, <2>2 DEF Sent
<1>7. BridgeInv'
  BY <1>2, <1>3, <1>4, <1>6, PacketBridge
<1>. QED
  BY <1>4, <1>5, <1>7 DEF FeedInv

\* What remains of a queue when its head was answered.
LEMMA QueueRemains ==
  ASSUME NEW q \in Seq(Packet), NEW r, NEW len, QueueOK(q, r, len), q # <<>>,
         NEW q2, q2 = Tail(q) \/ q2 = <<>> \/ q2 = OnlyFinish(q)
  PROVE  q2 \in Seq(Packet) /\ QueueOK(q2, r, len)
<1>1. CASE q2 = Tail(q)
  <2>1. /\ Tail(q) \in Seq(Packet)
        /\ \A i \in 1..Len(Tail(q)) : i + 1 \in 1..Len(q) /\ Tail(q)[i] = q[i + 1]
    OBVIOUS
  <2>. QED
    BY <1>1, <2>1 DEF QueueOK
<1>2. CASE q2 = <<>>
  BY <1>2 DEF QueueOK
<1>3. CASE q2 = OnlyFinish(q)
  BY <1>3, EndIsKept
<1>. QED
  BY <1>1, <1>2, <1>3

LEMMA FeedSends ==
  ASSUME FeedInv, NEW r \in GatewayRun, Send(r)
  PROVE  FeedInv' /\ SameSeats
<1>. DEFINE p == Head(packets[r])
            q == packets[r]
<1>1. /\ HubInv /\ BridgeTypes /\ PacketsInv /\ BridgeInv /\ RunTypes /\ PhasesInv
      /\ packets \in [GatewayRun -> Seq(Packet)] /\ losses \in 0..MaxLosses
      /\ restarts \in 0..MaxRestarts
  BY DEF FeedInv, HubInv, BridgeTypes
<1>2. /\ q # <<>> /\ Ingest(p) /\ UNCHANGED <<stray, losses, restarts>>
      /\ \/ packets' = [packets EXCEPT ![r] = Tail(q)] /\ discard' = discard
         \/ /\ ~Accepted(p) /\ discard' = discard \cup {r}
            /\ packets' = [packets EXCEPT ![r] = AfterConflict(r)]
  BY <1>1 DEF Send
<1>3. /\ p = q[1] /\ p \in Packet /\ p.run = r /\ p.kind \in {"start", "event", "finish"}
      /\ p.kind = HeadKind(q) /\ p.n \in Nat /\ phase[r] # "idle" /\ r \in Run
      /\ Len(log[r]) \in Nat
  BY <1>1, <1>2, HeadFacts
<1>4. Timely(p)
  BY <1>2, HeadIsTimely
<1>5. q \in Seq(Packet) /\ QueueOK(q, r, Len(log[r]))
  BY <1>1 DEF BridgeTypes, PacketsInv, QueueOK
<1>6. AfterConflict(r) = <<>> \/ AfterConflict(r) = OnlyFinish(q)
  BY DEF AfterConflict
<1>. HIDE DEF p, q
<1>7. HubInv' /\ SameSeats /\ broken' = broken /\ PacketMoves(p) /\ RunStep
      /\ (cur = r => phase[r] \in {"live", "ended"})
  BY <1>1, <1>2, <1>3, <1>4, PacketHub
<1>8. /\ packets' \in [GatewayRun -> Seq(Packet)] /\ QueueOK(packets'[r], r, Len(log[r]))
      /\ \A x \in GatewayRun : x # r => packets'[x] = packets[x]
  <2>. DEFINE q2 == packets'[r]
  <2>1. /\ q2 = Tail(q) \/ q2 = <<>> \/ q2 = OnlyFinish(q)
        /\ packets' = [packets EXCEPT ![r] = q2]
    BY <1>1, <1>2, <1>6
  <2>. HIDE DEF q2
  <2>2. q2 \in Seq(Packet) /\ QueueOK(q2, r, Len(log[r]))
    BY <1>2, <1>5, <2>1, QueueRemains
  <2>. QED
    BY <1>1, <2>1, <2>2
<1>9. log' = log
  BY <1>7 DEF PacketMoves, Unmoved, Finishes
<1>10. phase'[r] # "idle"
  BY <1>3, <1>7 DEF RunStep, Begun
<1>11. CASE ~(cur' = r /\ phase'[r] \in {"live", "ended"} /\ r \notin broken)
  <2>1. discard' \subseteq discard \cup {r}
    BY <1>2
  <2>2. \A x \in GatewayRun : cur' = x /\ x # r =>
           /\ phase'[x] = phase[x] /\ log'[x] = log[x] /\ stream' = stream
    BY <1>3, <1>7, RunFacts DEF PacketMoves, Unmoved, Finishes
  <2>3. \A x \in GatewayRun : cur' = x /\ phase'[x] \in {"live", "ended"} /\ x # r /\ x \notin broken =>
           /\ phase'[x] = phase[x] /\ log'[x] = log[x]
           /\ stream.run = x => stream'.run = x
           /\ stream'.run = x => stream'.lastSeq = IF stream.run = x THEN stream.lastSeq ELSE 0
    BY <2>2
  <2>4. FeedInv'
    BY <1>1, <1>2, <1>7, <1>8, <1>9, <1>10, <1>11, <2>1, <2>3, IdleQueue
  <2>. QED
    BY <1>7, <2>4
<1>12. CASE cur' = r /\ phase'[r] \in {"live", "ended"} /\ r \notin broken
  <2>1. cur = r /\ p.kind # "finish" /\ phase' = phase
    <3>1. ~Finishes(r)
      BY <1>3, <1>12, RunFacts DEF Finishes
    <3>2. /\ cur' = cur /\ phase' = phase
      BY <1>3, <1>7, <3>1 DEF PacketMoves, Unmoved
    <3>. QED
      BY <1>3, <1>7, <1>12, <3>1, <3>2 DEF PacketMoves
  <2>2. BridgeOK(r) /\ Sent(q, Len(log[r]), stream.run = r, stream.lastSeq, Strays(r))
        /\ Queued(q, Len(log[r]))
    BY <1>1, <1>12, <2>1 DEF BridgeInv, BridgeOK, q
  <2>3. stream.lastSeq \in Nat /\ Strays(r) \in SUBSET Packet
    BY <1>1, <1>7, HubReady DEF BridgeTypes, Strays
  <2>4. /\ stream'.run = r
        /\ \/ q[1].kind = "start" /\ stream'.lastSeq = 0
           \/ q[1].kind = "event" /\ stream'.lastSeq = q[1].n
    <3>1. CASE p.kind = "start"
      <4>1. stream'.run = r /\ stream'.lastSeq = IF stream.run = r THEN stream.lastSeq ELSE 0
        BY <1>3, <1>7, <2>1, <3>1 DEF PacketMoves
      <4>2. stream.run = r => stream.lastSeq = 0
        BY <1>3, <2>2, <3>1 DEF Sent
      <4>. QED
        BY <1>3, <3>1, <4>1, <4>2
    <3>2. CASE p.kind = "event"
      <4>1. stream.run = r /\ q[1].n \in {stream.lastSeq, stream.lastSeq + 1}
        BY <1>3, <2>2, <3>2 DEF Sent
      <4>2. CASE Unmoved /\ p.n <= stream.lastSeq
        <5>1. p.n = stream.lastSeq
          BY <1>3, <2>3, <4>1, <4>2
        <5>. QED
          BY <1>3, <3>2, <4>1, <4>2, <5>1 DEF Unmoved
      <4>3. CASE stream'.run = r /\ stream'.lastSeq = p.n
        BY <1>3, <3>2, <4>3
      <4>. QED
        BY <1>3, <1>7, <2>1, <3>2, <4>1, <4>2, <4>3 DEF PacketMoves
    <3>. QED
      BY <1>3, <2>1, <3>1, <3>2
  <2>5. Accepted(p)
    BY <1>3, <2>1, <2>2 DEF Accepted, Sent
  <2>6. packets'[r] = Tail(q) /\ discard' = discard
    BY <1>1, <1>2, <2>5
  <2>7. BridgeTypes' /\ PacketsInv'
    BY <1>1, <1>2, <1>7, <1>8, <1>9, <1>10, <2>6, PacketsKept
  <2>. DEFINE last2 == stream'.lastSeq
              len == Len(log[r])
              has == stream.run = r
              S == Strays(r)
              lst == stream.lastSeq
  <2>8. /\ Queued(Tail(q), len) /\ Ends(Tail(q)) = Ends(q)
        /\ Sent(Tail(q), len, TRUE, last2, S)
    <3>1. /\ q \in Seq(Packet) /\ len \in Nat /\ lst \in Nat /\ S \in SUBSET Packet /\ q # <<>>
          /\ Queued(q, len) /\ Sent(q, len, has, lst, S)
          /\ \/ q[1].kind = "start" /\ last2 = 0
             \/ q[1].kind = "event" /\ last2 = q[1].n
      BY <1>2, <1>3, <1>5, <2>2, <2>3, <2>4
    <3>. HIDE DEF last2, len, has, S, lst
    <3>. QED
      BY <3>1, QueueMovesOn
  <2>9. BridgeOK(r)'
    <3>1. Strays(r)' = Strays(r)
      BY <1>2 DEF Strays
    <3>2. r \notin discard' /\ (phase'[r] = "ended") = Ends(q)
      BY <2>1, <2>2, <2>6 DEF BridgeOK, Ends, q
    <3>3. (phase'[r] = "ended") = Ends(packets'[r])
      BY <2>6, <2>8, <3>2
    <3>4. (stream'.run = r) = TRUE
      BY <2>4
    <3>5. Sent(packets'[r], Len(log'[r]), stream'.run = r, stream'.lastSeq, Strays(r)')
      BY <1>9, <2>6, <2>8, <3>1, <3>4
    <3>6. Queued(packets'[r], Len(log'[r]))
      BY <1>9, <2>6, <2>8
    <3>. QED
      BY <3>2, <3>3, <3>5, <3>6 DEF BridgeOK, Ends
  <2>10. BridgeInv'
    <3>1. \A x \in GatewayRun : phase'[x] \in {"live", "ended"} => x = r
      BY <1>1, <2>1, RunFacts DEF PhasesInv, Holding
    <3>. QED
      BY <2>9, <3>1 DEF BridgeInv
  <2>. QED
    BY <1>7, <2>7, <2>10 DEF FeedInv
<1>. QED
  BY <1>11, <1>12

LEMMA FeedIsWatched ==
  ASSUME FeedInv, NEW s \in Sub, ReadCurrent(s) \/ Subscribe(s) \/ Deliver(s) \/ StreamEnds(s)
  PROVE  FeedInv'
<1>1. HubInv
  BY SMTT(40) DEF FeedInv
<1>2. UNCHANGED <<packets, stray, discard, losses, restarts>> /\ UNCHANGED <<cur, phase, log>>
  BY DEF ReadCurrent, Subscribe, Deliver, StreamEnds, runVars, bridgeVars
<1>3. CASE \/ /\ HubInv' /\ RunStep /\ broken' = broken
              /\ stream'.run = stream.run /\ stream'.lastSeq = stream.lastSeq
  BY <1>2, <1>3, BridgeAlone
<1>4. CASE ReadCurrent(s)
  BY <1>1, <1>3, <1>4, ReadHub
<1>5. CASE Deliver(s)
  BY <1>1, <1>3, <1>5, DeliverHub
<1>6. CASE StreamEnds(s)
  BY <1>1, <1>3, <1>6, LeaveHub
<1>7. CASE Subscribe(s)
  <2>1. /\ HubInv' /\ RunStep /\ broken \subseteq broken'
        /\ \/ stream'.run = stream.run /\ stream'.lastSeq = stream.lastSeq
           \/ stream'.lastSeq = 0 /\ (stream.run = None \/ stream.run \in broken')
    BY <1>1, <1>7, SubscribeHub
  <2>2. ASSUME NEW r \in GatewayRun, r \notin broken'
        PROVE  /\ stream.run = r => stream'.run = r
               /\ stream'.run = r => stream'.lastSeq = IF stream.run = r THEN stream.lastSeq ELSE 0
    BY <2>1, <2>2, RunFacts
  <2>. QED
    BY <1>2, <2>1, <2>2, BridgeAlone
<1>. QED
  BY <1>4, <1>5, <1>6, <1>7

LEMMA FeedRestarts ==
  ASSUME FeedInv, Restart
  PROVE  FeedInv'
<1>1. /\ HubInv /\ BridgeTypes /\ PacketsInv /\ packets \in [GatewayRun -> Seq(Packet)]
      /\ losses \in 0..MaxLosses /\ restarts \in 0..MaxRestarts /\ MaxRestarts \in Nat
  BY RunFacts DEF FeedInv, BridgeTypes
<1>2. HubInv' /\ RunStep /\ broken' = Run
  BY <1>1, RestartHub
<1>3. /\ UNCHANGED <<packets, discard, losses>> /\ stray' = {}
      /\ restarts < MaxRestarts /\ restarts' = restarts + 1
  BY DEF Restart
<1>4. restarts' \in 0..MaxRestarts
  BY <1>1, <1>3
<1>5. BridgeTypes' /\ PacketsInv'
  BY <1>1, <1>2, <1>3, <1>4, PacketsKept
<1>6. BridgeInv'
  BY <1>2, RunFacts DEF BridgeInv
<1>. QED
  BY <1>2, <1>5, <1>6 DEF FeedInv

LEMMA FeedStutters ==
  ASSUME FeedInv, UNCHANGED vars
  PROVE  FeedInv' /\ SameSeats
<1>1. Unmoved /\ UNCHANGED runVars /\ UNCHANGED <<packets, stray, discard, losses, restarts>>
  BY DEF vars, Unmoved, runVars
<1>2. HubInv /\ RunTypes /\ PhasesInv
  BY DEF FeedInv, HubInv
<1>3. RunStep
  BY <1>1, <1>2, RunsKept DEF Unmoved
<1>4. HubInv' /\ SameSeats
  BY <1>1, <1>2, <1>3, HubUnmoved
<1>. QED
  BY <1>1, <1>3, <1>4, BridgeAlone DEF Unmoved

LEMMA FeedStep ==
  ASSUME FeedInv, [Next]_vars
  PROVE  FeedInv'
<1>1. ASSUME NEW r \in Run, Begin(r) PROVE FeedInv'
  BY <1>1, FeedBegins
<1>2. ASSUME NEW r \in Run, OpenStream(r) PROVE FeedInv'
  BY <1>2, FeedOpens
<1>3. ASSUME NEW r \in Run, Save(r) PROVE FeedInv'
  BY <1>3, FeedSaves
<1>4. ASSUME NEW r \in Run, EndTurn(r) PROVE FeedInv'
  BY <1>4, FeedEnds
<1>5. ASSUME NEW r \in Run, Announce(r) PROVE FeedInv'
  BY <1>5, FeedIsAnnounced
<1>6. ASSUME NEW r \in Run, NEW kind \in {"part", "step", "status"}, Emit(r, kind) PROVE FeedInv'
  <2>1. kind \in Kinds
    BY DEF Kinds
  <2>. QED
    BY <1>6, <2>1, FeedEmits
<1>7. ASSUME NEW r \in GatewayRun, Send(r) PROVE FeedInv'
  BY <1>7, FeedSends
<1>8. ASSUME NEW r \in GatewayRun, Discard(r) PROVE FeedInv'
  BY <1>8, FeedDiscards
<1>9. ASSUME NEW r \in GatewayRun, AnswerLost(r) PROVE FeedInv'
  BY <1>9, FeedAnswerLost
<1>10. ASSUME NEW r \in GatewayRun, TimesOut(r) PROVE FeedInv'
  BY <1>10, FeedTimesOut
<1>11. ASSUME NEW p \in stray, ArrivesLate(p) PROVE FeedInv'
  BY <1>11, FeedArrivesLate
<1>12. ASSUME NEW s \in Sub, ReadCurrent(s) \/ Subscribe(s) \/ Deliver(s) \/ StreamEnds(s)
       PROVE  FeedInv'
  BY <1>12, FeedIsWatched
<1>13. CASE Restart
  BY <1>13, FeedRestarts
<1>14. CASE UNCHANGED vars
  BY <1>14, FeedStutters
<1>. QED
  BY <1>1, <1>2, <1>3, <1>4, <1>5, <1>6, <1>7, <1>8, <1>9, <1>10, <1>11, <1>12, <1>13, <1>14
     DEF Next, Produce, Forward, Watch

LEMMA FeedStarts ==
  ASSUME Init
  PROVE  FeedInv
<1>1. /\ <<>> \in Seq(Kinds) /\ <<>> \in Seq(Nat) /\ <<>> \in Seq(Packet) /\ Len(<<>>) = 0
      /\ FALSE \in BOOLEAN /\ 0 \in Nat /\ {} \in SUBSET Sub
  OBVIOUS
<1>2. /\ NoStream \in StreamSet /\ NoStream.run = None /\ NoStream.subs = {}
  BY <1>1 DEF NoStream, StreamSet
<1>3. Seat \in SeatSet /\ Seat.run = None /\ Seat.pc = "out" /\ Seat.got = <<>>
      /\ Seat.replay = <<>> /\ Seat.queue = <<>> /\ Seat.closed = FALSE
  BY <1>1 DEF Seat, SeatSet
<1>4. RunTypes
  BY <1>1 DEF Init, RunTypes
<1>5. HubTypes
  <2>1. IsFiniteSet({}) /\ Cardinality({}) <= MaxFinished
    BY FS_EmptySet, RunFacts
  <2>. QED
    BY <1>2, <1>3, <2>1 DEF Init, HubTypes
<1>6. PhasesInv
  <2>1. cur = None /\ \A r \in Run : phase[r] = "idle" /\ log[r] = <<>> /\ saved[r] = 0
    BY DEF Init
  <2>. QED
    BY <1>1, <2>1 DEF PhasesInv, Holding
<1>7. MarksInv
  BY <1>2, <1>3 DEF Init, MarksInv
<1>8. StreamInv /\ SeatsInv
  BY <1>2, <1>3 DEF Init, StreamInv, StreamOK, SeatsInv, SeatOK
<1>9. LiveInv
  BY <1>2, RunFacts DEF Init, LiveInv
<1>10. BridgeTypes
  BY <1>1, RunFacts DEF Init, BridgeTypes
<1>11. PacketsInv
  BY <1>1, RunFacts DEF Init, PacketsInv
<1>12. BridgeInv
  BY RunFacts DEF Init, BridgeInv
<1>. QED
  BY <1>4, <1>5, <1>6, <1>7, <1>8, <1>9, <1>10, <1>11, <1>12 DEF FeedInv, HubInv

(* The inductive invariant holds: from the agent through bridge, packets,  *)
(* ingest and hub to the clients every event keeps its place.              *)
THEOREM FeedInvariant == Spec => []FeedInv
<1>1. Init => FeedInv
  BY FeedStarts
<1>2. FeedInv /\ [Next]_vars => FeedInv'
  BY FeedStep
<1>. QED
  BY <1>1, <1>2, PTL DEF Spec

(* Runs, stream, subscriptions, packets and marks keep the types that      *)
(* sessionHub, sessionEventStream and EventForwarder declare.              *)
THEOREM StreamTypeCorrect == Spec => []STypeOK
<1>1. FeedInv => STypeOK
  <2>. SUFFICES ASSUME FeedInv PROVE STypeOK
    OBVIOUS
  <2>1. RunTypes /\ HubTypes /\ BridgeTypes
    BY DEF FeedInv, HubInv
  <2>2. stream.run \in Run \cup {None} /\ stream.subs \subseteq Sub
    BY <2>1 DEF HubTypes, StreamSet
  <2>3. \A s \in Sub : sub[s].pc \in {"out", "read", "in", "left"}
    BY <2>1 DEF HubTypes, SeatSet
  <2>4. \A r \in GatewayRun : ToSet(packets[r]) \subseteq Packet
    BY <2>1 DEF BridgeTypes, ToSet
  <2>. QED
    BY <2>1, <2>2, <2>3, <2>4 DEF STypeOK, RunTypes, HubTypes, BridgeTypes, Kinds
<1>. QED
  BY <1>1, FeedInvariant, PTL

(* A run that is marked finished has no stream: neither a late client nor  *)
(* a late packet brings one back that nobody would close                   *)
(* (session_hub.go, finishedRuns).                                         *)
THEOREM NoStreamOfFinishedRun == Spec => []NoGhostStream
<1>1. FeedInv => NoGhostStream
  BY DEF FeedInv, HubInv, MarksInv, NoGhostStream
<1>. QED
  BY <1>1, FeedInvariant, PTL

-------------------------------------------------------------------------------
(* The refinement of RunFeed.                                              *)

Emitted == [r \in Run |-> Len(log[r])]
Seats == [s \in Sub |-> [run |-> sub[s].run, got |-> sub[s].got]]
Same == Emitted' = Emitted /\ saved' = saved /\ Over' = Over /\ broken' = broken /\ Seats' = Seats

\* The abstract steps over the state of the feed.
LEMMA FeedSteps ==
  /\ Same => UNCHANGED Feed!vars
  /\ \A r \in Run : /\ r \notin Over /\ Emitted' = [Emitted EXCEPT ![r] = @ + 1]
                    /\ saved' = saved /\ Over' = Over /\ broken' = broken /\ Seats' = Seats
                    => Feed!Next
  /\ \A r \in Run : /\ saved[r] < Emitted[r] /\ saved' = [saved EXCEPT ![r] = Emitted[r]]
                    /\ Emitted' = Emitted /\ Over' = Over /\ broken' = broken /\ Seats' = Seats
                    => Feed!Next
  /\ \A r \in Run : /\ Over' = Over \cup {r}
                    /\ Emitted' = Emitted /\ saved' = saved /\ broken' = broken /\ Seats' = Seats
                    => Feed!Next
  /\ \A R \in SUBSET Run : /\ broken' = broken \cup R
                           /\ Emitted' = Emitted /\ saved' = saved /\ Over' = Over /\ Seats' = Seats
                           => Feed!Next
  /\ \A r \in Run, s \in Sub :
       /\ Seats[s].run = None /\ Seats' = [Seats EXCEPT ![s].run = r]
       /\ Emitted' = Emitted /\ saved' = saved /\ Over' = Over /\ broken' = broken
       => Feed!Next
<1>1. Same => UNCHANGED Feed!vars
  BY DEF Same, Feed!vars, Emitted, Over, Seats
<1>2. ASSUME NEW r \in Run, r \notin Over, Emitted' = [Emitted EXCEPT ![r] = @ + 1],
             saved' = saved, Over' = Over, broken' = broken, Seats' = Seats
      PROVE  Feed!Next
  <2>1. Feed!Emit(r)
    BY <1>2 DEF Feed!Emit, Emitted, Over, Seats
  <2>. QED
    BY <2>1 DEF Feed!Next
<1>3. ASSUME NEW r \in Run, saved[r] < Emitted[r], saved' = [saved EXCEPT ![r] = Emitted[r]],
             Emitted' = Emitted, Over' = Over, broken' = broken, Seats' = Seats
      PROVE  Feed!Next
  <2>1. Feed!Save(r)
    BY <1>3 DEF Feed!Save, Emitted, Over, Seats
  <2>. QED
    BY <2>1 DEF Feed!Next
<1>4. ASSUME NEW r \in Run, Over' = Over \cup {r},
             Emitted' = Emitted, saved' = saved, broken' = broken, Seats' = Seats
      PROVE  Feed!Next
  <2>1. Feed!End(r)
    BY <1>4 DEF Feed!End, Emitted, Over, Seats
  <2>. QED
    BY <2>1 DEF Feed!Next
<1>5. ASSUME NEW R \in SUBSET Run, broken' = broken \cup R,
             Emitted' = Emitted, saved' = saved, Over' = Over, Seats' = Seats
      PROVE  Feed!Next
  <2>1. Feed!Break
    BY <1>5 DEF Feed!Break, Emitted, Over, Seats
  <2>. QED
    BY <2>1 DEF Feed!Next
<1>6. ASSUME NEW r \in Run, NEW s \in Sub,
             Seats[s].run = None, Seats' = [Seats EXCEPT ![s].run = r],
             Emitted' = Emitted, saved' = saved, Over' = Over, broken' = broken
      PROVE  Feed!Next
  <2>1. Feed!Attach(s, r)
    BY <1>6 DEF Feed!Attach, Emitted, Over, Seats
  <2>. QED
    BY <2>1 DEF Feed!Next
<1>. QED
  BY <1>1, <1>2, <1>3, <1>4, <1>5, <1>6

LEMMA SeatsSame ==
  ASSUME SameSeats
  PROVE  Seats' = Seats
BY DEF SameSeats, Seats

\* The next event of a client is one that RunFeed lets it get.
LEMMA DeliveryIsFeed ==
  ASSUME FeedInv, NEW s \in Sub, Deliver(s)
  PROVE  Feed!Next
<1>. DEFINE seat == sub[s]
            r == seat.run
            got == seat.got
            F == ToCome(seat)
            k == Len(got)
            n == IF seat.replay # <<>> THEN Head(seat.replay) ELSE Head(seat.queue)
            len == Len(log[r])
            sv == saved[r]
<1>1. HubInv /\ seat \in SeatSet /\ SeatOK(seat, log, saved, broken, Over)
      /\ log \in [Run -> Seq(Kinds)] /\ saved \in [Run -> Nat]
  BY DEF FeedInv, HubInv, HubTypes, SeatsInv, RunTypes
<1>2. /\ stream' = stream /\ broken' = broken /\ seat.pc = "in" /\ sub'[s].run = r
      /\ \A t \in Sub : t # s => sub'[t] = sub[t]
      /\ seat.replay # <<>> \/ (seat.replay = <<>> /\ seat.queue # <<>>)
      /\ sub'[s].got = Append(got, n)
  BY <1>1, DeliverHub
<1>3. UNCHANGED <<phase, log, saved>>
  BY DEF Deliver, runVars
<1>4. r \in Run /\ got \in Seq(Nat) /\ len \in Nat /\ sv \in Nat
  BY <1>1, <1>2 DEF SeatOK, SeatSet
<1>5. InOrder(F, r, len, sv, broken, Over)
  BY <1>1, <1>2 DEF SeatOK, RunOrder
<1>6. /\ k \in Nat /\ Len(F) \in Nat /\ k + 1 <= Len(F)
      /\ F[k + 1] = n /\ \A i \in 1..k : F[i] = got[i]
  BY <1>1, <1>2, NextToCome
<1>7. /\ Seats[s].run = r /\ Seats[s].got = got /\ Emitted[r] = len /\ r # None /\ saved[r] = sv
      /\ Emitted' = Emitted /\ saved' = saved /\ Over' = Over /\ broken' = broken
      /\ Seats' = [Seats EXCEPT ![s].got = Append(@, n)]
  <2>1. Seats' = [Seats EXCEPT ![s].got = Append(@, n)]
    BY <1>2 DEF Seats
  <2>. QED
    BY <1>2, <1>3, <1>4, <2>1, RunFacts DEF Seats, Emitted, Over
<1>. HIDE DEF seat, F, n, r, got, k, len, sv
<1>8. n \in 0..len /\ (n = 0 => r \in Over)
  BY <1>5, <1>6 DEF InOrder
<1>9. \A i \in 1..k : got[i] # 0
  <2>1. \A i \in 1..k : i \in 1..Len(F) /\ i # Len(F)
    BY <1>6
  <2>. QED
    BY <1>5, <1>6, <2>1 DEF InOrder
<1>10. k = 0 => n <= sv + 1 \/ r \in broken
  BY <1>5, <1>6 DEF InOrder
<1>11. ASSUME k > 0
       PROVE  /\ n = 0 => r \in broken \/ got[k] = len
              /\ n # 0 => n > got[k] /\ (r \in broken \/ n = got[k] + 1)
  <2>1. k \in 1..(Len(F) - 1) /\ k \in 1..k
    BY <1>6, <1>11
  <2>. QED
    BY <1>5, <1>6, <2>1 DEF InOrder
<1>12. k = Len(got) /\ (got = <<>> <=> k = 0) /\ (k > 0 => got[k] # 0)
  <2>1. k = Len(got) /\ (got = <<>> <=> k = 0)
    BY <1>4 DEF k
  <2>. QED
    BY <1>6, <1>9, <2>1
<1>13. CASE n # 0
  <2>1. IF got = <<>> THEN n <= saved[r] + 1 \/ r \in broken
        ELSE got[Len(got)] # 0 /\ (n = got[Len(got)] + 1 \/ (r \in broken /\ n > got[Len(got)]))
    BY <1>6, <1>7, <1>10, <1>11, <1>12, <1>13
  <2>2. Feed!Follows(s, n)
    BY <1>7, <2>1 DEF Feed!Follows, Feed!Done, Seats
  <2>3. n \in 1..Emitted[Seats[s].run] /\ Seats[s].run # None
    BY <1>4, <1>7, <1>8, <1>13
  <2>4. \E m \in 1..Emitted[Seats[s].run] :
          Feed!Follows(s, m) /\ Seats' = [Seats EXCEPT ![s].got = Append(@, m)]
    BY <1>7, <2>2, <2>3
  <2>5. Feed!Receive(s)
    BY <1>7, <2>3, <2>4 DEF Feed!Receive, Seats, Emitted, Over
  <2>. QED
    BY <2>5 DEF Feed!Next
<1>14. CASE n = 0
  <2>1. got # <<>> => Feed!Follows(s, len + 1) \/ r \in broken
    BY <1>6, <1>7, <1>11, <1>12, <1>14 DEF Feed!Follows, Feed!Done, Seats
  <2>2. Feed!ReceiveDone(s)
    BY <1>7, <1>8, <1>9, <1>12, <1>14, <2>1 DEF Feed!ReceiveDone, Feed!Done, Seats, Emitted, Over
  <2>. QED
    BY <2>2 DEF Feed!Next
<1>. QED
  BY <1>13, <1>14

LEMMA PacketIsUnseen ==
  ASSUME RunTypes, PhasesInv, NEW p \in Packet, Ingest(p)
  PROVE  Emitted' = Emitted /\ saved' = saved /\ Over' = Over /\ broken' = broken
<1>1. /\ p.run \in GatewayRun /\ p.run \in Run
      /\ \/ Unmoved
         \/ HubStart(p.run) /\ UNCHANGED <<cur, phase, log, saved>>
         \/ HubPublish(p.n, log[p.run][p.n]) /\ UNCHANGED <<cur, phase, log, saved>>
         \/ Finishes(p.run)
  BY PacketHandled, RunFacts
<1>2. log' = log /\ saved' = saved /\ broken' = broken
  BY <1>1 DEF Unmoved, HubStart, HubPublish, Finishes
<1>3. \A r \in Run : phase'[r] = "done" <=> phase[r] = "done"
  BY <1>1 DEF Unmoved, Finishes
<1>. QED
  BY <1>2, <1>3 DEF Emitted, Over

\* Every step of the stream is a step of the feed, or none.
LEMMA StreamStepIsFeed ==
  ASSUME FeedInv, [Next]_vars
  PROVE  [Feed!Next]_(Feed!vars)
<1>0. RunTypes /\ PhasesInv /\ HubInv /\ BridgeTypes /\ PacketsInv
  BY DEF FeedInv, HubInv
<1>1. ASSUME NEW r \in Run, Begin(r) PROVE Same
  <2>1. /\ phase'[r] # "done" /\ phase[r] = "idle" /\ log' = log /\ saved' = saved /\ broken' = broken
        /\ \A q \in Run : q # r => phase'[q] = phase[q]
    BY <1>0, <1>1, BeginRuns DEF Begin, hubVars
  <2>. QED
    BY <1>1, <2>1, FeedBegins, SeatsSame DEF Same, Emitted, Over
<1>2. ASSUME NEW r \in Run, OpenStream(r) PROVE Same
  <2>1. /\ phase'[r] = "live" /\ phase[r] = "up" /\ log' = log /\ saved' = saved /\ broken' = broken
        /\ \A q \in Run : q # r => phase'[q] = phase[q]
    BY <1>0, <1>2, StreamOpens, OpenHub
  <2>. QED
    BY <1>2, <2>1, FeedOpens, SeatsSame DEF Same, Emitted, Over
<1>3. ASSUME NEW r \in Run, Save(r) PROVE Feed!Next
  <2>1. /\ phase' = phase /\ log' = log /\ broken' = broken
        /\ saved[r] < Len(log[r]) /\ saved' = [saved EXCEPT ![r] = Len(log[r])]
    BY <1>0, <1>3, StepIsSaved DEF hubVars
  <2>2. /\ saved[r] < Emitted[r] /\ saved' = [saved EXCEPT ![r] = Emitted[r]]
        /\ Emitted' = Emitted /\ Over' = Over /\ Seats' = Seats
    BY <1>3, <2>1, FeedSaves, SeatsSame DEF Emitted, Over
  <2>. QED
    BY <2>1, <2>2, FeedSteps
<1>4. ASSUME NEW r \in Run, EndTurn(r) PROVE Same \/ Feed!Next
  <2>1. /\ phase[r] = "live" /\ log' = log /\ saved' = saved /\ broken' = broken
        /\ \A q \in Run : q # r => phase'[q] = phase[q]
        /\ phase'[r] \in {"released", "done", "ended"}
    BY <1>0, <1>4, TurnsEnd
  <2>2. Emitted' = Emitted /\ Seats' = Seats
    BY <1>4, <2>1, FeedEnds, SeatsSame DEF Emitted
  <2>3. CASE phase'[r] = "done"
    <3>1. Over' = Over \cup {r}
      BY <2>1, <2>3 DEF Over
    <3>. QED
      BY <2>1, <2>2, <3>1, FeedSteps
  <2>4. CASE phase'[r] # "done"
    BY <2>1, <2>2, <2>4 DEF Same, Over
  <2>. QED
    BY <2>3, <2>4
<1>5. ASSUME NEW r \in Run, Announce(r) PROVE Feed!Next
  <2>1. /\ phase'[r] = "done" /\ log' = log /\ saved' = saved
        /\ \A q \in Run : q # r => phase'[q] = phase[q]
    BY <1>0, <1>5, EndIsAnnounced
  <2>2. broken' = broken /\ SameSeats
    BY <1>0, <1>5, AnnounceHub
  <2>3. Over' = Over \cup {r} /\ Emitted' = Emitted /\ Seats' = Seats
    BY <2>1, <2>2, SeatsSame DEF Over, Emitted
  <2>. QED
    BY <2>1, <2>2, <2>3, FeedSteps
<1>6. ASSUME NEW r \in Run, NEW kind \in {"part", "step", "status"}, Emit(r, kind) PROVE Feed!Next
  <2>0. kind \in Kinds
    BY DEF Kinds
  <2>1. /\ phase' = phase /\ saved' = saved /\ phase[r] = "live" /\ Len(log'[r]) = Len(log[r]) + 1
        /\ \A q \in Run : q # r => log'[q] = log[q]
    BY <1>0, <1>6, <2>0, AgentEmits
  <2>2. broken' = broken /\ SameSeats
    BY <1>0, <1>6, <2>0, EmitHub
  <2>3. /\ Over' = Over /\ r \notin Over /\ Emitted' = [Emitted EXCEPT ![r] = @ + 1]
        /\ Seats' = Seats
    BY <2>1, <2>2, SeatsSame DEF Over, Emitted
  <2>. QED
    BY <2>1, <2>2, <2>3, FeedSteps
<1>7. ASSUME NEW r \in GatewayRun, Send(r) PROVE Same
  <2>1. Head(packets[r]) \in Packet /\ Ingest(Head(packets[r]))
    BY <1>0, <1>7, HeadFacts DEF Send
  <2>. QED
    BY <1>0, <1>7, <2>1, PacketIsUnseen, FeedSends, SeatsSame DEF Same
<1>8. ASSUME NEW r \in GatewayRun, AnswerLost(r) PROVE Same
  <2>1. Head(packets[r]) \in Packet /\ Ingest(Head(packets[r]))
    BY <1>0, <1>8, HeadFacts DEF AnswerLost
  <2>. QED
    BY <1>0, <1>8, <2>1, PacketIsUnseen, FeedAnswerLost, SeatsSame DEF Same
<1>9. ASSUME NEW p \in stray, ArrivesLate(p) PROVE Same
  <2>1. p \in Packet /\ Ingest(p)
    BY <1>0, <1>9 DEF ArrivesLate, BridgeTypes
  <2>. QED
    BY <1>0, <1>9, <2>1, PacketIsUnseen, FeedArrivesLate, SeatsSame DEF Same
<1>10. ASSUME NEW r \in GatewayRun, Discard(r) \/ TimesOut(r) PROVE Same
  <2>1. SameSeats
    BY <1>10, FeedDiscards, FeedTimesOut
  <2>. QED
    BY <1>10, <2>1, SeatsSame DEF Discard, TimesOut, runVars, hubVars, Same, Emitted, Over
<1>11. ASSUME NEW s \in Sub, ReadCurrent(s) PROVE Feed!Next
  <2>1. /\ broken' = broken /\ sub[s].run = None /\ sub'[s].run = cur /\ sub'[s].got = sub[s].got
        /\ cur \in Run /\ \A t \in Sub : t # s => sub'[t] = sub[t]
    BY <1>0, <1>11, ReadHub
  <2>2. phase' = phase /\ log' = log /\ saved' = saved
    BY <1>11 DEF ReadCurrent, runVars
  <2>3. Seats[s].run = None /\ Seats' = [Seats EXCEPT ![s].run = cur]
        /\ Emitted' = Emitted /\ Over' = Over
    BY <2>1, <2>2 DEF Seats, Emitted, Over
  <2>. QED
    BY <2>1, <2>2, <2>3, FeedSteps
<1>12. ASSUME NEW s \in Sub, Subscribe(s) PROVE Feed!Next
  <2>1. SameSeats /\ broken \subseteq broken' /\ broken' \subseteq Run
    BY <1>0, <1>12, SubscribeHub
  <2>2. phase' = phase /\ log' = log /\ saved' = saved
    BY <1>12 DEF Subscribe, runVars
  <2>3. Seats' = Seats /\ Emitted' = Emitted /\ Over' = Over /\ broken' = broken \cup broken'
    BY <2>1, <2>2, SeatsSame DEF Emitted, Over
  <2>. QED
    BY <2>1, <2>2, <2>3, FeedSteps
<1>13. ASSUME NEW s \in Sub, StreamEnds(s) PROVE Same
  <2>1. SameSeats /\ broken' = broken
    BY <1>0, <1>13, LeaveHub
  <2>2. phase' = phase /\ log' = log /\ saved' = saved
    BY <1>13 DEF StreamEnds, runVars
  <2>. QED
    BY <2>1, <2>2, SeatsSame DEF Same, Emitted, Over
<1>14. CASE Restart
  <2>1. SameSeats /\ broken' = Run
    BY <1>0, <1>14, RestartHub
  <2>2. log' = log /\ saved' = saved /\ broken \subseteq Run
    BY <1>0, <1>14 DEF Restart, HubInv, HubTypes
  <2>3. \A r \in Run : phase'[r] = "done" <=> phase[r] = "done"
    BY <1>14 DEF Restart
  <2>4. Seats' = Seats /\ Emitted' = Emitted /\ Over' = Over /\ broken' = broken \cup Run
    BY <2>1, <2>2, <2>3, SeatsSame DEF Emitted, Over
  <2>. QED
    BY <2>2, <2>4, FeedSteps
<1>15. ASSUME UNCHANGED vars PROVE Same
  BY <1>15, FeedStutters, SeatsSame DEF vars, Same, Emitted, Over
<1>16. ASSUME Same \/ Feed!Next PROVE [Feed!Next]_(Feed!vars)
  BY <1>16, FeedSteps
<1>17. ASSUME NEW s \in Sub, Deliver(s) PROVE Feed!Next
  BY <1>17, DeliveryIsFeed
<1>. QED
  BY <1>1, <1>2, <1>3, <1>4, <1>5, <1>6, <1>7, <1>8, <1>9, <1>10, <1>11, <1>12, <1>13, <1>14,
     <1>15, <1>16, <1>17 DEF Next, Produce, Forward, Watch

(* Every step of the stream is a step of RunFeed or none of its steps:     *)
(* with packets lost, repeated and late, clients that come and go, gateway *)
(* runs between runs of serve and restarts, a client gets the events of    *)
(* its run in order, none twice and the end last, and all of them unless   *)
(* the feed was interrupted.                                               *)
THEOREM StreamImplementsFeed == Spec => FeedSpec
<1>1. Init => Feed!Init
  BY DEF Init, Feed!Init, Seat
<1>2. FeedInv /\ [Next]_vars => [Feed!Next]_(Feed!vars)
  BY StreamStepIsFeed
<1>. QED
  BY <1>1, <1>2, FeedInvariant, PTL DEF Spec, FeedSpec, Feed!Spec

-------------------------------------------------------------------------------
(***************************************************************************)
(* The stream and the transcript together.                                 *)
(***************************************************************************)

(* A step of MCSession is a step of one of the two, which the other does   *)
(* not notice.                                                             *)
LEMMA OneOfTwoMoves ==
  ASSUME [SessionNext]_sessionVars
  PROVE  [Next]_vars /\ [TranscriptNext]_transcriptVars
<1>1. CASE UNCHANGED sessionVars
  BY <1>1 DEF sessionVars
<1>2. CASE SessionNext
  BY <1>2 DEF SessionNext
<1>. QED
  BY <1>1, <1>2

(* What MCSession checks of the two together is what the theorems say of   *)
(* each: a behaviour of MCSession is a behaviour of both, whichever moves. *)
THEOREM SessionPartsAreIndependent == SessionSpec => Spec /\ TranscriptSpec
<1>1. SessionInit => Init /\ TranscriptInit
  BY DEF SessionInit
<1>2. [SessionNext]_sessionVars => [Next]_vars /\ [TranscriptNext]_transcriptVars
  BY OneOfTwoMoves
<1>. QED
  BY <1>1, <1>2, PTL DEF SessionSpec, Spec, TranscriptSpec

(* Whichever of the two moves, the events, packets and rows of both keep   *)
(* the types that the code declares for them.                              *)
THEOREM SessionTypeCorrect == SessionSpec => []SessionTypeOK
<1>1. STypeOK /\ TranscriptTypeOK => SessionTypeOK
  BY DEF SessionTypeOK
<1>. QED
  BY <1>1, SessionPartsAreIndependent, StreamTypeCorrect, TranscriptTypeCorrect, PTL
===============================================================================
