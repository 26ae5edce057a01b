--------------------------- MODULE TranscriptProofs ---------------------------
(***************************************************************************)
(* Proofs about the transcript: what a prompt is built from is complete,   *)
(* and every tool result in it follows the call it answers.                *)
(*                                                                         *)
(* Two facts carry them.  A summary with its mark is true of the rows      *)
(* whoever holds it and however old it is (Sound, Summaries): rows are     *)
(* only appended, deleted all together or given calls, and none of that    *)
(* makes an old pair lie.  And every result stands behind its call with    *)
(* nothing but other results between (Chained): the turn that writes holds *)
(* the session, so that only a note or a clearing can come between, and    *)
(* those are in torn.  A fork copies rows one by one while they grow; what *)
(* it has and what it has still to copy is a beginning of the transcript   *)
(* (ForkFollows).                                                          *)
(***************************************************************************)
EXTENDS Transcript, SequenceTheorems, FiniteSetTheorems, TLAPS

\* What a step may do to the rows: nothing, append the next one, delete them
\* all, or add to the calls of some.
RowsGo(rows, n, rows2, n2) ==
    \/ rows2 = rows /\ n2 = n
    \/ \E m \in Row : m.id = n + 1 /\ rows2 = Append(rows, m) /\ n2 = n + 1
    \/ rows2 = <<>> /\ n2 = n
    \/ /\ n2 = n /\ Len(rows2) = Len(rows)
       /\ \A i \in 1..Len(rows) : /\ rows2[i].id = rows[i].id
                                  /\ rows2[i].role = rows[i].role
                                  /\ rows2[i].of = rows[i].of
                                  /\ rows[i].calls \subseteq rows2[i].calls

\* The rows are in the order of their ids, which have all been given out.
Sorted(rows, n) ==
    /\ \A i \in 1..Len(rows) : rows[i].id <= n
    /\ \A i, j \in 1..Len(rows) : i < j => rows[i].id < rows[j].id

\* A summary with its mark covers the rows up to the marked one, which is not
\* the last row, and behind which the window does not start on a result.
Sound(q, rows, n) ==
    /\ q.mark <= n
    /\ \A j \in 1..Len(rows) : rows[j].id = q.mark =>
         /\ \A i \in 1..j : rows[i].id \in q.summary
         /\ j < Len(rows) /\ rows[j + 1].role # "result"

LEMMA Bounds == MaxRows \in Nat /\ MaxCalls \in Nat /\ MaxFolds \in Nat /\ MaxGuests \in Nat
BY TranscriptAssumption

LEMMA RowFacts ==
  ASSUME NEW rows \in Seq(Row)
  PROVE  /\ Len(rows) \in Nat /\ DOMAIN rows = 1..Len(rows)
         /\ \A i \in 1..Len(rows) : rows[i] \in Row /\ rows[i].id \in Nat \ {0}
         /\ Ids(rows) = {rows[i].id : i \in 1..Len(rows)}
<1>1. \A m \in Row : m.id \in Nat \ {0}
  BY Bounds DEF Row
<1>. QED
  BY <1>1 DEF Ids

LEMMA AppendRow ==
  ASSUME NEW rows \in Seq(Row), NEW m \in Row
  PROVE  /\ Append(rows, m) \in Seq(Row)
         /\ Len(Append(rows, m)) = Len(rows) + 1
         /\ \A i \in 1..Len(rows) : Append(rows, m)[i] = rows[i]
         /\ Append(rows, m)[Len(rows) + 1] = m
OBVIOUS

LEMMA RowsGoKeep ==
  ASSUME NEW rows \in Seq(Row), NEW rows2 \in Seq(Row), NEW n \in Nat, NEW n2 \in Nat,
         Sorted(rows, n), RowsGo(rows, n, rows2, n2)
  PROVE  /\ Sorted(rows2, n2)
         /\ \A q \in Summary : Sound(q, rows, n) => Sound(q, rows2, n2)
<1>1. CASE rows2 = rows /\ n2 = n
  BY <1>1
<1>2. ASSUME NEW m \in Row, m.id = n + 1, rows2 = Append(rows, m), n2 = n + 1
      PROVE  /\ Sorted(rows2, n2)
             /\ \A q \in Summary : Sound(q, rows, n) => Sound(q, rows2, n2)
  <2>1. /\ Len(rows) \in Nat /\ Len(rows2) = Len(rows) + 1
        /\ \A i \in 1..Len(rows) : rows[i] \in Row /\ rows2[i] = rows[i] /\ rows[i].id \in Nat
        /\ rows2[Len(rows) + 1] = m
    BY <1>2, AppendRow, RowFacts
  <2>2. Sorted(rows2, n2)
    BY <1>2, <2>1 DEF Sorted
  <2>3. ASSUME NEW q \in Summary, Sound(q, rows, n) PROVE Sound(q, rows2, n2)
    <3>1. q.mark \in Nat /\ q.mark <= n
      BY <2>3 DEF Sound, Summary
    <3>2. q.mark <= n2
      BY <3>1, <1>2
    <3>3. ASSUME NEW j \in 1..Len(rows2), rows2[j].id = q.mark
          PROVE  /\ \A i \in 1..j : rows2[i].id \in q.summary
                 /\ j < Len(rows2) /\ rows2[j + 1].role # "result"
      <4>1. j # Len(rows) + 1
        BY <3>1, <3>3, <2>1, <1>2
      <4>2. j \in 1..Len(rows)
        BY <4>1, <2>1
      <4>3. /\ \A i \in 1..j : rows[i].id \in q.summary
            /\ j < Len(rows) /\ rows[j + 1].role # "result"
        BY <4>2, <2>1, <2>3, <3>3 DEF Sound
      <4>4. \A i \in 1..j : i \in 1..Len(rows)
        BY <4>2, <2>1
      <4>5. j + 1 \in 1..Len(rows) /\ j < Len(rows2)
        BY <4>2, <4>3, <2>1
      <4>. QED
        BY <4>3, <4>4, <4>5, <2>1
    <3>. QED
      BY <3>2, <3>3 DEF Sound
  <2>. QED
    BY <2>2, <2>3
<1>3. CASE rows2 = <<>> /\ n2 = n
  <2>1. Len(rows2) = 0
    BY <1>3
  <2>. QED
    BY <1>3, <2>1 DEF Sorted, Sound
<1>4. CASE /\ n2 = n /\ Len(rows2) = Len(rows)
           /\ \A i \in 1..Len(rows) : /\ rows2[i].id = rows[i].id
                                      /\ rows2[i].role = rows[i].role
                                      /\ rows2[i].of = rows[i].of
                                      /\ rows[i].calls \subseteq rows2[i].calls
  <2>1. Len(rows) \in Nat
    BY RowFacts
  <2>2. Sorted(rows2, n2)
    BY <1>4, <2>1 DEF Sorted
  <2>3. ASSUME NEW q \in Summary, Sound(q, rows, n) PROVE Sound(q, rows2, n2)
    BY <1>4, <2>1, <2>3 DEF Sound
  <2>. QED
    BY <2>2, <2>3
<1>. QED
  BY <1>1, <1>2, <1>3, <1>4 DEF RowsGo

\* What is left of the rows behind a mark: from where it starts.
LEMMA WindowStartsBehind ==
  ASSUME NEW rows \in Seq(Row), NEW mark
  PROVE  /\ Window(rows, mark) \in Seq(Row)
         /\ \E k \in 0..Len(rows) :
              /\ Len(Window(rows, mark)) = Len(rows) - k
              /\ \A i \in 1..(Len(rows) - k) : Window(rows, mark)[i] = rows[k + i]
              /\ IF k = 0 THEN mark \notin Ids(rows) ELSE rows[k].id = mark
<1>1. CASE mark \notin Ids(rows)
  <2>1. Window(rows, mark) = rows /\ Len(rows) \in Nat
    BY <1>1, RowFacts DEF Window
  <2>. QED
    BY <1>1, <2>1
<1>2. CASE mark \in Ids(rows)
  <2>. DEFINE k == CHOOSE i \in DOMAIN rows : rows[i].id = mark
  <2>1. k \in 1..Len(rows) /\ rows[k].id = mark /\ Len(rows) \in Nat
    <3>1. \E i \in DOMAIN rows : rows[i].id = mark
      BY <1>2, RowFacts
    <3>2. k \in DOMAIN rows /\ rows[k].id = mark
      BY <3>1
    <3>. QED
      BY <3>2, RowFacts
  <2>2. Window(rows, mark) = SubSeq(rows, 1 + k, Len(rows))
    BY <1>2 DEF Window
  <2>. HIDE DEF k
  <2>3. \A i \in (1 + k)..Len(rows) : rows[i] \in Row
    BY <2>1, RowFacts
  <2>4. /\ SubSeq(rows, 1 + k, Len(rows)) \in Seq(Row)
        /\ Len(SubSeq(rows, 1 + k, Len(rows))) = Len(rows) - k
        /\ \A i \in 1..(Len(rows) - k) : SubSeq(rows, 1 + k, Len(rows))[i] = rows[k + i]
    <3>1. 1 + k \in Int /\ Len(rows) \in Int /\ 1 + k <= Len(rows) + 1
      BY <2>1
    <3>2. /\ SubSeq(rows, 1 + k, Len(rows)) \in Seq(Row)
          /\ Len(SubSeq(rows, 1 + k, Len(rows)))
               = IF 1 + k <= Len(rows) THEN Len(rows) - (1 + k) + 1 ELSE 0
          /\ \A i \in 1..(Len(rows) - (1 + k) + 1) :
               SubSeq(rows, 1 + k, Len(rows))[i] = rows[(1 + k) + i - 1]
      BY <3>1, <2>3, SubSeqProperties
    <3>. QED
      BY <3>2, <2>1
  <2>5. k \in 0..Len(rows) /\ k # 0
    BY <2>1
  <2>. QED
    BY <2>1, <2>2, <2>4, <2>5
<1>. QED
  BY <1>1, <1>2
-------------------------------------------------------------------------------
(* The inductive invariant.                                                *)

Whole == "session" \notin torn

\* What the types say of records, and where a holder can be.
Shape ==
    /\ step \in [of : 0..MaxRows, calls : 0..MaxCalls, next : 0..MaxCalls]
    /\ fork \in [at : {"no", "copying"}, left : Seq(Row), rows : Seq(Row)]
    /\ fork.at = "no" => fork = NoFork
    /\ fold \subseteq 1..made
    /\ held = "manual" => stage \in {"before", "folding"}
    /\ stage \in {"calls", "results"} =>
         step.of \in 1..made /\ step.next >= 1 /\ step.next <= step.calls

FoldMark == CHOOSE x \in fold : \A y \in fold : y <= x
FoldPair == [summary |-> copy.summary \cup fold, mark |-> FoldMark]

\* Every summary with its mark is sound: the stored one, the holder's, the one
\* a request has read, and the one that is being made.
Summaries ==
    /\ Sorted(msgs, made)
    /\ \A q \in {stored, copy} \cup asked : Sound(q, msgs, made)
    /\ fold # {} => /\ \E x \in fold : \A y \in fold : y <= x
                    /\ Sound(FoldPair, msgs, made)

\* The turn works with what is stored, or with what a clearing has just reset.
TurnReadsStored ==
    held = "turn" /\ stage # "load" /\ ~blind => stored = copy \/ stored.mark = 0

\* A result follows its call, with nothing but other results between.
Follows(rows, i, j) ==
    /\ rows[i].role = "assistant"
    /\ rows[j].of \in {rows[i].id} \X rows[i].calls
    /\ \A k \in (i + 1)..(j - 1) : rows[k].role = "result" /\ rows[k].of # rows[j].of

Chained(rows) ==
    \A j \in 1..Len(rows) : rows[j].role = "result" => \E i \in 1..(j - 1) : Follows(rows, i, j)

\* The answer whose calls are being written or have begun to be answered is the
\* last row but for those results.
AnswerIsOpen ==
    stage \in {"calls", "results"} =>
      \E i \in 1..Len(msgs) :
        /\ msgs[i].id = step.of /\ msgs[i].role = "assistant"
        /\ stage = "calls" => i = Len(msgs) /\ 1..(step.next - 1) \subseteq msgs[i].calls
        /\ stage = "results" =>
             /\ 1..step.calls \subseteq msgs[i].calls
             /\ \A k \in (i + 1)..Len(msgs) :
                  msgs[k].role = "result" /\ msgs[k].of \in {step.of} \X (1..(step.next - 1))

RowsAreChained == Whole => Chained(msgs) /\ AnswerIsOpen

\* The rows copied and those left to copy are the first rows of the session; of
\* the calls of a copied row those are there that a listed result answers.
Listed == Len(fork.rows) + Len(fork.left)
ForkFollows ==
    Whole /\ "fork" \notin torn /\ fork.at = "copying" =>
      /\ Listed <= Len(msgs)
      /\ \A i \in 1..Len(fork.rows) : /\ fork.rows[i].id = msgs[i].id
                                      /\ fork.rows[i].role = msgs[i].role
                                      /\ msgs[i].role = "result" => fork.rows[i].of = msgs[i].of
      /\ \A i \in 1..Len(fork.left) :
           LET m == msgs[Len(fork.rows) + i]
           IN  /\ fork.left[i].id = m.id
               /\ fork.left[i].role = m.role
               /\ fork.left[i].of = m.of
      /\ \A i \in 1..Len(fork.rows), j \in 1..Listed :
           msgs[j].role = "result" /\ msgs[j].of[1] = msgs[i].id
             => msgs[j].of[2] \in fork.rows[i].calls

TranscriptInv ==
    /\ TranscriptTypeOK /\ Shape /\ Summaries /\ TurnReadsStored
    /\ RowsAreChained /\ ForkFollows
-------------------------------------------------------------------------------
Pair == (0..MaxRows) \X (0..MaxCalls)

LEMMA Written ==
  ASSUME TranscriptTypeOK, NEW role \in {"user", "assistant", "result", "system"},
         NEW of \in Pair, Write(role, of)
  PROVE  /\ made' = made + 1 /\ made' \in 0..MaxRows /\ msgs' \in Seq(Row)
         /\ \E m \in Row : /\ m.id = made + 1 /\ m.role = role /\ m.of = of /\ m.calls = {}
                           /\ msgs' = Append(msgs, m)
<1>. DEFINE m == [id |-> made + 1, role |-> role, calls |-> {}, of |-> of]
<1>1. made \in 0..MaxRows /\ msgs \in Seq(Row) /\ made < MaxRows
  BY DEF TranscriptTypeOK, Write
<1>2. made + 1 \in 1..MaxRows /\ made + 1 \in 0..MaxRows
  BY <1>1, Bounds
<1>3. m \in Row
  BY <1>2 DEF Row, Pair
<1>4. msgs' = Append(msgs, m) /\ made' = made + 1
  BY DEF Write
<1>. QED
  BY <1>1, <1>2, <1>3, <1>4, AppendRow

LEMMA NoCallIsPair == NoCall \in Pair
BY Bounds DEF NoCall, Pair

LEMMA BlankIsSummary == Blank \in Summary /\ Blank.mark = 0
BY Bounds DEF Blank, Summary

\* The calls of a row are added to.
LEMMA CallWritten ==
  ASSUME TranscriptTypeOK, Shape, WriteCall
  PROVE  /\ msgs' \in Seq(Row) /\ Len(msgs') = Len(msgs)
         /\ \A i \in 1..Len(msgs) :
              /\ msgs'[i].id = msgs[i].id /\ msgs'[i].role = msgs[i].role
              /\ msgs'[i].of = msgs[i].of
              /\ msgs'[i].calls = IF msgs[i].id = step.of THEN msgs[i].calls \cup {step.next}
                                                           ELSE msgs[i].calls
<1>. DEFINE R(i) == IF msgs[i].id = step.of THEN [msgs[i] EXCEPT !.calls = @ \cup {step.next}]
                                            ELSE msgs[i]
<1>1. msgs \in Seq(Row) /\ msgs' = [i \in DOMAIN msgs |-> R(i)]
  BY DEF TranscriptTypeOK, WriteCall
<1>2. DOMAIN msgs = 1..Len(msgs) /\ Len(msgs) \in Nat /\ \A i \in 1..Len(msgs) : msgs[i] \in Row
  BY <1>1, RowFacts
<1>3. step.next \in 1..MaxCalls
  BY Bounds DEF Shape, WriteCall
<1>4. \A i \in 1..Len(msgs) :
        /\ R(i) \in Row /\ R(i).id = msgs[i].id /\ R(i).role = msgs[i].role
        /\ R(i).of = msgs[i].of
        /\ R(i).calls = IF msgs[i].id = step.of THEN msgs[i].calls \cup {step.next}
                                                ELSE msgs[i].calls
  BY <1>2, <1>3 DEF Row
<1>. HIDE DEF R
<1>5. msgs' \in [1..Len(msgs) -> Row]
  BY <1>1, <1>2, <1>4
<1>6. msgs' \in Seq(Row) /\ Len(msgs') = Len(msgs)
  BY <1>2, <1>5
<1>. QED
  BY <1>1, <1>2, <1>4, <1>6

\* What each step does to the rows.
LEMMA StepRows ==
  ASSUME TranscriptTypeOK, Shape, TranscriptNext
  PROVE  /\ made' \in 0..MaxRows /\ msgs' \in Seq(Row)
         /\ RowsGo(msgs, made, msgs', made')
<1>. DEFINE Goal == /\ made' \in 0..MaxRows /\ msgs' \in Seq(Row)
                    /\ RowsGo(msgs, made, msgs', made')
<1>0. made \in 0..MaxRows /\ msgs \in Seq(Row)
  BY DEF TranscriptTypeOK
<1>1. ASSUME UNCHANGED <<msgs, made>> PROVE Goal
  BY <1>0, <1>1 DEF RowsGo
<1>2. ASSUME NEW role \in {"user", "assistant", "result", "system"}, NEW of \in Pair,
             Write(role, of)
      PROVE  Goal
  BY <1>2, Written DEF RowsGo
<1>3. CASE WriteCall
  <2>1. made' = made
    BY <1>3 DEF WriteCall
  <2>2. /\ msgs' \in Seq(Row) /\ Len(msgs') = Len(msgs)
        /\ \A i \in 1..Len(msgs) :
             /\ msgs'[i].id = msgs[i].id /\ msgs'[i].role = msgs[i].role
             /\ msgs'[i].of = msgs[i].of /\ msgs[i].calls \subseteq msgs'[i].calls
    BY <1>3, CallWritten
  <2>. QED
    BY <1>0, <2>1, <2>2 DEF RowsGo
<1>4. CASE WriteResult
  <2>1. step.of \in 0..MaxRows /\ step.next \in 0..MaxCalls
    BY DEF Shape
  <2>2. <<step.of, step.next>> \in Pair
    BY <2>1 DEF Pair
  <2>3. Write("result", <<step.of, step.next>>)
    BY <1>4 DEF WriteResult
  <2>. QED
    BY <2>2, <2>3, <1>2
<1>5. CASE ClearDeletes
  <2>1. msgs' = <<>> /\ made' = made
    BY <1>5 DEF ClearDeletes
  <2>. QED
    BY <2>1, <1>0 DEF RowsGo
<1>6. CASE \/ PostMessage \/ (\E n \in 0..MaxCalls : Answer(n)) \/ EndRun \/ Note
  BY <1>6, <1>1, <1>2, NoCallIsPair DEF PostMessage, Answer, EndRun, Note
<1>7. CASE \/ LoadSession \/ AskCompaction \/ StartCompaction \/ FoldBegin \/ FoldDone
           \/ FoldSkipped \/ ClearChecks \/ ClearResets \/ ClearFails
           \/ ForkBegin \/ ForkCopies \/ ForkEnds \/ LeaveCalls
  BY <1>7, <1>1 DEF LoadSession, AskCompaction, StartCompaction, FoldBegin, FoldDone,
     FoldSkipped, ClearChecks, ClearResets, ClearFails, ForkBegin, ForkCopies, ForkEnds,
     LeaveCalls
<1>. QED
  BY <1>3, <1>4, <1>5, <1>6, <1>7 DEF TranscriptNext
\* The fold is the ids of a piece of the rows, up to a row after which the
\* window may start; what is before the piece is in the summary already.
LEMMA FoldTaken ==
  ASSUME TranscriptInv, FoldBegin
  PROVE  /\ fold' # {} /\ fold' \subseteq 1..made
         /\ \E x \in fold' : \A y \in fold' : y <= x
         /\ Sound(FoldPair, msgs, made)'
<1>1. msgs \in Seq(Row) /\ made \in 0..MaxRows /\ copy \in Summary
  BY DEF TranscriptInv, TranscriptTypeOK
<1>2. Len(msgs) \in Nat /\ \A i \in 1..Len(msgs) : msgs[i] \in Row /\ msgs[i].id \in Nat \ {0}
  BY <1>1, RowFacts
<1>3. Sorted(msgs, made) /\ Sound(copy, msgs, made)
  BY DEF TranscriptInv, Summaries
<1>4. UNCHANGED <<msgs, made, copy>>
  BY DEF FoldBegin
<1>. DEFINE W == Window(msgs, copy.mark)
<1>5. W \in Seq(Row)
  BY <1>1, WindowStartsBehind
<1>6. PICK k \in 0..Len(msgs) :
        /\ Len(W) = Len(msgs) - k
        /\ \A i \in 1..(Len(msgs) - k) : W[i] = msgs[k + i]
        /\ IF k = 0 THEN copy.mark \notin Ids(msgs) ELSE msgs[k].id = copy.mark
  <2>1. msgs \in Seq(Row)
    BY <1>1
  <2>. QED
    BY <2>1, WindowStartsBehind, Zenon
<1>7. PICK i \in WindowStarts(W) : fold' = Ids(SubSeq(W, 1, i - 1))
  BY DEF FoldBegin
<1>8. i \in 2..(Len(msgs) - k) /\ W[i].role # "result"
  BY <1>6, <1>7 DEF WindowStarts
<1>. HIDE DEF W
<1>9. fold' = {msgs[k + x].id : x \in 1..(i - 1)}
  <2>1. \A x \in 1..(i - 1) : W[x] = msgs[k + x] /\ W[x] \in Row
    <3>1. \A x \in 1..(i - 1) : x \in 1..(Len(msgs) - k) /\ k + x \in 1..Len(msgs)
      BY <1>8, <1>2, <1>6
    <3>. QED
      BY <3>1, <1>6, <1>2
  <2>2. 1 \in Int /\ i - 1 \in Int /\ i - 1 >= 1
    BY <1>8
  <2>3. /\ SubSeq(W, 1, i - 1) \in Seq(Row)
        /\ Len(SubSeq(W, 1, i - 1)) = i - 1
        /\ \A x \in 1..(i - 1) : SubSeq(W, 1, i - 1)[x] = W[x]
    <3>1. /\ SubSeq(W, 1, i - 1) \in Seq(Row)
          /\ Len(SubSeq(W, 1, i - 1)) = IF 1 <= i - 1 THEN (i - 1) - 1 + 1 ELSE 0
          /\ \A x \in 1..((i - 1) - 1 + 1) : SubSeq(W, 1, i - 1)[x] = W[1 + x - 1]
      BY <2>1, <2>2, SubSeqProperties
    <3>. QED
      BY <3>1, <2>2
  <2>4. Ids(SubSeq(W, 1, i - 1)) = {SubSeq(W, 1, i - 1)[x].id : x \in 1..(i - 1)}
    BY <2>3, RowFacts
  <2>5. \A x \in 1..(i - 1) : SubSeq(W, 1, i - 1)[x] = msgs[k + x]
    BY <2>1, <2>3
  <2>6. {SubSeq(W, 1, i - 1)[x].id : x \in 1..(i - 1)} = {msgs[k + x].id : x \in 1..(i - 1)}
    BY <2>5
  <2>. QED
    BY <2>4, <2>6, <1>7
<1>. DEFINE top == k + (i - 1)
<1>10. top \in 1..Len(msgs) /\ top < Len(msgs) /\ top + 1 = k + i
  BY <1>2, <1>6, <1>8
<1>11. \A x \in 1..(i - 1) : k + x \in 1..top /\ k + x \in 1..Len(msgs)
  BY <1>2, <1>6, <1>8
<1>12. \A a \in 1..Len(msgs) : msgs[a].id \in 1..made /\ (a < top => msgs[a].id < msgs[top].id)
  BY <1>1, <1>2, <1>3, <1>10, Bounds DEF Sorted
<1>13. msgs[top].id \in fold' /\ \A y \in fold' : y <= msgs[top].id
  <2>1. msgs[top].id \in fold'
    <3>1. i - 1 \in 1..(i - 1)
      BY <1>8
    <3>. QED
      BY <3>1, <1>9
  <2>2. ASSUME NEW x \in 1..(i - 1) PROVE msgs[k + x].id <= msgs[top].id
    <3>1. k + x \in 1..Len(msgs) /\ (k + x < top \/ k + x = top)
      BY <1>11, <1>10
    <3>2. msgs[k + x].id \in Nat /\ msgs[top].id \in Nat
      BY <3>1, <1>10, <1>2
    <3>. QED
      BY <3>1, <3>2, <1>12
  <2>. QED
    BY <2>1, <2>2, <1>9
<1>14. fold' \subseteq 1..made
  BY <1>9, <1>11, <1>12
<1>15. FoldMark' = msgs[top].id
  <2>1. \A x \in fold' : x \in Nat
    BY <1>14
  <2>2. ASSUME NEW x \in fold', \A y \in fold' : y <= x PROVE x = msgs[top].id
    <3>1. x <= msgs[top].id /\ msgs[top].id <= x
      BY <1>13, <2>2
    <3>. QED
      BY <3>1, <2>1, <1>13
  <2>3. FoldMark' = CHOOSE x \in fold' : \A y \in fold' : y <= x
    BY DEF FoldMark
  <2>. HIDE DEF top
  <2>. QED
    BY <2>2, <2>3, <1>13
<1>. HIDE DEF top
<1>16. Sound([summary |-> copy.summary \cup fold', mark |-> msgs[top].id], msgs, made)
  <2>. DEFINE q == [summary |-> copy.summary \cup fold', mark |-> msgs[top].id]
  <2>1. q.mark <= made
    BY <1>12, <1>10
  <2>2. ASSUME NEW j \in 1..Len(msgs), msgs[j].id = q.mark
        PROVE  /\ \A a \in 1..j : msgs[a].id \in q.summary
               /\ j < Len(msgs) /\ msgs[j + 1].role # "result"
    <3>1. j = top
      <4>1. msgs[j].id = msgs[top].id
        BY <2>2
      <4>2. \A a, b \in 1..Len(msgs) : a < b => msgs[a].id < msgs[b].id
        BY <1>3 DEF Sorted
      <4>3. msgs[j].id \in Nat
        BY <1>2
      <4>. QED
        BY <4>1, <4>2, <4>3, <1>10
    <3>2. msgs[top + 1].role # "result"
      <4>1. W[i] = msgs[k + i]
        BY <1>6, <1>8
      <4>. QED
        BY <4>1, <1>8, <1>10
    <3>3. ASSUME NEW a \in 1..top PROVE msgs[a].id \in copy.summary \cup fold'
      <4>1. CASE a > k
        <5>1. a - k \in 1..(i - 1) /\ k + (a - k) = a
          BY <4>1, <1>6, <1>8, <1>10, <3>3 DEF top
        <5>. QED
          BY <5>1, <1>9
      <4>2. CASE a <= k
        <5>1. k \in 1..Len(msgs) /\ k # 0 /\ a \in 1..k
          BY <4>2, <1>6, <1>2
        <5>2. msgs[k].id = copy.mark
          BY <5>1, <1>6
        <5>. QED
          BY <5>1, <5>2, <1>3 DEF Sound
      <4>. QED
        BY <4>1, <4>2, <1>6, <1>10
    <3>. QED
      BY <3>1, <3>2, <3>3, <1>10
  <2>. QED
    BY <2>1, <2>2 DEF Sound
<1>17. Sound(FoldPair, msgs, made)'
  <2>1. FoldPair' = [summary |-> copy.summary \cup fold', mark |-> msgs[top].id]
    BY <1>15, <1>4 DEF FoldPair
  <2>. QED
    BY <2>1, <1>16, <1>4 DEF Sound
<1>. QED
  BY <1>13, <1>14, <1>17
-------------------------------------------------------------------------------
(* Types.                                                                  *)

\* The row a fork copies is the one that was listed, with the calls it has now.
LEMMA RowCopied ==
  ASSUME TranscriptTypeOK, Shape, ForkCopies
  PROVE  LET m == Head(fork.left) IN
         /\ fork.left # <<>> /\ m \in Row
         /\ Copied(m, CallsNow(m)) \in Row
         /\ Copied(m, CallsNow(m)).id = m.id /\ Copied(m, CallsNow(m)).role = m.role
         /\ Copied(m, CallsNow(m)).calls = CallsNow(m)
         /\ m.of \in Called(fork.rows) => Copied(m, CallsNow(m)).of = m.of
         /\ fork' = [fork EXCEPT !.left = Tail(@), !.rows = Append(@, Copied(m, CallsNow(m)))]
         /\ fork' \in [at : {"no", "copying"}, left : Seq(Row), rows : Seq(Row)]
         /\ fork'.at = "copying"
         /\ fork'.left = Tail(fork.left)
         /\ fork'.rows = Append(fork.rows, Copied(m, CallsNow(m)))
<1>. DEFINE m == Head(fork.left)
<1>1. fork.left # <<>> /\ fork.left \in Seq(Row) /\ fork.rows \in Seq(Row) /\ msgs \in Seq(Row)
  BY DEF TranscriptTypeOK, ForkCopies
<1>2. m \in Row /\ Tail(fork.left) \in Seq(Row)
  BY <1>1, HeadTailProperties
<1>3. CallsNow(m) \subseteq 1..MaxCalls
  <2>1. \A i \in DOMAIN msgs : msgs[i] \in Row
    BY <1>1, RowFacts
  <2>2. \A i \in DOMAIN msgs : msgs[i].calls \subseteq 1..MaxCalls
    BY <2>1 DEF Row
  <2>. QED
    BY <2>2 DEF CallsNow
<1>. DEFINE of2 == IF m.of \in Called(fork.rows) THEN m.of ELSE NoCall
            c == Copied(m, CallsNow(m))
<1>4. c = [m EXCEPT !.calls = CallsNow(m), !.of = of2]
  BY DEF Copied
<1>5. of2 \in Pair
  BY <1>2, NoCallIsPair DEF Row, Pair
<1>. HIDE DEF m, of2
<1>6. /\ c \in Row /\ c.id = m.id /\ c.role = m.role /\ c.calls = CallsNow(m) /\ c.of = of2
  <2>. HIDE DEF c
  <2>. QED
    BY <1>2, <1>3, <1>4, <1>5 DEF Row, Pair
<1>7. m.of \in Called(fork.rows) => of2 = m.of
  BY DEF of2
<1>8. fork' = [fork EXCEPT !.left = Tail(@), !.rows = Append(@, c)]
  BY DEF ForkCopies, m
<1>. HIDE DEF c
<1>9. Append(fork.rows, c) \in Seq(Row)
  BY <1>1, <1>6, AppendRow
<1>10. fork \in [at : {"no", "copying"}, left : Seq(Row), rows : Seq(Row)] /\ fork.at = "copying"
  BY DEF Shape, ForkCopies
<1>11. /\ fork' \in [at : {"no", "copying"}, left : Seq(Row), rows : Seq(Row)]
       /\ fork'.at = "copying" /\ fork'.left = Tail(fork.left)
       /\ fork'.rows = Append(fork.rows, c)
  BY <1>2, <1>8, <1>9, <1>10
<1>. QED
  BY <1>1, <1>2, <1>6, <1>7, <1>8, <1>11 DEF m, c

LEMMA FoldIsSummary ==
  ASSUME TranscriptTypeOK, Shape, Summaries, fold # {}
  PROVE  FoldPair \in Summary /\ FoldMark \in fold
<1>1. FoldMark \in fold
  BY DEF FoldMark, Summaries
<1>2. fold \subseteq 1..MaxRows
  BY Bounds DEF Shape, TranscriptTypeOK
<1>3. copy.summary \subseteq 1..MaxRows
  BY DEF TranscriptTypeOK, Summary
<1>4. FoldMark \in 0..MaxRows
  BY <1>1, <1>2, Bounds
<1>. QED
  BY <1>1, <1>2, <1>3, <1>4 DEF FoldPair, Summary

LEMMA StepTypes ==
  ASSUME TranscriptInv, TranscriptNext
  PROVE  TranscriptTypeOK' /\ Shape'
<1>. USE DEF TranscriptTypeOK, Shape
<1>0. TranscriptTypeOK /\ Shape /\ Summaries
  BY DEF TranscriptInv
<1>1. made' \in 0..MaxRows /\ msgs' \in Seq(Row)
  BY <1>0, StepRows
<1>2. made' = made \/ made' = made + 1
  BY <1>0, StepRows DEF RowsGo
<1>3. 1..made \subseteq 1..made'
  BY <1>0, <1>1, <1>2, Bounds
<1>4. Cardinality({}) = 0 /\ Cardinality({stored}) = 1
  BY FS_EmptySet, FS_Singleton
<1>5. Blank \in Summary /\ NoStep = [of |-> 0, calls |-> 0, next |-> 0]
  BY BlankIsSummary DEF NoStep
<1>6. NoStep \in [of : 0..MaxRows, calls : 0..MaxCalls, next : 0..MaxCalls] /\ NoStep.of = 0
  BY <1>5, Bounds
<1>7. NoFork \in [at : {"no", "copying"}, left : Seq(Row), rows : Seq(Row)] /\ NoFork.at = "no"
  BY DEF NoFork
\* Who lets go of the lease holds nothing.
<1>8. ASSUME LetGo, UNCHANGED <<asked, clearing, fork, torn>>, stored' \in Summary
      PROVE  TranscriptTypeOK' /\ Shape'
  <2>1. /\ held' = "none" /\ stage' = "out" /\ copy' = Blank /\ blind' = FALSE
        /\ fold' = {} /\ step' = NoStep
    BY <1>8 DEF LetGo
  <2>2. TranscriptTypeOK'
    <3>1. /\ stage' \notin {"calls", "results"} /\ ~(step' # NoStep)
          /\ stage' # "folding" /\ ~(fold' # {})
      BY <2>1
    <3>2. /\ (held' = "none") = (stage' = "out") /\ (stage' = "folding") = (fold' # {})
          /\ (stage' \in {"calls", "results"}) = (step' # NoStep)
      BY <3>1, <2>1
    <3>3. copy' \in Summary /\ blind' \in BOOLEAN /\ held' \in {"none", "turn", "manual"}
          /\ stage' \in {"out", "load", "before", "folding", "asked", "calls", "results"}
      BY <1>5, <2>1
    <3>. QED
      BY <1>0, <1>1, <1>8, <3>2, <3>3
  <2>3. Shape'
    BY <1>0, <1>1, <1>6, <1>8, <2>1
  <2>. QED
    BY <2>2, <2>3
\* Who leaves the lease, the summary and the request alone.
<1>9. ASSUME UNCHANGED <<stored, leaseVars, asked>>, clearing' \in {"no", "checked", "deleted"},
             torn' \subseteq {"session", "fork"},
             fork' \in [at : {"no", "copying"}, left : Seq(Row), rows : Seq(Row)],
             fork'.at = "no" => fork' = NoFork
      PROVE  TranscriptTypeOK' /\ Shape'
  <2>1. UNCHANGED <<held, stage, copy, blind, fold, step>>
    BY <1>9 DEF leaseVars
  <2>2. TranscriptTypeOK'
    BY <1>0, <1>1, <1>9, <2>1
  <2>3. Shape'
    BY <1>0, <1>1, <1>3, <1>9, <2>1
  <2>. QED
    BY <2>2, <2>3
<1>10. CASE PostMessage
  BY <1>0, <1>1, <1>3, <1>10 DEF PostMessage
<1>11. CASE LoadSession
  <2>1. copy' \in Summary /\ blind' \in BOOLEAN
    BY <1>0, <1>5, <1>11 DEF LoadSession
  <2>2. /\ held = "turn" /\ stage = "load" /\ stage' = "before"
        /\ UNCHANGED <<msgs, made, stored, held, fold, step, asked, clearing, fork, torn>>
    BY <1>11 DEF LoadSession
  <2>. QED
    BY <1>0, <1>1, <1>3, <2>1, <2>2
<1>12. ASSUME NEW n \in 0..MaxCalls, Answer(n) PROVE TranscriptTypeOK' /\ Shape'
  <2>1. made' = made + 1
    BY <1>12 DEF Answer, Write
  <2>2. CASE n = 0
    BY <1>0, <1>1, <1>3, <1>12, <2>2 DEF Answer
  <2>3. CASE n # 0
    <3>. DEFINE s == [of |-> made + 1, calls |-> n, next |-> 1]
    <3>1. step' = s /\ stage' = "calls" /\ stage = "asked"
      BY <1>12, <2>3 DEF Answer
    <3>2. /\ s \in [of : 0..MaxRows, calls : 0..MaxCalls, next : 0..MaxCalls]
          /\ s.of \in 1..made' /\ s.next >= 1 /\ s.next <= s.calls /\ s # NoStep
      BY <1>0, <1>1, <1>5, <2>1, <2>3, Bounds
    <3>. HIDE DEF s
    <3>. QED
      BY <1>0, <1>1, <1>3, <1>12, <3>1, <3>2 DEF Answer
  <2>. QED
    BY <2>2, <2>3
<1>13. CASE WriteCall
  <2>. DEFINE s == IF step.next = step.calls THEN [step EXCEPT !.next = 1]
                                             ELSE [step EXCEPT !.next = @ + 1]
  <2>1. stage = "calls" /\ step' = s /\ stage' \in {"calls", "results"}
    BY <1>13 DEF WriteCall
  <2>2. /\ s \in [of : 0..MaxRows, calls : 0..MaxCalls, next : 0..MaxCalls]
        /\ s.of \in 1..made /\ s.next >= 1 /\ s.next <= s.calls /\ s # NoStep
    <3>0. /\ step \in [of : 0..MaxRows, calls : 0..MaxCalls, next : 0..MaxCalls]
          /\ step.of \in 1..made /\ step.next >= 1 /\ step.next <= step.calls /\ made \in Nat
      BY <1>0, <2>1
    <3>1. CASE step.next = step.calls
      BY <1>6, <3>0, <3>1, Bounds
    <3>2. CASE step.next # step.calls
      BY <1>6, <3>0, <3>2, Bounds
    <3>. QED
      BY <3>1, <3>2
  <2>. HIDE DEF s
  <2>. QED
    BY <1>0, <1>1, <1>3, <1>13, <2>1, <2>2 DEF WriteCall
<1>14. CASE WriteResult
  <2>1. CASE step.next = step.calls
    BY <1>0, <1>1, <1>3, <1>6, <1>14, <2>1 DEF WriteResult
  <2>2. CASE step.next # step.calls
    <3>. DEFINE s == [step EXCEPT !.next = @ + 1]
    <3>1. stage = "results" /\ step' = s /\ stage' = "results"
      BY <1>14, <2>2 DEF WriteResult
    <3>2. /\ s \in [of : 0..MaxRows, calls : 0..MaxCalls, next : 0..MaxCalls]
          /\ s.of \in 1..made /\ s.next >= 1 /\ s.next <= s.calls /\ s # NoStep
      <4>1. /\ step \in [of : 0..MaxRows, calls : 0..MaxCalls, next : 0..MaxCalls]
            /\ step.of \in 1..made /\ step.next >= 1 /\ step.next <= step.calls
        BY <1>0, <3>1
      <4>2. /\ step.next \in 0..MaxCalls /\ step.calls \in 0..MaxCalls
            /\ step.next + 1 \in 0..MaxCalls /\ step.next + 1 <= step.calls
        BY <2>2, <4>1, Bounds
      <4>3. s = [of |-> step.of, calls |-> step.calls, next |-> step.next + 1]
        BY <4>1
      <4>4. s.of # 0
        BY <1>0, <4>1, <4>3, Bounds
      <4>. QED
        BY <1>6, <4>1, <4>2, <4>3, <4>4
    <3>. HIDE DEF s
    <3>. QED
      BY <1>0, <1>1, <1>3, <1>14, <3>1, <3>2 DEF WriteResult
  <2>. QED
    BY <2>1, <2>2
<1>27. CASE LeaveCalls
  BY <1>0, <1>1, <1>3, <1>6, <1>27 DEF LeaveCalls
<1>15. CASE EndRun
  <2>1. LetGo /\ UNCHANGED <<stored, asked, clearing, fork, torn>>
    BY <1>15 DEF EndRun
  <2>. QED
    BY <1>8, <1>3, <1>0, <1>1, <2>1
<1>16. CASE AskCompaction
  BY <1>0, <1>1, <1>3, <1>4, <1>16 DEF AskCompaction, leaseVars
<1>17. CASE StartCompaction
  <2>1. /\ asked' = {} /\ UNCHANGED <<msgs, made, stored, clearing, fork, torn>>
    BY <1>17 DEF StartCompaction
  <2>2. CASE held = "none"
    <3>1. /\ held' = "manual" /\ stage' = "before" /\ copy' \in Summary
          /\ UNCHANGED <<blind, fold, step>> /\ stage = "out"
      BY <1>0, <1>17, <2>2 DEF StartCompaction
    <3>. QED
      BY <1>0, <1>1, <1>3, <1>4, <2>1, <3>1
  <2>3. CASE held # "none"
    <3>1. UNCHANGED <<held, stage, copy, blind, fold, step>>
      BY <1>17, <2>3 DEF StartCompaction, leaseVars
    <3>. QED
      BY <1>0, <1>1, <1>3, <1>4, <2>1, <3>1
  <2>. QED
    BY <2>2, <2>3
<1>18. CASE FoldBegin
  BY <1>0, <1>1, <1>3, <1>18, FoldTaken DEF FoldBegin
<1>19. CASE FoldDone
  <2>1. fold # {} /\ stored' = FoldPair
    BY <1>0, <1>19 DEF FoldDone, FoldPair, FoldMark
  <2>2. FoldPair \in Summary
    BY <1>0, <2>1, FoldIsSummary
  <2>3. copy' \in Summary /\ blind' \in BOOLEAN
    BY <1>0, <1>5, <1>19, <2>1, <2>2 DEF FoldDone, AfterFold, LetGo, FoldPair, FoldMark
  <2>. QED
    <3>1. stored' \in Summary /\ UNCHANGED <<msgs, made, asked, clearing, fork, torn>>
      BY <1>19, <2>1, <2>2 DEF FoldDone
    <3>2. CASE held = "manual"
      BY <1>8, <1>19, <3>1, <3>2 DEF FoldDone, AfterFold
    <3>3. CASE held # "manual"
      <4>1. /\ stage = "folding" /\ stage' = "asked" /\ fold' = {} /\ UNCHANGED <<held, step>>
        BY <1>19, <3>3 DEF FoldDone, AfterFold
      <4>. QED
        BY <1>0, <1>1, <1>3, <2>3, <3>1, <3>3, <4>1
    <3>. QED
      BY <3>2, <3>3
<1>20. CASE FoldSkipped
  <2>1. UNCHANGED <<msgs, made, stored, asked, clearing, fork, torn>>
    BY <1>20 DEF FoldSkipped
  <2>2. CASE held = "manual"
    BY <1>0, <1>8, <1>20, <2>1, <2>2 DEF FoldSkipped, AfterFold
  <2>3. CASE held # "manual"
    <3>1. /\ stage \in {"before", "folding"} /\ stage' = "asked" /\ fold' = {}
          /\ UNCHANGED <<held, step, copy, blind>> /\ held = "turn"
      BY <1>0, <1>20, <2>3 DEF FoldSkipped, AfterFold
    <3>. QED
      BY <1>0, <1>1, <1>3, <2>1, <3>1
  <2>. QED
    BY <2>2, <2>3
<1>21. CASE Note
  <2>1. /\ UNCHANGED <<stored, leaseVars, asked, clearing, fork>>
        /\ torn' \subseteq torn \cup {"session"}
    BY <1>21 DEF Note
  <2>. QED
    BY <1>0, <1>9, <2>1
<1>22. CASE ClearChecks \/ ClearDeletes \/ ClearFails
  <2>1. /\ UNCHANGED <<stored, leaseVars, asked, fork>>
        /\ torn' \subseteq torn \cup {"session", "fork"}
        /\ clearing' \in {"no", "checked", "deleted"}
    BY <1>22 DEF ClearChecks, ClearDeletes, ClearFails
  <2>. QED
    BY <1>0, <1>9, <2>1
<1>23. CASE ClearResets
  BY <1>0, <1>1, <1>3, <1>5, <1>23 DEF ClearResets, leaseVars
<1>24. CASE ForkBegin
  BY <1>0, <1>1, <1>3, <1>24 DEF ForkBegin, leaseVars
<1>25. CASE ForkCopies
  <2>1. /\ fork' \in [at : {"no", "copying"}, left : Seq(Row), rows : Seq(Row)]
        /\ fork'.at = "copying"
    BY <1>0, <1>25, RowCopied
  <2>2. UNCHANGED <<stored, leaseVars, asked, clearing, torn>>
    BY <1>25 DEF ForkCopies
  <2>. QED
    BY <1>0, <1>9, <2>1, <2>2
<1>26. CASE ForkEnds
  BY <1>0, <1>1, <1>3, <1>7, <1>26 DEF ForkEnds, leaseVars
<1>. QED
  BY <1>10, <1>11, <1>12, <1>13, <1>14, <1>15, <1>16, <1>17, <1>18, <1>19, <1>20, <1>21,
     <1>22, <1>23, <1>24, <1>25, <1>26, <1>27 DEF TranscriptNext
-------------------------------------------------------------------------------
(* Nothing is forgotten.                                                   *)

\* Where the pairs come from that are in use after a step.
LEMMA PairsAfter ==
  ASSUME TranscriptInv, TranscriptNext
  PROVE  /\ \A q \in {stored', copy'} \cup asked' :
              q \in {stored, copy, Blank} \cup asked \/ (fold # {} /\ q = FoldPair)
         /\ fold' = {} \/ (fold' = fold /\ copy' = copy) \/ FoldBegin
<1>. DEFINE Goal == /\ \A q \in {stored', copy'} \cup asked' :
                         q \in {stored, copy, Blank} \cup asked \/ (fold # {} /\ q = FoldPair)
                    /\ fold' = {} \/ (fold' = fold /\ copy' = copy) \/ FoldBegin
<1>1. /\ (held = "none") = (stage = "out") /\ (stage = "folding") = (fold # {})
  BY DEF TranscriptInv, TranscriptTypeOK
<1>2. CASE \/ PostMessage \/ (\E n \in 0..MaxCalls : Answer(n)) \/ WriteCall \/ WriteResult
           \/ Note \/ ClearChecks \/ ClearDeletes \/ ClearFails \/ LeaveCalls
           \/ ForkBegin \/ ForkCopies \/ ForkEnds
  <2>1. UNCHANGED <<stored, copy, asked, fold>>
    BY <1>2 DEF PostMessage, Answer, WriteCall, WriteResult, LeaveCalls, Note, ClearChecks, ClearDeletes,
       ClearFails, ForkBegin, ForkCopies, ForkEnds, leaseVars
  <2>. QED
    BY <2>1
<1>3. CASE LoadSession
  BY <1>1, <1>3 DEF LoadSession
<1>4. CASE EndRun
  BY <1>1, <1>4 DEF EndRun, LetGo
<1>5. CASE AskCompaction
  BY <1>1, <1>5 DEF AskCompaction, leaseVars
<1>6. CASE StartCompaction
  BY <1>1, <1>6 DEF StartCompaction, leaseVars
<1>7. CASE FoldBegin
  BY <1>1, <1>7 DEF FoldBegin
<1>8. CASE FoldDone
  <2>1. fold # {} /\ stored' = FoldPair /\ asked' = asked /\ fold' = {}
    BY <1>1, <1>8 DEF FoldDone, FoldPair, FoldMark, AfterFold, LetGo
  <2>2. copy' = Blank \/ copy' = FoldPair
    <3>1. CASE held = "manual"
      BY <1>8, <3>1 DEF FoldDone, AfterFold, LetGo
    <3>2. CASE held # "manual"
      <4>1. held = "turn"
        BY <1>1, <1>8, <3>2 DEF FoldDone, TranscriptInv, TranscriptTypeOK
      <4>. QED
        BY <1>8, <4>1 DEF FoldDone, FoldPair, FoldMark
    <3>. QED
      BY <3>1, <3>2
  <2>. QED
    BY <2>1, <2>2
<1>9. CASE FoldSkipped
  <2>1. stored' = stored /\ asked' = asked /\ fold' = {}
    BY <1>9 DEF FoldSkipped, AfterFold, LetGo
  <2>2. copy' = Blank \/ copy' = copy
    <3>1. held \in {"none", "turn", "manual"}
      BY DEF TranscriptInv, TranscriptTypeOK
    <3>. QED
      BY <1>9, <3>1 DEF FoldSkipped, AfterFold, LetGo
  <2>. QED
    BY <2>1, <2>2
<1>10. CASE ClearResets
  BY <1>1, <1>10 DEF ClearResets, leaseVars
<1>. QED
  BY <1>2, <1>3, <1>4, <1>5, <1>6, <1>7, <1>8, <1>9, <1>10 DEF TranscriptNext

\* The empty summary is sound: no row has its mark.
LEMMA BlankIsSound ==
  ASSUME NEW rows \in Seq(Row), NEW n \in Nat
  PROVE  Sound(Blank, rows, n)
BY RowFacts DEF Sound, Blank

LEMMA StepSummaries ==
  ASSUME TranscriptInv, TranscriptNext
  PROVE  Summaries'
<1>1. TranscriptTypeOK /\ Shape /\ Summaries /\ TranscriptTypeOK' /\ Shape'
  BY StepTypes DEF TranscriptInv
<1>2. /\ msgs \in Seq(Row) /\ msgs' \in Seq(Row) /\ made \in Nat /\ made' \in Nat
      /\ RowsGo(msgs, made, msgs', made')
  BY <1>1, StepRows, Bounds DEF TranscriptTypeOK
<1>3. /\ Sorted(msgs', made')
      /\ \A q \in Summary : Sound(q, msgs, made) => Sound(q, msgs', made')
  BY <1>1, <1>2, RowsGoKeep DEF Summaries
<1>4. \A q \in {stored, copy} \cup asked : q \in Summary /\ Sound(q, msgs, made)
  BY <1>1 DEF Summaries, TranscriptTypeOK
<1>5. fold # {} => /\ FoldPair \in Summary /\ Sound(FoldPair, msgs, made)
                   /\ \E x \in fold : \A y \in fold : y <= x
  BY <1>1, FoldIsSummary DEF Summaries
<1>6. \A q \in {stored', copy'} \cup asked' : Sound(q, msgs', made')
  <2>1. Sound(Blank, msgs', made')
    BY <1>2, BlankIsSound
  <2>. QED
    BY <1>3, <1>4, <1>5, <2>1, PairsAfter
<1>7. fold' # {} => /\ \E x \in fold' : \A y \in fold' : y <= x
                    /\ Sound(FoldPair', msgs', made')
  <2>1. CASE FoldBegin
    BY <2>1, FoldTaken DEF Sound
  <2>2. CASE fold' = fold /\ copy' = copy
    <3>1. FoldPair' = FoldPair
      BY <2>2 DEF FoldPair, FoldMark
    <3>. QED
      BY <1>3, <1>5, <2>2, <3>1
  <2>. QED
    BY <2>1, <2>2, PairsAfter
<1>. QED
  BY <1>3, <1>6, <1>7 DEF Summaries, Sorted, Sound

LEMMA StepTurnReads ==
  ASSUME TranscriptInv, TranscriptNext
  PROVE  TurnReadsStored'
<1>1. /\ (held = "none") = (stage = "out") /\ TurnReadsStored
      /\ held \in {"none", "turn", "manual"}
  BY DEF TranscriptInv, TranscriptTypeOK
<1>2. CASE \/ (\E n \in 0..MaxCalls : Answer(n)) \/ WriteCall \/ WriteResult
           \/ Note \/ ClearChecks \/ ClearDeletes \/ ClearFails \/ AskCompaction
           \/ LeaveCalls \/ ForkBegin \/ ForkCopies \/ ForkEnds \/ FoldBegin
  <2>1. UNCHANGED <<stored, copy, held, blind>> /\ (held = "turn" /\ stage' # "load" => stage # "load")
    BY <1>2 DEF Answer, WriteCall, WriteResult, LeaveCalls, Note, ClearChecks, ClearDeletes,
       ClearFails, ForkBegin, ForkCopies, ForkEnds, AskCompaction, FoldBegin, leaseVars
  <2>. QED
    BY <1>1, <2>1 DEF TurnReadsStored
<1>3. CASE \/ PostMessage \/ LoadSession
  BY <1>3 DEF PostMessage, LoadSession, TurnReadsStored
<1>4. CASE EndRun \/ StartCompaction
  BY <1>1, <1>4 DEF EndRun, LetGo, StartCompaction, leaseVars, TurnReadsStored
<1>5. CASE FoldDone
  BY <1>1, <1>5 DEF FoldDone, AfterFold, LetGo, TurnReadsStored
<1>6. CASE FoldSkipped
  BY <1>1, <1>6 DEF FoldSkipped, AfterFold, LetGo, TurnReadsStored
<1>7. CASE ClearResets
  BY <1>7, BlankIsSummary DEF ClearResets, TurnReadsStored
<1>. QED
  BY <1>2, <1>3, <1>4, <1>5, <1>6, <1>7 DEF TranscriptNext
-------------------------------------------------------------------------------
(* Results follow their calls.                                             *)

LEMMA ChainGrows ==
  ASSUME NEW rows \in Seq(Row), NEW m \in Row, Chained(rows),
         m.role = "result" =>
           \E i \in 1..Len(rows) :
             /\ rows[i].role = "assistant" /\ m.of \in {rows[i].id} \X rows[i].calls
             /\ \A k \in (i + 1)..Len(rows) : rows[k].role = "result" /\ rows[k].of # m.of
  PROVE  Chained(Append(rows, m))
<1>. DEFINE more == Append(rows, m)
            n == Len(rows)
<1>1. /\ n \in Nat /\ Len(more) = n + 1 /\ more[n + 1] = m
      /\ \A i \in 1..n : more[i] = rows[i]
  BY AppendRow
<1>. HIDE DEF more, n
<1>2. ASSUME NEW j \in 1..Len(more), more[j].role = "result"
      PROVE  \E i \in 1..(j - 1) : Follows(more, i, j)
  <2>1. CASE j = n + 1
    <3>1. PICK i \in 1..n :
            /\ rows[i].role = "assistant" /\ m.of \in {rows[i].id} \X rows[i].calls
            /\ \A k \in (i + 1)..n : rows[k].role = "result" /\ rows[k].of # m.of
      BY <1>1, <1>2, <2>1 DEF n
    <3>2. i \in 1..(j - 1) /\ j - 1 = n /\ \A k \in (i + 1)..n : k \in 1..n
      BY <1>1, <2>1
    <3>3. Follows(more, i, j)
      BY <1>1, <2>1, <3>1, <3>2 DEF Follows
    <3>. QED
      BY <3>2, <3>3
  <2>2. CASE j # n + 1
    <3>1. j \in 1..n /\ rows[j].role = "result"
      BY <1>1, <1>2, <2>2
    <3>2. PICK i \in 1..(j - 1) : Follows(rows, i, j)
      BY <3>1 DEF Chained, n
    <3>3. i \in 1..n /\ \A k \in (i + 1)..(j - 1) : k \in 1..n
      BY <1>1, <3>1
    <3>4. Follows(more, i, j)
      BY <1>1, <3>1, <3>2, <3>3 DEF Follows
    <3>. QED
      BY <3>4
  <2>. QED
    BY <2>1, <2>2
<1>. QED
  BY <1>2 DEF Chained, more

LEMMA StepChained ==
  ASSUME TranscriptInv, TranscriptNext
  PROVE  RowsAreChained'
<1>. SUFFICES ASSUME Whole' PROVE Chained(msgs)' /\ AnswerIsOpen'
  BY DEF RowsAreChained
<1>1. TranscriptTypeOK /\ Shape /\ msgs \in Seq(Row) /\ made \in 0..MaxRows
  BY DEF TranscriptInv, TranscriptTypeOK
<1>2. /\ Len(msgs) \in Nat /\ made \in Nat
      /\ \A i \in 1..Len(msgs) : msgs[i] \in Row /\ msgs[i].id \in Nat \ {0} /\ msgs[i].id <= made
  BY <1>1, RowFacts, Bounds DEF TranscriptInv, Summaries, Sorted
<1>3. stage \in {"calls", "results", "load", "asked"} => held = "turn"
  BY <1>1 DEF TranscriptTypeOK, Shape
\* Only a note and a clearing in the middle of a turn tear the transcript.
<1>4. Whole
  <2>1. torn' = torn \/ (\E t : torn' = torn \cup t) \/ ForkEnds
    BY DEF TranscriptNext, PostMessage, LoadSession, Answer, WriteCall, WriteResult, EndRun,
       LeaveCalls, AskCompaction, StartCompaction, FoldBegin, FoldDone, FoldSkipped, Note, ClearChecks,
       ClearDeletes, ClearResets, ClearFails, ForkBegin, ForkCopies
  <2>. QED
    BY <2>1 DEF Whole, ForkEnds
<1>5. Chained(msgs) /\ AnswerIsOpen
  BY <1>4 DEF TranscriptInv, RowsAreChained
<1>. DEFINE Goal == Chained(msgs)' /\ AnswerIsOpen'
            Idle == stage' \notin {"calls", "results"}
\* A row that is no result keeps the chain; the step must not be open.
<1>6. ASSUME NEW role \in {"user", "assistant", "system"}, Write(role, NoCall)
      PROVE  /\ Chained(msgs)'
             /\ msgs'[Len(msgs')].id = made + 1 /\ msgs'[Len(msgs')].role = role
             /\ Len(msgs') \in 1..Len(msgs')
  <2>1. PICK m \in Row : m.id = made + 1 /\ m.role = role /\ msgs' = Append(msgs, m)
    BY <1>1, <1>6, Written, NoCallIsPair
  <2>2. Chained(Append(msgs, m))
    BY <1>1, <1>5, <2>1, ChainGrows
  <2>. QED
    BY <1>1, <1>2, <2>1, <2>2, AppendRow
<1>7. ASSUME UNCHANGED msgs PROVE Chained(msgs)'
  BY <1>5, <1>7 DEF Chained, Follows
<1>10. CASE \/ PostMessage \/ EndRun
  <2>1. Idle
    BY <1>10 DEF PostMessage, EndRun, LetGo
  <2>. QED
    BY <1>6, <1>7, <1>10, <2>1 DEF PostMessage, EndRun, AnswerIsOpen
<1>11. CASE \/ LoadSession \/ LeaveCalls \/ StartCompaction
            \/ FoldBegin \/ FoldDone \/ FoldSkipped
  <2>1. UNCHANGED msgs /\ (Idle \/ UNCHANGED <<stage, step>>)
    BY <1>11 DEF LoadSession, LeaveCalls, StartCompaction, FoldBegin, FoldDone, FoldSkipped,
       AfterFold, LetGo, leaseVars
  <2>. QED
    BY <1>5, <1>7, <2>1 DEF AnswerIsOpen
<1>12. CASE \/ AskCompaction \/ ClearChecks \/ ClearResets \/ ClearFails
            \/ ForkBegin \/ ForkCopies \/ ForkEnds
  <2>1. UNCHANGED <<msgs, stage, step>>
    BY <1>12 DEF AskCompaction, ClearChecks, ClearResets, ClearFails, ForkBegin, ForkCopies,
       ForkEnds, leaseVars
  <2>. QED
    BY <1>5, <1>7, <2>1 DEF AnswerIsOpen
<1>13. CASE Note
  <2>1. Idle
    BY <1>13 DEF Note, Whole, leaseVars
  <2>. QED
    BY <1>6, <1>13, <2>1 DEF Note, AnswerIsOpen
<1>14. CASE ClearDeletes
  <2>1. Idle
    BY <1>3, <1>14 DEF ClearDeletes, Whole, leaseVars
  <2>2. msgs' = <<>> /\ Len(msgs') = 0
    BY <1>14 DEF ClearDeletes
  <2>. QED
    BY <2>1, <2>2 DEF AnswerIsOpen, Chained
<1>15. ASSUME NEW n \in 0..MaxCalls, Answer(n) PROVE Goal
  <2>1. /\ Chained(msgs)' /\ msgs'[Len(msgs')].id = made + 1
        /\ msgs'[Len(msgs')].role = "assistant" /\ Len(msgs') \in 1..Len(msgs')
    BY <1>6, <1>15 DEF Answer
  <2>2. n # 0 => step'.of = made + 1 /\ step'.next = 1 /\ stage' = "calls"
    BY <1>15 DEF Answer
  <2>3. n = 0 => Idle
    BY <1>15 DEF Answer
  <2>4. 1..(1 - 1) = {}
    OBVIOUS
  <2>. QED
    BY <2>1, <2>2, <2>3, <2>4 DEF AnswerIsOpen
<1>16. CASE WriteCall
  <2>1. /\ Len(msgs') = Len(msgs)
        /\ \A i \in 1..Len(msgs) :
             /\ msgs'[i].id = msgs[i].id /\ msgs'[i].role = msgs[i].role
             /\ msgs'[i].of = msgs[i].of
             /\ msgs'[i].calls = IF msgs[i].id = step.of THEN msgs[i].calls \cup {step.next}
                                                         ELSE msgs[i].calls
    BY <1>1, <1>16, CallWritten
  <2>2. Chained(msgs)'
    <3>1. ASSUME NEW j \in 1..Len(msgs), msgs[j].role = "result"
          PROVE  \E i \in 1..(j - 1) : Follows(msgs', i, j)
      <4>1. PICK i \in 1..(j - 1) : Follows(msgs, i, j)
        BY <1>5, <3>1 DEF Chained
      <4>2. i \in 1..Len(msgs) /\ \A k \in (i + 1)..(j - 1) : k \in 1..Len(msgs)
        BY <1>2
      <4>3. msgs[i].calls \subseteq msgs'[i].calls
        BY <2>1, <4>2
      <4>4. Follows(msgs', i, j)
        BY <2>1, <4>1, <4>2, <4>3 DEF Follows
      <4>. QED
        BY <4>4
    <3>. QED
      BY <2>1, <3>1 DEF Chained
  <2>3. PICK i \in 1..Len(msgs) :
          /\ msgs[i].id = step.of /\ msgs[i].role = "assistant"
          /\ i = Len(msgs) /\ 1..(step.next - 1) \subseteq msgs[i].calls
    BY <1>5, <1>16 DEF AnswerIsOpen, WriteCall
  <2>4. step.next \in Nat /\ 1..step.next \subseteq 1..(step.next - 1) \cup {step.next}
    BY <1>1, Bounds DEF Shape
  <2>5. 1..step.next \subseteq msgs'[i].calls /\ msgs'[i].id = step.of
        /\ msgs'[i].role = "assistant" /\ i = Len(msgs')
    BY <2>1, <2>3, <2>4
  <2>6. step'.of = step.of /\ stage' \in {"calls", "results"}
        /\ (stage' = "calls" => step'.next - 1 = step.next)
        /\ (stage' = "results" => step'.calls = step.next)
    <3>1. step \in [of : 0..MaxRows, calls : 0..MaxCalls, next : 0..MaxCalls]
      BY <1>1 DEF Shape
    <3>2. CASE step.next = step.calls
      BY <3>1, <3>2, <1>16 DEF WriteCall
    <3>3. CASE step.next # step.calls
      BY <3>1, <3>3, <1>16, Bounds DEF WriteCall
    <3>. QED
      BY <3>2, <3>3
  <2>7. \A k \in (i + 1)..Len(msgs') : FALSE
    BY <2>5, <1>2
  <2>. QED
    BY <2>1, <2>2, <2>3, <2>5, <2>6, <2>7 DEF AnswerIsOpen
<1>17. CASE WriteResult
  <2>1. /\ step \in [of : 0..MaxRows, calls : 0..MaxCalls, next : 0..MaxCalls]
        /\ step.next >= 1 /\ step.next <= step.calls /\ stage = "results" /\ held = "turn"
    BY <1>1, <1>17 DEF Shape, WriteResult
  <2>2. PICK m \in Row : /\ m.id = made + 1 /\ m.role = "result"
                         /\ m.of = <<step.of, step.next>> /\ msgs' = Append(msgs, m)
    BY <1>1, <1>17, <2>1, Written DEF WriteResult, Pair
  <2>3. PICK i \in 1..Len(msgs) :
          /\ msgs[i].id = step.of /\ msgs[i].role = "assistant"
          /\ 1..step.calls \subseteq msgs[i].calls
          /\ \A k \in (i + 1)..Len(msgs) :
               msgs[k].role = "result" /\ msgs[k].of \in {step.of} \X (1..(step.next - 1))
    BY <1>5, <2>1 DEF AnswerIsOpen
  <2>4. step.next \in Nat /\ step.next \in 1..step.calls /\ step.next \notin 1..(step.next - 1)
        /\ step.next \in 1..step.next /\ 1..(step.next - 1) \subseteq 1..step.next
    BY <2>1, Bounds
  <2>5. Chained(msgs)'
    <3>1. m.of \in {msgs[i].id} \X msgs[i].calls
      BY <2>2, <2>3, <2>4
    <3>2. \A k \in (i + 1)..Len(msgs) : msgs[k].of # m.of
      BY <2>2, <2>3, <2>4
    <3>. QED
      BY <1>1, <1>5, <2>2, <2>3, <3>1, <3>2, ChainGrows
  <2>6. /\ Len(msgs') = Len(msgs) + 1 /\ msgs'[Len(msgs) + 1] = m
        /\ \A k \in 1..Len(msgs) : msgs'[k] = msgs[k]
    BY <1>1, <2>2, AppendRow
  <2>7. CASE step.next = step.calls
    <3>1. Idle
      BY <1>17, <2>7 DEF WriteResult
    <3>. QED
      BY <2>5, <3>1 DEF AnswerIsOpen
  <2>8. CASE step.next # step.calls
    <3>1. /\ stage' = "results" /\ step'.of = step.of /\ step'.calls = step.calls
          /\ step'.next - 1 = step.next
      BY <1>17, <2>1, <2>4, <2>8 DEF WriteResult
    <3>2. ASSUME NEW k \in (i + 1)..(Len(msgs) + 1)
          PROVE  msgs'[k].role = "result" /\ msgs'[k].of \in {step.of} \X (1..step.next)
      <4>1. CASE k = Len(msgs) + 1
        <5>1. msgs'[k] = m
          BY <2>6, <4>1
        <5>2. <<step.of, step.next>> \in {step.of} \X (1..step.next)
          BY <2>4
        <5>. QED
          BY <2>2, <5>1, <5>2
      <4>2. CASE k # Len(msgs) + 1
        <5>1. k \in (i + 1)..Len(msgs) /\ k \in 1..Len(msgs)
          BY <1>2, <4>2
        <5>. QED
          BY <2>3, <2>4, <2>6, <5>1
      <4>. QED
        BY <4>1, <4>2
    <3>3. i \in 1..Len(msgs') /\ msgs'[i] = msgs[i]
      BY <1>2, <2>6
    <3>. QED
      BY <2>3, <2>5, <2>6, <3>1, <3>2, <3>3 DEF AnswerIsOpen
  <2>. QED
    BY <2>7, <2>8
<1>. QED
  BY <1>10, <1>11, <1>12, <1>13, <1>14, <1>15, <1>16, <1>17 DEF TranscriptNext
-------------------------------------------------------------------------------
(* The fork.                                                               *)

\* Unless they are deleted, the rows that are there keep what a fork looks at.
LEMMA RowsStay ==
  ASSUME NEW rows \in Seq(Row), NEW rows2 \in Seq(Row), NEW n, NEW n2,
         RowsGo(rows, n, rows2, n2), rows2 # <<>> \/ rows = <<>>
  PROVE  /\ Len(rows2) >= Len(rows)
         /\ \A i \in 1..Len(rows) : /\ rows2[i].id = rows[i].id
                                    /\ rows2[i].role = rows[i].role
                                    /\ rows2[i].of = rows[i].of
<1>1. Len(rows) \in Nat
  BY RowFacts
<1>2. ASSUME NEW m \in Row, rows2 = Append(rows, m)
      PROVE  /\ Len(rows2) >= Len(rows) /\ \A i \in 1..Len(rows) : rows2[i] = rows[i]
  BY <1>1, <1>2, AppendRow
<1>. QED
  BY <1>1, <1>2 DEF RowsGo

LEMMA StepFork ==
  ASSUME TranscriptInv, TranscriptNext
  PROVE  ForkFollows'
<1>. SUFFICES ASSUME Whole', "fork" \notin torn', fork'.at = "copying"
              PROVE  ForkFollows'
  BY DEF ForkFollows
<1>1. /\ TranscriptTypeOK /\ Shape /\ TranscriptTypeOK'
      /\ msgs \in Seq(Row) /\ msgs' \in Seq(Row) /\ RowsGo(msgs, made, msgs', made')
  BY StepTypes, StepRows DEF TranscriptInv, TranscriptTypeOK
<1>2. /\ Len(msgs) \in Nat /\ fork.left \in Seq(Row) /\ fork.rows \in Seq(Row)
      /\ Len(fork.rows) \in Nat /\ Len(fork.left) \in Nat
  BY <1>1, RowFacts DEF TranscriptTypeOK
<1>3. CASE ForkBegin
  <2>1. /\ fork' = [at |-> "copying", left |-> msgs, rows |-> <<>>] /\ msgs' = msgs
    BY <1>3 DEF ForkBegin
  <2>2. fork'.left = msgs /\ fork'.rows = <<>> /\ Len(fork'.rows) = 0
    BY <2>1
  <2>. QED
    BY <1>2, <2>1, <2>2 DEF ForkFollows, Listed
<1>4. CASE ForkCopies
  <2>. DEFINE m == Head(fork.left)
              c == Copied(m, CallsNow(m))
              p == Len(fork.rows)
              n == Len(fork.left)
  <2>1. /\ fork.left # <<>> /\ m \in Row /\ c \in Row /\ c.id = m.id /\ c.role = m.role
        /\ c.calls = CallsNow(m)
        /\ m.of \in Called(fork.rows) => c.of = m.of
        /\ fork'.left = Tail(fork.left) /\ fork'.rows = Append(fork.rows, c)
    BY <1>1, <1>4, RowCopied
  <2>2. UNCHANGED <<msgs, torn>> /\ fork.at = "copying"
    BY <1>4 DEF ForkCopies
  <2>3. Whole /\ "fork" \notin torn
    BY <2>2 DEF Whole
  <2>4. Chained(msgs)
    BY <2>3 DEF TranscriptInv, RowsAreChained
  <2>5. /\ p + n <= Len(msgs)
        /\ \A i \in 1..p : /\ fork.rows[i].id = msgs[i].id
                           /\ fork.rows[i].role = msgs[i].role
                           /\ msgs[i].role = "result" => fork.rows[i].of = msgs[i].of
        /\ \A i \in 1..n : /\ fork.left[i].id = msgs[p + i].id
                           /\ fork.left[i].role = msgs[p + i].role
                           /\ fork.left[i].of = msgs[p + i].of
        /\ \A i \in 1..p, j \in 1..(p + n) :
             msgs[j].role = "result" /\ msgs[j].of[1] = msgs[i].id
               => msgs[j].of[2] \in fork.rows[i].calls
    BY <2>2, <2>3 DEF TranscriptInv, ForkFollows, Listed
  <2>6. /\ p \in Nat /\ n \in Nat /\ n >= 1 /\ m = fork.left[1]
        /\ Len(Tail(fork.left)) = n - 1
        /\ \A i \in 1..(n - 1) : Tail(fork.left)[i] = fork.left[i + 1]
    BY <1>2, <2>1
  <2>7. /\ Len(fork'.rows) = p + 1 /\ fork'.rows[p + 1] = c
        /\ \A i \in 1..p : fork'.rows[i] = fork.rows[i]
    BY <1>2, <2>1, AppendRow
  <2>. HIDE DEF m, c, p, n
  <2>8. /\ m.id = msgs[p + 1].id /\ m.role = msgs[p + 1].role /\ m.of = msgs[p + 1].of
        /\ p + 1 \in 1..Len(msgs) /\ p + 1 \in 1..(p + n)
    BY <1>2, <2>5, <2>6
  <2>9. \A j \in 1..(p + n) : j \in 1..Len(msgs)
    BY <1>2, <2>5, <2>6
  \* A call that a result answers is in the row the result follows.
  <2>10. ASSUME NEW j \in 1..(p + n), msgs[j].role = "result"
         PROVE  \E i \in 1..(j - 1) : /\ i \in 1..Len(msgs)
                                      /\ msgs[j].of = <<msgs[j].of[1], msgs[j].of[2]>>
                                      /\ msgs[j].of[1] = msgs[i].id
                                      /\ msgs[j].of[2] \in msgs[i].calls
    <3>1. PICK i \in 1..(j - 1) : Follows(msgs, i, j)
      BY <2>4, <2>9, <2>10 DEF Chained
    <3>2. msgs[j].of \in {msgs[i].id} \X msgs[i].calls
      BY <3>1 DEF Follows
    <3>3. i \in 1..Len(msgs)
      BY <1>2, <2>9
    <3>. QED
      BY <3>2, <3>3
  <2>11. ASSUME NEW j \in 1..(p + n), msgs[j].role = "result", msgs[j].of[1] = msgs[p + 1].id
         PROVE  msgs[j].of[2] \in CallsNow(m)
    <3>1. PICK i \in 1..Len(msgs) : msgs[j].of[1] = msgs[i].id /\ msgs[j].of[2] \in msgs[i].calls
      BY <2>10, <2>11
    <3>2. i \in DOMAIN msgs /\ msgs[i].id = m.id
      BY <1>1, <2>8, <2>11, <3>1, RowFacts
    <3>. QED
      BY <3>1, <3>2 DEF CallsNow
  <2>12. msgs[p + 1].role = "result" => c.of = msgs[p + 1].of
    <3>1. ASSUME msgs[p + 1].role = "result" PROVE m.of \in Called(fork.rows)
      <4>1. PICK i \in 1..p : /\ msgs[p + 1].of = <<msgs[p + 1].of[1], msgs[p + 1].of[2]>>
                              /\ msgs[p + 1].of[1] = msgs[i].id
                              /\ msgs[p + 1].of[2] \in msgs[i].calls
        <5>1. (p + 1) - 1 = p
          BY <2>6
        <5>. QED
          BY <2>8, <2>10, <3>1, <5>1
      <4>2. msgs[p + 1].of[2] \in fork.rows[i].calls /\ fork.rows[i].id = msgs[p + 1].of[1]
        BY <2>5, <2>8, <3>1, <4>1
      <4>3. msgs[p + 1].of \in {fork.rows[i].id} \X fork.rows[i].calls
        BY <4>1, <4>2
      <4>4. i \in DOMAIN fork.rows
        BY <1>2, RowFacts DEF p
      <4>. QED
        BY <2>8, <4>3, <4>4 DEF Called
    <3>. QED
      BY <2>1, <2>8, <3>1
  <2>13. Listed' = p + n
    <3>1. Len(fork'.rows) = p + 1 /\ Len(fork'.left) = n - 1
      BY <2>1, <2>6, <2>7
    <3>. QED
      BY <2>6, <3>1 DEF Listed
  <2>14. ASSUME NEW i \in 1..(p + 1)
         PROVE  /\ fork'.rows[i].id = msgs[i].id /\ fork'.rows[i].role = msgs[i].role
                /\ msgs[i].role = "result" => fork'.rows[i].of = msgs[i].of
                /\ \A j \in 1..(p + n) :
                     msgs[j].role = "result" /\ msgs[j].of[1] = msgs[i].id
                       => msgs[j].of[2] \in fork'.rows[i].calls
    <3>1. CASE i = p + 1
      BY <2>1, <2>7, <2>8, <2>11, <2>12, <3>1
    <3>2. CASE i # p + 1
      <4>1. i \in 1..p
        BY <2>6, <3>2
      <4>. QED
        BY <2>5, <2>7, <4>1
    <3>. QED
      BY <3>1, <3>2
  <2>15. ASSUME NEW i \in 1..(n - 1)
         PROVE  /\ fork'.left[i].id = msgs[(p + 1) + i].id
                /\ fork'.left[i].role = msgs[(p + 1) + i].role
                /\ fork'.left[i].of = msgs[(p + 1) + i].of
    <3>1. i + 1 \in 1..n /\ (p + 1) + i = p + (i + 1)
      BY <2>6
    <3>. QED
      BY <2>1, <2>5, <2>6, <3>1
  <2>16. Listed' <= Len(msgs)
    BY <2>5, <2>13
  <2>17. Len(fork'.left) = n - 1
    BY <2>1, <2>6
  <2>18. \A i \in 1..(p + 1), j \in 1..Listed' :
           msgs[j].role = "result" /\ msgs[j].of[1] = msgs[i].id
             => msgs[j].of[2] \in fork'.rows[i].calls
    BY <2>13, <2>14
  <2>19. Len(fork'.rows) = p + 1 /\ msgs' = msgs
    BY <2>2, <2>7
  <2>. QED
    BY <2>14, <2>15, <2>16, <2>17, <2>18, <2>19 DEF ForkFollows
<1>5. CASE ForkEnds
  BY <1>5 DEF ForkEnds, NoFork
<1>6. CASE ClearDeletes
  BY <1>6 DEF ClearDeletes
\* Every other step leaves the fork alone, and the rows it looks at.
<1>7. CASE \/ PostMessage \/ LoadSession \/ (\E n \in 0..MaxCalls : Answer(n))
           \/ WriteCall \/ WriteResult \/ LeaveCalls \/ EndRun
           \/ AskCompaction \/ StartCompaction \/ FoldBegin \/ FoldDone \/ FoldSkipped
           \/ Note \/ ClearChecks \/ ClearResets \/ ClearFails
  <2>1. fork' = fork /\ torn \subseteq torn'
    BY <1>7 DEF PostMessage, LoadSession, Answer, WriteCall, WriteResult, LeaveCalls, EndRun,
       AskCompaction, StartCompaction, FoldBegin, FoldDone, FoldSkipped, Note, ClearChecks, ClearResets,
       ClearFails
  <2>2. msgs' # <<>> \/ msgs = <<>>
    <3>1. CASE UNCHANGED msgs
      BY <3>1
    <3>2. ASSUME NEW m, msgs' = Append(msgs, m) PROVE msgs' # <<>>
      BY <1>1, <3>2
    <3>3. CASE WriteCall
      BY <1>1, <3>3, CallWritten
    <3>. QED
      BY <1>7, <3>1, <3>2, <3>3 DEF PostMessage, LoadSession, Answer, WriteResult, EndRun,
         LeaveCalls, AskCompaction, StartCompaction, FoldBegin, FoldDone, FoldSkipped, Note, ClearChecks,
         ClearResets, ClearFails, Write
  <2>3. /\ Len(msgs') >= Len(msgs) /\ Len(msgs') \in Nat
        /\ \A i \in 1..Len(msgs) : /\ msgs'[i].id = msgs[i].id
                                   /\ msgs'[i].role = msgs[i].role
                                   /\ msgs'[i].of = msgs[i].of
    BY <1>1, <2>2, RowsStay, RowFacts
  <2>4. Whole /\ "fork" \notin torn /\ fork.at = "copying" /\ ForkFollows
    BY <2>1 DEF Whole, TranscriptInv
  <2>. DEFINE p == Len(fork.rows)
              n == Len(fork.left)
  <2>5. /\ p + n <= Len(msgs)
        /\ \A i \in 1..p : /\ fork.rows[i].id = msgs[i].id
                           /\ fork.rows[i].role = msgs[i].role
                           /\ msgs[i].role = "result" => fork.rows[i].of = msgs[i].of
        /\ \A i \in 1..n : /\ fork.left[i].id = msgs[p + i].id
                           /\ fork.left[i].role = msgs[p + i].role
                           /\ fork.left[i].of = msgs[p + i].of
        /\ \A i \in 1..p, j \in 1..(p + n) :
             msgs[j].role = "result" /\ msgs[j].of[1] = msgs[i].id
               => msgs[j].of[2] \in fork.rows[i].calls
    BY <2>4 DEF ForkFollows, Listed
  <2>6. fork'.rows = fork.rows /\ fork'.left = fork.left /\ Listed' = p + n
    BY <2>1 DEF Listed
  <2>7. p \in Nat /\ n \in Nat
    BY <1>2
  <2>. HIDE DEF p, n
  <2>8. /\ \A i \in 1..(p + n) : i \in 1..Len(msgs)
        /\ \A i \in 1..p : i \in 1..Len(msgs)
        /\ \A i \in 1..n : p + i \in 1..Len(msgs)
        /\ p + n <= Len(msgs')
    BY <1>2, <2>3, <2>5, <2>7
  <2>9. Len(fork'.rows) = p /\ Len(fork'.left) = n
    BY <2>6 DEF p, n
  <2>. QED
    <3>1. \A i \in 1..p, j \in 1..(p + n) :
             msgs'[j].role = "result" /\ msgs'[j].of[1] = msgs'[i].id
               => msgs'[j].of[2] \in fork.rows[i].calls
      BY <2>3, <2>5, <2>8
    <3>2. \A i \in 1..p : /\ fork.rows[i].id = msgs'[i].id
                          /\ fork.rows[i].role = msgs'[i].role
                          /\ msgs'[i].role = "result" => fork.rows[i].of = msgs'[i].of
      BY <2>3, <2>5, <2>8
    <3>3. \A i \in 1..n : /\ fork.left[i].id = msgs'[p + i].id
                          /\ fork.left[i].role = msgs'[p + i].role
                          /\ fork.left[i].of = msgs'[p + i].of
      BY <2>3, <2>5, <2>8
    <3>4. Listed' <= Len(msgs')
      BY <2>6, <2>8
    <3>5. \A i \in 1..p, j \in 1..Listed' :
             msgs'[j].role = "result" /\ msgs'[j].of[1] = msgs'[i].id
               => msgs'[j].of[2] \in fork'.rows[i].calls
      BY <2>6, <3>1
    <3>. QED
      BY <2>6, <2>9, <3>2, <3>3, <3>4, <3>5 DEF ForkFollows
<1>. QED
  BY <1>3, <1>4, <1>5, <1>6, <1>7 DEF TranscriptNext

LEMMA StartIsRight == TranscriptInit => TranscriptInv
<1>. SUFFICES ASSUME TranscriptInit PROVE TranscriptInv
  OBVIOUS
<1>1. /\ msgs = <<>> /\ Len(msgs) = 0 /\ msgs \in Seq(Row) /\ made = 0 /\ 0 \in 0..MaxRows
      /\ stored = Blank /\ copy = Blank /\ held = "none" /\ stage = "out" /\ blind = FALSE
      /\ fold = {} /\ step = NoStep /\ asked = {} /\ clearing = "no"
      /\ fork = NoFork /\ torn = {}
  BY Bounds DEF TranscriptInit
<1>2. /\ NoFork.at = "no" /\ NoFork.left \in Seq(Row) /\ NoFork.rows \in Seq(Row)
      /\ NoFork \in [at : {"no", "copying"}, left : Seq(Row), rows : Seq(Row)]
  BY DEF NoFork
<1>3. NoStep \in [of : 0..MaxRows, calls : 0..MaxCalls, next : 0..MaxCalls]
  BY Bounds DEF NoStep
<1>4. Cardinality(asked) <= 1
  <2>1. Cardinality(asked) = 0
    BY <1>1, FS_EmptySet
  <2>. QED
    BY <2>1
<1>5. TranscriptTypeOK
  <2>1. (stage = "folding") = (fold # {}) /\ (stage \in {"calls", "results"}) = (step # NoStep)
    BY <1>1
  <2>2. /\ fork.at \in {"no", "copying"} /\ fork.left \in Seq(Row) /\ fork.rows \in Seq(Row)
        /\ stored \in Summary /\ copy \in Summary /\ asked \subseteq Summary
    BY <1>1, <1>2, BlankIsSummary
  <2>3. (held = "none") = (stage = "out") /\ held \in {"none", "turn", "manual"}
        /\ stage \in {"out", "load", "before", "folding", "asked", "calls", "results"}
        /\ clearing \in {"no", "checked", "deleted"} /\ torn \subseteq {"session", "fork"}
        /\ blind \in BOOLEAN
    BY <1>1
  <2>. QED
    BY <1>1, <1>4, <2>1, <2>2, <2>3 DEF TranscriptTypeOK
<1>6. Shape
  BY <1>1, <1>2, <1>3 DEF Shape
<1>7. Summaries
  BY <1>1, BlankIsSummary DEF Summaries, Sorted, Sound
<1>8. TurnReadsStored /\ RowsAreChained
  BY <1>1 DEF TurnReadsStored, RowsAreChained, Chained, AnswerIsOpen
<1>9. ForkFollows
  BY <1>1, <1>2 DEF ForkFollows
<1>. QED
  BY <1>5, <1>6, <1>7, <1>8, <1>9 DEF TranscriptInv

LEMMA TranscriptInvariance == TranscriptSpec => []TranscriptInv
<1>1. TranscriptInit => TranscriptInv
  BY StartIsRight
<1>2. TranscriptInv /\ [TranscriptNext]_transcriptVars => TranscriptInv'
  <2>. SUFFICES ASSUME TranscriptInv, [TranscriptNext]_transcriptVars PROVE TranscriptInv'
    OBVIOUS
  <2>1. CASE TranscriptNext
    BY <2>1, StepTypes, StepSummaries, StepTurnReads, StepChained, StepFork DEF TranscriptInv
  <2>2. CASE UNCHANGED transcriptVars
    <3>1. /\ msgs' = msgs /\ made' = made /\ stored' = stored /\ held' = held /\ stage' = stage
          /\ copy' = copy /\ blind' = blind /\ fold' = fold /\ step' = step /\ asked' = asked
          /\ clearing' = clearing /\ fork' = fork /\ torn' = torn
      BY <2>2 DEF transcriptVars, leaseVars, countVars
    <3>2. TranscriptTypeOK'
      BY <3>1 DEF TranscriptInv, TranscriptTypeOK
    <3>3. Shape'
      BY <3>1 DEF TranscriptInv, Shape
    <3>4. FoldPair' = FoldPair
      BY <3>1 DEF FoldPair, FoldMark
    <3>5. Summaries'
      BY <3>1, <3>4 DEF TranscriptInv, Summaries
    <3>6. TurnReadsStored' /\ RowsAreChained'
      BY <3>1 DEF TranscriptInv, TurnReadsStored, RowsAreChained, Whole, AnswerIsOpen
    <3>7. Listed' = Listed
      BY <3>1 DEF Listed
    <3>8. ForkFollows'
      BY <3>1, <3>7 DEF TranscriptInv, ForkFollows, Whole
    <3>. QED
      BY <3>2, <3>3, <3>5, <3>6, <3>8 DEF TranscriptInv
  <2>. QED
    BY <2>1, <2>2
<1>. QED
  BY <1>1, <1>2, PTL DEF TranscriptSpec

(* Rows keep the columns of the messages table, and what the turn, the     *)
(* compaction and the fork carry between their calls keeps its types.      *)
THEOREM TranscriptTypeCorrect == TranscriptSpec => []TranscriptTypeOK
<1>1. TranscriptInv => TranscriptTypeOK
  BY DEF TranscriptInv
<1>. QED
  BY <1>1, TranscriptInvariance, PTL

LEMMA SoundCovers ==
  ASSUME NEW rows \in Seq(Row), NEW n, NEW q, Sound(q, rows, n)
  PROVE  Ids(rows) \subseteq q.summary \cup Ids(Window(rows, q.mark))
<1>. DEFINE W == Window(rows, q.mark)
<1>1. W \in Seq(Row)
  BY WindowStartsBehind
<1>2. PICK k \in 0..Len(rows) :
         /\ Len(W) = Len(rows) - k
         /\ \A i \in 1..(Len(rows) - k) : W[i] = rows[k + i]
         /\ IF k = 0 THEN q.mark \notin Ids(rows) ELSE rows[k].id = q.mark
  BY WindowStartsBehind, SMTT(30)
<1>. HIDE DEF W
<1>3. ASSUME NEW i \in 1..Len(rows)
      PROVE  rows[i].id \in q.summary \cup Ids(W)
  <2>1. Len(rows) \in Nat
    BY RowFacts
  <2>2. CASE i <= k
    <3>1. k \in 1..Len(rows) /\ rows[k].id = q.mark /\ i \in 1..k
      BY <1>2, <2>1, <2>2
    <3>. QED
      BY <3>1 DEF Sound
  <2>3. CASE i > k
    <3>1. i - k \in 1..(Len(rows) - k) /\ k + (i - k) = i
      BY <2>1, <2>3
    <3>2. W[i - k].id = rows[i].id /\ i - k \in 1..Len(W)
      BY <1>2, <3>1
    <3>. QED
      BY <1>1, <3>2, RowFacts
  <2>. QED
    BY <2>1, <2>2, <2>3
<1>. QED
  BY <1>3, RowFacts DEF W

(* No row drops out of what the model is shown: it is in the summary or in *)
(* the window behind the mark, for the stored pair and for the copy a turn *)
(* works with, however late the compaction that made the pair was written  *)
(* (runCompact, compactBeforeStep, initTurnState).                         *)
THEOREM NothingIsForgotten == TranscriptSpec => []NothingForgotten
<1>1. TranscriptInv => NothingForgotten
  <2>. SUFFICES ASSUME TranscriptInv PROVE NothingForgotten
    OBVIOUS
  <2>1. msgs \in Seq(Row) /\ Sound(stored, msgs, made) /\ Sound(copy, msgs, made)
    BY DEF TranscriptInv, TranscriptTypeOK, Summaries
  <2>2. Ids(msgs) \subseteq stored.summary \cup Ids(Window(msgs, stored.mark))
    BY <2>1, SoundCovers
  <2>3. ASSUME held = "turn", stage # "load", ~blind
        PROVE  Ids(msgs) \subseteq copy.summary \cup Ids(Window(msgs, stored.mark))
    <3>1. CASE stored = copy
      BY <2>2, <3>1
    <3>2. CASE stored.mark = 0
      <4>1. stored.mark \notin Ids(msgs)
        BY <2>1, <3>2, RowFacts
      <4>. QED
        BY <4>1 DEF Window
    <3>. QED
      BY <2>3, <3>1, <3>2 DEF TranscriptInv, TurnReadsStored
  <2>. QED
    BY <2>2, <2>3 DEF NothingForgotten
<1>. QED
  BY <1>1, TranscriptInvariance, PTL

LEMMA WindowIsPaired ==
  ASSUME NEW rows \in Seq(Row), NEW n, NEW q, Chained(rows), Sound(q, rows, n)
  PROVE  Paired(Window(rows, q.mark))
<1>. DEFINE W == Window(rows, q.mark)
<1>1. W \in Seq(Row)
  BY WindowStartsBehind
<1>2. PICK k \in 0..Len(rows) :
         /\ Len(W) = Len(rows) - k
         /\ \A i \in 1..(Len(rows) - k) : W[i] = rows[k + i]
         /\ IF k = 0 THEN q.mark \notin Ids(rows) ELSE rows[k].id = q.mark
  BY WindowStartsBehind, SMTT(30)
<1>3. Len(rows) \in Nat /\ DOMAIN W = 1..(Len(rows) - k)
  BY <1>1, <1>2, RowFacts
<1>. HIDE DEF W
<1>4. ASSUME NEW j \in 1..(Len(rows) - k), W[j].role = "result"
      PROVE  \E i \in 1..(j - 1) :
               /\ W[i].role = "assistant" /\ W[j].of \in {W[i].id} \X W[i].calls
               /\ \A l \in (i + 1)..(j - 1) : /\ W[l].role \in {"result", "system"}
                                             /\ W[l].of # W[j].of
  <2>1. k + j \in 1..Len(rows) /\ rows[k + j].role = "result"
    BY <1>2, <1>3, <1>4
  <2>2. PICK i \in 1..((k + j) - 1) : Follows(rows, i, k + j)
    BY <2>1 DEF Chained
  \* The answer is behind the mark, or the first row behind it were a result.
  <2>3. i > k
    <3>. SUFFICES ASSUME ~(i > k) PROVE FALSE
      OBVIOUS
    <3>1. k \in 1..Len(rows) /\ rows[k].id = q.mark /\ k + 1 \in (i + 1)..(k + j)
      BY <1>2, <1>3
    <3>2. rows[k + 1].role # "result"
      BY <3>1 DEF Sound
    <3>3. k + 1 # k + j
      BY <2>1, <3>2
    <3>4. k + 1 \in (i + 1)..((k + j) - 1)
      BY <1>3, <3>1, <3>3
    <3>. QED
      BY <2>2, <3>2, <3>4 DEF Follows
  <2>4. i - k \in 1..(j - 1) /\ i - k \in 1..(Len(rows) - k) /\ k + (i - k) = i
    BY <1>3, <2>3
  <2>5. W[i - k] = rows[i] /\ W[j] = rows[k + j]
    BY <1>2, <2>4
  <2>6. ASSUME NEW l \in ((i - k) + 1)..(j - 1)
        PROVE  W[l].role = "result" /\ W[l].of # W[j].of
    <3>1. l \in 1..(Len(rows) - k) /\ k + l \in (i + 1)..((k + j) - 1)
      BY <1>3, <2>4
    <3>. QED
      BY <1>2, <2>2, <2>5, <3>1 DEF Follows
  <2>. QED
    BY <2>2, <2>4, <2>5, <2>6 DEF Follows
<1>. QED
  BY <1>3, <1>4 DEF Paired, W

LEMMA ForkIsPaired ==
  ASSUME TranscriptInv, Whole, "fork" \notin torn
  PROVE  Paired(fork.rows)
<1>. DEFINE p == Len(fork.rows)
            n == Len(fork.left)
<1>1. fork.rows \in Seq(Row) /\ fork.left \in Seq(Row) /\ msgs \in Seq(Row) /\ Chained(msgs)
  BY DEF TranscriptInv, TranscriptTypeOK, RowsAreChained
<1>2. p \in Nat /\ n \in Nat /\ DOMAIN fork.rows = 1..p /\ Len(msgs) \in Nat
  BY <1>1, RowFacts
<1>3. CASE fork.at = "no"
  <2>1. fork = NoFork
    BY <1>3 DEF TranscriptInv, Shape
  <2>2. fork.rows = <<>>
    BY <2>1 DEF NoFork
  <2>. QED
    BY <2>2 DEF Paired
<1>4. CASE fork.at = "copying"
  <2>1. /\ p + n <= Len(msgs)
        /\ \A i \in 1..p : /\ fork.rows[i].id = msgs[i].id
                           /\ fork.rows[i].role = msgs[i].role
                           /\ msgs[i].role = "result" => fork.rows[i].of = msgs[i].of
        /\ \A i \in 1..p, j \in 1..(p + n) :
             msgs[j].role = "result" /\ msgs[j].of[1] = msgs[i].id
               => msgs[j].of[2] \in fork.rows[i].calls
    BY <1>4 DEF TranscriptInv, ForkFollows, Listed
  <2>. HIDE DEF p, n
  <2>2. ASSUME NEW j \in 1..p, fork.rows[j].role = "result"
        PROVE  \E i \in 1..(j - 1) :
                 /\ fork.rows[i].role = "assistant"
                 /\ fork.rows[j].of \in {fork.rows[i].id} \X fork.rows[i].calls
                 /\ \A k \in (i + 1)..(j - 1) : /\ fork.rows[k].role \in {"result", "system"}
                                               /\ fork.rows[k].of # fork.rows[j].of
    <3>1. /\ j \in 1..Len(msgs) /\ j \in 1..(p + n) /\ msgs[j].role = "result"
          /\ fork.rows[j].of = msgs[j].of
      BY <1>2, <2>1, <2>2
    <3>2. PICK i \in 1..(j - 1) : Follows(msgs, i, j)
      BY <1>1, <3>1 DEF Chained
    <3>3. i \in 1..p
      BY <1>2
    <3>4. fork.rows[i].role = "assistant" /\ fork.rows[i].id = msgs[i].id
      BY <2>1, <3>2, <3>3 DEF Follows
    <3>5. fork.rows[j].of \in {fork.rows[i].id} \X fork.rows[i].calls
      <4>1. msgs[j].of \in {msgs[i].id} \X msgs[i].calls
        BY <3>2 DEF Follows
      <4>2. msgs[j].of = <<msgs[j].of[1], msgs[j].of[2]>> /\ msgs[j].of[1] = msgs[i].id
        BY <4>1
      <4>3. msgs[j].of[2] \in fork.rows[i].calls
        BY <2>1, <3>1, <3>3, <4>2
      <4>4. msgs[j].of \in {fork.rows[i].id} \X fork.rows[i].calls
        BY <3>4, <4>2, <4>3
      <4>. QED
        BY <3>1, <4>4
    <3>6. ASSUME NEW k \in (i + 1)..(j - 1)
          PROVE  fork.rows[k].role = "result" /\ fork.rows[k].of # fork.rows[j].of
      <4>1. k \in 1..p /\ msgs[k].role = "result" /\ msgs[k].of # msgs[j].of
        BY <1>2, <3>2 DEF Follows
      <4>. QED
        BY <2>1, <3>1, <4>1
    <3>. QED
      BY <3>4, <3>5, <3>6
  <2>. QED
    BY <1>2, <2>2 DEF Paired, p
<1>. QED
  BY <1>3, <1>4 DEF TranscriptInv, TranscriptTypeOK

(* No prompt and no fork shows a tool result without its call, whatever    *)
(* was compacted, stopped, lost or restarted on the way                    *)
(* (buildSDKMessagesFromRows, RecentWindowStartForKeep, copyTranscript).   *)
THEOREM PromptsPair == TranscriptSpec => []PromptPairs
<1>1. TranscriptInv => PromptPairs
  <2>. SUFFICES ASSUME TranscriptInv PROVE PromptPairs
    OBVIOUS
  <2>1. msgs \in Seq(Row) /\ Sound(stored, msgs, made) /\ (Whole => Chained(msgs))
    BY DEF TranscriptInv, TranscriptTypeOK, Summaries, RowsAreChained
  <2>. QED
    BY <2>1, WindowIsPaired, ForkIsPaired DEF PromptPairs, Whole
<1>. QED
  BY <1>1, TranscriptInvariance, PTL
===============================================================================
