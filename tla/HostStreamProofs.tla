-------------------------- MODULE HostStreamProofs --------------------------
(***************************************************************************)
(* Proofs about HostStream, for any number of streams, any output and any  *)
(* line cap.                                                               *)
(***************************************************************************)
EXTENDS HostStream, TLAPS

\* Where a sink stands in its stream w: everything before r was read, and the pending
\* line, if it is not oversized, starts right after a newline.
Placed(w, r, a, isPoisoned) ==
    /\ a <= r /\ r <= Len(w)
    /\ NoNewline(w, a, r)
    /\ isPoisoned => a > 0 /\ w[a] # "nl"

\* The traces o left of the lines of w begun before a.
Traced(w, held, o, a) ==
    /\ \A k \in 1..Len(o) : o[k].from < a /\ o[k].from \in Begun(w)
    /\ \A j, k \in 1..Len(o) : j < k => o[j].from < o[k].from
    /\ \A p \in Begun(w) : p < a => \E k \in 1..Len(o) : o[k].from = p
    /\ \A k \in 1..Len(o) : o[k].kind = "line" => WholeLine(w, held, o[k])

PlaceInv ==
    \A s \in Streams :
        /\ Placed(written[s], read[s], start[s], s \in poisoned)
        /\ settled = "no" /\ s \notin poisoned => start[s] = 0 \/ written[s][start[s]] = "nl"
        /\ settled # "no" => start[s] = read[s]

TraceInv == \A s \in Streams : Traced(written[s], s \in open, out[s], start[s])

EndInv == \A s \in ended : s \notin open /\ read[s] = Len(written[s])

ControlInv ==
    /\ chunk # None =>
         /\ settled = "no" /\ child # "starting"
         /\ chunk.stream \notin ended
         /\ read[chunk.stream] <= chunk.upto /\ chunk.upto <= Len(written[chunk.stream])
         /\ chunk.stream \in poisoned => read[chunk.stream] < chunk.upto
    /\ child = "starting" =>
         /\ open = {} /\ ended = {} /\ exit = "none"
         /\ \A s \in Streams : written[s] = <<>>
    /\ grace => exit # "none"
    /\ settled # "none"

IInv == TypeOK /\ PlaceInv /\ TraceInv /\ EndInv /\ ControlInv

Token == {"text", "nl"}

-----------------------------------------------------------------------------
(* Lemmas on the traces left of a stream's lines.                          *)

\* Handing over a line, or a marker for it, moves the traced part past that line.
LEMMA TraceAppend ==
    ASSUME NEW w \in Seq(Token), NEW held, NEW o \in Seq(Entry),
           NEW a \in Nat, NEW b \in Nat, a < b, b <= Len(w), a \in Begun(w),
           NoNewline(w, a, b - 1), Traced(w, held, o, a),
           NEW e \in Entry, e.from = a, e.kind = "line" => WholeLine(w, held, e)
    PROVE  Traced(w, held, Append(o, e), b)
<1> DEFINE q == Append(o, e)
<1>1. /\ Len(o) \in Nat /\ Len(q) = Len(o) + 1
      /\ q[Len(o) + 1] = e /\ \A k \in 1..Len(o) : q[k] = o[k]
  OBVIOUS
<1>2. \A k \in 1..Len(o) : o[k].from \in Nat
  <2>1. \A k \in 1..Len(o) : o[k] \in Entry
    OBVIOUS
  <2> QED BY <2>1 DEF Entry
<1> HIDE DEF q
<1>3. \A k \in 1..Len(q) : q[k].from < b /\ q[k].from \in Begun(w)
  <2> SUFFICES ASSUME NEW k \in 1..Len(q) PROVE q[k].from < b /\ q[k].from \in Begun(w)
    OBVIOUS
  <2>1. CASE k = Len(o) + 1
    BY <2>1, <1>1
  <2>2. CASE k \in 1..Len(o)
    BY <2>2, <1>1, <1>2 DEF Traced
  <2> QED BY <2>1, <2>2, <1>1
<1>4. \A j, k \in 1..Len(q) : j < k => q[j].from < q[k].from
  <2> SUFFICES ASSUME NEW j \in 1..Len(q), NEW k \in 1..Len(q), j < k
               PROVE q[j].from < q[k].from
    OBVIOUS
  <2>1. j \in 1..Len(o) /\ q[j] = o[j]
    BY <1>1
  <2>2. CASE k = Len(o) + 1
    BY <2>1, <2>2, <1>1 DEF Traced
  <2>3. CASE k \in 1..Len(o)
    BY <2>1, <2>3, <1>1 DEF Traced
  <2> QED BY <2>2, <2>3, <1>1
<1>5. \A p \in Begun(w) : p < b => \E k \in 1..Len(q) : q[k].from = p
  <2> SUFFICES ASSUME NEW p \in Begun(w), p < b PROVE \E k \in 1..Len(q) : q[k].from = p
    OBVIOUS
  <2>1. p \in Nat /\ (p = 0 \/ w[p] = "nl")
    BY DEF Begun
  <2>2. CASE p < a
    BY <2>2, <1>1 DEF Traced
  <2>3. CASE p = a
    BY <2>3, <1>1
  <2>4. ~(p > a)
    BY <2>1 DEF NoNewline
  <2> QED BY <2>1, <2>2, <2>3, <2>4
<1>6. \A k \in 1..Len(q) : q[k].kind = "line" => WholeLine(w, held, q[k])
  BY <1>1 DEF Traced
<1> QED
  BY <1>3, <1>4, <1>5, <1>6 DEF Traced, q

\* Moving past tokens that begin no line leaves nothing to trace.
LEMMA TraceSkip ==
    ASSUME NEW w \in Seq(Token), NEW held, NEW o \in Seq(Entry),
           NEW a \in Nat, NEW b \in Nat, a <= b, Traced(w, held, o, a),
           \A p \in Begun(w) : ~(a <= p /\ p < b)
    PROVE  Traced(w, held, o, b)
<1>1. \A k \in 1..Len(o) : o[k].from \in Nat
  <2>1. \A k \in 1..Len(o) : o[k] \in Entry
    OBVIOUS
  <2> QED BY <2>1 DEF Entry
<1>2. \A p \in Begun(w) : p \in Nat
  BY DEF Begun
<1> QED
  BY <1>1, <1>2 DEF Traced

\* What is written later begins no line before a, and completes none that was handed over.
LEMMA TraceGrow ==
    ASSUME NEW w \in Seq(Token), NEW o \in Seq(Entry), NEW a \in Nat, a <= Len(w),
           NEW t \in Token, Traced(w, TRUE, o, a)
    PROVE  Traced(Append(w, t), TRUE, o, a)
<1> DEFINE v == Append(w, t)
<1>1. Len(w) \in Nat /\ Len(v) = Len(w) + 1 /\ \A i \in 1..Len(w) : v[i] = w[i]
  OBVIOUS
<1> HIDE DEF v
<1>2. Begun(w) \subseteq Begun(v)
  BY <1>1 DEF Begun
<1>3. \A p \in Begun(v) : p < a => p \in Begun(w)
  BY <1>1 DEF Begun
<1>4. ASSUME NEW e \in Entry, WholeLine(w, TRUE, e) PROVE WholeLine(v, TRUE, e)
  <2>1. e.to \in Nat /\ e.from \in Nat
    BY DEF Entry
  <2>2. e.to < Len(w) /\ v[e.to + 1] = w[e.to + 1]
    <3>1. e.to < Len(w)
      BY <1>4 DEF WholeLine
    <3>2. e.to + 1 \in 1..Len(w)
      BY ONLY <1>1, <2>1, <3>1
    <3> QED BY <1>1, <3>1, <3>2
  <2>3. NoNewline(v, e.from, e.to)
    <3>1. NoNewline(w, e.from, e.to)
      BY <1>4 DEF WholeLine
    <3>2. \A i \in (e.from + 1)..e.to : i \in 1..Len(w)
      BY ONLY <1>1, <2>1, <2>2
    <3> QED BY ONLY <1>1, <3>1, <3>2 DEF NoNewline
  <2> QED BY <1>1, <1>2, <1>4, <2>1, <2>2, <2>3 DEF WholeLine
<1>5. \A k \in 1..Len(o) : o[k] \in Entry
  OBVIOUS
<1>6. Traced(v, TRUE, o, a)
  BY <1>2, <1>3, <1>4, <1>5 DEF Traced
<1> QED
  BY <1>6 DEF v

\* Letting go of a stream makes no whole line a fragment.
LEMMA TraceClose ==
    ASSUME NEW w, NEW held, NEW o, NEW a, Traced(w, held, o, a)
    PROVE  Traced(w, FALSE, o, a)
  BY DEF Traced, WholeLine

-----------------------------------------------------------------------------
(* Lemmas on the pieces of a step.                                         *)

LEMMA SinkTypes ==
    ASSUME TypeOK, NEW s \in Streams
    PROVE  /\ written[s] \in Seq(Token) /\ Len(written[s]) \in Nat
           /\ read[s] \in Nat /\ start[s] \in Nat /\ out[s] \in Seq(Entry)
  BY BoundsAssumption DEF TypeOK, Token

\* A trace is appended to one stream's output.
LEMMA EmitType ==
    ASSUME TypeOK, NEW s \in Streams, NEW kind \in Kinds, NEW to \in Nat, Emit(s, kind, to)
    PROVE  /\ [kind |-> kind, from |-> start[s], to |-> to] \in Entry
           /\ out' \in [Streams -> Seq(Entry)]
           /\ out'[s] = Append(out[s], [kind |-> kind, from |-> start[s], to |-> to])
           /\ \A t \in Streams : t # s => out'[t] = out[t]
<1> DEFINE e == [kind |-> kind, from |-> start[s], to |-> to]
<1>1. e \in Entry
  BY SinkTypes DEF Entry
<1>2. out' = [out EXCEPT ![s] = Append(out[s], e)] /\ out \in [Streams -> Seq(Entry)]
  BY DEF Emit, TypeOK
<1> HIDE DEF e
<1>3. Append(out[s], e) \in Seq(Entry)
  BY <1>1, <1>2
<1>4. /\ out' \in [Streams -> Seq(Entry)] /\ out'[s] = Append(out[s], e)
      /\ \A t \in Streams : t # s => out'[t] = out[t]
  BY <1>2, <1>3
<1> QED
  BY <1>1, <1>4 DEF e

\* What finalize adds is at most one trace, of the line pending.
LEMMA TrailingType ==
    ASSUME TypeOK, NEW s \in Streams, NEW e
    PROVE  Trailing(s, e) \in Seq(Entry)
<1>1. read[s] \in Nat /\ start[s] \in Nat
  BY SinkTypes
<1>2. [kind |-> IF e THEN "line" ELSE "truncated", from |-> start[s], to |-> read[s]] \in Entry
  BY <1>1 DEF Entry, Kinds
<1> QED
  BY <1>2 DEF Trailing

LEMMA FinishType ==
    ASSUME TypeOK, NEW e, NEW x, finish(e, x)
    PROVE  /\ out' \in [Streams -> Seq(Entry)] /\ start' = read /\ read' = read
           /\ poisoned' = {} /\ settled' = x /\ grace' = FALSE
<1>1. \A s \in Streams : out[s] \o Trailing(s, s \in e) \in Seq(Entry)
  <2> SUFFICES ASSUME NEW s \in Streams PROVE out[s] \o Trailing(s, s \in e) \in Seq(Entry)
    OBVIOUS
  <2>1. out[s] \in Seq(Entry) /\ Trailing(s, s \in e) \in Seq(Entry)
    BY SinkTypes, TrailingType
  <2> QED BY <2>1
<1> QED
  BY <1>1 DEF finish

\* finalize forwards the pending line if the stream ended, and a marker if not.
LEMMA FinishTraces ==
    ASSUME TypeOK, PlaceInv, TraceInv, NEW e, NEW x, finish(e, x), settled = "no",
           UNCHANGED <<written, open>>,
           \A s \in e : s \notin open /\ read[s] = Len(written[s])
    PROVE  TraceInv'
<1> SUFFICES ASSUME NEW s \in Streams
             PROVE  Traced(written'[s], s \in open', out'[s], start'[s])
  BY DEF TraceInv
<1> DEFINE w == written[s]
           a == start[s]
           b == read[s]
           held == s \in open
           v == [kind |-> IF s \in e THEN "line" ELSE "truncated", from |-> a, to |-> b]
<1>1. w \in Seq(Token) /\ Len(w) \in Nat /\ a \in Nat /\ b \in Nat /\ out[s] \in Seq(Entry)
  BY SinkTypes
<1>2. Placed(w, b, a, s \in poisoned) /\ (s \notin poisoned => a = 0 \/ w[a] = "nl")
  BY DEF PlaceInv
<1>3. Traced(w, held, out[s], a)
  BY DEF TraceInv
<1>4. a <= b /\ b <= Len(w) /\ NoNewline(w, a, b) /\ (s \in poisoned => a > 0 /\ w[a] # "nl")
  BY <1>2 DEF Placed
<1>5. written'[s] = w /\ (s \in open' <=> held) /\ start'[s] = b /\ out'[s] = out[s] \o Trailing(s, s \in e)
  BY DEF finish
<1>6. CASE s \in poisoned \/ b = a
  <2>1. out'[s] = out[s]
    <3>1. Trailing(s, s \in e) = <<>>
      BY <1>6 DEF Trailing
    <3>2. out[s] \o <<>> = out[s]
      BY <1>1
    <3> QED BY <3>1, <3>2, <1>5
  <2>2. \A p \in Begun(w) : ~(a <= p /\ p < b)
    <3> SUFFICES ASSUME NEW p \in Begun(w), a <= p, p < b PROVE FALSE
      OBVIOUS
    <3>1. p \in Nat /\ (p = 0 \/ w[p] = "nl")
      BY DEF Begun
    <3> QED BY <1>1, <1>4, <1>6, <3>1 DEF NoNewline
  <2>3. Traced(w, held, out[s], b)
    BY <1>1, <1>3, <1>4, <2>2, TraceSkip
  <2> QED BY <1>5, <2>1, <2>3 DEF Traced, WholeLine
<1>7. CASE s \notin poisoned /\ b # a
  <2>1. out'[s] = Append(out[s], v)
    <3>1. Trailing(s, s \in e) = <<v>>
      BY <1>7 DEF Trailing
    <3>2. out[s] \o <<v>> = Append(out[s], v)
      BY <1>1
    <3> QED BY <3>1, <3>2, <1>5
  <2>2. v \in Entry /\ v.from = a /\ v.to = b
    BY <1>1 DEF Entry, Kinds
  <2>3. a < b /\ a \in Begun(w) /\ NoNewline(w, a, b - 1)
    BY <1>1, <1>2, <1>4, <1>7 DEF Begun, NoNewline
  <2>4. v.kind = "line" => WholeLine(w, held, v)
    <3> SUFFICES ASSUME s \in e PROVE WholeLine(w, held, v)
      OBVIOUS
    <3>1. ~held /\ b = Len(w)
      OBVIOUS
    <3> QED BY <3>1, <2>2, <2>3, <1>1, <1>4 DEF WholeLine
  <2> HIDE DEF v
  <2>5. Traced(w, held, Append(out[s], v), b)
    BY <1>1, <1>3, <1>4, <2>2, <2>3, <2>4, TraceAppend
  <2> QED BY <1>5, <2>1, <2>5 DEF Traced, WholeLine
<1> QED
  BY <1>6, <1>7

\* Where finalize leaves the sinks.
LEMMA FinishPlaces ==
    ASSUME TypeOK, PlaceInv, NEW e, NEW x, finish(e, x), x # "no", UNCHANGED written
    PROVE  PlaceInv'
<1> SUFFICES ASSUME NEW s \in Streams
             PROVE  Placed(written'[s], read'[s], start'[s], FALSE) /\ start'[s] = read'[s]
  BY DEF PlaceInv, finish, Placed
<1>1. read[s] \in Nat /\ read[s] <= Len(written[s])
  BY SinkTypes DEF PlaceInv, Placed
<1> QED
  BY <1>1 DEF finish, Placed, NoNewline

\* The newline that NextLine finds, and the stream it is in.
LEMMA NextLineEffect ==
    ASSUME TypeOK, PlaceInv, ControlInv, NEW s \in Streams, NextLine(s)
    PROVE  \E i \in Nat :
             /\ read[s] < i /\ i <= Len(written[s]) /\ i <= chunk.upto
             /\ written[s][i] = "nl" /\ NoNewline(written[s], start[s], i - 1)
             /\ start[s] < i
             /\ read' = [read EXCEPT ![s] = i] /\ start' = [start EXCEPT ![s] = i]
             /\ s \in poisoned => poisoned' = poisoned \ {s} /\ out' = out
             /\ s \notin poisoned => Emit(s, "line", i - 1) /\ poisoned' = poisoned
<1>1. PICK i \in (read[s] + 1)..chunk.upto :
        /\ written[s][i] = "nl" /\ NoNewline(written[s], read[s], i - 1)
        /\ read' = [read EXCEPT ![s] = i] /\ start' = [start EXCEPT ![s] = i]
        /\ IF s \in poisoned
           THEN poisoned' = poisoned \ {s} /\ UNCHANGED out
           ELSE Emit(s, "line", i - 1) /\ UNCHANGED poisoned
  BY DEF NextLine
<1>2. chunk.stream = s /\ chunk.upto \in Nat /\ chunk.upto <= Len(written[s])
  BY BoundsAssumption DEF NextLine, ControlInv, TypeOK
<1>3. /\ read[s] \in Nat /\ start[s] \in Nat /\ Len(written[s]) \in Nat
      /\ start[s] <= read[s] /\ NoNewline(written[s], start[s], read[s])
  BY SinkTypes DEF PlaceInv, Placed
<1>4. i \in Nat /\ read[s] < i /\ i <= chunk.upto
  BY <1>1, <1>2, <1>3
<1>5. NoNewline(written[s], start[s], i - 1)
  BY <1>1, <1>3, <1>4 DEF NoNewline
<1>6. /\ s \in poisoned => poisoned' = poisoned \ {s} /\ out' = out
      /\ s \notin poisoned => Emit(s, "line", i - 1) /\ poisoned' = poisoned
  BY <1>1
<1>7. i <= Len(written[s]) /\ start[s] < i
  BY <1>2, <1>3, <1>4
<1> i \in Nat
  BY <1>4
<1> WITNESS i \in Nat
<1> QED
  BY <1>1, <1>4, <1>5, <1>6, <1>7

\* The rest of a chunk.
LEMMA ChunkEndEffect ==
    ASSUME TypeOK, PlaceInv, ControlInv, NEW s \in Streams, ChunkEnd(s)
    PROVE  /\ chunk.upto \in Nat /\ read[s] <= chunk.upto /\ chunk.upto <= Len(written[s])
           /\ NoNewline(written[s], start[s], chunk.upto)
           /\ read' = [read EXCEPT ![s] = chunk.upto]
           /\ s \in poisoned =>
                /\ start' = [start EXCEPT ![s] = chunk.upto] /\ poisoned' = poisoned /\ out' = out
                /\ start[s] < chunk.upto
           /\ s \notin poisoned =>
                \/ start' = start /\ poisoned' = poisoned /\ out' = out
                \/ /\ Emit(s, "poison", chunk.upto) /\ start[s] < chunk.upto
                   /\ start' = [start EXCEPT ![s] = chunk.upto] /\ poisoned' = poisoned \cup {s}
<1>1. /\ chunk.stream = s /\ chunk.upto \in Nat /\ chunk.upto <= Len(written[s])
      /\ read[s] <= chunk.upto /\ (s \in poisoned => read[s] < chunk.upto)
  BY BoundsAssumption DEF ChunkEnd, ControlInv, TypeOK
<1>2. /\ read[s] \in Nat /\ start[s] \in Nat /\ Len(written[s]) \in Nat
      /\ start[s] <= read[s] /\ NoNewline(written[s], start[s], read[s])
  BY SinkTypes DEF PlaceInv, Placed
<1>3. NoNewline(written[s], start[s], chunk.upto)
  BY <1>1, <1>2 DEF ChunkEnd, NoNewline
<1>4. chunk.upto - start[s] > MaxLine => start[s] < chunk.upto
  BY <1>1, <1>2, BoundsAssumption
<1> QED
  BY <1>1, <1>2, <1>3, <1>4 DEF ChunkEnd

\* What is written is appended to one stream.
LEMMA WriteEffect ==
    ASSUME TypeOK, NEW t \in Streams, Write(t)
    PROVE  /\ written' \in [Streams -> Seq(Token)]
           /\ \A s \in Streams : Len(written'[s]) \in Nat /\ Len(written'[s]) <= MaxWritten
           /\ \A s \in Streams : Len(written[s]) <= Len(written'[s])
           /\ \A s \in Streams : \A i \in 1..Len(written[s]) : written'[s][i] = written[s][i]
           /\ \A s \in Streams : s # t => written'[s] = written[s]
           /\ t \in open /\ \E x \in Token : written'[t] = Append(written[t], x)
<1>1. PICK x \in Token : written' = [written EXCEPT ![t] = Append(written[t], x)]
  BY DEF Write, Token
<1>2. written \in [Streams -> Seq(Token)] /\ Len(written[t]) \in Nat /\ Len(written[t]) < MaxWritten
  BY BoundsAssumption DEF TypeOK, Token, Write
<1>3. /\ Append(written[t], x) \in Seq(Token) /\ Len(Append(written[t], x)) = Len(written[t]) + 1
      /\ \A i \in 1..Len(written[t]) : Append(written[t], x)[i] = written[t][i]
  BY <1>2
<1>4. written'[t] = Append(written[t], x) /\ \A s \in Streams : s # t => written'[s] = written[s]
  BY <1>1, <1>2
<1>5. written' \in [Streams -> Seq(Token)]
  BY <1>1, <1>2, <1>3
<1>6. \A s \in Streams : Len(written[s]) \in Nat /\ Len(written[s]) <= MaxWritten
  BY SinkTypes DEF TypeOK
<1>7. ASSUME NEW s \in Streams
      PROVE  /\ Len(written'[s]) \in Nat /\ Len(written'[s]) <= MaxWritten
             /\ Len(written[s]) <= Len(written'[s])
             /\ \A i \in 1..Len(written[s]) : written'[s][i] = written[s][i]
  <2>1. CASE s = t
    BY <2>1, <1>2, <1>3, <1>4, BoundsAssumption
  <2>2. CASE s # t
    BY <2>2, <1>4, <1>6
  <2> QED BY <2>1, <2>2
<1> QED
  BY <1>4, <1>5, <1>7 DEF Write

-----------------------------------------------------------------------------
(* Each part of the invariant is kept by every step.                       *)

LEMMA TypeOKStep == IInv /\ [Next]_vars => TypeOK'
<1> SUFFICES ASSUME IInv, [Next]_vars PROVE TypeOK'
  OBVIOUS
<1> USE DEF IInv
<1>1. CASE Spawn
  BY <1>1 DEF TypeOK, Spawn, sinkVars, spawnVars
<1>2. CASE SpawnThrows
  BY <1>2 DEF TypeOK, SpawnThrows, writerVars, sinkVars
<1>3. CASE ChildExits
  BY <1>3 DEF TypeOK, ChildExits, sinkVars, spawnVars
<1>4. ASSUME NEW s \in Streams, Write(s) PROVE TypeOK'
  <2>1. /\ written' \in [Streams -> Seq({"text", "nl"})]
        /\ \A t \in Streams : Len(written'[t]) <= MaxWritten
    BY <1>4, WriteEffect DEF Token
  <2> QED BY <1>4, <2>1 DEF TypeOK, Write, sinkVars, spawnVars
<1>5. ASSUME NEW s \in Streams, CloseEnd(s) PROVE TypeOK'
  BY <1>5 DEF TypeOK, CloseEnd, sinkVars, spawnVars
<1>6. ASSUME NEW s \in Streams, Data(s) PROVE TypeOK'
  <2>1. PICK n \in (read[s] + 1)..Len(written[s]) : chunk' = [stream |-> s, upto |-> n]
    BY <1>6 DEF Data
  <2>2. n \in 0..MaxWritten
    BY <2>1, SinkTypes, BoundsAssumption DEF TypeOK
  <2> QED BY <1>6, <2>1, <2>2 DEF TypeOK, Data, writerVars, sinkVars, spawnVars
<1>7. ASSUME NEW s \in Streams, NextLine(s) PROVE TypeOK'
  <2>1. PICK i \in Nat :
           /\ i <= Len(written[s])
           /\ read' = [read EXCEPT ![s] = i] /\ start' = [start EXCEPT ![s] = i]
           /\ s \in poisoned => poisoned' = poisoned \ {s} /\ out' = out
           /\ s \notin poisoned => Emit(s, "line", i - 1) /\ poisoned' = poisoned
           /\ start[s] < i
    BY <1>7, NextLineEffect
  <2>2. i \in 0..MaxWritten /\ i - 1 \in Nat
    BY <2>1, SinkTypes, BoundsAssumption DEF TypeOK
  <2>3. s \in poisoned => out' \in [Streams -> Seq(Entry)]
    BY <2>1 DEF TypeOK
  <2>4. out' \in [Streams -> Seq(Entry)]
    BY <2>1, <2>2, <2>3, EmitType DEF TypeOK, Kinds
  <2>5. poisoned' \subseteq Streams
    BY <2>1 DEF TypeOK
  <2>6. read' \in [Streams -> 0..MaxWritten] /\ start' \in [Streams -> 0..MaxWritten]
    BY <2>1, <2>2 DEF TypeOK
  <2> QED BY <1>7, <2>4, <2>5, <2>6 DEF TypeOK, NextLine, writerVars, spawnVars
<1>8. ASSUME NEW s \in Streams, ChunkEnd(s) PROVE TypeOK'
  <2>1. chunk.upto \in 0..MaxWritten /\ chunk.upto \in Nat
    BY <1>8, ChunkEndEffect, SinkTypes, BoundsAssumption DEF TypeOK
  <2>2. out' = out \/ Emit(s, "poison", chunk.upto)
    BY <1>8 DEF ChunkEnd
  <2>3. out' \in [Streams -> Seq(Entry)]
    BY <2>1, <2>2, EmitType DEF TypeOK, Kinds
  <2>4. poisoned' \subseteq Streams
    BY <1>8 DEF TypeOK, ChunkEnd
  <2>5. read' \in [Streams -> 0..MaxWritten] /\ start' \in [Streams -> 0..MaxWritten]
    BY <1>8, <2>1 DEF TypeOK, ChunkEnd
  <2> QED BY <1>8, <2>3, <2>4, <2>5 DEF TypeOK, ChunkEnd, writerVars, spawnVars
<1>9. ASSUME NEW e, NEW x \in {"none", "exited", "error"}, finish(e, x),
             UNCHANGED <<writerVars, chunk>>, ended' \subseteq Streams,
             exit' \in {"none", "exited", "error"}
      PROVE  TypeOK'
  BY <1>9, FinishType DEF TypeOK, writerVars
<1>10. ASSUME NEW s \in Streams, EndEvent(s) PROVE TypeOK'
  <2>1. CASE finish(ended', exit)
    BY <1>9, <1>10, <2>1 DEF EndEvent, TypeOK
  <2>2. CASE UNCHANGED <<sinkVars, settled, grace>>
    BY <1>10, <2>2 DEF EndEvent, TypeOK, writerVars, sinkVars
  <2> QED BY <1>10, <2>1, <2>2 DEF EndEvent
<1>11. CASE ExitEvent
  <2>1. CASE finish(ended, exit')
    BY <1>9, <1>11, <2>1 DEF ExitEvent, TypeOK
  <2>2. CASE grace' = TRUE /\ UNCHANGED <<sinkVars, settled>>
    BY <1>11, <2>2 DEF ExitEvent, TypeOK, writerVars, sinkVars
  <2> QED BY <1>11, <2>1, <2>2 DEF ExitEvent
<1>12. CASE ErrorEvent
  BY <1>9, <1>12 DEF ErrorEvent, TypeOK
<1>13. CASE GraceExpires
  BY <1>9, <1>13 DEF GraceExpires, TypeOK
<1>14. CASE UNCHANGED vars
  BY <1>14 DEF TypeOK, vars, writerVars, sinkVars, spawnVars
<1> QED
  BY <1>1, <1>2, <1>3, <1>4, <1>5, <1>6, <1>7, <1>8, <1>10, <1>11, <1>12, <1>13, <1>14
  DEF Next, Writers, InData, Settled

LEMMA PlaceInvStep == IInv /\ [Next]_vars => PlaceInv'
<1> SUFFICES ASSUME IInv, [Next]_vars PROVE PlaceInv'
  OBVIOUS
<1> USE DEF IInv
<1>1. CASE UNCHANGED <<written, sinkVars, settled>>
  BY <1>1 DEF PlaceInv, Placed, NoNewline, sinkVars
<1>2. CASE SpawnThrows
  <2>1. \A s \in Streams : written[s] = <<>>
    BY <1>2 DEF SpawnThrows, ControlInv
  <2>2. \A s \in Streams : start[s] = read[s]
    <3> SUFFICES ASSUME NEW s \in Streams PROVE start[s] = read[s]
      OBVIOUS
    <3>1. read[s] \in Nat /\ start[s] \in Nat /\ start[s] <= read[s] /\ read[s] <= Len(written[s])
      BY SinkTypes DEF PlaceInv, Placed
    <3> QED BY <2>1, <3>1
  <2> QED BY <1>2, <2>2 DEF SpawnThrows, PlaceInv, Placed, NoNewline, writerVars, sinkVars
<1>3. ASSUME NEW t \in Streams, Write(t) PROVE PlaceInv'
  <2> SUFFICES ASSUME NEW s \in Streams
               PROVE  /\ Placed(written'[s], read[s], start[s], s \in poisoned)
                      /\ s \notin poisoned => start[s] = 0 \/ written'[s][start[s]] = "nl"
    BY <1>3 DEF PlaceInv, Write, sinkVars, spawnVars
  <2>1. /\ Len(written[s]) <= Len(written'[s]) /\ Len(written'[s]) \in Nat
        /\ \A i \in 1..Len(written[s]) : written'[s][i] = written[s][i]
    BY <1>3, WriteEffect
  <2>2. read[s] \in Nat /\ start[s] \in Nat /\ Len(written[s]) \in Nat
    BY SinkTypes
  <2>3. /\ Placed(written[s], read[s], start[s], s \in poisoned)
        /\ s \notin poisoned => start[s] = 0 \/ written[s][start[s]] = "nl"
    BY <1>3 DEF PlaceInv, Write
  <2>4. start[s] <= read[s] /\ read[s] <= Len(written[s]) /\ read[s] <= Len(written'[s])
    BY <2>1, <2>2, <2>3 DEF Placed
  <2>5. NoNewline(written'[s], start[s], read[s])
    BY ONLY <2>1, <2>2, <2>3, <2>4 DEF Placed, NoNewline
  <2>6. start[s] > 0 => written'[s][start[s]] = written[s][start[s]]
    BY ONLY <2>1, <2>2, <2>4
  <2> QED BY <2>2, <2>3, <2>4, <2>5, <2>6 DEF Placed
<1>4. ASSUME NEW t \in Streams, NextLine(t) PROVE PlaceInv'
  <2>1. PICK i \in Nat :
           /\ read[t] < i /\ i <= Len(written[t]) /\ written[t][i] = "nl"
           /\ read' = [read EXCEPT ![t] = i] /\ start' = [start EXCEPT ![t] = i]
           /\ t \in poisoned => poisoned' = poisoned \ {t}
           /\ t \notin poisoned => poisoned' = poisoned
    BY <1>4, NextLineEffect
  <2>2. settled = "no" /\ settled' = settled /\ written' = written
    BY <1>4 DEF NextLine, ControlInv, spawnVars, writerVars
  <2>3. read' \in [Streams -> 0..MaxWritten] /\ read \in [Streams -> 0..MaxWritten]
        /\ start \in [Streams -> 0..MaxWritten]
    BY TypeOKStep DEF TypeOK
  <2>4. /\ read'[t] = i /\ start'[t] = i /\ t \notin poisoned'
        /\ Placed(written[t], i, i, FALSE)
    BY <2>1, <2>3, SinkTypes DEF Placed, NoNewline
  <2>5. \A s \in Streams \ {t} : read'[s] = read[s] /\ start'[s] = start[s] /\ (s \in poisoned' <=> s \in poisoned)
    BY <2>1, <2>3
  <2> QED BY <2>1, <2>2, <2>4, <2>5 DEF PlaceInv, Placed
<1>5. ASSUME NEW t \in Streams, ChunkEnd(t) PROVE PlaceInv'
  <2>1. settled = "no" /\ settled' = settled /\ written' = written
    BY <1>5 DEF ChunkEnd, ControlInv, spawnVars, writerVars
  <2>2. /\ chunk.upto \in Nat /\ read[t] <= chunk.upto /\ chunk.upto <= Len(written[t])
        /\ NoNewline(written[t], start[t], chunk.upto) /\ read'[t] = chunk.upto
    BY <1>5, ChunkEndEffect DEF TypeOK
  <2>3. /\ \A s \in Streams \ {t} : read'[s] = read[s] /\ start'[s] = start[s] /\ (s \in poisoned' <=> s \in poisoned)
    BY <1>5 DEF ChunkEnd, TypeOK
  <2>4. /\ start[t] \in Nat /\ read[t] \in Nat /\ Len(written[t]) \in Nat
        /\ Placed(written[t], read[t], start[t], t \in poisoned)
        /\ t \notin poisoned => start[t] = 0 \/ written[t][start[t]] = "nl"
    BY <2>1, SinkTypes DEF PlaceInv
  <2>5. CASE start'[t] = chunk.upto /\ t \in poisoned' /\ start[t] < chunk.upto
    <3>1. written[t][chunk.upto] # "nl"
      BY <2>2, <2>4, <2>5 DEF NoNewline
    <3>2. Placed(written[t], chunk.upto, chunk.upto, TRUE)
      BY <2>2, <2>4, <2>5, <3>1 DEF Placed, NoNewline
    <3> QED BY <2>1, <2>2, <2>3, <2>5, <3>2 DEF PlaceInv, Placed
  <2>6. CASE start' = start /\ poisoned' = poisoned /\ t \notin poisoned
    <3>1. Placed(written[t], chunk.upto, start[t], FALSE)
      BY <2>2, <2>4, <2>6 DEF Placed
    <3> QED BY <2>1, <2>2, <2>3, <2>4, <2>6, <3>1 DEF PlaceInv, Placed
  <2>7. \/ start'[t] = chunk.upto /\ t \in poisoned' /\ start[t] < chunk.upto
        \/ start' = start /\ poisoned' = poisoned /\ t \notin poisoned
    <3>1. start' = [start EXCEPT ![t] = chunk.upto] => start'[t] = chunk.upto
      BY DEF TypeOK
    <3>2. CASE t \in poisoned
      <4>1. /\ start' = [start EXCEPT ![t] = chunk.upto] /\ poisoned' = poisoned
            /\ start[t] < chunk.upto
        BY <1>5, <3>2, ChunkEndEffect
      <4> QED BY ONLY <3>1, <3>2, <4>1
    <3>3. CASE t \notin poisoned
      <4>1. \/ start' = start /\ poisoned' = poisoned
            \/ /\ start[t] < chunk.upto
               /\ start' = [start EXCEPT ![t] = chunk.upto] /\ poisoned' = poisoned \cup {t}
        BY <1>5, <3>3, ChunkEndEffect
      <4> QED BY ONLY <3>1, <3>3, <4>1
    <3> QED BY <3>2, <3>3
  <2> QED BY <2>5, <2>6, <2>7
<1>6. ASSUME NEW e, NEW x, finish(e, x), x # "no", UNCHANGED written PROVE PlaceInv'
  BY <1>6, FinishPlaces
<1>7. CASE ExitEvent
  <2>1. CASE finish(ended, exit')
    BY <1>6, <1>7, <2>1 DEF ExitEvent, writerVars
  <2> QED BY <1>1, <1>7, <2>1 DEF ExitEvent, writerVars
<1>8. CASE ErrorEvent
  BY <1>6, <1>8 DEF ErrorEvent, writerVars
<1>9. CASE GraceExpires
  BY <1>6, <1>9 DEF GraceExpires, writerVars, TypeOK
<1>10. ASSUME NEW s \in Streams, EndEvent(s) PROVE PlaceInv'
  <2>1. CASE finish(ended', exit)
    BY <1>6, <1>10, <2>1 DEF EndEvent, writerVars, TypeOK
  <2> QED BY <1>1, <1>10, <2>1 DEF EndEvent, writerVars
<1> QED
  BY <1>1, <1>2, <1>3, <1>4, <1>5, <1>7, <1>8, <1>9, <1>10
  DEF Next, Writers, InData, Settled, Spawn, ChildExits, CloseEnd, Data, vars, writerVars,
      sinkVars, spawnVars

LEMMA TraceInvStep == IInv /\ [Next]_vars => TraceInv'
<1> SUFFICES ASSUME IInv, [Next]_vars PROVE TraceInv'
  OBVIOUS
<1> USE DEF IInv
<1>1. CASE UNCHANGED <<written, sinkVars>> /\ open' \subseteq open
  <2> SUFFICES ASSUME NEW s \in Streams
               PROVE  Traced(written[s], s \in open', out[s], start[s])
    BY <1>1 DEF TraceInv, sinkVars
  <2>1. Traced(written[s], s \in open, out[s], start[s])
    BY DEF TraceInv
  <2>2. CASE s \in open'
    BY <1>1, <2>1, <2>2 DEF Traced, WholeLine
  <2>3. CASE s \notin open'
    BY <2>1, <2>3, TraceClose DEF Traced, WholeLine
  <2> QED BY <2>2, <2>3
<1>2. CASE Spawn
  <2> SUFFICES ASSUME NEW s \in Streams
               PROVE  Traced(written[s], s \in open', out[s], start[s])
    BY <1>2 DEF TraceInv, Spawn, sinkVars
  <2>1. written[s] = <<>> /\ Traced(written[s], s \in open, out[s], start[s])
    BY <1>2 DEF TraceInv, ControlInv, Spawn
  <2>2. Begun(written[s]) = {}
    BY <2>1 DEF Begun
  <2> QED BY <2>1, <2>2 DEF Traced, WholeLine
<1>3. ASSUME NEW t \in Streams, Write(t) PROVE TraceInv'
  <2> SUFFICES ASSUME NEW s \in Streams
               PROVE  Traced(written'[s], s \in open, out[s], start[s])
    BY <1>3 DEF TraceInv, Write, sinkVars
  <2>1. /\ written[s] \in Seq(Token) /\ out[s] \in Seq(Entry) /\ start[s] \in Nat
        /\ start[s] <= Len(written[s])
    BY SinkTypes DEF PlaceInv, Placed
  <2>2. Traced(written[s], s \in open, out[s], start[s])
    BY DEF TraceInv
  <2>3. CASE s = t
    <3>1. t \in open /\ \E x \in Token : written'[s] = Append(written[s], x)
      BY <1>3, <2>3, WriteEffect
    <3>2. Traced(written[s], TRUE, out[s], start[s])
      BY <2>2, <2>3, <3>1 DEF Traced, WholeLine
    <3>3. Traced(written'[s], TRUE, out[s], start[s])
      BY <2>1, <3>1, <3>2, TraceGrow
    <3> QED BY <2>3, <3>1, <3>3 DEF Traced, WholeLine
  <2>4. CASE s # t
    BY <1>3, <2>2, <2>4, WriteEffect
  <2> QED BY <2>3, <2>4
<1>4. ASSUME NEW t \in Streams, NextLine(t) PROVE TraceInv'
  <2>1. PICK i \in Nat :
           /\ read[t] < i /\ i <= Len(written[t])
           /\ written[t][i] = "nl" /\ NoNewline(written[t], start[t], i - 1)
           /\ start[t] < i
           /\ start' = [start EXCEPT ![t] = i]
           /\ t \in poisoned => out' = out
           /\ t \notin poisoned => Emit(t, "line", i - 1)
    BY <1>4, NextLineEffect
  <2>2. settled = "no" /\ written' = written /\ open' = open
    BY <1>4 DEF NextLine, ControlInv, writerVars
  <2>3. /\ written[t] \in Seq(Token) /\ Len(written[t]) \in Nat /\ out[t] \in Seq(Entry)
        /\ start[t] \in Nat /\ start'[t] = i /\ i - 1 \in Nat
        /\ \A s \in Streams : s # t => start'[s] = start[s]
    BY <2>1, SinkTypes DEF TypeOK
  <2>4. Traced(written[t], t \in open, out[t], start[t])
    BY DEF TraceInv
  <2>5. Traced(written[t], t \in open, out'[t], i) /\ \A s \in Streams : s # t => out'[s] = out[s]
    <3>1. CASE t \in poisoned
      <4>1. start[t] > 0 /\ written[t][start[t]] # "nl"
        BY <3>1 DEF PlaceInv, Placed
      <4>2. \A p \in Begun(written[t]) : ~(start[t] <= p /\ p < i)
        BY <2>1, <2>3, <4>1 DEF Begun, NoNewline
      <4>3. Traced(written[t], t \in open, out[t], i)
        BY <2>1, <2>3, <2>4, <4>2, TraceSkip
      <4> QED BY <2>1, <3>1, <4>3
    <3>2. CASE t \notin poisoned
      <4> DEFINE e == [kind |-> "line", from |-> start[t], to |-> i - 1]
      <4>1. /\ e \in Entry /\ out'[t] = Append(out[t], e)
            /\ \A s \in Streams : s # t => out'[s] = out[s]
        BY <2>1, <2>3, <3>2, EmitType DEF Kinds
      <4>2. start[t] = 0 \/ written[t][start[t]] = "nl"
        BY <2>2, <3>2 DEF PlaceInv
      <4>3. start[t] \in Begun(written[t])
        BY <2>1, <2>3, <4>2 DEF Begun
      <4>4. WholeLine(written[t], t \in open, e)
        BY <2>1, <2>3, <4>3 DEF WholeLine
      <4>5. e.from = start[t]
        OBVIOUS
      <4> HIDE DEF e
      <4>6. Traced(written[t], t \in open, Append(out[t], e), i)
        BY <2>1, <2>3, <2>4, <4>1, <4>3, <4>4, <4>5, TraceAppend
      <4> QED BY <4>1, <4>6
    <3> QED BY <3>1, <3>2
  <2> QED BY <2>2, <2>3, <2>5 DEF TraceInv
<1>5. ASSUME NEW t \in Streams, ChunkEnd(t) PROVE TraceInv'
  <2> DEFINE u == chunk.upto
  <2>1. /\ u \in Nat /\ u <= Len(written[t]) /\ NoNewline(written[t], start[t], u)
        /\ t \in poisoned => start' = [start EXCEPT ![t] = u] /\ out' = out /\ start[t] < u
        /\ t \notin poisoned =>
             \/ start' = start /\ out' = out
             \/ /\ Emit(t, "poison", u) /\ start[t] < u
                /\ start' = [start EXCEPT ![t] = u]
    BY <1>5, ChunkEndEffect
  <2>2. settled = "no" /\ written' = written /\ open' = open
    BY <1>5 DEF ChunkEnd, ControlInv, writerVars
  <2>3. /\ written[t] \in Seq(Token) /\ Len(written[t]) \in Nat /\ out[t] \in Seq(Entry)
        /\ start[t] \in Nat /\ start \in [Streams -> 0..MaxWritten]
    BY SinkTypes DEF TypeOK
  <2>4. Traced(written[t], t \in open, out[t], start[t])
    BY DEF TraceInv
  <2> HIDE DEF u
  <2>5. CASE t \in poisoned
    <3>1. start[t] > 0 /\ written[t][start[t]] # "nl"
      BY <2>5 DEF PlaceInv, Placed
    <3>2. \A p \in Begun(written[t]) : ~(start[t] <= p /\ p < u)
      BY <2>1, <2>3, <3>1 DEF Begun, NoNewline
    <3>3. start[t] < u /\ out' = out /\ start' = [start EXCEPT ![t] = u]
      BY <2>1, <2>5
    <3>4. Traced(written[t], t \in open, out[t], u)
      BY <2>1, <2>3, <2>4, <3>2, <3>3, TraceSkip
    <3> QED BY <2>2, <2>3, <3>3, <3>4 DEF TraceInv
  <2>6. CASE start' = start /\ out' = out
    BY <2>2, <2>6 DEF TraceInv
  <2>7. CASE t \notin poisoned /\ Emit(t, "poison", u) /\ start[t] < u /\ start' = [start EXCEPT ![t] = u]
    <3> DEFINE e == [kind |-> "poison", from |-> start[t], to |-> u]
    <3>1. /\ e \in Entry /\ out'[t] = Append(out[t], e)
          /\ \A s \in Streams : s # t => out'[s] = out[s]
      BY <2>1, <2>7, EmitType DEF Kinds
    <3>2. start[t] = 0 \/ written[t][start[t]] = "nl"
      BY <2>2, <2>7 DEF PlaceInv
    <3>3. start[t] \in Begun(written[t]) /\ NoNewline(written[t], start[t], u - 1)
      BY <2>1, <2>3, <2>7, <3>2 DEF Begun, NoNewline
    <3>4. e.from = start[t] /\ e.kind # "line"
      OBVIOUS
    <3> HIDE DEF e
    <3>5. Traced(written[t], t \in open, Append(out[t], e), u)
      BY <2>1, <2>3, <2>4, <2>7, <3>1, <3>3, <3>4, TraceAppend
    <3>6. start'[t] = u /\ \A s \in Streams : s # t => start'[s] = start[s]
      BY <2>3, <2>7
    <3> QED BY <2>2, <3>1, <3>5, <3>6 DEF TraceInv
  <2> QED BY <2>1, <2>5, <2>6, <2>7
<1>6. ASSUME NEW e, NEW x, finish(e, x), settled = "no", UNCHANGED <<written, open>>,
             \A s \in e : s \notin open /\ read[s] = Len(written[s])
      PROVE  TraceInv'
  BY <1>6, FinishTraces
<1>7. CASE ExitEvent
  <2>1. CASE finish(ended, exit')
    BY <1>6, <1>7, <2>1 DEF ExitEvent, Ready, EndInv, writerVars
  <2> QED BY <1>1, <1>7, <2>1 DEF ExitEvent, writerVars
<1>8. CASE ErrorEvent
  BY <1>6, <1>8 DEF ErrorEvent, Ready, EndInv, writerVars
<1>9. CASE GraceExpires
  BY <1>6, <1>9 DEF GraceExpires, Ready, EndInv, writerVars
<1>10. ASSUME NEW s \in Streams, EndEvent(s) PROVE TraceInv'
  <2>1. \A t \in ended' : t \notin open /\ read[t] = Len(written[t])
    BY <1>10 DEF EndEvent, EndInv
  <2>2. CASE finish(ended', exit)
    BY <1>6, <1>10, <2>1, <2>2 DEF EndEvent, Ready, writerVars
  <2> QED BY <1>1, <1>10, <2>2 DEF EndEvent, writerVars
<1> QED
  BY <1>1, <1>2, <1>3, <1>4, <1>5, <1>7, <1>8, <1>9, <1>10
  DEF Next, Writers, InData, Settled, SpawnThrows, ChildExits, CloseEnd, Data, vars, writerVars,
      sinkVars, spawnVars

LEMMA EndInvStep == IInv /\ [Next]_vars => EndInv'
<1> SUFFICES ASSUME IInv, [Next]_vars PROVE EndInv'
  OBVIOUS
<1> USE DEF IInv
<1>1. CASE UNCHANGED <<written, read, ended>> /\ open' \subseteq open
  BY <1>1 DEF EndInv
<1>2. CASE Spawn
  BY <1>2 DEF EndInv, Spawn, ControlInv, spawnVars
<1>3. ASSUME NEW t \in Streams, Write(t) PROVE EndInv'
  <2>1. t \in open /\ \A s \in Streams : s # t => written'[s] = written[s]
    BY <1>3, WriteEffect
  <2>2. ended \subseteq Streams
    BY DEF TypeOK
  <2> QED BY <1>3, <2>1, <2>2 DEF EndInv, Write, sinkVars, spawnVars
<1>4. ASSUME NEW t \in Streams, NextLine(t) \/ ChunkEnd(t) PROVE EndInv'
  <2>1. t \notin ended
    BY <1>4 DEF NextLine, ChunkEnd, ControlInv
  <2>2. \A s \in Streams : s # t => read'[s] = read[s]
    BY <1>4 DEF NextLine, ChunkEnd, TypeOK
  <2>3. ended \subseteq Streams
    BY DEF TypeOK
  <2> QED BY <1>4, <2>1, <2>2, <2>3 DEF EndInv, NextLine, ChunkEnd, writerVars, spawnVars
<1>5. ASSUME NEW s \in Streams, EndEvent(s) PROVE EndInv'
  <2>1. read' = read /\ written' = written /\ open' = open
    BY <1>5 DEF EndEvent, finish, sinkVars, writerVars
  <2> QED BY <1>5, <2>1 DEF EndEvent, EndInv
<1>6. CASE ExitEvent \/ ErrorEvent \/ GraceExpires
  <2>1. read' = read /\ written' = written /\ open' = open /\ ended' = ended
    BY <1>6 DEF ExitEvent, ErrorEvent, GraceExpires, finish, sinkVars, writerVars
  <2> QED BY <1>1, <2>1
<1> QED
  BY <1>1, <1>2, <1>3, <1>4, <1>5, <1>6
  DEF Next, Writers, InData, Settled, SpawnThrows, ChildExits, CloseEnd, Data, vars, writerVars,
      sinkVars, spawnVars

LEMMA ControlInvStep == IInv /\ [Next]_vars => ControlInv'
<1> SUFFICES ASSUME IInv, [Next]_vars PROVE ControlInv'
  OBVIOUS
<1> USE DEF IInv
<1>1. CASE Spawn
  <2>1. chunk = None
    BY <1>1 DEF Spawn, ControlInv
  <2> QED BY <1>1, <2>1 DEF Spawn, ControlInv, spawnVars
<1>2. CASE SpawnThrows
  <2>1. chunk = None
    BY <1>2 DEF SpawnThrows, ControlInv
  <2> QED BY <1>2, <2>1 DEF SpawnThrows, ControlInv, writerVars
<1>3. CASE ChildExits
  BY <1>3 DEF ChildExits, ControlInv, sinkVars, spawnVars
<1>4. ASSUME NEW t \in Streams, Write(t) PROVE ControlInv'
  <2>1. /\ t \in open /\ UNCHANGED <<child, open, sinkVars, chunk, spawnVars>>
        /\ \A s \in Streams : Len(written[s]) <= Len(written'[s]) /\ Len(written[s]) \in Nat /\ Len(written'[s]) \in Nat
    BY <1>4, WriteEffect, SinkTypes DEF Write
  <2>2. child # "starting"
    BY <2>1 DEF ControlInv
  <2>3. chunk # None => chunk.stream \in Streams /\ chunk.upto \in Nat
    BY BoundsAssumption DEF TypeOK
  <2> QED BY <2>1, <2>2, <2>3 DEF ControlInv, sinkVars, spawnVars
<1>5. ASSUME NEW t \in Streams, CloseEnd(t) PROVE ControlInv'
  BY <1>5 DEF CloseEnd, ControlInv, sinkVars, spawnVars
<1>6. ASSUME NEW t \in Streams, Data(t) PROVE ControlInv'
  <2>1. PICK n \in (read[t] + 1)..Len(written[t]) : chunk' = [stream |-> t, upto |-> n]
    BY <1>6 DEF Data
  <2>2. chunk'.stream = t /\ chunk'.upto = n
    BY <2>1
  <2>3. read[t] < n /\ n <= Len(written[t]) /\ read[t] <= n
    BY <2>1, SinkTypes
  <2>4. t \notin ended
    BY <2>3, SinkTypes DEF EndInv
  <2> QED BY <1>6, <2>2, <2>3, <2>4 DEF Data, Ready, ControlInv, writerVars, sinkVars, spawnVars
<1>7. ASSUME NEW t \in Streams, NextLine(t) PROVE ControlInv'
  <2>1. PICK i \in Nat :
           /\ i <= chunk.upto /\ i <= Len(written[t])
           /\ read' = [read EXCEPT ![t] = i]
           /\ t \in poisoned => poisoned' = poisoned \ {t}
           /\ t \notin poisoned => poisoned' = poisoned
    BY <1>7, NextLineEffect
  <2>2. read'[t] = i /\ t \notin poisoned'
    BY <2>1 DEF TypeOK
  <2> QED BY <1>7, <2>1, <2>2 DEF NextLine, ControlInv, writerVars, spawnVars
<1>8. ASSUME NEW t \in Streams, ChunkEnd(t) PROVE ControlInv'
  <2>1. child # "starting" /\ chunk' = None
    BY <1>8 DEF ChunkEnd, ControlInv
  <2> QED BY <1>8, <2>1 DEF ChunkEnd, ControlInv, writerVars, spawnVars
<1>9. ASSUME NEW s \in Streams, EndEvent(s) PROVE ControlInv'
  <2>1. child # "starting" /\ chunk = None /\ chunk' = None /\ child' = child
    BY <1>9 DEF EndEvent, Ready, writerVars
  <2> QED BY <1>9, <2>1 DEF EndEvent, Ready, finish, ControlInv, writerVars, sinkVars
<1>10. CASE ExitEvent \/ ErrorEvent \/ GraceExpires
  <2>1. child # "starting" /\ chunk = None /\ chunk' = None /\ child' = child
    BY <1>10 DEF ExitEvent, ErrorEvent, GraceExpires, Ready, writerVars
  <2> QED BY <1>10, <2>1 DEF ExitEvent, ErrorEvent, GraceExpires, Ready, finish, ControlInv, writerVars, sinkVars
<1>11. CASE UNCHANGED vars
  BY <1>11 DEF ControlInv, vars, writerVars, sinkVars, spawnVars
<1> QED
  BY <1>1, <1>2, <1>3, <1>4, <1>5, <1>6, <1>7, <1>8, <1>9, <1>10, <1>11
  DEF Next, Writers, InData, Settled

LEMMA InitIInv == Init => IInv
<1> SUFFICES ASSUME Init PROVE IInv
  OBVIOUS
<1>1. TypeOK
  <2>1. /\ Len(<<>>) = 0 /\ <<>> \in Seq({"text", "nl"}) /\ <<>> \in Seq(Entry)
        /\ MaxWritten \in Nat
    BY BoundsAssumption
  <2>2. /\ written \in [Streams -> Seq({"text", "nl"})] /\ out \in [Streams -> Seq(Entry)]
        /\ \A s \in Streams : Len(written[s]) <= MaxWritten
    BY <2>1 DEF Init
  <2>3. read \in [Streams -> 0..MaxWritten] /\ start \in [Streams -> 0..MaxWritten]
    BY <2>1 DEF Init
  <2> QED BY <2>2, <2>3 DEF Init, TypeOK
<1>2. PlaceInv /\ EndInv /\ ControlInv
  BY DEF Init, PlaceInv, EndInv, ControlInv, Placed, NoNewline
<1>3. TraceInv
  <2> SUFFICES ASSUME NEW s \in Streams
               PROVE  Traced(written[s], s \in open, out[s], start[s])
    BY DEF TraceInv
  <2>1. written[s] = <<>> /\ out[s] = <<>> /\ Len(<<>>) = 0
    BY DEF Init
  <2>2. Begun(written[s]) = {} /\ 1..Len(out[s]) = {}
    BY <2>1 DEF Begun
  <2> QED BY <2>2 DEF Traced
<1> QED
  BY <1>1, <1>2, <1>3 DEF IInv

-----------------------------------------------------------------------------
(* The theorems.                                                           *)

\* The inductive invariant: each sink stands right after a newline, a marker or a partial
\* line, and the traces in its output are those of the lines before.
THEOREM StreamInvariant == Spec => []IInv
<1>1. IInv /\ [Next]_vars => IInv'
  BY TypeOKStep, PlaceInvStep, TraceInvStep, EndInvStep, ControlInvStep DEF IInv
<1> QED
  BY <1>1, InitIInv, PTL DEF Spec

\* Every variable of the sinks and of streamSpawn keeps its type.
THEOREM StreamTyped == Spec => []TypeOK
<1>1. IInv => TypeOK
  BY DEF IInv
<1> QED
  BY <1>1, StreamInvariant, PTL

\* onLine is given whole lines and markers, never a piece of a line.
THEOREM OnlyWholeLinesHolds == Spec => []OnlyWholeLines
<1>1. IInv => OnlyWholeLines
  BY DEF IInv, TraceInv, Traced, OnlyWholeLines
<1> QED
  BY <1>1, StreamInvariant, PTL

\* At the resolution every line that reached a sink has left exactly one trace.
THEOREM EveryLineOnceHolds == Spec => []EveryLineOnce
<1>1. IInv => EveryLineOnce
  <2> SUFFICES ASSUME IInv, settled # "no", NEW s \in Streams
               PROVE  /\ \A k \in 1..Len(out[s]) : out[s][k].from \in Begun(written[s])
                      /\ \A p \in Begun(written[s]) : p < read[s] =>
                           \E k \in 1..Len(out[s]) : out[s][k].from = p
                      /\ \A j, k \in 1..Len(out[s]) : j < k => out[s][j].from < out[s][k].from
                      /\ s \in ended => read[s] = Len(written[s])
    BY DEF EveryLineOnce
  <2>1. start[s] = read[s] /\ Traced(written[s], s \in open, out[s], start[s])
    BY DEF IInv, PlaceInv, TraceInv
  <2> QED BY <2>1 DEF IInv, EndInv, Traced
<1> QED
  BY <1>1, StreamInvariant, PTL

\* The promise resolves to the child's exit or to an error.
THEOREM RealDispositionHolds == Spec => []RealDisposition
<1>1. IInv => RealDisposition
  BY DEF IInv, ControlInv, RealDisposition
<1> QED
  BY <1>1, StreamInvariant, PTL
=============================================================================
