------------------------- MODULE StraceTailerProofs -------------------------
(***************************************************************************)
(* The invariants of StraceTailer and the theorems that follow from them,  *)
(* for any set of per-pid files and any bounds.                            *)
(***************************************************************************)
EXTENDS StraceTailer, TLAPS, SequenceTheorems

-----------------------------------------------------------------------------
(* The inductive invariant, in parts.                                      *)

\* Lines of each source queued so far.
Got == [s \in Sources |-> IF s = Fd3 THEN fd3n - fd3Pending ELSE (pos[s] - buf[s] + 1) \div 2]

\* A queue q whose items, with what was delivered before, are the lines up to got.
Covers(q, d, got) ==
    /\ \A s \in Sources : d[s] <= got[s]
    /\ \A i \in 1..Len(q) : d[q[i].file] < q[i].n /\ q[i].n <= got[q[i].file]
    /\ \A i, j \in 1..Len(q) : i < j /\ q[i].file = q[j].file => q[i].n < q[j].n
    /\ \A s \in Sources : \A n \in (d[s] + 1)..got[s] :
         \E i \in 1..Len(q) : q[i] = [file |-> s, n |-> n]

\* Where the callbacks, the exit handler and the consumer are relative to each other.
ControlInv ==
    /\ phase = "run" => ~childExited /\ cb \notin {"settle", "flush"} /\ quiet = 0
    /\ phase = "run" => \A f \in Files : prev[f] = -1
    /\ phase # "run" => exit # "alive" /\ childExited = (exit = "clean")
    /\ phase # "done" /\ cb # "flush" => quiet < settleQuietPasses
    /\ phase = "done" => cb = "idle"
    /\ consumer = "unstarted" => phase = "run" /\ cb = "idle" /\ queue = <<>> /\ fd3Pending = fd3n
    /\ consumer # "unstarted" => fd3Pending = 0
    /\ fd3Pending <= fd3n
    /\ consumer = "finished" => phase = "done" /\ fd3Closed /\ queue = <<>>

\* Files only shrink under the events path, and a pending write has room.
DiskInv ==
    /\ \A f \in PidFiles : pos[f] <= size[f]
    /\ pos[Events] <= maxSeen
    /\ lag => size[Events] < MaxTokens
    /\ exit = "clean" => ~lag

\* Files whose partial line has been flushed.
Flushed(f) == phase = "done" \/ (cb = "flush" /\ f \in PidFiles \ left)

\* Buffers hold exactly the read tokens after the last whole line.
BufferInv ==
    \A f \in Files :
       /\ buf[f] <= pos[f]
       /\ IF Flushed(f) THEN buf[f] = 0 ELSE (pos[f] - buf[f]) % 2 = 0

QueueInv == Covers(queue, delivered, Got)

\* A file with unread tokens has been missed by as many polls as there were quiet
\* passes: in the pass under way, one more where it was already visited.
SettleInv ==
    phase = "settle" /\ cb # "flush" /\ exit = "clean" /\ tamper = "none" =>
        /\ \A f \in Files : prev[f] <= pos[f]
        /\ prev = pos => \A f \in Files : pos[f] < size[f] =>
             IF cb = "settle" /\ f \notin left THEN stall[f] > quiet ELSE stall[f] >= quiet
        /\ cb = "settle" => evId = "same" /\ ~mtimeBack /\ pos[Events] <= size[Events]

\* What the end of the settle loop established.
FinalInv ==
    /\ phase # "run" /\ exit = "signal" => tamper # "none"
    /\ (cb = "flush" \/ phase = "done") /\ exit = "clean" /\ tamper = "none" =>
         evId = "same" /\ ~mtimeBack /\ \A f \in Files : pos[f] = size[f]

\* Only a flush pushes without waking, and its callback ends with wake().
WakeInv ==
    consumer = "parked" => (cb # "flush" => queue = <<>>) /\ ~(phase = "done" /\ fd3Closed)

\* Without interference the gates never see more than one early time per write.
BenignInv ==
    exit \in {"alive", "clean"} /\ ~disturbed =>
        /\ tamper \in {"none", "unsettled"}
        /\ evId = "same" /\ ~mtimeBack /\ ~renamed /\ ~lost /\ maxSeen <= size[Events]
        /\ mtimeNew /\ ~lag => size[Events] > pos[Events]
        /\ mtimeStrikes > 0 =>
             mtimeStrikes = 1 /\ (size[Events] > pos[Events] \/ (lag /\ ~mtimeNew))

IInv == /\ TypeOK /\ ControlInv /\ DiskInv /\ BufferInv /\ QueueInv
        /\ SettleInv /\ FinalInv /\ WakeInv /\ BenignInv

-----------------------------------------------------------------------------
(* Lemmas on tokens, items and queues.                                     *)

\* What a read of n tokens, keeping back the unterminated line, does to the
\* number of whole lines behind position p with b tokens held over.
HeldBack(p, b, n) ==
    /\ (p - b) \div 2 \in Nat /\ (b + n) \div 2 \in Nat
    /\ (b + n) % 2 \in 0..1 /\ (b + n) % 2 <= p + n
    /\ ((p + n) - ((b + n) % 2)) % 2 = 0
    /\ (p - b + 1) \div 2 = (p - b) \div 2
    /\ ((p + n) - ((b + n) % 2) + 1) \div 2 = (p - b) \div 2 + (b + n) \div 2

LEMMA Halves ==
    ASSUME NEW p \in Nat, NEW b \in Nat, NEW n \in Nat, b <= p, (p - b) % 2 = 0
    PROVE  HeldBack(p, b, n)
<1>1. PICK a \in Nat : a = (p - b) \div 2
  OBVIOUS
<1>2. PICK m \in Nat : m = (b + n) \div 2
  OBVIOUS
<1>3. PICK r \in 0..1 : r = (b + n) % 2
  OBVIOUS
<1>4. p - b = 2 * a /\ b + n = 2 * m + r
  BY <1>1, <1>2, <1>3
<1>5. p - b + 1 = 2 * a + 1 /\ (p + n) - r = 2 * (a + m) /\ r <= p + n
  BY <1>4
<1>6. (2 * a + 1) \div 2 = a /\ (2 * (a + m)) % 2 = 0 /\ (2 * (a + m) + 1) \div 2 = a + m
  OBVIOUS
<1>7. ((p + n) - r) % 2 = 0 /\ (p - b + 1) \div 2 = a /\ ((p + n) - r + 1) \div 2 = a + m
  BY <1>5, <1>6
<1>8. (p - b) \div 2 \in Nat /\ (b + n) \div 2 \in Nat
  BY <1>1, <1>2
<1>9. (b + n) % 2 \in 0..1 /\ (b + n) % 2 <= p + n
  BY <1>3, <1>5
<1>10. ((p + n) - ((b + n) % 2)) % 2 = 0
  BY <1>3, <1>7
<1>11. (p - b + 1) \div 2 = (p - b) \div 2
  BY <1>1, <1>7
<1>12. ((p + n) - ((b + n) % 2) + 1) \div 2 = (p - b) \div 2 + (b + n) \div 2
  <2>1. (p + n) - ((b + n) % 2) + 1 = 2 * (a + m) + 1
    BY <1>3, <1>5
  <2>2. (2 * (a + m) + 1) \div 2 = a + m
    BY <1>6
  <2>3. ((p + n) - ((b + n) % 2) + 1) \div 2 = a + m
    BY ONLY <2>1, <2>2
  <2> QED BY ONLY <1>1, <1>2, <2>3
<1> QED
  BY ONLY <1>8, <1>9, <1>10, <1>11, <1>12, Zenon DEF HeldBack

\* The items of a read.
LEMMA LineItemsType ==
    ASSUME NEW s \in Sources, NEW k \in Nat, NEW m \in Nat
    PROVE  /\ LineItems(s, k, m) \in Seq(Item)
           /\ Len(LineItems(s, k, m)) = m
           /\ \A i \in 1..m : LineItems(s, k, m)[i] = [file |-> s, n |-> k + i]
<1>1. \A i \in 1..m : [file |-> s, n |-> k + i] \in Item
  BY DEF Item
<1>2. LineItems(s, k, m) \in [1..m -> Item]
  BY <1>1 DEF LineItems
<1>3. LineItems(s, k, m) \in Seq(Item)
  BY <1>2 
<1> QED
  BY <1>2, <1>3 DEF LineItems

\* Pushing the next m lines of s.
LEMMA CoversGrow ==
    ASSUME NEW q \in Seq(Item), NEW d \in [Sources -> Nat], NEW g \in [Sources -> Nat],
           NEW s \in Sources, NEW m \in Nat, Covers(q, d, g)
    PROVE  /\ q \o LineItems(s, g[s], m) \in Seq(Item)
           /\ Covers(q \o LineItems(s, g[s], m), d, [g EXCEPT ![s] = g[s] + m])
<1> DEFINE it == LineItems(s, g[s], m)
           r == q \o it
           h == [g EXCEPT ![s] = g[s] + m]
<1>a. \A t \in Sources : d[t] <= g[t]
  BY DEF Covers
<1>b. \A i \in 1..Len(q) : d[q[i].file] < q[i].n /\ q[i].n <= g[q[i].file]
  BY DEF Covers
<1>c. \A i, j \in 1..Len(q) : i < j /\ q[i].file = q[j].file => q[i].n < q[j].n
  BY DEF Covers
<1>d. \A t \in Sources : \A n \in (d[t] + 1)..g[t] :
         \E i \in 1..Len(q) : q[i] = [file |-> t, n |-> n]
  BY DEF Covers
<1>1. it \in Seq(Item) /\ Len(it) = m /\ \A i \in 1..m : it[i] = [file |-> s, n |-> g[s] + i]
  BY LineItemsType
<1> HIDE DEF it
<1>2. r \in Seq(Item) /\ Len(r) = Len(q) + m /\ Len(q) \in Nat
  BY <1>1, ConcatProperties, LenProperties
<1>3. \A i \in 1..Len(q) : r[i] = q[i]
  BY <1>1, ConcatProperties, LenProperties
<1>4. \A i \in (Len(q) + 1)..(Len(q) + m) : r[i] = [file |-> s, n |-> g[s] + (i - Len(q))]
  <2> SUFFICES ASSUME NEW i \in (Len(q) + 1)..(Len(q) + m)
               PROVE  r[i] = [file |-> s, n |-> g[s] + (i - Len(q))]
    OBVIOUS
  <2>1. i - Len(q) \in 1..m /\ i \in 1..(Len(q) + m) /\ i > Len(q)
    BY <1>2
  <2>2. r[i] = it[i - Len(q)]
    BY <1>1, <2>1, ConcatProperties
  <2> QED BY <1>1, <2>1, <2>2
<1>5. \A i \in 1..Len(q) : q[i].file \in Sources /\ q[i].n \in Nat
  <2>1. \A i \in 1..Len(q) : q[i] \in Item
    BY ElementOfSeq
  <2> QED BY <2>1 DEF Item
<1>6. h \in [Sources -> Nat] /\ h[s] = g[s] + m /\ \A t \in Sources : t # s => h[t] = g[t]
  OBVIOUS
<1> HIDE DEF r, h
<1>7. \A t \in Sources : d[t] <= h[t]
  BY <1>6, <1>a
<1>8. \A i \in 1..Len(r) : d[r[i].file] < r[i].n /\ r[i].n <= h[r[i].file]
  <2> SUFFICES ASSUME NEW i \in 1..Len(r)
               PROVE  d[r[i].file] < r[i].n /\ r[i].n <= h[r[i].file]
    OBVIOUS
  <2>1. CASE i \in 1..Len(q)
    <3>1. r[i] = q[i] /\ q[i].file \in Sources /\ q[i].n \in Nat
      BY <2>1, <1>3, <1>5
    <3>2. d[q[i].file] < q[i].n /\ q[i].n <= g[q[i].file]
      BY <2>1, <1>b
    <3>3. g[q[i].file] <= h[q[i].file] /\ h[q[i].file] \in Nat /\ g[q[i].file] \in Nat
      <4>1. CASE q[i].file = s
        BY <4>1, <1>6
      <4>2. CASE q[i].file # s
        BY <4>2, <3>1, <1>6
      <4> QED BY <4>1, <4>2
    <3> QED BY <3>1, <3>2, <3>3
  <2>2. CASE i \in (Len(q) + 1)..(Len(q) + m)
    <3>1. r[i].file = s /\ r[i].n = g[s] + (i - Len(q))
      <4>1. r[i] = [file |-> s, n |-> g[s] + (i - Len(q))]
        BY <2>2, <1>4
      <4> QED BY <4>1
    <3> QED BY <3>1, <2>2, <1>2, <1>6, <1>a
  <2> QED BY <2>1, <2>2, <1>2, <1>5
<1>9. \A i, j \in 1..Len(r) : i < j /\ r[i].file = r[j].file => r[i].n < r[j].n
  <2> SUFFICES ASSUME NEW i \in 1..Len(r), NEW j \in 1..Len(r), i < j, r[i].file = r[j].file
               PROVE  r[i].n < r[j].n
    OBVIOUS
  <2>1. CASE j \in 1..Len(q)
    <3>1. i \in 1..Len(q) /\ r[i] = q[i] /\ r[j] = q[j]
      BY <2>1, <1>2, <1>3
    <3> QED BY <3>1, <2>1, <1>c
  <2>2. CASE j \in (Len(q) + 1)..(Len(q) + m)
    <3>1. r[j].file = s /\ r[j].n = g[s] + (j - Len(q))
      <4>1. r[j] = [file |-> s, n |-> g[s] + (j - Len(q))]
        BY <2>2, <1>4
      <4> QED BY <4>1
    <3>2. CASE i \in 1..Len(q)
      <4>1. r[i] = q[i] /\ q[i].n <= g[q[i].file] /\ q[i].file = s
        BY <3>1, <3>2, <1>3, <1>b
      <4> QED BY <4>1, <3>1, <3>2, <2>2, <1>5
    <3>3. CASE i \in (Len(q) + 1)..(Len(q) + m)
      <4>1. r[i].n = g[s] + (i - Len(q))
        <5>1. r[i] = [file |-> s, n |-> g[s] + (i - Len(q))]
          BY <3>3, <1>4
        <5> QED BY <5>1
      <4> QED BY <4>1, <3>1, <3>3, <2>2, <1>5
    <3> QED BY <3>2, <3>3, <1>2, <1>5
  <2> QED BY <2>1, <2>2, <1>2, <1>5
<1>10. \A t \in Sources : \A n \in (d[t] + 1)..h[t] :
          \E i \in 1..Len(r) : r[i] = [file |-> t, n |-> n]
  <2> SUFFICES ASSUME NEW t \in Sources, NEW n \in (d[t] + 1)..h[t]
               PROVE  \E i \in 1..Len(r) : r[i] = [file |-> t, n |-> n]
    OBVIOUS
  <2>1. CASE n <= g[t]
    <3>1. PICK i \in 1..Len(q) : q[i] = [file |-> t, n |-> n]
      BY <2>1, <1>d
    <3>2. i \in 1..Len(r) /\ r[i] = q[i]
      BY <1>2, <1>3
    <3> QED BY <3>1, <3>2
  <2>2. CASE n > g[t]
    <3>1. t = s /\ n - g[s] \in 1..m
      BY <2>2, <1>6
    <3>2. Len(q) + (n - g[s]) \in (Len(q) + 1)..(Len(q) + m)
      BY <3>1, <1>5
    <3>3. r[Len(q) + (n - g[s])] = [file |-> s, n |-> g[s] + ((Len(q) + (n - g[s])) - Len(q))]
      BY <3>2, <1>4
    <3>4. g[s] + ((Len(q) + (n - g[s])) - Len(q)) = n
      BY <1>5
    <3>5. Len(q) + (n - g[s]) \in 1..Len(r)
      BY <3>2, <1>2, <1>5
    <3> QED BY <3>1, <3>3, <3>4, <3>5
  <2> QED BY <2>1, <2>2
<1> QED
  BY <1>2, <1>7, <1>8, <1>9, <1>10 DEF Covers, r, h, it

\* Pushing the next line of s.
LEMMA CoversAppend ==
    ASSUME NEW q \in Seq(Item), NEW d \in [Sources -> Nat], NEW g \in [Sources -> Nat],
           NEW s \in Sources, Covers(q, d, g)
    PROVE  /\ Append(q, [file |-> s, n |-> g[s] + 1]) \in Seq(Item)
           /\ Covers(Append(q, [file |-> s, n |-> g[s] + 1]), d, [g EXCEPT ![s] = g[s] + 1])
<1> DEFINE it == LineItems(s, g[s], 1)
<1>1. it \in Seq(Item) /\ Len(it) = 1 /\ it[1] = [file |-> s, n |-> g[s] + 1]
  <2>1. 1 \in Nat /\ g[s] \in Nat /\ 1 \in 1..1
    OBVIOUS
  <2> QED BY <2>1, LineItemsType
<1> HIDE DEF it
<1>2. q \o it = Append(q, [file |-> s, n |-> g[s] + 1])
  <2>1. it = <<[file |-> s, n |-> g[s] + 1]>>
    BY <1>1
  <2>2. [file |-> s, n |-> g[s] + 1] \in Item
    BY DEF Item
  <2> QED BY <2>1, <2>2, AppendIsConcat
<1>3. q \o it \in Seq(Item) /\ Covers(q \o it, d, [g EXCEPT ![s] = g[s] + 1])
  BY CoversGrow DEF it
<1> QED BY <1>2, <1>3

\* Handing over the head.
LEMMA CoversTail ==
    ASSUME NEW q \in Seq(Item), NEW d \in [Sources -> Nat], NEW g \in [Sources -> Nat],
           q # <<>>, Covers(q, d, g)
    PROVE  /\ Head(q).file \in Sources
           /\ Head(q).n = d[Head(q).file] + 1
           /\ Tail(q) \in Seq(Item)
           /\ Covers(Tail(q), [d EXCEPT ![Head(q).file] = Head(q).n], g)
<1> DEFINE s == Head(q).file
           e == [d EXCEPT ![s] = Head(q).n]
           r == Tail(q)
<1>a. \A t \in Sources : d[t] <= g[t]
  BY DEF Covers
<1>b. \A i \in 1..Len(q) : d[q[i].file] < q[i].n /\ q[i].n <= g[q[i].file]
  BY DEF Covers
<1>c. \A i, j \in 1..Len(q) : i < j /\ q[i].file = q[j].file => q[i].n < q[j].n
  BY DEF Covers
<1>d. \A t \in Sources : \A n \in (d[t] + 1)..g[t] :
         \E i \in 1..Len(q) : q[i] = [file |-> t, n |-> n]
  BY DEF Covers
<1>1. Len(q) \in Nat /\ Len(q) > 0 /\ Head(q) = q[1] /\ q[1] \in Item
  OBVIOUS
<1>2. s \in Sources /\ q[1].n \in Nat /\ q[1].file = s
  BY <1>1 DEF Item
<1>3. r \in Seq(Item) /\ Len(r) = Len(q) - 1 /\ \A i \in 1..Len(r) : r[i] = q[i + 1]
  BY <1>1
<1>4. \A i \in 1..Len(q) : q[i].file \in Sources /\ q[i].n \in Nat
  <2>1. \A i \in 1..Len(q) : q[i] \in Item
    BY ElementOfSeq
  <2> QED BY <2>1 DEF Item
<1> HIDE DEF s, r
<1>5. q[1].n = d[s] + 1
  <2>1. d[s] < q[1].n /\ q[1].n <= g[s]
    BY <1>1, <1>2, <1>b
  <2>2. d[s] + 1 \in (d[s] + 1)..g[s]
    BY <2>1, <1>2
  <2>3. PICK i \in 1..Len(q) : q[i] = [file |-> s, n |-> d[s] + 1]
    BY <2>2, <1>2, <1>d
  <2>4. i # 1 => q[1].n < q[i].n
    <3>1. q[i].file = q[1].file /\ 1 \in 1..Len(q) /\ (i # 1 => 1 < i)
      BY <2>3, <1>1, <1>2
    <3> QED BY <3>1, <1>c
  <2> QED BY <2>1, <2>3, <2>4, <1>2
<1>6. e \in [Sources -> Nat] /\ e[s] = d[s] + 1 /\ \A t \in Sources : t # s => e[t] = d[t]
  BY <1>1, <1>2, <1>5
<1> HIDE DEF e
<1>7. \A t \in Sources : e[t] <= g[t]
  BY <1>1, <1>2, <1>5, <1>6, <1>a, <1>b
<1>8. \A i \in 1..Len(r) : e[r[i].file] < r[i].n /\ r[i].n <= g[r[i].file]
  <2> SUFFICES ASSUME NEW i \in 1..Len(r)
               PROVE  e[r[i].file] < r[i].n /\ r[i].n <= g[r[i].file]
    OBVIOUS
  <2>1. i + 1 \in 1..Len(q) /\ r[i] = q[i + 1] /\ 1 < i + 1
    BY <1>1, <1>3
  <2>2. r[i].file = s => q[1].n < r[i].n
    <3>1. 1 \in 1..Len(q) /\ q[1].file = s
      BY <1>1, <1>2
    <3>2. q[1].file = q[i + 1].file => q[1].n < q[i + 1].n
      BY <2>1, <3>1, <1>c
    <3> QED BY <2>1, <3>1, <3>2
  <2> QED BY <2>1, <2>2, <1>2, <1>4, <1>5, <1>6, <1>b
<1>9. \A i, j \in 1..Len(r) : i < j /\ r[i].file = r[j].file => r[i].n < r[j].n
  <2> SUFFICES ASSUME NEW i \in 1..Len(r), NEW j \in 1..Len(r), i < j, r[i].file = r[j].file
               PROVE  r[i].n < r[j].n
    OBVIOUS
  <2>1. i + 1 \in 1..Len(q) /\ j + 1 \in 1..Len(q) /\ i + 1 < j + 1
    BY <1>1, <1>3
  <2> QED BY <2>1, <1>3, <1>c
<1>10. \A t \in Sources : \A n \in (e[t] + 1)..g[t] :
          \E i \in 1..Len(r) : r[i] = [file |-> t, n |-> n]
  <2> SUFFICES ASSUME NEW t \in Sources, NEW n \in (e[t] + 1)..g[t]
               PROVE  \E i \in 1..Len(r) : r[i] = [file |-> t, n |-> n]
    OBVIOUS
  <2>1. n \in (d[t] + 1)..g[t] /\ (t = s => n # q[1].n)
    BY <1>5, <1>6, <1>2
  <2>2. PICK k \in 1..Len(q) : q[k] = [file |-> t, n |-> n]
    BY <2>1, <1>d
  <2>3. k # 1
    BY <2>1, <2>2, <1>2
  <2>4. k - 1 \in 1..Len(r) /\ (k - 1) + 1 = k
    BY <2>3, <1>1, <1>3
  <2> QED BY <2>2, <2>4, <1>3
<1> QED
  BY <1>1, <1>2, <1>3, <1>5, <1>7, <1>8, <1>9, <1>10 DEF Covers, s, r, e

-----------------------------------------------------------------------------
(* What a read and a drain of the events file do.                          *)

LEMMA GotType == TypeOK /\ BufferInv /\ ControlInv => Got \in [Sources -> Nat]
<1> SUFFICES ASSUME TypeOK, BufferInv, ControlInv, NEW s \in Sources
             PROVE  Got[s] \in Nat
  BY DEF Got
<1>1. CASE s = Fd3
  BY <1>1 DEF Got, TypeOK, ReadTypeOK, ControlInv
<1>2. CASE s # Fd3
  <2>1. s \in Files
    BY <1>2 DEF Sources
  <2>2. pos[s] \in Nat /\ buf[s] \in Nat /\ buf[s] <= pos[s]
    BY <2>1 DEF TypeOK, ReadTypeOK, BufferInv
  <2>3. (pos[s] - buf[s] + 1) \div 2 \in Nat
    BY <2>2
  <2> QED BY <1>2, <2>3 DEF Got
<1> QED BY <1>1, <1>2

\* A read keeps the file's position, buffer and queued lines in step.
LEMMA ReadEffect ==
    ASSUME TypeOK, BufferInv, ControlInv, QueueInv,
           NEW f \in Files, ~Flushed(f), pos[f] <= size[f],
           NEW n \in Readable(f), ReadTokens(f, n),
           UNCHANGED <<fd3n, fd3Pending>>
    PROVE  /\ pos' \in [Files -> 0..MaxTokens] /\ buf' \in [Files -> 0..1]
           /\ queue' \in Seq(Item) /\ stall' \in [Files -> 0..MaxStall]
           /\ \A g \in Files : g # f => pos'[g] = pos[g] /\ buf'[g] = buf[g] /\ stall'[g] = stall[g]
           /\ pos'[f] = pos[f] + n /\ pos'[f] <= size[f]
           /\ buf'[f] <= pos'[f] /\ (pos'[f] - buf'[f]) % 2 = 0
           /\ n = 0 /\ pos[f] < size[f] => stall'[f] = stall[f] + 1
           /\ Covers(queue', delivered, Got')
<1>1. /\ pos[f] \in Nat /\ buf[f] \in Nat /\ size[f] \in Nat /\ size[f] <= MaxTokens
      /\ pos \in [Files -> 0..MaxTokens] /\ buf \in [Files -> 0..1]
      /\ stall \in [Files -> 0..MaxStall] /\ MaxTokens \in Nat /\ MaxStall \in Nat
  <2>1. /\ pos \in [Files -> 0..MaxTokens] /\ buf \in [Files -> 0..1]
        /\ stall \in [Files -> 0..MaxStall] /\ size \in [Files -> 0..MaxTokens]
    BY DEF TypeOK, ReadTypeOK, DiskTypeOK
  <2>2. MaxTokens \in Nat /\ MaxStall \in Nat
    BY BoundsAssumption, SettleAssumption
  <2>3. pos[f] \in 0..MaxTokens /\ buf[f] \in 0..1 /\ size[f] \in 0..MaxTokens
    BY <2>1
  <2> QED BY <2>1, <2>2, <2>3
<1>2. n \in Nat /\ pos[f] + n <= size[f] /\ (n = 0 /\ pos[f] < size[f] => stall[f] < MaxStall)
  BY <1>1 DEF Readable
<1>3. buf[f] <= pos[f] /\ (pos[f] - buf[f]) % 2 = 0
  BY DEF BufferInv
<1> DEFINE m == (buf[f] + n) \div 2
           r == (buf[f] + n) % 2
           k == (pos[f] - buf[f]) \div 2
<1>4. /\ k \in Nat /\ m \in Nat /\ r \in 0..1 /\ r <= pos[f] + n
      /\ ((pos[f] + n) - r) % 2 = 0
      /\ (pos[f] - buf[f] + 1) \div 2 = k
      /\ ((pos[f] + n) - r + 1) \div 2 = k + m
  <2>1. pos[f] \in Nat /\ buf[f] \in Nat /\ n \in Nat /\ buf[f] <= pos[f] /\ (pos[f] - buf[f]) % 2 = 0
    BY <1>1, <1>2, <1>3
  <2>2. HeldBack(pos[f], buf[f], n)
    BY ONLY <2>1, Halves
  <2>3. k \in Nat /\ m \in Nat
    BY ONLY <2>2 DEF HeldBack, k, m
  <2>4. r \in 0..1 /\ r <= pos[f] + n
    BY ONLY <2>2 DEF HeldBack, r
  <2>5. ((pos[f] + n) - r) % 2 = 0
    BY ONLY <2>2 DEF HeldBack, r
  <2>6. (pos[f] - buf[f] + 1) \div 2 = k
    BY ONLY <2>2 DEF HeldBack, k
  <2>7. ((pos[f] + n) - r + 1) \div 2 = k + m
    BY ONLY <2>2 DEF HeldBack, k, m, r
  <2> HIDE DEF k, m, r
  <2> QED BY ONLY <2>3, <2>4, <2>5, <2>6, <2>7
<1>5. /\ pos' = [pos EXCEPT ![f] = pos[f] + n] /\ buf' = [buf EXCEPT ![f] = r]
      /\ queue' = queue \o LineItems(f, k, m)
      /\ stall' = [stall EXCEPT ![f] = IF n = 0 /\ size[f] > pos[f] THEN stall[f] + 1 ELSE 0]
  BY DEF ReadTokens, Before, Remainder
<1> HIDE DEF m, r, k
<1>6. /\ pos' \in [Files -> 0..MaxTokens] /\ buf' \in [Files -> 0..1]
      /\ stall' \in [Files -> 0..MaxStall]
  <2>1. pos[f] + n \in 0..MaxTokens /\ r \in 0..1
    BY <1>1, <1>2, <1>4
  <2>2. (IF n = 0 /\ size[f] > pos[f] THEN stall[f] + 1 ELSE 0) \in 0..MaxStall
    <3>1. stall[f] \in 0..MaxStall
      BY <1>1
    <3> QED BY <1>1, <1>2, <3>1
  <2>3. pos' \in [Files -> 0..MaxTokens] /\ buf' \in [Files -> 0..1]
    BY <2>1, <1>1, <1>5
  <2> QED BY <2>2, <2>3, <1>1, <1>5
<1>7. /\ \A g \in Files : g # f => pos'[g] = pos[g] /\ buf'[g] = buf[g] /\ stall'[g] = stall[g]
      /\ pos'[f] = pos[f] + n /\ buf'[f] = r
      /\ n = 0 /\ pos[f] < size[f] => stall'[f] = stall[f] + 1
  BY <1>1, <1>2, <1>5
<1>8. Got \in [Sources -> Nat] /\ queue \in Seq(Item) /\ delivered \in [Sources -> Nat]
  BY GotType DEF TypeOK, ReadTypeOK
<1>9. f \in Sources /\ f # Fd3 /\ Got[f] = k
  <2>1. f \in Sources /\ f # Fd3
    BY SourcesAssumption DEF Files, Sources
  <2> QED BY <2>1, <1>4 DEF Got
<1>10. Got' = [Got EXCEPT ![f] = Got[f] + m]
  <2>1. \A s \in Sources : s # f => Got'[s] = Got[s]
    <3> SUFFICES ASSUME NEW s \in Sources, s # f PROVE Got'[s] = Got[s]
      OBVIOUS
    <3>1. CASE s = Fd3
      BY <3>1 DEF Got
    <3>2. CASE s # Fd3
      <4>1. s \in Files
        BY <3>2 DEF Sources
      <4> QED BY <4>1, <3>2, <1>7 DEF Got
    <3> QED BY <3>1, <3>2
  <2>2. Got'[f] = k + m
    <3>1. Got'[f] = (pos'[f] - buf'[f] + 1) \div 2
      BY <1>9 DEF Got
    <3> QED BY <3>1, <1>4, <1>7
  <2>3. Got' = [s \in Sources |-> Got'[s]]
    BY DEF Got
  <2> QED BY <2>1, <2>2, <2>3, <1>8, <1>9
<1>11. queue' \in Seq(Item) /\ Covers(queue', delivered, Got')
  <2>1. queue' = queue \o LineItems(f, Got[f], m)
    BY <1>5, <1>9
  <2> QED BY <2>1, <1>4, <1>8, <1>9, <1>10, CoversGrow DEF QueueInv
<1> QED
  BY <1>1, <1>2, <1>4, <1>6, <1>7, <1>11

\* What a call of drainEventsFile keeps, and what it means that it recorded nothing.
DrainedTypes ==
    /\ pos' \in [Files -> 0..MaxTokens] /\ buf' \in [Files -> 0..1]
    /\ queue' \in Seq(Item) /\ stall' \in [Files -> 0..MaxStall]
    /\ GateTypeOK'
DrainedFiles ==
    /\ \A g \in PidFiles : pos'[g] = pos[g] /\ buf'[g] = buf[g] /\ stall'[g] = stall[g]
    /\ pos[Events] <= pos'[Events] /\ pos'[Events] <= maxSeen'
    /\ buf'[Events] <= pos'[Events] /\ (pos'[Events] - buf'[Events]) % 2 = 0
DrainedClean(first) ==
    tamper' = "none" =>
        /\ first = "none" /\ evId = "same" /\ ~mtimeBack /\ pos'[Events] <= size[Events]
        /\ pos'[Events] = pos[Events] /\ pos[Events] < size[Events] =>
             stall'[Events] = stall[Events] + 1

\* A call of drainEventsFile in the main phase or the settle loop.
LEMMA DrainEffect ==
    ASSUME TypeOK, ControlInv, DiskInv, BufferInv, QueueInv, phase # "done",
           NEW first \in Reasons \cup {"none"}, drainEventsFile(first),
           UNCHANGED <<fd3n, fd3Pending>>
    PROVE  /\ DrainedTypes /\ DrainedFiles /\ DrainedClean(first)
           /\ Covers(queue', delivered, Got')
<1>1. Events \in Files /\ \A g \in PidFiles : g \in Files /\ g # Events
  BY SourcesAssumption DEF Files
<1>2. ~Flushed(Events)
  BY SourcesAssumption DEF Flushed
<1>3. /\ pos \in [Files -> 0..MaxTokens] /\ buf \in [Files -> 0..1]
      /\ queue \in Seq(Item) /\ stall \in [Files -> 0..MaxStall]
      /\ size \in [Files -> 0..MaxTokens] /\ GateTypeOK
  BY DEF TypeOK, ReadTypeOK, DiskTypeOK
<1>4. pos[Events] \in Nat /\ size[Events] \in 0..MaxTokens /\ pos[Events] <= maxSeen
      /\ MaxTokens \in Nat
  BY <1>1, <1>3, BoundsAssumption DEF DiskInv
<1>5. buf[Events] <= pos[Events] /\ (pos[Events] - buf[Events]) % 2 = 0
  BY <1>1, <1>2 DEF BufferInv
<1>6. Covers(queue, delivered, Got)
  BY DEF QueueInv
<1>7. ASSUME UNCHANGED readVars PROVE Got' = Got
  BY <1>7 DEF Got, readVars
<1>8. CASE EventsRefused(first)
  <2>1. UNCHANGED <<readVars, statted, ctimeNew, mtimeNew, ctimeStrikes, mtimeStrikes, pendingCtime>>
    BY <1>8 DEF EventsRefused
  <2>2. tamper' \in Reasons /\ tamper' # "none"
    BY <1>8 DEF EventsRefused, recordTamper, Reasons
  <2>3. maxSeen' \in 0..MaxTokens /\ pos[Events] <= maxSeen'
    BY <1>8, <1>3, <1>4 DEF EventsRefused, GateTypeOK
  <2>4. DrainedTypes
    BY <2>1, <2>2, <2>3, <1>3 DEF DrainedTypes, GateTypeOK, readVars
  <2>5. DrainedFiles
    BY <2>1, <2>3, <1>3, <1>4, <1>5 DEF DrainedFiles, readVars
  <2>6. DrainedClean(first)
    BY <2>2 DEF DrainedClean
  <2>7. Covers(queue', delivered, Got')
    BY <2>1, <1>6, <1>7 DEF readVars
  <2> QED BY <2>4, <2>5, <2>6, <2>7
<1>9. CASE EventsAccepted(first)
  <2>1. evId = "same" /\ ~mtimeBack /\ size[Events] >= maxSeen /\ maxSeen' = size[Events]
        /\ maxSeen \in Nat /\ pos[Events] <= size[Events]
    BY <1>9, <1>3, <1>4 DEF EventsAccepted, GateTypeOK
  <2>2. ctimeStrikes' \in 0..META_ADVANCE_REQUIRED_POLLS
        /\ (ctimeStrikes' = META_ADVANCE_REQUIRED_POLLS => NoNewBytes)
    <3>1. ctimeStrikes' = Strike(ctimeNew /\ NoNewBytes, ctimeStrikes)
      BY <1>9 DEF EventsAccepted
    <3> QED BY <3>1, <1>3 DEF Strike, GateTypeOK, META_ADVANCE_REQUIRED_POLLS
  <2>3. CASE ctimeStrikes' = META_ADVANCE_REQUIRED_POLLS
    <3>1. UNCHANGED <<readVars, statted, ctimeNew, mtimeNew, mtimeStrikes>>
          /\ pendingCtime' = TRUE /\ tamper' = first
      BY <1>9, <2>3 DEF EventsAccepted
    <3>2. DrainedTypes
      BY <3>1, <2>1, <2>2, <1>3, <1>4 DEF DrainedTypes, GateTypeOK, readVars
    <3>3. DrainedFiles
      BY <3>1, <2>1, <1>3, <1>4, <1>5 DEF DrainedFiles, readVars
    <3>4. size[Events] = pos[Events]
      BY <2>2, <2>3 DEF NoNewBytes
    <3>5. DrainedClean(first)
      BY <3>1, <3>4, <2>1, <1>4 DEF DrainedClean, readVars
    <3>6. Covers(queue', delivered, Got')
      BY <3>1, <1>6, <1>7 DEF readVars
    <3> QED BY <3>2, <3>3, <3>5, <3>6
  <2>4. CASE ctimeStrikes' # META_ADVANCE_REQUIRED_POLLS
    <3>1. mtimeStrikes' = Strike(statted /\ mtimeNew /\ NoNewBytes, mtimeStrikes)
          /\ UNCHANGED pendingCtime
      BY <1>9, <2>4 DEF EventsAccepted
    <3>2. mtimeStrikes' \in 0..META_ADVANCE_REQUIRED_POLLS
      BY <3>1, <1>3 DEF Strike, GateTypeOK, META_ADVANCE_REQUIRED_POLLS
    <3>3. CASE mtimeStrikes' = META_ADVANCE_REQUIRED_POLLS
      <4>1. recordTamper(first, "mtime") /\ UNCHANGED <<readVars, statted, ctimeNew, mtimeNew>>
        BY <1>9, <2>4, <3>3 DEF EventsAccepted
      <4>2. tamper' \in Reasons /\ tamper' # "none"
        BY <4>1 DEF recordTamper, Reasons
      <4>3. DrainedTypes
        BY <4>1, <4>2, <3>1, <3>2, <2>1, <2>2, <1>3, <1>4 DEF DrainedTypes, GateTypeOK, readVars
      <4>4. DrainedFiles
        BY <4>1, <2>1, <1>3, <1>4, <1>5 DEF DrainedFiles, readVars
      <4>5. DrainedClean(first)
        BY <4>2 DEF DrainedClean
      <4>6. Covers(queue', delivered, Got')
        BY <4>1, <1>6, <1>7 DEF readVars
      <4> QED BY <4>3, <4>4, <4>5, <4>6
    <3>4. CASE mtimeStrikes' # META_ADVANCE_REQUIRED_POLLS
      <4>1. PICK n \in Readable(Events) : ReadTokens(Events, n) /\ ctimeNew' = (ctimeNew /\ n = 0)
        BY <1>9, <2>4, <3>4 DEF EventsAccepted
      <4>2. mtimeNew' = FALSE /\ statted' = TRUE /\ tamper' = first
        BY <1>9, <2>4, <3>4 DEF EventsAccepted
      <4>3. n \in Nat
        BY <1>3, <1>4 DEF Readable
      <4>4. /\ pos' \in [Files -> 0..MaxTokens] /\ buf' \in [Files -> 0..1]
            /\ queue' \in Seq(Item) /\ stall' \in [Files -> 0..MaxStall]
            /\ \A g \in Files : g # Events => pos'[g] = pos[g] /\ buf'[g] = buf[g] /\ stall'[g] = stall[g]
            /\ pos'[Events] = pos[Events] + n /\ pos'[Events] <= size[Events]
            /\ buf'[Events] <= pos'[Events] /\ (pos'[Events] - buf'[Events]) % 2 = 0
            /\ n = 0 /\ pos[Events] < size[Events] => stall'[Events] = stall[Events] + 1
            /\ Covers(queue', delivered, Got')
        BY <4>1, <2>1, <1>1, <1>2, ReadEffect
      <4>5. DrainedTypes
        <5>1. ctimeNew' \in BOOLEAN
          BY <4>1
        <5> QED
          BY <4>4, <4>2, <3>1, <3>2, <2>1, <2>2, <1>3, <1>4, <5>1 DEF DrainedTypes, GateTypeOK
      <4>6. DrainedFiles
        BY <4>3, <4>4, <2>1, <1>1, <1>4 DEF DrainedFiles
      <4>7. DrainedClean(first)
        <5>1. pos'[Events] = pos[Events] => n = 0
          BY <4>3, <4>4, <1>4
        <5> QED BY <4>2, <4>4, <5>1, <2>1 DEF DrainedClean
      <4> QED BY <4>4, <4>5, <4>6, <4>7
    <3> QED BY <3>3, <3>4
  <2> QED BY <2>3, <2>4
<1> QED
  BY <1>8, <1>9 DEF drainEventsFile

\* The same for the four actions that call it.
Drains == Tick \/ SettlePass \/ EventsChanged \/ EventsRenamed
LEMMA DrainActions ==
    ASSUME IInv, Drains
    PROVE  DrainedTypes /\ DrainedFiles /\ DrainedClean(tamper) /\ Covers(queue', delivered, Got')
<1>1. phase # "done" /\ UNCHANGED <<fd3n, fd3Pending>>
  BY DEF Drains, Tick, SettlePass, EventsChanged, EventsRenamed, fd3Vars
<1>2. tamper \in Reasons \cup {"none"} /\ "renamed" \in Reasons
  BY DEF IInv, TypeOK, GateTypeOK, Reasons
<1>3. CASE drainEventsFile(tamper)
  BY <1>1, <1>2, <1>3, DrainEffect DEF IInv
<1>4. CASE EventsRenamed
  <2>1. PICK first \in Reasons : drainEventsFile(first)
    <3>1. (IF tamper = "none" THEN "renamed" ELSE tamper) \in Reasons
      BY <1>2
    <3> QED BY <3>1, <1>4 DEF EventsRenamed
  <2>2. first # "none" /\ first \in Reasons \cup {"none"}
    BY DEF Reasons
  <2>3. DrainedTypes /\ DrainedFiles /\ DrainedClean(first) /\ Covers(queue', delivered, Got')
    BY <2>1, <2>2, <1>1, DrainEffect DEF IInv
  <2> QED BY <2>2, <2>3 DEF DrainedClean
<1> QED
  BY <1>3, <1>4 DEF Drains, Tick, SettlePass, EventsChanged

\* What those four leave alone.
LEMMA DrainControl ==
    ASSUME IInv, Drains
    PROVE  /\ phase # "done" /\ cb = "idle" /\ cb' \in {"idle", "tick", "settle"}
           /\ cb' = "settle" => phase = "settle" /\ left' = PidFiles
           /\ left' \in {left, PidFiles}
           /\ UNCHANGED <<phase, childExited, quiet, prev, exit, size, evId, lag, mtimeBack,
                          disturbed, lost, delivered, fd3n, fd3Pending, fd3Closed>>
           /\ ~renamed => drainEventsFile(tamper) /\ renamed' = renamed
           /\ renamed' \in {FALSE, renamed}
           /\ consumer \notin {"unstarted", "finished"}
           /\ consumer' \in {consumer, Awake} /\ (queue' # queue => consumer' = Awake)
<1>1. CASE Tick \/ SettlePass \/ EventsChanged
  BY <1>1 DEF Tick, SettlePass, EventsChanged, Idle, wake, WakeIfQueued, loopVars, diskVars, fd3Vars
<1>2. CASE EventsRenamed
  BY <1>2 DEF EventsRenamed, Idle, wake, loopVars, diskVars, fd3Vars
<1> QED
  BY <1>1, <1>2 DEF Drains

\* What reading one per-pid file does.
ReadDone(f, n) ==
    /\ pos' \in [Files -> 0..MaxTokens] /\ buf' \in [Files -> 0..1]
    /\ queue' \in Seq(Item) /\ stall' \in [Files -> 0..MaxStall]
    /\ \A g \in Files : g # f => pos'[g] = pos[g] /\ buf'[g] = buf[g] /\ stall'[g] = stall[g]
    /\ pos'[f] = pos[f] + n /\ pos'[f] <= size[f]
    /\ buf'[f] <= pos'[f] /\ (pos'[f] - buf'[f]) % 2 = 0
    /\ n = 0 /\ pos[f] < size[f] => stall'[f] = stall[f] + 1
    /\ Covers(queue', delivered, Got')
    /\ left' = left \ {f}

LEMMA ReadAction ==
    ASSUME IInv, DrainPidFile
    PROVE  \E f \in left : \E n \in Nat : ReadDone(f, n)
<1>1. PICK f \in left : /\ \E n \in Readable(f) : ReadTokens(f, n)
                        /\ left' = left \ {f}
  BY DEF DrainPidFile
<1>2. PICK n \in Readable(f) : ReadTokens(f, n)
  BY <1>1
<1>3. f \in PidFiles /\ f \in Files
  BY DEF IInv, TypeOK, LoopTypeOK, Files
<1>4. ~Flushed(f) /\ UNCHANGED <<fd3n, fd3Pending>>
  BY DEF DrainPidFile, Flushed, IInv, ControlInv, fd3Vars
<1>5. pos[f] <= size[f]
  BY <1>3 DEF IInv, DiskInv
<1>6. n \in Nat
  <2>1. pos[f] \in Nat /\ size[f] \in Nat
    BY <1>3, BoundsAssumption DEF IInv, TypeOK, ReadTypeOK, DiskTypeOK
  <2> QED BY <2>1 DEF Readable
<1>7. ReadDone(f, n)
  BY <1>1, <1>2, <1>3, <1>4, <1>5, ReadEffect DEF IInv, ReadDone
<1> QED
  BY <1>6, <1>7

-----------------------------------------------------------------------------
(* Every action keeps each part of the invariant.                          *)

\* What handing over a partial line returns.
LEMMA FlushType ==
    ASSUME TypeOK, BufferInv, NEW f \in Files, Flush(f)
    PROVE  queue' \in Seq(Item) /\ buf' \in [Files -> 0..1]
<1>1. pos[f] \in Nat /\ buf[f] \in Nat /\ buf[f] <= pos[f]
  <2>1. pos \in [Files -> 0..MaxTokens] /\ buf \in [Files -> 0..1]
    BY DEF TypeOK, ReadTypeOK
  <2>2. buf[f] <= pos[f]
    BY DEF BufferInv
  <2> QED BY <2>1, <2>2, BoundsAssumption
<1>2. (pos[f] - buf[f]) \div 2 \in Nat
  BY <1>1
<1>3. [file |-> f, n |-> Before(f) + 1] \in Item
  BY <1>2 DEF Item, Before, Sources
<1> QED
  BY <1>3 DEF Flush, TypeOK, ReadTypeOK

\* The traced processes' state keeps its type; the reads keep stall's.
LEMMA DiskTypeOKStep == IInv /\ [Next]_vars => DiskTypeOK'
<1> SUFFICES ASSUME IInv, [Next]_vars PROVE DiskTypeOK'
  OBVIOUS
<1>1. CASE UNCHANGED vars
  BY <1>1 DEF vars, diskVars, readVars, gateVars, loopVars, fd3Vars, IInv, TypeOK, DiskTypeOK
<1>2. CASE \E f \in PidFiles : StraceWrites(f)
  BY <1>2, BoundsAssumption DEF StraceWrites, TypeOK, DiskTypeOK, IInv, readVars, Files
<1>3. CASE ShimStamps
  BY <1>3 DEF ShimStamps, diskVars, readVars, gateVars, loopVars, fd3Vars, IInv, TypeOK,
     DiskTypeOK
<1>4. CASE ShimWrites
  <2>1. size[Events] < MaxTokens /\ Events \in Files /\ size \in [Files -> 0..MaxTokens]
    BY <1>4 DEF ShimWrites, TypeOK, DiskTypeOK, IInv, DiskInv, Files
  <2>2. size' \in [Files -> 0..MaxTokens]
    BY <1>4, <2>1, BoundsAssumption DEF ShimWrites
  <2> QED BY <1>4, <2>2 DEF ShimWrites, TypeOK, DiskTypeOK, IInv, readVars
<1>5. CASE CtimeSettles
  BY <1>5 DEF CtimeSettles, diskVars, readVars, gateVars, loopVars, fd3Vars, IInv, TypeOK,
     DiskTypeOK
<1>6. CASE EventsDisturbed
  <2>1. size \in [Files -> 0..MaxTokens] /\ lost \in BOOLEAN
    BY DEF IInv, TypeOK, DiskTypeOK
  <2>2. size' \in [Files -> 0..MaxTokens]
    BY <1>6, <2>1 DEF EventsDisturbed, EventsRewritten
  <2>3. lost' \in BOOLEAN
    BY <1>6, <2>1 DEF EventsDisturbed, EventsRewritten
  <2> QED BY <1>6, <2>2, <2>3 DEF EventsDisturbed, TypeOK, DiskTypeOK, IInv, readVars
<1>7. CASE StraceExits
  BY <1>7 DEF StraceExits, diskVars, readVars, gateVars, loopVars, fd3Vars, IInv, TypeOK,
     DiskTypeOK
<1>8. CASE Drains
  <2>1. DrainedTypes /\ DrainedFiles /\ DrainedClean(tamper) /\ Covers(queue', delivered, Got')
    BY <1>8, DrainActions
  <2> QED BY <1>8, <2>1, DrainControl DEF DrainedTypes, IInv, TypeOK, DiskTypeOK
<1>9. CASE ExitHandler
  BY <1>9 DEF ExitHandler, diskVars, readVars, gateVars, loopVars, fd3Vars, IInv, TypeOK,
     DiskTypeOK
<1>10. CASE DrainPidFile
  <2>1. PICK f \in left, n \in Nat : ReadDone(f, n)
    BY <1>10, ReadAction
  <2> QED BY <1>10, <2>1 DEF DrainPidFile, ReadDone, IInv, TypeOK, DiskTypeOK, diskVars
<1>11. CASE EndTick
  BY <1>11 DEF EndTick, diskVars, readVars, gateVars, loopVars, fd3Vars, IInv, TypeOK, DiskTypeOK
<1>12. CASE EndSettlePass
  BY <1>12 DEF EndSettlePass, diskVars, readVars, gateVars, loopVars, fd3Vars, IInv, TypeOK,
     DiskTypeOK
<1>13. CASE FlushPidFile
  BY <1>13 DEF FlushPidFile, diskVars, readVars, gateVars, loopVars, fd3Vars, IInv, TypeOK,
     DiskTypeOK
<1>14. CASE FinishTail
  BY <1>14 DEF FinishTail, diskVars, readVars, gateVars, loopVars, fd3Vars, IInv, TypeOK,
     DiskTypeOK
<1>15. CASE Fd3Line
  BY <1>15 DEF Fd3Line, diskVars, readVars, gateVars, loopVars, fd3Vars, IInv, TypeOK, DiskTypeOK
<1>16. CASE Fd3Close
  BY <1>16 DEF Fd3Close, diskVars, readVars, gateVars, loopVars, fd3Vars, IInv, TypeOK, DiskTypeOK
<1>17. CASE StartTailer
  BY <1>17 DEF StartTailer, diskVars, readVars, gateVars, loopVars, fd3Vars, IInv, TypeOK,
     DiskTypeOK
<1>18. CASE Yield
  BY <1>18 DEF Yield, diskVars, readVars, gateVars, loopVars, fd3Vars, IInv, TypeOK, DiskTypeOK
<1>19. CASE ParkOrReturn
  BY <1>19 DEF ParkOrReturn, diskVars, readVars, gateVars, loopVars, fd3Vars, IInv, TypeOK,
     DiskTypeOK
<1>20. CASE Returned
  BY <1>20 DEF Returned, vars, diskVars, readVars, gateVars, loopVars, fd3Vars, IInv, TypeOK,
     DiskTypeOK
<1> QED
  BY <1>1, <1>2, <1>3, <1>4, <1>5, <1>6, <1>7, <1>8, <1>9, <1>10, <1>11, <1>12, <1>13, <1>14,
     <1>15, <1>16, <1>17, <1>18, <1>19, <1>20 DEF Next, Traced, Tailer, InCallback, Drains

\* Positions, buffers and the queue keep their types.
LEMMA ReadTypeOKStep == IInv /\ [Next]_vars => ReadTypeOK'
<1> SUFFICES ASSUME IInv, [Next]_vars PROVE ReadTypeOK'
  OBVIOUS
<1>1. CASE UNCHANGED vars
  BY <1>1 DEF vars, diskVars, readVars, gateVars, loopVars, fd3Vars, IInv, TypeOK, ReadTypeOK
<1>2. CASE \E f \in PidFiles : StraceWrites(f)
  BY <1>2 DEF StraceWrites, diskVars, readVars, gateVars, loopVars, fd3Vars, IInv, TypeOK,
     ReadTypeOK
<1>3. CASE ShimStamps
  BY <1>3 DEF ShimStamps, diskVars, readVars, gateVars, loopVars, fd3Vars, IInv, TypeOK,
     ReadTypeOK
<1>4. CASE ShimWrites
  BY <1>4 DEF ShimWrites, diskVars, readVars, gateVars, loopVars, fd3Vars, IInv, TypeOK,
     ReadTypeOK
<1>5. CASE CtimeSettles
  BY <1>5 DEF CtimeSettles, diskVars, readVars, gateVars, loopVars, fd3Vars, IInv, TypeOK,
     ReadTypeOK
<1>6. CASE EventsDisturbed
  BY <1>6 DEF EventsDisturbed, diskVars, readVars, gateVars, loopVars, fd3Vars, IInv, TypeOK,
     ReadTypeOK
<1>7. CASE StraceExits
  BY <1>7 DEF StraceExits, diskVars, readVars, gateVars, loopVars, fd3Vars, IInv, TypeOK,
     ReadTypeOK
<1>8. CASE Drains
  <2>1. DrainedTypes /\ DrainedFiles /\ DrainedClean(tamper) /\ Covers(queue', delivered, Got')
    BY <1>8, DrainActions
  <2> QED BY <1>8, <2>1, DrainControl DEF DrainedTypes, IInv, TypeOK, ReadTypeOK
<1>9. CASE ExitHandler
  BY <1>9 DEF ExitHandler, diskVars, readVars, gateVars, loopVars, fd3Vars, IInv, TypeOK,
     ReadTypeOK
<1>10. CASE DrainPidFile
  <2>1. PICK f \in left, n \in Nat : ReadDone(f, n)
    BY <1>10, ReadAction
  <2> QED BY <1>10, <2>1 DEF DrainPidFile, ReadDone, IInv, TypeOK, ReadTypeOK, fd3Vars
<1>11. CASE EndTick
  BY <1>11 DEF EndTick, diskVars, readVars, gateVars, loopVars, fd3Vars, IInv, TypeOK, ReadTypeOK
<1>12. CASE EndSettlePass
  BY <1>12 DEF EndSettlePass, diskVars, readVars, gateVars, loopVars, fd3Vars, IInv, TypeOK,
     ReadTypeOK
<1>13. CASE FlushPidFile
  <2>1. PICK f \in left : Flush(f)
    BY <1>13 DEF FlushPidFile
  <2>2. f \in Files
    BY DEF IInv, TypeOK, LoopTypeOK, Files
  <2>3. queue' \in Seq(Item) /\ buf' \in [Files -> 0..1]
    BY <2>1, <2>2, FlushType DEF IInv
  <2> QED BY <1>13, <2>3 DEF FlushPidFile, IInv, TypeOK, ReadTypeOK, fd3Vars
<1>14. CASE FinishTail
  <2>1. queue' \in Seq(Item) /\ buf' \in [Files -> 0..1]
    BY <1>14, FlushType DEF FinishTail, Files, IInv
  <2> QED BY <1>14, <2>1 DEF FinishTail, IInv, TypeOK, ReadTypeOK, fd3Vars
<1>15. CASE Fd3Line
  <2>1. [file |-> Fd3, n |-> fd3n + 1] \in Item /\ fd3n \in 0..MaxFd3
    BY DEF Item, Sources, IInv, TypeOK, ReadTypeOK
  <2>2. queue' \in Seq(Item)
    <3>1. queue' = queue \/ queue' = Append(queue, [file |-> Fd3, n |-> fd3n + 1])
      BY <1>15 DEF Fd3Line
    <3>2. queue \in Seq(Item)
      BY DEF IInv, TypeOK, ReadTypeOK
    <3> QED BY <3>1, <3>2, <2>1
  <2>3. fd3n' \in 0..MaxFd3 /\ fd3Pending' \in 0..MaxFd3
    BY <1>15, BoundsAssumption DEF Fd3Line, IInv, TypeOK, ReadTypeOK, ControlInv
  <2> QED BY <1>15, <2>2, <2>3 DEF Fd3Line, IInv, TypeOK, ReadTypeOK
<1>16. CASE Fd3Close
  BY <1>16 DEF Fd3Close, diskVars, readVars, gateVars, loopVars, fd3Vars, IInv, TypeOK, ReadTypeOK
<1>17. CASE StartTailer
  <2>1. fd3Pending \in Nat /\ Fd3 \in Sources /\ 0 \in Nat /\ fd3Pending \in 0..MaxFd3
    BY BoundsAssumption DEF Sources, IInv, TypeOK, ReadTypeOK
  <2>2. LineItems(Fd3, 0, fd3Pending) \in Seq(Item)
    BY <2>1, LineItemsType
  <2>3. queue' \in Seq(Item)
    BY <1>17, <2>2, ConcatProperties DEF StartTailer, IInv, TypeOK, ReadTypeOK
  <2> QED BY <1>17, <2>1, BoundsAssumption, <2>3 DEF StartTailer, IInv, TypeOK, ReadTypeOK
<1>18. CASE Yield
  <2>1. queue \in Seq(Item) /\ queue # <<>> /\ delivered \in [Sources -> Nat]
    BY <1>18 DEF Yield, IInv, TypeOK, ReadTypeOK
  <2>2. Head(queue) \in Item /\ Tail(queue) \in Seq(Item)
    BY <2>1
  <2>3. delivered' \in [Sources -> Nat]
    BY <1>18, <2>1, <2>2 DEF Yield, Item
  <2> QED BY <1>18, <2>2, <2>3 DEF Yield, IInv, TypeOK, ReadTypeOK, fd3Vars
<1>19. CASE ParkOrReturn
  BY <1>19 DEF ParkOrReturn, diskVars, readVars, gateVars, loopVars, fd3Vars, IInv, TypeOK,
     ReadTypeOK
<1>20. CASE Returned
  BY <1>20 DEF Returned, vars, diskVars, readVars, gateVars, loopVars, fd3Vars, IInv, TypeOK,
     ReadTypeOK
<1> QED
  BY <1>1, <1>2, <1>3, <1>4, <1>5, <1>6, <1>7, <1>8, <1>9, <1>10, <1>11, <1>12, <1>13, <1>14,
     <1>15, <1>16, <1>17, <1>18, <1>19, <1>20 DEF Next, Traced, Tailer, InCallback, Drains

\* The gates of drainEventsFile keep their types.
LEMMA GateTypeOKStep == IInv /\ [Next]_vars => GateTypeOK'
<1> SUFFICES ASSUME IInv, [Next]_vars PROVE GateTypeOK'
  OBVIOUS
<1>1. CASE UNCHANGED vars
  BY <1>1 DEF vars, diskVars, readVars, gateVars, loopVars, fd3Vars, IInv, TypeOK, GateTypeOK
<1>2. CASE \E f \in PidFiles : StraceWrites(f)
  BY <1>2 DEF StraceWrites, diskVars, readVars, gateVars, loopVars, fd3Vars, IInv, TypeOK,
     GateTypeOK
<1>3. CASE ShimStamps
  BY <1>3 DEF ShimStamps, diskVars, readVars, gateVars, loopVars, fd3Vars, IInv, TypeOK,
     GateTypeOK
<1>4. CASE ShimWrites
  BY <1>4 DEF ShimWrites, diskVars, readVars, gateVars, loopVars, fd3Vars, IInv, TypeOK,
     GateTypeOK
<1>5. CASE CtimeSettles
  BY <1>5 DEF CtimeSettles, diskVars, readVars, gateVars, loopVars, fd3Vars, IInv, TypeOK,
     GateTypeOK
<1>6. CASE EventsDisturbed
  BY <1>6 DEF EventsDisturbed, EventsRewritten, IInv, TypeOK, GateTypeOK
<1>7. CASE StraceExits
  BY <1>7 DEF StraceExits, diskVars, readVars, gateVars, loopVars, fd3Vars, IInv, TypeOK,
     GateTypeOK
<1>8. CASE Drains
  <2>1. DrainedTypes /\ DrainedFiles /\ DrainedClean(tamper) /\ Covers(queue', delivered, Got')
    BY <1>8, DrainActions
  <2> QED BY <2>1 DEF DrainedTypes
<1>9. CASE ExitHandler
  BY <1>9 DEF ExitHandler, IInv, TypeOK, GateTypeOK, gateVars, recordTamper, Reasons
<1>10. CASE DrainPidFile
  BY <1>10 DEF DrainPidFile, diskVars, readVars, gateVars, loopVars, fd3Vars, IInv, TypeOK,
     GateTypeOK
<1>11. CASE EndTick
  BY <1>11 DEF EndTick, diskVars, readVars, gateVars, loopVars, fd3Vars, IInv, TypeOK, GateTypeOK
<1>12. CASE EndSettlePass
  BY <1>12 DEF EndSettlePass, IInv, TypeOK, GateTypeOK, gateVars, settleVerdict, Reasons
<1>13. CASE FlushPidFile
  BY <1>13 DEF FlushPidFile, diskVars, readVars, gateVars, loopVars, fd3Vars, IInv, TypeOK,
     GateTypeOK
<1>14. CASE FinishTail
  BY <1>14 DEF FinishTail, diskVars, readVars, gateVars, loopVars, fd3Vars, IInv, TypeOK,
     GateTypeOK
<1>15. CASE Fd3Line
  BY <1>15 DEF Fd3Line, diskVars, readVars, gateVars, loopVars, fd3Vars, IInv, TypeOK, GateTypeOK
<1>16. CASE Fd3Close
  BY <1>16 DEF Fd3Close, diskVars, readVars, gateVars, loopVars, fd3Vars, IInv, TypeOK, GateTypeOK
<1>17. CASE StartTailer
  BY <1>17 DEF StartTailer, diskVars, readVars, gateVars, loopVars, fd3Vars, IInv, TypeOK,
     GateTypeOK
<1>18. CASE Yield
  BY <1>18 DEF Yield, diskVars, readVars, gateVars, loopVars, fd3Vars, IInv, TypeOK, GateTypeOK
<1>19. CASE ParkOrReturn
  BY <1>19 DEF ParkOrReturn, diskVars, readVars, gateVars, loopVars, fd3Vars, IInv, TypeOK,
     GateTypeOK
<1>20. CASE Returned
  BY <1>20 DEF Returned, vars, diskVars, readVars, gateVars, loopVars, fd3Vars, IInv, TypeOK,
     GateTypeOK
<1> QED
  BY <1>1, <1>2, <1>3, <1>4, <1>5, <1>6, <1>7, <1>8, <1>9, <1>10, <1>11, <1>12, <1>13, <1>14,
     <1>15, <1>16, <1>17, <1>18, <1>19, <1>20 DEF Next, Traced, Tailer, InCallback, Drains

\* The control state keeps its type.
LEMMA LoopTypeOKStep == IInv /\ [Next]_vars => LoopTypeOK'
<1> SUFFICES ASSUME IInv, [Next]_vars PROVE LoopTypeOK'
  OBVIOUS
<1>1. CASE UNCHANGED vars
  BY <1>1 DEF vars, diskVars, readVars, gateVars, loopVars, fd3Vars, IInv, TypeOK, LoopTypeOK
<1>2. CASE \E f \in PidFiles : StraceWrites(f)
  BY <1>2 DEF StraceWrites, wake, WakeIfQueued, Awake, IInv, TypeOK, LoopTypeOK, loopVars
<1>3. CASE ShimStamps
  BY <1>3 DEF ShimStamps, wake, WakeIfQueued, Awake, IInv, TypeOK, LoopTypeOK, loopVars
<1>4. CASE ShimWrites
  BY <1>4 DEF ShimWrites, wake, WakeIfQueued, Awake, IInv, TypeOK, LoopTypeOK, loopVars
<1>5. CASE CtimeSettles
  BY <1>5 DEF CtimeSettles, wake, WakeIfQueued, Awake, IInv, TypeOK, LoopTypeOK, loopVars
<1>6. CASE EventsDisturbed
  BY <1>6 DEF EventsDisturbed, wake, WakeIfQueued, Awake, IInv, TypeOK, LoopTypeOK, loopVars
<1>7. CASE StraceExits
  BY <1>7 DEF StraceExits, wake, WakeIfQueued, Awake, IInv, TypeOK, LoopTypeOK, loopVars
<1>8. CASE Drains
  BY <1>8, DrainControl DEF Awake, IInv, TypeOK, LoopTypeOK
<1>9. CASE ExitHandler
  BY <1>9 DEF ExitHandler, wake, WakeIfQueued, Awake, IInv, TypeOK, LoopTypeOK, loopVars
<1>10. CASE DrainPidFile
  <2>1. PICK f \in left, n \in Nat : ReadDone(f, n)
    BY <1>10, ReadAction
  <2> QED BY <1>10, <2>1 DEF DrainPidFile, ReadDone, WakeIfQueued, Awake, IInv, TypeOK,
     LoopTypeOK, loopVars
<1>11. CASE EndTick
  BY <1>11 DEF EndTick, wake, WakeIfQueued, Awake, IInv, TypeOK, LoopTypeOK, loopVars
<1>12. CASE EndSettlePass
  <2>1. quiet' \in 0..settleQuietPasses
    BY <1>12, SettleAssumption DEF EndSettlePass, QuietAfterPass, IInv, ControlInv, TypeOK,
       LoopTypeOK
  <2>2. prev' \in [Files -> -1..MaxTokens]
    BY <1>12, BoundsAssumption DEF EndSettlePass, IInv, TypeOK, ReadTypeOK
  <2> QED BY <1>12, <2>1, <2>2 DEF EndSettlePass, IInv, TypeOK, LoopTypeOK
<1>13. CASE FlushPidFile
  BY <1>13 DEF FlushPidFile, IInv, TypeOK, LoopTypeOK, loopVars
<1>14. CASE FinishTail
  BY <1>14 DEF FinishTail, wake, WakeIfQueued, Awake, IInv, TypeOK, LoopTypeOK, loopVars
<1>15. CASE Fd3Line
  BY <1>15 DEF Fd3Line, wake, WakeIfQueued, Awake, IInv, TypeOK, LoopTypeOK, loopVars
<1>16. CASE Fd3Close
  BY <1>16 DEF Fd3Close, wake, WakeIfQueued, Awake, IInv, TypeOK, LoopTypeOK, loopVars
<1>17. CASE StartTailer
  BY <1>17 DEF StartTailer, wake, WakeIfQueued, Awake, IInv, TypeOK, LoopTypeOK, loopVars
<1>18. CASE Yield
  BY <1>18 DEF Yield, wake, WakeIfQueued, Awake, IInv, TypeOK, LoopTypeOK, loopVars
<1>19. CASE ParkOrReturn
  BY <1>19 DEF ParkOrReturn, wake, WakeIfQueued, Awake, IInv, TypeOK, LoopTypeOK, loopVars
<1>20. CASE Returned
  BY <1>20 DEF Returned, vars, diskVars, readVars, gateVars, loopVars, fd3Vars, IInv, TypeOK,
     LoopTypeOK
<1> QED
  BY <1>1, <1>2, <1>3, <1>4, <1>5, <1>6, <1>7, <1>8, <1>9, <1>10, <1>11, <1>12, <1>13, <1>14,
     <1>15, <1>16, <1>17, <1>18, <1>19, <1>20 DEF Next, Traced, Tailer, InCallback, Drains

\* The callbacks, the exit handler and the consumer keep their order.
LEMMA ControlInvStep == IInv /\ [Next]_vars => ControlInv'
<1> SUFFICES ASSUME IInv, [Next]_vars PROVE ControlInv'
  OBVIOUS
<1>1. CASE UNCHANGED vars
  BY <1>1 DEF vars, diskVars, readVars, gateVars, loopVars, fd3Vars, IInv, ControlInv
<1>2. CASE \E f \in PidFiles : StraceWrites(f)
  BY <1>2 DEF StraceWrites, Idle, wake, WakeIfQueued, Awake, IInv, ControlInv, readVars,
     loopVars, fd3Vars
<1>3. CASE ShimStamps
  BY <1>3 DEF ShimStamps, Idle, wake, WakeIfQueued, Awake, IInv, ControlInv, readVars, loopVars,
     fd3Vars
<1>4. CASE ShimWrites
  BY <1>4 DEF ShimWrites, Idle, wake, WakeIfQueued, Awake, IInv, ControlInv, readVars, loopVars,
     fd3Vars
<1>5. CASE CtimeSettles
  BY <1>5 DEF CtimeSettles, Idle, wake, WakeIfQueued, Awake, IInv, ControlInv, readVars,
     loopVars, fd3Vars
<1>6. CASE EventsDisturbed
  BY <1>6 DEF EventsDisturbed, Idle, wake, WakeIfQueued, Awake, IInv, ControlInv, readVars,
     loopVars, fd3Vars
<1>7. CASE StraceExits
  BY <1>7 DEF StraceExits, Idle, wake, WakeIfQueued, Awake, IInv, ControlInv, readVars, loopVars,
     fd3Vars
<1>8. CASE Drains
  <2>1. consumer \notin {"unstarted", "finished"} /\ consumer' \notin {"unstarted", "finished"}
    BY <1>8, DrainControl DEF Awake
  <2>2. /\ phase # "done" /\ cb' \in {"idle", "tick", "settle"}
        /\ cb' = "settle" => phase = "settle"
        /\ cb = "idle"
        /\ UNCHANGED <<phase, childExited, quiet, prev, exit, fd3n, fd3Pending, fd3Closed>>
    BY <1>8, DrainControl
  <2> QED BY <2>1, <2>2 DEF IInv, ControlInv
<1>9. CASE ExitHandler
  BY <1>9 DEF ExitHandler, Idle, wake, WakeIfQueued, Awake, IInv, ControlInv, readVars, loopVars,
     fd3Vars
<1>10. CASE DrainPidFile
  BY <1>10 DEF DrainPidFile, WakeIfQueued, Awake, IInv, ControlInv, loopVars, fd3Vars
<1>11. CASE EndTick
  BY <1>11 DEF EndTick, Idle, wake, WakeIfQueued, Awake, IInv, ControlInv, readVars, loopVars,
     fd3Vars
<1>12. CASE EndSettlePass
  BY <1>12 DEF EndSettlePass, IInv, ControlInv, fd3Vars
<1>13. CASE FlushPidFile
  BY <1>13 DEF FlushPidFile, Idle, wake, WakeIfQueued, Awake, IInv, ControlInv, readVars,
     loopVars, fd3Vars
<1>14. CASE FinishTail
  BY <1>14 DEF FinishTail, Idle, wake, WakeIfQueued, Awake, IInv, ControlInv, readVars, loopVars,
     fd3Vars
<1>15. CASE Fd3Line
  BY <1>15, BoundsAssumption DEF Fd3Line, wake, Awake, IInv, ControlInv, TypeOK, ReadTypeOK,
     loopVars
<1>16. CASE Fd3Close
  BY <1>16 DEF Fd3Close, Idle, wake, WakeIfQueued, Awake, IInv, ControlInv, readVars, loopVars,
     fd3Vars
<1>17. CASE StartTailer
  BY <1>17, BoundsAssumption DEF StartTailer, IInv, ControlInv, TypeOK, ReadTypeOK, loopVars
<1>18. CASE Yield
  BY <1>18 DEF Yield, Idle, wake, WakeIfQueued, Awake, IInv, ControlInv, readVars, loopVars,
     fd3Vars
<1>19. CASE ParkOrReturn
  BY <1>19 DEF ParkOrReturn, Idle, wake, WakeIfQueued, Awake, IInv, ControlInv, readVars,
     loopVars, fd3Vars
<1>20. CASE Returned
  BY <1>20 DEF Returned, vars, diskVars, readVars, gateVars, loopVars, fd3Vars, IInv, ControlInv
<1> QED
  BY <1>1, <1>2, <1>3, <1>4, <1>5, <1>6, <1>7, <1>8, <1>9, <1>10, <1>11, <1>12, <1>13, <1>14,
     <1>15, <1>16, <1>17, <1>18, <1>19, <1>20 DEF Next, Traced, Tailer, InCallback, Drains

\* Reads stay within what was written, a pending write has room.
LEMMA DiskInvStep == IInv /\ [Next]_vars => DiskInv'
<1> SUFFICES ASSUME IInv, [Next]_vars PROVE DiskInv'
  OBVIOUS
<1>1. CASE UNCHANGED vars
  BY <1>1 DEF vars, diskVars, readVars, gateVars, loopVars, fd3Vars, IInv, DiskInv
<1>2. CASE \E f \in PidFiles : StraceWrites(f)
  <2>1. PICK f \in PidFiles : StraceWrites(f)
    BY <1>2
  <2>2. \A g \in PidFiles : g # Events /\ size'[g] >= size[g] /\ size'[g] \in Nat /\ size[g] \in Nat
                            /\ pos[g] \in Nat
    BY <2>1, SourcesAssumption, BoundsAssumption DEF StraceWrites, IInv, TypeOK, DiskTypeOK,
       ReadTypeOK, Files
  <2>3. \A g \in PidFiles : pos[g] <= size'[g]
    BY <2>2 DEF IInv, DiskInv
  <2>4. size'[Events] = size[Events]
    BY <2>1, SourcesAssumption DEF StraceWrites, IInv, TypeOK, DiskTypeOK, Files
  <2> QED BY <2>1, <2>3, <2>4 DEF StraceWrites, IInv, DiskInv, readVars, gateVars
<1>3. CASE ShimStamps
  BY <1>3 DEF ShimStamps, IInv, DiskInv, diskVars, readVars, gateVars
<1>4. CASE ShimWrites
  <2>1. \A g \in PidFiles : size'[g] = size[g]
    BY <1>4, SourcesAssumption DEF ShimWrites, IInv, TypeOK, DiskTypeOK, Files
  <2> QED BY <1>4, <2>1 DEF ShimWrites, IInv, DiskInv, readVars, gateVars
<1>5. CASE CtimeSettles
  BY <1>5 DEF CtimeSettles, IInv, DiskInv, diskVars, readVars, gateVars
<1>6. CASE EventsDisturbed
  <2>1. \A g \in PidFiles : size'[g] = size[g]
    BY <1>6, SourcesAssumption DEF EventsDisturbed, EventsRewritten, IInv, TypeOK, DiskTypeOK,
       Files
  <2>2. ~lag /\ UNCHANGED <<lag, pos, maxSeen, exit>>
    BY <1>6 DEF EventsDisturbed, readVars
  <2> QED BY <2>1, <2>2 DEF IInv, DiskInv
<1>7. CASE StraceExits
  BY <1>7 DEF StraceExits, IInv, DiskInv, diskVars, readVars, gateVars
<1>8. CASE Drains
  <2>1. DrainedTypes /\ DrainedFiles /\ DrainedClean(tamper) /\ Covers(queue', delivered, Got')
    BY <1>8, DrainActions
  <2>2. UNCHANGED <<exit, size, lag>>
    BY <1>8, DrainControl
  <2> QED BY <2>1, <2>2 DEF DrainedFiles, IInv, DiskInv
<1>9. CASE ExitHandler
  BY <1>9 DEF ExitHandler, IInv, DiskInv, diskVars, readVars, gateVars
<1>10. CASE DrainPidFile
  <2>1. PICK f \in left, n \in Nat : ReadDone(f, n)
    BY <1>10, ReadAction
  <2>2. f \in PidFiles /\ Events # f /\ Events \in Files /\ \A g \in PidFiles : g \in Files
    BY SourcesAssumption DEF IInv, TypeOK, LoopTypeOK, Files
  <2>3. \A g \in PidFiles : pos'[g] <= size[g]
    BY <2>1, <2>2 DEF ReadDone, IInv, DiskInv
  <2>4. pos'[Events] = pos[Events]
    BY <2>1, <2>2 DEF ReadDone
  <2> QED BY <1>10, <2>3, <2>4 DEF DrainPidFile, IInv, DiskInv, diskVars, gateVars
<1>11. CASE EndTick
  BY <1>11 DEF EndTick, IInv, DiskInv, diskVars, readVars, gateVars
<1>12. CASE EndSettlePass
  BY <1>12 DEF EndSettlePass, IInv, DiskInv, diskVars, readVars, gateVars
<1>13. CASE FlushPidFile
  BY <1>13 DEF FlushPidFile, IInv, DiskInv, diskVars, gateVars
<1>14. CASE FinishTail
  BY <1>14 DEF FinishTail, IInv, DiskInv, diskVars, readVars, gateVars
<1>15. CASE Fd3Line
  BY <1>15 DEF Fd3Line, IInv, DiskInv, diskVars, readVars, gateVars
<1>16. CASE Fd3Close
  BY <1>16 DEF Fd3Close, IInv, DiskInv, diskVars, readVars, gateVars
<1>17. CASE StartTailer
  BY <1>17 DEF StartTailer, IInv, DiskInv, diskVars, readVars, gateVars
<1>18. CASE Yield
  BY <1>18 DEF Yield, IInv, DiskInv, diskVars, readVars, gateVars
<1>19. CASE ParkOrReturn
  BY <1>19 DEF ParkOrReturn, IInv, DiskInv, diskVars, readVars, gateVars
<1>20. CASE Returned
  BY <1>20 DEF Returned, vars, diskVars, readVars, gateVars, loopVars, fd3Vars, IInv, DiskInv
<1> QED
  BY <1>1, <1>2, <1>3, <1>4, <1>5, <1>6, <1>7, <1>8, <1>9, <1>10, <1>11, <1>12, <1>13, <1>14,
     <1>15, <1>16, <1>17, <1>18, <1>19, <1>20 DEF Next, Traced, Tailer, InCallback, Drains

\* What a buffer holds is what was read after the last whole line.
LEMMA BufferInvStep == IInv /\ [Next]_vars => BufferInv'
<1> SUFFICES ASSUME IInv, [Next]_vars PROVE BufferInv'
  OBVIOUS
<1>1. CASE UNCHANGED vars
  BY <1>1 DEF vars, diskVars, readVars, gateVars, loopVars, fd3Vars, IInv, BufferInv, Flushed
<1>2. CASE \E f \in PidFiles : StraceWrites(f)
  BY <1>2 DEF StraceWrites, BufferInv, Flushed, Idle, IInv, ControlInv, readVars, loopVars
<1>3. CASE ShimStamps
  BY <1>3 DEF ShimStamps, BufferInv, Flushed, Idle, IInv, ControlInv, readVars, loopVars
<1>4. CASE ShimWrites
  BY <1>4 DEF ShimWrites, BufferInv, Flushed, Idle, IInv, ControlInv, readVars, loopVars
<1>5. CASE CtimeSettles
  BY <1>5 DEF CtimeSettles, BufferInv, Flushed, Idle, IInv, ControlInv, readVars, loopVars
<1>6. CASE EventsDisturbed
  BY <1>6 DEF EventsDisturbed, BufferInv, Flushed, Idle, IInv, ControlInv, readVars, loopVars
<1>7. CASE StraceExits
  BY <1>7 DEF StraceExits, BufferInv, Flushed, Idle, IInv, ControlInv, readVars, loopVars
<1>8. CASE Drains
  <2>1. DrainedTypes /\ DrainedFiles /\ DrainedClean(tamper) /\ Covers(queue', delivered, Got')
    BY <1>8, DrainActions
  <2>2. \A g \in Files : Flushed(g)' <=> Flushed(g)
    BY <1>8, DrainControl DEF Flushed
  <2>3. \A g \in PidFiles : pos'[g] = pos[g] /\ buf'[g] = buf[g]
    BY <2>1 DEF DrainedFiles
  <2>4. buf'[Events] <= pos'[Events] /\ (pos'[Events] - buf'[Events]) % 2 = 0
    BY <2>1 DEF DrainedFiles
  <2>5. ~Flushed(Events) /\ Events \in Files
    BY <1>8, DrainControl, SourcesAssumption DEF Flushed, Files
  <2> QED BY <2>2, <2>3, <2>4, <2>5 DEF IInv, BufferInv, Files
<1>9. CASE ExitHandler
  BY <1>9 DEF ExitHandler, BufferInv, Flushed, Idle, IInv, ControlInv, readVars, loopVars
<1>10. CASE DrainPidFile
  <2>1. PICK f \in left, n \in Nat : ReadDone(f, n)
    BY <1>10, ReadAction
  <2>2. \A g \in Files : Flushed(g)' <=> Flushed(g)
    BY <1>10 DEF DrainPidFile, Flushed, loopVars
  <2>3. f \in Files /\ ~Flushed(f)
    BY <1>10 DEF DrainPidFile, Flushed, IInv, ControlInv, TypeOK, LoopTypeOK, Files
  <2>4. \A g \in Files : g # f => pos'[g] = pos[g] /\ buf'[g] = buf[g]
    BY <2>1 DEF ReadDone
  <2>5. buf'[f] <= pos'[f] /\ (pos'[f] - buf'[f]) % 2 = 0
    BY <2>1 DEF ReadDone
  <2> QED BY <2>2, <2>3, <2>4, <2>5 DEF IInv, BufferInv
<1>11. CASE EndTick
  BY <1>11 DEF EndTick, BufferInv, Flushed, Idle, IInv, ControlInv, readVars, loopVars
<1>12. CASE EndSettlePass
  <2>1. UNCHANGED <<pos, buf, phase>> /\ cb = "settle"
    BY <1>12 DEF EndSettlePass, readVars
  <2>2. \A f \in Files : Flushed(f)' <=> Flushed(f)
    BY <1>12, <2>1 DEF EndSettlePass, Flushed
  <2> QED BY <2>1, <2>2 DEF IInv, BufferInv
<1>13. CASE FlushPidFile
  <2>1. PICK f \in left : Flush(f) /\ left' = left \ {f}
    BY <1>13 DEF FlushPidFile
  <2>2. f \in PidFiles /\ f \in Files /\ buf \in [Files -> 0..1] /\ pos[f] \in Nat
    BY BoundsAssumption DEF IInv, TypeOK, ReadTypeOK, LoopTypeOK, Files
  <2>3. buf'[f] = 0 /\ \A g \in Files : g # f => buf'[g] = buf[g]
    BY <2>1, <2>2 DEF Flush
  <2>4. UNCHANGED <<pos, phase, cb>> /\ cb = "flush"
    BY <1>13 DEF FlushPidFile, loopVars
  <2>5. Flushed(f)' /\ \A g \in Files : g # f => (Flushed(g)' <=> Flushed(g))
    BY <2>1, <2>2, <2>4 DEF Flushed
  <2> QED BY <2>2, <2>3, <2>4, <2>5 DEF IInv, BufferInv
<1>14. CASE FinishTail
  <2>1. Flush(Events) /\ left = {} /\ cb = "flush" /\ UNCHANGED pos /\ phase' = "done"
    BY <1>14 DEF FinishTail
  <2>2. Events \in Files /\ buf \in [Files -> 0..1] /\ \A g \in Files : pos[g] \in Nat
    BY BoundsAssumption DEF IInv, TypeOK, ReadTypeOK, Files
  <2>3. buf'[Events] = 0 /\ \A g \in PidFiles : g # Events => buf'[g] = buf[g]
    BY <2>1, <2>2 DEF Flush, Files
  <2>4. \A g \in PidFiles : Flushed(g) /\ g \in Files
    BY <2>1 DEF Flushed, Files
  <2>5. \A g \in PidFiles : buf'[g] = 0
    BY <2>3, <2>4 DEF IInv, BufferInv
  <2>6. \A g \in Files : buf'[g] = 0
    BY <2>3, <2>5 DEF Files
  <2> QED BY <2>1, <2>2, <2>6 DEF BufferInv, Flushed
<1>15. CASE Fd3Line
  BY <1>15 DEF Fd3Line, BufferInv, Flushed, Idle, IInv, ControlInv, readVars, loopVars
<1>16. CASE Fd3Close
  BY <1>16 DEF Fd3Close, BufferInv, Flushed, Idle, IInv, ControlInv, readVars, loopVars
<1>17. CASE StartTailer
  BY <1>17 DEF StartTailer, BufferInv, Flushed, Idle, IInv, ControlInv, readVars, loopVars
<1>18. CASE Yield
  BY <1>18 DEF Yield, BufferInv, Flushed, Idle, IInv, ControlInv, readVars, loopVars
<1>19. CASE ParkOrReturn
  BY <1>19 DEF ParkOrReturn, BufferInv, Flushed, Idle, IInv, ControlInv, readVars, loopVars
<1>20. CASE Returned
  BY <1>20 DEF Returned, vars, diskVars, readVars, gateVars, loopVars, fd3Vars, IInv, BufferInv,
     Flushed
<1> QED
  BY <1>1, <1>2, <1>3, <1>4, <1>5, <1>6, <1>7, <1>8, <1>9, <1>10, <1>11, <1>12, <1>13, <1>14,
     <1>15, <1>16, <1>17, <1>18, <1>19, <1>20 DEF Next, Traced, Tailer, InCallback, Drains

\* The queue covers what was read, if none of the two changed.
LEMMA QueueSame ==
    ASSUME IInv, UNCHANGED <<queue, delivered, pos, buf, fd3n, fd3Pending>>
    PROVE  QueueInv'
<1>1. Got' = Got
  BY DEF Got
<1> QED
  BY <1>1 DEF IInv, QueueInv

\* Handing over a partial line queues it as the file's next line.
LEMMA FlushQueues ==
    ASSUME IInv, NEW f \in Files, ~Flushed(f), Flush(f),
           UNCHANGED <<delivered, pos, fd3n, fd3Pending>>
    PROVE  QueueInv'
<1>1. /\ pos[f] \in Nat /\ buf[f] \in 0..1 /\ buf[f] <= pos[f] /\ (pos[f] - buf[f]) % 2 = 0
      /\ buf \in [Files -> 0..1] /\ queue \in Seq(Item) /\ delivered \in [Sources -> Nat]
  BY BoundsAssumption DEF IInv, TypeOK, ReadTypeOK, BufferInv
<1>2. f \in Sources /\ f # Fd3 /\ Got[f] = (pos[f] - buf[f] + 1) \div 2
  BY SourcesAssumption DEF Files, Sources, Got
<1>3. Got \in [Sources -> Nat] /\ Covers(queue, delivered, Got)
  BY GotType DEF IInv, QueueInv
<1>4. \A s \in Sources : s # f => Got'[s] = Got[s]
  <2> SUFFICES ASSUME NEW s \in Sources, s # f PROVE Got'[s] = Got[s]
    OBVIOUS
  <2>1. CASE s = Fd3
    BY <2>1 DEF Got
  <2>2. CASE s # Fd3
    <3>1. s \in Files
      BY <2>2 DEF Sources
    <3>2. buf'[s] = buf[s]
      BY <3>1, <1>1 DEF Flush
    <3> QED BY <3>2, <2>2 DEF Got
  <2> QED BY <2>1, <2>2
<1>5. Got'[f] = (pos[f] + 1) \div 2
  <2>1. buf'[f] = 0
    BY <1>1 DEF Flush
  <2>2. Got'[f] = (pos'[f] - buf'[f] + 1) \div 2
    BY <1>2 DEF Got
  <2> QED BY <2>1, <2>2, <1>1
<1>6. Got' = [s \in Sources |-> Got'[s]]
  BY DEF Got
<1>7. CASE buf[f] = 0
  <2>1. Got' = Got
    <3>1. Got'[f] = Got[f]
      BY <1>7, <1>1, <1>2, <1>5
    <3> QED BY <3>1, <1>3, <1>4, <1>6
  <2>2. queue' = queue
    BY <1>7 DEF Flush
  <2> QED BY <2>1, <2>2, <1>3 DEF QueueInv
<1>8. CASE buf[f] = 1
  <2>1. PICK a \in Nat : pos[f] - 1 = 2 * a
    <3>1. PICK x \in Nat : x = pos[f] - 1
      BY <1>1, <1>8
    <3>2. x % 2 = 0
      BY <3>1, <1>1, <1>8
    <3>3. x = 2 * (x \div 2) /\ x \div 2 \in Nat
      BY <3>2
    <3> QED BY <3>1, <3>3
  <2>2. Before(f) = a /\ Got[f] = a /\ Got'[f] = a + 1
    <3>1. pos[f] - buf[f] = 2 * a /\ pos[f] - buf[f] + 1 = 2 * a + 1 /\ pos[f] + 1 = 2 * a + 2
      <4>1. pos[f] \in Nat
        BY <1>1
      <4> QED BY ONLY <2>1, <1>8, <4>1, a \in Nat
    <3>2. (2 * a) \div 2 = a /\ (2 * a + 1) \div 2 = a
      BY ONLY a \in Nat
    <3>3. (2 * a + 2) \div 2 = a + 1
      <4>1. PICK c \in Nat : c = a + 1
        OBVIOUS
      <4>2. 2 * a + 2 = 2 * c /\ (2 * c) \div 2 = c
        BY <4>1
      <4> QED BY <4>1, <4>2
    <3> QED BY <3>1, <3>2, <3>3, <1>2, <1>5 DEF Before
  <2>3. queue' = Append(queue, [file |-> f, n |-> Got[f] + 1])
    BY <1>8, <2>2 DEF Flush
  <2>4. Got' = [Got EXCEPT ![f] = Got[f] + 1]
    BY <2>2, <1>2, <1>3, <1>4, <1>6
  <2> QED BY <2>3, <2>4, <1>1, <1>2, <1>3, CoversAppend DEF QueueInv
<1> QED
  BY <1>1, <1>7, <1>8

\* Queue and deliveries together are the lines read, in order.
LEMMA QueueInvStep == IInv /\ [Next]_vars => QueueInv'
<1> SUFFICES ASSUME IInv, [Next]_vars PROVE QueueInv'
  OBVIOUS
<1>1. CASE UNCHANGED vars
  BY <1>1, QueueSame DEF vars, readVars, fd3Vars
<1>2. CASE \E f \in PidFiles : StraceWrites(f)
  <2>1. UNCHANGED <<queue, delivered, pos, buf, fd3n, fd3Pending>>
    BY <1>2 DEF StraceWrites, readVars, fd3Vars
  <2> QED BY <2>1, QueueSame
<1>3. CASE ShimStamps
  <2>1. UNCHANGED <<queue, delivered, pos, buf, fd3n, fd3Pending>>
    BY <1>3 DEF ShimStamps, readVars, fd3Vars
  <2> QED BY <2>1, QueueSame
<1>4. CASE ShimWrites
  <2>1. UNCHANGED <<queue, delivered, pos, buf, fd3n, fd3Pending>>
    BY <1>4 DEF ShimWrites, readVars, fd3Vars
  <2> QED BY <2>1, QueueSame
<1>5. CASE CtimeSettles
  <2>1. UNCHANGED <<queue, delivered, pos, buf, fd3n, fd3Pending>>
    BY <1>5 DEF CtimeSettles, readVars, fd3Vars
  <2> QED BY <2>1, QueueSame
<1>6. CASE EventsDisturbed
  <2>1. UNCHANGED <<queue, delivered, pos, buf, fd3n, fd3Pending>>
    BY <1>6 DEF EventsDisturbed, readVars, fd3Vars
  <2> QED BY <2>1, QueueSame
<1>7. CASE StraceExits
  <2>1. UNCHANGED <<queue, delivered, pos, buf, fd3n, fd3Pending>>
    BY <1>7 DEF StraceExits, readVars, fd3Vars
  <2> QED BY <2>1, QueueSame
<1>8. CASE Drains
  <2>1. DrainedTypes /\ DrainedFiles /\ DrainedClean(tamper) /\ Covers(queue', delivered, Got')
    BY <1>8, DrainActions
  <2> QED BY <1>8, <2>1, DrainControl DEF QueueInv
<1>9. CASE ExitHandler
  <2>1. UNCHANGED <<queue, delivered, pos, buf, fd3n, fd3Pending>>
    BY <1>9 DEF ExitHandler, readVars, fd3Vars
  <2> QED BY <2>1, QueueSame
<1>10. CASE DrainPidFile
  <2>1. PICK f \in left, n \in Nat : ReadDone(f, n)
    BY <1>10, ReadAction
  <2> QED BY <1>10, <2>1 DEF DrainPidFile, ReadDone, QueueInv
<1>11. CASE EndTick
  <2>1. UNCHANGED <<queue, delivered, pos, buf, fd3n, fd3Pending>>
    BY <1>11 DEF EndTick, readVars, fd3Vars
  <2> QED BY <2>1, QueueSame
<1>12. CASE EndSettlePass
  <2>1. UNCHANGED <<queue, delivered, pos, buf, fd3n, fd3Pending>>
    BY <1>12 DEF EndSettlePass, readVars, fd3Vars
  <2> QED BY <2>1, QueueSame
<1>13. CASE FlushPidFile
  <2>1. PICK f \in left : Flush(f)
    BY <1>13 DEF FlushPidFile
  <2>2. f \in Files /\ ~Flushed(f)
    BY <1>13 DEF FlushPidFile, Flushed, IInv, ControlInv, TypeOK, LoopTypeOK, Files
  <2> QED BY <1>13, <2>1, <2>2, FlushQueues DEF FlushPidFile, fd3Vars
<1>14. CASE FinishTail
  <2>1. Events \in Files /\ ~Flushed(Events)
    BY <1>14, SourcesAssumption DEF FinishTail, Flushed, IInv, ControlInv, Files
  <2> QED BY <1>14, <2>1, FlushQueues DEF FinishTail, fd3Vars
<1>15. CASE Fd3Line
  <2>1. /\ Fd3 \in Sources /\ Got \in [Sources -> Nat] /\ Covers(queue, delivered, Got)
        /\ queue \in Seq(Item) /\ delivered \in [Sources -> Nat] /\ fd3n \in Nat /\ fd3Pending \in Nat
    BY GotType, BoundsAssumption DEF IInv, QueueInv, TypeOK, ReadTypeOK, Sources
  <2>2. UNCHANGED <<pos, buf, delivered>> /\ fd3n' = fd3n + 1
    BY <1>15 DEF Fd3Line
  <2>3. CASE consumer = "unstarted"
    <3>1. fd3Pending' = fd3Pending + 1 /\ queue' = queue
      BY <1>15, <2>3 DEF Fd3Line
    <3>2. fd3n' - fd3Pending' = fd3n - fd3Pending
      BY <2>1, <2>2, <3>1
    <3>3. Got' = Got
      BY <2>2, <3>2 DEF Got
    <3> QED BY <2>1, <2>2, <3>1, <3>3 DEF QueueInv
  <2>4. CASE consumer # "unstarted"
    <3>1. fd3Pending = 0 /\ fd3Pending' = 0 /\ queue' = Append(queue, [file |-> Fd3, n |-> fd3n + 1])
      BY <1>15, <2>4 DEF Fd3Line, IInv, ControlInv
    <3>2. Got[Fd3] = fd3n /\ Got'[Fd3] = fd3n + 1
      BY <2>1, <2>2, <3>1 DEF Got
    <3>3. \A s \in Sources : s # Fd3 => Got'[s] = Got[s]
      BY <2>2 DEF Got
    <3>4. Got' = [s \in Sources |-> Got'[s]]
      BY DEF Got
    <3>5. Got' = [Got EXCEPT ![Fd3] = Got[Fd3] + 1]
      BY <2>1, <3>2, <3>3, <3>4
    <3> QED BY <2>1, <2>2, <3>1, <3>2, <3>5, CoversAppend DEF QueueInv
  <2> QED BY <2>3, <2>4
<1>16. CASE Fd3Close
  <2>1. UNCHANGED <<queue, delivered, pos, buf, fd3n, fd3Pending>>
    BY <1>16 DEF Fd3Close, readVars, fd3Vars
  <2> QED BY <2>1, QueueSame
<1>17. CASE StartTailer
  <2>1. /\ Fd3 \in Sources /\ Got \in [Sources -> Nat] /\ Covers(queue, delivered, Got)
        /\ queue \in Seq(Item) /\ delivered \in [Sources -> Nat] /\ fd3n \in Nat /\ fd3Pending \in Nat
    BY GotType, BoundsAssumption DEF IInv, QueueInv, TypeOK, ReadTypeOK, Sources
  <2>2. UNCHANGED <<pos, buf, delivered, fd3n>> /\ fd3Pending = fd3n /\ fd3Pending' = 0
    BY <1>17 DEF StartTailer, IInv, ControlInv
  <2>3. Got[Fd3] = 0 /\ Got'[Fd3] = 0 + fd3Pending
    BY <2>1, <2>2 DEF Got
  <2>4. \A s \in Sources : s # Fd3 => Got'[s] = Got[s]
    BY <2>2 DEF Got
  <2>5. Got' = [s \in Sources |-> Got'[s]]
    BY DEF Got
  <2>6. Got' = [Got EXCEPT ![Fd3] = Got[Fd3] + fd3Pending]
    BY <2>1, <2>3, <2>4, <2>5
  <2>7. queue' = queue \o LineItems(Fd3, Got[Fd3], fd3Pending)
    BY <1>17, <2>3 DEF StartTailer
  <2> QED BY <2>1, <2>2, <2>6, <2>7, CoversGrow DEF QueueInv
<1>18. CASE Yield
  <2>1. /\ Got \in [Sources -> Nat] /\ Covers(queue, delivered, Got)
        /\ queue \in Seq(Item) /\ delivered \in [Sources -> Nat]
    BY GotType DEF IInv, QueueInv, TypeOK, ReadTypeOK
  <2>2. queue # <<>> /\ Got' = Got
    BY <1>18 DEF Yield, Got, fd3Vars
  <2>3. queue' = Tail(queue) /\ delivered' = [delivered EXCEPT ![Head(queue).file] = Head(queue).n]
    BY <1>18 DEF Yield
  <2> QED BY <2>1, <2>2, <2>3, CoversTail DEF QueueInv
<1>19. CASE ParkOrReturn
  <2>1. UNCHANGED <<queue, delivered, pos, buf, fd3n, fd3Pending>>
    BY <1>19 DEF ParkOrReturn, readVars, fd3Vars
  <2> QED BY <2>1, QueueSame
<1>20. CASE Returned
  BY <1>20, QueueSame DEF Returned, vars, readVars, fd3Vars
<1> QED
  BY <1>1, <1>2, <1>3, <1>4, <1>5, <1>6, <1>7, <1>8, <1>9, <1>10, <1>11, <1>12, <1>13, <1>14,
     <1>15, <1>16, <1>17, <1>18, <1>19, <1>20 DEF Next, Traced, Tailer, InCallback, Drains

\* The settle loop's bookkeeping across a call of drainEventsFile.
LEMMA SettleDrained ==
    ASSUME IInv, DrainedTypes, DrainedFiles, DrainedClean(tamper), cb = "idle",
           cb' = "settle" => left' = PidFiles,
           UNCHANGED <<phase, exit, quiet, prev, size, evId, mtimeBack>>
    PROVE  SettleInv'
<1> SUFFICES ASSUME phase = "settle", exit = "clean", tamper' = "none"
             PROVE  /\ \A f \in Files : prev[f] <= pos'[f]
                    /\ prev = pos' => \A f \in Files : pos'[f] < size[f] =>
                         IF cb' = "settle" /\ f \notin left' THEN stall'[f] > quiet
                         ELSE stall'[f] >= quiet
                    /\ cb' = "settle" => evId = "same" /\ ~mtimeBack /\ pos'[Events] <= size[Events]
  BY DEF SettleInv
<1>1. /\ tamper = "none" /\ evId = "same" /\ ~mtimeBack /\ pos'[Events] <= size[Events]
      /\ pos'[Events] = pos[Events] /\ pos[Events] < size[Events] =>
           stall'[Events] = stall[Events] + 1
  BY DEF DrainedClean
<1>2. /\ \A f \in Files : prev[f] <= pos[f]
      /\ prev = pos => \A f \in Files : pos[f] < size[f] => stall[f] >= quiet
  BY <1>1 DEF IInv, SettleInv
<1>3. /\ \A f \in Files : /\ pos[f] \in Nat /\ pos'[f] \in Nat /\ stall[f] \in Nat /\ prev[f] \in Int
                          /\ size[f] \in Nat /\ stall'[f] \in Nat
      /\ prev \in [Files -> -1..MaxTokens] /\ pos \in [Files -> 0..MaxTokens] /\ quiet \in Nat
      /\ pos' \in [Files -> 0..MaxTokens]
  <2>1. MaxTokens \in Nat /\ MaxStall \in Nat
    BY BoundsAssumption, SettleAssumption
  <2>2. /\ prev \in [Files -> -1..MaxTokens] /\ pos \in [Files -> 0..MaxTokens] /\ quiet \in Nat
        /\ size \in [Files -> 0..MaxTokens] /\ stall \in [Files -> 0..MaxStall]
    BY SettleAssumption DEF IInv, TypeOK, ReadTypeOK, DiskTypeOK, LoopTypeOK
  <2>3. pos' \in [Files -> 0..MaxTokens] /\ stall' \in [Files -> 0..MaxStall]
    BY DEF DrainedTypes
  <2> QED BY <2>1, <2>2, <2>3
<1>4. \A f \in Files : pos[f] <= pos'[f] /\ (f \in PidFiles => stall'[f] = stall[f])
  BY <1>3, SourcesAssumption DEF DrainedFiles, Files
<1>5. \A f \in Files : prev[f] <= pos'[f]
  BY <1>2, <1>3, <1>4
<1>6. ASSUME prev = pos'
      PROVE  /\ pos' = pos
             /\ \A f \in Files : pos'[f] < size[f] =>
                  /\ stall'[f] >= quiet
                  /\ f = Events => stall'[f] > quiet
  <2>1. \A f \in Files : pos'[f] = pos[f]
    BY <1>2, <1>3, <1>4, <1>6
  <2>2. pos' = pos
    BY <2>1, <1>3
  <2>3. \A f \in Files : pos'[f] < size[f] => stall[f] >= quiet
    BY <2>2, <1>2, <1>6
  <2>4. Events \in Files /\ \A f \in Files : f = Events \/ f \in PidFiles
    BY DEF Files
  <2>5. \A f \in PidFiles : pos'[f] < size[f] => stall'[f] >= quiet /\ f # Events
    BY <2>3, <1>4, SourcesAssumption DEF Files
  <2>6. pos'[Events] < size[Events] => stall'[Events] > quiet
    BY <2>1, <2>3, <2>4, <1>1, <1>3
  <2>7. pos'[Events] < size[Events] => stall'[Events] >= quiet
    BY <2>6, <2>4, <1>3
  <2> QED BY <2>2, <2>4, <2>5, <2>6, <2>7
<1>7. prev = pos' => \A f \in Files : pos'[f] < size[f] =>
        IF cb' = "settle" /\ f \notin left' THEN stall'[f] > quiet ELSE stall'[f] >= quiet
  <2>1. \A f \in Files : cb' = "settle" /\ f \notin left' => f = Events
    BY DEF Files
  <2> QED BY <1>6, <2>1
<1> QED
  BY <1>1, <1>5, <1>7

\* Types the settle loop's arithmetic rests on.
LEMMA SettleTypes ==
    ASSUME TypeOK
    PROVE  /\ \A g \in Files : /\ pos[g] \in Nat /\ stall[g] \in 0..MaxStall /\ prev[g] \in Int
                               /\ size[g] \in Nat
           /\ prev \in [Files -> -1..MaxTokens] /\ pos \in [Files -> 0..MaxTokens]
           /\ quiet \in 0..settleQuietPasses /\ MaxStall \in Nat /\ MaxTokens \in Nat
           /\ settleQuietPasses \in Nat \ {0} /\ MaxStall < settleQuietPasses
<1>1. MaxTokens \in Nat /\ MaxStall \in Nat /\ settleQuietPasses \in Nat \ {0}
      /\ MaxStall < settleQuietPasses
  BY BoundsAssumption, SettleAssumption
<1>2. /\ prev \in [Files -> -1..MaxTokens] /\ pos \in [Files -> 0..MaxTokens]
      /\ quiet \in 0..settleQuietPasses
      /\ size \in [Files -> 0..MaxTokens] /\ stall \in [Files -> 0..MaxStall]
  BY DEF TypeOK, ReadTypeOK, DiskTypeOK, LoopTypeOK
<1> QED
  BY <1>1, <1>2

\* Quiet passes bound how often an unread token was missed.
LEMMA SettleInvStep == IInv /\ [Next]_vars => SettleInv'
<1> SUFFICES ASSUME IInv, [Next]_vars PROVE SettleInv'
  OBVIOUS
<1>1. CASE UNCHANGED vars
  BY <1>1 DEF vars, diskVars, readVars, gateVars, loopVars, fd3Vars, IInv, SettleInv
<1>2. CASE \E f \in PidFiles : StraceWrites(f)
  BY <1>2 DEF StraceWrites, SettleInv
<1>3. CASE ShimStamps
  BY <1>3 DEF ShimStamps, SettleInv
<1>4. CASE ShimWrites
  BY <1>4 DEF ShimWrites, SettleInv, IInv, DiskInv
<1>5. CASE CtimeSettles
  BY <1>5 DEF CtimeSettles, SettleInv, IInv, loopVars, readVars, diskVars
<1>6. CASE EventsDisturbed
  BY <1>6 DEF EventsDisturbed, SettleInv
<1>7. CASE StraceExits
  BY <1>7 DEF StraceExits, SettleInv, IInv, ControlInv, loopVars
<1>8. CASE Drains
  <2>1. DrainedTypes /\ DrainedFiles /\ DrainedClean(tamper) /\ Covers(queue', delivered, Got')
    BY <1>8, DrainActions
  <2>2. /\ cb = "idle" /\ (cb' = "settle" => left' = PidFiles)
        /\ UNCHANGED <<phase, exit, quiet, prev, size, evId, mtimeBack>>
    BY <1>8, DrainControl
  <2> QED BY <2>1, <2>2, SettleDrained
<1>9. CASE ExitHandler
  <2>1. /\ phase = "run" /\ cb' = "idle" /\ UNCHANGED <<prev, pos, stall, quiet, size>>
    BY <1>9 DEF ExitHandler, Idle, readVars, diskVars
  <2>2. quiet = 0 /\ \A f \in Files : prev[f] = -1
    BY <2>1 DEF IInv, ControlInv
  <2>3. \A f \in Files : prev[f] <= pos[f] /\ stall[f] >= quiet
    BY <2>2, SettleTypes DEF IInv
  <2> QED BY <2>1, <2>3 DEF SettleInv
<1>10. CASE DrainPidFile
  <2>1. PICK f \in left, n \in Nat : ReadDone(f, n)
    BY <1>10, ReadAction
  <2>2. UNCHANGED <<phase, exit, tamper, prev, quiet, cb, size, evId, mtimeBack>>
    BY <1>10 DEF DrainPidFile, diskVars, loopVars
  <2>3. f \in Files /\ f \in PidFiles /\ f # Events
    BY SourcesAssumption DEF IInv, TypeOK, LoopTypeOK, Files
  <2>4. /\ pos'[f] = pos[f] + n /\ left' = left \ {f}
        /\ n = 0 /\ pos[f] < size[f] => stall'[f] = stall[f] + 1
        /\ \A g \in Files : g # f => pos'[g] = pos[g] /\ stall'[g] = stall[g]
        /\ pos' \in [Files -> 0..MaxTokens]
    BY <2>1 DEF ReadDone
  <2> SUFFICES ASSUME phase = "settle", cb # "flush", exit = "clean", tamper = "none"
               PROVE  /\ \A g \in Files : prev[g] <= pos'[g]
                      /\ prev = pos' => \A g \in Files : pos'[g] < size[g] =>
                           IF cb = "settle" /\ g \notin left' THEN stall'[g] > quiet
                           ELSE stall'[g] >= quiet
                      /\ cb = "settle" => evId = "same" /\ ~mtimeBack /\ pos'[Events] <= size[Events]
    BY <2>2 DEF SettleInv
  <2>5. /\ \A g \in Files : prev[g] <= pos[g]
        /\ prev = pos => \A g \in Files : pos[g] < size[g] =>
             IF cb = "settle" /\ g \notin left THEN stall[g] > quiet ELSE stall[g] >= quiet
        /\ cb = "settle" => evId = "same" /\ ~mtimeBack /\ pos[Events] <= size[Events]
    BY DEF IInv, SettleInv
  <2>6. \A g \in Files : prev[g] <= pos'[g]
    BY <2>3, <2>4, <2>5, SettleTypes DEF IInv
  <2>7. pos'[Events] = pos[Events]
    BY <2>3, <2>4 DEF Files
  <2>8. ASSUME prev = pos' PROVE n = 0 /\ pos' = pos
    <3>1. n = 0
      BY <2>3, <2>4, <2>5, <2>8, SettleTypes DEF IInv
    <3>2. \A g \in Files : pos'[g] = pos[g]
      BY <3>1, <2>3, <2>4, SettleTypes DEF IInv
    <3>3. pos \in [Files -> 0..MaxTokens]
      BY SettleTypes DEF IInv
    <3> QED BY <3>1, <3>2, <3>3, <2>4
  <2>9. ASSUME prev = pos', NEW g \in Files, pos'[g] < size[g]
        PROVE  IF cb = "settle" /\ g \notin left' THEN stall'[g] > quiet ELSE stall'[g] >= quiet
    <3>1. n = 0 /\ pos' = pos /\ prev = pos
      BY <2>8, <2>9
    <3>2. CASE g = f
      <4>1. stall[f] >= quiet
        BY <3>1, <3>2, <2>1, <2>5, <2>9
      <4>2. stall'[f] = stall[f] + 1
        BY <3>1, <3>2, <2>4, <2>9
      <4> QED BY <3>2, <4>1, <4>2, SettleTypes DEF IInv
    <3>3. CASE g # f
      <4>1. stall'[g] = stall[g] /\ (g \notin left' <=> g \notin left)
        BY <3>3, <2>4
      <4> QED BY <3>1, <4>1, <2>5, <2>9
    <3> QED BY <3>2, <3>3
  <2> QED BY <2>5, <2>6, <2>7, <2>9
<1>11. CASE EndTick
  BY <1>11 DEF EndTick, SettleInv, IInv, loopVars, readVars, diskVars
<1>12. CASE EndSettlePass
  <2>1. /\ cb = "settle" /\ left = {} /\ prev' = pos /\ quiet' = QuietAfterPass
        /\ UNCHANGED <<phase, exit, pos, stall, size, evId, mtimeBack>>
    BY <1>12 DEF EndSettlePass, readVars, diskVars
  <2> SUFFICES ASSUME phase = "settle", cb' # "flush", exit = "clean", tamper' = "none"
               PROVE  /\ \A f \in Files : pos[f] <= pos[f]
                      /\ \A f \in Files : pos[f] < size[f] => stall[f] >= quiet'
    <3>1. cb' # "flush" => cb' = "idle"
      BY <1>12 DEF EndSettlePass
    <3> QED BY <2>1, <3>1 DEF SettleInv
  <2>2. tamper = "none"
    BY <1>12 DEF EndSettlePass
  <2>3. prev = pos => \A f \in Files : pos[f] < size[f] => stall[f] > quiet
    BY <2>1, <2>2 DEF IInv, SettleInv
  <2>4. CASE prev = pos
    <3>1. quiet' = quiet + 1
      BY <2>1, <2>4 DEF QuietAfterPass
    <3> QED BY <3>1, <2>3, <2>4, SettleTypes DEF IInv
  <2>5. CASE prev # pos
    <3>1. quiet' = 0
      BY <2>1, <2>5 DEF QuietAfterPass
    <3> QED BY <3>1, SettleTypes DEF IInv
  <2> QED BY <2>4, <2>5
<1>13. CASE FlushPidFile
  BY <1>13 DEF FlushPidFile, SettleInv
<1>14. CASE FinishTail
  BY <1>14 DEF FinishTail, SettleInv
<1>15. CASE Fd3Line
  BY <1>15 DEF Fd3Line, SettleInv, IInv, loopVars, readVars, diskVars
<1>16. CASE Fd3Close
  BY <1>16 DEF Fd3Close, SettleInv, IInv, loopVars, readVars, diskVars
<1>17. CASE StartTailer
  BY <1>17 DEF StartTailer, SettleInv, IInv, loopVars, readVars, diskVars
<1>18. CASE Yield
  BY <1>18 DEF Yield, SettleInv, IInv, loopVars, readVars, diskVars
<1>19. CASE ParkOrReturn
  BY <1>19 DEF ParkOrReturn, SettleInv, IInv, loopVars, readVars, diskVars
<1>20. CASE Returned
  BY <1>20 DEF Returned, vars, diskVars, readVars, gateVars, loopVars, fd3Vars, IInv, SettleInv
<1> QED
  BY <1>1, <1>2, <1>3, <1>4, <1>5, <1>6, <1>7, <1>8, <1>9, <1>10, <1>11, <1>12, <1>13, <1>14,
     <1>15, <1>16, <1>17, <1>18, <1>19, <1>20 DEF Next, Traced, Tailer, InCallback, Drains

\* A capture accepted at the end of the settle loop has read everything.
LEMMA FinalInvStep == IInv /\ [Next]_vars => FinalInv'
<1> SUFFICES ASSUME IInv, [Next]_vars PROVE FinalInv'
  OBVIOUS
<1>1. CASE UNCHANGED vars
  BY <1>1 DEF vars, diskVars, readVars, gateVars, loopVars, fd3Vars, IInv, FinalInv
<1>2. CASE \E f \in PidFiles : StraceWrites(f)
  BY <1>2 DEF StraceWrites, FinalInv, IInv, ControlInv, loopVars
<1>3. CASE ShimStamps
  BY <1>3 DEF ShimStamps, FinalInv, IInv, readVars, loopVars
<1>4. CASE ShimWrites
  BY <1>4 DEF ShimWrites, FinalInv, IInv, DiskInv, readVars, loopVars
<1>5. CASE CtimeSettles
  BY <1>5 DEF CtimeSettles, FinalInv, IInv, ControlInv, readVars, loopVars, diskVars
<1>6. CASE EventsDisturbed
  BY <1>6 DEF EventsDisturbed, FinalInv, IInv, readVars, loopVars
<1>7. CASE StraceExits
  BY <1>7 DEF StraceExits, FinalInv, IInv, ControlInv, loopVars
<1>8. CASE Drains
  <2>1. DrainedTypes /\ DrainedFiles /\ DrainedClean(tamper) /\ Covers(queue', delivered, Got')
    BY <1>8, DrainActions
  <2>2. phase # "done" /\ cb' # "flush" /\ UNCHANGED <<phase, exit>>
    BY <1>8, DrainControl
  <2> QED BY <2>1, <2>2 DEF FinalInv, DrainedClean, IInv
<1>9. CASE ExitHandler
  BY <1>9 DEF ExitHandler, FinalInv, recordTamper, Idle
<1>10. CASE DrainPidFile
  BY <1>10 DEF DrainPidFile, FinalInv, IInv, ControlInv, diskVars, loopVars
<1>11. CASE EndTick
  BY <1>11 DEF EndTick, FinalInv, IInv, ControlInv, readVars, loopVars, diskVars
<1>12. CASE EndSettlePass
  <2>1. /\ cb = "settle" /\ left = {} /\ quiet' = QuietAfterPass
        /\ UNCHANGED <<phase, exit, pos, size, evId, mtimeBack, childExited>>
    BY <1>12 DEF EndSettlePass, readVars, diskVars
  <2>2. phase = "settle"
    BY <2>1 DEF IInv, ControlInv, TypeOK, LoopTypeOK
  <2>3. exit = "signal" => tamper' # "none"
    <3>1. exit = "signal" => tamper # "none"
      BY <2>2 DEF IInv, FinalInv
    <3> QED BY <1>12, <3>1 DEF EndSettlePass, settleVerdict
  <2>4. ASSUME cb' = "flush", exit = "clean", tamper' = "none"
        PROVE  evId = "same" /\ ~mtimeBack /\ \A f \in Files : pos[f] = size[f]
    <3>1. tamper = "none" /\ quiet' >= settleQuietPasses
      BY <1>12, <2>4, <2>1, SettleTypes DEF EndSettlePass, settleVerdict, QuietAfterPass, IInv
    <3>2. prev = pos /\ quiet + 1 >= settleQuietPasses
      BY <3>1, <2>1, SettleTypes DEF QuietAfterPass, IInv
    <3>3. /\ \A f \in Files : pos[f] < size[f] => stall[f] > quiet
          /\ evId = "same" /\ ~mtimeBack /\ pos[Events] <= size[Events]
      BY <3>1, <3>2, <2>1, <2>2, <2>4 DEF IInv, SettleInv
    <3>4. \A f \in Files : pos[f] <= size[f]
      BY <3>3 DEF IInv, DiskInv, Files
    <3>5. \A f \in Files : pos[f] = size[f]
      BY <3>2, <3>3, <3>4, SettleTypes DEF IInv
    <3> QED BY <3>3, <3>5
  <2> QED BY <2>1, <2>2, <2>3, <2>4 DEF FinalInv
<1>13. CASE FlushPidFile
  BY <1>13 DEF FlushPidFile, FinalInv, IInv, diskVars, loopVars
<1>14. CASE FinishTail
  BY <1>14 DEF FinishTail, FinalInv, IInv, ControlInv, diskVars
<1>15. CASE Fd3Line
  BY <1>15 DEF Fd3Line, FinalInv, IInv, ControlInv, readVars, loopVars, diskVars
<1>16. CASE Fd3Close
  BY <1>16 DEF Fd3Close, FinalInv, IInv, ControlInv, readVars, loopVars, diskVars
<1>17. CASE StartTailer
  BY <1>17 DEF StartTailer, FinalInv, IInv, ControlInv, readVars, loopVars, diskVars
<1>18. CASE Yield
  BY <1>18 DEF Yield, FinalInv, IInv, ControlInv, readVars, loopVars, diskVars
<1>19. CASE ParkOrReturn
  BY <1>19 DEF ParkOrReturn, FinalInv, IInv, ControlInv, readVars, loopVars, diskVars
<1>20. CASE Returned
  BY <1>20 DEF Returned, vars, diskVars, readVars, gateVars, loopVars, fd3Vars, IInv, FinalInv
<1> QED
  BY <1>1, <1>2, <1>3, <1>4, <1>5, <1>6, <1>7, <1>8, <1>9, <1>10, <1>11, <1>12, <1>13, <1>14,
     <1>15, <1>16, <1>17, <1>18, <1>19, <1>20 DEF Next, Traced, Tailer, InCallback, Drains

\* Whatever gives a sleeping consumer work wakes it.
LEMMA WakeInvStep == IInv /\ [Next]_vars => WakeInv'
<1> SUFFICES ASSUME IInv, [Next]_vars PROVE WakeInv'
  OBVIOUS
<1>1. CASE UNCHANGED vars
  BY <1>1 DEF vars, diskVars, readVars, gateVars, loopVars, fd3Vars, IInv, WakeInv
<1>2. CASE \E f \in PidFiles : StraceWrites(f)
  BY <1>2 DEF StraceWrites, wake, WakeIfQueued, Awake, Idle, WakeInv, IInv, ControlInv, readVars,
     loopVars, fd3Vars
<1>3. CASE ShimStamps
  BY <1>3 DEF ShimStamps, wake, WakeIfQueued, Awake, Idle, WakeInv, IInv, ControlInv, readVars,
     loopVars, fd3Vars
<1>4. CASE ShimWrites
  BY <1>4 DEF ShimWrites, wake, WakeIfQueued, Awake, Idle, WakeInv, IInv, ControlInv, readVars,
     loopVars, fd3Vars
<1>5. CASE CtimeSettles
  BY <1>5 DEF CtimeSettles, wake, WakeIfQueued, Awake, Idle, WakeInv, IInv, ControlInv, readVars,
     loopVars, fd3Vars
<1>6. CASE EventsDisturbed
  BY <1>6 DEF EventsDisturbed, wake, WakeIfQueued, Awake, Idle, WakeInv, IInv, ControlInv,
     readVars, loopVars, fd3Vars
<1>7. CASE StraceExits
  BY <1>7 DEF StraceExits, wake, WakeIfQueued, Awake, Idle, WakeInv, IInv, ControlInv, readVars,
     loopVars, fd3Vars
<1>8. CASE Drains
  BY <1>8, DrainControl DEF Awake, WakeInv, IInv
<1>9. CASE ExitHandler
  BY <1>9 DEF ExitHandler, wake, WakeIfQueued, Awake, Idle, WakeInv, IInv, ControlInv, readVars,
     loopVars, fd3Vars
<1>10. CASE DrainPidFile
  BY <1>10 DEF DrainPidFile, wake, WakeIfQueued, Awake, Idle, WakeInv, IInv, ControlInv,
     readVars, loopVars, fd3Vars
<1>11. CASE EndTick
  BY <1>11 DEF EndTick, wake, WakeIfQueued, Awake, Idle, WakeInv, IInv, ControlInv, readVars,
     loopVars, fd3Vars
<1>12. CASE EndSettlePass
  BY <1>12 DEF EndSettlePass, wake, WakeIfQueued, Awake, Idle, WakeInv, IInv, ControlInv,
     readVars, loopVars, fd3Vars
<1>13. CASE FlushPidFile
  BY <1>13 DEF FlushPidFile, WakeInv, IInv, loopVars, fd3Vars
<1>14. CASE FinishTail
  BY <1>14 DEF FinishTail, wake, WakeIfQueued, Awake, Idle, WakeInv, IInv, ControlInv, readVars,
     loopVars, fd3Vars
<1>15. CASE Fd3Line
  BY <1>15 DEF Fd3Line, wake, WakeIfQueued, Awake, Idle, WakeInv, IInv, ControlInv, readVars,
     loopVars, fd3Vars
<1>16. CASE Fd3Close
  BY <1>16 DEF Fd3Close, wake, WakeIfQueued, Awake, Idle, WakeInv, IInv, ControlInv, readVars,
     loopVars, fd3Vars
<1>17. CASE StartTailer
  BY <1>17 DEF StartTailer, wake, WakeIfQueued, Awake, Idle, WakeInv, IInv, ControlInv, readVars,
     loopVars, fd3Vars
<1>18. CASE Yield
  BY <1>18 DEF Yield, wake, WakeIfQueued, Awake, Idle, WakeInv, IInv, ControlInv, readVars,
     loopVars, fd3Vars
<1>19. CASE ParkOrReturn
  BY <1>19 DEF ParkOrReturn, wake, WakeIfQueued, Awake, Idle, WakeInv, IInv, ControlInv,
     readVars, loopVars, fd3Vars
<1>20. CASE Returned
  BY <1>20 DEF Returned, vars, diskVars, readVars, gateVars, loopVars, fd3Vars, IInv, WakeInv
<1> QED
  BY <1>1, <1>2, <1>3, <1>4, <1>5, <1>6, <1>7, <1>8, <1>9, <1>10, <1>11, <1>12, <1>13, <1>14,
     <1>15, <1>16, <1>17, <1>18, <1>19, <1>20 DEF Next, Traced, Tailer, InCallback, Drains

\* Without interference a call of drainEventsFile records nothing.
LEMMA BenignDrained ==
    ASSUME IInv, exit \in {"alive", "clean"}, ~disturbed, drainEventsFile(tamper),
           UNCHANGED <<size, evId, lag, mtimeBack, renamed, exit, disturbed, lost>>
    PROVE  BenignInv'
<1>1. /\ tamper \in {"none", "unsettled"} /\ evId = "same" /\ ~mtimeBack /\ ~renamed /\ ~lost
      /\ maxSeen <= size[Events]
      /\ mtimeNew /\ ~lag => size[Events] > pos[Events]
      /\ mtimeStrikes > 0 => mtimeStrikes = 1 /\ (size[Events] > pos[Events] \/ (lag /\ ~mtimeNew))
  BY DEF IInv, BenignInv
<1>2. /\ pos[Events] \in Nat /\ size[Events] \in Nat /\ maxSeen \in Nat
      /\ mtimeStrikes \in 0..3 /\ mtimeNew \in BOOLEAN /\ lag \in BOOLEAN
  BY BoundsAssumption
     DEF IInv, TypeOK, ReadTypeOK, DiskTypeOK, GateTypeOK, Files, META_ADVANCE_REQUIRED_POLLS
<1>3. EventsAccepted(tamper)
  BY <1>1, <1>2 DEF drainEventsFile, EventsRefused
<1>4. maxSeen' = size[Events]
  BY <1>3 DEF EventsAccepted
<1>5. CASE ctimeStrikes' = META_ADVANCE_REQUIRED_POLLS
  <2>1. tamper' = tamper /\ UNCHANGED <<pos, mtimeNew, mtimeStrikes>>
    BY <1>3, <1>5 DEF EventsAccepted, readVars
  <2> QED BY <2>1, <1>1, <1>2, <1>4 DEF BenignInv
<1>6. CASE ctimeStrikes' # META_ADVANCE_REQUIRED_POLLS
  <2> DEFINE hit == statted /\ mtimeNew /\ NoNewBytes
  <2>1. mtimeStrikes' = Strike(hit, mtimeStrikes)
    BY <1>3, <1>6 DEF EventsAccepted
  <2>2. hit => mtimeNew /\ size[Events] = pos[Events]
    BY DEF NoNewBytes
  <2>3. hit => lag /\ mtimeStrikes = 0
    BY <2>2, <1>1, <1>2
  <2>4. mtimeStrikes' = (IF hit THEN 1 ELSE 0)
    BY <2>1, <2>3, <1>2 DEF Strike, META_ADVANCE_REQUIRED_POLLS
  <2>5. mtimeStrikes' # META_ADVANCE_REQUIRED_POLLS
    BY <2>4 DEF META_ADVANCE_REQUIRED_POLLS
  <2>6. mtimeNew' = FALSE /\ tamper' = tamper
    BY <1>3, <1>6, <2>5 DEF EventsAccepted
  <2>7. mtimeStrikes' > 0 => mtimeStrikes' = 1 /\ lag /\ ~mtimeNew'
    BY <2>3, <2>4, <2>6
  <2> QED BY <2>6, <2>7, <1>1, <1>2, <1>4 DEF BenignInv
<1> QED
  BY <1>5, <1>6

\* An audit nothing interferes with is not taken for tampered.
LEMMA BenignInvStep == IInv /\ [Next]_vars => BenignInv'
<1> SUFFICES ASSUME IInv, [Next]_vars PROVE BenignInv'
  OBVIOUS
<1>1. CASE UNCHANGED vars
  BY <1>1 DEF vars, diskVars, readVars, gateVars, loopVars, fd3Vars, IInv, BenignInv
<1>2. CASE \E f \in PidFiles : StraceWrites(f)
  <2>1. size'[Events] = size[Events]
    BY <1>2, SourcesAssumption DEF StraceWrites, IInv, TypeOK, DiskTypeOK, Files
  <2> QED BY <1>2, <2>1 DEF StraceWrites, BenignInv, IInv, readVars, gateVars
<1>3. CASE ShimStamps
  BY <1>3 DEF ShimStamps, BenignInv, IInv, diskVars, readVars, gateVars
<1>4. CASE ShimWrites
  <2>1. /\ size'[Events] = size[Events] + 1 /\ size[Events] \in Nat /\ pos[Events] \in Nat
        /\ maxSeen \in Nat
    BY <1>4, BoundsAssumption DEF ShimWrites, IInv, TypeOK, DiskTypeOK, ReadTypeOK, GateTypeOK,
       Files
  <2>2. pos[Events] <= maxSeen
    BY DEF IInv, DiskInv
  <2>3. UNCHANGED <<exit, disturbed, tamper, evId, mtimeBack, renamed, maxSeen, pos, mtimeNew, mtimeStrikes>>
    BY <1>4 DEF ShimWrites, readVars, gateVars
  <2> SUFFICES ASSUME exit \in {"alive", "clean"}, ~disturbed
               PROVE  BenignInv'
    BY <2>3 DEF BenignInv
  <2>4. /\ tamper \in {"none", "unsettled"} /\ evId = "same" /\ ~mtimeBack /\ ~renamed /\ ~lost
        /\ maxSeen <= size[Events] /\ (mtimeStrikes > 0 => mtimeStrikes = 1)
    BY DEF IInv, BenignInv
  <2>5. size'[Events] > pos[Events] /\ maxSeen <= size'[Events] /\ ~lost'
    <3>1. lost' = (lost \/ size[Events] < pos[Events])
      BY <1>4 DEF ShimWrites
    <3>2. ~(size[Events] < pos[Events])
      BY <2>1, <2>2, <2>4
    <3>3. ~lost'
      BY <2>4, <3>1, <3>2, Zenon
    <3>4. size'[Events] > pos[Events] /\ maxSeen <= size'[Events]
      BY <2>1, <2>2, <2>4
    <3> QED BY <3>3, <3>4
  <2> QED BY <2>3, <2>4, <2>5 DEF BenignInv
<1>5. CASE CtimeSettles
  BY <1>5 DEF CtimeSettles, BenignInv, IInv, diskVars, readVars, gateVars
<1>6. CASE EventsDisturbed
  BY <1>6 DEF EventsDisturbed, BenignInv
<1>7. CASE StraceExits
  BY <1>7 DEF StraceExits, BenignInv, IInv, diskVars, readVars, gateVars
<1>8. CASE Drains
  <2>1. CASE exit \in {"alive", "clean"} /\ ~disturbed
    <3>1. ~renamed
      BY <2>1 DEF IInv, BenignInv
    <3> QED BY <1>8, <2>1, <3>1, DrainControl, BenignDrained
  <2>2. CASE ~(exit \in {"alive", "clean"} /\ ~disturbed)
    BY <1>8, <2>2, DrainControl DEF BenignInv
  <2> QED BY <2>1, <2>2
<1>9. CASE ExitHandler
  BY <1>9 DEF ExitHandler, BenignInv, IInv, diskVars, readVars, gateVars
<1>10. CASE DrainPidFile
  <2>1. PICK f \in left, n \in Nat : ReadDone(f, n)
    BY <1>10, ReadAction
  <2>2. pos'[Events] = pos[Events]
    BY <2>1, SourcesAssumption DEF ReadDone, IInv, TypeOK, LoopTypeOK, Files
  <2> QED BY <1>10, <2>2 DEF DrainPidFile, BenignInv, IInv, diskVars, gateVars
<1>11. CASE EndTick
  BY <1>11 DEF EndTick, BenignInv, IInv, diskVars, readVars, gateVars
<1>12. CASE EndSettlePass
  <2>1. phase = "settle"
    BY <1>12 DEF EndSettlePass, IInv, ControlInv, TypeOK, LoopTypeOK
  <2>2. exit \in {"alive", "clean"} => childExited
    BY <2>1 DEF IInv, ControlInv
  <2>3. exit \in {"alive", "clean"} /\ tamper \in {"none", "unsettled"} => tamper' \in {"none", "unsettled"}
    BY <1>12, <2>2 DEF EndSettlePass, settleVerdict
  <2> QED BY <1>12, <2>3 DEF EndSettlePass, BenignInv, IInv, diskVars, readVars, gateVars
<1>13. CASE FlushPidFile
  BY <1>13 DEF FlushPidFile, BenignInv, IInv, diskVars, gateVars
<1>14. CASE FinishTail
  BY <1>14 DEF FinishTail, BenignInv, IInv, diskVars, readVars, gateVars
<1>15. CASE Fd3Line
  BY <1>15 DEF Fd3Line, BenignInv, IInv, diskVars, readVars, gateVars
<1>16. CASE Fd3Close
  BY <1>16 DEF Fd3Close, BenignInv, IInv, diskVars, readVars, gateVars
<1>17. CASE StartTailer
  BY <1>17 DEF StartTailer, BenignInv, IInv, diskVars, readVars, gateVars
<1>18. CASE Yield
  BY <1>18 DEF Yield, BenignInv, IInv, diskVars, readVars, gateVars
<1>19. CASE ParkOrReturn
  BY <1>19 DEF ParkOrReturn, BenignInv, IInv, diskVars, readVars, gateVars
<1>20. CASE Returned
  BY <1>20 DEF Returned, vars, diskVars, readVars, gateVars, loopVars, fd3Vars, IInv, BenignInv
<1> QED
  BY <1>1, <1>2, <1>3, <1>4, <1>5, <1>6, <1>7, <1>8, <1>9, <1>10, <1>11, <1>12, <1>13, <1>14,
     <1>15, <1>16, <1>17, <1>18, <1>19, <1>20 DEF Next, Traced, Tailer, InCallback, Drains

-----------------------------------------------------------------------------
(* The theorems.                                                           *)

LEMMA InitIInv == Init => IInv
<1> SUFFICES ASSUME Init PROVE IInv
  OBVIOUS
<1> USE BoundsAssumption, SettleAssumption, SourcesAssumption
<1>1. TypeOK
  <2>0. /\ 0 \in 0..MaxTokens /\ -1 \in -1..MaxTokens /\ 0 \in 0..MaxStall
        /\ 0 \in 0..settleQuietPasses /\ 0 \in 0..3
    OBVIOUS
  <2>1. DiskTypeOK
    BY <2>0 DEF Init, DiskTypeOK
  <2>2. ReadTypeOK
    BY DEF Init, ReadTypeOK
  <2>3. GateTypeOK
    BY <2>0 DEF Init, GateTypeOK, META_ADVANCE_REQUIRED_POLLS
  <2>4. LoopTypeOK
    BY <2>0 DEF Init, LoopTypeOK
  <2> QED BY <2>1, <2>2, <2>3, <2>4 DEF TypeOK
<1>2. ControlInv
  BY DEF Init, ControlInv
<1>3. DiskInv
  BY DEF Init, DiskInv, Files
<1>4. BufferInv
  BY DEF Init, BufferInv, Flushed, Files
<1>5. QueueInv
  <2>1. \A s \in Sources : Got[s] = 0 /\ delivered[s] = 0
    BY DEF Init, Got, Sources
  <2>2. queue = <<>> /\ Len(queue) = 0
    BY DEF Init
  <2>3. \A s \in Sources : delivered[s] <= Got[s] /\ (delivered[s] + 1)..Got[s] = {}
    BY <2>1
  <2>4. 1..Len(queue) = {}
    BY <2>2
  <2> QED BY <2>3, <2>4 DEF QueueInv, Covers
<1>6. SettleInv /\ FinalInv /\ WakeInv
  BY DEF Init, SettleInv, FinalInv, WakeInv
<1>7. BenignInv
  BY DEF Init, BenignInv, Files
<1> QED
  BY <1>1, <1>2, <1>3, <1>4, <1>5, <1>6, <1>7 DEF IInv

LEMMA NextIInv == IInv /\ [Next]_vars => IInv'
<1>1. IInv /\ [Next]_vars => TypeOK'
  BY DiskTypeOKStep, ReadTypeOKStep, GateTypeOKStep, LoopTypeOKStep DEF TypeOK
<1> QED
  BY <1>1, ControlInvStep, DiskInvStep, BufferInvStep, QueueInvStep, SettleInvStep,
     FinalInvStep, WakeInvStep, BenignInvStep DEF IInv

\* The conjunction of the parts is an invariant of runStraceTailer.
THEOREM TailerInvariant == Spec => []IInv
<1>1. Init => IInv
  BY InitIInv
<1>2. IInv /\ [Next]_vars => IInv'
  BY NextIInv
<1> QED
  BY <1>1, <1>2, PTL DEF Spec

\* The state of runStraceTailer keeps its type, its queue and positions included.
THEOREM TailerTyped == Spec => []TypeOK
<1>1. IInv => TypeOK
  BY DEF IInv
<1> QED
  BY <1>1, TailerInvariant, PTL

\* No line queued, no end of the settle loop and no end of fd 3 leaves the consumer
\* asleep: wake() reaches it in every interleaving.
THEOREM NoLostWakeupHolds == Spec => []NoLostWakeup
<1>1. IInv => NoLostWakeup
  BY DEF IInv, WakeInv, NoLostWakeup
<1> QED
  BY <1>1, TailerInvariant, PTL

\* A capture that runStraceTailer returns without a tamper reason after a normal exit was read
\* to the end of every file and of fd 3, for any number of files and any bound on late reads,
\* and has lost text only to another writer of the events file.
THEOREM CaptureReadToEndHolds == Spec => []CaptureReadToEnd
<1>1. IInv => CaptureReadToEnd
  <2> SUFFICES ASSUME IInv, consumer = "finished", tamper = "none"
               PROVE  /\ exit # "signal"
                      /\ exit = "clean" =>
                           /\ \A f \in Files : delivered[f] = (size[f] + 1) \div 2
                           /\ delivered[Fd3] = fd3n
                           /\ evId = "same" /\ ~mtimeBack
                           /\ lost => disturbed
    BY DEF CaptureReadToEnd
  <2>1. phase = "done" /\ queue = <<>> /\ fd3Pending = 0
    BY DEF IInv, ControlInv
  <2>2. exit # "signal"
    BY <2>1 DEF IInv, FinalInv
  <2> SUFFICES ASSUME exit = "clean"
               PROVE  /\ \A f \in Files : delivered[f] = (size[f] + 1) \div 2
                      /\ delivered[Fd3] = fd3n
                      /\ evId = "same" /\ ~mtimeBack
                      /\ lost => disturbed
    BY <2>2
  <2>3. evId = "same" /\ ~mtimeBack /\ \A f \in Files : pos[f] = size[f]
    BY <2>1 DEF IInv, FinalInv
  <2>4. Got \in [Sources -> Nat] /\ delivered \in [Sources -> Nat]
    BY GotType DEF IInv, TypeOK, ReadTypeOK
  <2>5. \A s \in Sources : delivered[s] = Got[s]
    <3>1. \A s \in Sources : delivered[s] <= Got[s]
      BY DEF IInv, QueueInv, Covers
    <3>2. \A s \in Sources : \A n \in (delivered[s] + 1)..Got[s] :
             \E i \in 1..Len(queue) : queue[i] = [file |-> s, n |-> n]
      BY DEF IInv, QueueInv, Covers
    <3>3. 1..Len(queue) = {}
      BY <2>1
    <3>4. \A s \in Sources : ~(delivered[s] < Got[s])
      <4> SUFFICES ASSUME NEW s \in Sources, delivered[s] < Got[s] PROVE FALSE
        OBVIOUS
      <4>1. Got[s] \in (delivered[s] + 1)..Got[s]
        BY <2>4
      <4> QED BY <4>1, <3>2, <3>3
    <3> QED BY <3>1, <3>4, <2>4
  <2>6. \A f \in Files : f \in Sources /\ f # Fd3 /\ buf[f] = 0
    BY <2>1, SourcesAssumption DEF Files, Sources, IInv, BufferInv, Flushed
  <2>7. \A f \in Files : delivered[f] = (size[f] + 1) \div 2
    <3> SUFFICES ASSUME NEW f \in Files PROVE delivered[f] = (size[f] + 1) \div 2
      OBVIOUS
    <3>1. delivered[f] = (pos[f] - buf[f] + 1) \div 2
      BY <2>5, <2>6 DEF Got
    <3>2. pos[f] - buf[f] = size[f]
      BY <2>3, <2>6, SettleTypes DEF IInv
    <3> QED BY <3>1, <3>2
  <2>8. delivered[Fd3] = fd3n
    <3>1. Fd3 \in Sources /\ fd3n \in Nat
      BY BoundsAssumption DEF Sources, IInv, TypeOK, ReadTypeOK
    <3> QED BY <3>1, <2>1, <2>5 DEF Got
  <2>9. lost => disturbed
    BY DEF IInv, BenignInv
  <2> QED BY <2>3, <2>7, <2>8, <2>9
<1> QED
  BY <1>1, TailerInvariant, PTL

\* drainEventsFile never refuses an audit nothing interfered with for tampering.
THEOREM NoFalseTamperHolds == Spec => []NoFalseTamper
<1>1. IInv => NoFalseTamper
  BY DEF IInv, BenignInv, NoFalseTamper
<1> QED
  BY <1>1, TailerInvariant, PTL

\* Each line of each source is handed over once, in the order it was written.
THEOREM LinesOnceInOrderHolds == Spec => LinesOnceInOrder
<1> DEFINE InOrder == Yield \/ delivered' # delivered =>
                        \E s \in Sources : delivered' = [delivered EXCEPT ![s] = @ + 1]
<1>1. ASSUME IInv, [Next]_vars PROVE InOrder \/ UNCHANGED vars
  <2>1. CASE Yield
    <3>1. /\ queue \in Seq(Item) /\ delivered \in [Sources -> Nat] /\ queue # <<>>
          /\ Got \in [Sources -> Nat] /\ Covers(queue, delivered, Got)
          /\ delivered' = [delivered EXCEPT ![Head(queue).file] = Head(queue).n]
      BY <1>1, <2>1, GotType DEF Yield, IInv, QueueInv, TypeOK, ReadTypeOK
    <3>2. Head(queue).file \in Sources /\ Head(queue).n = delivered[Head(queue).file] + 1
      BY <3>1, CoversTail
    <3>3. delivered' = [delivered EXCEPT ![Head(queue).file] = @ + 1]
      BY <3>1, <3>2
    <3> QED BY <3>2, <3>3
  <2>2. CASE ~Yield /\ ~(UNCHANGED vars)
    <3>1. Next /\ ~Yield
      BY <1>1, <2>2
    <3>2. delivered' = delivered
      BY <3>1, <2>2 DEF Next, Traced, Tailer, InCallback, Returned, StraceWrites, ShimStamps,
         ShimWrites, CtimeSettles, EventsDisturbed, StraceExits, Tick, SettlePass, EventsChanged,
         EventsRenamed, ExitHandler, DrainPidFile, EndTick, EndSettlePass, FlushPidFile, FinishTail,
         Fd3Line, Fd3Close, StartTailer, ParkOrReturn
    <3> QED BY <3>2, <2>2
  <2> QED BY <2>1, <2>2
<1>2. IInv /\ [Next]_vars => [InOrder]_vars
  BY <1>1
<1>3. Spec => [][InOrder]_vars
  BY <1>2, TailerInvariant, PTL DEF Spec
<1> QED
  BY <1>3 DEF LinesOnceInOrder
=============================================================================
