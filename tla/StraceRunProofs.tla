-------------------------- MODULE StraceRunProofs --------------------------
(***************************************************************************)
(* Proofs about StraceRun: however many processes the install leaves       *)
(* behind, however long the polls and the intervals between them are, no   *)
(* other process is taken for the install command while that lives; and    *)
(* however stdout is cut into chunks and wherever its bytes stop, the tail *)
(* that is kept of it is the end of all of it, every secret masked.        *)
(***************************************************************************)
EXTENDS StraceRun, FiniteSetTheorems, SequenceTheorems, WellFoundedInduction, TLAPS

\* What the polls count with.
PollTypeInv ==
    /\ alive \subseteq Pids /\ children \subseteq alive
    /\ launches \in Nat /\ streak \in Nat

\* A wrapper is strace's child, and so is the install, or the wrapper is still there.
TreeInv ==
    /\ Launcher \in alive => Launcher \in children
    /\ Install \in alive => Install \in children \/ Launcher \in children

\* Every poll that saw the wrapper alone was one that it lived to see.
StreakInv == candidate = Launcher => streak <= launches

LaunchInv == launches <= LauncherPolls

\* The invariant.
RootInv == PollTypeInv /\ TreeInv /\ StreakInv /\ LaunchInv /\ RootIsInstall

-----------------------------------------------------------------------------

\* A count goes on from a sole child, or there is nothing to count.
LEMMA CountsOne ==
    ASSUME NEW seen, IsFiniteSet(seen), streak \in Nat
    PROVE  \/ counted(seen).of = None /\ counted(seen).polls = 0
           \/ \E p \in seen : /\ seen = {p} /\ counted(seen).of = p
                              /\ counted(seen).polls \in Nat
                              /\ counted(seen).polls <= streak + 1
                              /\ p # candidate => counted(seen).polls = 1
<1>1. CASE Cardinality(seen) # 1
  BY <1>1 DEF counted
<1>2. CASE Cardinality(seen) = 1
  <2>1. PICK p : seen = {p}
    BY <1>2, FS_Singleton
  <2>2. (CHOOSE q \in seen : TRUE) = p
    BY <2>1
  <2>3. counted(seen) = [of |-> p, polls |-> IF p = candidate THEN streak + 1 ELSE 1]
    BY <1>2, <2>2 DEF counted
  <2> QED BY <2>1, <2>3
<1> QED BY <1>1, <1>2

\* There are finitely many processes.
LEMMA FinitePids == IsFiniteSet(Pids)
<1>1. IsFiniteSet(Daemons)
  BY PidsAssumption
<1>2. IsFiniteSet({Install, Launcher})
  <2>1. IsFiniteSet({Install})
    BY FS_Singleton
  <2>2. IsFiniteSet({Install} \cup {Launcher})
    BY <2>1, FS_AddElement
  <2>3. {Install} \cup {Launcher} = {Install, Launcher}
    OBVIOUS
  <2> QED BY <2>2, <2>3
<1> QED
  BY <1>1, <1>2, FS_Union DEF Pids

\* Nothing has been polled yet.
LEMMA InitRoot == Init => RootInv
  BY PollsAssumption DEF Init, RootInv, PollTypeInv, TreeInv, StreakInv, LaunchInv, RootIsInstall

\* The processes come and go, and leave the polls alone.
LEMMA TreeKeepsRoot == RootInv /\ Tree => RootInv'
<1> SUFFICES ASSUME RootInv, Tree PROVE RootInv'
  OBVIOUS
<1> USE PidsAssumption DEF RootInv, PollTypeInv, TreeInv, StreakInv, LaunchInv, RootIsInstall,
                           pollVars, runVars, tailVars, treeVars, Others
<1>1. ASSUME NEW p \in Pids, StraceForks(p) PROVE RootInv'
  BY <1>1 DEF StraceForks, Pids
<1>2. ASSUME NEW p \in Pids, Exits(p) PROVE RootInv'
  BY <1>2 DEF Exits
<1>3. ASSUME NEW d \in Pids, Daemonise(d) PROVE RootInv'
  BY <1>3 DEF Daemonise, Pids
<1>4. CASE Launch
  BY <1>4 DEF Launch, Pids
<1>5. CASE LauncherExits
  BY <1>5 DEF LauncherExits
<1>6. CASE StraceExits
  BY <1>6 DEF StraceExits
<1>7. ASSUME NEW b \in Bytes, Write(b) PROVE RootInv'
  BY <1>7 DEF Write
<1> QED
  BY <1>1, <1>2, <1>3, <1>4, <1>5, <1>6, <1>7 DEF Tree

\* A poll that goes on counting, or that settles on the sole child of enough polls.
LEMMA PollKeepsRoot == RootInv /\ Poll => RootInv'
<1> SUFFICES ASSUME RootInv, Poll PROVE RootInv'
  OBVIOUS
<1> USE DEF RootInv
<1>1. PICK seen \in {children, {}} :
        /\ candidate' = counted(seen).of /\ streak' = counted(seen).polls
        /\ IF streak' >= settlePolls
           THEN Settled(candidate') /\ UNCHANGED <<iter, elapsed>>
           ELSE /\ iter' = iter + 1 /\ \E d \in Delays : elapsed' = elapsed + d
                /\ UNCHANGED runVars
  BY DEF Poll
<1>2. /\ UNCHANGED <<alive, children>>
      /\ Launcher \in alive => launches < LauncherPolls
      /\ launches' = IF Launcher \in alive THEN launches + 1 ELSE launches
  BY DEF Poll, Polling
<1>3. IsFiniteSet(seen)
  BY <1>1, FinitePids, FS_Subset, FS_EmptySet DEF PollTypeInv
<1>4. \/ candidate' = None /\ streak' = 0
      \/ \E p \in seen : /\ seen = {p} /\ candidate' = p
                         /\ streak' \in Nat /\ streak' <= streak + 1
                         /\ p # candidate => streak' = 1
  BY <1>1, <1>3, CountsOne DEF PollTypeInv
<1>5. PollTypeInv'
  BY <1>2, <1>4 DEF PollTypeInv
<1>6. TreeInv'
  BY <1>2 DEF TreeInv
<1>7. LaunchInv'
  BY <1>2, PollsAssumption DEF LaunchInv, PollTypeInv
<1>8. StreakInv'
  <2> SUFFICES ASSUME candidate' = Launcher PROVE streak' <= launches'
    BY DEF StreakInv
  <2>1. Launcher \in seen
    BY <1>4, PidsAssumption DEF Pids
  <2>2. Launcher \in alive
    BY <2>1, <1>1 DEF PollTypeInv
  <2>3. launches' = launches + 1
    BY <2>2, <1>2
  <2>4. streak' \in Nat /\ streak' <= streak + 1 /\ (Launcher # candidate => streak' = 1)
    BY <1>4, PidsAssumption DEF Pids
  <2>5. CASE candidate = Launcher
    BY <2>3, <2>4, <2>5 DEF StreakInv, PollTypeInv
  <2>6. CASE candidate # Launcher
    BY <2>3, <2>4, <2>6 DEF PollTypeInv
  <2> QED BY <2>5, <2>6
<1>9. RootIsInstall'
  <2>1. CASE streak' < settlePolls
    <3>1. UNCHANGED runVars
      BY <1>1, <2>1, <1>5, PollsAssumption DEF PollTypeInv
    <3> QED BY <3>1 DEF runVars, RootIsInstall
  <2>2. CASE ~(streak' < settlePolls)
    <3> SUFFICES ASSUME rootPid' \notin {None, Install} PROVE ~installWasAlive'
      BY DEF RootIsInstall
    <3>1. rootPid' = candidate' /\ installWasAlive' = (Install \in alive)
      BY <1>1, <2>2, <1>5, PollsAssumption DEF PollTypeInv, Settled
    <3>2. PICK p \in seen : seen = {p} /\ candidate' = p
      BY <1>4, <3>1
    <3>3. p # Launcher
      <4> SUFFICES ASSUME p = Launcher PROVE FALSE
        OBVIOUS
      <4>1. streak' <= launches'
        BY <1>8, <3>2 DEF StreakInv
      <4>2. launches' <= LauncherPolls
        BY <1>7 DEF LaunchInv
      <4> QED
        BY <4>1, <4>2, <2>2, <1>5, PollsAssumption DEF PollTypeInv
    <3>4. children = {p} /\ p # Install
      BY <1>1, <3>1, <3>2
    <3>5. Install \notin alive
      BY <3>3, <3>4 DEF TreeInv
    <3> QED BY <3>1, <3>5
  <2> QED BY <2>1, <2>2
<1> QED
  BY <1>5, <1>6, <1>7, <1>8, <1>9

\* The rest of run reads, waits and returns.
LEMMA RunnerKeepsRoot == RootInv /\ Runner => RootInv'
<1> SUFFICES ASSUME RootInv, Runner PROVE RootInv'
  OBVIOUS
<1>1. CASE Poll
  BY <1>1, PollKeepsRoot
<1> USE DEF RootInv, PollTypeInv, TreeInv, StreakInv, LaunchInv, RootIsInstall, treeVars, pollVars
<1>2. CASE GiveUp
  BY <1>2 DEF GiveUp, Polling, Settled
<1>3. ASSUME NEW n \in 1..MaxBytes, Data(n) PROVE RootInv'
  BY <1>3 DEF Data, Reading, runVars
<1>4. CASE End
  BY <1>4 DEF End, Reading, runVars
<1>5. CASE Close
  BY <1>5 DEF Close, Emits
<1>6. CASE SpawnError
  BY <1>6 DEF SpawnError, Emits
<1>7. CASE TailerReturns
  BY <1>7 DEF TailerReturns
<1> QED
  BY <1>1, <1>2, <1>3, <1>4, <1>5, <1>6, <1>7 DEF Runner

\* Every step keeps the invariant.
LEMMA NextKeepsRoot == RootInv /\ [Next]_vars => RootInv'
<1> SUFFICES ASSUME RootInv, [Next]_vars PROVE RootInv'
  OBVIOUS
<1>1. CASE Tree
  BY <1>1, TreeKeepsRoot
<1>2. CASE Runner
  BY <1>2, RunnerKeepsRoot
<1>3. CASE Done \/ UNCHANGED vars
  BY <1>3 DEF Done, vars, treeVars, pollVars, runVars, RootInv, PollTypeInv, TreeInv, StreakInv,
              LaunchInv, RootIsInstall
<1> QED
  BY <1>1, <1>2, <1>3 DEF Next

-----------------------------------------------------------------------------

\* readStraceChildPid settles on nothing but the install command as long as that lives:
\* with a wrapper that lives for fewer polls than settle, and any number of daemons.
THEOREM RootIsInstallHolds == Spec => []RootIsInstall
<1>1. Init => RootInv
  BY InitRoot
<1>2. RootInv /\ [Next]_vars => RootInv'
  BY NextKeepsRoot
<1>3. RootInv => RootIsInstall
  BY DEF RootInv
<1> QED
  BY <1>1, <1>2, <1>3, PTL DEF Spec

-----------------------------------------------------------------------------
(* Texts.                                                                  *)

Text == Seq(Chars)

\* Text and more text.
x ++ y == x \o y

\* A set of numbers has a least.
LEMMA Least ==
    ASSUME NEW T \in SUBSET Nat, T # {}
    PROVE  \E x \in T : \A y \in T : x <= y
<1> DEFINE R == OpToRel(<, Nat)
<1>1. R = {ss \in Nat \X Nat : ss[1] < ss[2]}
  BY DEF OpToRel
<1>2. IsWellFoundedOn(R, Nat)
  BY NatLessThanWellFounded
<1>3. PICK x \in T : \A y \in T : <<y, x>> \notin R
  <2> HIDE DEF R
  <2> QED BY <1>2, WFMin
<1>4. \A y \in T : ~(y < x)
  BY <1>1, <1>3
<1> HIDE DEF R
<1> QED BY <1>3, <1>4

\* What text and more text make.
LEMMA Joined ==
    ASSUME NEW x \in Text, NEW y \in Text
    PROVE  /\ Len(x) \in Nat /\ Len(y) \in Nat /\ x ++ y \in Text /\ Len(x ++ y) = Len(x) + Len(y)
           /\ \A i \in 1..Len(x) : (x ++ y)[i] = x[i]
           /\ \A i \in 1..Len(y) : (x ++ y)[Len(x) + i] = y[i]
<1>1. PICK n \in Nat, m \in Nat : n = Len(x) /\ m = Len(y)
  BY LenProperties DEF Text
<1>2. /\ x ++ y \in Text /\ Len(x ++ y) = n + m
      /\ \A i \in 1..n + m : (x ++ y)[i] = IF i <= n THEN x[i] ELSE y[i - n]
  BY <1>1, ConcatProperties DEF Text, ++
<1>3. \A i \in 1..n : (x ++ y)[i] = x[i]
  BY <1>2
<1>4. ASSUME NEW i \in 1..m PROVE (x ++ y)[n + i] = y[i]
  <2>1. n + i \in 1..n + m /\ ~(n + i <= n) /\ n + i - n = i
    OBVIOUS
  <2> QED BY <1>2, <2>1
<1> QED BY <1>1, <1>2, <1>3, <1>4

\* Two texts are the same if they have the same length and the same characters.
LEMMA SameText ==
    ASSUME NEW x \in Text, NEW y \in Text, Len(x) = Len(y), \A i \in 1..Len(x) : x[i] = y[i]
    PROVE  x = y
  BY SeqEqual DEF Text

\* Where text is joined first makes no difference.
LEMMA Assoc ==
    ASSUME NEW x \in Text, NEW y \in Text, NEW z \in Text
    PROVE  (x ++ y) ++ z = x ++ (y ++ z)
  BY ConcatAssociative DEF Text, ++

\* ... and what is joined is text.
LEMMA Glued ==
    ASSUME NEW x \in Text, NEW y \in Text, NEW z \in Text
    PROVE  /\ x ++ y \in Text /\ y ++ z \in Text /\ (x ++ y) ++ z = x ++ (y ++ z)
<1>1. (x ++ y) ++ z = x ++ (y ++ z)
  BY Assoc
<1>2. x ++ y \in Text /\ y ++ z \in Text
  BY ConcatProperties DEF Text, ++
<1> QED BY <1>1, <1>2

\* The same for four.
LEMMA GluedTwice ==
    ASSUME NEW x \in Text, NEW w \in Text, NEW z \in Text, NEW d \in Text
    PROVE  (x ++ (w ++ z)) ++ d = x ++ (w ++ (z ++ d))
<1>1. \A a, b, c \in Text : (a ++ b) ++ c = a ++ (b ++ c)
  BY Assoc
<1>2. (w ++ z) ++ d = w ++ (z ++ d)
  BY <1>1
<1>3. PICK u : u \in Text /\ u = w ++ z
  BY Glued
<1>4. (x ++ u) ++ d = x ++ (u ++ d)
  BY <1>1, <1>3
<1> QED BY <1>2, <1>3, <1>4, Zenon

\* The empty text.
LEMMA Nothing ==
    /\ <<>> \in Text /\ Len(<<>>) = 0
    /\ \A x \in Text : x ++ <<>> = x /\ <<>> ++ x = x /\ Len(x) \in Nat /\ (Len(x) = 0 => x = <<>>)
<1>1. <<>> \in Text /\ Len(<<>>) = 0
  BY EmptySeq DEF Text
<1>2. ASSUME NEW x \in Text PROVE x ++ <<>> = x /\ <<>> ++ x = x
  BY ConcatEmptySeq DEF Text, ++
<1>3. ASSUME NEW x \in Text PROVE Len(x) \in Nat /\ (Len(x) = 0 => x = <<>>)
  BY EmptySeq, LenProperties DEF Text
<1> QED BY <1>1, <1>2, <1>3

\* A text is two texts if its characters are theirs.
LEMMA Splice ==
    ASSUME NEW s \in Text, NEW x \in Text, NEW y \in Text, Len(s) = Len(x) + Len(y),
           \A i \in 1..Len(x) : s[i] = x[i], \A i \in 1..Len(y) : s[Len(x) + i] = y[i]
    PROVE  s = x ++ y
<1>1. PICK n \in Nat, m \in Nat : n = Len(x) /\ m = Len(y)
  BY Nothing
<1>2. PICK xy \in Text : xy = x ++ y
  BY Joined
<1>3. /\ Len(xy) = n + m /\ Len(s) = n + m
      /\ \A i \in 1..n : xy[i] = x[i] /\ s[i] = x[i]
      /\ \A i \in 1..m : xy[n + i] = y[i] /\ s[n + i] = y[i]
  <2>1. /\ Len(xy) = n + m
        /\ \A i \in 1..n : xy[i] = x[i]
        /\ \A i \in 1..m : xy[n + i] = y[i]
    <3>1. /\ Len(x ++ y) = Len(x) + Len(y)
          /\ \A i \in 1..Len(x) : (x ++ y)[i] = x[i]
          /\ \A i \in 1..Len(y) : (x ++ y)[Len(x) + i] = y[i]
      BY Joined, Zenon
    <3> QED BY <1>1, <1>2, <3>1
  <2>2. /\ Len(s) = n + m
        /\ \A i \in 1..n : s[i] = x[i]
        /\ \A i \in 1..m : s[n + i] = y[i]
    BY <1>1
  <2> QED BY <2>1, <2>2
<1>4. ASSUME NEW i \in 1..n + m PROVE s[i] = xy[i]
  <2>1. CASE i <= n
    <3>1. i \in 1..n
      BY <2>1
    <3> QED BY <1>3, <3>1
  <2>2. CASE i > n
    <3>1. PICK k \in 1..m : i = n + k
      <4>1. i - n \in 1..m /\ i = n + (i - n)
        BY <2>2
      <4> QED BY <4>1
    <3> QED BY <1>3, <3>1
  <2> QED BY <2>1, <2>2
<1>5. s = xy
  BY <1>3, <1>4, SameText
<1> QED BY <1>2, <1>5

\* The first characters of a text.
LEMMA Front ==
    ASSUME NEW s \in Text, NEW n \in 0..Len(s)
    PROVE  /\ SubSeq(s, 1, n) \in Text /\ Len(SubSeq(s, 1, n)) = n
           /\ \A i \in 1..n : SubSeq(s, 1, n)[i] = s[i]
<1>1. Len(s) \in Nat
  BY Nothing
<1>2. \A i \in 1..n : s[i] \in Chars
  BY <1>1, ElementOfSeq DEF Text
<1>3. /\ SubSeq(s, 1, n) \in Text /\ Len(SubSeq(s, 1, n)) = IF 1 <= n THEN n - 1 + 1 ELSE 0
      /\ \A i \in 1..n - 1 + 1 : SubSeq(s, 1, n)[i] = s[1 + i - 1]
  <2>1. 1 \in Int /\ n \in Int
    BY <1>1
  <2> QED BY <1>2, <2>1, SubSeqProperties DEF Text
<1>4. n \in Nat
  BY <1>1
<1>5. Len(SubSeq(s, 1, n)) = n
  BY <1>3, <1>4
<1>6. ASSUME NEW i \in 1..n PROVE SubSeq(s, 1, n)[i] = s[i]
  <2>1. i \in 1..n - 1 + 1 /\ 1 + i - 1 = i
    BY <1>4
  <2> QED BY <1>3, <2>1
<1> QED BY <1>3, <1>5, <1>6

\* ... and the rest of it.
LEMMA Rest ==
    ASSUME NEW s \in Text, NEW m, m = Len(s), NEW i \in 1..m + 1
    PROVE  /\ SubSeq(s, i, m) \in Text /\ Len(SubSeq(s, i, m)) = m + 1 - i
           /\ \A k \in 1..m + 1 - i : SubSeq(s, i, m)[k] = s[i - 1 + k]
           /\ s = SubSeq(s, 1, i - 1) ++ SubSeq(s, i, m)
<1>1. m \in Nat /\ i \in Nat /\ i - 1 \in 0..m
  <2>1. m \in Nat
    BY Nothing
  <2> QED BY <2>1
<1>2. \A k \in i..m : s[k] \in Chars
  BY <1>1, ElementOfSeq DEF Text
<1>3. /\ SubSeq(s, i, m) \in Text /\ Len(SubSeq(s, i, m)) = IF i <= m THEN m - i + 1 ELSE 0
      /\ \A k \in 1..m - i + 1 : SubSeq(s, i, m)[k] = s[i + k - 1]
  BY <1>1, <1>2, SubSeqProperties DEF Text
<1>4. Len(SubSeq(s, i, m)) = m + 1 - i
  BY <1>1, <1>3
<1>5. ASSUME NEW k \in 1..m + 1 - i PROVE SubSeq(s, i, m)[k] = s[i - 1 + k]
  <2>1. k \in 1..m - i + 1 /\ i + k - 1 = i - 1 + k
    BY <1>1
  <2> QED BY <1>3, <2>1
<1>6. PICK p : p = i - 1
  OBVIOUS
<1>7. PICK a \in Text, b \in Text : a = SubSeq(s, 1, p) /\ b = SubSeq(s, i, m)
  BY <1>1, <1>3, <1>6, Front
<1>8. Len(a) = p /\ Len(b) = m + 1 - i /\ \A k \in 1..p : s[k] = a[k]
  BY <1>1, <1>4, <1>6, <1>7, Front
<1>9. \A k \in 1..m + 1 - i : s[p + k] = b[k]
  BY <1>5, <1>6, <1>7
<1>10. Len(s) = p + (m + 1 - i)
  BY <1>1, <1>6
<1>11. s = a ++ b
  <2>1. Len(s) = Len(a) + Len(b) /\ \A k \in 1..Len(a) : s[k] = a[k]
    BY <1>8, <1>10
  <2>2. \A k \in 1..Len(b) : s[Len(a) + k] = b[k]
    BY <1>8, <1>9
  <2> QED BY <2>1, <2>2, Splice
<1> QED BY <1>3, <1>4, <1>5, <1>6, <1>7, <1>11

\* Of two ends of one text the shorter is an end of the longer.
LEMMA Overlap ==
    ASSUME NEW x \in Text, NEW w \in Text, NEW z \in Text, NEW t \in Text,
           x ++ w = z ++ t, Len(t) <= Len(w)
    PROVE  \E v \in Text : w = v ++ t /\ z = x ++ v /\ Len(v) = Len(w) - Len(t)
<1>1. PICK lx \in Nat, lw \in Nat, lz \in Nat, lt \in Nat :
        lx = Len(x) /\ lw = Len(w) /\ lz = Len(z) /\ lt = Len(t)
  BY Nothing
<1>2. PICK s : s = x ++ w
  OBVIOUS
<1>3. /\ Len(s) = lx + lw
      /\ \A i \in 1..lx : s[i] = x[i]
      /\ \A i \in 1..lw : s[lx + i] = w[i]
  <2>1. /\ Len(x ++ w) = Len(x) + Len(w)
        /\ \A i \in 1..Len(x) : (x ++ w)[i] = x[i]
        /\ \A i \in 1..Len(w) : (x ++ w)[Len(x) + i] = w[i]
    BY Joined, Zenon
  <2> QED BY <1>1, <1>2, <2>1
<1>4. s = z ++ t
  BY <1>2
<1>5. /\ Len(s) = lz + lt
      /\ \A i \in 1..lz : s[i] = z[i]
      /\ \A i \in 1..lt : s[lz + i] = t[i]
  <2>1. /\ Len(z ++ t) = Len(z) + Len(t)
        /\ \A i \in 1..Len(z) : (z ++ t)[i] = z[i]
        /\ \A i \in 1..Len(t) : (z ++ t)[Len(z) + i] = t[i]
    BY Joined, Zenon
  <2> QED BY <1>1, <1>4, <2>1
<1>6. PICK n \in Nat : n = lw - lt /\ lw = n + lt /\ lz = lx + n
  <2>1. lt <= lw /\ lx + lw = lz + lt
    BY <1>1, <1>3, <1>5
  <2>2. lw - lt \in Nat /\ lw = (lw - lt) + lt /\ lz = lx + (lw - lt)
    BY <2>1
  <2> QED BY <2>2
<1>7. PICK v \in Text : Len(v) = n /\ \A i \in 1..n : v[i] = w[i]
  <2>1. n \in 0..Len(w)
    BY <1>1, <1>6
  <2> QED BY <2>1, Front
<1>8. z = x ++ v
  <2>1. \A i \in 1..lx : z[i] = x[i]
    <3>1. \A i \in 1..lx : i \in 1..lz
      BY <1>6
    <3> QED BY <1>3, <1>5, <3>1
  <2>2. \A i \in 1..n : z[lx + i] = v[i]
    <3>1. \A i \in 1..n : lx + i \in 1..lz /\ i \in 1..lw
      BY <1>6
    <3> QED BY <1>3, <1>5, <1>7, <3>1
  <2>3. Len(z) = Len(x) + Len(v)
    BY <1>1, <1>6, <1>7
  <2>4. \A i \in 1..Len(x) : z[i] = x[i]
    BY <1>1, <2>1
  <2>5. \A i \in 1..Len(v) : z[Len(x) + i] = v[i]
    BY <1>1, <1>7, <2>2
  <2> QED BY <2>3, <2>4, <2>5, Splice
<1>9. w = v ++ t
  <2>1. \A i \in 1..lt : w[n + i] = t[i]
    <3>1. \A i \in 1..lt : n + i \in 1..lw /\ lx + (n + i) = lz + i
      BY <1>6
    <3> QED BY <1>3, <1>5, <3>1
  <2>2. Len(w) = Len(v) + Len(t)
    BY <1>1, <1>6, <1>7
  <2>3. \A i \in 1..Len(v) : w[i] = v[i]
    BY <1>7
  <2>4. \A i \in 1..Len(t) : w[Len(v) + i] = t[i]
    BY <1>1, <1>7, <2>1
  <2> QED BY <2>2, <2>3, <2>4, Splice
<1> QED BY <1>1, <1>6, <1>7, <1>8, <1>9

\* Where the characters of an end are.
LEMMA EndAt ==
    ASSUME NEW x \in Text, NEW w \in Text
    PROVE  \A i \in 1..Len(w) : w[i] = (x ++ w)[Len(x ++ w) - Len(w) + i]
<1>1. PICK lx \in Nat, lw \in Nat : lx = Len(x) /\ lw = Len(w)
  BY Nothing
<1>2. Len(x ++ w) = lx + lw /\ \A i \in 1..lw : (x ++ w)[lx + i] = w[i]
  BY <1>1, Joined
<1>3. Len(x ++ w) - lw = lx
  BY <1>2
<1> QED BY <1>1, <1>2, <1>3

\* Two ends of one text of the same length are the same.
LEMMA SameEnd ==
    ASSUME NEW x \in Text, NEW w \in Text, NEW z \in Text, NEW t \in Text,
           x ++ w = z ++ t, Len(t) = Len(w)
    PROVE  w = t
<1>1. PICK s : s = x ++ w /\ s = z ++ t
  OBVIOUS
<1>2. PICK k : k = Len(w) /\ k = Len(t)
  OBVIOUS
<1>3. ASSUME NEW a \in Text, NEW b \in Text, s = a ++ b, k = Len(b)
      PROVE  \A i \in 1..k : b[i] = s[Len(s) - k + i]
  BY <1>3, EndAt
<1>4. \A i \in 1..k : w[i] = s[Len(s) - k + i]
  BY <1>1, <1>2, <1>3, Zenon
<1>5. \A i \in 1..k : t[i] = s[Len(s) - k + i]
  BY <1>1, <1>2, <1>3, Zenon
<1> QED BY <1>2, <1>4, <1>5, SameText

\* More text has no fewer characters of any kind.
LEMMA CountGrows ==
    ASSUME NEW x \in Text, NEW y \in Text, NEW cs
    PROVE  Count(x, cs) \in Nat /\ Count(x ++ y, cs) \in Nat /\ Count(x, cs) <= Count(x ++ y, cs)
<1> DEFINE few == {i \in DOMAIN x : x[i] \in cs}
           more == {i \in DOMAIN (x ++ y) : (x ++ y)[i] \in cs}
<1>1. PICK n \in Nat, m \in Nat : n = Len(x) /\ m = Len(y)
  BY Nothing
<1>2. PICK xy \in Text : xy = x ++ y /\ Len(xy) = n + m /\ \A i \in 1..n : xy[i] = x[i]
  BY <1>1, Joined
<1>3. DOMAIN x = 1..n /\ DOMAIN xy = 1..n + m
  BY <1>1, <1>2, LenProperties DEF Text
<1>4. few \subseteq more
  <2>1. \A i \in 1..n : i \in 1..n + m
    OBVIOUS
  <2> QED BY <1>2, <1>3, <2>1
<1>5. IsFiniteSet(more)
  <2>1. n + m \in Int /\ 1 \in Int
    OBVIOUS
  <2>2. IsFiniteSet(1..n + m)
    BY <2>1, FS_Interval
  <2>3. more \subseteq 1..n + m
    BY <1>2, <1>3
  <2> QED BY <2>2, <2>3, FS_Subset
<1>6. Count(x, cs) = Cardinality(few) /\ Count(x ++ y, cs) = Cardinality(more)
  BY DEF Count
<1> HIDE DEF few, more
<1>7. IsFiniteSet(few) /\ Cardinality(few) <= Cardinality(more)
  BY <1>4, <1>5, FS_Subset
<1>8. Cardinality(few) \in Nat /\ Cardinality(more) \in Nat
  BY <1>5, <1>7, FS_CardinalityType
<1> QED BY <1>6, <1>7, <1>8

\* More text is no smaller.
LEMMA SizeGrows ==
    ASSUME NEW x \in Text, NEW y \in Text
    PROVE  size(x) \in Nat /\ size(x ++ y) \in Nat /\ size(x) <= size(x ++ y)
<1>1. PICK a, b, c : a = Chars \ {""} /\ b = {"e", "?"} /\ c = {"?"}
  OBVIOUS
<1>2. /\ Count(x, a) \in Nat /\ Count(x ++ y, a) \in Nat /\ Count(x, a) <= Count(x ++ y, a)
      /\ Count(x, b) \in Nat /\ Count(x ++ y, b) \in Nat /\ Count(x, b) <= Count(x ++ y, b)
      /\ Count(x, c) \in Nat /\ Count(x ++ y, c) \in Nat /\ Count(x, c) <= Count(x ++ y, c)
  BY CountGrows
<1>3. \A s : size(s) = Count(s, a) + Count(s, b) + Count(s, c)
  BY <1>1, Zenon DEF size
<1> QED BY <1>2, <1>3

\* No text has no size.
LEMMA SizeEmpty == <<>> \in Text /\ Len(<<>>) = 0 /\ size(<<>>) = 0
<1>1. \A cs : Count(<<>>, cs) = 0
  <2> SUFFICES ASSUME NEW cs PROVE Count(<<>>, cs) = 0
    OBVIOUS
  <2>1. {i \in DOMAIN <<>> : <<>>[i] \in cs} = {}
    OBVIOUS
  <2> QED BY <2>1, FS_EmptySet DEF Count
<1>2. PICK a, b, c : a = Chars \ {""} /\ b = {"e", "?"} /\ c = {"?"}
  OBVIOUS
<1>3. size(<<>>) = Count(<<>>, a) + Count(<<>>, b) + Count(<<>>, c)
  BY <1>2, Zenon DEF size
<1>4. size(<<>>) = 0
  BY <1>1, <1>3
<1> QED BY <1>4, Nothing

-----------------------------------------------------------------------------
(* The tail of a text.                                                     *)

Fits(t) == size(t) <= capBytes

\* t is an end of s that fits.
EndOf(s, t) == t \in Text /\ Fits(t) /\ \E x \in Text : s = x ++ t

\* What capTail returns is the longest such end.
LEMMA TailLongest ==
    ASSUME NEW s \in Text
    PROVE  EndOf(s, capTail(s)) /\ \A t : EndOf(s, t) => Len(t) <= Len(capTail(s))
<1>1. PICK n \in Nat : n = Len(s)
  BY Nothing
<1>2. ASSUME NEW i \in 1..n + 1
      PROVE  /\ SubSeq(s, i, n) \in Text /\ Len(SubSeq(s, i, n)) = n + 1 - i
             /\ \E x \in Text : s = x ++ SubSeq(s, i, n) /\ Len(x) = i - 1
  <2>1. i - 1 \in 0..Len(s)
    BY <1>1
  <2>2. SubSeq(s, 1, i - 1) \in Text /\ Len(SubSeq(s, 1, i - 1)) = i - 1
    BY <2>1, Front
  <2>3. /\ SubSeq(s, i, n) \in Text /\ Len(SubSeq(s, i, n)) = n + 1 - i
        /\ s = SubSeq(s, 1, i - 1) ++ SubSeq(s, i, n)
    BY <1>1, Rest
  <2> QED BY <2>2, <2>3, Zenon
<1>3. PICK fits : fits = {t \in {SubSeq(s, i, n) : i \in 1..n + 1} : Fits(t)}
  OBVIOUS
<1>4. ASSUME NEW t, EndOf(s, t)
      PROVE  t \in fits
  <2>1. PICK x \in Text : s = x ++ t /\ t \in Text /\ Fits(t)
    BY <1>4 DEF EndOf
  <2>2. PICK lx \in Nat, lt \in Nat : lx = Len(x) /\ lt = Len(t)
    BY <2>1, Nothing
  <2>3. n = lx + lt
    BY <1>1, <2>1, <2>2, Joined
  <2>4. PICK i \in 1..n + 1 : i = lx + 1 /\ n + 1 - i = lt
    BY <2>3
  <2>5. PICK b \in Text : b = SubSeq(s, i, n) /\ Len(b) = lt
    <3>1. SubSeq(s, i, n) \in Text /\ Len(SubSeq(s, i, n)) = n + 1 - i
      BY <1>2
    <3> QED BY <2>4, <3>1
  <2>6. PICK a \in Text : s = a ++ b
    BY <1>2, <2>5
  <2>7. t = b
    <3>1. x ++ t = a ++ b /\ Len(b) = Len(t)
      BY <2>1, <2>2, <2>5, <2>6, Zenon
    <3> QED BY <2>1, <3>1, SameEnd
  <2> QED BY <1>3, <2>1, <2>5, <2>7
<1>5. \A t \in fits : EndOf(s, t)
  BY <1>2, <1>3 DEF EndOf
<1>6. PICK T \in SUBSET Nat : T = {i \in 1..n + 1 : Fits(SubSeq(s, i, n))}
  <2>1. {i \in 1..n + 1 : Fits(SubSeq(s, i, n))} \in SUBSET Nat
    OBVIOUS
  <2> QED BY <2>1
<1>7. n + 1 \in T
  <2>1. SubSeq(s, n + 1, n) = <<>>
    <3>1. n + 1 \in Int /\ n \in Int /\ n < n + 1
      OBVIOUS
    <3> QED BY <3>1, SubSeqEmpty
  <2>2. Fits(<<>>)
    BY SizeEmpty, BytesAssumption DEF Fits
  <2>3. n + 1 \in 1..n + 1
    OBVIOUS
  <2> QED BY <1>6, <2>1, <2>2, <2>3
<1>8. PICK m \in T : \A i \in T : m <= i
  BY <1>7, Least
<1>9. PICK best : best = SubSeq(s, m, n)
  OBVIOUS
<1>10. best \in fits /\ \A t \in fits : Len(t) <= Len(best)
  <2>1. best \in fits
    BY <1>3, <1>6, <1>8, <1>9
  <2>2. ASSUME NEW t \in fits PROVE Len(t) <= Len(best)
    <3>1. PICK i \in T : t = SubSeq(s, i, n)
      BY <1>3, <1>6
    <3>2. m <= i /\ i \in 1..n + 1 /\ m \in 1..n + 1
      BY <1>6, <1>8
    <3>3. Len(t) = n + 1 - i /\ Len(best) = n + 1 - m
      BY <1>2, <1>9, <3>1, <3>2
    <3> QED BY <3>2, <3>3
  <2> QED BY <2>1, <2>2
<1>11. capTail(s) = CHOOSE t \in fits : \A u \in fits : Len(u) <= Len(t)
  BY <1>1, <1>3 DEF capTail, Fits
<1>12. capTail(s) \in fits /\ \A u \in fits : Len(u) <= Len(capTail(s))
  BY <1>10, <1>11
<1> QED BY <1>4, <1>5, <1>12

\* There is one longest end.
LEMMA TailUnique ==
    ASSUME NEW s \in Text, NEW t, EndOf(s, t), \A u : EndOf(s, u) => Len(u) <= Len(t)
    PROVE  capTail(s) = t
<1>1. PICK b : b = capTail(s)
  OBVIOUS
<1>2. EndOf(s, b) /\ Len(t) <= Len(b) /\ Len(b) <= Len(t)
  BY <1>1, TailLongest
<1>3. PICK x \in Text, z \in Text : s = x ++ t /\ s = z ++ b
  BY <1>2 DEF EndOf
<1>4. t \in Text /\ b \in Text
  BY <1>2 DEF EndOf
<1>5. Len(t) \in Nat /\ Len(b) \in Nat
  BY <1>4, Nothing
<1>6. Len(t) = Len(b)
  BY <1>2, <1>5
<1>7. t = b
  BY <1>3, <1>4, <1>6, SameEnd
<1> QED BY <1>1, <1>7

\* Text that is cut before more of it comes is cut as if it had come at once.
LEMMA CapTwice ==
    ASSUME NEW a \in Text, NEW b \in Text
    PROVE  capTail(a) \in Text /\ capTail(capTail(a) ++ b) = capTail(a ++ b)
<1>1. PICK c : c = capTail(a)
  OBVIOUS
<1>2. EndOf(a, c) /\ \A u : EndOf(a, u) => Len(u) <= Len(c)
  BY <1>1, TailLongest
<1>3. PICK x \in Text : c \in Text /\ a = x ++ c
  BY <1>2 DEF EndOf
<1>4. PICK w \in Text : w = c ++ b /\ a ++ b = x ++ w
  <2>1. c ++ b \in Text
    BY <1>3, Glued
  <2>2. (x ++ c) ++ b = x ++ (c ++ b)
    BY <1>3, Glued
  <2> QED BY <1>3, <2>1, <2>2
<1>5. a ++ b \in Text
  BY Glued
<1>6. PICK t : t = capTail(a ++ b)
  OBVIOUS
<1>7. EndOf(a ++ b, t) /\ \A u : EndOf(a ++ b, u) => Len(u) <= Len(t)
  BY <1>5, <1>6, TailLongest
<1>8. PICK z \in Text : t \in Text /\ a ++ b = z ++ t /\ Fits(t)
  BY <1>7 DEF EndOf
<1>9. Len(t) \in Nat /\ Len(w) \in Nat /\ Len(c) \in Nat
  BY <1>3, <1>8, Nothing
<1>10. Len(t) <= Len(w)
  <2> SUFFICES ASSUME Len(w) <= Len(t), Len(w) # Len(t) PROVE FALSE
    BY <1>9
  <2>1. PICK v \in Text : t = v ++ w /\ x = z ++ v /\ Len(v) = Len(t) - Len(w)
    <3>1. z ++ t = x ++ w /\ Len(w) <= Len(t)
      BY <1>4, <1>8
    <3> QED BY <1>8, <3>1, Overlap
  <2>2. PICK u \in Text : u = v ++ c /\ a = z ++ u /\ t = u ++ b
    <3>1. v ++ c \in Text
      BY <1>3, Glued
    <3>2. (z ++ v) ++ c = z ++ (v ++ c)
      BY <1>3, Glued
    <3>3. (v ++ c) ++ b = v ++ (c ++ b)
      BY <1>3, Glued
    <3> QED BY <1>3, <1>4, <2>1, <3>1, <3>2, <3>3
  <2>3. Fits(u)
    <3>1. size(u) \in Nat /\ size(t) \in Nat /\ size(u) <= size(t)
      BY <2>2, SizeGrows
    <3>2. size(t) <= capBytes
      BY <1>8 DEF Fits
    <3> QED BY <3>1, <3>2, BytesAssumption DEF Fits
  <2>4. Len(u) <= Len(c)
    BY <1>2, <2>2, <2>3 DEF EndOf
  <2>5. Len(u) = Len(v) + Len(c)
    BY <1>3, <2>2, Joined
  <2> QED BY <1>9, <2>1, <2>4, <2>5
<1>11. EndOf(w, t)
  <2>1. \E v \in Text : w = v ++ t
    <3>1. x ++ w = z ++ t
      BY <1>4, <1>8
    <3> QED BY <1>8, <1>10, <3>1, Overlap
  <2> QED BY <1>8, <2>1 DEF EndOf
<1>12. ASSUME NEW u, EndOf(w, u) PROVE Len(u) <= Len(t)
  <2>1. PICK y \in Text : u \in Text /\ Fits(u) /\ w = y ++ u
    BY <1>12 DEF EndOf
  <2>2. x ++ y \in Text
    BY Glued
  <2>3. (x ++ y) ++ u = x ++ (y ++ u)
    BY <2>1, Glued
  <2>4. EndOf(a ++ b, u)
    BY <1>4, <2>1, <2>2, <2>3 DEF EndOf
  <2> QED BY <1>7, <2>4
<1>13. capTail(w) = t
  BY <1>11, <1>12, TailUnique
<1> QED BY <1>1, <1>3, <1>4, <1>6, <1>13
-----------------------------------------------------------------------------
(* What is decoded, and what is redacted.                                  *)

\* A function on 1..n is a text.
LEMMA Made ==
    ASSUME NEW n \in Nat, NEW f, f = [i \in 1..n |-> f[i]], \A i \in 1..n : f[i] \in Chars
    PROVE  f \in Text /\ Len(f) = n
<1>1. f \in [1..n -> Chars]
  BY Zenon
<1>2. f \in Seq(Chars)
  BY <1>1, SeqDef
<1>3. DOMAIN f = 1..n
  BY Zenon
<1>4. Len(f) = n
  BY <1>2, <1>3, LenProperties
<1> QED BY <1>2, <1>4 DEF Text

\* Bytes and more bytes.
LEMMA BytesJoined ==
    ASSUME NEW x \in Seq(Bytes), NEW y \in Seq(Bytes), NEW n \in Nat, n = Len(x), NEW m \in Nat, m = Len(y)
    PROVE  /\ x \o y \in Seq(Bytes) /\ Len(x \o y) = n + m
           /\ \A i \in 1..n : (x \o y)[i] = x[i]
           /\ \A i \in 1..m : (x \o y)[n + i] = y[i]
<1>1. /\ x \o y \in Seq(Bytes) /\ Len(x \o y) = n + m
      /\ \A i \in 1..n + m : (x \o y)[i] = IF i <= n THEN x[i] ELSE y[i - n]
  BY ConcatProperties
<1>2. \A i \in 1..n : (x \o y)[i] = x[i]
  BY <1>1
<1>3. ASSUME NEW i \in 1..m PROVE (x \o y)[n + i] = y[i]
  <2>1. n + i \in 1..n + m /\ ~(n + i <= n) /\ n + i - n = i
    OBVIOUS
  <2> QED BY <1>1, <2>1
<1> QED BY <1>1, <1>2, <1>3

\* The character of one byte.
Char(b) == IF b = "u" THEN "" ELSE IF b = "v" THEN "e" ELSE b

\* What is decoded has a character for every byte.
LEMMA DecodedText ==
    ASSUME NEW x \in Seq(Bytes)
    PROVE  /\ decoded(x) \in Text /\ Len(decoded(x)) = Len(x)
           /\ \A i \in 1..Len(x) : decoded(x)[i] = Char(x[i])
<1>1. PICK n \in Nat : n = Len(x) /\ DOMAIN x = 1..n
  BY LenProperties
<1>2. PICK f : f = decoded(x)
  OBVIOUS
<1>3. f = [i \in 1..n |-> Char(x[i])]
  BY <1>1, <1>2, Zenon DEF decoded, Char
<1>4. \A i \in 1..n : x[i] \in Bytes
  BY <1>1, ElementOfSeq
<1>5. \A i \in 1..n : f[i] = Char(x[i])
  BY <1>3
<1>6. \A b \in Bytes : Char(b) \in Chars
  BY DEF Bytes, Char, Chars
<1>7. \A i \in 1..n : f[i] \in Chars
  BY <1>4, <1>5, <1>6
<1>8. f = [i \in 1..n |-> f[i]]
  BY <1>3
<1>9. f \in Text /\ Len(f) = n
  BY <1>7, <1>8, Made
<1> QED BY <1>1, <1>2, <1>5, <1>9

\* Bytes are decoded piece by piece as they would be at once.
LEMMA DecodedJoined ==
    ASSUME NEW x \in Seq(Bytes), NEW y \in Seq(Bytes)
    PROVE  decoded(x \o y) = decoded(x) ++ decoded(y)
<1>1. PICK n \in Nat, m \in Nat : n = Len(x) /\ m = Len(y)
  BY LenProperties
<1>2. PICK xy \in Seq(Bytes) :
        /\ xy = x \o y /\ Len(xy) = n + m
        /\ \A i \in 1..n : xy[i] = x[i]
        /\ \A i \in 1..m : xy[n + i] = y[i]
  <2>1. x \o y \in Seq(Bytes) /\ Len(x \o y) = n + m
    BY <1>1, BytesJoined
  <2>2. \A i \in 1..n : (x \o y)[i] = x[i]
    BY <1>1, BytesJoined
  <2>3. \A i \in 1..m : (x \o y)[n + i] = y[i]
    BY <1>1, BytesJoined
  <2> QED BY <2>1, <2>2, <2>3
<1>3. PICK dx \in Text : dx = decoded(x) /\ Len(dx) = n /\ \A i \in 1..n : dx[i] = Char(x[i])
  BY <1>1, DecodedText
<1>4. PICK dy \in Text : dy = decoded(y) /\ Len(dy) = m /\ \A i \in 1..m : dy[i] = Char(y[i])
  BY <1>1, DecodedText
<1>5. PICK d \in Text : d = decoded(xy) /\ Len(d) = n + m /\ \A i \in 1..n + m : d[i] = Char(xy[i])
  <2>1. decoded(xy) \in Text /\ Len(decoded(xy)) = n + m
    BY <1>2, DecodedText
  <2>2. \A i \in 1..Len(xy) : decoded(xy)[i] = Char(xy[i])
    BY DecodedText, Zenon
  <2> QED BY <1>2, <2>1, <2>2
<1>6. ASSUME NEW i \in 1..n PROVE d[i] = dx[i]
  <2>1. i \in 1..n + m
    OBVIOUS
  <2>2. xy[i] = x[i]
    BY <1>2
  <2>3. d[i] = Char(xy[i]) /\ dx[i] = Char(x[i])
    BY <1>3, <1>5, <2>1
  <2> QED BY <2>2, <2>3
<1>7. ASSUME NEW i \in 1..m PROVE d[n + i] = dy[i]
  <2>1. n + i \in 1..n + m
    OBVIOUS
  <2>2. xy[n + i] = y[i]
    BY <1>2
  <2>3. d[n + i] = Char(xy[n + i])
    BY <1>5, <2>1
  <2>4. dy[i] = Char(y[i])
    BY <1>4
  <2> QED BY <2>2, <2>3, <2>4
<1>8. Len(d) = Len(dx) + Len(dy) /\ \A i \in 1..Len(dx) : d[i] = dx[i]
  BY <1>3, <1>4, <1>5, <1>6
<1>9. \A i \in 1..Len(dy) : d[Len(dx) + i] = dy[i]
  BY <1>3, <1>4, <1>7
<1>10. d = dx ++ dy
  BY <1>8, <1>9, Splice
<1> QED BY <1>2, <1>3, <1>4, <1>5, <1>10

\* Where a secret begins in text.
SecretAt(text, i) ==
    /\ {i, i + 2} \subseteq DOMAIN text
    /\ text[i] = "s" /\ text[i + 1] = "" /\ text[i + 2] = "e"

\* What is shown of the character at i.
Shown(text, i) ==
    IF SecretAt(text, i) THEN "M"
    ELSE IF SecretAt(text, i - 1) \/ SecretAt(text, i - 2) THEN "" ELSE text[i]

\* What is redacted is as long as it was.
LEMMA RedactText ==
    ASSUME NEW x \in Text
    PROVE  /\ redact(x) \in Text /\ Len(redact(x)) = Len(x)
           /\ \A i \in 1..Len(x) : redact(x)[i] = Shown(x, i)
<1>1. PICK n \in Nat : n = Len(x) /\ DOMAIN x = 1..n
  BY LenProperties DEF Text
<1>2. PICK f : f = redact(x)
  OBVIOUS
<1>3. f = [i \in 1..n |-> Shown(x, i)]
  BY <1>1, <1>2, Zenon DEF redact, Shown, SecretAt
<1>4. \A i \in 1..n : x[i] \in Chars
  BY <1>1, ElementOfSeq DEF Text
<1>5. \A i \in 1..n : f[i] = Shown(x, i)
  BY <1>3
<1>6. ASSUME NEW i \in 1..n PROVE Shown(x, i) \in Chars
  BY <1>4 DEF Shown, Chars
<1>7. \A i \in 1..n : f[i] \in Chars
  BY <1>5, <1>6
<1>8. f = [i \in 1..n |-> f[i]]
  BY <1>3
<1>9. f \in Text /\ Len(f) = n
  BY <1>7, <1>8, Made
<1> QED BY <1>1, <1>2, <1>5, <1>9

\* Text that is empty or ends in a newline.
EndsLine(x) == Len(x) = 0 \/ x[Len(x)] = "nl"

\* Where a secret begins, with numbers.
LEMMA SecretIn ==
    ASSUME NEW x \in Text, NEW i \in Int
    PROVE  SecretAt(x, i) <=> 1 <= i /\ i + 2 <= Len(x) /\ x[i] = "s" /\ x[i + 1] = "" /\ x[i + 2] = "e"
<1>1. DOMAIN x = 1..Len(x) /\ Len(x) \in Nat
  BY LenProperties DEF Text
<1>2. {i, i + 2} \subseteq DOMAIN x <=> 1 <= i /\ i + 2 <= Len(x)
  BY <1>1
<1> QED BY <1>2 DEF SecretAt

\* No secret goes over the end of a line.
LEMMA RedactJoined ==
    ASSUME NEW x \in Text, NEW y \in Text, EndsLine(x)
    PROVE  redact(x ++ y) = redact(x) ++ redact(y)
<1>1. PICK n \in Nat, m \in Nat : n = Len(x) /\ m = Len(y)
  BY Nothing
<1>2. PICK xy \in Text :
        /\ xy = x ++ y /\ Len(xy) = n + m
        /\ \A i \in 1..n : xy[i] = x[i]
        /\ \A i \in 1..m : xy[n + i] = y[i]
  <2>1. /\ Len(x ++ y) = Len(x) + Len(y)
        /\ \A i \in 1..Len(x) : (x ++ y)[i] = x[i]
        /\ \A i \in 1..Len(y) : (x ++ y)[Len(x) + i] = y[i]
    BY Joined, Zenon
  <2>2. x ++ y \in Text
    BY Joined
  <2> QED BY <1>1, <2>2, <2>1
<1>3. PICK rx \in Text : rx = redact(x) /\ Len(rx) = n /\ \A i \in 1..n : rx[i] = Shown(x, i)
  BY <1>1, RedactText
<1>4. PICK ry \in Text : ry = redact(y) /\ Len(ry) = m /\ \A i \in 1..m : ry[i] = Shown(y, i)
  BY <1>1, RedactText
<1>5. PICK r \in Text : r = redact(xy) /\ Len(r) = n + m /\ \A i \in 1..n + m : r[i] = Shown(xy, i)
  BY <1>2, RedactText
<1>6. n = 0 \/ (n \in 1..n /\ xy[n] = "nl")
  BY <1>1, <1>2 DEF EndsLine
<1>7. ASSUME NEW i \in Int, i <= n PROVE SecretAt(xy, i) <=> SecretAt(x, i)
  <2>1. SecretAt(x, i) <=> 1 <= i /\ i + 2 <= n /\ x[i] = "s" /\ x[i + 1] = "" /\ x[i + 2] = "e"
    BY <1>1, SecretIn
  <2>2. SecretAt(xy, i) <=> 1 <= i /\ i + 2 <= n + m /\ xy[i] = "s" /\ xy[i + 1] = "" /\ xy[i + 2] = "e"
    <3>1. SecretAt(xy, i) <=> 1 <= i /\ i + 2 <= Len(xy) /\ xy[i] = "s" /\ xy[i + 1] = "" /\ xy[i + 2] = "e"
      BY SecretIn, Zenon
    <3> QED BY <1>2, <3>1, Zenon
  <2>3. CASE i + 2 <= n /\ 1 <= i
    <3>1. i \in 1..n /\ i + 1 \in 1..n /\ i + 2 \in 1..n /\ i + 2 <= n + m
      BY <2>3
    <3>2. xy[i] = x[i] /\ xy[i + 1] = x[i + 1] /\ xy[i + 2] = x[i + 2]
      BY <1>2, <3>1
    <3> QED BY <2>1, <2>2, <2>3, <3>1, <3>2
  <2>4. CASE ~(1 <= i)
    BY <2>1, <2>2, <2>4
  <2>5. CASE 1 <= i /\ ~(i + 2 <= n)
    <3>1. i = n \/ i + 1 = n
      BY <1>7, <2>5
    <3>2. xy[n] = "nl"
      BY <1>6, <1>7, <2>5
    <3>3. ~SecretAt(xy, i)
      BY <2>2, <3>1, <3>2
    <3> QED BY <2>1, <2>5, <3>3
  <2> QED BY <2>3, <2>4, <2>5
<1>8. ASSUME NEW i \in Int, i >= 1 PROVE SecretAt(xy, n + i) <=> SecretAt(y, i)
  <2>1. SecretAt(y, i) <=> 1 <= i /\ i + 2 <= m /\ y[i] = "s" /\ y[i + 1] = "" /\ y[i + 2] = "e"
    BY <1>1, SecretIn
  <2>2. PICK k \in Int : k = n + i
    OBVIOUS
  <2>3. SecretAt(xy, k) <=> 1 <= k /\ k + 2 <= n + m /\ xy[k] = "s" /\ xy[k + 1] = "" /\ xy[k + 2] = "e"
    <3>1. SecretAt(xy, k) <=> 1 <= k /\ k + 2 <= Len(xy) /\ xy[k] = "s" /\ xy[k + 1] = "" /\ xy[k + 2] = "e"
      BY SecretIn, Zenon
    <3> QED BY <1>2, <3>1, Zenon
  <2>4. CASE i + 2 <= m
    <3>1. i \in 1..m /\ i + 1 \in 1..m /\ i + 2 \in 1..m
      BY <1>8, <2>4
    <3>2. xy[n + i] = y[i] /\ xy[n + (i + 1)] = y[i + 1] /\ xy[n + (i + 2)] = y[i + 2]
      BY <1>2, <3>1
    <3>3. n + (i + 1) = k + 1 /\ n + (i + 2) = k + 2 /\ 1 <= k /\ k + 2 <= n + m
      BY <1>8, <2>2, <2>4
    <3> QED BY <1>8, <2>1, <2>2, <2>3, <2>4, <3>2, <3>3
  <2>5. CASE ~(i + 2 <= m)
    <3>1. ~(k + 2 <= n + m)
      BY <2>2, <2>5
    <3> QED BY <2>1, <2>2, <2>3, <2>5, <3>1
  <2> QED BY <2>4, <2>5
<1>9. ASSUME NEW i \in 1..n PROVE r[i] = rx[i]
  <2>1. i \in 1..n + m
    OBVIOUS
  <2>2. i \in Int /\ i - 1 \in Int /\ i - 2 \in Int /\ i <= n /\ i - 1 <= n /\ i - 2 <= n
    OBVIOUS
  <2>3. /\ SecretAt(xy, i) <=> SecretAt(x, i)
        /\ SecretAt(xy, i - 1) <=> SecretAt(x, i - 1)
        /\ SecretAt(xy, i - 2) <=> SecretAt(x, i - 2)
    BY <1>7, <2>2
  <2>4. Shown(xy, i) = Shown(x, i)
    BY <1>2, <2>3 DEF Shown
  <2> QED BY <1>3, <1>5, <2>1, <2>4
<1>10. ASSUME NEW i \in {-1, 0} PROVE ~SecretAt(y, i) /\ ~SecretAt(xy, n + i)
  <2>1. i \in Int /\ n + i \in Int /\ n + i <= n /\ ~(1 <= i) /\ ~(n + i + 2 <= n)
    BY <1>10
  <2>2. ~SecretAt(y, i)
    BY <1>1, <2>1, SecretIn
  <2>3. ~SecretAt(x, n + i)
    BY <1>1, <2>1, SecretIn
  <2> QED BY <1>7, <2>1, <2>2, <2>3
<1>11. ASSUME NEW i \in Int, i >= -1 PROVE SecretAt(xy, n + i) <=> SecretAt(y, i)
  <2>1. i >= 1 \/ i \in {-1, 0}
    BY <1>11
  <2> QED BY <1>8, <1>10, <2>1
<1>12. ASSUME NEW i \in 1..m PROVE r[n + i] = ry[i]
  <2>1. n + i \in 1..n + m
    OBVIOUS
  <2>2. i \in Int /\ i - 1 \in Int /\ i - 2 \in Int /\ i >= -1 /\ i - 1 >= -1 /\ i - 2 >= -1
    OBVIOUS
  <2>3. n + (i - 1) = n + i - 1 /\ n + (i - 2) = n + i - 2
    OBVIOUS
  <2>4. /\ SecretAt(xy, n + i) <=> SecretAt(y, i)
        /\ SecretAt(xy, n + i - 1) <=> SecretAt(y, i - 1)
        /\ SecretAt(xy, n + i - 2) <=> SecretAt(y, i - 2)
    BY <1>11, <2>2, <2>3
  <2>5. Shown(xy, n + i) = Shown(y, i)
    <3>1. PICK k : k = n + i
      OBVIOUS
    <3>2. xy[k] = y[i]
      BY <1>2, <3>1
    <3>3. /\ SecretAt(xy, k) <=> SecretAt(y, i)
          /\ SecretAt(xy, k - 1) <=> SecretAt(y, i - 1)
          /\ SecretAt(xy, k - 2) <=> SecretAt(y, i - 2)
      BY <2>4, <3>1
    <3>4. Shown(xy, k) = Shown(y, i)
      BY <3>2, <3>3, Zenon DEF Shown
    <3> QED BY <3>1, <3>4
  <2> QED BY <1>4, <1>5, <2>1, <2>5
<1>13. Len(r) = Len(rx) + Len(ry) /\ \A i \in 1..Len(rx) : r[i] = rx[i]
  BY <1>3, <1>4, <1>5, <1>9
<1>14. \A i \in 1..Len(ry) : r[Len(rx) + i] = ry[i]
  BY <1>3, <1>4, <1>12
<1>15. r = rx ++ ry
  BY <1>13, <1>14, Splice
<1> QED BY <1>2, <1>3, <1>4, <1>5, <1>15

\* The lines of text, and what follows them.
LEMMA LastLine ==
    ASSUME NEW text \in Text
    PROVE  \E a \in Text, b \in Text :
              /\ text = a ++ b /\ EndsLine(a) /\ \A i \in 1..Len(b) : b[i] # "nl"
              /\ a = SubSeq(text, 1, lastNewline(text))
              /\ b = SubSeq(text, lastNewline(text) + 1, Len(text))
<1>1. PICK m \in Nat : m = Len(text) /\ DOMAIN text = 1..m
  BY LenProperties DEF Text
<1>2. PICK n \in 0..m : /\ n = lastNewline(text) /\ (n = 0 \/ text[n] = "nl")
                        /\ \A i \in n + 1..m : text[i] # "nl"
  <2>1. PICK ends : ends = {i \in 1..m : text[i] = "nl"}
    OBVIOUS
  <2>2. lastNewline(text) = IF ends = {} THEN 0 ELSE CHOOSE i \in ends : \A j \in ends : j <= i
    BY <1>1, <2>1 DEF lastNewline
  <2>3. CASE ends = {}
    <3>1. lastNewline(text) = 0 /\ \A i \in 1..m : text[i] # "nl"
      BY <2>1, <2>2, <2>3
    <3> QED BY <3>1
  <2>4. CASE ends # {}
    <3>1. PICK T \in SUBSET Nat : T = {m - i : i \in ends}
      <4>1. {m - i : i \in ends} \in SUBSET Nat
        BY <2>1
      <4> QED BY <4>1
    <3>2. T # {}
      BY <2>4, <3>1
    <3>3. PICK t \in T : \A u \in T : t <= u
      BY <3>2, Least
    <3>4. PICK last \in ends : t = m - last
      BY <3>1, <3>3
    <3>5. \A j \in ends : j <= last
      BY <2>1, <3>1, <3>3, <3>4
    <3>6. PICK n : n = lastNewline(text)
      OBVIOUS
    <3>7. n \in ends /\ \A j \in ends : j <= n
      BY <2>2, <2>4, <3>4, <3>5, <3>6
    <3>8. n \in 0..m /\ text[n] = "nl" /\ n \in Nat
      BY <2>1, <3>7
    <3>9. ASSUME NEW i \in n + 1..m PROVE text[i] # "nl"
      <4>1. i \in 1..m /\ ~(i <= n)
        BY <3>8
      <4> QED BY <2>1, <3>7, <4>1
    <3> QED BY <3>6, <3>8, <3>9
  <2> QED BY <2>3, <2>4
<1>3. n + 1 \in 1..m + 1 /\ n + 1 - 1 = n /\ m + 1 - (n + 1) = m - n
  BY <1>2
<1>4. PICK a, b : a = SubSeq(text, 1, n) /\ b = SubSeq(text, n + 1, m)
  OBVIOUS
<1>5. a \in Text /\ Len(a) = n /\ \A i \in 1..n : a[i] = text[i]
  BY <1>1, <1>4, Front
<1>6. /\ b \in Text /\ Len(b) = m - n /\ \A k \in 1..m - n : b[k] = text[n + k]
      /\ text = a ++ b
  <2>1. PICK q \in 1..m + 1 : q = n + 1 /\ q - 1 = n /\ m + 1 - q = m - n
    BY <1>3
  <2>2. b = SubSeq(text, q, m) /\ a = SubSeq(text, 1, q - 1)
    BY <1>4, <2>1
  <2>3. /\ b \in Text /\ Len(b) = m + 1 - q /\ \A k \in 1..m + 1 - q : b[k] = text[q - 1 + k]
        /\ text = a ++ b
    BY <1>1, <2>2, Rest
  <2> QED BY <2>1, <2>3
<1>7. EndsLine(a)
  BY <1>2, <1>5 DEF EndsLine
<1>8. ASSUME NEW i \in 1..Len(b) PROVE b[i] # "nl"
  <2>1. i \in 1..m - n /\ n + i \in n + 1..m
    BY <1>2, <1>6
  <2> QED BY <1>2, <1>6, <2>1
<1> QED BY <1>1, <1>2, <1>4, <1>5, <1>6, <1>7, <1>8
\* A piece of text.
LEMMA Piece ==
    ASSUME NEW s \in Text, NEW i \in Nat, NEW j \in i..Len(s)
    PROVE  /\ SubSeq(s, i + 1, j) \in Text /\ Len(SubSeq(s, i + 1, j)) = j - i
           /\ \A k \in 1..j - i : SubSeq(s, i + 1, j)[k] = s[i + k]
<1>1. Len(s) \in Nat
  BY Nothing
<1>2. PICK q \in Int : q = i + 1
  OBVIOUS
<1>3. j \in Int /\ i <= j /\ j <= Len(s)
  BY <1>1
<1>4. \A k \in q..j : s[k] \in Chars
  <2>1. \A k \in q..j : k \in 1..Len(s)
    BY <1>1, <1>2, <1>3
  <2> QED BY <2>1, ElementOfSeq DEF Text
<1>5. /\ SubSeq(s, q, j) \in Seq(Chars) /\ Len(SubSeq(s, q, j)) = IF q <= j THEN j - q + 1 ELSE 0
      /\ \A k \in 1..j - q + 1 : SubSeq(s, q, j)[k] = s[q + k - 1]
  BY <1>2, <1>3, <1>4, SubSeqProperties
<1>6. Len(SubSeq(s, q, j)) = j - i
  BY <1>2, <1>3, <1>5
<1>7. ASSUME NEW k \in 1..j - i PROVE SubSeq(s, q, j)[k] = s[i + k]
  <2>1. k \in 1..j - q + 1 /\ q + k - 1 = i + k
    BY <1>2, <1>3
  <2> QED BY <1>5, <2>1
<1> QED BY <1>2, <1>5, <1>6, <1>7 DEF Text

-----------------------------------------------------------------------------
(* What the collector keeps.                                               *)

\* Of h the complete lines are redacted and cut, and p is the line that has not ended.
Kept(h, p, t) ==
    \E x \in Text : EndsLine(x) /\ h = x ++ p /\ t = capTail(redact(x))

\* In h a line did not end in time, and what was before it is redacted and marked.
Lost(h, t) ==
    \E x \in Text, w \in Text, z \in Text :
       /\ EndsLine(x) /\ h = x ++ (w ++ z)
       /\ size(w) > pendingMaxBytes /\ \A i \in 1..Len(w) : w[i] # "nl"
       /\ t = capTail(redact(x) ++ <<"T">>)

\* Lines and more lines.
LEMMA LinesJoined ==
    ASSUME NEW x \in Text, NEW y \in Text, EndsLine(x), EndsLine(y)
    PROVE  EndsLine(x ++ y)
<1>1. PICK n \in Nat, m \in Nat : n = Len(x) /\ m = Len(y)
  BY Nothing
<1>2. Len(x ++ y) = n + m
  BY <1>1, Joined
<1>3. CASE m = 0
  <2>1. y = <<>>
    BY <1>1, <1>3, Nothing
  <2>2. x ++ y = x
    BY <2>1, Nothing
  <2> QED BY <2>2
<1>4. CASE m # 0
  <2>1. y[m] = "nl" /\ m \in 1..m
    BY <1>1, <1>4 DEF EndsLine
  <2>2. (x ++ y)[n + m] = y[m]
    <3>1. \A i \in 1..Len(y) : (x ++ y)[Len(x) + i] = y[i]
      BY Joined, Zenon
    <3> QED BY <1>1, <2>1, <3>1
  <2> QED BY <1>2, <2>1, <2>2 DEF EndsLine
<1> QED BY <1>3, <1>4

\* What comes after what is kept: the lines that end with it are redacted as they would be
\* with all before them, and cut as if they had never been cut before.
LEMMA LinesCommitted ==
    ASSUME NEW x \in Text, NEW a \in Text, EndsLine(x)
    PROVE  capTail(capTail(redact(x)) ++ redact(a)) = capTail(redact(x ++ a))
<1>1. PICK rx \in Text, ra \in Text : rx = redact(x) /\ ra = redact(a)
  BY RedactText
<1>2. capTail(capTail(rx) ++ ra) = capTail(rx ++ ra)
  BY CapTwice
<1>3. redact(x ++ a) = rx ++ ra
  BY <1>1, RedactJoined
<1> QED BY <1>1, <1>2, <1>3

\* More of stdout, and the text there is then, in lines a and a line b that has not ended.
LEMMA MoreText ==
    ASSUME NEW h \in Text, NEW p \in Text, NEW t \in Text, NEW d \in Text, Kept(h, p, t),
           NEW a \in Text, NEW b \in Text, p ++ d = a ++ b, EndsLine(a)
    PROVE  \E x \in Text : /\ EndsLine(x) /\ h ++ d = x ++ b
                           /\ capTail(t ++ redact(a)) = capTail(redact(x))
<1>1. PICK x \in Text : EndsLine(x) /\ h = x ++ p /\ t = capTail(redact(x))
  BY DEF Kept
<1>2. x ++ a \in Text
  BY Glued
<1>3. EndsLine(x ++ a)
  BY <1>1, LinesJoined
<1>4. h ++ d = (x ++ a) ++ b
  <2> DEFINE assoc == \A u, v, w \in Text : (u ++ v) ++ w = u ++ (v ++ w)
  <2>0. assoc
    BY Assoc
  <2>1. (x ++ p) ++ d = x ++ (p ++ d)
    BY <2>0
  <2>2. (x ++ a) ++ b = x ++ (a ++ b)
    BY <2>0
  <2> QED BY <1>1, <2>1, <2>2, Zenon
<1>5. capTail(t ++ redact(a)) = capTail(redact(x ++ a))
  BY <1>1, LinesCommitted
<1> QED BY <1>2, <1>3, <1>4, <1>5

\* What drainCompleteLines keeps.
LEMMA Drained ==
    ASSUME NEW h \in Text, NEW p \in Text, NEW t \in Text, NEW d \in Text, Kept(h, p, t),
           NEW a \in Text, NEW b \in Text, p ++ d = a ++ b, EndsLine(a)
    PROVE  Kept(h ++ d, b, capTail(t ++ redact(a)))
<1>1. PICK x \in Text : EndsLine(x) /\ h ++ d = x ++ b /\ capTail(t ++ redact(a)) = capTail(redact(x))
  BY MoreText
<1> QED BY <1>1, Zenon DEF Kept

\* What poison keeps.
LEMMA Poisoned ==
    ASSUME NEW h \in Text, NEW p \in Text, NEW t \in Text, NEW d \in Text, Kept(h, p, t),
           NEW a \in Text, NEW b \in Text, p ++ d = a ++ b, EndsLine(a),
           size(b) > pendingMaxBytes, \A i \in 1..Len(b) : b[i] # "nl"
    PROVE  Lost(h ++ d, capTail(capTail(t ++ redact(a)) ++ <<"T">>))
<1>1. PICK x \in Text : EndsLine(x) /\ h ++ d = x ++ b /\ capTail(t ++ redact(a)) = capTail(redact(x))
  BY MoreText
<1>2. <<"T">> \in Text
  <2>1. "T" \in Chars
    BY DEF Chars
  <2> QED BY <2>1 DEF Text
<1>3. PICK rx \in Text, mark \in Text : rx = redact(x) /\ mark = <<"T">>
  BY <1>2, RedactText
<1>4. capTail(capTail(rx) ++ mark) = capTail(rx ++ mark)
  BY CapTwice
<1>5. b ++ <<>> = b /\ <<>> \in Text
  BY Nothing
<1>6. h ++ d = x ++ (b ++ <<>>)
  BY <1>1, <1>5
<1> QED BY <1>1, <1>3, <1>4, <1>5, <1>6, Zenon DEF Lost

\* What is read after that changes nothing.
LEMMA Ignored ==
    ASSUME NEW h \in Text, NEW t \in Text, NEW d \in Text, Lost(h, t)
    PROVE  Lost(h ++ d, t)
<1>1. PICK x \in Text, w \in Text, z \in Text :
        /\ EndsLine(x) /\ h = x ++ (w ++ z)
        /\ size(w) > pendingMaxBytes /\ \A i \in 1..Len(w) : w[i] # "nl"
        /\ t = capTail(redact(x) ++ <<"T">>)
  BY DEF Lost
<1>2. z ++ d \in Text
  BY Glued
<1>3. (x ++ (w ++ z)) ++ d = x ++ (w ++ (z ++ d))
  BY GluedTwice
<1>4. h ++ d = x ++ (w ++ (z ++ d))
  BY <1>1, <1>3, Zenon
<1> QED BY <1>1, <1>2, <1>4 DEF Lost

\* What is shown of it in the end.
LEMMA KeptEnd ==
    ASSUME NEW h \in Text, NEW p \in Text, NEW t \in Text, Kept(h, p, t)
    PROVE  capTail(t ++ redact(p)) = capTail(redact(h))
<1>1. PICK x \in Text : EndsLine(x) /\ h = x ++ p /\ t = capTail(redact(x))
  BY DEF Kept
<1> QED BY <1>1, LinesCommitted

\* ... and if a line was lost.
LEMMA LostEnd ==
    ASSUME NEW h \in Text, NEW t \in Text, Lost(h, t)
    PROVE  \E i \in 0..Len(h) :
              /\ i = 0 \/ h[i] = "nl"
              /\ \A j \in i + 1..Len(h) : size(SubSeq(h, i + 1, j)) <= pendingMaxBytes => h[j] # "nl"
              /\ capTail(t ++ <<>>) = capTail(redact(SubSeq(h, 1, i)) ++ <<"T">>)
<1>1. PICK x \in Text, w \in Text, z \in Text :
        /\ EndsLine(x) /\ h = x ++ (w ++ z)
        /\ size(w) > pendingMaxBytes /\ \A i \in 1..Len(w) : w[i] # "nl"
        /\ t = capTail(redact(x) ++ <<"T">>)
  BY DEF Lost
<1>2. PICK n \in Nat, m \in Nat, l \in Nat : n = Len(x) /\ m = Len(w) /\ l = Len(z)
  BY Nothing
<1>3. PICK u \in Text : u = w ++ z /\ Len(u) = m + l /\ \A i \in 1..m : u[i] = w[i]
  <2>1. w ++ z \in Text /\ Len(w ++ z) = Len(w) + Len(z) /\ \A i \in 1..Len(w) : (w ++ z)[i] = w[i]
    BY Joined, Zenon
  <2> QED BY <1>2, <2>1
<1>4. \A i \in 1..l : u[m + i] = z[i]
  <2>1. \A i \in 1..Len(z) : (w ++ z)[Len(w) + i] = z[i]
    BY Joined, Zenon
  <2> QED BY <1>2, <1>3, <2>1
<1>5. h = x ++ u
  BY <1>1, <1>3
<1>6. Len(h) = n + (m + l) /\ \A i \in 1..n : h[i] = x[i]
  <2>1. Len(x ++ u) = Len(x) + Len(u) /\ \A i \in 1..Len(x) : (x ++ u)[i] = x[i]
    BY <1>3, Joined, Zenon
  <2> QED BY <1>2, <1>3, <1>5, <2>1
<1>7. \A i \in 1..m + l : h[n + i] = u[i]
  <2>1. \A i \in 1..Len(u) : (x ++ u)[Len(x) + i] = u[i]
    BY Joined, Zenon
  <2> QED BY <1>2, <1>3, <1>5, <2>1
<1>8. n \in 0..Len(h)
  BY <1>6
<1>9. n = 0 \/ h[n] = "nl"
  <2>1. n = 0 \/ (n \in 1..n /\ x[n] = "nl")
    BY <1>1, <1>2 DEF EndsLine
  <2> QED BY <1>6, <2>1
<1>10. SubSeq(h, 1, n) = x
  <2>1. PICK f \in Text : f = SubSeq(h, 1, n) /\ Len(f) = n /\ \A i \in 1..n : f[i] = h[i]
    BY <1>8, Front
  <2>2. \A i \in 1..Len(x) : x[i] = f[i]
    BY <1>2, <1>6, <2>1
  <2>3. x = f
    BY <1>2, <2>1, <2>2, SameText
  <2> QED BY <2>1, <2>3
<1>11. capTail(t ++ <<>>) = capTail(redact(x) ++ <<"T">>)
  <2>1. "T" \in Chars
    BY DEF Chars
  <2>2. <<"T">> \in Text
    BY <2>1 DEF Text
  <2>3. PICK y \in Text : y = redact(x) ++ <<"T">>
    BY <2>2, RedactText, Glued
  <2>4. capTail(capTail(y) ++ <<>>) = capTail(y ++ <<>>)
    BY Nothing, CapTwice
  <2> QED BY <1>1, <2>3, <2>4, Nothing
<1>12. ASSUME NEW j \in n + 1..Len(h), size(SubSeq(h, n + 1, j)) <= pendingMaxBytes
       PROVE  h[j] # "nl"
  <2>1. PICK k \in 1..m + l : j = n + k
    <3>1. j - n \in 1..m + l /\ j = n + (j - n)
      BY <1>6
    <3> QED BY <3>1
  <2>2. CASE k <= m
    <3>1. k \in 1..m
      BY <2>2
    <3> QED BY <1>1, <1>2, <1>3, <1>7, <2>1, <3>1
  <2>3. CASE ~(k <= m)
    <3>1. PICK r \in 0..l : r = k - m /\ k = m + r
      <4>1. k - m \in 0..l /\ k = m + (k - m)
        BY <2>3
      <4> QED BY <4>1
    <3>2. j \in n..Len(h) /\ j - n = k
      BY <1>6, <2>1
    <3>3. PICK s \in Text : s = SubSeq(h, n + 1, j) /\ Len(s) = k /\ \A i \in 1..k : s[i] = h[n + i]
      <4>1. /\ SubSeq(h, n + 1, j) \in Text /\ Len(SubSeq(h, n + 1, j)) = j - n
            /\ \A i \in 1..j - n : SubSeq(h, n + 1, j)[i] = h[n + i]
        BY <3>2, Piece
      <4> QED BY <3>2, <4>1
    <3>4. PICK v \in Text : Len(v) = r /\ \A i \in 1..r : v[i] = z[i]
      <4>1. r \in 0..Len(z)
        BY <1>2
      <4> QED BY <4>1, Front
    <3>5. \A i \in 1..m : s[i] = w[i]
      <4>1. \A i \in 1..m : i \in 1..k /\ i \in 1..m + l
        BY <3>1
      <4> QED BY <1>3, <1>7, <3>3, <4>1
    <3>6. ASSUME NEW i \in 1..r PROVE s[m + i] = v[i]
      <4>1. m + i \in 1..k /\ m + i \in 1..m + l /\ i \in 1..l
        BY <3>1
      <4> QED BY <1>4, <1>7, <3>3, <3>4, <4>1
    <3>7. s = w ++ v
      <4>1. Len(s) = Len(w) + Len(v)
        BY <1>2, <3>1, <3>3, <3>4
      <4>2. \A i \in 1..Len(w) : s[i] = w[i]
        BY <1>2, <3>5
      <4>3. \A i \in 1..Len(v) : s[Len(w) + i] = v[i]
        BY <1>2, <3>4, <3>6
      <4> QED BY <4>1, <4>2, <4>3, Splice
    <3>8. size(w) \in Nat /\ size(s) \in Nat /\ size(w) <= size(s)
      BY <3>7, SizeGrows
    <3> QED BY <1>1, <1>12, <3>3, <3>8, BytesAssumption
  <2> QED BY <2>2, <2>3
<1> QED BY <1>8, <1>9, <1>10, <1>11, <1>12
-----------------------------------------------------------------------------
(* The collector.                                                          *)

ReadInv ==
    /\ stdout \in Seq(Bytes) /\ read \in 0..Len(stdout)
    /\ pending \in Text /\ redactedTail \in Text
    /\ poisoned \in BOOLEAN /\ stdoutEnded \in BOOLEAN

\* Who is gone does not write, and what has ended was all read.
ExitInv ==
    /\ strace # "running" => alive = {}
    /\ strace = "failed" => stdout = <<>>
    /\ stdoutEnded => strace \in {"gone", "failed"} /\ read = Len(stdout)
    /\ exitStatus \in {"none", "close", "error"}
    /\ exitStatus = "close" => stdoutEnded
    /\ exitStatus = "error" => strace = "failed"
    /\ pc = "returned" => exitStatus \in {"close", "error"}

\* What was read is kept, or lost from a line on.
KeptInv ==
    \E bs \in Seq(Bytes), e \in Text, p \in Text, t \in Text :
       /\ bs = SubSeq(stdout, 1, read) /\ p = pending /\ t = redactedTail
       /\ e = IF stdoutEnded THEN broken ELSE <<>>
       /\ IF poisoned THEN Lost(decoded(bs) ++ e, t) ELSE Kept(decoded(bs) ++ e, p, t)

TailInv == ReadInv /\ ExitInv /\ KeptInv

collectVars == <<stdout, read, pending, redactedTail, poisoned, stdoutEnded>>

\* What a broken character shows is text.
LEMMA BrokenText == broken \in Text
<1>1. "?" \in Chars
  BY DEF Chars
<1>2. <<"?">> \in Text
  BY <1>1 DEF Text
<1> QED BY <1>2, Nothing DEF broken

\* Before anything is written nothing is kept.
LEMMA InitTail == Init => TailInv
<1> SUFFICES ASSUME Init PROVE TailInv
  OBVIOUS
<1> USE DEF Init, attachStdoutTailCollector
<1>1. <<>> \in Seq(Bytes) /\ Len(<<>>) = 0
  BY EmptySeq
<1>2. ReadInv
  <2>1. stdout \in Seq(Bytes) /\ read \in 0..Len(stdout)
    <3>1. 0 \in 0..0
      OBVIOUS
    <3> QED BY <1>1, <3>1, Zenon
  <2>2. pending \in Text /\ redactedTail \in Text
    BY Nothing
  <2> QED BY <2>1, <2>2 DEF ReadInv
<1>3. ExitInv
  BY DEF ExitInv
<1>4. SubSeq(<<>>, 1, 0) = <<>>
  OBVIOUS
<1>5. PICK bs \in Seq(Bytes) : bs = SubSeq(stdout, 1, read) /\ bs = <<>>
  BY <1>1, <1>4
<1>6. PICK d \in Text : d = decoded(bs) /\ d = <<>>
  <2>1. decoded(bs) \in Text /\ Len(decoded(bs)) = 0
    BY <1>1, <1>5, DecodedText
  <2>2. decoded(bs) = <<>>
    BY <2>1, Nothing
  <2> QED BY <2>1, <2>2
<1>7. PICK n \in Text : n = <<>> /\ d ++ n = n /\ n ++ n = n /\ Len(n) = 0
  BY <1>6, Nothing
<1>8. redact(n) = n
  <2>1. redact(n) \in Text /\ Len(redact(n)) = 0
    BY <1>7, RedactText
  <2> QED BY <1>7, <2>1, Nothing
<1>9. capTail(n) = n
  <2>1. PICK c \in Text : c = capTail(n) /\ \E x \in Text : n = x ++ c
    BY TailLongest DEF EndOf
  <2>2. Len(c) = 0
    BY <1>7, <2>1, Joined
  <2>3. c = <<>>
    BY <2>2, Nothing
  <2> QED BY <1>7, <2>1, <2>3
<1>10. Kept(d ++ n, n, n)
  BY <1>7, <1>8, <1>9 DEF Kept, EndsLine
<1>11. KeptInv
  BY <1>5, <1>6, <1>7, <1>10 DEF KeptInv
<1> QED BY <1>2, <1>3, <1>11 DEF TailInv

\* What has been read goes on being read from where it was.
LEMMA ReadOn ==
    ASSUME NEW s \in Seq(Bytes), NEW i \in Nat, NEW n \in i..Len(s)
    PROVE  /\ SubSeq(s, 1, i) \in Seq(Bytes) /\ SubSeq(s, i + 1, n) \in Seq(Bytes)
           /\ SubSeq(s, 1, n) = SubSeq(s, 1, i) \o SubSeq(s, i + 1, n)
<1>1. Len(s) \in Nat
  BY LenProperties
<1>2. n \in Int /\ i <= n /\ n <= Len(s) /\ n \in Nat
  BY <1>1
<1>3. \A k \in 1..n : s[k] \in Bytes
  BY <1>1, <1>2, ElementOfSeq
<1>4. PICK a : /\ a = SubSeq(s, 1, i) /\ a \in Seq(Bytes) /\ Len(a) = i
               /\ \A k \in 1..i : a[k] = s[k]
  <2>1. \A k \in 1..i : s[k] \in Bytes
    BY <1>2, <1>3
  <2>2. /\ SubSeq(s, 1, i) \in Seq(Bytes) /\ Len(SubSeq(s, 1, i)) = IF 1 <= i THEN i - 1 + 1 ELSE 0
        /\ \A k \in 1..i - 1 + 1 : SubSeq(s, 1, i)[k] = s[1 + k - 1]
    BY <2>1, SubSeqProperties
  <2>3. Len(SubSeq(s, 1, i)) = i /\ \A k \in 1..i : SubSeq(s, 1, i)[k] = s[k]
    BY <2>2
  <2> QED BY <2>2, <2>3
<1>5. PICK c : /\ c = SubSeq(s, 1, n) /\ c \in Seq(Bytes) /\ Len(c) = n
               /\ \A k \in 1..n : c[k] = s[k]
  <2>2. /\ SubSeq(s, 1, n) \in Seq(Bytes) /\ Len(SubSeq(s, 1, n)) = IF 1 <= n THEN n - 1 + 1 ELSE 0
        /\ \A k \in 1..n - 1 + 1 : SubSeq(s, 1, n)[k] = s[1 + k - 1]
    BY <1>2, <1>3, SubSeqProperties
  <2>3. Len(SubSeq(s, 1, n)) = n /\ \A k \in 1..n : SubSeq(s, 1, n)[k] = s[k]
    BY <1>2, <2>2
  <2> QED BY <2>2, <2>3
<1>6. PICK b : /\ b = SubSeq(s, i + 1, n) /\ b \in Seq(Bytes) /\ Len(b) = n - i
               /\ \A k \in 1..n - i : b[k] = s[i + k]
  <2>1. PICK q \in Int : q = i + 1
    OBVIOUS
  <2>2. \A k \in q..n : s[k] \in Bytes
    BY <1>3, <2>1
  <2>3. /\ SubSeq(s, q, n) \in Seq(Bytes) /\ Len(SubSeq(s, q, n)) = IF q <= n THEN n - q + 1 ELSE 0
        /\ \A k \in 1..n - q + 1 : SubSeq(s, q, n)[k] = s[q + k - 1]
    BY <1>2, <2>1, <2>2, SubSeqProperties
  <2>4. Len(SubSeq(s, q, n)) = n - i
    BY <1>2, <2>1, <2>3
  <2>5. ASSUME NEW k \in 1..n - i PROVE SubSeq(s, q, n)[k] = s[i + k]
    <3>1. k \in 1..n - q + 1 /\ q + k - 1 = i + k
      BY <1>2, <2>1
    <3> QED BY <2>3, <3>1
  <2> QED BY <2>1, <2>3, <2>4, <2>5
<1>7. PICK m \in Nat : m = n - i /\ n = i + m
  BY <1>2
<1>8. PICK ab : /\ ab = a \o b /\ ab \in Seq(Bytes) /\ Len(ab) = i + m
                /\ \A k \in 1..i : ab[k] = a[k]
                /\ \A k \in 1..m : ab[i + k] = b[k]
  <2>1. i = Len(a) /\ m = Len(b)
    BY <1>4, <1>6, <1>7
  <2>2. a \o b \in Seq(Bytes) /\ Len(a \o b) = i + m
    BY <1>4, <1>6, <2>1, BytesJoined
  <2>3. \A k \in 1..i : (a \o b)[k] = a[k]
    BY <1>4, <1>6, <2>1, BytesJoined
  <2>4. \A k \in 1..m : (a \o b)[i + k] = b[k]
    <3>1. a \in Seq(Bytes) /\ b \in Seq(Bytes)
      BY <1>4, <1>6
    <3> QED BY <2>1, <3>1, BytesJoined
  <2> QED BY <2>2, <2>3, <2>4
<1>9. ASSUME NEW k \in 1..n PROVE c[k] = ab[k]
  <2>1. CASE k <= i
    <3>1. k \in 1..i
      BY <2>1
    <3> QED BY <1>4, <1>5, <1>8, <3>1
  <2>2. CASE ~(k <= i)
    <3>1. PICK j \in 1..m : k = i + j
      <4>1. k - i \in 1..m /\ k = i + (k - i)
        BY <1>7, <2>2
      <4> QED BY <4>1
    <3>2. c[k] = s[i + j] /\ ab[k] = b[j] /\ b[j] = s[i + j]
      BY <1>5, <1>6, <1>7, <1>8, <3>1
    <3> QED BY <3>2
  <2> QED BY <2>1, <2>2
<1>10. c = ab
  BY <1>5, <1>7, <1>8, <1>9, SeqEqual
<1> QED BY <1>4, <1>5, <1>6, <1>8, <1>10

\* The invariant is about what the collector and the process have, and nothing else.
LEMMA NotCollected == TailInv /\ ExitInv' /\ UNCHANGED collectVars => TailInv'
<1> SUFFICES ASSUME TailInv, ExitInv', UNCHANGED collectVars PROVE TailInv'
  OBVIOUS
<1>1. ReadInv'
  BY DEF TailInv, ReadInv, collectVars
<1>2. KeptInv'
  <2>1. PICK bs \in Seq(Bytes), e \in Text, p \in Text, t \in Text :
          /\ bs = SubSeq(stdout, 1, read) /\ p = pending /\ t = redactedTail
          /\ e = IF stdoutEnded THEN broken ELSE <<>>
          /\ IF poisoned THEN Lost(decoded(bs) ++ e, t) ELSE Kept(decoded(bs) ++ e, p, t)
    BY DEF TailInv, KeptInv
  <2>2. broken' = broken
    BY DEF broken, collectVars
  <2>3. /\ bs = SubSeq(stdout', 1, read') /\ p = pending' /\ t = redactedTail'
        /\ e = IF stdoutEnded' THEN broken' ELSE <<>>
        /\ IF poisoned' THEN Lost(decoded(bs) ++ e, t) ELSE Kept(decoded(bs) ++ e, p, t)
    BY <2>1, <2>2 DEF collectVars
  <2> QED BY <2>3 DEF KeptInv
<1> QED BY <1>1, <1>2 DEF TailInv
-----------------------------------------------------------------------------
(* The steps.                                                              *)

\* Who is gone stays gone: every step keeps the order in which things end.
LEMMA ExitKept == TailInv /\ [Next]_vars => ExitInv'
<1> SUFFICES ASSUME TailInv, [Next]_vars PROVE ExitInv'
  OBVIOUS
<1>1. ExitInv /\ ReadInv
  BY DEF TailInv
<1> USE DEF ExitInv
<1>2. CASE UNCHANGED vars
  BY <1>1, <1>2 DEF vars, treeVars, pollVars, tailVars, runVars
<1>3. CASE Tree
  <2> USE DEF Others, pollVars, tailVars, runVars
  <2>1. ASSUME NEW p \in Pids, StraceForks(p) PROVE ExitInv'
    BY <1>1, <2>1 DEF StraceForks
  <2>2. ASSUME NEW p \in Pids, Exits(p) PROVE ExitInv'
    BY <1>1, <2>2 DEF Exits
  <2>3. ASSUME NEW p \in Pids, Daemonise(p) PROVE ExitInv'
    BY <1>1, <2>3 DEF Daemonise
  <2>4. CASE Launch
    BY <1>1, <2>4 DEF Launch
  <2>5. CASE LauncherExits
    BY <1>1, <2>5 DEF LauncherExits
  <2>6. CASE StraceExits
    BY <1>1, <2>6 DEF StraceExits, treeVars
  <2>7. ASSUME NEW b \in Bytes, Write(b) PROVE ExitInv'
    BY <1>1, <2>7 DEF Write, treeVars
  <2> QED BY <1>3, <2>1, <2>2, <2>3, <2>4, <2>5, <2>6, <2>7 DEF Tree
<1>4. CASE Runner
  <2>1. CASE GiveUp
    BY <1>1, <2>1 DEF GiveUp, Polling, Settled, tailVars
  <2>2. CASE Poll
    BY <1>1, <2>2 DEF Poll, Polling, Settled, tailVars, runVars
  <2>3. ASSUME NEW n \in 1..MaxBytes, Data(n) PROVE ExitInv'
    <3>1. /\ n \in (read + 1)..Len(stdout)
          /\ UNCHANGED <<strace, treeVars, stdout, pollVars, runVars, stdoutEnded>>
      BY <2>3 DEF Data, Reading
    <3>2. read # Len(stdout)
      <4>1. PICK i \in Nat, l \in Nat : i = read /\ l = Len(stdout)
        BY <1>1, LenProperties DEF ReadInv
      <4> QED BY <3>1, <4>1
    <3> QED BY <1>1, <3>1, <3>2 DEF treeVars, runVars
  <2>4. CASE End
    BY <1>1, <2>4 DEF End, Reading, treeVars, runVars
  <2>5. CASE Close
    BY <1>1, <2>5 DEF Close, Emits, treeVars, tailVars
  <2>6. CASE SpawnError
    BY <1>1, <2>6 DEF SpawnError, Emits, treeVars, tailVars
  <2>7. CASE TailerReturns
    BY <1>1, <2>7 DEF TailerReturns, treeVars, tailVars
  <2> QED BY <1>4, <2>1, <2>2, <2>3, <2>4, <2>5, <2>6, <2>7 DEF Runner
<1>5. CASE Done
  BY <1>1, <1>5 DEF Done, vars, treeVars, pollVars, tailVars, runVars
<1> QED BY <1>2, <1>3, <1>4, <1>5 DEF Next

\* What is written is not read yet.
LEMMA WriteKeepsTail ==
    ASSUME TailInv, NEW b \in Bytes, Write(b), ExitInv'
    PROVE  TailInv'
<1>1. PICK s \in Seq(Bytes), r \in Nat, l \in Nat : s = stdout /\ r = read /\ l = Len(s) /\ r \in 0..l
  BY LenProperties DEF TailInv, ReadInv
<1>2. /\ stdout' = Append(s, b) /\ read' = r /\ pending' = pending /\ redactedTail' = redactedTail
      /\ poisoned' = poisoned /\ stdoutEnded' = stdoutEnded
  BY <1>1 DEF Write, tailVars
<1>3. stdoutEnded = FALSE
  <2>1. strace = "running"
    BY DEF TailInv, ExitInv, Write
  <2> QED BY <2>1 DEF TailInv, ExitInv, ReadInv
<1>4. PICK w \in Seq(Bytes) : w = Append(s, b) /\ Len(w) = l + 1 /\ \A i \in 1..l : w[i] = s[i]
  <2>1. /\ Append(s, b) \in Seq(Bytes) /\ Len(Append(s, b)) = Len(s) + 1
        /\ \A i \in 1..Len(s) : Append(s, b)[i] = s[i]
    BY AppendProperties
  <2> QED BY <1>1, <2>1
<1>5. SubSeq(w, 1, r) = SubSeq(s, 1, r)
  <2>1. r \in Int /\ r <= l
    BY <1>1
  <2>2. \A i \in 1..r : w[i] = s[i] /\ s[i] \in Bytes /\ w[i] \in Bytes
    <3>1. \A i \in 1..r : i \in 1..l
      BY <2>1
    <3>2. \A i \in 1..l : s[i] \in Bytes
      BY <1>1, ElementOfSeq
    <3> QED BY <1>4, <3>1, <3>2
  <2>3. PICK x \in Seq(Bytes) : x = SubSeq(s, 1, r) /\ Len(x) = r /\ \A i \in 1..r : x[i] = s[i]
    <3>1. /\ SubSeq(s, 1, r) \in Seq(Bytes) /\ Len(SubSeq(s, 1, r)) = IF 1 <= r THEN r - 1 + 1 ELSE 0
          /\ \A k \in 1..r - 1 + 1 : SubSeq(s, 1, r)[k] = s[1 + k - 1]
      BY <2>1, <2>2, SubSeqProperties
    <3>2. Len(SubSeq(s, 1, r)) = r /\ \A k \in 1..r : SubSeq(s, 1, r)[k] = s[k]
      BY <3>1
    <3> QED BY <3>1, <3>2
  <2>4. PICK y \in Seq(Bytes) : y = SubSeq(w, 1, r) /\ Len(y) = r /\ \A i \in 1..r : y[i] = w[i]
    <3>1. /\ SubSeq(w, 1, r) \in Seq(Bytes) /\ Len(SubSeq(w, 1, r)) = IF 1 <= r THEN r - 1 + 1 ELSE 0
          /\ \A k \in 1..r - 1 + 1 : SubSeq(w, 1, r)[k] = w[1 + k - 1]
      BY <2>1, <2>2, SubSeqProperties
    <3>2. Len(SubSeq(w, 1, r)) = r /\ \A k \in 1..r : SubSeq(w, 1, r)[k] = w[k]
      BY <3>1
    <3> QED BY <3>1, <3>2
  <2>5. x = y
    BY <2>2, <2>3, <2>4, SeqEqual
  <2> QED BY <2>3, <2>4, <2>5
<1>6. ReadInv'
  <2>1. stdout' \in Seq(Bytes) /\ read' \in 0..Len(stdout')
    BY <1>1, <1>2, <1>4
  <2> QED BY <1>2, <2>1 DEF TailInv, ReadInv
<1>7. KeptInv'
  <2>1. PICK bs \in Seq(Bytes), e \in Text, p \in Text, t \in Text :
          /\ bs = SubSeq(stdout, 1, read) /\ p = pending /\ t = redactedTail
          /\ e = IF stdoutEnded THEN broken ELSE <<>>
          /\ IF poisoned THEN Lost(decoded(bs) ++ e, t) ELSE Kept(decoded(bs) ++ e, p, t)
    BY DEF TailInv, KeptInv
  <2>2. bs = SubSeq(stdout', 1, read')
    BY <1>1, <1>2, <1>4, <1>5, <2>1
  <2>3. e = IF stdoutEnded' THEN broken' ELSE <<>>
    BY <1>2, <1>3, <2>1
  <2>4. /\ p = pending' /\ t = redactedTail'
        /\ IF poisoned' THEN Lost(decoded(bs) ++ e, t) ELSE Kept(decoded(bs) ++ e, p, t)
    BY <1>2, <2>1
  <2> QED BY <2>2, <2>3, <2>4 DEF KeptInv
<1> QED BY <1>6, <1>7 DEF TailInv

\* A chunk is kept, lost with the line that it makes too long, or ignored after that.
LEMMA DataKeepsTail ==
    ASSUME TailInv, NEW n, Data(n), ExitInv'
    PROVE  TailInv'
<1>1. PICK s \in Seq(Bytes), r \in Nat, l \in Nat : s = stdout /\ r = read /\ l = Len(s) /\ r \in 0..l
  <2>1. stdout \in Seq(Bytes) /\ read \in 0..Len(stdout)
    BY DEF TailInv, ReadInv
  <2>2. Len(stdout) \in Nat
    BY <2>1, LenProperties
  <2> QED BY <2>1, <2>2
<1>2. PICK text : /\ text = pending \o decoded(SubSeq(s, r + 1, n))
                  /\ IF poisoned THEN UNCHANGED <<pending, redactedTail, poisoned>>
                     ELSE IF size(SubSeq(text, lastNewline(text) + 1, Len(text))) > pendingMaxBytes
                          THEN poison(text)
                     ELSE drainCompleteLines(text) /\ UNCHANGED poisoned
  BY <1>1 DEF Data
<1>3. n \in r + 1..l /\ read' = n /\ stdout' = s /\ stdoutEnded' = stdoutEnded
  BY <1>1 DEF Data, Reading
<1>4. n \in Nat /\ n \in r..l /\ ~(r = l)
  BY <1>1, <1>3
<1>5. stdoutEnded = FALSE
  BY <1>1, <1>4 DEF TailInv, ExitInv, ReadInv
<1>6. PICK bs \in Seq(Bytes), e \in Text, p \in Text, t \in Text :
        /\ bs = SubSeq(s, 1, r) /\ p = pending /\ t = redactedTail /\ e = <<>>
        /\ IF poisoned THEN Lost(decoded(bs) ++ e, t) ELSE Kept(decoded(bs) ++ e, p, t)
  BY <1>1, <1>5 DEF TailInv, KeptInv
<1>7. PICK cs \in Seq(Bytes), ns \in Seq(Bytes) :
        cs = SubSeq(s, r + 1, n) /\ ns = SubSeq(s, 1, n) /\ ns = bs \o cs
  <2>1. n \in r..Len(s)
    BY <1>1, <1>4
  <2>2. /\ SubSeq(s, 1, r) \in Seq(Bytes) /\ SubSeq(s, r + 1, n) \in Seq(Bytes)
        /\ SubSeq(s, 1, n) = SubSeq(s, 1, r) \o SubSeq(s, r + 1, n)
    BY <2>1, ReadOn
  <2>3. bs \o SubSeq(s, r + 1, n) \in Seq(Bytes)
    BY <1>6, <2>2, ConcatProperties
  <2> QED BY <1>6, <2>2, <2>3
<1>8. PICK h \in Text, d \in Text : h = decoded(bs) /\ d = decoded(cs) /\ decoded(ns) = h ++ d
  <2>1. decoded(bs) \in Text /\ decoded(cs) \in Text
    BY DecodedText
  <2>2. decoded(bs \o cs) = decoded(bs) ++ decoded(cs)
    BY DecodedJoined
  <2> QED BY <1>7, <2>1, <2>2, Zenon
<1>9. h ++ e = h /\ (h ++ d) ++ e = h ++ d
  <2>1. h ++ d \in Text
    BY Glued
  <2> QED BY <1>6, <2>1, Nothing
<1>10. text = p ++ d
  BY <1>2, <1>6, <1>7, <1>8 DEF ++
<1>11. ASSUME NEW q \in Text, NEW u \in Text, q = pending', u = redactedTail', poisoned' \in BOOLEAN,
              IF poisoned' THEN Lost(h ++ d, u) ELSE Kept(h ++ d, q, u)
       PROVE  TailInv'
  <2>1. ReadInv'
    <3>1. n \in 0..l
      BY <1>1, <1>4
    <3> QED BY <1>1, <1>3, <1>5, <1>11, <3>1 DEF ReadInv
  <2>2. KeptInv'
    <3>1. /\ ns = SubSeq(stdout', 1, read') /\ q = pending' /\ u = redactedTail'
          /\ e = IF stdoutEnded' THEN broken' ELSE <<>>
      BY <1>3, <1>5, <1>6, <1>7, <1>11
    <3>2. IF poisoned' THEN Lost(decoded(ns) ++ e, u) ELSE Kept(decoded(ns) ++ e, q, u)
      BY <1>8, <1>9, <1>11, Zenon
    <3> QED BY <3>1, <3>2 DEF KeptInv
  <2> QED BY <2>1, <2>2 DEF TailInv
<1>12. CASE poisoned
  <2>1. p = pending' /\ t = redactedTail' /\ poisoned'
    BY <1>2, <1>6, <1>12
  <2>2. Lost(h ++ d, t)
    BY <1>6, <1>8, <1>9, <1>12, Ignored
  <2>3. poisoned' \in BOOLEAN
    BY <1>2, <1>12 DEF TailInv, ReadInv
  <2> QED BY <1>11, <2>1, <2>2, <2>3
<1>13. CASE ~poisoned
  <2>1. Kept(h, p, t)
    BY <1>6, <1>8, <1>9, <1>13
  <2>2. text \in Text
    BY <1>10, Glued
  <2>3. PICK a \in Text, b \in Text :
          /\ text = a ++ b /\ EndsLine(a) /\ \A i \in 1..Len(b) : b[i] # "nl"
          /\ a = SubSeq(text, 1, lastNewline(text))
          /\ b = SubSeq(text, lastNewline(text) + 1, Len(text))
    BY <2>2, LastLine
  <2>4. p ++ d = a ++ b
    BY <1>10, <2>3
  <2>5. PICK ra \in Text : ra = redact(a)
    BY RedactText
  <2>6. PICK c \in Text : c = capTail(t ++ ra)
    BY Glued, CapTwice
  <2>7. CASE size(b) > pendingMaxBytes
    <3>1. poison(text)
      BY <1>2, <1>13, <2>3, <2>7
    <3>2. /\ redactedTail' = capTail(capTail(redactedTail \o redact(a)) \o <<"T">>)
          /\ poisoned' = TRUE /\ pending' = <<>>
      BY <2>3, <3>1, Zenon DEF poison
    <3>3. redactedTail' = capTail(c ++ <<"T">>)
      BY <1>6, <2>5, <2>6, <3>2, Zenon DEF ++
    <3>4. Lost(h ++ d, capTail(c ++ <<"T">>))
      <4>1. Lost(h ++ d, capTail(capTail(t ++ redact(a)) ++ <<"T">>))
        BY <2>1, <2>3, <2>4, <2>7, Poisoned
      <4> QED BY <2>5, <2>6, <4>1
    <3>5. PICK u \in Text : u = redactedTail'
      <4>1. <<"T">> \in Text
        <5>1. "T" \in Chars
          BY DEF Chars
        <5> QED BY <5>1 DEF Text
      <4>2. c ++ <<"T">> \in Text
        BY <4>1, Glued
      <4> QED BY <3>3, <4>2, CapTwice
    <3>6. <<>> \in Text
      BY Nothing
    <3> QED BY <1>11, <3>2, <3>3, <3>4, <3>5, <3>6
  <2>8. CASE ~(size(b) > pendingMaxBytes)
    <3>1. drainCompleteLines(text) /\ poisoned' = poisoned
      BY <1>2, <1>13, <2>3, <2>8
    <3>2. pending' = b /\ redactedTail' = capTail(redactedTail \o redact(a))
      BY <2>3, <3>1, Zenon DEF drainCompleteLines, appendRedacted
    <3>3. redactedTail' = c
      BY <1>6, <2>5, <2>6, <3>2, Zenon DEF ++
    <3>4. Kept(h ++ d, b, c)
      <4>1. Kept(h ++ d, b, capTail(t ++ redact(a)))
        BY <2>1, <2>3, <2>4, Drained
      <4> QED BY <2>5, <2>6, <4>1
    <3>5. poisoned' \in BOOLEAN /\ ~poisoned'
      BY <1>13, <3>1 DEF TailInv, ReadInv
    <3> QED BY <1>11, <3>2, <3>3, <3>4, <3>5
  <2> QED BY <2>7, <2>8
<1> QED BY <1>12, <1>13
\* The end: the last line is complete, and a first byte that still waits is broken.
LEMMA EndKeepsTail ==
    ASSUME TailInv, End, ExitInv'
    PROVE  TailInv'
<1>1. PICK s \in Seq(Bytes), l \in Nat : s = stdout /\ l = Len(s) /\ read = l
  <2>1. stdout \in Seq(Bytes) /\ read = Len(stdout)
    BY DEF TailInv, ReadInv, End
  <2>2. Len(stdout) \in Nat
    BY <2>1, LenProperties
  <2> QED BY <2>1, <2>2
<1>2. /\ stdout' = s /\ read' = l /\ stdoutEnded' = TRUE /\ stdoutEnded = FALSE /\ poisoned' = poisoned
      /\ IF poisoned THEN UNCHANGED <<pending, redactedTail>> ELSE drainCompleteLines(pending \o broken)
  BY <1>1 DEF End, Reading, TailInv, ReadInv
<1>3. PICK bs \in Seq(Bytes), e \in Text, p \in Text, t \in Text :
        /\ bs = SubSeq(s, 1, l) /\ p = pending /\ t = redactedTail /\ e = <<>>
        /\ IF poisoned THEN Lost(decoded(bs) ++ e, t) ELSE Kept(decoded(bs) ++ e, p, t)
  BY <1>1, <1>2 DEF TailInv, KeptInv
<1>4. PICK d \in Text : d = broken /\ d = broken'
  <2>1. broken' = broken
    BY <1>1, <1>2 DEF broken
  <2> QED BY <2>1, BrokenText
<1>5. PICK h \in Text : h = decoded(bs)
  BY DecodedText
<1>6. h ++ e = h
  BY <1>3, Nothing
<1>7. ASSUME NEW q \in Text, NEW u \in Text, q = pending', u = redactedTail',
              IF poisoned' THEN Lost(h ++ d, u) ELSE Kept(h ++ d, q, u)
      PROVE  TailInv'
  <2>1. ReadInv'
    <3>1. l \in 0..l
      OBVIOUS
    <3>2. poisoned' \in BOOLEAN /\ stdoutEnded' \in BOOLEAN
      BY <1>2 DEF TailInv, ReadInv
    <3> QED BY <1>1, <1>2, <1>7, <3>1, <3>2 DEF ReadInv
  <2>2. KeptInv'
    <3>1. /\ bs = SubSeq(stdout', 1, read') /\ q = pending' /\ u = redactedTail'
          /\ d = IF stdoutEnded' THEN broken' ELSE <<>>
      BY <1>2, <1>3, <1>4, <1>7
    <3>2. IF poisoned' THEN Lost(decoded(bs) ++ d, u) ELSE Kept(decoded(bs) ++ d, q, u)
      BY <1>5, <1>7, Zenon
    <3> QED BY <3>1, <3>2 DEF KeptInv
  <2> QED BY <2>1, <2>2 DEF TailInv
<1>8. CASE poisoned
  <2>1. p = pending' /\ t = redactedTail' /\ poisoned'
    BY <1>2, <1>3, <1>8
  <2>2. Lost(h ++ d, t)
    BY <1>3, <1>5, <1>6, <1>8, Ignored
  <2> QED BY <1>7, <2>1, <2>2
<1>9. CASE ~poisoned
  <2>1. Kept(h, p, t) /\ ~poisoned'
    BY <1>2, <1>3, <1>5, <1>6, <1>9
  <2>2. PICK text \in Text : text = p ++ d
    BY Glued
  <2>3. PICK a \in Text, b \in Text :
          /\ text = a ++ b /\ EndsLine(a) /\ \A i \in 1..Len(b) : b[i] # "nl"
          /\ a = SubSeq(text, 1, lastNewline(text))
          /\ b = SubSeq(text, lastNewline(text) + 1, Len(text))
    BY LastLine
  <2>4. p ++ d = a ++ b
    BY <2>2, <2>3
  <2>5. PICK ra \in Text : ra = redact(a)
    BY RedactText
  <2>6. PICK c \in Text : c = capTail(t ++ ra)
    BY Glued, CapTwice
  <2>7. drainCompleteLines(text)
    <3>1. text = pending \o broken
      BY <1>3, <1>4, <2>2 DEF ++
    <3> QED BY <1>2, <1>9, <3>1
  <2>8. pending' = b /\ redactedTail' = capTail(redactedTail \o redact(a))
    BY <2>3, <2>7, Zenon DEF drainCompleteLines, appendRedacted
  <2>9. redactedTail' = c
    BY <1>3, <2>5, <2>6, <2>8, Zenon DEF ++
  <2>10. Kept(h ++ d, b, c)
    <3>1. Kept(h ++ d, b, capTail(t ++ redact(a)))
      BY <2>1, <2>3, <2>4, Drained
    <3> QED BY <2>5, <2>6, <3>1
  <2> QED BY <1>7, <2>1, <2>8, <2>9, <2>10
<1> QED BY <1>8, <1>9

\* Every step keeps the invariant.
LEMMA NextKeepsTail == TailInv /\ [Next]_vars => TailInv'
<1> SUFFICES ASSUME TailInv, [Next]_vars PROVE TailInv'
  OBVIOUS
<1>1. ExitInv'
  BY ExitKept
<1>2. CASE UNCHANGED collectVars
  BY <1>1, <1>2, NotCollected
<1>3. ASSUME NEW b \in Bytes, Write(b) PROVE TailInv'
  BY <1>1, <1>3, WriteKeepsTail
<1>4. ASSUME NEW n \in 1..MaxBytes, Data(n) PROVE TailInv'
  BY <1>1, <1>4, DataKeepsTail
<1>5. CASE End
  BY <1>1, <1>5, EndKeepsTail
<1> USE DEF collectVars, tailVars
<1>6. CASE UNCHANGED vars
  BY <1>2, <1>6 DEF vars
<1>7. CASE Tree
  <2> USE DEF Others
  <2>1. ASSUME NEW p \in Pids, StraceForks(p) PROVE UNCHANGED collectVars
    BY <2>1 DEF StraceForks
  <2>2. ASSUME NEW p \in Pids, Exits(p) PROVE UNCHANGED collectVars
    BY <2>2 DEF Exits
  <2>3. ASSUME NEW p \in Pids, Daemonise(p) PROVE UNCHANGED collectVars
    BY <2>3 DEF Daemonise
  <2>4. CASE Launch
    BY <1>2, <2>4 DEF Launch
  <2>5. CASE LauncherExits
    BY <1>2, <2>5 DEF LauncherExits
  <2>6. CASE StraceExits
    BY <1>2, <2>6 DEF StraceExits
  <2> QED BY <1>2, <1>3, <1>7, <2>1, <2>2, <2>3, <2>4, <2>5, <2>6 DEF Tree
<1>8. CASE Runner
  <2>1. CASE GiveUp
    BY <1>2, <2>1 DEF GiveUp, Polling
  <2>2. CASE Poll
    BY <1>2, <2>2 DEF Poll, Polling
  <2>3. CASE Close
    BY <1>2, <2>3 DEF Close, Emits
  <2>4. CASE SpawnError
    BY <1>2, <2>4 DEF SpawnError, Emits
  <2>5. CASE TailerReturns
    BY <1>2, <2>5 DEF TailerReturns
  <2> QED BY <1>4, <1>5, <1>8, <2>1, <2>2, <2>3, <2>4, <2>5 DEF Runner
<1>9. CASE Done
  BY <1>2, <1>9 DEF Done, vars
<1> QED BY <1>6, <1>7, <1>8, <1>9 DEF Next

\* When run returns, all of stdout was read, or strace never started.
LEMMA ReturnsExact == TailInv => TailExact
<1> SUFFICES ASSUME TailInv, pc = "returned" PROVE TailExact
  BY DEF TailExact
<1>1. stdoutEnded \/ stdout = <<>>
  BY DEF TailInv, ExitInv
<1>2. PICK s \in Seq(Bytes), l \in Nat : s = stdout /\ l = Len(s) /\ read = l
  <2>1. stdout \in Seq(Bytes) /\ read \in 0..Len(stdout)
    BY DEF TailInv, ReadInv
  <2>2. Len(stdout) \in Nat
    BY <2>1, LenProperties
  <2>3. CASE stdoutEnded
    BY <2>1, <2>2, <2>3 DEF TailInv, ExitInv
  <2>4. CASE stdout = <<>>
    <3>1. Len(stdout) = 0
      BY <2>4, EmptySeq
    <3>2. read = 0
      BY <2>1, <3>1
    <3> QED BY <2>1, <2>2, <3>1, <3>2
  <2> QED BY <1>1, <2>3, <2>4
<1>3. PICK d \in Text : d = broken
  BY BrokenText
<1>4. PICK bs \in Seq(Bytes), p \in Text, t \in Text :
        /\ bs = SubSeq(s, 1, l) /\ p = pending /\ t = redactedTail
        /\ IF poisoned THEN Lost(decoded(bs) ++ d, t) ELSE Kept(decoded(bs) ++ d, p, t)
  <2>1. PICK bs \in Seq(Bytes), e \in Text, p \in Text, t \in Text :
          /\ bs = SubSeq(s, 1, l) /\ p = pending /\ t = redactedTail
          /\ e = IF stdoutEnded THEN broken ELSE <<>>
          /\ IF poisoned THEN Lost(decoded(bs) ++ e, t) ELSE Kept(decoded(bs) ++ e, p, t)
    BY <1>2 DEF TailInv, KeptInv
  <2>2. stdout = <<>> => broken = <<>>
    BY DEF broken
  <2>3. e = d
    BY <1>1, <1>3, <2>1, <2>2
  <2> QED BY <2>1, <2>3
<1>5. bs = s
  BY <1>2, <1>4, SubSeqFull
<1>6. PICK h \in Text : h = decoded(stdout) \o broken /\ h = decoded(bs) ++ d
  <2>1. decoded(bs) \in Text
    BY DecodedText
  <2>2. decoded(bs) ++ d \in Text
    BY <2>1, Glued
  <2> QED BY <1>2, <1>3, <1>5, <2>2 DEF ++
<1>7. CASE ~poisoned
  <2>1. PICK rp \in Text : rp = redact(p)
    BY RedactText
  <2>2. capTail(t ++ redact(p)) = capTail(redact(h))
    BY <1>4, <1>6, <1>7, KeptEnd
  <2>3. getStdoutTail = capTail(t ++ rp)
    BY <1>4, <1>7, <2>1, Zenon DEF getStdoutTail, ++
  <2> QED BY <1>6, <1>7, <2>1, <2>2, <2>3, Zenon DEF TailExact
<1>8. CASE poisoned
  <2>1. PICK i \in 0..Len(h) :
          /\ i = 0 \/ h[i] = "nl"
          /\ \A j \in i + 1..Len(h) : size(SubSeq(h, i + 1, j)) <= pendingMaxBytes => h[j] # "nl"
          /\ capTail(t ++ <<>>) = capTail(redact(SubSeq(h, 1, i)) ++ <<"T">>)
    BY <1>4, <1>6, <1>8, LostEnd
  <2>2. getStdoutTail = capTail(t ++ <<>>)
    BY <1>4, <1>8, Zenon DEF getStdoutTail, ++
  <2>3. capTail(redact(SubSeq(h, 1, i)) ++ <<"T">>) = capTail(redact(SubSeq(h, 1, i)) \o <<"T">>)
    BY Zenon DEF ++
  <2> QED BY <1>6, <1>8, <2>1, <2>2, <2>3, Zenon DEF TailExact
<1> QED BY <1>7, <1>8

\* However stdout is cut into chunks, whatever is written and whenever it ends, what is kept of
\* it is the end of all of it with every secret masked, or of the lines before a lost one.
THEOREM TailExactHolds == Spec => []TailExact
<1>1. Init => TailInv
  BY InitTail
<1>2. TailInv /\ [Next]_vars => TailInv'
  BY NextKeepsTail
<1>3. TailInv => TailExact
  BY ReturnsExact
<1> QED
  BY <1>1, <1>2, <1>3, PTL DEF Spec
=============================================================================
