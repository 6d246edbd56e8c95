-------------------------- MODULE CwdTrackerProofs --------------------------
(***************************************************************************)
(* Proofs about CwdTracker, for trees of any size and shape and any order  *)
(* in which the files are read.  In a tree of plain forks every open the   *)
(* dispatcher resolves is resolved against the directory it was made in,   *)
(* and the directory kept for a process's first exec is the one it was     *)
(* made in.  Where directories are shared, every open of the replay is     *)
(* resolved against the directory it was made in, as long as nobody        *)
(* unshares or every change of directory shows the directory.  And in a    *)
(* tree of plain forks the climb over deep chains does resolve what it is  *)
(* meant to.                                                               *)
(***************************************************************************)
EXTENDS CwdTracker, TLAPS

\* What PlainInv says of a tree without sharing.
Tracked == TypeOK /\ TreeInv /\ FreshInv /\ TrackInv

\* No directories are joined, and none is waiting to be.
Alone == up = [p \in Pids |-> p] /\ pendingCwdDetach = [p \in Pids |-> None]

-----------------------------------------------------------------------------
(* Lemmas.                                                                 *)

\* A walk that does not move ends where it starts.
LEMMA WalkStays ==
    ASSUME NEW f, NEW p \in Pids, f[p] = p
    PROVE  findCwdRoot(f, p) = p
<1>1. p \in Along(f, p)
  BY DEF Along
<1>2. \A a \in Along(f, p) : a = p
  <2> SUFFICES ASSUME NEW a \in Along(f, p) PROVE a = p
    OBVIOUS
  <2>1. {p} \in SUBSET Pids /\ p \in {p} /\ \A x \in {p} : f[x] \in {p}
    OBVIOUS
  <2>2. a \in {p}
    BY <2>1 DEF Along
  <2> QED BY <2>2
<1> QED
  BY <1>1, <1>2 DEF findCwdRoot

\* A walk stays in every set that is closed under it.
LEMMA WalkInside ==
    ASSUME NEW f, NEW p \in Pids, NEW S \in SUBSET Pids, p \in S, \A x \in S : f[x] \in S
    PROVE  Along(f, p) \subseteq S
  BY DEF Along

\* Before any line is taken, what is tracked is what the root was seeded with.
LEMMA FreshTrack ==
    running /\ TypeOK /\ TreeInv /\ FreshInv /\ Alone => TrackInv
<1> SUFFICES ASSUME running, TypeOK, TreeInv, FreshInv, NEW p \in Pids
             PROVE  CwdInv(p) /\ MutInv(p) /\ BirthInv(p) /\ OpenInv
  BY RootAssumption DEF TrackInv, Alone
<1>1. /\ taken[p] = 0 /\ deferredRelOpens = {} /\ emitted = {} /\ childParent[p] = p
      /\ firstCwdMutationTs[p] = 0 /\ lastCwdMutationTs[p] = 0
      /\ pidCwd[p] # None => p = Root /\ pidCwd[p] = WorkDir
      /\ pidCloneTimeCwd[p] # None => p = Root /\ pidCloneTimeCwd[p] = WorkDir
  BY DEF FreshInv
<1>2. bornIn[Root] = WorkDir /\ at(p, 0) = bornIn[p] /\ now(p) = bornIn[p]
  BY <1>1 DEF TreeInv, at, now
<1>3. CwdInv(p) /\ BirthInv(p)
  BY <1>1, <1>2 DEF CwdInv, BirthInv
<1>4. MutInv(p)
  <2>1. Len(file[p]) \in Nat
    BY DEF TypeOK
  <2>2. \A i \in 0..taken[p] : i = 0
    BY <1>1
  <2> QED BY <1>1, <1>2, <2>1, <2>2 DEF MutInv
<1>5. OpenInv
  BY <1>1 DEF OpenInv
<1> QED
  BY <1>3, <1>4, <1>5

LEMMA InitTracked == Init => Tracked
<1> SUFFICES ASSUME Init PROVE Tracked
  OBVIOUS
<1> USE RootAssumption, DirsAssumption, CallsAssumption
<1>1. TypeOK
  <2>1. <<>> \in Seq(Line)
    OBVIOUS
  <2>2. 0 \in 0..MaxCalls
    OBVIOUS
  <2> QED BY <2>1, <2>2 DEF Init, TypeOK, Known
<1>2. TreeInv
  <2>1. \A p \in Pids : file[p] = <<>> /\ Len(<<>>) = 0
    BY DEF Init
  <2>2. \A p \in Pids : at(p, Len(file[p])) = cwd[p] /\ 1..Len(file[p]) = {}
    BY <2>1 DEF Init, at
  <2> QED BY <2>1, <2>2 DEF Init, TreeInv
<1>3. FreshInv
  BY DEF Init, FreshInv
<1> QED
  BY <1>1, <1>2, <1>3, FreshTrack DEF Init, Tracked, Alone

-----------------------------------------------------------------------------
(* The calls of the tree.                                                  *)

\* Lines are only added, so a tree that is plain was plain before.
LEMMA PlainBefore ==
    ASSUME file \in [Pids -> Seq(Line)], NEW p \in Pids, NEW l,
           file' = [file EXCEPT ![p] = Append(@, l)], Unshared'
    PROVE  Unshared /\ l.call \notin {"clone_fs", "unshare"}
<1> DEFINE s == Append(file[p], l)
<1>1. /\ file[p] \in Seq(Line) /\ Len(file[p]) \in Nat /\ Len(s) = Len(file[p]) + 1
      /\ s[Len(file[p]) + 1] = l /\ \A i \in 1..Len(file[p]) : s[i] = file[p][i]
  OBVIOUS
<1>2. file'[p] = s /\ \A q \in Pids \ {p} : file'[q] = file[q]
  OBVIOUS
<1>3. \A i \in 1..Len(s) : s[i].call \notin {"clone_fs", "unshare"}
  BY <1>2 DEF Unshared, Only, Calls
<1>4. \A q \in Pids : \A i \in 1..Len(file[q]) :
        /\ i \in 1..Len(file'[q]) /\ file'[q][i] = file[q][i]
  BY <1>1, <1>2
<1>5. Unshared
  BY <1>4 DEF Unshared, Only
<1>6. Len(s) \in 1..Len(s)
  BY <1>1
<1> QED
  BY <1>1, <1>3, <1>5, <1>6

\* A line that is right for its place keeps every line right.
LEMMA TreeStep ==
    ASSUME TypeOK, TreeInv, NEW p \in live, NEW l \in Line,
           file' = [file EXCEPT ![p] = Append(@, l)],
           live \subseteq live', live' \subseteq Pids,
           \A q \in live : bornIn'[q] = bornIn[q],
           \A q \in Pids : cwd'[q] = IF q = p THEN l.at ELSE IF q \in live THEN cwd[q]
                                     ELSE bornIn'[q],
           l.call \notin Mutations => l.at = cwd[p],
           l.call = "relative" => l.at = Below[cwd[p]],
           l.call = "chdir" => l.at = l.dir,
           l.call = "clone" => l.child \in live' /\ bornIn'[l.child] = l.at,
           mates' = mates
    PROVE  TreeInv'
<1> DEFINE s == Append(file[p], l)
<1> USE RootAssumption
<1>0. p \in Pids /\ live \subseteq Pids /\ Len(file[p]) \in Nat
  BY DEF TypeOK
<1>n. PICK n \in Nat : n = Len(file[p])
  BY <1>0
<1>1. /\ file[p] \in Seq(Line) /\ n = Len(file[p]) /\ Len(s) = n + 1
      /\ s[n + 1] = l /\ \A i \in 1..n : s[i] = file[p][i]
  BY <1>0, <1>n DEF TypeOK
<1>2. file'[p] = s /\ \A q \in Pids \ {p} : file'[q] = file[q]
  BY <1>0 DEF TypeOK
<1>3. \A q \in live : \A i \in 0..Len(file[q]) : at(q, i)' = at(q, i)
  <2> SUFFICES ASSUME NEW q \in live, NEW i \in 0..Len(file[q]) PROVE at(q, i)' = at(q, i)
    OBVIOUS
  <2>1. Len(file[q]) \in Nat
    BY <1>0 DEF TypeOK
  <2>2. i # 0 => file'[q][i] = file[q][i]
    BY <1>0, <1>1, <1>2, <2>1
  <2> QED BY <2>2 DEF at
<1>4. ASSUME NEW q \in live, NEW i \in 1..Len(file[q])
      PROVE  LineInv(q, i)'
  <2>1. LineInv(q, i)
    BY <1>0 DEF TreeInv
  <2>0. Len(file[q]) \in Nat
    BY <1>0 DEF TypeOK
  <2>2. Len(file[q]) \in Nat /\ i - 1 \in 0..Len(file[q])
    BY <2>0
  <2>3. file'[q][i] = file[q][i]
    BY <1>0, <1>1, <1>2, <2>2
  <2>4. at(q, i - 1)' = at(q, i - 1)
    BY <1>3, <2>2
  <2>5. file[q][i].call = "clone" =>
          file[q][i].child \in live' /\ bornIn'[file[q][i].child] = file[q][i].at
    BY <2>1 DEF LineInv
  <2> HIDE DEF s
  <2> QED BY <2>1, <2>3, <2>4, <2>5 DEF LineInv
<1>5. cwd[p] = at(p, n)
  BY <1>0, <1>1 DEF TreeInv
<1>6. LineInv(p, n + 1)'
  <2>1. at(p, n)' = cwd[p] /\ (n + 1) - 1 = n
    BY <1>1, <1>3, <1>5
  <2>2. file'[p][n + 1] = l
    BY <1>1, <1>2
  <2>3. at(p, (n + 1) - 1)' = cwd[p]
    BY <2>1
  <2> HIDE DEF s
  <2> QED BY <2>2, <2>3 DEF LineInv
<1>7. ASSUME NEW q \in Pids
      PROVE  /\ q \notin live' => file'[q] = <<>>
             /\ cwd'[q] = at(q, Len(file[q]))'
             /\ \A i \in 1..Len(file'[q]) : LineInv(q, i)'
  <2>1. CASE q = p
    <3>1. Len(file'[p]) = n + 1 /\ \A i \in 1..(n + 1) : i = n + 1 \/ i \in 1..n
      BY <1>1, <1>2
    <3>2. at(p, Len(file[p]))' = l.at
      BY <1>1, <1>2, <3>1 DEF at
    <3>3. \A i \in 1..Len(file'[p]) : LineInv(p, i)'
      BY <1>4, <1>6, <3>1
    <3> QED BY <2>1, <3>2, <3>3
  <2>2. CASE q # p /\ q \in live
    <3>1. cwd'[q] = cwd[q] /\ cwd[q] = at(q, Len(file[q])) /\ file'[q] = file[q]
      BY <1>2, <2>2 DEF TreeInv
    <3>2. Len(file[q]) \in 0..Len(file[q])
      BY DEF TypeOK
    <3>3. at(q, Len(file[q]))' = at(q, Len(file[q]))
      <4>1. at(q, Len(file[q]))' = IF Len(file[q]) = 0 THEN bornIn'[q] ELSE file[q][Len(file[q])].at
        BY <3>1 DEF at
      <4> QED BY <2>2, <4>1 DEF at
    <3> QED BY <1>4, <2>2, <3>1, <3>3
  <2>3. CASE q # p /\ q \notin live
    <3>1. file'[q] = <<>> /\ Len(<<>>) = 0 /\ 1..0 = {}
      BY <1>2, <2>3 DEF TreeInv
    <3> QED BY <2>3, <3>1 DEF at
  <2> QED BY <2>1, <2>2, <2>3
<1> QED
  BY <1>7 DEF TreeInv

\* What Calling alone settles.
LEMMA CallingStep ==
    ASSUME file \in [Pids -> Seq(Line)], NEW p \in Pids, NEW call, NEW d \in Dirs,
           NEW c \in Pids, NEW q \in Dirs, Calling(p, call, d, c, q)
    PROVE  /\ call \in Calls /\ [call |-> call, dir |-> d, child |-> c, at |-> q] \in Line
           /\ file' \in [Pids -> Seq(Line)]
           /\ running /\ running'
<1> DEFINE l == [call |-> call, dir |-> d, child |-> c, at |-> q]
<1>1. call \in Calls /\ l \in Line
  BY CallsAssumption DEF Calling, Line
<1>2. file' = [file EXCEPT ![p] = Append(@, l)]
  BY DEF Calling
<1>3. Append(file[p], l) \in Seq(Line)
  BY <1>1
<1>4. file' \in [Pids -> Seq(Line)]
  BY <1>2, <1>3
<1> QED
  BY <1>1, <1>4 DEF Calling

\* A call of the tree, seen from its line.
LEMMA KernelLine ==
    ASSUME live \subseteq Pids, cwd \in [Pids -> Dirs], file \in [Pids -> Seq(Line)], KernelNext
    PROVE  /\ live' \subseteq Pids /\ cwd' \in [Pids -> Dirs] /\ file' \in [Pids -> Seq(Line)]
           /\ \E p \in live, call \in Calls, d \in Dirs, c \in Pids, q \in Dirs :
                /\ Calling(p, call, d, c, q)
                /\ \/ Chdir(p, call, d) /\ q = d
                   \/ Clone(p, call, c) /\ q = cwd[p]
                   \/ Unshare(p) /\ call = "unshare"
                   \/ Other(p, call) /\ q = cwd[p]
<1> DEFINE Goal ==
           /\ live' \subseteq Pids /\ cwd' \in [Pids -> Dirs] /\ file' \in [Pids -> Seq(Line)]
           /\ \E p \in live, call \in Calls, d \in Dirs, c \in Pids, q \in Dirs :
                /\ Calling(p, call, d, c, q)
                /\ \/ Chdir(p, call, d) /\ q = d
                   \/ Clone(p, call, c) /\ q = cwd[p]
                   \/ Unshare(p) /\ call = "unshare"
                   \/ Other(p, call) /\ q = cwd[p]
<1>1. ASSUME NEW p \in Pids, NEW call \in Mutations, NEW d \in Dirs, Chdir(p, call, d)
      PROVE  Goal
  <2>1. Calling(p, call, d, p, d)
    BY <1>1 DEF Chdir
  <2>2. call \in Calls /\ file' \in [Pids -> Seq(Line)] /\ p \in live
    BY <2>1, CallingStep DEF Calling
  <2>3. live' \subseteq Pids /\ cwd' \in [Pids -> Dirs]
    BY <1>1 DEF Chdir
  <2> QED BY <1>1, <2>1, <2>2, <2>3
<1>2. ASSUME NEW p \in Pids, NEW call \in Clones, NEW c \in Pids, Clone(p, call, c)
      PROVE  Goal
  <2>1. Calling(p, call, cwd[p], c, cwd[p])
    BY <1>2 DEF Clone
  <2>2. call \in Calls /\ file' \in [Pids -> Seq(Line)] /\ p \in live
    BY <2>1, CallingStep DEF Calling
  <2>3. live' \subseteq Pids /\ cwd' \in [Pids -> Dirs]
    BY <1>2 DEF Clone
  <2> QED BY <1>2, <2>1, <2>2, <2>3
<1>3. ASSUME NEW p \in Pids, Unshare(p)
      PROVE  Goal
  <2>1. Calling(p, "unshare", cwd[p], p, cwd[p])
    BY <1>3 DEF Unshare
  <2>2. "unshare" \in Calls /\ file' \in [Pids -> Seq(Line)] /\ p \in live
    BY <2>1, CallingStep DEF Calling
  <2>3. live' \subseteq Pids /\ cwd' \in [Pids -> Dirs]
    BY <1>3 DEF Unshare
  <2> QED BY <1>3, <2>1, <2>2, <2>3
<1>4. ASSUME NEW p \in Pids, NEW call \in {"open", "exec"}, Other(p, call)
      PROVE  Goal
  <2>1. Calling(p, call, cwd[p], p, cwd[p])
    BY <1>4 DEF Other
  <2>2. call \in Calls /\ file' \in [Pids -> Seq(Line)] /\ p \in live
    BY <2>1, CallingStep DEF Calling
  <2>3. live' \subseteq Pids /\ cwd' \in [Pids -> Dirs]
    BY <1>4 DEF Other
  <2> QED BY <1>4, <2>1, <2>2, <2>3
<1> HIDE DEF Goal
<1>5. Goal
  BY <1>1, <1>2, <1>3, <1>4 DEF KernelNext
<1> QED
  BY <1>5 DEF Goal

\* A call of a plain tree keeps what is tracked: no line has been taken yet.
LEMMA TreeActions ==
    ASSUME PlainInv, KernelNext, Unshared'
    PROVE  Tracked'
<1>0. live \subseteq Pids /\ cwd \in [Pids -> Dirs] /\ file \in [Pids -> Seq(Line)]
  BY DEF PlainInv
<1>1. PICK p \in live, call \in Calls, d \in Dirs, c \in Pids, q \in Dirs :
        /\ Calling(p, call, d, c, q)
        /\ \/ Chdir(p, call, d) /\ q = d
           \/ Clone(p, call, c) /\ q = cwd[p]
           \/ Unshare(p) /\ call = "unshare"
           \/ Other(p, call) /\ q = cwd[p]
  BY <1>0, KernelLine
<1> DEFINE l == [call |-> call, dir |-> d, child |-> c, at |-> q]
<1>2. /\ p \in Pids /\ l \in Line /\ file' = [file EXCEPT ![p] = Append(@, l)]
      /\ file' \in [Pids -> Seq(Line)] /\ running /\ running'
      /\ live' \subseteq Pids /\ cwd' \in [Pids -> Dirs]
  BY <1>0, <1>1, CallingStep, KernelLine DEF Calling
<1>3. Unshared /\ l.call \notin {"clone_fs", "unshare"}
  BY <1>0, <1>2, PlainBefore
<1>4. Tracked /\ TypeOK /\ TreeInv /\ FreshInv /\ TrackInv
  BY <1>3 DEF PlainInv, Tracked
<1>5. mates = [x \in Pids |-> {x}]
  BY <1>4 DEF TreeInv
<1>6. TreeInv' /\ bornIn' \in [Pids -> Dirs] /\ mates' = mates
  <2>0. call \notin {"clone_fs", "unshare"}
    BY <1>3
  <2>a. \A x \in Pids : x \notin live => cwd[x] = bornIn[x]
    BY <1>4 DEF TreeInv, at
  <2>b. l.call = call /\ l.at = q /\ l.child = c /\ l.dir = d
    OBVIOUS
  <2> HIDE DEF l
  <2>1. CASE Chdir(p, call, d) /\ q = d
    <3>1. /\ live' = live /\ bornIn' = bornIn /\ mates' = mates /\ call \in Mutations
          /\ \A x \in Pids : cwd'[x] = IF x = p THEN d ELSE cwd[x]
          /\ call = "relative" => d = Below[cwd[p]]
      BY <1>2, <1>5, <2>1 DEF Chdir
    <3>2. call # "clone"
      BY <3>1 DEF Mutations
    <3>3. /\ l.at = d /\ (l.call \notin Mutations => l.at = cwd[p])
          /\ (l.call = "relative" => l.at = Below[cwd[p]]) /\ (l.call = "chdir" => l.at = l.dir)
          /\ l.call # "clone"
      BY <2>1, <2>b, <3>1, <3>2
    <3>4. \A x \in Pids : cwd'[x] = IF x = p THEN l.at ELSE IF x \in live THEN cwd[x]
                                   ELSE bornIn'[x]
      BY <2>a, <3>1, <3>3
    <3>5. TreeInv'
      BY <1>1, <1>2, <1>4, <3>1, <3>3, <3>4, TreeStep
    <3> QED BY <1>4, <3>1, <3>5 DEF TypeOK
  <2>2. CASE Clone(p, call, c) /\ q = cwd[p]
    <3>1. /\ live' = live \cup {c} /\ c \notin live /\ bornIn' = [bornIn EXCEPT ![c] = cwd[p]]
          /\ cwd' = [cwd EXCEPT ![c] = cwd[p]] /\ call = "clone"
      BY <2>0, <2>2 DEF Clone, Clones
    <3>2. mates' = mates
      BY <1>5, <2>2, <3>1 DEF Clone
    <3>3. call \notin Mutations /\ call # "relative" /\ call # "chdir"
      BY <3>1 DEF Mutations
    <3>4. bornIn' \in [Pids -> Dirs] /\ bornIn'[c] = cwd[p]
      BY <1>0, <1>2, <1>4, <3>1 DEF TypeOK
    <3>5. /\ \A x \in live : bornIn'[x] = bornIn[x]
          /\ \A x \in Pids : cwd'[x] = IF x = p THEN l.at ELSE IF x \in live THEN cwd[x]
                                       ELSE bornIn'[x]
      <4>1. bornIn \in [Pids -> Dirs] /\ p # c /\ l.at = cwd[p]
        BY <1>1, <1>4, <2>2, <2>b, <3>1 DEF TypeOK
      <4>2. /\ cwd'[c] = cwd[p] /\ \A x \in Pids : x # c => cwd'[x] = cwd[x] /\ bornIn'[x] = bornIn[x]
        BY <1>0, <3>1, <4>1
      <4> QED BY <1>0, <2>a, <3>1, <3>4, <4>1, <4>2
    <3>6. /\ l.call \notin Mutations /\ l.call # "relative" /\ l.call # "chdir" /\ l.at = cwd[p]
          /\ l.child \in live' /\ bornIn'[l.child] = l.at /\ live \subseteq live'
      BY <2>2, <2>b, <3>1, <3>3, <3>4
    <3>7. TreeInv'
      BY <1>1, <1>2, <1>4, <3>2, <3>5, <3>6, TreeStep
    <3> QED BY <3>2, <3>4, <3>7
  <2>3. CASE Other(p, call) /\ q = cwd[p]
    <3>1. /\ live' = live /\ bornIn' = bornIn /\ mates' = mates /\ cwd' = cwd
          /\ call \notin Mutations /\ call \notin {"relative", "chdir", "clone"}
      BY <2>3 DEF Other, Mutations
    <3>2. /\ l.call \notin Mutations /\ l.call \notin {"relative", "chdir", "clone"}
          /\ l.at = cwd[p]
      BY <2>3, <2>b, <3>1
    <3>3. \A x \in Pids : cwd'[x] = IF x = p THEN l.at ELSE IF x \in live THEN cwd[x]
                                   ELSE bornIn'[x]
      BY <2>a, <3>1, <3>2
    <3>4. TreeInv'
      BY <1>1, <1>2, <1>4, <3>1, <3>2, <3>3, TreeStep
    <3> QED BY <1>4, <3>1, <3>4 DEF TypeOK
  <2> QED BY <1>1, <2>0, <2>1, <2>2, <2>3
<1>7. FreshInv'
  BY <1>1, <1>2, <1>4 DEF Calling, FreshInv, groupVars, cloneVars, mutVars, openVars
<1>8. TypeOK'
  <2>1. mates' \in [Pids -> SUBSET Pids]
    BY <1>5, <1>6
  <2>2. calls' \in 0..MaxCalls
    BY <1>1, <1>4, CallsAssumption DEF Calling, TypeOK
  <2> QED BY <1>1, <1>2, <1>4, <1>6, <2>1, <2>2 DEF Calling, TypeOK, groupVars, cloneVars, mutVars,
             execVars, openVars
<1>9. TrackInv'
  <2>1. Alone'
    BY <1>1, <1>4 DEF Calling, TrackInv, Alone, groupVars
  <2>2. running' /\ TypeOK' /\ TreeInv' /\ FreshInv'
    BY <1>2, <1>6, <1>7, <1>8
  <2> QED BY <2>1, <2>2, FreshTrack, PTL
<1> QED
  BY <1>6, <1>7, <1>8, <1>9 DEF Tracked

LEMMA TreeEnds ==
    ASSUME Tracked, TreeDone
    PROVE  Tracked'
<1> USE DEF Tracked, TreeDone
<1>1. TypeOK'
  BY DEF TypeOK, groupVars, cloneVars, mutVars, execVars, openVars
<1>2. TreeInv' /\ FreshInv'
  BY DEF TreeInv, FreshInv, LineInv, at
<1>3. TrackInv'
  BY DEF TrackInv, CwdInv, MutInv, BirthInv, OpenInv, Genuine, lineOf, now, at, groupVars, cloneVars,
         mutVars, openVars
<1> QED
  BY <1>1, <1>2, <1>3

-----------------------------------------------------------------------------
(* Lines taken.                                                            *)

\* The line p is at, and what taking it leaves alone.
LEMMA TakeBasics ==
    ASSUME Tracked, NEW p \in Pids, NEW these, Take(p, these)
    PROVE  /\ ~running /\ lineTs(p) = taken[p] + 1 /\ lineTs(p) \in 1..Len(file[p])
           /\ Next1(p) = file[p][lineTs(p)] /\ Next1(p).call \in these /\ Next1(p) \in Line
           /\ LineInv(p, lineTs(p)) /\ at(p, lineTs(p)) = Next1(p).at
           /\ at(p, lineTs(p) - 1) = now(p)
           /\ taken' \in [Pids -> Nat]
           /\ \A q \in Pids : taken'[q] = IF q = p THEN lineTs(p) ELSE taken[q]
           /\ \A q \in Pids, i \in Nat : at(q, i)' = at(q, i)
           /\ \A q \in Pids : now(q)' = IF q = p THEN Next1(p).at ELSE now(q)
           /\ bornIn' = bornIn /\ file' = file
           /\ TreeInv' /\ FreshInv'
<1> USE DEF Tracked
<1>1. /\ taken \in [Pids -> Nat] /\ file \in [Pids -> Seq(Line)] /\ Len(file[p]) \in Nat
      /\ bornIn \in [Pids -> Dirs]
  BY DEF TypeOK
<1>2. /\ ~running /\ lineTs(p) = taken[p] + 1 /\ lineTs(p) \in 1..Len(file[p])
      /\ Next1(p) = file[p][lineTs(p)] /\ Next1(p).call \in these
      /\ taken' = [taken EXCEPT ![p] = lineTs(p)]
  BY <1>1 DEF Take, lineTs, Next1
<1>3. Next1(p) \in Line
  BY <1>1, <1>2
<1>4. LineInv(p, lineTs(p)) /\ at(p, lineTs(p)) = Next1(p).at /\ at(p, lineTs(p) - 1) = now(p)
  BY <1>1, <1>2 DEF TreeInv, at, now
<1>5. file' = file /\ bornIn' = bornIn /\ live' = live /\ cwd' = cwd /\ mates' = mates /\ running' = running
  BY DEF Take, treeVars
<1>6. \A q \in Pids, i \in Nat : at(q, i)' = at(q, i)
  BY <1>5 DEF at
<1>7. /\ taken' \in [Pids -> Nat]
      /\ \A q \in Pids : taken'[q] = IF q = p THEN lineTs(p) ELSE taken[q]
  BY <1>1, <1>2
<1>8. \A q \in Pids : now(q)' = IF q = p THEN Next1(p).at ELSE now(q)
  BY <1>2, <1>4, <1>5, <1>7 DEF now, at
<1>9. TreeInv' /\ FreshInv'
  BY <1>2, <1>5 DEF TreeInv, FreshInv, LineInv, at
<1> QED
  BY <1>2, <1>3, <1>4, <1>5, <1>6, <1>7, <1>8, <1>9

\* A line that does not move p leaves every process where it was.
LEMMA StillStep ==
    ASSUME Tracked, NEW p \in Pids, NEW these, Take(p, these), these \cap Mutations = {},
           UNCHANGED mutVars
    PROVE  \A q \in Pids : now(q)' = now(q) /\ MutInv(q)'
<1> SUFFICES ASSUME NEW q \in Pids PROVE now(q)' = now(q) /\ MutInv(q)'
  OBVIOUS
<1> DEFINE first == firstCwdMutationTs[q]
           last == lastCwdMutationTs[q]
<1>1. /\ taken \in [Pids -> Nat] /\ Len(file[p]) \in Nat /\ first \in Nat /\ last \in Nat
      /\ MutInv(q) /\ firstCwdMutationTs' = firstCwdMutationTs
      /\ lastCwdMutationTs' = lastCwdMutationTs
  BY DEF Tracked, TypeOK, TrackInv, mutVars
<1>2. Next1(p).at = now(p)
  BY TakeBasics DEF LineInv
<1>3. now(q)' = now(q)
  BY <1>2, TakeBasics
<1>4. taken'[q] \in Nat /\ taken'[q] <= Len(file[q]) /\ taken[q] <= taken'[q] /\ file' = file
      /\ bornIn' = bornIn
  BY <1>1, TakeBasics DEF MutInv
<1>5. ASSUME NEW i \in 0..taken'[q]
      PROVE  /\ first = 0 \/ i < first => at(q, i) = bornIn[q]
             /\ last <= i => at(q, i) = now(q)
  <2>1. CASE i \in 0..taken[q]
    BY <1>1, <2>1 DEF MutInv
  <2>2. CASE i \notin 0..taken[q]
    <3>1. q = p /\ i = lineTs(p) /\ i = taken[p] + 1
      BY <1>1, <1>4, <2>2, TakeBasics
    <3>2. at(q, i) = now(q) /\ at(q, taken[q]) = now(q)
      BY <1>2, <3>1, TakeBasics DEF now
    <3>3. first = 0 \/ i < first => at(q, taken[q]) = bornIn[q]
      BY <1>1, <3>1 DEF MutInv
    <3> QED BY <3>2, <3>3
  <2> QED BY <2>1, <2>2
<1>6. \A i \in 0..taken'[q] : at(q, i)' = at(q, i)
  BY <1>4, TakeBasics
<1> QED
  BY <1>1, <1>3, <1>4, <1>5, <1>6 DEF MutInv

\* A line that moves p is noted.
LEMMA MovedStep ==
    ASSUME Tracked, NEW p \in Pids, NEW these, Take(p, these), noteMutation(p)
    PROVE  /\ \A q \in Pids : MutInv(q)'
           /\ firstCwdMutationTs' \in [Pids -> Nat] /\ lastCwdMutationTs' \in [Pids -> Nat]
           /\ \A q \in Pids : q # p => firstCwdMutationTs'[q] = firstCwdMutationTs[q]
<1>1. /\ taken \in [Pids -> Nat] /\ \A q \in Pids : Len(file[q]) \in Nat
      /\ firstCwdMutationTs \in [Pids -> Nat] /\ lastCwdMutationTs \in [Pids -> Nat]
      /\ \A q \in Pids : MutInv(q)
  BY DEF Tracked, TypeOK, TrackInv
<1>2. /\ lineTs(p) = taken[p] + 1 /\ lineTs(p) \in Nat /\ lineTs(p) \in 1..Len(file[p])
  BY TakeBasics
<1>3. /\ firstCwdMutationTs' \in [Pids -> Nat] /\ lastCwdMutationTs' \in [Pids -> Nat]
      /\ \A q \in Pids : q # p => /\ firstCwdMutationTs'[q] = firstCwdMutationTs[q]
                                  /\ lastCwdMutationTs'[q] = lastCwdMutationTs[q]
      /\ firstCwdMutationTs'[p] = IF firstCwdMutationTs[p] = 0 THEN lineTs(p)
                                  ELSE firstCwdMutationTs[p]
      /\ lastCwdMutationTs'[p] = lineTs(p)
  BY <1>1, <1>2 DEF noteMutation
<1>4. \A q \in Pids : q # p => MutInv(q)'
  <2> SUFFICES ASSUME NEW q \in Pids, q # p PROVE MutInv(q)'
    OBVIOUS
  <2>1. taken'[q] = taken[q] /\ taken[q] \in Nat /\ file' = file /\ bornIn' = bornIn
        /\ now(q)' = now(q)
    BY <1>1, TakeBasics
  <2>2. \A i \in 0..taken[q] : at(q, i)' = at(q, i)
    BY <2>1, TakeBasics
  <2> QED BY <1>1, <1>3, <2>1, <2>2 DEF MutInv
<1>5. MutInv(p)'
  <2>1. taken'[p] = lineTs(p) /\ file' = file /\ bornIn' = bornIn /\ now(p)' = Next1(p).at
        /\ at(p, lineTs(p)) = Next1(p).at
    BY TakeBasics
  <2>2. \A i \in 0..taken'[p] : at(p, i)' = at(p, i)
    BY <1>2, <2>1, TakeBasics
  <2>3. /\ firstCwdMutationTs'[p] <= lastCwdMutationTs'[p] /\ lastCwdMutationTs'[p] <= taken'[p]
        /\ firstCwdMutationTs'[p] # 0 /\ taken'[p] <= Len(file[p])
    BY <1>1, <1>2, <1>3, <2>1 DEF MutInv
  <2>4. ASSUME NEW i \in 0..taken'[p], i < firstCwdMutationTs'[p]
        PROVE  at(p, i) = bornIn[p]
    <3>1. i \in 0..taken[p] /\ (firstCwdMutationTs[p] = 0 \/ i < firstCwdMutationTs[p])
      BY <1>1, <1>2, <1>3, <2>1, <2>4 DEF MutInv
    <3> QED BY <1>1, <3>1 DEF MutInv
  <2>5. ASSUME NEW i \in 0..taken'[p], lastCwdMutationTs'[p] <= i
        PROVE  at(p, i) = Next1(p).at
    BY <1>2, <1>3, <2>1, <2>5
  <2> QED BY <2>1, <2>2, <2>3, <2>4, <2>5 DEF MutInv
<1> QED
  BY <1>3, <1>4, <1>5

\* More lines taken keep what was seen of the clones and the opens.
LEMMA BirthsStay ==
    ASSUME Tracked, NEW p \in Pids, NEW these, Take(p, these), UNCHANGED cloneVars
    PROVE  \A q \in Pids : BirthInv(q)'
<1> SUFFICES ASSUME NEW q \in Pids PROVE BirthInv(q)'
  OBVIOUS
<1>1. /\ taken \in [Pids -> Nat] /\ childParent[q] \in Pids /\ childSeedCloneTs[q] \in Nat
      /\ BirthInv(q) /\ childParent' = childParent /\ childSeedCloneTs' = childSeedCloneTs
      /\ pidCloneTimeCwd' = pidCloneTimeCwd
  BY DEF Tracked, TypeOK, TrackInv, cloneVars
<1> DEFINE a == childParent[q]
           i == childSeedCloneTs[q]
<1>2. /\ taken[a] \in Nat /\ taken'[a] \in Nat /\ taken[a] <= taken'[a] /\ bornIn' = bornIn
      /\ at(a, i)' = at(a, i)
  <2>1. bornIn' = bornIn /\ file' = file
    BY TakeBasics
  <2>2. at(a, i)' = at(a, i)
    BY <1>1, <2>1 DEF at
  <2>3. \A x \in Pids : taken[x] \in Nat /\ taken'[x] \in Nat /\ taken[x] <= taken'[x]
    BY <1>1, TakeBasics
  <2> QED BY <1>1, <2>1, <2>2, <2>3
<1> QED
  BY <1>1, <1>2 DEF BirthInv

LEMMA OpensStay ==
    ASSUME Tracked, NEW p \in Pids, NEW these, Take(p, these), UNCHANGED openVars
    PROVE  OpenInv'
<1>1. /\ taken \in [Pids -> Nat] /\ deferredRelOpens' = deferredRelOpens /\ emitted' = emitted
      /\ OpenInv /\ deferredRelOpens \subseteq Deferred /\ emitted \subseteq Emitted
  BY DEF Tracked, TypeOK, TrackInv, openVars
<1>2. /\ file' = file /\ bornIn' = bornIn
      /\ \A q \in Pids : taken'[q] \in Nat /\ taken[q] <= taken'[q]
  BY <1>1, TakeBasics
<1>3. /\ \A o \in Deferred : o.pid \in Pids /\ o.ts \in Nat
      /\ \A e \in Emitted : e.pid \in Pids /\ e.ts \in Nat
  BY DEF Deferred, Emitted
<1> QED
  BY <1>1, <1>2, <1>3 DEF OpenInv, Genuine, lineOf

\* Nobody shares: every process is the root of its own group.
LEMMA OwnGroup ==
    ASSUME Tracked, NEW p \in Pids
    PROVE  /\ rootedCwd(p) = p /\ compressed(p) = up /\ cwdGet(p) = pidCwd[p]
           /\ cwdUnknownHas(p) <=> p \in pidCwdUnknown
           /\ canonicalCwd(p) = IF p \in pidCwdUnknown THEN None ELSE pidCwd[p]
           /\ canonicalCwd(p) \in Known
           /\ canonicalCwd(p) # None => canonicalCwd(p) = now(p)
<1>1. up = [x \in Pids |-> x] /\ CwdInv(p) /\ pidCwd[p] \in Known
  BY DEF Tracked, TrackInv, TypeOK
<1>2. findCwdRoot(up, p) = p
  BY <1>1, WalkStays
<1>3. rootedCwd(p) = p
  BY <1>2 DEF rootedCwd
<1>4. compressed(p) = up
  BY <1>1, <1>3 DEF compressed
<1> QED
  BY <1>1, <1>3, <1>4 DEF cwdGet, cwdUnknownHas, canonicalCwd, CwdInv, Known

\* A change of directory that p's line shows, or that leaves p without one.
LEMMA MoveStep ==
    ASSUME Tracked, NEW p \in Pids, NEW these, Take(p, these), noteMutation(p),
           up' = compressed(p),
           UNCHANGED <<pendingCwdDetach, everCwdShared, cloneFsEdges, cloneVars, execVars, openVars>>,
           pidCwd' \in [Pids -> Known], pidCwdUnknown' \subseteq Pids,
           \A q \in Pids : q # p => /\ pidCwd'[q] = pidCwd[q]
                                    /\ q \in pidCwdUnknown' <=> q \in pidCwdUnknown,
           pidCwd'[p] # None => pidCwd'[p] = Next1(p).at,
           pidCwd'[p] = None => p \in pidCwdUnknown'
    PROVE  Tracked'
<1>1. up' = up
  BY OwnGroup
<1>2. \A q \in Pids : CwdInv(q)'
  <2> SUFFICES ASSUME NEW q \in Pids PROVE CwdInv(q)'
    OBVIOUS
  <2>1. CASE q = p
    BY <2>1, TakeBasics DEF CwdInv
  <2>2. CASE q # p
    <3>1. CwdInv(q)
      BY DEF Tracked, TrackInv
    <3>2. now(q)' = now(q)
      BY <2>2, TakeBasics
    <3>3. firstCwdMutationTs'[q] = firstCwdMutationTs[q]
      BY <2>2, MovedStep
    <3> QED BY <2>2, <3>1, <3>2, <3>3 DEF CwdInv
  <2> QED BY <2>1, <2>2
<1>3. TypeOK'
  <2>1. /\ taken' \in [Pids -> Nat]
        /\ firstCwdMutationTs' \in [Pids -> Nat] /\ lastCwdMutationTs' \in [Pids -> Nat]
    BY TakeBasics, MovedStep
  <2> QED BY <1>1, <2>1 DEF Tracked, TypeOK, Take, treeVars, cloneVars, execVars, openVars
<1>4. TrackInv'
  <2>1. \A q \in Pids : MutInv(q)' /\ BirthInv(q)'
    BY MovedStep, BirthsStay
  <2>2. OpenInv'
    BY OpensStay
  <2>3. TrackInv
    BY DEF Tracked
  <2> QED BY <1>1, <1>2, <2>1, <2>2, <2>3 DEF TrackInv
<1> QED
  BY <1>3, <1>4, TakeBasics DEF Tracked

LEMMA ChdirStep ==
    ASSUME Tracked, NEW p \in Pids, TakeChdir(p)
    PROVE  Tracked'
<1> USE DEF TakeChdir
<1>1. pidCwd' = [pidCwd EXCEPT ![p] = Next1(p).dir] /\ pidCwdUnknown' = pidCwdUnknown \ {p}
  BY OwnGroup
<1>2. Next1(p).dir \in Dirs /\ Next1(p).at = Next1(p).dir
  <2>1. Next1(p) \in Line /\ Next1(p).call = "chdir" /\ LineInv(p, lineTs(p))
        /\ Next1(p) = file[p][lineTs(p)]
    BY TakeBasics
  <2> QED BY <2>1 DEF LineInv, Line
<1>3. pidCwd \in [Pids -> Known] /\ pidCwdUnknown \subseteq Pids
  BY DEF Tracked, TypeOK
<1>4. /\ pidCwd' \in [Pids -> Known] /\ pidCwdUnknown' \subseteq Pids
      /\ pidCwd'[p] = Next1(p).at /\ pidCwd'[p] # None
      /\ \A q \in Pids : q # p => /\ pidCwd'[q] = pidCwd[q]
                                  /\ q \in pidCwdUnknown' <=> q \in pidCwdUnknown
  BY <1>1, <1>2, <1>3, DirsAssumption DEF Known
<1> QED
  BY <1>4, MoveStep

LEMMA RelativeStep ==
    ASSUME Tracked, NEW p \in Pids, TakeRelative(p)
    PROVE  Tracked'
<1> USE DEF TakeRelative
<1>1. rootedCwd(p) = p /\ cwdGet(p) = pidCwd[p]
  BY OwnGroup
<1>2. pidCwd \in [Pids -> Known] /\ pidCwdUnknown \subseteq Pids /\ CwdInv(p)
  BY DEF Tracked, TypeOK, TrackInv
<1>3. Next1(p).at = Below[now(p)]
  <2>1. /\ Next1(p).call = "relative" /\ LineInv(p, lineTs(p))
        /\ Next1(p) = file[p][lineTs(p)] /\ at(p, lineTs(p) - 1) = now(p)
    BY TakeBasics
  <2> QED BY <2>1 DEF LineInv
<1>4. CASE pidCwd[p] # None
  <2>1. pidCwd' = [pidCwd EXCEPT ![p] = Below[@]] /\ pidCwdUnknown' = pidCwdUnknown
    BY <1>1, <1>4
  <2>2. pidCwd[p] \in Dirs /\ pidCwd[p] = now(p) /\ Below[pidCwd[p]] \in Dirs
    BY <1>2, <1>4, DirsAssumption DEF CwdInv, Known
  <2>3. /\ pidCwd' \in [Pids -> Known]
        /\ pidCwd'[p] = Next1(p).at /\ pidCwd'[p] # None
        /\ \A q \in Pids : q # p => pidCwd'[q] = pidCwd[q]
    BY <1>2, <1>3, <2>1, <2>2, DirsAssumption DEF Known
  <2> QED BY <1>2, <2>1, <2>3, MoveStep
<1>5. CASE pidCwd[p] = None
  <2>1. pidCwd' = pidCwd /\ pidCwdUnknown' = pidCwdUnknown \cup {p}
    BY <1>1, <1>5
  <2> QED BY <1>2, <1>5, <2>1, MoveStep
<1> QED
  BY <1>4, <1>5

LEMMA OpaqueStep ==
    ASSUME Tracked, NEW p \in Pids, TakeOpaque(p)
    PROVE  Tracked'
<1> USE DEF TakeOpaque
<1>1. pidCwd' = [pidCwd EXCEPT ![p] = None] /\ pidCwdUnknown' = pidCwdUnknown \cup {p}
  BY OwnGroup
<1>2. pidCwd \in [Pids -> Known] /\ pidCwdUnknown \subseteq Pids
  BY DEF Tracked, TypeOK
<1>3. /\ pidCwd' \in [Pids -> Known] /\ pidCwdUnknown' \subseteq Pids
      /\ pidCwd'[p] = None /\ p \in pidCwdUnknown'
      /\ \A q \in Pids : q # p => /\ pidCwd'[q] = pidCwd[q]
                                  /\ q \in pidCwdUnknown' <=> q \in pidCwdUnknown
  BY <1>1, <1>2 DEF Known
<1> QED
  BY <1>3, MoveStep

\* Nothing p's line says changes a directory.
LEMMA CwdsStay ==
    ASSUME Tracked, NEW p \in Pids, NEW these, Take(p, these), these \cap Mutations = {},
           UNCHANGED <<pidCwd, pidCwdUnknown, mutVars>>
    PROVE  \A q \in Pids : CwdInv(q)' /\ MutInv(q)'
<1>1. \A q \in Pids : CwdInv(q) /\ now(q)' = now(q) /\ MutInv(q)'
  BY StillStep DEF Tracked, TrackInv
<1> QED
  BY <1>1 DEF CwdInv, mutVars

LEMMA OpenStep ==
    ASSUME Tracked, NEW p \in Pids, TakeOpen(p)
    PROVE  Tracked'
<1> USE DEF TakeOpen
<1> DEFINE e == [pid |-> p, ts |-> lineTs(p), dir |-> canonicalCwd(p), replay |-> FALSE]
           o == [pid |-> p, ts |-> lineTs(p), sharedAtRead |-> p \in everCwdShared,
                 stamped |-> FALSE, initialCwd |-> None, cloneFsSeed |-> FALSE,
                 seedParentPid |-> p]
<1>1. up' = up /\ canonicalCwd(p) \in Known /\ (canonicalCwd(p) # None => canonicalCwd(p) = now(p))
  BY OwnGroup
<1>2. /\ lineTs(p) \in Nat /\ lineTs(p) \in 1..taken'[p] /\ file' = file /\ bornIn' = bornIn
      /\ Next1(p) = file[p][lineTs(p)] /\ Next1(p).at = now(p) /\ taken' \in [Pids -> Nat]
      /\ \A q \in Pids : taken[q] \in Nat /\ taken[q] <= taken'[q]
  <2>1. {"open"} \cap Mutations = {}
    BY DEF Mutations
  <2>2. now(p)' = now(p)
    BY <2>1, StillStep
  <2>3. taken \in [Pids -> Nat]
    BY DEF Tracked, TypeOK
  <2> QED BY <2>2, <2>3, TakeBasics
<1>3. \A q \in Pids : CwdInv(q)' /\ MutInv(q)' /\ BirthInv(q)'
  <2>1. {"open"} \cap Mutations = {}
    BY DEF Mutations
  <2> QED BY <2>1, CwdsStay, BirthsStay
<1>4. /\ deferredRelOpens \subseteq Deferred /\ emitted \subseteq Emitted /\ OpenInv
  BY DEF Tracked, TypeOK, TrackInv
<1>5. o \in Deferred /\ (canonicalCwd(p) # None => e \in Emitted)
  BY <1>1, <1>2 DEF Deferred, Emitted, Known
<1>6. /\ emitted' \subseteq emitted \cup {e} /\ emitted' \subseteq Emitted
      /\ deferredRelOpens' \subseteq deferredRelOpens \cup {o} /\ deferredRelOpens' \subseteq Deferred
      /\ e \in emitted' /\ e \notin emitted => canonicalCwd(p) # None
  BY <1>4, <1>5
<1>7. OpenInv'
  <2>1. ASSUME NEW x \in deferredRelOpens'
        PROVE  x.ts \in 1..taken'[x.pid] /\ (x.initialCwd # None => x.initialCwd = bornIn[x.pid])
    <3>1. CASE x \in deferredRelOpens
      <4>1. x.pid \in Pids /\ x.ts \in Nat
        BY <1>4, <3>1 DEF Deferred
      <4> QED BY <1>2, <1>4, <3>1, <4>1 DEF OpenInv
    <3>2. CASE x = o
      BY <1>2, <3>2
    <3> QED BY <1>6, <2>1, <3>1, <3>2
  <2>2. ASSUME NEW x \in emitted'
        PROVE  x.ts \in 1..taken'[x.pid] /\ Genuine(x)
    <3>1. CASE x \in emitted
      <4>1. x.pid \in Pids /\ x.ts \in Nat
        BY <1>4, <3>1 DEF Emitted
      <4> QED BY <1>2, <1>4, <3>1, <4>1 DEF OpenInv
    <3>2. CASE x = e /\ canonicalCwd(p) # None
      BY <1>1, <1>2, <3>2 DEF Genuine, lineOf
    <3> QED BY <1>6, <2>2, <3>1, <3>2
  <2>3. \A x \in emitted' : Genuine(x)'
    BY <1>2, <2>2 DEF Genuine, lineOf
  <2> QED BY <1>2, <2>1, <2>2, <2>3 DEF OpenInv
<1>8. TypeOK'
  BY <1>1, <1>2, <1>6 DEF Tracked, TypeOK, Take, treeVars, cloneVars, execVars, mutVars
<1>9. TrackInv'
  BY <1>1, <1>3, <1>7 DEF Tracked, TrackInv
<1> QED
  BY <1>8, <1>9, TakeBasics DEF Tracked

LEMMA ExecStep ==
    ASSUME Tracked, NEW p \in Pids, TakeExec(p)
    PROVE  Tracked'
<1> USE DEF TakeExec
<1>1. up' = up /\ canonicalCwd(p) \in Known
  BY OwnGroup
<1>2. {"exec"} \cap Mutations = {}
  BY DEF Mutations
<1>3. \A q \in Pids : CwdInv(q)' /\ MutInv(q)' /\ BirthInv(q)'
  BY <1>2, CwdsStay, BirthsStay
<1>4. OpenInv' /\ taken' \in [Pids -> Nat]
  BY OpensStay, TakeBasics
<1>5. execCwd' \in [Pids -> Known] /\ execKnown' \subseteq Pids /\ pendingExecCwd' \subseteq Pids
  <2>1. execCwd \in [Pids -> Known] /\ execKnown \subseteq Pids /\ pendingExecCwd \subseteq Pids
    BY DEF Tracked, TypeOK
  <2>2. \/ execCwd' = execCwd /\ execKnown' = execKnown /\ pendingExecCwd' = pendingExecCwd
        \/ /\ execCwd' = [execCwd EXCEPT ![p] = canonicalCwd(p)]
           /\ execKnown' = execKnown \cup {p} /\ pendingExecCwd' = pendingExecCwd
        \/ /\ pendingExecCwd' = pendingExecCwd \cup {p}
           /\ execCwd' = execCwd /\ execKnown' = execKnown
    BY DEF execVars
  <2> QED BY <1>1, <2>1, <2>2
<1>6. TypeOK'
  BY <1>1, <1>4, <1>5 DEF Tracked, TypeOK, Take, treeVars, cloneVars, openVars, mutVars
<1>7. TrackInv'
  BY <1>1, <1>3, <1>4 DEF Tracked, TrackInv
<1> QED
  BY <1>6, <1>7, TakeBasics DEF Tracked

\* Taking the clone of a plain child.
LEMMA PlainClone ==
    ASSUME Tracked, Unshared, NEW p \in Pids, TakeClone(p), NEW c, c = Next1(p).child
    PROVE  /\ c \in Pids /\ Next1(p).call = "clone"
           /\ childParent' = [childParent EXCEPT ![c] = p]
           /\ pidCloneTimeCwd' = [pidCloneTimeCwd EXCEPT ![c] = IF @ = None THEN canonicalCwd(p) ELSE @]
           /\ childSeedCloneTs' = [childSeedCloneTs EXCEPT ![c] = lineTs(p)]
           /\ everCwdShared' = everCwdShared /\ cloneFsEdges' = cloneFsEdges
           /\ pendingCwdDetach' = pendingCwdDetach /\ up' = up
           /\ copyCwd(p, c, None, FALSE) /\ settleExecCwd(c)
           /\ stampDeferredRelOpens(p, c, FALSE) /\ emitted' = emitted
<1> DEFINE born == canonicalCwd(p)
<1>1. Take(p, Clones) /\ Clones \cap Mutations = {} /\ UNCHANGED mutVars
  BY DEF TakeClone, Clones, Mutations
<1>a. Next1(p).call = "clone" /\ Next1(p).child \in Pids
  <2>1. Next1(p) = file[p][lineTs(p)] /\ lineTs(p) \in 1..Len(file[p]) /\ Next1(p) \in Line
        /\ Next1(p).call \in Clones
    BY <1>1, TakeBasics
  <2> QED BY <2>1 DEF Unshared, Only, Clones, Line
<1>2. c \in Pids /\ Next1(p).call = "clone"
  BY <1>a
<1>3. /\ rootedCwd(p) = p /\ rootedCwd(c) = c /\ born \in Known
      /\ born = (IF p \in pidCwdUnknown THEN None ELSE pidCwd[p])
      /\ up \in [Pids -> Pids] /\ up[p] = p /\ up[c] = c /\ pendingCwdDetach[c] = None
      /\ up = [x \in Pids |-> x] /\ pendingCwdDetach = [x \in Pids |-> None]
  BY <1>2, OwnGroup DEF Tracked, TrackInv
<1>4. /\ childParent' = [childParent EXCEPT ![c] = p]
      /\ pidCloneTimeCwd' = [pidCloneTimeCwd EXCEPT ![c] = IF @ = None THEN born ELSE @]
      /\ childSeedCloneTs' = [childSeedCloneTs EXCEPT ![c] = lineTs(p)]
      /\ everCwdShared' = everCwdShared /\ cloneFsEdges' = cloneFsEdges
      /\ pendingCwdDetach' = pendingCwdDetach /\ up' = up
      /\ copyCwd(p, c, None, FALSE) /\ settleExecCwd(c)
      /\ stampDeferredRelOpens(p, c, FALSE) /\ emitted' = emitted
  <2> DEFINE shared == Next1(p).call = "clone_fs"
             joins == shared /\ pendingCwdDetach[c] = None
             u == [up EXCEPT ![p] = rootedCwd(p), ![c] = rootedCwd(c),
                             ![rootedCwd(c)] = IF joins THEN rootedCwd(p) ELSE @]
  <2>1. ~shared /\ ~joins
    BY <1>2
  <2>2. u = up
    BY <1>2, <1>3, <2>1
  <2>3. findCwdRoot(up, c) = c /\ [up EXCEPT ![c] = c] = up
    BY <1>2, <1>3, WalkStays
  <2>4. /\ childParent' = [childParent EXCEPT ![c] = p]
        /\ pidCloneTimeCwd' = [pidCloneTimeCwd EXCEPT ![c] = IF @ = None THEN born ELSE @]
        /\ childSeedCloneTs' = [childSeedCloneTs EXCEPT ![c] = lineTs(p)]
        /\ everCwdShared' = everCwdShared \cup (IF shared THEN {p, c} ELSE {})
        /\ cloneFsEdges' = cloneFsEdges \cup (IF shared THEN {<<p, c>>, <<c, p>>} ELSE {})
        /\ pendingCwdDetach' = [pendingCwdDetach EXCEPT ![c] = None]
        /\ up' = IF c \in pendingExecCwd THEN [u EXCEPT ![c] = findCwdRoot(u, c)] ELSE u
        /\ IF joins THEN unionCwd(rootedCwd(p), rootedCwd(c))
           ELSE copyCwd(rootedCwd(p), rootedCwd(c), pendingCwdDetach[c], shared)
        /\ settleExecCwd(c) /\ stampDeferredRelOpens(p, c, shared) /\ emitted' = emitted
    BY <1>2 DEF TakeClone
  <2> HIDE DEF u, joins, shared
  <2>5. pendingCwdDetach' = pendingCwdDetach
    BY <1>2, <1>3, <2>4
  <2>6. shared = FALSE
    BY <2>1 DEF shared
  <2> QED BY <1>3, <2>1, <2>2, <2>3, <2>4, <2>5, <2>6
<1> QED
  BY <1>2, <1>4

\* A plain child gets a copy of a directory that is true of it, or none.
LEMMA CloneStep ==
    ASSUME Tracked, Unshared, NEW p \in Pids, TakeClone(p)
    PROVE  Tracked'
<1> DEFINE born == canonicalCwd(p)
<1>1. Take(p, Clones) /\ Clones \cap Mutations = {} /\ UNCHANGED mutVars
  BY DEF TakeClone, Clones, Mutations
<1>a. Next1(p).call = "clone" /\ Next1(p).child \in Pids
  <2>1. Next1(p) = file[p][lineTs(p)] /\ lineTs(p) \in 1..Len(file[p]) /\ Next1(p) \in Line
        /\ Next1(p).call \in Clones
    BY <1>1, TakeBasics
  <2> QED BY <2>1 DEF Unshared, Only, Clones, Line
<1>2. PICK c \in Pids : c = Next1(p).child /\ Next1(p).call = "clone"
  BY <1>a
<1>3. bornIn[c] = now(p) /\ now(p) \in Dirs
  <2>1. /\ LineInv(p, lineTs(p)) /\ Next1(p) = file[p][lineTs(p)] /\ Next1(p) \in Line
        /\ at(p, lineTs(p) - 1) = now(p)
    BY <1>1, TakeBasics
  <2>2. "clone" \notin Mutations
    BY DEF Mutations
  <2> QED BY <1>2, <2>1, <2>2 DEF LineInv, Line
<1>4. /\ \A q \in Pids : now(q)' = now(q) /\ MutInv(q)'
      /\ bornIn' = bornIn /\ file' = file /\ taken' \in [Pids -> Nat]
      /\ lineTs(p) \in Nat /\ taken'[p] = lineTs(p)
      /\ \A q \in Pids : taken[q] \in Nat /\ taken[q] <= taken'[q]
  <2>1. taken \in [Pids -> Nat]
    BY DEF Tracked, TypeOK
  <2> QED BY <1>1, <2>1, StillStep, TakeBasics
<1>5. /\ rootedCwd(p) = p /\ rootedCwd(c) = c /\ born \in Known
      /\ born = (IF p \in pidCwdUnknown THEN None ELSE pidCwd[p])
      /\ up \in [Pids -> Pids] /\ up[p] = p /\ up[c] = c /\ pendingCwdDetach[c] = None
      /\ up = [x \in Pids |-> x] /\ pendingCwdDetach = [x \in Pids |-> None]
  BY <1>2, OwnGroup DEF Tracked, TrackInv
<1>6. /\ childParent' = [childParent EXCEPT ![c] = p]
      /\ pidCloneTimeCwd' = [pidCloneTimeCwd EXCEPT ![c] = IF @ = None THEN born ELSE @]
      /\ childSeedCloneTs' = [childSeedCloneTs EXCEPT ![c] = lineTs(p)]
      /\ everCwdShared' = everCwdShared /\ cloneFsEdges' = cloneFsEdges
      /\ pendingCwdDetach' = pendingCwdDetach /\ up' = up
      /\ copyCwd(p, c, None, FALSE) /\ settleExecCwd(c)
      /\ stampDeferredRelOpens(p, c, FALSE) /\ emitted' = emitted
  BY <1>2, PlainClone
<1>7. /\ \A q \in Pids : q # c => /\ pidCwd'[q] = pidCwd[q]
                                  /\ q \in pidCwdUnknown' <=> q \in pidCwdUnknown
      /\ pidCwd'[c] # None => pidCwd'[c] = now(c)
      /\ pidCwd'[c] = None /\ c \notin pidCwdUnknown' => firstCwdMutationTs[c] = 0
      /\ pidCwd' \in [Pids -> Known] /\ pidCwdUnknown' \subseteq Pids
  <2>1. /\ CwdInv(c) /\ CwdInv(p) /\ MutInv(c) /\ pidCwd \in [Pids -> Known]
        /\ pidCwdUnknown \subseteq Pids
    BY <1>2 DEF Tracked, TrackInv, TypeOK
  <2>2. firstCwdMutationTs[c] = 0 => now(c) = bornIn[c]
    BY <1>2, <1>4, <2>1 DEF MutInv, now
  <2>3. pidCwd[p] # None /\ pidCwd[c] = None /\ c \notin pidCwdUnknown => now(c) = pidCwd[p]
    BY <1>3, <2>1, <2>2 DEF CwdInv
  <2> DEFINE unknown == p \in pidCwdUnknown \/ c \in pidCwdUnknown
             conflict == ~unknown /\ pidCwd[p] # None /\ pidCwd[c] \notin {None, pidCwd[p]}
             inherits == ~unknown /\ pidCwd[p] # None /\ pidCwd[c] = None
  <2>4. /\ pidCwdUnknown' = pidCwdUnknown \cup (IF unknown \/ conflict THEN {c} ELSE {})
        /\ pidCwd' = [q \in Pids |-> IF q \in {c} /\ conflict THEN None
                                     ELSE IF q = c /\ inherits THEN pidCwd[p] ELSE pidCwd[q]]
    BY <1>6 DEF copyCwd
  <2>5. CASE unknown
    <3>1. pidCwd' = pidCwd /\ pidCwdUnknown' = pidCwdUnknown \cup {c}
      BY <2>1, <2>4, <2>5
    <3> QED BY <1>2, <2>1, <3>1 DEF CwdInv
  <2>6. CASE conflict
    <3>1. pidCwd' = [pidCwd EXCEPT ![c] = None] /\ pidCwdUnknown' = pidCwdUnknown \cup {c}
      BY <2>1, <2>4, <2>6
    <3> QED BY <1>2, <2>1, <3>1 DEF Known
  <2>7. CASE inherits
    <3>1. pidCwd' = [pidCwd EXCEPT ![c] = pidCwd[p]] /\ pidCwdUnknown' = pidCwdUnknown
      BY <2>1, <2>4, <2>7
    <3>2. pidCwd'[c] = pidCwd[p]
      BY <1>2, <2>1, <3>1
    <3> QED BY <1>2, <2>1, <2>3, <2>7, <3>1, <3>2
  <2>8. CASE ~unknown /\ ~conflict /\ ~inherits
    <3>1. pidCwd' = pidCwd /\ pidCwdUnknown' = pidCwdUnknown
      BY <2>1, <2>4, <2>8
    <3> QED BY <1>2, <2>1, <3>1 DEF CwdInv
  <2> QED BY <2>5, <2>6, <2>7, <2>8
<1>8. \A q \in Pids : CwdInv(q)'
  <2> SUFFICES ASSUME NEW q \in Pids PROVE CwdInv(q)'
    OBVIOUS
  <2>1. CwdInv(q) /\ now(q)' = now(q) /\ firstCwdMutationTs' = firstCwdMutationTs
    BY <1>1, <1>4 DEF Tracked, TrackInv, mutVars
  <2>2. CASE q = c
    BY <1>7, <2>1, <2>2 DEF CwdInv
  <2>3. CASE q # c
    BY <1>7, <2>1, <2>3 DEF CwdInv
  <2> QED BY <2>2, <2>3
<1>9. \A q \in Pids : BirthInv(q)'
  <2> SUFFICES ASSUME NEW q \in Pids PROVE BirthInv(q)'
    OBVIOUS
  <2>1. /\ BirthInv(q) /\ childParent[q] \in Pids /\ childSeedCloneTs[q] \in Nat
        /\ childParent \in [Pids -> Pids] /\ childSeedCloneTs \in [Pids -> Nat]
        /\ pidCloneTimeCwd \in [Pids -> Known]
    BY DEF Tracked, TrackInv, TypeOK
  <2>2. CASE q # c
    <3>1. /\ childParent'[q] = childParent[q] /\ childSeedCloneTs'[q] = childSeedCloneTs[q]
          /\ pidCloneTimeCwd'[q] = pidCloneTimeCwd[q]
      BY <1>6, <2>1, <2>2
    <3>2. \A x \in Pids, k \in Nat : at(x, k)' = at(x, k)
      BY <1>1, TakeBasics
    <3>3. at(childParent[q], childSeedCloneTs[q])' = at(childParent[q], childSeedCloneTs[q])
      BY <1>4, <3>1 DEF at
    <3>4. taken[childParent[q]] \in Nat /\ taken'[childParent[q]] \in Nat
          /\ taken[childParent[q]] <= taken'[childParent[q]]
      BY <1>4, <2>1
    <3> QED BY <1>4, <2>1, <3>1, <3>3, <3>4 DEF BirthInv
  <2>3. CASE q = c
    <3>1. /\ childParent'[c] = p /\ childSeedCloneTs'[c] = lineTs(p)
          /\ pidCloneTimeCwd'[c] = IF pidCloneTimeCwd[c] = None THEN born ELSE pidCloneTimeCwd[c]
      BY <1>2, <1>6, <2>1
    <3>2. PICK n \in Nat : n = lineTs(p)
      BY <1>4
    <3>3. at(p, n)' = at(p, n) /\ at(p, n) = now(p)
      <4>1. at(p, lineTs(p)) = Next1(p).at /\ now(p)' = Next1(p).at
            /\ \A x \in Pids, k \in Nat : at(x, k)' = at(x, k)
        BY <1>1, TakeBasics
      <4> QED BY <1>4, <3>2, <4>1
    <3>4. at(childParent[c], childSeedCloneTs[c])' = bornIn[c]
      BY <1>3, <1>4, <3>1, <3>2, <3>3 DEF at
    <3>5. pidCloneTimeCwd'[c] # None => pidCloneTimeCwd'[c] = bornIn[c]
      <4>1. born # None => born = now(p)
        BY OwnGroup
      <4> QED BY <1>3, <2>1, <2>3, <3>1, <4>1 DEF BirthInv
    <3>6. childSeedCloneTs'[c] \in 0..taken'[childParent'[c]]
      BY <1>4, <3>1
    <3> QED BY <1>4, <2>3, <3>4, <3>5, <3>6 DEF BirthInv
  <2> QED BY <2>2, <2>3
<1>10. OpenInv' /\ deferredRelOpens' \subseteq Deferred
  <2>1. /\ OpenInv /\ deferredRelOpens \subseteq Deferred /\ emitted \subseteq Emitted
    BY DEF Tracked, TrackInv, TypeOK
  <2>2. born # None => born = bornIn[c]
    BY <1>3, OwnGroup
  <2> DEFINE told(o) == IF o.pid = c /\ ~o.stamped
                        THEN [o EXCEPT !.stamped = TRUE, !.initialCwd = born, !.cloneFsSeed = FALSE,
                                       !.seedParentPid = p]
                        ELSE o
  <2>3. deferredRelOpens' = {told(o) : o \in deferredRelOpens}
    BY <1>6 DEF stampDeferredRelOpens
  <2>4. ASSUME NEW o \in deferredRelOpens
        PROVE  /\ told(o) \in Deferred /\ told(o).pid = o.pid /\ told(o).ts = o.ts
               /\ told(o).initialCwd # None => told(o).initialCwd = bornIn[o.pid]
    <3>1. o \in Deferred /\ (o.initialCwd # None => o.initialCwd = bornIn[o.pid])
      BY <2>1 DEF OpenInv
    <3>2. CASE o.pid = c /\ ~o.stamped
      <4>1. told(o) = [o EXCEPT !.stamped = TRUE, !.initialCwd = born, !.cloneFsSeed = FALSE,
                                !.seedParentPid = p]
        BY <3>2
      <4> HIDE DEF told, born
      <4> QED BY <1>5, <2>2, <3>1, <3>2, <4>1 DEF Deferred
    <3>3. CASE ~(o.pid = c /\ ~o.stamped)
      <4>1. told(o) = o
        BY <3>3
      <4> QED BY <3>1, <4>1
    <3> QED BY <3>2, <3>3
  <2> HIDE DEF told
  <2>5. deferredRelOpens' \subseteq Deferred
    BY <2>3, <2>4
  <2>6. \A o \in deferredRelOpens : o.pid \in Pids /\ o.ts \in Nat /\ o.ts \in 1..taken'[o.pid]
    <3>1. \A o \in Deferred : o.pid \in Pids /\ o.ts \in Nat
      BY DEF Deferred
    <3> QED BY <1>4, <2>1, <3>1 DEF OpenInv
  <2>7. \A e \in emitted : e.ts \in 1..taken'[e.pid] /\ Genuine(e) /\ Genuine(e)'
    <3>1. \A e \in Emitted : e.pid \in Pids /\ e.ts \in Nat
      BY DEF Emitted
    <3> QED BY <1>4, <2>1, <3>1 DEF OpenInv, Genuine, lineOf
  <2>8. \A x \in deferredRelOpens' :
           /\ x.ts \in 1..taken'[x.pid]
           /\ x.initialCwd # None => x.initialCwd = bornIn'[x.pid]
    BY <1>4, <2>3, <2>4, <2>6
  <2> QED BY <1>6, <2>5, <2>7, <2>8 DEF OpenInv
<1>11. execCwd' \in [Pids -> Known] /\ execKnown' \subseteq Pids /\ pendingExecCwd' \subseteq Pids
  <2>1. findCwdRoot(up', c) = c
    BY <1>2, <1>5, <1>6, WalkStays
  <2>2. execCwd \in [Pids -> Known] /\ execKnown \subseteq Pids /\ pendingExecCwd \subseteq Pids
    BY DEF Tracked, TypeOK
  <2>3. pidCwd'[c] \in Known /\ None \in Known
    BY <1>2, <1>7 DEF Known
  <2>4. CASE c \in pendingExecCwd
    <3>1. /\ execCwd' = [execCwd EXCEPT ![c] = IF c \in pidCwdUnknown' THEN None ELSE pidCwd'[c]]
          /\ execKnown' = execKnown \cup {c} /\ pendingExecCwd' = pendingExecCwd \ {c}
      BY <1>6, <2>1, <2>4 DEF settleExecCwd
    <3> QED BY <1>2, <2>2, <2>3, <3>1
  <2>5. CASE c \notin pendingExecCwd
    BY <1>6, <2>2, <2>5 DEF settleExecCwd, execVars
  <2> QED BY <2>4, <2>5
<1>12. TypeOK'
  <2>1. /\ childParent' \in [Pids -> Pids] /\ pidCloneTimeCwd' \in [Pids -> Known]
        /\ childSeedCloneTs' \in [Pids -> Nat]
    BY <1>2, <1>4, <1>5, <1>6 DEF Tracked, TypeOK
  <2> QED BY <1>1, <1>4, <1>6, <1>7, <1>10, <1>11, <2>1 DEF Tracked, TypeOK, Take, treeVars, mutVars
<1>13. TrackInv'
  BY <1>4, <1>5, <1>6, <1>8, <1>9, <1>10 DEF TrackInv
<1> QED
  BY <1>1, <1>12, <1>13, TakeBasics DEF Tracked

-----------------------------------------------------------------------------
(* The replay.                                                             *)

\* The directory the climb finds for p is the one p was born in.
LEMMA RecoveryTrue ==
    ASSUME Tracked, NEW p \in Pids, recoveredCwd(p) # None
    PROVE  recoveredCwd(p) = bornIn[p]
<1> DEFINE S == {x \in Pids : bornIn[x] = bornIn[p]}
           ends == {x \in Along(recoveryHop, p) : recoveryHop[x] = x}
           e == CHOOSE x \in ends : TRUE
           a == childParent[e]
<1>1. ASSUME NEW x \in Pids
      PROVE  /\ childParent[x] \in Pids
             /\ childParent[x] # x =>
                  /\ bornBeforeMutation(x) => bornIn[childParent[x]] = bornIn[x]
                  /\ lastCwdMutationTs[childParent[x]] < childSeedCloneTs[x]
                       => now(childParent[x]) = bornIn[x]
  <2> DEFINE b == childParent[x]
             k == childSeedCloneTs[x]
  <2>1. b \in Pids
    BY DEF Tracked, TypeOK
  <2>2. /\ BirthInv(x) /\ MutInv(b) /\ k \in Nat /\ taken[b] \in Nat
        /\ firstCwdMutationTs[b] \in Nat /\ lastCwdMutationTs[b] \in Nat
    BY <2>1 DEF Tracked, TypeOK, TrackInv
  <2> SUFFICES ASSUME b # x
               PROVE  /\ bornBeforeMutation(x) => bornIn[b] = bornIn[x]
                      /\ lastCwdMutationTs[b] < k => now(b) = bornIn[x]
    BY <2>1
  <2>3. k \in 0..taken[b] /\ at(b, k) = bornIn[x]
    BY <2>2 DEF BirthInv
  <2>4. bornBeforeMutation(x) => bornIn[b] = bornIn[x]
    BY <2>2, <2>3 DEF MutInv, bornBeforeMutation
  <2>5. lastCwdMutationTs[b] < k => now(b) = bornIn[x]
    BY <2>2, <2>3 DEF MutInv
  <2> QED BY <2>4, <2>5
<1>2. \A x \in S : recoveryHop[x] \in S
  <2> SUFFICES ASSUME NEW x \in S PROVE recoveryHop[x] \in S
    OBVIOUS
  <2>1. x \in Pids /\ bornIn[x] = bornIn[p]
    OBVIOUS
  <2>2. recoveryHop[x] = IF bornBeforeMutation(x) /\ pidCloneTimeCwd[childParent[x]] = None
                         THEN childParent[x] ELSE x
    BY <2>1 DEF recoveryHop
  <2> QED BY <1>1, <2>1, <2>2
<1>3. Along(recoveryHop, p) \subseteq S
  BY <1>2, WalkInside
<1>4. recoveredCwd(p) = IF ends = {} \/ a = e THEN None
                        ELSE IF bornBeforeMutation(e) THEN pidCloneTimeCwd[a]
                        ELSE IF lastCwdMutationTs[a] < childSeedCloneTs[e] THEN cwdGet(a)
                        ELSE None
  BY DEF recoveredCwd
<1>5. ends # {} /\ a # e
  BY <1>4
<1>6. e \in ends
  BY <1>5
<1>7. e \in Pids /\ bornIn[e] = bornIn[p]
  BY <1>3, <1>6
<1> HIDE DEF e
<1>8. a \in Pids /\ BirthInv(a) /\ CwdInv(a) /\ cwdGet(a) = pidCwd[a]
  BY <1>1, <1>7, OwnGroup DEF Tracked, TrackInv
<1>9. CASE bornBeforeMutation(e)
  BY <1>1, <1>4, <1>5, <1>7, <1>8, <1>9 DEF BirthInv
<1>10. CASE ~bornBeforeMutation(e)
  BY <1>1, <1>4, <1>5, <1>7, <1>8, <1>10 DEF CwdInv
<1> QED
  BY <1>9, <1>10

\* A replayed open is resolved against the directory it was made in.
LEMMA ReplayCwdTrue ==
    ASSUME Tracked, NEW o \in deferredRelOpens, replayCwd(o) # None
    PROVE  replayCwd(o) = file[o.pid][o.ts].at
<1>1. /\ o.pid \in Pids /\ o.ts \in 1..taken[o.pid] /\ o.ts \in Nat
      /\ o.initialCwd # None => o.initialCwd = bornIn[o.pid]
  BY DEF Tracked, TrackInv, TypeOK, OpenInv, Deferred
<1>2. firstCwdMutationTs[o.pid] = 0 \/ o.ts < firstCwdMutationTs[o.pid]
  BY DEF replayCwd
<1>3. replayCwd(o) = bornIn[o.pid]
  BY <1>1, RecoveryTrue DEF replayCwd
<1>4. at(o.pid, o.ts) = bornIn[o.pid]
  BY <1>1, <1>2 DEF Tracked, TrackInv, MutInv, TypeOK
<1> QED
  BY <1>1, <1>3, <1>4 DEF at

LEMMA ReplayStep ==
    ASSUME Tracked, Replay
    PROVE  Tracked'
<1> DEFINE resolved == {[pid |-> o.pid, ts |-> o.ts, dir |-> replayCwd(o), replay |-> TRUE] :
                          o \in {x \in deferredRelOpens : replayCwd(x) # None}}
<1>1. /\ emitted' = emitted \cup resolved /\ deferredRelOpens' = {}
      /\ execKnown' = execKnown \cup pendingExecCwd /\ pendingExecCwd' = {} /\ execCwd' = execCwd
      /\ UNCHANGED <<treeVars, taken, rootKnown, groupVars, cloneVars, mutVars>> /\ replayed' = TRUE
      /\ ~running
  BY DEF Replay
<1>2. ASSUME NEW e \in resolved
      PROVE  e \in Emitted /\ e.ts \in 1..taken[e.pid] /\ Genuine(e)
  <2>1. PICK o \in deferredRelOpens :
          /\ replayCwd(o) # None
          /\ e = [pid |-> o.pid, ts |-> o.ts, dir |-> replayCwd(o), replay |-> TRUE]
    OBVIOUS
  <2>2. o.pid \in Pids /\ o.ts \in Nat /\ o.ts \in 1..taken[o.pid] /\ taken[o.pid] \in Nat
        /\ taken[o.pid] <= Len(file[o.pid]) /\ file[o.pid] \in Seq(Line)
    BY DEF Tracked, TrackInv, TypeOK, OpenInv, Deferred, MutInv
  <2>3. replayCwd(o) = file[o.pid][o.ts].at
    BY <2>1, ReplayCwdTrue
  <2>4. file[o.pid][o.ts] \in Line
    BY <2>2
  <2>5. replayCwd(o) \in Dirs
    BY <2>3, <2>4 DEF Line
  <2> QED BY <2>1, <2>2, <2>3, <2>5 DEF Emitted, Genuine, lineOf
<1> HIDE DEF resolved
<1>3. OpenInv'
  <2>1. \A e \in emitted' : e.ts \in 1..taken[e.pid] /\ Genuine(e)
    BY <1>1, <1>2 DEF Tracked, TrackInv, OpenInv
  <2> QED BY <1>1, <2>1 DEF OpenInv, Genuine, lineOf, treeVars
<1>4. TypeOK'
  BY <1>1, <1>2 DEF Tracked, TypeOK, treeVars, groupVars, cloneVars, mutVars
<1>5. TrackInv'
  <2>1. \A q \in Pids : CwdInv(q)' /\ MutInv(q)' /\ BirthInv(q)'
    BY <1>1 DEF Tracked, TrackInv, CwdInv, MutInv, BirthInv, now, at, treeVars, groupVars, cloneVars,
       mutVars
  <2> QED BY <1>1, <1>3, <2>1 DEF Tracked, TrackInv, groupVars
<1>6. TreeInv' /\ FreshInv'
  BY <1>1 DEF Tracked, TreeInv, FreshInv, LineInv, at, treeVars
<1> QED
  BY <1>4, <1>5, <1>6 DEF Tracked

-----------------------------------------------------------------------------
(* The theorems.                                                           *)

\* In a tree of plain forks everything the dispatcher tracks is true of the processes.
THEOREM PlainInvariant == Spec => []PlainInv
<1>1. Init => PlainInv
  <2> SUFFICES ASSUME Init PROVE PlainInv
    OBVIOUS
  <2>1. TypeOK
    BY InitTracked DEF Tracked
  <2> QED BY <2>1, InitTracked DEF PlainInv, Tracked, TypeOK
<1>2. PlainInv /\ [Next]_vars => PlainInv'
  <2> SUFFICES ASSUME PlainInv, [Next]_vars PROVE PlainInv'
    OBVIOUS
  <2> DEFINE Typed == live \subseteq Pids /\ cwd \in [Pids -> Dirs] /\ file \in [Pids -> Seq(Line)]
  <2>1. CASE KernelNext
    <3>1. Typed'
      BY <2>1, KernelLine DEF PlainInv
    <3>2. Unshared' => Tracked'
      BY <2>1, TreeActions
    <3> QED BY <3>1, <3>2 DEF PlainInv, Tracked
  <2>2. CASE TreeDone \/ TakeNext \/ Replay
    <3>1. live' = live /\ cwd' = cwd /\ file' = file
      <4>1. CASE TakeNext
        <5>1. PICK p \in Pids, these \in SUBSET Calls : Take(p, these)
          BY <4>1 DEF TakeNext, TakeChdir, TakeRelative, TakeOpaque, TakeClone, TakeUnshare, TakeOpen,
             TakeExec, Calls, Mutations, Clones
        <5> QED BY <5>1 DEF Take, treeVars
      <4>2. CASE TreeDone \/ Replay
        BY <4>2 DEF TreeDone, Replay, treeVars
      <4> QED BY <2>2, <4>1, <4>2
    <3>2. Typed' /\ (Unshared' => Unshared)
      BY <3>1 DEF PlainInv, Unshared, Only
    <3>3. ASSUME Unshared PROVE Tracked'
      <4>1. Tracked
        BY <3>3 DEF PlainInv, Tracked
      <4>2. CASE TreeDone
        BY <4>1, <4>2, TreeEnds
      <4>3. CASE Replay
        BY <4>1, <4>3, ReplayStep
      <4>4. CASE TakeNext
        <5>1. PICK p \in Pids :
                \/ TakeChdir(p) \/ TakeRelative(p) \/ TakeOpaque(p) \/ TakeClone(p)
                \/ TakeUnshare(p) \/ TakeOpen(p) \/ TakeExec(p)
          BY <4>4 DEF TakeNext
        <5>2. CASE TakeUnshare(p)
          <6>1. Take(p, {"unshare"})
            BY <5>2 DEF TakeUnshare
          <6>2. Next1(p).call = "unshare" /\ Next1(p) = file[p][lineTs(p)]
                /\ lineTs(p) \in 1..Len(file[p])
            BY <4>1, <6>1, TakeBasics
          <6> QED BY <3>3, <6>2 DEF Unshared, Only
        <5> QED BY <3>3, <4>1, <5>1, <5>2, ChdirStep, RelativeStep, OpaqueStep, CloneStep, OpenStep,
                   ExecStep
      <4> QED BY <2>2, <4>2, <4>3, <4>4
    <3> QED BY <3>2, <3>3 DEF PlainInv, Tracked
  <2>3. CASE Done \/ UNCHANGED vars
    <3>1. UNCHANGED vars
      BY <2>3 DEF Done
    <3> USE <3>1 DEF vars, treeVars, groupVars, cloneVars, mutVars, execVars, openVars
    <3>2. Typed' /\ (Unshared' => Unshared)
      BY DEF PlainInv, Unshared, Only
    <3>3. ASSUME Tracked PROVE Tracked'
      <4> USE <3>3 DEF Tracked
      <4>1. TypeOK'
        BY DEF TypeOK
      <4>2. TreeInv' /\ FreshInv'
        BY DEF TreeInv, FreshInv, LineInv, at
      <4>3. TrackInv'
        BY DEF TrackInv, CwdInv, MutInv, BirthInv, OpenInv, Genuine, lineOf, now, at
      <4> QED BY <4>1, <4>2, <4>3
    <3> QED BY <3>2, <3>3 DEF PlainInv, Tracked
  <2> QED BY <2>1, <2>2, <2>3 DEF Next
<1> QED
  BY <1>1, <1>2, PTL DEF Spec

\* In a tree of plain forks an open is only ever resolved against the directory it was made
\* in, for any number of processes, any calls and any order of reading the files.
THEOREM ResolvedTrueHolds == Spec => []ResolvedTrue
<1>1. PlainInv => ResolvedTrue
  BY DEF PlainInv, TrackInv, OpenInv, ResolvedTrue
<1> QED
  BY <1>1, PlainInvariant, PTL
-----------------------------------------------------------------------------
(* The first exec of a process.                                            *)

\* The line of p's at i is the clone of c.
CloneLine(p, i, c) == i \in 1..Len(file[p]) /\ file[p][i].call = "clone" /\ file[p][i].child = c

\* A process is cloned once, by another.
OnceInv ==
    \A p, q, c \in Pids : \A i \in 1..Len(file[p]), j \in 1..Len(file[q]) :
        CloneLine(p, i, c) => c # p /\ (CloneLine(q, j, c) => p = q /\ i = j)

\* The clone of a process with a parent has been taken.
SeenInv ==
    \A c \in Pids : childParent[c] # c =>
        /\ CloneLine(childParent[c], childSeedCloneTs[c], c)
        /\ childSeedCloneTs[c] <= taken[childParent[c]]

\* Nothing is known of an exec before a line is taken, and no line is taken after the replay.
StagesInv ==
    /\ running => execKnown \subseteq {Root} /\ pendingExecCwd = {} /\ ~replayed
    /\ replayed => \A p \in Pids : taken[p] = Len(file[p])

\* The directory kept for p's first exec is the one it was made in; or p is still waiting for its
\* clone, or was cloned by a parent of unknown directory, and has moved since.
ExecInv(p) ==
    /\ p \notin execKnown => execCwd[p] = None
    /\ p \notin execKnown \cup pendingExecCwd => \A i \in 1..taken[p] : file[p][i].call # "exec"
    /\ p \in pendingExecCwd =>
          /\ pidCloneTimeCwd[p] = None
          /\ \E i \in 1..taken[p] :
                atFirstExec(p, i) /\ (firstCwdMutationTs[p] = 0 \/ i < firstCwdMutationTs[p])
    /\ pidCloneTimeCwd[p] # None => pidCwd[p] # None \/ p \in pidCwdUnknown
    /\ p \in execKnown \ {Root} /\ execCwd[p] # None =>
          \A i \in 1..Len(file[p]) : atFirstExec(p, i) =>
             \/ execCwd[p] = file[p][i].at
             \/ /\ lastCwdMutationTs[p] > i /\ pidCloneTimeCwd[p] = None
                /\ p \in pendingExecCwd \/ childParent[p] # p \/ replayed

ExecsInv == OnceInv /\ SeenInv /\ StagesInv /\ \A p \in Pids : ExecInv(p)

\* The first exec of a process is one.
LEMMA FirstExecOnce ==
    ASSUME Tracked, NEW p \in Pids, NEW i \in 1..Len(file[p]), NEW j \in 1..Len(file[p]),
           atFirstExec(p, i), atFirstExec(p, j)
    PROVE  i = j
<1>1. Len(file[p]) \in Nat
  BY DEF Tracked, TypeOK
<1>2. i \in Nat /\ j \in Nat /\ i > 0 /\ j > 0
  BY <1>1
<1>3. ~(j < i) /\ ~(i < j)
  BY <1>2 DEF atFirstExec
<1> QED BY <1>2, <1>3

\* Taking a line leaves the files, and what was seen of the clones, as they are.
LEMMA StagesStay ==
    ASSUME Tracked, ExecsInv, NEW p \in Pids, NEW these, Take(p, these)
    PROVE  /\ OnceInv' /\ StagesInv' /\ ~replayed /\ ~replayed'
           /\ \A q \in Pids : taken[q] \in Nat /\ taken'[q] \in Nat /\ taken[q] <= taken'[q]
           /\ \A q \in Pids : \A i : atFirstExec(q, i)' = atFirstExec(q, i)
<1>1. /\ file' = file /\ ~running' /\ replayed' = replayed /\ taken[p] \in Nat /\ taken[p] < Len(file[p])
      /\ \A q \in Pids : taken[q] \in Nat
  BY DEF Tracked, TypeOK, Take, treeVars
<1>2. ~replayed
  BY <1>1 DEF ExecsInv, StagesInv
<1>3. \A q \in Pids : taken'[q] \in Nat /\ taken[q] <= taken'[q]
  BY <1>1, TakeBasics
<1>4. OnceInv'
  BY <1>1 DEF ExecsInv, OnceInv, CloneLine
<1> QED BY <1>1, <1>2, <1>3, <1>4 DEF StagesInv, atFirstExec

LEMMA SeenStays ==
    ASSUME Tracked, ExecsInv, NEW p \in Pids, NEW these, Take(p, these),
           UNCHANGED <<childParent, childSeedCloneTs>>
    PROVE  SeenInv'
<1> SUFFICES ASSUME NEW c \in Pids, childParent[c] # c
             PROVE  /\ CloneLine(childParent[c], childSeedCloneTs[c], c)
                    /\ childSeedCloneTs[c] <= taken'[childParent[c]]
  BY TakeBasics DEF SeenInv, CloneLine
<1>1. /\ CloneLine(childParent[c], childSeedCloneTs[c], c)
      /\ childSeedCloneTs[c] <= taken[childParent[c]]
  BY DEF ExecsInv, SeenInv
<1>2. childParent[c] \in Pids /\ childSeedCloneTs[c] \in Nat
  BY DEF Tracked, TypeOK
<1>3. taken[childParent[c]] \in Nat /\ taken'[childParent[c]] \in Nat
      /\ taken[childParent[c]] <= taken'[childParent[c]]
  BY <1>2, StagesStay
<1> QED BY <1>1, <1>2, <1>3

\* A line that is no exec, and no clone, keeps what is known of the execs.
LEMMA ExecsStay ==
    ASSUME Tracked, ExecsInv, NEW p \in Pids, NEW these, Take(p, these), "exec" \notin these,
           UNCHANGED <<execVars, cloneVars>>,
           \A q \in Pids :
              /\ lastCwdMutationTs'[q] \in Nat /\ lastCwdMutationTs[q] <= lastCwdMutationTs'[q]
              /\ \/ firstCwdMutationTs'[q] = firstCwdMutationTs[q]
                 \/ q = p /\ firstCwdMutationTs'[q] = lineTs(p)
              /\ pidCwd[q] # None \/ q \in pidCwdUnknown => pidCwd'[q] # None \/ q \in pidCwdUnknown'
    PROVE  ExecsInv'
<1>1. OnceInv' /\ StagesInv' /\ SeenInv' /\ ~replayed
  BY StagesStay, SeenStays DEF cloneVars
<1>2. /\ execCwd' = execCwd /\ execKnown' = execKnown /\ pendingExecCwd' = pendingExecCwd
      /\ childParent' = childParent /\ pidCloneTimeCwd' = pidCloneTimeCwd /\ file' = file
  BY TakeBasics DEF execVars, cloneVars
<1>3. ASSUME NEW q \in Pids PROVE ExecInv(q)'
  <2>1. ExecInv(q) /\ taken[q] \in Nat /\ taken'[q] \in Nat /\ taken[q] <= taken'[q]
        /\ lastCwdMutationTs[q] \in Nat
    BY StagesStay DEF ExecsInv, Tracked, TypeOK
  <2>2. \A i : atFirstExec(q, i)' = atFirstExec(q, i)
    BY StagesStay
  <2>3. ASSUME q \notin execKnown \cup pendingExecCwd, NEW i \in 1..taken'[q]
        PROVE  file[q][i].call # "exec"
    <3>1. CASE i \in 1..taken[q]
      BY <2>1, <2>3, <3>1 DEF ExecInv
    <3>2. CASE i \notin 1..taken[q]
      <4>1. q = p /\ i = lineTs(p)
        BY <2>1, <3>2, TakeBasics
      <4> QED BY <4>1, TakeBasics
    <3> QED BY <3>1, <3>2
  <2>4. ASSUME q \in pendingExecCwd
        PROVE  \E i \in 1..taken'[q] :
                  atFirstExec(q, i) /\ (firstCwdMutationTs'[q] = 0 \/ i < firstCwdMutationTs'[q])
    <3>1. PICK i \in 1..taken[q] :
             atFirstExec(q, i) /\ (firstCwdMutationTs[q] = 0 \/ i < firstCwdMutationTs[q])
      BY <2>1, <2>4 DEF ExecInv
    <3>2. i \in 1..taken'[q] /\ (q = p => i < lineTs(p))
      BY <2>1, TakeBasics
    <3> QED BY <3>1, <3>2
  <2>5. ASSUME q \in execKnown \ {Root}, execCwd[q] # None, NEW i \in 1..Len(file[q]), atFirstExec(q, i)
        PROVE  \/ execCwd[q] = file[q][i].at
               \/ /\ lastCwdMutationTs'[q] > i /\ pidCloneTimeCwd[q] = None
                  /\ q \in pendingExecCwd \/ childParent[q] # q
    <3>1. i \in Nat
      BY DEF Tracked, TypeOK
    <3> QED BY <1>1, <2>1, <2>5, <3>1 DEF ExecInv
  <2> QED BY <1>2, <2>1, <2>2, <2>3, <2>4, <2>5 DEF ExecInv
<1> QED BY <1>1, <1>3 DEF ExecsInv

\* A change of directory is noted after the first exec.
LEMMA NoteFacts ==
    ASSUME Tracked, NEW p \in Pids, NEW these, Take(p, these), noteMutation(p), NEW q \in Pids
    PROVE  /\ lastCwdMutationTs'[q] \in Nat /\ lastCwdMutationTs[q] <= lastCwdMutationTs'[q]
           /\ \/ firstCwdMutationTs'[q] = firstCwdMutationTs[q]
              \/ q = p /\ firstCwdMutationTs'[q] = lineTs(p)
<1>1. /\ firstCwdMutationTs \in [Pids -> Nat] /\ lastCwdMutationTs \in [Pids -> Nat] /\ taken[p] \in Nat
      /\ lastCwdMutationTs[p] <= taken[p]
  BY DEF Tracked, TypeOK, TrackInv, MutInv
<1>2. lineTs(p) = taken[p] + 1
  BY DEF lineTs
<1>3. /\ firstCwdMutationTs' = [firstCwdMutationTs EXCEPT ![p] = IF @ = 0 THEN lineTs(p) ELSE @]
      /\ lastCwdMutationTs' = [lastCwdMutationTs EXCEPT ![p] = lineTs(p)]
  BY DEF noteMutation
<1> QED BY <1>1, <1>2, <1>3

LEMMA ExecsMove ==
    ASSUME Tracked, ExecsInv, NEW p \in Pids, TakeChdir(p) \/ TakeRelative(p) \/ TakeOpaque(p)
    PROVE  ExecsInv'
<1>1. PICK these \in {{"chdir"}, {"relative"}, {"opaque"}} : Take(p, these)
  BY DEF TakeChdir, TakeRelative, TakeOpaque
<1>2. "exec" \notin these /\ noteMutation(p) /\ UNCHANGED <<execVars, cloneVars>>
  BY <1>1 DEF TakeChdir, TakeRelative, TakeOpaque
<1>3. /\ rootedCwd(p) = p /\ cwdGet(p) = pidCwd[p] /\ pidCwd \in [Pids -> Known]
      /\ Next1(p).dir \in Dirs /\ None \notin Dirs /\ \A x \in Dirs : Below[x] \in Dirs
  <2>1. Next1(p) \in Line
    BY <1>1, TakeBasics
  <2> QED BY <2>1, OwnGroup, DirsAssumption DEF Line, Tracked, TypeOK
<1>4. ASSUME NEW q \in Pids, pidCwd[q] # None \/ q \in pidCwdUnknown
      PROVE  pidCwd'[q] # None \/ q \in pidCwdUnknown'
  <2>1. CASE TakeChdir(p)
    BY <1>3, <1>4, <2>1 DEF TakeChdir
  <2>2. CASE TakeRelative(p)
    BY <1>3, <1>4, <2>2 DEF TakeRelative, Known
  <2>3. CASE TakeOpaque(p)
    BY <1>3, <1>4, <2>3 DEF TakeOpaque
  <2> QED BY <2>1, <2>2, <2>3
<1> QED BY <1>1, <1>2, <1>4, NoteFacts, ExecsStay

LEMMA ExecsOpen ==
    ASSUME Tracked, ExecsInv, NEW p \in Pids, TakeOpen(p)
    PROVE  ExecsInv'
<1>1. Take(p, {"open"}) /\ UNCHANGED <<execVars, cloneVars, mutVars, pidCwd, pidCwdUnknown>>
  BY DEF TakeOpen
<1>2. \A q \in Pids : lastCwdMutationTs[q] \in Nat
  BY DEF Tracked, TypeOK
<1>3. /\ lastCwdMutationTs' = lastCwdMutationTs /\ firstCwdMutationTs' = firstCwdMutationTs
      /\ pidCwd' = pidCwd /\ pidCwdUnknown' = pidCwdUnknown
  BY <1>1 DEF mutVars
<1> QED BY <1>1, <1>2, <1>3, ExecsStay

\* An exec is looked up, parked, or no longer of interest.
LEMMA ExecsExec ==
    ASSUME Tracked, ExecsInv, NEW p \in Pids, TakeExec(p)
    PROVE  ExecsInv'
<1>1. /\ Take(p, {"exec"}) /\ UNCHANGED <<pidCwd, pidCwdUnknown, cloneVars, mutVars>>
      /\ pidCwd' = pidCwd /\ pidCwdUnknown' = pidCwdUnknown
  BY DEF TakeExec
<1>2. /\ childParent' = childParent /\ pidCloneTimeCwd' = pidCloneTimeCwd /\ file' = file
      /\ lastCwdMutationTs' = lastCwdMutationTs /\ firstCwdMutationTs' = firstCwdMutationTs
  BY <1>1, TakeBasics DEF cloneVars, mutVars
<1>3. OnceInv' /\ StagesInv' /\ SeenInv' /\ ~replayed /\ ~replayed'
  BY <1>1, StagesStay, SeenStays DEF cloneVars
<1>4. /\ lineTs(p) = taken[p] + 1 /\ lineTs(p) \in 1..Len(file[p]) /\ taken'[p] = lineTs(p)
      /\ file[p][lineTs(p)].call = "exec" /\ taken[p] \in Nat /\ Len(file[p]) \in Nat
      /\ \A q \in Pids : q # p => taken'[q] = taken[q]
  <2>1. taken[p] \in Nat /\ Len(file[p]) \in Nat
    BY DEF Tracked, TypeOK
  <2> QED BY <1>1, <2>1, TakeBasics
<1>5. file[p][lineTs(p)].at = now(p)
  <2>1. LineInv(p, lineTs(p)) /\ at(p, lineTs(p) - 1) = now(p)
    BY <1>1, TakeBasics
  <2> QED BY <1>4, <2>1 DEF LineInv, Mutations
<1>6. /\ (cwdUnknownHas(p) <=> p \in pidCwdUnknown) /\ cwdGet(p) = pidCwd[p]
      /\ canonicalCwd(p) = IF p \in pidCwdUnknown THEN None ELSE pidCwd[p]
      /\ canonicalCwd(p) # None => canonicalCwd(p) = now(p)
      /\ execCwd \in [Pids -> Known]
  BY OwnGroup DEF Tracked, TypeOK
<1>7. \A q \in Pids : \A i : atFirstExec(q, i)' = atFirstExec(q, i)
  BY <1>1, StagesStay
<1>8. ASSUME NEW q \in Pids, q # p PROVE ExecInv(q)'
  <2>1. ExecInv(q) /\ taken'[q] = taken[q]
    BY <1>4, <1>8 DEF ExecsInv
  <2>2. /\ execCwd'[q] = execCwd[q] /\ (q \in execKnown' <=> q \in execKnown)
        /\ (q \in pendingExecCwd' <=> q \in pendingExecCwd)
    BY <1>6, <1>8 DEF TakeExec, execVars
  <2> QED BY <1>1, <1>2, <1>3, <1>7, <2>1, <2>2 DEF ExecInv
<1>9. ExecInv(p)'
  <2>1. ExecInv(p)
    BY DEF ExecsInv
  <2>2. ASSUME p \notin execKnown \cup pendingExecCwd PROVE atFirstExec(p, lineTs(p))
    <3>1. \A i \in 1..taken[p] : file[p][i].call # "exec"
      BY <2>1, <2>2 DEF ExecInv
    <3>2. \A i \in 1..(lineTs(p) - 1) : i \in 1..taken[p]
      BY <1>4
    <3> QED BY <1>4, <3>1, <3>2 DEF atFirstExec
  <2>3. CASE p \in execKnown
    <3>1. execCwd' = execCwd /\ execKnown' = execKnown /\ pendingExecCwd' = pendingExecCwd
      BY <2>3 DEF TakeExec, execVars
    <3>2. \A i \in 1..taken[p] : i \in 1..taken'[p]
      BY <1>4
    <3> QED BY <1>1, <1>2, <1>3, <1>7, <2>1, <2>3, <3>1, <3>2 DEF ExecInv
  <2>4. CASE p \notin execKnown /\ (p \in pidCwdUnknown \/ pidCwd[p] # None)
    <3>1. /\ execCwd' = [execCwd EXCEPT ![p] = canonicalCwd(p)]
          /\ execKnown' = execKnown \cup {p} /\ pendingExecCwd' = pendingExecCwd
      BY <1>6, <2>4 DEF TakeExec
    <3>2. execCwd'[p] = canonicalCwd(p)
      BY <1>6, <3>1
    <3>3. \A i \in 1..taken[p] : i \in 1..taken'[p]
      BY <1>4
    <3>4. ASSUME canonicalCwd(p) # None, NEW i \in 1..Len(file[p]), atFirstExec(p, i)
          PROVE  \/ canonicalCwd(p) = file[p][i].at
                 \/ lastCwdMutationTs[p] > i /\ pidCloneTimeCwd[p] = None /\ p \in pendingExecCwd
      <4>1. CASE p \in pendingExecCwd
        <5>1. pidCloneTimeCwd[p] = None /\ \E j \in 1..taken[p] : atFirstExec(p, j)
          BY <2>1, <4>1 DEF ExecInv
        <5>2. i \in 1..taken[p]
          <6>1. PICK j \in 1..taken[p] : atFirstExec(p, j)
            BY <5>1
          <6>2. j \in 1..Len(file[p])
            BY <1>4
          <6> QED BY <3>4, <6>1, <6>2, FirstExecOnce
        <5>3. CASE lastCwdMutationTs[p] <= i
          <6>1. i \in 0..taken[p] /\ i # 0
            BY <1>4, <5>2
          <6>2. at(p, i) = now(p)
            BY <5>3, <6>1 DEF Tracked, TrackInv, MutInv
          <6> QED BY <1>6, <3>4, <6>1, <6>2 DEF at
        <5>4. lastCwdMutationTs[p] \in Nat /\ i \in Nat
          BY <1>4, <5>2 DEF Tracked, TypeOK
        <5> QED BY <4>1, <5>1, <5>3, <5>4
      <4>2. CASE p \notin pendingExecCwd
        <5>1. i = lineTs(p)
          BY <1>4, <2>2, <2>4, <3>4, <4>2, FirstExecOnce
        <5> QED BY <1>5, <1>6, <3>4, <5>1
      <4> QED BY <4>1, <4>2
    <3> QED BY <1>1, <1>2, <1>3, <1>7, <2>1, <3>1, <3>2, <3>3, <3>4 DEF ExecInv
  <2>5. CASE p \notin execKnown /\ p \notin pidCwdUnknown /\ pidCwd[p] = None
    <3>1. execCwd' = execCwd /\ execKnown' = execKnown /\ pendingExecCwd' = pendingExecCwd \cup {p}
      BY <1>6, <2>5 DEF TakeExec
    <3>2. pidCloneTimeCwd[p] = None /\ firstCwdMutationTs[p] = 0
      BY <2>1, <2>5 DEF ExecInv, Tracked, TrackInv, CwdInv
    <3>3. \E i \in 1..taken'[p] : atFirstExec(p, i)
      <4>1. CASE p \in pendingExecCwd
        <5>1. PICK i \in 1..taken[p] : atFirstExec(p, i)
          BY <2>1, <4>1 DEF ExecInv
        <5> QED BY <1>4, <5>1
      <4>2. CASE p \notin pendingExecCwd
        <5>1. lineTs(p) \in 1..taken'[p]
          BY <1>4
        <5> QED BY <2>2, <2>5, <4>2, <5>1
      <4> QED BY <4>1, <4>2
    <3> QED BY <1>1, <1>2, <1>3, <1>7, <2>1, <2>5, <3>1, <3>2, <3>3 DEF ExecInv
  <2> QED BY <2>3, <2>4, <2>5
<1> QED BY <1>3, <1>8, <1>9 DEF ExecsInv

\* The clone of c settles what was waiting for it.
LEMMA ExecsClone ==
    ASSUME Tracked, Unshared, ExecsInv, NEW p \in Pids, TakeClone(p), Tracked'
    PROVE  ExecsInv'
<1> DEFINE born == canonicalCwd(p)
<1>1. Take(p, Clones) /\ UNCHANGED mutVars
  BY DEF TakeClone
<1>2. PICK c : c = Next1(p).child
  OBVIOUS
<1>3. /\ c \in Pids /\ Next1(p).call = "clone"
      /\ childParent' = [childParent EXCEPT ![c] = p]
      /\ pidCloneTimeCwd' = [pidCloneTimeCwd EXCEPT ![c] = IF @ = None THEN born ELSE @]
      /\ childSeedCloneTs' = [childSeedCloneTs EXCEPT ![c] = lineTs(p)]
      /\ up' = up /\ copyCwd(p, c, None, FALSE) /\ settleExecCwd(c)
  BY <1>2, PlainClone
<1>4. /\ childParent \in [Pids -> Pids] /\ childSeedCloneTs \in [Pids -> Nat]
      /\ pidCloneTimeCwd \in [Pids -> Known] /\ pidCwd \in [Pids -> Known] /\ execCwd \in [Pids -> Known]
      /\ lastCwdMutationTs \in [Pids -> Nat] /\ taken[p] \in Nat
  BY DEF Tracked, TypeOK
<1>5. /\ OnceInv' /\ StagesInv' /\ ~replayed /\ ~replayed'
      /\ \A q \in Pids : taken[q] \in Nat /\ taken'[q] \in Nat /\ taken[q] <= taken'[q]
      /\ \A q \in Pids : \A i : atFirstExec(q, i)' = atFirstExec(q, i)
  BY <1>1, StagesStay
<1>6. /\ lastCwdMutationTs' = lastCwdMutationTs /\ firstCwdMutationTs' = firstCwdMutationTs
      /\ file' = file /\ lineTs(p) = taken[p] + 1 /\ lineTs(p) \in 1..Len(file[p]) /\ taken'[p] = lineTs(p)
      /\ \A q \in Pids : q # p => taken'[q] = taken[q]
      /\ Next1(p) = file[p][lineTs(p)] /\ Len(file[p]) \in Nat
  <2>1. Len(file[p]) \in Nat
    BY DEF Tracked, TypeOK
  <2> QED BY <1>1, <2>1, TakeBasics DEF mutVars
<1>7. CloneLine(p, lineTs(p), c)
  BY <1>2, <1>3, <1>6 DEF CloneLine
<1>8. c # p /\ childParent[c] = c
  <2>1. c # p
    BY <1>3, <1>6, <1>7 DEF ExecsInv, OnceInv
  <2>2. ASSUME childParent[c] # c PROVE FALSE
    <3> DEFINE a == childParent[c]
               k == childSeedCloneTs[c]
    <3>1. a \in Pids /\ CloneLine(a, k, c) /\ k <= taken[a]
      BY <1>3, <1>4, <2>2 DEF ExecsInv, SeenInv
    <3>2. k \in 1..Len(file[a])
      BY <3>1 DEF CloneLine
    <3>3. a = p /\ k = lineTs(p)
      BY <1>3, <1>6, <1>7, <3>1, <3>2 DEF ExecsInv, OnceInv
    <3> QED BY <1>4, <1>6, <3>1, <3>3
  <2> QED BY <2>1, <2>2
<1>9. SeenInv'
  <2> SUFFICES ASSUME NEW x \in Pids, childParent'[x] # x
               PROVE  /\ CloneLine(childParent'[x], childSeedCloneTs'[x], x)
                      /\ childSeedCloneTs'[x] <= taken'[childParent'[x]]
    BY <1>6 DEF SeenInv, CloneLine
  <2>1. CASE x = c
    BY <1>3, <1>4, <1>6, <1>7, <2>1
  <2>2. CASE x # c
    <3>1. childParent'[x] = childParent[x] /\ childSeedCloneTs'[x] = childSeedCloneTs[x]
          /\ childParent[x] \in Pids /\ childSeedCloneTs[x] \in Nat
      BY <1>3, <1>4, <2>2
    <3>2. CloneLine(childParent[x], childSeedCloneTs[x], x) /\ childSeedCloneTs[x] <= taken[childParent[x]]
      BY <3>1 DEF ExecsInv, SeenInv
    <3>3. taken[childParent[x]] \in Nat /\ taken'[childParent[x]] \in Nat
          /\ taken[childParent[x]] <= taken'[childParent[x]]
      BY <1>5, <3>1
    <3> QED BY <3>1, <3>2, <3>3
  <2> QED BY <2>1, <2>2
<1> DEFINE unknown == p \in pidCwdUnknown \/ c \in pidCwdUnknown
           conflict == ~unknown /\ pidCwd[p] # None /\ pidCwd[c] \notin {None, pidCwd[p]}
           inherits == ~unknown /\ pidCwd[p] # None /\ pidCwd[c] = None
<1>10. /\ pidCwdUnknown' = pidCwdUnknown \cup (IF unknown \/ conflict THEN {c} ELSE {})
       /\ pidCwd' = [q \in Pids |-> IF q \in {c} /\ conflict THEN None
                                    ELSE IF q = c /\ inherits THEN pidCwd[p] ELSE pidCwd[q]]
       /\ born = (IF p \in pidCwdUnknown THEN None ELSE pidCwd[p])
  BY <1>3, OwnGroup DEF copyCwd
<1> HIDE DEF born
<1>11. pidCloneTimeCwd'[c] = (IF pidCloneTimeCwd[c] = None THEN born ELSE pidCloneTimeCwd[c])
  BY <1>3, <1>4
<1>12. /\ pidCloneTimeCwd'[c] # None => pidCwd'[c] # None \/ c \in pidCwdUnknown'
       /\ pidCloneTimeCwd[c] = None /\ born # None /\ c \notin pidCwdUnknown' => pidCwd'[c] = born
  <2>1. pidCloneTimeCwd[c] # None => pidCwd[c] # None \/ c \in pidCwdUnknown
    BY <1>3 DEF ExecsInv, ExecInv
  <2>2. CASE unknown \/ conflict
    BY <1>10, <2>2
  <2>3. CASE ~unknown /\ ~conflict
    <3>1. pidCwd'[c] = IF inherits THEN pidCwd[p] ELSE pidCwd[c]
      BY <1>3, <1>10, <2>3
    <3>2. born = pidCwd[p]
      BY <1>10, <2>3
    <3> QED BY <1>11, <2>1, <2>3, <3>1, <3>2
  <2> QED BY <2>2, <2>3
<1> HIDE DEF unknown, conflict, inherits
<1>13. findCwdRoot(up', c) = c
  BY <1>3, WalkStays DEF Tracked, TrackInv
<1>14. ASSUME NEW q \in Pids, q # c PROVE ExecInv(q)'
  <2>1. ExecInv(q)
    BY DEF ExecsInv
  <2>2. /\ execCwd'[q] = execCwd[q] /\ (q \in execKnown' <=> q \in execKnown)
        /\ (q \in pendingExecCwd' <=> q \in pendingExecCwd)
    BY <1>3, <1>4, <1>14 DEF settleExecCwd, execVars
  <2>3. /\ childParent'[q] = childParent[q] /\ pidCloneTimeCwd'[q] = pidCloneTimeCwd[q]
        /\ pidCwd'[q] = pidCwd[q] /\ (q \in pidCwdUnknown => q \in pidCwdUnknown')
    BY <1>3, <1>4, <1>10, <1>14
  <2>4. ASSUME NEW i \in 1..taken'[q], i \notin 1..taken[q] PROVE file[q][i].call # "exec"
    <3>1. q = p /\ i = lineTs(p)
      BY <1>4, <1>5, <1>6, <2>4
    <3> QED BY <1>3, <1>6, <3>1
  <2>5. \A i \in 1..taken[q] : i \in 1..taken'[q]
    BY <1>5
  <2> QED BY <1>5, <1>6, <2>1, <2>2, <2>3, <2>4, <2>5 DEF ExecInv
<1>15. ExecInv(c)'
  <2>1. ExecInv(c) /\ taken'[c] = taken[c] /\ childParent'[c] = p
    BY <1>3, <1>4, <1>6, <1>8 DEF ExecsInv
  <2>2. CASE c \notin pendingExecCwd
    <3>1. execCwd' = execCwd /\ execKnown' = execKnown /\ pendingExecCwd' = pendingExecCwd
      BY <1>3, <2>2 DEF settleExecCwd, execVars
    <3>2. ASSUME c \in execKnown \ {Root}, execCwd[c] # None, NEW i \in 1..Len(file[c]), atFirstExec(c, i)
          PROVE  execCwd[c] = file[c][i].at
      BY <1>5, <1>8, <2>1, <2>2, <3>2 DEF ExecInv
    <3>3. \A i : atFirstExec(c, i)' = atFirstExec(c, i)
      BY <1>3, <1>5
    <3> QED BY <1>6, <1>12, <2>1, <2>2, <3>1, <3>2, <3>3 DEF ExecInv
  <2>3. CASE c \in pendingExecCwd
    <3>1. /\ execCwd'[c] = (IF c \in pidCwdUnknown' THEN None ELSE pidCwd'[c])
          /\ c \in execKnown' /\ c \notin pendingExecCwd'
      BY <1>3, <1>4, <1>13, <2>3 DEF settleExecCwd
    <3>2. ASSUME execCwd'[c] # None, NEW i \in 1..Len(file[c]), atFirstExec(c, i)
          PROVE  \/ execCwd'[c] = file[c][i].at
                 \/ lastCwdMutationTs[c] > i /\ pidCloneTimeCwd'[c] = None
      <4>1. pidCloneTimeCwd[c] = None /\ \E j \in 1..taken[c] :
               atFirstExec(c, j) /\ (firstCwdMutationTs[c] = 0 \/ j < firstCwdMutationTs[c])
        BY <2>1, <2>3 DEF ExecInv
      <4>2. PICK j \in 1..taken[c] :
               atFirstExec(c, j) /\ (firstCwdMutationTs[c] = 0 \/ j < firstCwdMutationTs[c])
        BY <4>1
      <4>3. taken[c] \in Nat /\ Len(file[c]) \in Nat /\ MutInv(c) /\ BirthInv(c)' /\ CwdInv(c)' /\ MutInv(c)'
            /\ lastCwdMutationTs[c] \in Nat /\ taken[c] <= Len(file[c])
        <5>1. taken[c] \in Nat /\ Len(file[c]) \in Nat /\ lastCwdMutationTs[c] \in Nat
          BY <1>3, <1>4, <1>5 DEF Tracked, TypeOK
        <5>2. MutInv(c) /\ BirthInv(c)' /\ CwdInv(c)' /\ MutInv(c)'
          BY <1>3 DEF Tracked, TrackInv
        <5> QED BY <5>1, <5>2 DEF MutInv
      <4>4. j \in 1..Len(file[c])
        BY <4>3
      <4>5. j = i
        BY <1>3, <3>2, <4>2, <4>4, FirstExecOnce
      <4>6. i \in 0..taken[c] /\ i # 0 /\ i \in Nat
        BY <4>3, <4>5
      <4>7. at(c, i) = file[c][i].at /\ at(c, i)' = file[c][i].at /\ at(c, i) = bornIn[c]
        BY <1>6, <4>2, <4>3, <4>5, <4>6 DEF at, MutInv
      <4>8. execCwd'[c] = pidCwd'[c] /\ c \notin pidCwdUnknown'
        BY <3>1, <3>2
      <4>9. CASE born # None
        <5>1. pidCloneTimeCwd'[c] = born /\ pidCwd'[c] = born
          BY <1>11, <1>12, <4>1, <4>8, <4>9
        <5>2. born = bornIn'[c] /\ bornIn' = bornIn
          BY <1>1, <4>3, <4>9, <5>1, TakeBasics DEF BirthInv
        <5> QED BY <4>7, <4>8, <5>1, <5>2
      <4>10. CASE born = None
        <5>1. pidCloneTimeCwd'[c] = None
          BY <1>11, <4>1, <4>10
        <5>2. CASE lastCwdMutationTs[c] <= i
          <6>1. at(c, i)' = now(c)'
            BY <1>6, <2>1, <4>3, <4>6, <5>2 DEF MutInv
          <6>2. pidCwd'[c] = now(c)'
            BY <3>2, <4>3, <4>8 DEF CwdInv
          <6> QED BY <4>7, <4>8, <6>1, <6>2
        <5> QED BY <4>3, <4>6, <5>1, <5>2
      <4> QED BY <4>9, <4>10
    <3> QED BY <1>3, <1>5, <1>6, <1>8, <1>12, <2>1, <3>1, <3>2 DEF ExecInv
  <2> QED BY <2>2, <2>3
<1> QED BY <1>5, <1>9, <1>14, <1>15 DEF ExecsInv

\* An exec still parked at the end has no directory.
LEMMA ExecsReplay ==
    ASSUME Tracked, ExecsInv, Replay
    PROVE  ExecsInv'
<1>1. /\ ~running /\ running' = running /\ replayed' = TRUE /\ file' = file /\ taken' = taken
      /\ childParent' = childParent /\ childSeedCloneTs' = childSeedCloneTs
      /\ pidCloneTimeCwd' = pidCloneTimeCwd /\ pidCwd' = pidCwd /\ pidCwdUnknown' = pidCwdUnknown
      /\ lastCwdMutationTs' = lastCwdMutationTs /\ firstCwdMutationTs' = firstCwdMutationTs
      /\ execKnown' = execKnown \cup pendingExecCwd /\ pendingExecCwd' = {} /\ execCwd' = execCwd
      /\ \A p \in Pids : taken[p] = Len(file[p])
  BY DEF Replay, treeVars, cloneVars, groupVars, mutVars
<1>2. OnceInv' /\ SeenInv' /\ StagesInv'
  BY <1>1 DEF ExecsInv, OnceInv, SeenInv, StagesInv, CloneLine
<1>3. ASSUME NEW p \in Pids PROVE ExecInv(p)'
  <2>1. ExecInv(p) /\ \A i : atFirstExec(p, i)' = atFirstExec(p, i)
    BY <1>1 DEF ExecsInv, atFirstExec
  <2> QED BY <1>1, <2>1 DEF ExecInv
<1> QED BY <1>2, <1>3 DEF ExecsInv

\* A call of a plain tree: a clone makes a process that was not there.
LEMMA ExecsCall ==
    ASSUME PlainInv, KernelNext, Unshared', Unshared, ExecsInv
    PROVE  ExecsInv'
<1>0. /\ Tracked /\ live \subseteq Pids /\ cwd \in [Pids -> Dirs] /\ file \in [Pids -> Seq(Line)]
      /\ OnceInv /\ StagesInv /\ TreeInv /\ FreshInv
  BY DEF PlainInv, Tracked, ExecsInv
<1>1. PICK p \in live, call \in Calls, d \in Dirs, c \in Pids, q \in Dirs :
        /\ Calling(p, call, d, c, q)
        /\ \/ Chdir(p, call, d) /\ q = d
           \/ Clone(p, call, c) /\ q = cwd[p]
           \/ Unshare(p) /\ call = "unshare"
           \/ Other(p, call) /\ q = cwd[p]
  BY <1>0, KernelLine
<1> DEFINE l == [call |-> call, dir |-> d, child |-> c, at |-> q]
<1>2. /\ p \in Pids /\ file' = [file EXCEPT ![p] = Append(@, l)] /\ running /\ running' /\ replayed' = replayed
      /\ UNCHANGED <<taken, cloneVars, execVars, pidCwd, pidCwdUnknown, mutVars>>
  BY <1>0, <1>1, CallingStep DEF Calling, groupVars
<1>3. call = "clone" => c \notin live
  BY <1>1 DEF Chdir, Mutations, Clone, Other
<1>4. PICK n \in Nat : n = Len(file[p])
  BY <1>0, <1>2
<1>5. /\ Len(file'[p]) = n + 1 /\ file'[p][n + 1] = l /\ \A i \in 1..n : file'[p][i] = file[p][i]
      /\ \A x \in Pids \ {p} : file'[x] = file[x]
      /\ \A x \in Pids : Len(file[x]) \in Nat
  BY <1>0, <1>2, <1>4
<1>6. l.call = call /\ l.child = c
  OBVIOUS
<1> HIDE DEF l
<1>7. ASSUME NEW a \in Pids, NEW i \in 1..Len(file'[a]), NEW x \in Pids, CloneLine(a, i, x)'
      PROVE  \/ i \in 1..Len(file[a]) /\ CloneLine(a, i, x) /\ x \in live
             \/ a = p /\ i = n + 1 /\ x = c /\ c \notin live
  <2>1. CASE i \in 1..Len(file[a])
    <3>1. file'[a][i] = file[a][i]
      BY <1>4, <1>5, <2>1
    <3>2. CloneLine(a, i, x) /\ LineInv(a, i)
      BY <1>0, <1>7, <2>1, <3>1 DEF CloneLine, TreeInv
    <3> QED BY <2>1, <3>2 DEF CloneLine, LineInv
  <2>2. CASE i \notin 1..Len(file[a])
    <3>1. a = p /\ i = n + 1
      BY <1>4, <1>5, <2>2
    <3> QED BY <1>3, <1>5, <1>6, <1>7, <3>1 DEF CloneLine
  <2> QED BY <2>1, <2>2
<1>8. OnceInv'
  <2> SUFFICES ASSUME NEW a \in Pids, NEW b \in Pids, NEW x \in Pids, NEW i \in 1..Len(file'[a]),
                      NEW j \in 1..Len(file'[b]), CloneLine(a, i, x)'
               PROVE  x # a /\ (CloneLine(b, j, x)' => a = b /\ i = j)
    BY DEF OnceInv
  <2>1. x # a
    <3>1. CASE i \in 1..Len(file[a]) /\ CloneLine(a, i, x)
      BY <1>0, <3>1 DEF OnceInv
    <3>2. CASE a = p /\ x = c /\ c \notin live
      BY <1>1, <3>2
    <3> QED BY <1>7, <3>1, <3>2
  <2>2. ASSUME CloneLine(b, j, x)' PROVE a = b /\ i = j
    <3>1. CASE x \in live
      <4>1. i \in 1..Len(file[a]) /\ CloneLine(a, i, x) /\ j \in 1..Len(file[b]) /\ CloneLine(b, j, x)
        BY <1>7, <2>2, <3>1
      <4> QED BY <1>0, <4>1 DEF OnceInv
    <3>2. CASE x \notin live
      BY <1>7, <2>2, <3>2
    <3> QED BY <3>1, <3>2
  <2> QED BY <2>1, <2>2
<1>9. SeenInv' /\ StagesInv'
  BY <1>0, <1>2 DEF StagesInv, SeenInv, FreshInv, cloneVars, execVars
<1>10. ASSUME NEW x \in Pids PROVE ExecInv(x)'
  <2>1. taken'[x] = 0 /\ execKnown' \subseteq {Root} /\ pendingExecCwd' = {} /\ ExecInv(x)
    BY <1>0, <1>2, <1>10 DEF FreshInv, StagesInv, execVars, ExecsInv
  <2> QED BY <1>2, <2>1 DEF ExecInv, execVars, cloneVars
<1> QED BY <1>8, <1>9, <1>10 DEF ExecsInv

\* At the start nothing is cloned, and only the root's directory is known.
LEMMA ExecsInit ==
    ASSUME Init
    PROVE  ExecsInv
<1>1. \A p \in Pids : Len(file[p]) = 0
  BY DEF Init
<1>2. OnceInv /\ SeenInv
  BY <1>1 DEF Init, OnceInv, SeenInv
<1>3. StagesInv
  BY RootAssumption DEF Init, StagesInv
<1>4. ASSUME NEW p \in Pids PROVE ExecInv(p)
  BY <1>1 DEF Init, ExecInv
<1> QED BY <1>2, <1>3, <1>4 DEF ExecsInv

\* Whatever a plain tree does, what is known of the execs stays true.
THEOREM ExecsInvariant == Spec => [](Unshared => ExecsInv)
<1>1. Init => (Unshared => ExecsInv)
  BY ExecsInit
<1>2. PlainInv /\ PlainInv' /\ (Unshared => ExecsInv) /\ [Next]_vars => (Unshared => ExecsInv)'
  <2> SUFFICES ASSUME PlainInv, PlainInv', Unshared => ExecsInv, [Next]_vars, Unshared'
               PROVE  ExecsInv'
    OBVIOUS
  <2>1. CASE KernelNext
    <3>1. Unshared
      <4>1. PICK p \in live, call \in Calls, d \in Dirs, c \in Pids, q \in Dirs :
              Calling(p, call, d, c, q)
        BY <2>1, KernelLine DEF PlainInv
      <4>2. p \in Pids
        BY DEF PlainInv
      <4>3. file' = [file EXCEPT ![p] = Append(@, [call |-> call, dir |-> d, child |-> c, at |-> q])]
        BY <4>1 DEF Calling
      <4> QED BY <4>2, <4>3, PlainBefore DEF PlainInv
    <3> QED BY <2>1, <3>1, ExecsCall
  <2>2. CASE TakeNext
    <3>1. PICK p \in Pids :
            \/ TakeChdir(p) \/ TakeRelative(p) \/ TakeOpaque(p) \/ TakeClone(p)
            \/ TakeUnshare(p) \/ TakeOpen(p) \/ TakeExec(p)
      BY <2>2 DEF TakeNext
    <3>2. file' = file
      BY <3>1 DEF TakeChdir, TakeRelative, TakeOpaque, TakeClone, TakeUnshare, TakeOpen, TakeExec, Take,
                  treeVars
    <3>3. Unshared /\ Tracked /\ Tracked'
      BY <3>2 DEF Unshared, Only, PlainInv, Tracked
    <3>4. CASE TakeUnshare(p)
      <4>1. Take(p, {"unshare"})
        BY <3>4 DEF TakeUnshare
      <4>2. Next1(p).call = "unshare" /\ Next1(p) = file[p][lineTs(p)] /\ lineTs(p) \in 1..Len(file[p])
        BY <3>3, <4>1, TakeBasics
      <4> QED BY <3>3, <4>2 DEF Unshared, Only
    <3> QED BY <3>1, <3>3, <3>4, ExecsMove, ExecsOpen, ExecsExec, ExecsClone
  <2>3. CASE Replay
    <3>1. Unshared /\ Tracked
      BY <2>3 DEF Replay, treeVars, Unshared, Only, PlainInv, Tracked
    <3> QED BY <2>3, <3>1, ExecsReplay
  <2>4. CASE TreeDone
    <3> USE <2>4 DEF TreeDone
    <3>1. Unshared
      BY DEF Unshared, Only
    <3>2. OnceInv' /\ SeenInv' /\ StagesInv'
      BY <3>1 DEF ExecsInv, OnceInv, SeenInv, StagesInv, CloneLine, cloneVars, execVars
    <3>3. ASSUME NEW p \in Pids PROVE ExecInv(p)'
      BY <3>1 DEF ExecsInv, ExecInv, atFirstExec, cloneVars, execVars, groupVars, mutVars
    <3> QED BY <3>2, <3>3 DEF ExecsInv
  <2>5. CASE Done \/ UNCHANGED vars
    <3>1. UNCHANGED vars
      BY <2>5 DEF Done
    <3> USE <3>1 DEF vars, treeVars, cloneVars, execVars, groupVars, mutVars
    <3>2. Unshared
      BY DEF Unshared, Only
    <3>3. OnceInv' /\ SeenInv' /\ StagesInv'
      BY <3>2 DEF ExecsInv, OnceInv, SeenInv, StagesInv, CloneLine
    <3>4. ASSUME NEW p \in Pids PROVE ExecInv(p)'
      BY <3>2 DEF ExecsInv, ExecInv, atFirstExec
    <3> QED BY <3>3, <3>4 DEF ExecsInv
  <2> QED BY <2>1, <2>2, <2>3, <2>4, <2>5 DEF Next
<1> QED
  BY <1>1, <1>2, PlainInvariant, PTL DEF Spec

\* In a tree of plain forks, of any size and shape and in every order of the files, the directory
\* kept for a process's first exec is the one it was made in, with the one exception ExecTrue names.
THEOREM ExecTrueHolds == Spec => []ExecTrue
<1>1. ASSUME PlainInv, Unshared => ExecsInv
      PROVE ExecTrue
  <2> SUFFICES ASSUME Unshared, NEW p \in execKnown \ {Root}, NEW i \in 1..Len(file[p]),
                      atFirstExec(p, i), execCwd[p] # None
               PROVE \/ execCwd[p] = file[p][i].at
                     \/ lastCwdMutationTs[p] > i /\ pidCloneTimeCwd[p] = None
    BY DEF ExecTrue
  <2>1. p \in Pids
    BY <1>1 DEF PlainInv, Tracked, TypeOK
  <2>2. ExecInv(p)
    BY <1>1, <2>1 DEF ExecsInv
  <2> QED BY <2>2 DEF ExecInv
<1> QED
  BY <1>1, PlainInvariant, ExecsInvariant, PTL
-----------------------------------------------------------------------------
(* Trees that share directories.                                           *)

\* A walk along f always ends.
Forest(f) ==
    \A S \in SUBSET Pids : S # {} /\ (\A x \in S : f[x] \in S) => \E r \in S : f[r] = r

\* p shares its directory, or did, with a process that one of them cloned.
Shares(p) ==
    \E a \in Pids : \E i \in 1..Len(file[a]) :
        file[a][i].call = "clone_fs" /\ p \in {a, file[a][i].child}

\* Q holds the parents of its processes and those they share with, and none of it that
\* shares ever changes its directory.
Still(Q) ==
    \A p \in Pids : \A i \in 1..Len(file[p]) :
        LET l == file[p][i]
        IN /\ l.call \in Clones /\ l.child \in Q => p \in Q
           /\ l.call = "clone_fs" /\ p \in Q => l.child \in Q
           /\ l.call \in Mutations /\ p \in Q => ~Shares(p)

\* p was not born into a shared directory, and shared its own with none in its first j lines.
Apart(p, j) ==
    /\ \A i \in 1..j : file[p][i].call # "clone_fs"
    /\ \A a \in Pids : \A i \in 1..Len(file[a]) :
           file[a][i].call = "clone_fs" => file[a][i].child # p

\* Nobody but p moves it in its first j lines.
Steady(Q, p, j) == p \in Q \/ Apart(p, j)

\* What x and y have in common if they are of one group.
Like(Q, x, y) == (x \in Q <=> y \in Q) /\ (x = y \/ (Shares(x) /\ Shares(y)))

\* Nobody unshares, or every change of directory shows the directory.
Visible == Only(Calls \ {"unshare"}) \/ Only(Calls \ {"relative", "opaque"})

\* Nothing is known of a process that does not live.
Living ==
    /\ Root \in live /\ bornIn[Root] = WorkDir
    /\ \A p \in Pids : p \notin live => file[p] = <<>> /\ mates[p] = {p} /\ cwd[p] = bornIn[p]

\* The processes fall into groups.
Grouped == \A p \in Pids : p \in mates[p] /\ \A x \in mates[p] : mates[x] = mates[p]

\* A clone's line shows where the child is born; a chdir's where it leads.
Shown ==
    \A p \in Pids : \A i \in 1..Len(file[p]) :
        LET l == file[p][i]
        IN /\ l.call \in Clones => l.child \in live \ {Root} /\ l.child # p /\ bornIn[l.child] = l.at
           /\ l.call = "chdir" => l.at = l.dir

\* A process is cloned once.
OneBirth ==
    \A p, q \in Pids : \A i \in 1..Len(file[p]) : \A j \in 1..Len(file[q]) :
        /\ file[p][i].call \in Clones /\ file[q][j].call \in Clones
        /\ file[p][i].child = file[q][j].child
        => p = q /\ i = j

KernelInv == Living /\ Grouped /\ Shown /\ OneBirth

\* A group lies inside Q or outside.
MatesInv(Q) == \A p \in Pids : \A x \in mates[p] : Like(Q, p, x)

\* Where nobody else moves p, it is where its last line left it, ...
WhereInv(Q) == \A p \in Pids : Steady(Q, p, Len(file[p])) => cwd[p] = at(p, Len(file[p]))

\* ... a relative chdir starts from where the line before left it, ...
RelativeInv(Q) ==
    \A p \in Pids : \A i \in 1..Len(file[p]) :
        Steady(Q, p, i - 1) /\ file[p][i].call = "relative" => at(p, i) = Below[at(p, i - 1)]

\* ... and it stays between its own changes.
StaysInv(Q) ==
    \A p \in Pids : \A j \in 0..Len(file[p]) : \A i \in 0..j :
        /\ Steady(Q, p, j)
        /\ \A k \in (i + 1)..j : file[p][k].call \notin Mutations
        => at(p, i) = at(p, j)

KernelQ(Q) == MatesInv(Q) /\ WhereInv(Q) /\ RelativeInv(Q) /\ StaysInv(Q)

\* What the processes keep, whatever they share.
Kernel == KernelInv /\ \A Q \in SUBSET Pids : Still(Q) => KernelQ(Q)

\* Until the tree is done the dispatcher is as it started.
Unread ==
    /\ FreshInv
    /\ running => /\ up = [p \in Pids |-> p] /\ pendingCwdDetach = [p \in Pids |-> None]
                  /\ ~replayed

\* A line that is added is the last one, and the others stay.
LEMMA Added ==
    ASSUME file \in [Pids -> Seq(Line)], NEW p \in Pids, NEW l \in Line,
           file' = [file EXCEPT ![p] = Append(@, l)]
    PROVE  /\ \A q \in Pids : Len(file[q]) \in Nat /\ Len(file'[q]) \in Nat
           /\ Len(file'[p]) = Len(file[p]) + 1 /\ file'[p][Len(file[p]) + 1] = l
           /\ \A q \in Pids : q # p => file'[q] = file[q]
           /\ \A q \in Pids : \A i \in 1..Len(file[q]) :
                i \in 1..Len(file'[q]) /\ file'[q][i] = file[q][i]
           /\ \A q \in Pids : \A i \in 1..Len(file'[q]) :
                i \in 1..Len(file[q]) \/ (q = p /\ i = Len(file[p]) + 1)
<1> DEFINE s == Append(file[p], l)
           n == Len(file[p])
<1>1. /\ file[p] \in Seq(Line) /\ n \in Nat /\ Len(s) = n + 1
      /\ s[n + 1] = l /\ \A i \in 1..n : s[i] = file[p][i]
  OBVIOUS
<1>2. file'[p] = s /\ \A q \in Pids : q # p => file'[q] = file[q]
  OBVIOUS
<1>3. \A q \in Pids : Len(file[q]) \in Nat
  OBVIOUS
<1> HIDE DEF s
<1>4. \A i \in 1..Len(s) : i \in 1..n \/ i = n + 1
  BY <1>1
<1>5. \A i \in 1..n : i \in 1..Len(s)
  BY <1>1
<1>6. \A q \in Pids : Len(file'[q]) \in Nat
  <2> TAKE q \in Pids
  <2>1. CASE q = p
    BY <1>1, <1>2, <2>1
  <2>2. CASE q # p
    BY <1>2, <1>3, <2>2
  <2> QED BY <2>1, <2>2
<1>7. ASSUME NEW q \in Pids, NEW i \in 1..Len(file[q])
      PROVE  i \in 1..Len(file'[q]) /\ file'[q][i] = file[q][i]
  <2>1. CASE q = p
    BY <1>1, <1>2, <1>5, <2>1
  <2>2. CASE q # p
    BY <1>2, <2>2
  <2> QED BY <2>1, <2>2
<1>8. ASSUME NEW q \in Pids, NEW i \in 1..Len(file'[q])
      PROVE  i \in 1..Len(file[q]) \/ (q = p /\ i = n + 1)
  <2>1. CASE q = p
    BY <1>2, <1>4, <2>1
  <2>2. CASE q # p
    BY <1>2, <2>2
  <2> QED BY <2>1, <2>2
<1> QED
  BY <1>1, <1>2, <1>3, <1>6, <1>7, <1>8

\* More lines show more sharing, and leave fewer sets still.
LEMMA AddedShares ==
    ASSUME file \in [Pids -> Seq(Line)], NEW p \in Pids, NEW l \in Line,
           file' = [file EXCEPT ![p] = Append(@, l)]
    PROVE  /\ \A x \in Pids : Shares(x) => Shares(x)'
           /\ \A Q \in SUBSET Pids : Still(Q)' => Still(Q)
           /\ \A x \in Pids : \A j \in 0..Len(file[x]) : Apart(x, j)' => Apart(x, j)
           /\ l.call = "clone_fs" => Shares(p)' /\ Shares(l.child)'
           /\ \A Q \in SUBSET Pids : Still(Q)' =>
                /\ l.call \in Clones /\ l.child \in Q => p \in Q
                /\ l.call = "clone_fs" /\ p \in Q => l.child \in Q
                /\ l.call \in Mutations /\ p \in Q => ~Shares(p)'
<1> DEFINE n == Len(file[p])
<1>1. /\ \A q \in Pids : Len(file[q]) \in Nat /\ Len(file'[q]) \in Nat
      /\ n + 1 \in 1..Len(file'[p]) /\ file'[p][n + 1] = l
      /\ \A q \in Pids : \A i \in 1..Len(file[q]) :
           i \in 1..Len(file'[q]) /\ file'[q][i] = file[q][i]
  <2>1. /\ \A q \in Pids : Len(file[q]) \in Nat /\ Len(file'[q]) \in Nat
        /\ Len(file'[p]) = n + 1 /\ file'[p][n + 1] = l
        /\ \A q \in Pids : \A i \in 1..Len(file[q]) :
             i \in 1..Len(file'[q]) /\ file'[q][i] = file[q][i]
    BY Added
  <2> HIDE DEF n
  <2>2. n \in Nat
    BY <2>1 DEF n
  <2> QED BY <2>1, <2>2
<1>2. \A x \in Pids : Shares(x) => Shares(x)'
  <2> SUFFICES ASSUME NEW x \in Pids, Shares(x) PROVE Shares(x)'
    OBVIOUS
  <2>1. PICK a \in Pids : \E i \in 1..Len(file[a]) :
          file[a][i].call = "clone_fs" /\ x \in {a, file[a][i].child}
    BY DEF Shares
  <2>2. PICK i \in 1..Len(file[a]) : file[a][i].call = "clone_fs" /\ x \in {a, file[a][i].child}
    BY <2>1
  <2>3. i \in 1..Len(file'[a]) /\ file'[a][i] = file[a][i]
    BY <1>1
  <2> QED BY <2>2, <2>3 DEF Shares
<1>3. ASSUME NEW Q \in SUBSET Pids, Still(Q)'
      PROVE  Still(Q)
  <2> SUFFICES ASSUME NEW q \in Pids, NEW i \in 1..Len(file[q])
               PROVE  /\ file[q][i].call \in Clones /\ file[q][i].child \in Q => q \in Q
                      /\ file[q][i].call = "clone_fs" /\ q \in Q => file[q][i].child \in Q
                      /\ file[q][i].call \in Mutations /\ q \in Q => ~Shares(q)
    BY DEF Still
  <2>1. i \in 1..Len(file'[q]) /\ file'[q][i] = file[q][i]
    BY <1>1
  <2>2. /\ file'[q][i].call \in Clones /\ file'[q][i].child \in Q => q \in Q
        /\ file'[q][i].call = "clone_fs" /\ q \in Q => file'[q][i].child \in Q
        /\ file'[q][i].call \in Mutations /\ q \in Q => ~Shares(q)'
    BY <1>3, <2>1 DEF Still
  <2> QED BY <1>2, <2>1, <2>2
<1>4. ASSUME NEW x \in Pids, NEW j \in 0..Len(file[x]), Apart(x, j)'
      PROVE  Apart(x, j)
  <2>1. \A i \in 1..j : i \in 1..Len(file[x])
    BY <1>1
  <2>2. \A i \in 1..j : file[x][i].call # "clone_fs"
    BY <1>1, <1>4, <2>1 DEF Apart
  <2>3. \A a \in Pids : \A i \in 1..Len(file[a]) :
          file[a][i].call = "clone_fs" => file[a][i].child # x
    BY <1>1, <1>4 DEF Apart
  <2> QED BY <2>2, <2>3 DEF Apart
<1>5. l.call = "clone_fs" => Shares(p)' /\ Shares(l.child)'
  BY <1>1 DEF Shares
<1>6. ASSUME NEW Q \in SUBSET Pids, Still(Q)'
      PROVE  /\ l.call \in Clones /\ l.child \in Q => p \in Q
             /\ l.call = "clone_fs" /\ p \in Q => l.child \in Q
             /\ l.call \in Mutations /\ p \in Q => ~Shares(p)'
  BY <1>1, <1>6 DEF Still
<1> QED
  BY <1>2, <1>3, <1>4, <1>5, <1>6

\* A process that is apart to its last line does not share.
LEMMA ApartAlone ==
    ASSUME NEW p \in Pids, Apart(p, Len(file[p]))
    PROVE  ~Shares(p)
  BY DEF Apart, Shares

\* Whoever is steady after the new line was steady before it.
LEMMA SteadyBefore ==
    ASSUME file \in [Pids -> Seq(Line)], NEW p \in Pids, NEW l \in Line,
           file' = [file EXCEPT ![p] = Append(@, l)], NEW Q \in SUBSET Pids,
           NEW n \in Nat, n = Len(file[p])
    PROVE  /\ \A x \in Pids : \A j \in 0..Len(file[x]) : Steady(Q, x, j)' => Steady(Q, x, j)
           /\ Steady(Q, p, n + 1)' => Steady(Q, p, n)
<1>1. \A x \in Pids : \A j \in 0..Len(file[x]) : Steady(Q, x, j)' => Steady(Q, x, j)
  BY AddedShares DEF Steady
<1>2. \A i \in 1..n : i \in 1..(n + 1)
  OBVIOUS
<1>3. Apart(p, n + 1)' => Apart(p, n)'
  BY <1>2 DEF Apart
<1>4. Steady(Q, p, n + 1)' => Steady(Q, p, n)'
  BY <1>3 DEF Steady
<1>5. n \in 0..Len(file[p])
  OBVIOUS
<1> QED
  BY <1>1, <1>4, <1>5

\* A line that is right for its place keeps every line right, whoever else it moves.
LEMMA KernelLines ==
    ASSUME file \in [Pids -> Seq(Line)], live \subseteq Pids, Kernel,
           NEW p \in live, NEW l \in Line, file' = [file EXCEPT ![p] = Append(@, l)],
           live \subseteq live', live' \subseteq Pids,
           \A q \in live : bornIn'[q] = bornIn[q],
           cwd'[p] = l.at,
           \A q \in live : q # p /\ (l.call \notin Mutations \/ q \notin mates[p]) => cwd'[q] = cwd[q],
           \A q \in Pids \ live : cwd'[q] = bornIn'[q],
           l.call \notin Mutations => l.at = cwd[p],
           l.call = "relative" => l.at = Below[cwd[p]],
           l.call = "chdir" => l.at = l.dir,
           l.call \in Clones => l.child \in live' \ live /\ bornIn'[l.child] = l.at,
           Grouped', \A q \in Pids \ live' : mates'[q] = {q},
           \A Q \in SUBSET Pids : Still(Q)' => MatesInv(Q)'
    PROVE  Kernel'
<1> USE RootAssumption
<1>0. p \in Pids /\ Len(file[p]) \in Nat
  OBVIOUS
<1>2. PICK n \in Nat : n = Len(file[p])
  BY <1>0
<1>1. /\ \A q \in Pids : Len(file[q]) \in Nat /\ Len(file'[q]) \in Nat
      /\ Len(file'[p]) = n + 1 /\ file'[p][n + 1] = l
      /\ \A q \in Pids : q # p => file'[q] = file[q]
      /\ \A q \in Pids : \A i \in 1..Len(file[q]) :
           i \in 1..Len(file'[q]) /\ file'[q][i] = file[q][i]
      /\ \A q \in Pids : \A i \in 1..Len(file'[q]) :
           i \in 1..Len(file[q]) \/ (q = p /\ i = n + 1)
  BY <1>0, <1>2, Added
<1>3. \A q \in live : \A i \in 0..Len(file[q]) : at(q, i)' = at(q, i)
  <2> SUFFICES ASSUME NEW q \in live, NEW i \in 0..Len(file[q]) PROVE at(q, i)' = at(q, i)
    OBVIOUS
  <2>1. i # 0 => i \in 1..Len(file[q])
    BY <1>1
  <2>2. i # 0 => file'[q][i] = file[q][i]
    BY <1>1, <2>1
  <2> QED BY <2>2 DEF at
<1>4. at(p, n + 1)' = l.at /\ (n + 1) - 1 = n
  BY <1>1, <1>2 DEF at
<1>5. \A q \in Pids \ live : file[q] = <<>> /\ file'[q] = <<>> /\ Len(file[q]) = 0
  BY <1>1 DEF Kernel, KernelInv, Living
<1>6. KernelInv'
  <2>1. Living'
    <3>1. Root \in live' /\ bornIn'[Root] = WorkDir
      BY DEF Kernel, KernelInv, Living
    <3>2. \A q \in Pids : q \notin live' => file'[q] = <<>> /\ mates'[q] = {q} /\ cwd'[q] = bornIn'[q]
      BY <1>5
    <3> QED BY <3>1, <3>2 DEF Living
  <2>2. Shown'
    <3> SUFFICES ASSUME NEW q \in Pids, NEW i \in 1..Len(file'[q])
                 PROVE  LET m == file'[q][i]
                        IN /\ m.call \in Clones => m.child \in live' \ {Root} /\ m.child # q
                                                   /\ bornIn'[m.child] = m.at
                           /\ m.call = "chdir" => m.at = m.dir
      BY DEF Shown
    <3>1. CASE i \in 1..Len(file[q])
      <4>1. file'[q][i] = file[q][i]
        BY <1>1, <3>1
      <4>2. LET m == file[q][i]
            IN /\ m.call \in Clones => m.child \in live \ {Root} /\ m.child # q
                                       /\ bornIn[m.child] = m.at
               /\ m.call = "chdir" => m.at = m.dir
        BY <3>1 DEF Kernel, KernelInv, Shown
      <4> QED BY <4>1, <4>2
    <3>2. CASE q = p /\ i = n + 1
      <4>1. Root \in live
        BY DEF Kernel, KernelInv, Living
      <4> QED BY <1>1, <3>2, <4>1
    <3> QED BY <1>1, <3>1, <3>2
  <2>3. OneBirth'
    <3>1. ASSUME NEW q \in Pids, NEW x \in Pids,
                 NEW i \in 1..Len(file'[q]), NEW j \in 1..Len(file'[x]),
                 file'[q][i].call \in Clones, file'[x][j].call \in Clones,
                 file'[q][i].child = file'[x][j].child
          PROVE  q = x /\ i = j
      <4>1. \A y \in Pids : \A k \in 1..Len(file[y]) :
              file[y][k].call \in Clones => file[y][k].child \in live
        BY DEF Kernel, KernelInv, Shown
      <4>2. CASE i \in 1..Len(file[q]) /\ j \in 1..Len(file[x])
        <5>1. file'[q][i] = file[q][i] /\ file'[x][j] = file[x][j]
          BY <1>1, <4>2
        <5> QED BY <3>1, <4>2, <5>1 DEF Kernel, KernelInv, OneBirth
      <4>3. CASE i \in 1..Len(file[q]) /\ (x = p /\ j = n + 1)
        <5>1. file'[q][i] = file[q][i] /\ file'[x][j] = l
          BY <1>1, <4>3
        <5> QED BY <3>1, <4>1, <4>3, <5>1
      <4>4. CASE (q = p /\ i = n + 1) /\ j \in 1..Len(file[x])
        <5>1. file'[x][j] = file[x][j] /\ file'[q][i] = l
          BY <1>1, <4>4
        <5> QED BY <3>1, <4>1, <4>4, <5>1
      <4>5. CASE (q = p /\ i = n + 1) /\ (x = p /\ j = n + 1)
        BY <4>5
      <4> QED BY <1>1, <3>1, <4>2, <4>3, <4>4, <4>5
    <3>2. \A q, x \in Pids : \A i \in 1..Len(file'[q]) : \A j \in 1..Len(file'[x]) :
            /\ file'[q][i].call \in Clones /\ file'[x][j].call \in Clones
            /\ file'[q][i].child = file'[x][j].child
            => q = x /\ i = j
      BY <3>1
    <3> QED BY <3>2 DEF OneBirth
  <2> QED BY <2>1, <2>2, <2>3 DEF KernelInv
<1>7. ASSUME NEW Q \in SUBSET Pids, Still(Q)'
      PROVE  KernelQ(Q)'
  <2>1. /\ \A x \in Pids : Shares(x) => Shares(x)'
        /\ Still(Q)
        /\ l.call \in Mutations /\ p \in Q => ~Shares(p)'
    BY <1>0, <1>7, AddedShares
  <2>2. /\ \A x \in Pids : \A j \in 0..Len(file[x]) : Steady(Q, x, j)' => Steady(Q, x, j)
        /\ Steady(Q, p, n + 1)' => Steady(Q, p, n)
    BY <1>0, <1>2, SteadyBefore
  <2>3. MatesInv(Q) /\ WhereInv(Q) /\ RelativeInv(Q) /\ StaysInv(Q)
    BY <2>1 DEF Kernel, KernelQ
  <2>4. Steady(Q, p, n) => cwd[p] = at(p, n)
    BY <1>0, <1>2, <2>3 DEF WhereInv
  <2>5. WhereInv(Q)'
    <3> SUFFICES ASSUME NEW q \in Pids, Steady(Q, q, Len(file[q]))'
                 PROVE  cwd'[q] = at(q, Len(file[q]))'
      BY DEF WhereInv
    <3>1. CASE q = p
      <4>1. at(p, Len(file[p]))' = at(p, n + 1)'
        BY <1>0, <1>1 DEF at
      <4> QED BY <1>4, <3>1, <4>1
    <3>2. CASE q \in live /\ q # p
      <4>1. file'[q] = file[q] /\ Len(file[q]) \in 0..Len(file[q])
        BY <1>1, <3>2
      <4>2. Steady(Q, q, Len(file[q])) /\ (q \in Q \/ Apart(q, Len(file[q])))
        <5>1. PICK m \in Nat : m = Len(file[q]) /\ m = Len(file'[q])
          BY <1>1, <4>1
        <5>2. Steady(Q, q, m)'
          BY <5>1 DEF Steady, Apart
        <5>3. Steady(Q, q, m)
          BY <2>2, <4>1, <5>1, <5>2
        <5> QED BY <5>1, <5>3 DEF Steady
      <4>3. cwd[q] = at(q, Len(file[q]))
        BY <2>3, <4>2 DEF WhereInv
      <4>4. l.call \notin Mutations \/ q \notin mates[p]
        <5> SUFFICES ASSUME l.call \in Mutations, q \in mates[p] PROVE FALSE
          OBVIOUS
        <5>1. (p \in Q <=> q \in Q) /\ Shares(p) /\ Shares(q)
          BY <1>0, <2>3, <3>2 DEF MatesInv, Like
        <5>2. p \notin Q
          BY <1>0, <2>1, <5>1
        <5> QED BY <4>2, <5>1, <5>2, ApartAlone
      <4>5. cwd'[q] = cwd[q]
        BY <3>2, <4>4
      <4>6. at(q, Len(file[q]))' = at(q, Len(file[q]))
        BY <3>2, <4>1 DEF at
      <4> QED BY <4>3, <4>5, <4>6
    <3>3. CASE q \notin live
      <4>1. cwd'[q] = bornIn'[q] /\ Len(file'[q]) = 0
        BY <1>5, <3>3
      <4> QED BY <4>1 DEF at
    <3> QED BY <3>1, <3>2, <3>3
  <2>6. RelativeInv(Q)'
    <3> SUFFICES ASSUME NEW q \in Pids, NEW i \in 1..Len(file'[q]), Steady(Q, q, i - 1)',
                        file'[q][i].call = "relative"
                 PROVE  at(q, i)' = Below[at(q, i - 1)']
      BY DEF RelativeInv
    <3>1. CASE i \in 1..Len(file[q])
      <4>1. q \in live
        BY <1>5, <3>1
      <4>2. i - 1 \in 0..Len(file[q]) /\ i \in 0..Len(file[q])
        BY <1>1, <3>1
      <4>3. Steady(Q, q, i - 1) /\ file[q][i].call = "relative"
        BY <1>1, <2>2, <3>1, <4>2
      <4>4. at(q, i) = Below[at(q, i - 1)]
        BY <2>3, <3>1, <4>3 DEF RelativeInv
      <4>5. at(q, i)' = at(q, i) /\ at(q, i - 1)' = at(q, i - 1)
        BY <1>3, <4>1, <4>2
      <4> QED BY <4>4, <4>5
    <3>2. CASE q = p /\ i = n + 1
      <4>1. Steady(Q, p, n)'
        BY <1>4, <3>2
      <4>2. n \in 0..Len(file[p])
        BY <1>2
      <4>3. Steady(Q, p, n)
        BY <1>0, <2>2, <4>1, <4>2
      <4>4. at(p, n)' = at(p, n)
        BY <1>3, <4>2
      <4>5. l.call = "relative"
        BY <1>1, <3>2
      <4>6. l.at = Below[at(p, n)']
        BY <2>4, <4>3, <4>4, <4>5
      <4>7. at(q, i - 1)' = at(p, n)' /\ at(q, i)' = l.at
        BY <1>4, <3>2
      <4> QED BY <4>6, <4>7
    <3> QED BY <1>1, <3>1, <3>2
  <2>7. StaysInv(Q)'
    <3> SUFFICES ASSUME NEW q \in Pids, NEW j \in 0..Len(file'[q]), NEW i \in 0..j,
                        Steady(Q, q, j)', \A k \in (i + 1)..j : file'[q][k].call \notin Mutations
                 PROVE  at(q, i)' = at(q, j)'
      BY DEF StaysInv
    <3>1. CASE j \in 0..Len(file[q]) /\ q \in live
      <4>1. Steady(Q, q, j)
        BY <2>2, <3>1
      <4>2. \A k \in (i + 1)..j : k \in 1..Len(file[q])
        BY <1>1, <3>1
      <4>3. \A k \in (i + 1)..j : file[q][k].call \notin Mutations
        BY <1>1, <4>2
      <4>4. at(q, i) = at(q, j)
        BY <2>3, <3>1, <4>1, <4>3 DEF StaysInv
      <4>5. i \in 0..Len(file[q])
        BY <1>1, <3>1
      <4> QED BY <1>3, <3>1, <4>4, <4>5
    <3>2. CASE q \notin live
      <4>1. Len(file'[q]) = 0
        BY <1>5, <3>2
      <4>2. i = j
        BY <4>1
      <4> QED BY <4>2
    <3>3. CASE q = p /\ j = n + 1
      <4>1. CASE i = j
        BY <4>1
      <4>2. CASE i # j
        <5>1. i \in 0..n /\ n \in 0..Len(file[p]) /\ i \in 0..Len(file[p])
          BY <1>2, <3>3, <4>2
        <5>2. n + 1 \in (i + 1)..j /\ \A k \in (i + 1)..n : k \in (i + 1)..j /\ k \in 1..Len(file[p])
          BY <1>2, <3>3, <5>1
        <5>3. l.call \notin Mutations
          BY <1>1, <3>3, <5>2
        <5>4. \A k \in (i + 1)..n : file[p][k].call \notin Mutations
          BY <1>0, <1>1, <3>3, <5>2
        <5>5. Steady(Q, p, n)
          BY <2>2, <3>3
        <5>6. at(p, i) = at(p, n) /\ at(p, n) = l.at
          BY <1>0, <2>3, <2>4, <5>1, <5>3, <5>4, <5>5 DEF StaysInv
        <5>7. at(p, i)' = at(p, i)
          BY <1>3, <5>1
        <5> QED BY <1>4, <3>3, <5>6, <5>7
      <4> QED BY <4>1, <4>2
    <3>4. q = p /\ j \notin 0..Len(file[q]) => j = n + 1
      BY <1>1, <1>2
    <3>5. q # p => j \in 0..Len(file[q])
      BY <1>1
    <3> QED BY <3>1, <3>2, <3>3, <3>4, <3>5
  <2> QED BY <1>7, <2>5, <2>6, <2>7 DEF KernelQ
<1> QED
  BY <1>6, <1>7 DEF Kernel

\* More sharing keeps two processes alike.
LEMMA LikeStays ==
    ASSUME \A x \in Pids : Shares(x) => Shares(x)',
           NEW Q \in SUBSET Pids, NEW x \in Pids, NEW y \in Pids, Like(Q, x, y)
    PROVE  Like(Q, x, y)'
  BY DEF Like

\* The processes as the files show them.
Trees == live \subseteq Pids /\ cwd \in [Pids -> Dirs] /\ bornIn \in [Pids -> Dirs]
         /\ mates \in [Pids -> SUBSET Pids] /\ file \in [Pids -> Seq(Line)]

LEMMA KernelChdir ==
    ASSUME Trees, Kernel, NEW p \in Pids, NEW call, NEW d \in Dirs, Chdir(p, call, d)
    PROVE  Kernel'
<1>1. Calling(p, call, d, p, d) /\ call \in Mutations /\ (call = "relative" => d = Below[cwd[p]])
      /\ cwd' = [q \in Pids |-> IF q \in mates[p] THEN d ELSE cwd[q]]
      /\ live' = live /\ bornIn' = bornIn /\ mates' = mates
  BY DEF Chdir
<1>2. PICK l \in Line :
        /\ p \in live /\ file' = [file EXCEPT ![p] = Append(@, l)]
        /\ l.call = call /\ l.dir = d /\ l.child = p /\ l.at = d
  <2>1. Calling(p, call, d, p, d) /\ file \in [Pids -> Seq(Line)]
    BY <1>1 DEF Trees
  <2>2. p \in live /\ file' = [file EXCEPT ![p] = Append(@, [call |-> call, dir |-> d, child |-> p, at |-> d])]
    BY <2>1 DEF Calling
  <2>3. [call |-> call, dir |-> d, child |-> p, at |-> d] \in Line
    BY <2>1, CallingStep
  <2> QED BY <2>2, <2>3
<1>s. /\ \A x \in Pids : Shares(x) => Shares(x)'
      /\ \A Q \in SUBSET Pids : Still(Q)' => Still(Q)
  <2>1. file \in [Pids -> Seq(Line)]
    BY DEF Trees
  <2> QED BY <1>2, <2>1, AddedShares
<1>3. /\ file \in [Pids -> Seq(Line)] /\ live \subseteq Pids
      /\ Grouped /\ Living /\ p \in mates[p]
  BY DEF Trees, Kernel, KernelInv, Grouped
<1>4. call # "clone" /\ call # "clone_fs" /\ call \notin Clones
  BY <1>1 DEF Mutations, Clones
<1>5. /\ cwd'[p] = l.at
      /\ \A q \in live : q # p /\ (l.call \notin Mutations \/ q \notin mates[p]) => cwd'[q] = cwd[q]
  BY <1>1, <1>2, <1>3
<1>6. \A q \in Pids \ live : cwd'[q] = bornIn'[q]
  <2>1. \A q \in Pids \ live : mates[q] = {q} /\ cwd[q] = bornIn[q]
    BY <1>3 DEF Living
  <2>2. \A q \in Pids \ live : q \notin mates[p]
    BY <1>2, <1>3, <2>1 DEF Grouped
  <2> QED BY <1>1, <2>1, <2>2
<1>7. Grouped' /\ \A q \in Pids \ live' : mates'[q] = {q}
  BY <1>1, <1>3 DEF Grouped, Living
<1>8. \A Q \in SUBSET Pids : Still(Q)' => MatesInv(Q)'
  <2> SUFFICES ASSUME NEW Q \in SUBSET Pids, Still(Q)', NEW x \in Pids, NEW y \in mates'[x]
               PROVE  Like(Q, x, y)'
    BY DEF MatesInv
  <2>1. MatesInv(Q) /\ y \in mates[x] /\ y \in Pids
    BY <1>1, <1>s DEF Trees, Kernel, KernelQ
  <2> QED BY <1>s, <2>1, LikeStays DEF MatesInv
<1>9. /\ \A q \in live : bornIn'[q] = bornIn[q]
      /\ live \subseteq live' /\ live' \subseteq Pids
      /\ l.call \in Mutations /\ l.call \notin Clones
      /\ l.call = "relative" => l.at = Below[cwd[p]]
      /\ l.call = "chdir" => l.at = l.dir
  BY <1>1, <1>2, <1>3, <1>4
<1> QED
  BY <1>2, <1>3, <1>5, <1>6, <1>7, <1>8, <1>9, KernelLines

LEMMA KernelClone ==
    ASSUME Trees, Kernel, NEW p \in Pids, NEW call, NEW c \in Pids, Clone(p, call, c)
    PROVE  Kernel'
<1> DEFINE group == mates[p] \cup {c}
<1>1. /\ Calling(p, call, cwd[p], c, cwd[p]) /\ call \in Clones /\ c \notin live
      /\ live' = live \cup {c} /\ cwd' = [cwd EXCEPT ![c] = cwd[p]]
      /\ bornIn' = [bornIn EXCEPT ![c] = cwd[p]]
      /\ mates' = [q \in Pids |-> IF call = "clone_fs" /\ q \in group THEN group ELSE mates[q]]
  BY DEF Clone
<1>2. PICK l \in Line :
        /\ p \in live /\ file' = [file EXCEPT ![p] = Append(@, l)]
        /\ l.call = call /\ l.dir = cwd[p] /\ l.child = c /\ l.at = cwd[p]
  <2>1. Calling(p, call, cwd[p], c, cwd[p]) /\ file \in [Pids -> Seq(Line)] /\ cwd[p] \in Dirs
    BY <1>1 DEF Trees
  <2>2. p \in live /\ file' = [file EXCEPT ![p] = Append(@, [call |-> call, dir |-> cwd[p], child |-> c, at |-> cwd[p]])]
    BY <2>1 DEF Calling
  <2>3. [call |-> call, dir |-> cwd[p], child |-> c, at |-> cwd[p]] \in Line
    BY <2>1, CallingStep
  <2> QED BY <2>2, <2>3
<1>s. /\ \A x \in Pids : Shares(x) => Shares(x)'
      /\ \A Q \in SUBSET Pids : Still(Q)' =>
           /\ Still(Q)
           /\ l.call \in Clones /\ l.child \in Q => p \in Q
           /\ l.call = "clone_fs" /\ p \in Q => l.child \in Q
      /\ l.call = "clone_fs" => Shares(p)' /\ Shares(l.child)'
  <2>1. file \in [Pids -> Seq(Line)]
    BY DEF Trees
  <2> QED BY <1>2, <2>1, AddedShares
<1>3. /\ file \in [Pids -> Seq(Line)] /\ live \subseteq Pids /\ cwd \in [Pids -> Dirs]
      /\ bornIn \in [Pids -> Dirs] /\ mates \in [Pids -> SUBSET Pids]
      /\ Grouped /\ Living /\ p \in mates[p]
  BY DEF Trees, Kernel, KernelInv, Grouped
<1>4. call \notin Mutations /\ call # "relative" /\ call # "chdir" /\ c # p
  BY <1>1, <1>2 DEF Mutations, Clones
<1>5. /\ cwd'[p] = l.at /\ cwd'[c] = cwd[p] /\ bornIn'[c] = cwd[p] /\ live' \subseteq Pids
      /\ \A q \in Pids : q # c => cwd'[q] = cwd[q] /\ bornIn'[q] = bornIn[q]
  BY <1>1, <1>2, <1>3, <1>4
<1>6. \A q \in Pids \ live : cwd'[q] = bornIn'[q]
  BY <1>3, <1>5 DEF Living
<1>7. \A q \in Pids \ live : mates[q] = {q} /\ q \notin mates[p]
  BY <1>2, <1>3 DEF Grouped, Living
<1>8. Grouped'
  <2> SUFFICES ASSUME NEW q \in Pids
               PROVE  q \in mates'[q] /\ \A x \in mates'[q] : mates'[x] = mates'[q]
    BY DEF Grouped
  <2>1. CASE call = "clone_fs" /\ q \in group
    <3>1. mates'[q] = group /\ \A x \in group : x \in Pids /\ mates'[x] = group
      BY <1>1, <1>3, <2>1
    <3> QED BY <2>1, <3>1
  <2>2. CASE ~(call = "clone_fs" /\ q \in group)
    <3>1. mates'[q] = mates[q] /\ q \in mates[q] /\ \A x \in mates[q] : x \in Pids /\ mates[x] = mates[q]
      BY <1>1, <1>3, <2>2 DEF Grouped
    <3>2. \A x \in mates[q] : ~(call = "clone_fs" /\ x \in group)
      <4> SUFFICES ASSUME NEW x \in mates[q], call = "clone_fs", x \in group PROVE FALSE
        OBVIOUS
      <4>1. CASE x \in mates[p]
        <5>1. mates[x] = mates[p]
          BY <1>3, <4>1 DEF Grouped
        <5> QED BY <2>2, <3>1, <5>1
      <4>2. CASE x = c
        BY <1>1, <1>7, <2>2, <3>1, <4>2
      <4> QED BY <4>1, <4>2
    <3> QED BY <1>1, <3>1, <3>2
  <2> QED BY <2>1, <2>2
<1>9. \A q \in Pids \ live' : mates'[q] = {q}
  BY <1>1, <1>7
<1>10. \A Q \in SUBSET Pids : Still(Q)' => MatesInv(Q)'
  <2> SUFFICES ASSUME NEW Q \in SUBSET Pids, Still(Q)', NEW x \in Pids, NEW y \in mates'[x]
               PROVE  Like(Q, x, y)'
    BY DEF MatesInv
  <2>1. MatesInv(Q)
    BY <1>s DEF Kernel, KernelQ
  <2>2. CASE call = "clone_fs" /\ x \in group
    <3>1. y \in group /\ \A z \in group : z \in Pids
      BY <1>1, <1>3, <2>2
    <3>2. \A z \in mates[p] : Like(Q, p, z)'
      BY <1>s, <1>3, <2>1, LikeStays DEF MatesInv
    <3>3. Like(Q, p, c)'
      <4>1. l.call = "clone_fs" /\ l.child = c /\ "clone_fs" \in Clones
        BY <1>2, <2>2 DEF Clones
      <4>2. (p \in Q <=> c \in Q) /\ Shares(p)' /\ Shares(l.child)'
        BY <1>s, <4>1
      <4>3. Shares(c)'
        BY <4>1, <4>2
      <4> QED BY <4>2, <4>3 DEF Like
    <3>4. Like(Q, p, x)' /\ Like(Q, p, y)'
      BY <2>2, <3>1, <3>2, <3>3
    <3> QED BY <3>4 DEF Like
  <2>3. CASE ~(call = "clone_fs" /\ x \in group)
    <3>1. y \in mates[x] /\ y \in Pids
      BY <1>1, <1>3, <2>3
    <3> QED BY <1>s, <2>1, <3>1, LikeStays DEF MatesInv
  <2> QED BY <2>2, <2>3
<1>11. /\ \A q \in live : bornIn'[q] = bornIn[q]
       /\ \A q \in live : q # p /\ (l.call \notin Mutations \/ q \notin mates[p]) => cwd'[q] = cwd[q]
       /\ live \subseteq live' /\ (l.call \in Clones => l.child \in live' \ live /\ bornIn'[l.child] = l.at)
       /\ l.call \notin Mutations /\ l.call # "relative" /\ l.call # "chdir"
  BY <1>1, <1>2, <1>3, <1>4, <1>5
<1> QED
  BY <1>2, <1>3, <1>5, <1>6, <1>8, <1>9, <1>10, <1>11, KernelLines

\* An unshare, an open or an exec.
LEMMA KernelOther ==
    ASSUME Trees, Kernel, NEW p \in Pids, NEW call,
           Calling(p, call, cwd[p], p, cwd[p]), call \notin Mutations \cup Clones,
           live' = live, cwd' = cwd, bornIn' = bornIn,
           \/ mates' = mates
           \/ mates' = [q \in Pids |-> IF q = p THEN {p} ELSE mates[q] \ {p}]
    PROVE  Kernel'
<1>2. PICK l \in Line :
        /\ p \in live /\ file' = [file EXCEPT ![p] = Append(@, l)]
        /\ l.call = call /\ l.dir = cwd[p] /\ l.child = p /\ l.at = cwd[p]
  <2>1. Calling(p, call, cwd[p], p, cwd[p]) /\ file \in [Pids -> Seq(Line)] /\ cwd[p] \in Dirs
    BY DEF Trees
  <2>2. p \in live /\ file' = [file EXCEPT ![p] = Append(@, [call |-> call, dir |-> cwd[p], child |-> p, at |-> cwd[p]])]
    BY <2>1 DEF Calling
  <2>3. [call |-> call, dir |-> cwd[p], child |-> p, at |-> cwd[p]] \in Line
    BY <2>1, CallingStep
  <2> QED BY <2>2, <2>3
<1>s. /\ \A x \in Pids : Shares(x) => Shares(x)'
      /\ \A Q \in SUBSET Pids : Still(Q)' => Still(Q)
  <2>1. file \in [Pids -> Seq(Line)]
    BY DEF Trees
  <2> QED BY <1>2, <2>1, AddedShares
<1>3. /\ file \in [Pids -> Seq(Line)] /\ live \subseteq Pids /\ cwd \in [Pids -> Dirs]
      /\ mates \in [Pids -> SUBSET Pids] /\ Grouped /\ Living
  BY DEF Trees, Kernel, KernelInv
<1>4. l.call \notin Mutations /\ l.call # "relative" /\ l.call # "chdir" /\ l.call \notin Clones
  BY <1>2 DEF Mutations, Clones
<1>5. \A q \in Pids : /\ mates'[q] \subseteq mates[q]
                      /\ \/ mates'[q] = mates[q]
                         \/ mates'[q] = IF q = p THEN {p} ELSE mates[q] \ {p}
  <2>1. \A q \in Pids : q \in mates[q]
    BY <1>3 DEF Grouped
  <2>2. CASE mates' = mates
    BY <2>2
  <2>3. CASE mates' = [q \in Pids |-> IF q = p THEN {p} ELSE mates[q] \ {p}]
    BY <2>1, <2>3
  <2> QED BY <2>2, <2>3
<1>6. Grouped'
  <2>1. CASE mates' = mates
    BY <1>3, <2>1 DEF Grouped
  <2>2. CASE mates' = [q \in Pids |-> IF q = p THEN {p} ELSE mates[q] \ {p}]
    <3> SUFFICES ASSUME NEW q \in Pids
                 PROVE  q \in mates'[q] /\ \A x \in mates'[q] : mates'[x] = mates'[q]
      BY DEF Grouped
    <3>1. q \in mates[q] /\ \A x \in mates[q] : x \in Pids /\ mates[x] = mates[q]
      BY <1>3 DEF Grouped
    <3> QED BY <2>2, <3>1
  <2> QED BY <2>1, <2>2
<1>7. \A q \in Pids \ live' : mates'[q] = {q}
  <2>1. \A q \in Pids \ live : mates[q] = {q} /\ q # p
    BY <1>2, <1>3 DEF Living
  <2> QED BY <1>5, <2>1
<1>8. \A Q \in SUBSET Pids : Still(Q)' => MatesInv(Q)'
  <2> SUFFICES ASSUME NEW Q \in SUBSET Pids, Still(Q)', NEW x \in Pids, NEW y \in mates'[x]
               PROVE  Like(Q, x, y)'
    BY DEF MatesInv
  <2>1. MatesInv(Q) /\ y \in mates[x] /\ y \in Pids
    BY <1>s, <1>3, <1>5 DEF Kernel, KernelQ
  <2> QED BY <1>s, <2>1, LikeStays DEF MatesInv
<1>9. /\ \A q \in live : bornIn'[q] = bornIn[q]
      /\ \A q \in live : q # p /\ (l.call \notin Mutations \/ q \notin mates[p]) => cwd'[q] = cwd[q]
      /\ \A q \in Pids \ live : cwd'[q] = bornIn'[q]
      /\ live \subseteq live' /\ live' \subseteq Pids /\ cwd'[p] = l.at
  BY <1>2, <1>3 DEF Living
<1> QED
  BY <1>2, <1>3, <1>4, <1>6, <1>7, <1>8, <1>9, KernelLines

LEMMA KernelKeeps ==
    ASSUME Trees, Kernel, KernelNext
    PROVE  Kernel'
<1>1. ASSUME NEW p \in Pids, NEW call \in Mutations, NEW d \in Dirs, Chdir(p, call, d)
      PROVE  Kernel'
  BY <1>1, KernelChdir
<1>2. ASSUME NEW p \in Pids, NEW call \in Clones, NEW c \in Pids, Clone(p, call, c)
      PROVE  Kernel'
  BY <1>2, KernelClone
<1>3. ASSUME NEW p \in Pids, Unshare(p)
      PROVE  Kernel'
  <2>1. "unshare" \notin Mutations \cup Clones
    BY DEF Mutations, Clones
  <2> QED BY <1>3, <2>1, KernelOther DEF Unshare
<1>4. ASSUME NEW p \in Pids, NEW call \in {"open", "exec"}, Other(p, call)
      PROVE  Kernel'
  <2>1. call \notin Mutations \cup Clones
    BY DEF Mutations, Clones
  <2> QED BY <1>4, <2>1, KernelOther DEF Other
<1> QED
  BY <1>1, <1>2, <1>3, <1>4 DEF KernelNext

\* What a line taken leaves behind.
LinesRead ==
    \A p \in Pids : \A i \in 1..taken[p] :
        LET l == file[p][i]
        IN /\ l.call \in Mutations => firstCwdMutationTs[p] \in 1..i /\ i <= lastCwdMutationTs[p]
           /\ l.call \in Clones => childParent[l.child] = p /\ childSeedCloneTs[l.child] = i
           /\ l.call = "clone_fs" =>
                /\ p \in everCwdShared /\ l.child \in everCwdShared
                /\ <<p, l.child>> \in cloneFsEdges /\ <<l.child, p>> \in cloneFsEdges

\* A change of directory was noted when its line was taken.
TimesRead ==
    \A p \in Pids :
        /\ firstCwdMutationTs[p] <= taken[p] /\ lastCwdMutationTs[p] <= taken[p]
        /\ firstCwdMutationTs[p] # 0 => file[p][firstCwdMutationTs[p]].call \in Mutations

\* A parent is known from the line that cloned its child.
ParentsRead ==
    \A c \in Pids : childParent[c] # c =>
        /\ childSeedCloneTs[c] \in 1..taken[childParent[c]]
        /\ file[childParent[c]][childSeedCloneTs[c]].call \in Clones
        /\ file[childParent[c]][childSeedCloneTs[c]].child = c

\* A directory is only set aside by an unshare.
DetachedRead ==
    \A p \in Pids : pendingCwdDetach[p] # None => \E i \in 1..Len(file[p]) : file[p][i].call = "unshare"

\* A parked open not shared when it was read comes before p's own sharing clones; a stamped
\* one knows its parent and the kind of its clone.
ParkedRead ==
    \A o \in deferredRelOpens :
        /\ o.ts \in 1..taken[o.pid]
        /\ ~o.sharedAtRead => \A j \in 1..o.ts : file[o.pid][j].call # "clone_fs"
        /\ o.stamped =>
             /\ childParent[o.pid] = o.seedParentPid /\ o.seedParentPid # o.pid
             /\ ~o.cloneFsSeed => file[o.seedParentPid][childSeedCloneTs[o.pid]].call = "clone"

\* No line is left when the parked opens are replayed.
ReplayRead ==
    /\ \A p \in Pids : taken[p] <= Len(file[p])
    /\ \A e \in emitted : e.replay => replayed
    /\ replayed => ~running /\ \A p \in Pids : taken[p] = Len(file[p])

ReadInv == LinesRead /\ TimesRead /\ ParentsRead /\ DetachedRead /\ ParkedRead /\ ReplayRead

\* Joined directories are those of processes that share.
JoinedInv(Q) == \A x \in Pids : Like(Q, x, up[x]) /\ (x \in Q => bornIn[up[x]] = bornIn[x])

\* In Q a tracked directory is the true one, ...
DirInv(Q) == \A q \in Q : pidCwd[q] # None => pidCwd[q] = now(q)

\* ... one that moved and whose clone was not seen yet keeps it, or is known to have lost it, ...
LostInv(Q) ==
    \A q \in Q : firstCwdMutationTs[q] # 0 /\ childParent[q] = q /\ pidCwd[q] = None
                   => q \in pidCwdUnknown /\ Only(Calls \ {"unshare"})

\* ... and the directory a process was cloned with is the one it was born in.
SeedInv(Q) ==
    /\ \A q \in Q : pidCloneTimeCwd[q] # None => pidCloneTimeCwd[q] = bornIn[q]
    /\ \A o \in deferredRelOpens :
         o.stamped /\ o.seedParentPid \in Q /\ o.initialCwd # None => o.initialCwd = bornIn[o.pid]

ReadQ(Q) == JoinedInv(Q) /\ DirInv(Q) /\ LostInv(Q) /\ SeedInv(Q)

\* Whatever the processes share, what the dispatcher knows of a set that is still is true.
SharedInv ==
    /\ TypeOK /\ Forest(up)
    /\ Kernel /\ Unread /\ ReadInv
    /\ Visible => \A Q \in SUBSET Pids : Still(Q) => ReadQ(Q)

LEMMA OwnForest == Forest([p \in Pids |-> p])
<1> SUFFICES ASSUME NEW S \in SUBSET Pids, S # {}
             PROVE  \E r \in S : [p \in Pids |-> p][r] = r
  BY DEF Forest
<1> QED
  OBVIOUS

\* Before any line is taken nothing untrue is known.
LEMMA UnreadTrue ==
    running /\ TypeOK /\ Kernel /\ Unread => SharedInv
<1> SUFFICES ASSUME running, TypeOK, Kernel, Unread
             PROVE  SharedInv
  OBVIOUS
<1>1. /\ taken = [p \in Pids |-> 0] /\ deferredRelOpens = {} /\ emitted = {}
      /\ childParent = [p \in Pids |-> p]
      /\ firstCwdMutationTs = [p \in Pids |-> 0] /\ lastCwdMutationTs = [p \in Pids |-> 0]
      /\ \A p \in Pids : /\ pidCwd[p] # None => p = Root /\ pidCwd[p] = WorkDir
                         /\ pidCloneTimeCwd[p] # None => p = Root /\ pidCloneTimeCwd[p] = WorkDir
      /\ up = [p \in Pids |-> p] /\ pendingCwdDetach = [p \in Pids |-> None] /\ ~replayed
  BY DEF Unread, FreshInv
<1>2. Forest(up)
  BY <1>1, OwnForest
<1>3. bornIn[Root] = WorkDir /\ \A p \in Pids : now(p) = bornIn[p] /\ up[p] = p
  BY <1>1 DEF Kernel, KernelInv, Living, now, at
<1>4. ReadInv
  <2>1. \A p \in Pids : taken[p] = 0 /\ 1..taken[p] = {} /\ Len(file[p]) \in Nat
    BY <1>1 DEF TypeOK
  <2>2. LinesRead
    BY <2>1 DEF LinesRead
  <2>3. ParentsRead /\ DetachedRead /\ ParkedRead
    BY <1>1 DEF ParentsRead, DetachedRead, ParkedRead
  <2>4. ReplayRead /\ TimesRead
    BY <1>1, <2>1 DEF ReplayRead, TimesRead
  <2> QED BY <2>2, <2>3, <2>4 DEF ReadInv
<1>5. \A Q \in SUBSET Pids : ReadQ(Q)
  <2> SUFFICES ASSUME NEW Q \in SUBSET Pids PROVE ReadQ(Q)
    OBVIOUS
  <2>1. JoinedInv(Q)
    BY <1>3 DEF JoinedInv, Like
  <2>2. DirInv(Q) /\ LostInv(Q) /\ SeedInv(Q)
    BY <1>1, <1>3 DEF DirInv, LostInv, SeedInv
  <2> QED BY <2>1, <2>2 DEF ReadQ
<1> QED
  BY <1>2, <1>4, <1>5 DEF SharedInv

LEMMA InitShared == Init => SharedInv
<1> SUFFICES ASSUME Init PROVE SharedInv
  OBVIOUS
<1>1. Tracked /\ TypeOK /\ FreshInv
  BY InitTracked DEF Tracked
<1>2. /\ running /\ live = {Root} /\ bornIn = cwd /\ cwd[Root] = WorkDir
      /\ \A p \in Pids : mates[p] = {p} /\ file[p] = <<>> /\ Len(file[p]) = 0
      /\ up = [p \in Pids |-> p] /\ pendingCwdDetach = [p \in Pids |-> None] /\ ~replayed
  BY RootAssumption DEF Init
<1>3. Unread
  BY <1>1, <1>2 DEF Unread
<1>4. KernelInv
  BY <1>2 DEF KernelInv, Living, Grouped, Shown, OneBirth
<1>5. \A Q \in SUBSET Pids : KernelQ(Q)
  <2> SUFFICES ASSUME NEW Q \in SUBSET Pids PROVE KernelQ(Q)
    OBVIOUS
  <2>1. MatesInv(Q) /\ WhereInv(Q) /\ RelativeInv(Q)
    BY <1>2 DEF MatesInv, WhereInv, RelativeInv, Like, at
  <2>2. StaysInv(Q)
    <3>1. \A p \in Pids : \A j \in 0..Len(file[p]) : j = 0
      BY <1>2
    <3>2. \A p \in Pids : \A j \in 0..Len(file[p]) : \A i \in 0..j : i = j
      BY <3>1
    <3> QED BY <3>2 DEF StaysInv
  <2> QED BY <2>1, <2>2 DEF KernelQ
<1> QED
  BY <1>1, <1>2, <1>3, <1>4, <1>5, UnreadTrue DEF Kernel

\* A call of the tree touches nothing of the dispatcher's.
LEMMA CallType ==
    ASSUME TypeOK, Unread, NEW p \in Pids, NEW call, NEW d \in Dirs, NEW c \in Pids, NEW q \in Dirs,
           Calling(p, call, d, c, q), live' \subseteq Pids, cwd' \in [Pids -> Dirs],
           bornIn' \in [Pids -> Dirs], mates' \in [Pids -> SUBSET Pids]
    PROVE  TypeOK' /\ Unread' /\ running'
<1>1. file' \in [Pids -> Seq(Line)] /\ running' /\ running
  BY CallingStep DEF TypeOK
<1>2. calls' \in 0..MaxCalls
  BY CallsAssumption DEF Calling, TypeOK
<1>3. UNCHANGED <<running, taken, rootKnown, groupVars, cloneVars, mutVars, execVars, openVars,
                  replayed>>
  BY DEF Calling
<1>4. TypeOK'
  BY <1>1, <1>2, <1>3 DEF TypeOK, groupVars, cloneVars, mutVars, execVars, openVars
<1>5. Unread'
  BY <1>1, <1>3 DEF Unread, FreshInv, groupVars, cloneVars, mutVars, execVars, openVars
<1> QED
  BY <1>1, <1>4, <1>5

LEMMA CallsType ==
    ASSUME TypeOK, Unread, KernelNext
    PROVE  TypeOK' /\ Unread' /\ running'
<1>0. /\ live \subseteq Pids /\ cwd \in [Pids -> Dirs] /\ bornIn \in [Pids -> Dirs]
      /\ mates \in [Pids -> SUBSET Pids]
  BY DEF TypeOK
<1>1. ASSUME NEW p \in Pids, NEW call \in Mutations, NEW d \in Dirs, Chdir(p, call, d)
      PROVE  TypeOK' /\ Unread' /\ running'
  <2>1. cwd' \in [Pids -> Dirs] /\ live' = live /\ bornIn' = bornIn /\ mates' = mates
        /\ Calling(p, call, d, p, d)
    BY <1>0, <1>1 DEF Chdir
  <2> QED BY <1>0, <2>1, CallType
<1>2. ASSUME NEW p \in Pids, NEW call \in Clones, NEW c \in Pids, Clone(p, call, c)
      PROVE  TypeOK' /\ Unread' /\ running'
  <2>1. live' \subseteq Pids /\ cwd' \in [Pids -> Dirs] /\ bornIn' \in [Pids -> Dirs]
    BY <1>0, <1>2 DEF Clone
  <2>2. mates' \in [Pids -> SUBSET Pids]
    <3>1. mates[p] \cup {c} \in SUBSET Pids
      BY <1>0
    <3> QED BY <1>0, <1>2, <3>1 DEF Clone
  <2>3. Calling(p, call, cwd[p], c, cwd[p]) /\ cwd[p] \in Dirs
    BY <1>0, <1>2 DEF Clone
  <2> QED BY <2>1, <2>2, <2>3, CallType
<1>3. ASSUME NEW p \in Pids, Unshare(p)
      PROVE  TypeOK' /\ Unread' /\ running'
  <2>1. live' = live /\ cwd' = cwd /\ bornIn' = bornIn /\ mates' \in [Pids -> SUBSET Pids]
        /\ Calling(p, "unshare", cwd[p], p, cwd[p]) /\ cwd[p] \in Dirs
    BY <1>0, <1>3 DEF Unshare
  <2> QED BY <1>0, <2>1, CallType
<1>4. ASSUME NEW p \in Pids, NEW call \in {"open", "exec"}, Other(p, call)
      PROVE  TypeOK' /\ Unread' /\ running'
  <2>1. live' = live /\ cwd' = cwd /\ bornIn' = bornIn /\ mates' = mates
        /\ Calling(p, call, cwd[p], p, cwd[p]) /\ cwd[p] \in Dirs
    BY <1>0, <1>4 DEF Other
  <2> QED BY <1>0, <2>1, CallType
<1> QED
  BY <1>1, <1>2, <1>3, <1>4 DEF KernelNext

LEMMA SharedCalls ==
    ASSUME SharedInv, KernelNext
    PROVE  SharedInv'
<1>1. TypeOK' /\ Unread' /\ running'
  BY CallsType DEF SharedInv
<1>2. Kernel'
  BY KernelKeeps DEF SharedInv, Trees, TypeOK
<1> QED
  BY <1>1, <1>2, UnreadTrue, PTL

\* What is said of the processes reads nothing but these.
LEMMA SameTree ==
    ASSUME live' = live, cwd' = cwd, bornIn' = bornIn, mates' = mates, file' = file
    PROVE  /\ Kernel => Kernel'
           /\ Visible' = Visible
           /\ \A Q \in SUBSET Pids : Still(Q)' = Still(Q)
           /\ \A Q \in SUBSET Pids : KernelQ(Q) => KernelQ(Q)'
           /\ \A x \in Pids : Shares(x)' = Shares(x)
<1>1. \A x \in Pids : Shares(x)' = Shares(x)
  BY DEF Shares
<1>2. \A Q \in SUBSET Pids : Still(Q)' = Still(Q)
  BY DEF Still, Shares
<1>3. Visible' = Visible
  BY DEF Visible, Only
<1>4. KernelInv => KernelInv'
  <2>1. Living => Living'
    BY DEF Living
  <2>2. Grouped => Grouped'
    BY DEF Grouped
  <2>3. Shown => Shown'
    BY DEF Shown
  <2>4. OneBirth => OneBirth'
    BY DEF OneBirth
  <2> QED BY <2>1, <2>2, <2>3, <2>4 DEF KernelInv
<1>5. \A Q \in SUBSET Pids : KernelQ(Q) => KernelQ(Q)'
  <2> SUFFICES ASSUME NEW Q \in SUBSET Pids, KernelQ(Q) PROVE KernelQ(Q)'
    OBVIOUS
  <2>1. MatesInv(Q) => MatesInv(Q)'
    BY DEF MatesInv, Like, Shares
  <2>2. WhereInv(Q) => WhereInv(Q)'
    BY DEF WhereInv, Steady, Apart, at
  <2>3. RelativeInv(Q) => RelativeInv(Q)'
    BY DEF RelativeInv, Steady, Apart, at
  <2>4. StaysInv(Q) => StaysInv(Q)'
    BY DEF StaysInv, Steady, Apart, at
  <2> QED BY <2>1, <2>2, <2>3, <2>4 DEF KernelQ
<1>6. Kernel => Kernel'
  BY <1>2, <1>4, <1>5 DEF Kernel
<1> QED
  BY <1>1, <1>2, <1>3, <1>5, <1>6

LEMMA SharedEnds ==
    ASSUME SharedInv, TreeDone
    PROVE  SharedInv'
<1>1. /\ live' = live /\ cwd' = cwd /\ bornIn' = bornIn /\ mates' = mates /\ file' = file
      /\ taken' = taken /\ up' = up /\ pidCwd' = pidCwd /\ pidCwdUnknown' = pidCwdUnknown
      /\ pendingCwdDetach' = pendingCwdDetach /\ everCwdShared' = everCwdShared
      /\ cloneFsEdges' = cloneFsEdges /\ childParent' = childParent
      /\ pidCloneTimeCwd' = pidCloneTimeCwd /\ childSeedCloneTs' = childSeedCloneTs
      /\ firstCwdMutationTs' = firstCwdMutationTs /\ lastCwdMutationTs' = lastCwdMutationTs
      /\ deferredRelOpens' = deferredRelOpens /\ emitted' = emitted /\ replayed' = replayed
      /\ ~running' /\ running
  BY DEF TreeDone, groupVars, cloneVars, mutVars, openVars
<1>2. TypeOK' /\ Forest(up)'
  BY DEF SharedInv, TypeOK, Forest, TreeDone, groupVars, cloneVars, mutVars, execVars, openVars
<1>3. Kernel' /\ Unread' /\ Visible' = Visible
  BY <1>1, SameTree DEF SharedInv, Unread, FreshInv
<1>4. ReadInv'
  <2>1. /\ LinesRead /\ TimesRead /\ ParentsRead /\ DetachedRead /\ ParkedRead /\ ReplayRead
        /\ ~replayed
    BY <1>1 DEF SharedInv, ReadInv, Unread
  <2>2. LinesRead' /\ TimesRead' /\ ParentsRead'
    BY <1>1, <2>1 DEF LinesRead, TimesRead, ParentsRead
  <2>3. DetachedRead' /\ ParkedRead' /\ ReplayRead'
    BY <1>1, <2>1 DEF DetachedRead, ParkedRead, ReplayRead
  <2> QED BY <2>2, <2>3 DEF ReadInv
<1>5. ASSUME Visible', NEW Q \in SUBSET Pids, Still(Q)'
      PROVE  ReadQ(Q)'
  <2>1. ReadQ(Q)
    BY <1>1, <1>5, SameTree DEF SharedInv
  <2>2. JoinedInv(Q)' /\ DirInv(Q)'
    BY <1>1, <2>1 DEF ReadQ, JoinedInv, DirInv, Like, Shares, now, at
  <2>3. LostInv(Q)' /\ SeedInv(Q)'
    BY <1>1, <2>1 DEF ReadQ, LostInv, SeedInv, Only
  <2> QED BY <2>2, <2>3 DEF ReadQ
<1> QED
  BY <1>2, <1>3, <1>4, <1>5 DEF SharedInv
-----------------------------------------------------------------------------
(* Lines taken, directories shared.                                        *)

\* A walk that ends, ends at a process that leads to itself.
LEMMA WalkEnds ==
    ASSUME NEW f \in [Pids -> Pids], Forest(f), NEW p \in Pids
    PROVE  /\ findCwdRoot(f, p) \in Along(f, p) /\ findCwdRoot(f, p) \in Pids
           /\ f[findCwdRoot(f, p)] = findCwdRoot(f, p)
<1> DEFINE A == Along(f, p)
<1>1. A \in SUBSET Pids /\ p \in A
  BY DEF Along
<1>2. \A x \in A : f[x] \in A
  <2> SUFFICES ASSUME NEW x \in A PROVE f[x] \in A
    OBVIOUS
  <2>1. x \in Pids /\ f[x] \in Pids
    BY <1>1
  <2>2. \A S \in SUBSET Pids : p \in S /\ (\A y \in S : f[y] \in S) => f[x] \in S
    BY DEF Along
  <2> QED BY <2>1, <2>2 DEF Along
<1>3. \E r \in A : f[r] = r
  BY <1>1, <1>2 DEF Forest
<1>4. findCwdRoot(f, p) \in A /\ f[findCwdRoot(f, p)] = findCwdRoot(f, p)
  BY <1>3 DEF findCwdRoot
<1> QED
  BY <1>1, <1>4

\* To lead some processes to one that leads to itself makes no circle.
LEMMA ForestLed ==
    ASSUME NEW f \in [Pids -> Pids], Forest(f), NEW g \in [Pids -> Pids], NEW r \in Pids,
           NEW X \in SUBSET Pids, \A x \in Pids \ X : g[x] = f[x], \A x \in X : g[x] = r, g[r] = r
    PROVE  Forest(g)
<1> SUFFICES ASSUME NEW S \in SUBSET Pids, S # {}, \A x \in S : g[x] \in S
             PROVE  \E y \in S : g[y] = y
  BY DEF Forest
<1>1. CASE \E x \in S : x \in X
  BY <1>1
<1>2. CASE \A x \in S : x \notin X
  <2>1. \A x \in S : g[x] = f[x]
    BY <1>2
  <2>2. \E y \in S : f[y] = y
    BY <2>1 DEF Forest
  <2> QED BY <2>1, <2>2
<1> QED
  BY <1>1, <1>2

\* The same of one process.
LEMMA ForestOne ==
    ASSUME NEW f \in [Pids -> Pids], Forest(f), NEW r \in Pids, NEW x \in Pids,
           r = x \/ f[r] = r
    PROVE  [f EXCEPT ![x] = r] \in [Pids -> Pids] /\ Forest([f EXCEPT ![x] = r])
<1>1. PICK g \in [Pids -> Pids] : g = [f EXCEPT ![x] = r]
  OBVIOUS
<1>2. (\A y \in Pids \ {x} : g[y] = f[y]) /\ g[x] = r /\ g[r] = r
  BY <1>1
<1>3. PICK X \in SUBSET Pids : X = {x}
  OBVIOUS
<1>4. (\A y \in Pids \ X : g[y] = f[y]) /\ \A y \in X : g[y] = r
  BY <1>2, <1>3
<1>5. Forest(g)
  BY <1>2, <1>4, ForestLed
<1> QED
  BY <1>1, <1>5

\* JoinedInv of any links f.
JoinedBy(Q, f) == \A x \in Pids : Like(Q, x, f[x]) /\ (x \in Q => bornIn[f[x]] = bornIn[x])

\* A process is alike, and born in the same place as, all it leads to.
LEMMA WalkAlike ==
    ASSUME NEW Q \in SUBSET Pids, NEW f \in [Pids -> Pids], JoinedBy(Q, f), NEW p \in Pids,
           NEW r \in Along(f, p)
    PROVE  Like(Q, p, r) /\ (p \in Q => bornIn[r] = bornIn[p])
<1> DEFINE S == {x \in Pids : Like(Q, p, x) /\ (p \in Q => bornIn[x] = bornIn[p])}
<1>1. p \in S
  BY DEF Like
<1>2. \A x \in S : f[x] \in S
  <2> SUFFICES ASSUME NEW x \in S PROVE f[x] \in S
    OBVIOUS
  <2>1. x \in Pids /\ f[x] \in Pids /\ Like(Q, x, f[x]) /\ (x \in Q => bornIn[f[x]] = bornIn[x])
    BY DEF JoinedBy
  <2>2. Like(Q, p, f[x])
    BY <2>1 DEF Like
  <2>3. p \in Q => x \in Q
    BY DEF Like
  <2> QED BY <2>1, <2>2, <2>3
<1>3. r \in S
  BY <1>1, <1>2, WalkInside
<1> QED
  BY <1>3

\* In a set that is still, a process that shares never leaves where it was born.
LEMMA StillHome ==
    ASSUME file \in [Pids -> Seq(Line)], Kernel, NEW Q \in SUBSET Pids, Still(Q), NEW x \in Q, Shares(x)
    PROVE  /\ \A i \in 1..Len(file[x]) : file[x][i].call \notin Mutations
           /\ \A i \in 0..Len(file[x]) : at(x, i) = bornIn[x]
<1>1. \A i \in 1..Len(file[x]) : file[x][i].call \notin Mutations
  BY DEF Still
<1>2. StaysInv(Q) /\ x \in Pids /\ Len(file[x]) \in Nat
  BY DEF Kernel, KernelQ
<1>3. ASSUME NEW i \in 0..Len(file[x])
      PROVE  at(x, i) = bornIn[x]
  <2>1. Steady(Q, x, i)
    BY DEF Steady
  <2>2. 0 \in 0..i /\ \A k \in (0 + 1)..i : k \in 1..Len(file[x])
    BY <1>2
  <2>3. at(x, 0) = at(x, i)
    BY <1>1, <1>2, <2>1, <2>2 DEF StaysInv
  <2> QED BY <2>3 DEF at
<1> QED
  BY <1>1, <1>3

\* Processes of Q that are alike and were born in one place are in one place.
LEMMA AlikeNow ==
    ASSUME SharedInv, NEW Q \in SUBSET Pids, Still(Q), NEW x \in Q, NEW y \in Pids,
           Like(Q, x, y), bornIn[y] = bornIn[x]
    PROVE  now(x) = now(y)
<1>1. CASE x = y
  BY <1>1
<1>2. CASE x # y
  <2>1. Shares(x) /\ Shares(y) /\ y \in Q
    BY <1>2 DEF Like
  <2>2. /\ file \in [Pids -> Seq(Line)] /\ Kernel /\ x \in Pids
        /\ \A q \in Pids : taken[q] \in Nat /\ taken[q] <= Len(file[q]) /\ Len(file[q]) \in Nat
    BY DEF SharedInv, TypeOK, ReadInv, ReplayRead
  <2>3. taken[x] \in 0..Len(file[x]) /\ taken[y] \in 0..Len(file[y])
    BY <2>2
  <2>4. at(x, taken[x]) = bornIn[x] /\ at(y, taken[y]) = bornIn[y]
    BY <2>1, <2>2, <2>3, StillHome
  <2> QED BY <2>4 DEF now
<1> QED
  BY <1>1, <1>2

\* The group of a process.
LEMMA GroupOf ==
    ASSUME SharedInv, NEW p \in Pids
    PROVE  /\ rootedCwd(p) \in Pids /\ up[rootedCwd(p)] = rootedCwd(p)
           /\ compressed(p) \in [Pids -> Pids] /\ Forest(compressed(p))
           /\ cwdGet(p) \in Known /\ canonicalCwd(p) \in Known
           /\ canonicalCwd(p) # None => canonicalCwd(p) = cwdGet(p)
           /\ Visible => \A Q \in SUBSET Pids : Still(Q) =>
                /\ Like(Q, p, rootedCwd(p)) /\ (p \in Q => bornIn[rootedCwd(p)] = bornIn[p])
                /\ JoinedBy(Q, compressed(p))
                /\ p \in Q /\ cwdGet(p) # None => cwdGet(p) = now(p)
<1>1. up \in [Pids -> Pids] /\ Forest(up) /\ pidCwd \in [Pids -> Known]
  BY DEF SharedInv, TypeOK
<1>2. /\ rootedCwd(p) \in Along(up, p) /\ rootedCwd(p) \in Pids
      /\ up[rootedCwd(p)] = rootedCwd(p)
  BY <1>1, WalkEnds DEF rootedCwd
<1>3. compressed(p) \in [Pids -> Pids] /\ compressed(p)[p] = rootedCwd(p)
      /\ \A x \in Pids : x # p => compressed(p)[x] = up[x]
  BY <1>1, <1>2 DEF compressed
<1>4. Forest(compressed(p))
  <2>1. Forest([up EXCEPT ![p] = rootedCwd(p)])
    BY <1>1, <1>2, ForestOne
  <2> QED BY <2>1 DEF compressed
<1>5. /\ cwdGet(p) \in Known /\ canonicalCwd(p) \in Known
      /\ canonicalCwd(p) # None => canonicalCwd(p) = cwdGet(p)
  BY <1>1, <1>2 DEF cwdGet, canonicalCwd, Known
<1>6. ASSUME Visible, NEW Q \in SUBSET Pids, Still(Q)
      PROVE  /\ Like(Q, p, rootedCwd(p)) /\ (p \in Q => bornIn[rootedCwd(p)] = bornIn[p])
             /\ JoinedBy(Q, compressed(p))
             /\ p \in Q /\ cwdGet(p) # None => cwdGet(p) = now(p)
  <2>1. ReadQ(Q) /\ JoinedBy(Q, up)
    BY <1>6 DEF SharedInv, ReadQ, JoinedInv, JoinedBy
  <2>2. Like(Q, p, rootedCwd(p)) /\ (p \in Q => bornIn[rootedCwd(p)] = bornIn[p])
    BY <1>1, <1>2, <2>1, WalkAlike
  <2>3. JoinedBy(Q, compressed(p))
    BY <1>3, <2>1, <2>2 DEF JoinedBy
  <2>4. ASSUME p \in Q, cwdGet(p) # None PROVE cwdGet(p) = now(p)
    <3>1. rootedCwd(p) \in Q /\ now(p) = now(rootedCwd(p))
      BY <1>2, <1>6, <2>2, <2>4, AlikeNow DEF Like
    <3> QED BY <2>1, <2>4, <3>1 DEF ReadQ, DirInv, cwdGet
  <2> QED BY <2>2, <2>3, <2>4
<1> QED
  BY <1>2, <1>3, <1>4, <1>5, <1>6

\* The line p is at, and what taking it leaves alone.
LEMMA TakeFacts ==
    ASSUME SharedInv, NEW p \in Pids, NEW these, Take(p, these)
    PROVE  /\ ~running /\ ~running' /\ ~replayed /\ ~replayed'
           /\ lineTs(p) = taken[p] + 1 /\ lineTs(p) \in 1..Len(file[p]) /\ lineTs(p) \in Nat
           /\ Next1(p) = file[p][lineTs(p)] /\ Next1(p).call \in these /\ Next1(p) \in Line
           /\ taken' \in [Pids -> Nat]
           /\ \A q \in Pids : /\ taken'[q] = IF q = p THEN lineTs(p) ELSE taken[q]
                              /\ taken[q] \in Nat /\ taken'[q] \in Nat /\ Len(file[q]) \in Nat
                              /\ taken[q] <= taken'[q] /\ taken'[q] <= Len(file[q])
           /\ file' = file /\ bornIn' = bornIn
           /\ \A q \in Pids, i \in Nat : at(q, i)' = at(q, i)
           /\ at(p, lineTs(p)) = Next1(p).at /\ at(p, lineTs(p) - 1) = now(p)
           /\ \A q \in Pids : now(q)' = IF q = p THEN Next1(p).at ELSE now(q)
           /\ Kernel' /\ Unread' /\ Visible' = Visible
           /\ \A Q \in SUBSET Pids : Still(Q)' = Still(Q)
           /\ \A x \in Pids : Shares(x)' = Shares(x)
<1>1. /\ taken \in [Pids -> Nat] /\ file \in [Pids -> Seq(Line)] /\ Kernel
      /\ \A q \in Pids : taken[q] \in Nat /\ Len(file[q]) \in Nat /\ taken[q] <= Len(file[q])
      /\ replayed => \A q \in Pids : taken[q] = Len(file[q])
  BY DEF SharedInv, TypeOK, ReadInv, ReplayRead
<1>2. /\ ~running /\ lineTs(p) = taken[p] + 1 /\ taken[p] < Len(file[p])
      /\ Next1(p) = file[p][lineTs(p)] /\ Next1(p).call \in these
      /\ taken' = [taken EXCEPT ![p] = lineTs(p)]
      /\ live' = live /\ cwd' = cwd /\ bornIn' = bornIn /\ mates' = mates /\ file' = file
      /\ running' = running /\ replayed' = replayed
  BY <1>1 DEF Take, lineTs, Next1, treeVars
<1>3. ~replayed /\ lineTs(p) \in 1..Len(file[p]) /\ lineTs(p) \in Nat
  BY <1>1, <1>2
<1>4. Next1(p) \in Line
  BY <1>1, <1>2, <1>3
<1>5. /\ taken' \in [Pids -> Nat]
      /\ \A q \in Pids : taken'[q] = IF q = p THEN lineTs(p) ELSE taken[q]
  BY <1>1, <1>2, <1>3
<1>6. \A q \in Pids : taken'[q] \in Nat /\ taken[q] <= taken'[q] /\ taken'[q] <= Len(file[q])
  BY <1>1, <1>2, <1>3, <1>5
<1>7. \A q \in Pids, i \in Nat : at(q, i)' = at(q, i)
  BY <1>2 DEF at
<1>8. at(p, lineTs(p)) = Next1(p).at /\ at(p, lineTs(p) - 1) = now(p)
  BY <1>1, <1>2, <1>3 DEF at, now
<1>9. \A q \in Pids : now(q)' = IF q = p THEN Next1(p).at ELSE now(q)
  BY <1>2, <1>3, <1>5, <1>8 DEF now, at
<1>10. /\ Kernel' /\ Visible' = Visible
       /\ \A Q \in SUBSET Pids : Still(Q)' = Still(Q)
       /\ \A x \in Pids : Shares(x)' = Shares(x)
  BY <1>1, <1>2, SameTree
<1>11. Unread'
  BY <1>2 DEF Unread, FreshInv
<1> QED
  BY <1>1, <1>2, <1>3, <1>4, <1>5, <1>6, <1>7, <1>8, <1>9, <1>10, <1>11

\* What taking a line must do to keep what was read.
Reads(p) ==
    /\ \A q \in Pids : firstCwdMutationTs[q] # 0 => firstCwdMutationTs'[q] = firstCwdMutationTs[q]
    /\ \A q \in Pids : \/ firstCwdMutationTs'[q] = firstCwdMutationTs[q]
                       \/ q = p /\ firstCwdMutationTs'[q] = lineTs(p) /\ Next1(p).call \in Mutations
    /\ \A q \in Pids : \/ lastCwdMutationTs'[q] = lastCwdMutationTs[q]
                       \/ q = p /\ lastCwdMutationTs'[q] = lineTs(p)
    /\ Next1(p).call \in Mutations =>
         firstCwdMutationTs'[p] \in 1..lineTs(p) /\ lineTs(p) <= lastCwdMutationTs'[p]
    /\ \A c \in Pids : childParent[c] # c =>
         childParent'[c] = childParent[c] /\ childSeedCloneTs'[c] = childSeedCloneTs[c]
    /\ \A c \in Pids :
         \/ childParent'[c] = childParent[c] /\ childSeedCloneTs'[c] = childSeedCloneTs[c]
         \/ Next1(p).call \in Clones /\ c = Next1(p).child
    /\ Next1(p).call \in Clones =>
         childParent'[Next1(p).child] = p /\ childSeedCloneTs'[Next1(p).child] = lineTs(p)
    /\ everCwdShared \subseteq everCwdShared' /\ cloneFsEdges \subseteq cloneFsEdges'
    /\ Next1(p).call = "clone_fs" =>
         /\ p \in everCwdShared' /\ Next1(p).child \in everCwdShared'
         /\ <<p, Next1(p).child>> \in cloneFsEdges' /\ <<Next1(p).child, p>> \in cloneFsEdges'
    /\ \A q \in Pids : \/ pendingCwdDetach'[q] \in {None, pendingCwdDetach[q]}
                       \/ q = p /\ Next1(p).call = "unshare"
    /\ \A e \in emitted' : e \in emitted \/ ~e.replay

LEMMA ReadStep ==
    ASSUME SharedInv, NEW p \in Pids, NEW these, Take(p, these), Reads(p), ParkedRead',
           TypeOK'
    PROVE  ReadInv'
<1>0. PICK n \in Nat : n = lineTs(p)
  BY TakeFacts
<1>l. PICK l \in Line : l = Next1(p)
  BY TakeFacts
<1>1. /\ n = taken[p] + 1 /\ n \in 1..Len(file[p]) /\ l = file[p][n] /\ file' = file
      /\ ~running' /\ ~replayed'
      /\ \A q \in Pids : /\ taken'[q] = IF q = p THEN n ELSE taken[q]
                         /\ taken[q] \in Nat /\ taken'[q] \in Nat /\ Len(file[q]) \in Nat
                         /\ taken[q] <= taken'[q] /\ taken'[q] <= Len(file[q])
  BY <1>0, <1>l, TakeFacts
<1>2. LinesRead /\ TimesRead /\ ParentsRead /\ DetachedRead /\ ReplayRead /\ Shown /\ ~replayed
  BY TakeFacts DEF SharedInv, ReadInv, Kernel, KernelInv
<1>3. /\ \A q \in Pids : firstCwdMutationTs[q] # 0 => firstCwdMutationTs'[q] = firstCwdMutationTs[q]
      /\ \A q \in Pids : \/ firstCwdMutationTs'[q] = firstCwdMutationTs[q]
                         \/ q = p /\ firstCwdMutationTs'[q] = n /\ l.call \in Mutations
      /\ \A q \in Pids : \/ lastCwdMutationTs'[q] = lastCwdMutationTs[q]
                         \/ q = p /\ lastCwdMutationTs'[q] = n
      /\ l.call \in Mutations => firstCwdMutationTs'[p] \in 1..n /\ n <= lastCwdMutationTs'[p]
      /\ \A c \in Pids : childParent[c] # c =>
           childParent'[c] = childParent[c] /\ childSeedCloneTs'[c] = childSeedCloneTs[c]
      /\ \A c \in Pids :
           \/ childParent'[c] = childParent[c] /\ childSeedCloneTs'[c] = childSeedCloneTs[c]
           \/ l.call \in Clones /\ c = l.child
      /\ l.call \in Clones => childParent'[l.child] = p /\ childSeedCloneTs'[l.child] = n
      /\ everCwdShared \subseteq everCwdShared' /\ cloneFsEdges \subseteq cloneFsEdges'
      /\ l.call = "clone_fs" =>
           /\ p \in everCwdShared' /\ l.child \in everCwdShared'
           /\ <<p, l.child>> \in cloneFsEdges' /\ <<l.child, p>> \in cloneFsEdges'
      /\ \A q \in Pids : \/ pendingCwdDetach'[q] \in {None, pendingCwdDetach[q]}
                         \/ q = p /\ l.call = "unshare"
      /\ \A e \in emitted' : e \in emitted \/ ~e.replay
  BY <1>0, <1>l DEF Reads
<1>4. \A q \in Pids : /\ lastCwdMutationTs[q] \in Nat /\ lastCwdMutationTs'[q] \in Nat
                      /\ firstCwdMutationTs[q] \in Nat /\ childParent[q] \in Pids
                      /\ childSeedCloneTs[q] \in Nat /\ \A i \in 1..Len(file[q]) : file[q][i] \in Line
  <2>1. lastCwdMutationTs' \in [Pids -> Nat]
    BY DEF TypeOK
  <2>2. /\ lastCwdMutationTs \in [Pids -> Nat] /\ firstCwdMutationTs \in [Pids -> Nat]
        /\ childParent \in [Pids -> Pids] /\ childSeedCloneTs \in [Pids -> Nat]
        /\ file \in [Pids -> Seq(Line)]
    BY DEF SharedInv, TypeOK
  <2>3. \A q \in Pids : \A i \in 1..Len(file[q]) : file[q][i] \in Line
    BY <2>2
  <2> QED BY <2>1, <2>2, <2>3
<1>9. TimesRead'
  <2> SUFFICES ASSUME NEW q \in Pids
               PROVE  /\ firstCwdMutationTs'[q] <= taken'[q] /\ lastCwdMutationTs'[q] <= taken'[q]
                      /\ firstCwdMutationTs'[q] # 0 => file[q][firstCwdMutationTs'[q]].call \in Mutations
    BY <1>1 DEF TimesRead
  <2>1. firstCwdMutationTs[q] <= taken[q] /\ lastCwdMutationTs[q] <= taken[q]
    BY <1>2 DEF TimesRead
  <2>2. firstCwdMutationTs[q] <= taken'[q] /\ lastCwdMutationTs[q] <= taken'[q]
    BY <1>1, <1>4, <2>1
  <2>3. firstCwdMutationTs'[q] <= taken'[q] /\ lastCwdMutationTs'[q] <= taken'[q]
    BY <1>1, <1>3, <2>2
  <2>4. firstCwdMutationTs'[q] # 0 => file[q][firstCwdMutationTs'[q]].call \in Mutations
    BY <1>1, <1>2, <1>3 DEF TimesRead
  <2> QED BY <2>3, <2>4
<1>10. \A q \in Pids : lastCwdMutationTs[q] <= lastCwdMutationTs'[q]
  <2> SUFFICES ASSUME NEW q \in Pids PROVE lastCwdMutationTs[q] <= lastCwdMutationTs'[q]
    OBVIOUS
  <2>1. lastCwdMutationTs[q] <= taken[q] /\ lastCwdMutationTs[q] \in Nat /\ taken[q] \in Nat
    BY <1>1, <1>2, <1>4 DEF TimesRead
  <2>2. \/ lastCwdMutationTs'[q] = lastCwdMutationTs[q]
        \/ q = p /\ lastCwdMutationTs'[q] = n
    BY <1>3
  <2>3. q = p => taken[q] <= n
    BY <1>1
  <2> QED BY <2>1, <2>2, <2>3
<1>5. LinesRead'
  <2> SUFFICES ASSUME NEW q \in Pids, NEW i \in 1..taken'[q]
               PROVE  LET m == file[q][i]
                      IN /\ m.call \in Mutations =>
                              firstCwdMutationTs'[q] \in 1..i /\ i <= lastCwdMutationTs'[q]
                         /\ m.call \in Clones => childParent'[m.child] = q /\ childSeedCloneTs'[m.child] = i
                         /\ m.call = "clone_fs" =>
                              /\ q \in everCwdShared' /\ m.child \in everCwdShared'
                              /\ <<q, m.child>> \in cloneFsEdges' /\ <<m.child, q>> \in cloneFsEdges'
    BY <1>1 DEF LinesRead
  <2>1. CASE i \in 1..taken[q]
    <3>1. PICK m \in Line : m = file[q][i]
      <4>1. i \in 1..Len(file[q])
        BY <1>1
      <4> QED BY <1>4, <4>1
    <3>2. /\ m.call \in Mutations => firstCwdMutationTs[q] \in 1..i /\ i <= lastCwdMutationTs[q]
          /\ m.call \in Clones => childParent[m.child] = q /\ childSeedCloneTs[m.child] = i
          /\ m.call = "clone_fs" =>
               /\ q \in everCwdShared /\ m.child \in everCwdShared
               /\ <<q, m.child>> \in cloneFsEdges /\ <<m.child, q>> \in cloneFsEdges
      BY <1>2, <2>1, <3>1 DEF LinesRead
    <3>3. m.call \in Mutations => firstCwdMutationTs'[q] \in 1..i /\ i <= lastCwdMutationTs'[q]
      BY <1>3, <1>4, <1>10, <2>1, <3>2
    <3>4. m.call \in Clones => childParent'[m.child] = q /\ childSeedCloneTs'[m.child] = i
      <4>1. m.call \in Clones => m.child # q /\ m.child \in Pids
        <5>1. i \in 1..Len(file[q])
          BY <1>1, <2>1
        <5> QED BY <1>2, <3>1, <5>1 DEF Shown, Line
      <4> QED BY <1>3, <3>2, <4>1
    <3> QED BY <1>3, <3>1, <3>2, <3>3, <3>4
  <2>2. CASE q = p /\ i = n
    <3>1. file[q][i] = l
      BY <1>1, <2>2
    <3> QED BY <1>3, <2>2, <3>1
  <2>3. i \in 1..taken[q] \/ (q = p /\ i = n)
    BY <1>1
  <2> QED BY <2>1, <2>2, <2>3
<1>6. ParentsRead'
  <2> SUFFICES ASSUME NEW c \in Pids, childParent'[c] # c
               PROVE  /\ childSeedCloneTs'[c] \in 1..taken'[childParent'[c]]
                      /\ file[childParent'[c]][childSeedCloneTs'[c]].call \in Clones
                      /\ file[childParent'[c]][childSeedCloneTs'[c]].child = c
    BY <1>1 DEF ParentsRead
  <2>1. CASE childParent'[c] = childParent[c] /\ childSeedCloneTs'[c] = childSeedCloneTs[c]
    <3>1. /\ childSeedCloneTs[c] \in 1..taken[childParent[c]]
          /\ file[childParent[c]][childSeedCloneTs[c]].call \in Clones
          /\ file[childParent[c]][childSeedCloneTs[c]].child = c
      BY <1>2, <2>1 DEF ParentsRead
    <3>2. childSeedCloneTs[c] \in 1..taken'[childParent[c]]
      BY <1>1, <1>4, <3>1
    <3> QED BY <2>1, <3>1, <3>2
  <2>2. CASE l.call \in Clones /\ c = l.child
    <3>1. childParent'[c] = p /\ childSeedCloneTs'[c] = n /\ file[p][n] = l
      BY <1>1, <1>3, <2>2
    <3>2. n \in 1..taken'[p]
      BY <1>1
    <3> QED BY <2>2, <3>1, <3>2
  <2> QED BY <1>3, <2>1, <2>2
<1>7. DetachedRead'
  <2> SUFFICES ASSUME NEW q \in Pids, pendingCwdDetach'[q] # None
               PROVE  \E i \in 1..Len(file[q]) : file[q][i].call = "unshare"
    BY <1>1 DEF DetachedRead
  <2>1. CASE pendingCwdDetach'[q] = pendingCwdDetach[q]
    BY <1>2, <2>1 DEF DetachedRead
  <2>2. CASE q = p /\ l.call = "unshare"
    BY <1>1, <2>2
  <2> QED BY <1>3, <2>1, <2>2
<1>8. ReplayRead'
  BY <1>1, <1>2, <1>3 DEF ReplayRead
<1> QED
  BY <1>5, <1>6, <1>7, <1>8, <1>9 DEF ReadInv

\* A clone's child had no parent before.
LEMMA NewChild ==
    ASSUME SharedInv, NEW p \in Pids, Take(p, Clones)
    PROVE  /\ Next1(p).child \in Pids /\ childParent[Next1(p).child] = Next1(p).child
           /\ Next1(p).child # p /\ Next1(p).child # Root /\ bornIn[Next1(p).child] = Next1(p).at
<1>1. PICK c \in Pids : c = Next1(p).child
  BY TakeFacts DEF Line
<1>2. /\ lineTs(p) \in 1..Len(file[p]) /\ lineTs(p) = taken[p] + 1 /\ taken[p] \in Nat
      /\ Next1(p) = file[p][lineTs(p)] /\ Next1(p).call \in Clones
      /\ \A q \in Pids : taken[q] \in Nat /\ taken[q] <= Len(file[q]) /\ Len(file[q]) \in Nat
  BY TakeFacts DEF SharedInv, ReadInv, ReplayRead
<1>3. c # p /\ c # Root /\ bornIn[c] = Next1(p).at
  BY <1>1, <1>2 DEF SharedInv, Kernel, KernelInv, Shown
<1>4. ASSUME childParent[c] # c
      PROVE  FALSE
  <2>1. PICK a \in Pids : a = childParent[c]
    BY DEF SharedInv, TypeOK
  <2>2. PICK i \in 1..taken[a] : i = childSeedCloneTs[c]
    BY <1>4, <2>1 DEF SharedInv, ReadInv, ParentsRead
  <2>3. file[a][i].call \in Clones /\ file[a][i].child = c /\ i \in 1..Len(file[a])
    BY <1>2, <1>4, <2>1, <2>2 DEF SharedInv, ReadInv, ParentsRead
  <2>4. a = p /\ i = lineTs(p)
    BY <1>1, <1>2, <2>3 DEF SharedInv, Kernel, KernelInv, OneBirth
  <2> QED BY <1>2, <2>2, <2>4
<1> QED
  BY <1>1, <1>3, <1>4

\* Parked opens stay as they are while what is known of the clones does.
LEMMA ParkedStays ==
    ASSUME SharedInv, NEW p \in Pids, NEW these, Take(p, these),
           deferredRelOpens' = deferredRelOpens, UNCHANGED cloneVars
    PROVE  /\ ParkedRead'
           /\ \A Q \in SUBSET Pids : SeedInv(Q) => SeedInv(Q)'
<1>1. /\ deferredRelOpens \subseteq Deferred /\ ParkedRead
      /\ childParent' = childParent /\ childSeedCloneTs' = childSeedCloneTs
      /\ pidCloneTimeCwd' = pidCloneTimeCwd /\ file' = file /\ bornIn' = bornIn
      /\ \A q \in Pids : taken[q] \in Nat /\ taken'[q] \in Nat /\ taken[q] <= taken'[q]
  BY TakeFacts DEF SharedInv, TypeOK, ReadInv, cloneVars
<1>2. \A o \in deferredRelOpens : o.pid \in Pids /\ o.ts \in Nat
  BY <1>1 DEF Deferred
<1>3. ParkedRead'
  <2>1. \A o \in deferredRelOpens : o.ts \in 1..taken'[o.pid]
    BY <1>1, <1>2 DEF ParkedRead
  <2> QED BY <1>1, <2>1 DEF ParkedRead
<1>4. \A Q \in SUBSET Pids : SeedInv(Q) => SeedInv(Q)'
  BY <1>1 DEF SeedInv
<1> QED
  BY <1>3, <1>4

LEMMA SharedStep ==
    ASSUME SharedInv, NEW p \in Pids, NEW these, Take(p, these), TypeOK', Forest(up)', ReadInv',
           \A Q \in SUBSET Pids : Visible /\ Still(Q) => ReadQ(Q)'
    PROVE  SharedInv'
<1>1. /\ Kernel' /\ Unread' /\ Visible' = Visible
      /\ \A Q \in SUBSET Pids : Still(Q)' = Still(Q)
  BY TakeFacts
<1>2. Visible' => \A Q \in SUBSET Pids : Still(Q)' => ReadQ(Q)'
  BY <1>1
<1> QED
  BY <1>1, <1>2 DEF SharedInv

\* The links of the dispatcher are compared by the files, which do not change.
LEMMA JoinedThen ==
    ASSUME NEW Q \in SUBSET Pids, NEW g \in [Pids -> Pids], JoinedBy(Q, g), up' = g,
           file' = file, bornIn' = bornIn
    PROVE  JoinedInv(Q)'
<1>1. ASSUME NEW x \in Pids
      PROVE  Like(Q, x, up[x])' /\ (x \in Q => bornIn'[up'[x]] = bornIn'[x])
  <2>1. PICK y \in Pids : y = g[x]
    OBVIOUS
  <2>2. Like(Q, x, y) /\ (x \in Q => bornIn[y] = bornIn[x])
    BY <2>1 DEF JoinedBy
  <2>3. (Shares(x) => Shares(x)') /\ (Shares(y) => Shares(y)')
    BY DEF Shares
  <2>4. Like(Q, x, y)'
    BY <2>2, <2>3 DEF Like
  <2>5. up'[x] = y
    BY <2>1
  <2>6. Like(Q, x, up[x])'
    BY <2>4, <2>5 DEF Like, Shares
  <2> QED BY <2>2, <2>5, <2>6
<1> QED
  BY <1>1 DEF JoinedInv

\* A line that is no change of directory leaves the processes of Q where they are.
LEMMA QuietLine ==
    ASSUME SharedInv, NEW p \in Pids, NEW these, Take(p, these), these \cap Mutations = {},
           NEW Q \in SUBSET Pids, Still(Q)
    PROVE  /\ p \in Q => Next1(p).at = now(p)
           /\ \A q \in Q : now(q)' = now(q)
<1>1. PICK n \in Nat : n = lineTs(p)
  BY TakeFacts
<1>2. /\ n \in 1..Len(file[p]) /\ n = taken[p] + 1 /\ taken[p] \in Nat /\ Len(file[p]) \in Nat
      /\ file[p][n].call \notin Mutations /\ at(p, n) = Next1(p).at /\ at(p, taken[p]) = now(p)
  BY <1>1, TakeFacts DEF now
<1>3. ASSUME p \in Q
      PROVE  Next1(p).at = now(p)
  <2>1. Steady(Q, p, n) /\ StaysInv(Q)
    BY <1>3 DEF Steady, SharedInv, Kernel, KernelQ
  <2>2. n \in 0..Len(file[p]) /\ taken[p] \in 0..n /\ \A k \in (taken[p] + 1)..n : k = n
    BY <1>2
  <2>3. at(p, taken[p]) = at(p, n)
    BY <1>2, <2>1, <2>2 DEF StaysInv
  <2> QED BY <1>2, <2>3
<1>4. \A q \in Q : now(q)' = now(q)
  BY <1>3, TakeFacts
<1> QED
  BY <1>3, <1>4

\* A change of directory, of a group as the dispatcher sees it.
LEMMA GroupMoves ==
    ASSUME SharedInv, NEW p \in Pids, NEW these, Take(p, these), these \subseteq Mutations,
           noteMutation(p), up' = compressed(p),
           UNCHANGED <<pendingCwdDetach, everCwdShared, cloneFsEdges, cloneVars, execVars, openVars>>,
           pidCwd' \in [Pids -> Known], pidCwdUnknown' \subseteq Pids,
           \A q \in Pids : q # rootedCwd(p) =>
               pidCwd'[q] = pidCwd[q] /\ (q \in pidCwdUnknown' <=> q \in pidCwdUnknown),
           \A Q \in SUBSET Pids :
               Visible /\ Still(Q) /\ p \in Q /\ rootedCwd(p) = p /\ pidCwd'[p] # None
                 => pidCwd'[p] = Next1(p).at,
           Visible /\ pidCwd'[rootedCwd(p)] = None =>
               rootedCwd(p) \in pidCwdUnknown' /\ Only(Calls \ {"unshare"})
    PROVE  SharedInv'
<1>1. /\ lineTs(p) \in Nat /\ lineTs(p) \in 1..Len(file[p]) /\ Next1(p).call \in Mutations
      /\ taken' \in [Pids -> Nat] /\ file' = file /\ bornIn' = bornIn
      /\ lineTs(p) = taken[p] + 1
      /\ \A q \in Pids : taken[q] \in Nat /\ Len(file[q]) \in Nat /\ taken[q] <= Len(file[q])
      /\ Next1(p) = file[p][lineTs(p)]
  BY TakeFacts DEF SharedInv, ReadInv, ReplayRead
<1>2. /\ firstCwdMutationTs' \in [Pids -> Nat] /\ lastCwdMutationTs' \in [Pids -> Nat]
      /\ \A q \in Pids : firstCwdMutationTs[q] # 0 \/ q # p => firstCwdMutationTs'[q] = firstCwdMutationTs[q]
      /\ \A q \in Pids : q # p => lastCwdMutationTs'[q] = lastCwdMutationTs[q]
      /\ lastCwdMutationTs'[p] = lineTs(p)
      /\ firstCwdMutationTs[p] = 0 => firstCwdMutationTs'[p] = lineTs(p)
      /\ \A q \in Pids : firstCwdMutationTs[q] \in Nat /\ lastCwdMutationTs[q] \in Nat
  BY <1>1 DEF noteMutation, SharedInv, TypeOK
<1>3. compressed(p) \in [Pids -> Pids] /\ Forest(compressed(p)) /\ rootedCwd(p) \in Pids
  BY GroupOf
<1>4. TypeOK'
  BY <1>1, <1>2, <1>3 DEF SharedInv, TypeOK, Take, treeVars, cloneVars, execVars, openVars
<1>5. Forest(up)'
  BY <1>3 DEF Forest
<1>6. /\ firstCwdMutationTs[p] <= taken[p] /\ lastCwdMutationTs[p] <= taken[p]
      /\ firstCwdMutationTs'[p] \in 1..lineTs(p)
  <2>1. firstCwdMutationTs[p] <= taken[p] /\ lastCwdMutationTs[p] <= taken[p]
    BY DEF SharedInv, ReadInv, TimesRead
  <2>2. CASE firstCwdMutationTs[p] = 0
    <3>1. firstCwdMutationTs'[p] = lineTs(p)
      BY <1>2, <2>2
    <3> QED BY <1>1, <2>1, <3>1
  <2>3. CASE firstCwdMutationTs[p] # 0
    <3>1. firstCwdMutationTs'[p] = firstCwdMutationTs[p] /\ firstCwdMutationTs[p] \in Nat
      BY <1>2, <2>3
    <3> QED BY <1>1, <2>1, <2>3, <3>1
  <2> QED BY <2>2, <2>3
<1>7. Reads(p)
  <2>1. Next1(p).call \notin Clones /\ Next1(p).call # "clone_fs" /\ Next1(p).call # "unshare"
    BY <1>1 DEF Mutations, Clones
  <2>2. \A q \in Pids : \/ firstCwdMutationTs'[q] = firstCwdMutationTs[q]
                        \/ q = p /\ firstCwdMutationTs'[q] = lineTs(p) /\ Next1(p).call \in Mutations
    BY <1>1, <1>2
  <2>3. \A q \in Pids : \/ lastCwdMutationTs'[q] = lastCwdMutationTs[q]
                        \/ q = p /\ lastCwdMutationTs'[q] = lineTs(p)
    BY <1>2
  <2>4. lineTs(p) <= lastCwdMutationTs'[p]
    BY <1>1, <1>2
  <2> QED BY <1>2, <1>6, <2>1, <2>2, <2>3, <2>4 DEF Reads, cloneVars, openVars
<1>8. ReadInv'
  BY <1>4, <1>7, ParkedStays, ReadStep DEF openVars
<1>9. ASSUME NEW Q \in SUBSET Pids, Visible, Still(Q)
      PROVE  ReadQ(Q)'
  <2>1. /\ ReadQ(Q) /\ JoinedBy(Q, compressed(p)) /\ Like(Q, p, rootedCwd(p))
    BY <1>9, GroupOf DEF SharedInv
  <2>2. rootedCwd(p) \in Q => p \in Q /\ rootedCwd(p) = p
    <3>1. p \in Q => ~Shares(p)
      BY <1>1, <1>9 DEF Still
    <3> QED BY <2>1, <3>1 DEF Like
  <2>3. JoinedInv(Q)'
    BY <1>1, <1>3, <2>1, JoinedThen
  <2>4. DirInv(Q)'
    <3> SUFFICES ASSUME NEW q \in Q, pidCwd'[q] # None PROVE pidCwd'[q] = now(q)'
      BY DEF DirInv
    <3>1. CASE q = rootedCwd(p)
      <4>1. q = p /\ p \in Q /\ rootedCwd(p) = p
        BY <2>2, <3>1
      <4>2. pidCwd'[p] = Next1(p).at
        BY <1>9, <4>1
      <4>3. now(p)' = Next1(p).at
        BY TakeFacts
      <4> QED BY <4>1, <4>2, <4>3
    <3>2. CASE q # rootedCwd(p)
      <4>1. q # p
        <5>1. p \in Q => p = rootedCwd(p)
          <6>1. p \in Q => ~Shares(p)
            BY <1>1, <1>9 DEF Still
          <6> QED BY <2>1, <6>1 DEF Like
        <5> QED BY <3>2, <5>1
      <4>2. now(q)' = now(q) /\ pidCwd'[q] = pidCwd[q]
        BY <3>2, <4>1, TakeFacts
      <4> QED BY <2>1, <4>2 DEF ReadQ, DirInv
    <3> QED BY <3>1, <3>2
  <2>5. LostInv(Q)'
    <3> SUFFICES ASSUME NEW q \in Q, firstCwdMutationTs'[q] # 0, childParent'[q] = q, pidCwd'[q] = None
                 PROVE  q \in pidCwdUnknown' /\ Only(Calls \ {"unshare"})
      BY <1>1 DEF LostInv, Only
    <3>1. CASE q = rootedCwd(p)
      BY <1>9, <3>1
    <3>2. CASE q # rootedCwd(p)
      <4>1. q # p
        <5>1. p \in Q => ~Shares(p)
          BY <1>1, <1>9 DEF Still
        <5> QED BY <2>1, <3>2, <5>1 DEF Like
      <4>2. /\ firstCwdMutationTs[q] # 0 /\ childParent[q] = q /\ pidCwd[q] = None
            /\ q \in pidCwdUnknown' <=> q \in pidCwdUnknown
        BY <1>2, <3>2, <4>1 DEF cloneVars
      <4> QED BY <2>1, <4>2 DEF ReadQ, LostInv
    <3> QED BY <3>1, <3>2
  <2>6. SeedInv(Q)'
    BY <2>1, ParkedStays DEF ReadQ, openVars
  <2> QED BY <2>3, <2>4, <2>5, <2>6 DEF ReadQ
<1> QED
  BY <1>4, <1>5, <1>8, <1>9, SharedStep

LEMMA SharedChdir ==
    ASSUME SharedInv, NEW p \in Pids, TakeChdir(p)
    PROVE  SharedInv'
<1>1. /\ Take(p, {"chdir"}) /\ noteMutation(p) /\ up' = compressed(p)
      /\ pidCwd' = [pidCwd EXCEPT ![rootedCwd(p)] = Next1(p).dir]
      /\ pidCwdUnknown' = pidCwdUnknown \ {rootedCwd(p)}
      /\ UNCHANGED <<pendingCwdDetach, everCwdShared, cloneFsEdges, cloneVars, execVars, openVars>>
  BY DEF TakeChdir
<1>2. rootedCwd(p) \in Pids /\ pidCwd \in [Pids -> Known] /\ pidCwdUnknown \subseteq Pids
  BY GroupOf DEF SharedInv, TypeOK
<1>3. Next1(p).dir \in Dirs /\ Next1(p).at = Next1(p).dir
  <2>1. Next1(p) \in Line /\ Next1(p) = file[p][lineTs(p)] /\ Next1(p).call = "chdir"
        /\ lineTs(p) \in 1..Len(file[p])
    BY <1>1, TakeFacts
  <2> QED BY <2>1 DEF SharedInv, Kernel, KernelInv, Shown, Line
<1>4. /\ pidCwd' \in [Pids -> Known] /\ pidCwdUnknown' \subseteq Pids
      /\ pidCwd'[rootedCwd(p)] = Next1(p).at /\ pidCwd'[rootedCwd(p)] # None
      /\ \A q \in Pids : q # rootedCwd(p) =>
           pidCwd'[q] = pidCwd[q] /\ (q \in pidCwdUnknown' <=> q \in pidCwdUnknown)
  BY <1>1, <1>2, <1>3, DirsAssumption DEF Known
<1>5. {"chdir"} \subseteq Mutations
  BY DEF Mutations
<1> QED
  BY <1>1, <1>4, <1>5, GroupMoves

\* A relative or hidden change of directory: nobody unshares.
LEMMA HiddenMove ==
    ASSUME SharedInv, NEW p \in Pids, NEW these, Take(p, these), these \subseteq {"relative", "opaque"}
    PROVE  Visible => Only(Calls \ {"unshare"})
<1>1. lineTs(p) \in 1..Len(file[p]) /\ file[p][lineTs(p)].call \in {"relative", "opaque"}
  <2>1. lineTs(p) \in 1..Len(file[p]) /\ Next1(p) = file[p][lineTs(p)] /\ Next1(p).call \in these
    BY TakeFacts
  <2> QED BY <2>1
<1>2. ~Only(Calls \ {"relative", "opaque"})
  BY <1>1 DEF Only
<1> QED
  BY <1>2 DEF Visible

LEMMA SharedRelative ==
    ASSUME SharedInv, NEW p \in Pids, TakeRelative(p)
    PROVE  SharedInv'
<1>1. /\ Take(p, {"relative"}) /\ noteMutation(p) /\ up' = compressed(p)
      /\ IF pidCwd[rootedCwd(p)] # None
         THEN pidCwd' = [pidCwd EXCEPT ![rootedCwd(p)] = Below[@]] /\ pidCwdUnknown' = pidCwdUnknown
         ELSE pidCwdUnknown' = pidCwdUnknown \cup {rootedCwd(p)} /\ pidCwd' = pidCwd
      /\ UNCHANGED <<pendingCwdDetach, everCwdShared, cloneFsEdges, cloneVars, execVars, openVars>>
  BY DEF TakeRelative, cwdGet
<1>2. rootedCwd(p) \in Pids /\ pidCwd \in [Pids -> Known] /\ pidCwdUnknown \subseteq Pids
  BY GroupOf DEF SharedInv, TypeOK
<1>3. {"relative"} \subseteq Mutations /\ {"relative"} \subseteq {"relative", "opaque"}
  BY DEF Mutations
<1>4. Visible => Only(Calls \ {"unshare"})
  BY <1>1, <1>3, HiddenMove
<1>5. CASE pidCwd[rootedCwd(p)] # None
  <2>1. pidCwd[rootedCwd(p)] \in Dirs /\ Below[pidCwd[rootedCwd(p)]] \in Dirs
    BY <1>2, <1>5, DirsAssumption DEF Known
  <2>2. /\ pidCwd' \in [Pids -> Known] /\ pidCwdUnknown' = pidCwdUnknown
        /\ pidCwd'[rootedCwd(p)] = Below[pidCwd[rootedCwd(p)]] /\ pidCwd'[rootedCwd(p)] # None
        /\ \A q \in Pids : q # rootedCwd(p) => pidCwd'[q] = pidCwd[q]
    BY <1>1, <1>2, <1>5, <2>1, DirsAssumption DEF Known
  <2>3. ASSUME NEW Q \in SUBSET Pids, Visible, Still(Q), p \in Q, rootedCwd(p) = p, pidCwd'[p] # None
        PROVE  pidCwd'[p] = Next1(p).at
    <3>1. PICK n \in Nat : n = lineTs(p)
      BY <1>1, TakeFacts
    <3>2. /\ n \in 1..Len(file[p]) /\ file[p][n].call = "relative" /\ at(p, n) = Next1(p).at
          /\ at(p, n - 1) = now(p)
      BY <1>1, <3>1, TakeFacts
    <3>3. RelativeInv(Q) /\ Steady(Q, p, n - 1) /\ DirInv(Q)
      BY <2>3 DEF SharedInv, Kernel, KernelQ, Steady, ReadQ
    <3>4. at(p, n) = Below[at(p, n - 1)]
      BY <3>2, <3>3 DEF RelativeInv
    <3>5. pidCwd[p] = now(p)
      BY <1>5, <2>3, <3>3 DEF DirInv
    <3> QED BY <2>2, <2>3, <3>2, <3>4, <3>5
  <2> QED BY <1>1, <1>2, <1>3, <2>2, <2>3, GroupMoves
<1>6. CASE pidCwd[rootedCwd(p)] = None
  <2>1. /\ pidCwd' = pidCwd /\ pidCwdUnknown' = pidCwdUnknown \cup {rootedCwd(p)}
        /\ pidCwdUnknown' \subseteq Pids /\ pidCwd' \in [Pids -> Known]
    BY <1>1, <1>2, <1>6
  <2>2. \A q \in Pids : q # rootedCwd(p) =>
          pidCwd'[q] = pidCwd[q] /\ (q \in pidCwdUnknown' <=> q \in pidCwdUnknown)
    BY <2>1
  <2>3. /\ rootedCwd(p) = p => pidCwd'[p] = None
        /\ rootedCwd(p) \in pidCwdUnknown'
    BY <1>6, <2>1
  <2> QED BY <1>1, <1>3, <1>4, <2>1, <2>2, <2>3, GroupMoves
<1> QED
  BY <1>5, <1>6

LEMMA SharedOpaque ==
    ASSUME SharedInv, NEW p \in Pids, TakeOpaque(p)
    PROVE  SharedInv'
<1>1. /\ Take(p, {"opaque"}) /\ noteMutation(p) /\ up' = compressed(p)
      /\ pidCwdUnknown' = pidCwdUnknown \cup {rootedCwd(p)}
      /\ pidCwd' = [pidCwd EXCEPT ![rootedCwd(p)] = None]
      /\ UNCHANGED <<pendingCwdDetach, everCwdShared, cloneFsEdges, cloneVars, execVars, openVars>>
  BY DEF TakeOpaque
<1>2. rootedCwd(p) \in Pids /\ pidCwd \in [Pids -> Known] /\ pidCwdUnknown \subseteq Pids
  BY GroupOf DEF SharedInv, TypeOK
<1>3. {"opaque"} \subseteq Mutations /\ {"opaque"} \subseteq {"relative", "opaque"}
  BY DEF Mutations
<1>4. Visible => Only(Calls \ {"unshare"})
  BY <1>1, <1>3, HiddenMove
<1>5. /\ pidCwd' \in [Pids -> Known] /\ pidCwdUnknown' \subseteq Pids
      /\ pidCwd'[rootedCwd(p)] = None /\ rootedCwd(p) \in pidCwdUnknown'
      /\ \A q \in Pids : q # rootedCwd(p) =>
           pidCwd'[q] = pidCwd[q] /\ (q \in pidCwdUnknown' <=> q \in pidCwdUnknown)
  BY <1>1, <1>2 DEF Known
<1>6. \A Q \in SUBSET Pids :
        Visible /\ Still(Q) /\ p \in Q /\ rootedCwd(p) = p /\ pidCwd'[p] # None
          => pidCwd'[p] = Next1(p).at
  BY <1>5
<1>7. Visible /\ pidCwd'[rootedCwd(p)] = None =>
        rootedCwd(p) \in pidCwdUnknown' /\ Only(Calls \ {"unshare"})
  BY <1>4, <1>5
<1> QED
  BY <1>1, <1>3, <1>5, <1>6, <1>7, GroupMoves

\* A line that changes no directory and tracks no other.
LEMMA GroupRests ==
    ASSUME SharedInv, NEW p \in Pids, NEW these, Take(p, these), these \cap Mutations = {},
           UNCHANGED <<pidCwd, pidCwdUnknown, mutVars, childParent>>,
           NEW Q \in SUBSET Pids, Still(Q), Visible
    PROVE  DirInv(Q)' /\ LostInv(Q)'
<1>1. ReadQ(Q) /\ \A q \in Q : now(q)' = now(q)
  BY QuietLine DEF SharedInv
<1>2. file' = file
  BY TakeFacts
<1>3. DirInv(Q)'
  BY <1>1 DEF ReadQ, DirInv
<1>4. LostInv(Q)'
  BY <1>1, <1>2 DEF ReadQ, LostInv, Only, mutVars
<1> QED
  BY <1>3, <1>4

LEMMA SharedExec ==
    ASSUME SharedInv, NEW p \in Pids, TakeExec(p)
    PROVE  SharedInv'
<1>1. /\ Take(p, {"exec"})
      /\ UNCHANGED <<pidCwd, pidCwdUnknown, pendingCwdDetach, everCwdShared, cloneFsEdges, cloneVars,
                     mutVars, openVars>>
      /\ up' = up \/ up' = compressed(p)
  BY DEF TakeExec
<1>2. /\ up' \in [Pids -> Pids] /\ Forest(up)'
      /\ execCwd' \in [Pids -> Known] /\ execKnown' \subseteq Pids /\ pendingExecCwd' \subseteq Pids
  <2>1. /\ compressed(p) \in [Pids -> Pids] /\ Forest(compressed(p)) /\ canonicalCwd(p) \in Known
        /\ up \in [Pids -> Pids] /\ Forest(up)
        /\ execCwd \in [Pids -> Known] /\ execKnown \subseteq Pids /\ pendingExecCwd \subseteq Pids
    BY GroupOf DEF SharedInv, TypeOK
  <2>2. up' \in [Pids -> Pids] /\ Forest(up)'
    BY <1>1, <2>1 DEF Forest
  <2>3. execCwd' \in [Pids -> Known] /\ execKnown' \subseteq Pids /\ pendingExecCwd' \subseteq Pids
    BY <2>1 DEF TakeExec, execVars
  <2> QED BY <2>2, <2>3
<1>3. taken' \in [Pids -> Nat] /\ file' = file /\ bornIn' = bornIn /\ Next1(p).call = "exec"
  BY <1>1, TakeFacts
<1>4. TypeOK'
  BY <1>1, <1>2, <1>3 DEF SharedInv, TypeOK, Take, treeVars, cloneVars, mutVars, openVars
<1>5. Reads(p)
  <2>1. "exec" \notin Mutations \cup Clones
    BY DEF Mutations, Clones
  <2> QED BY <1>1, <1>3, <2>1 DEF Reads, cloneVars, mutVars, openVars
<1>6. ReadInv'
  BY <1>1, <1>4, <1>5, ParkedStays, ReadStep DEF openVars
<1>7. ASSUME NEW Q \in SUBSET Pids, Visible, Still(Q)
      PROVE  ReadQ(Q)'
  <2>1. ReadQ(Q) /\ JoinedBy(Q, up) /\ JoinedBy(Q, compressed(p))
    BY <1>7, GroupOf DEF SharedInv, ReadQ, JoinedInv, JoinedBy
  <2>2. compressed(p) \in [Pids -> Pids] /\ up \in [Pids -> Pids]
    BY GroupOf DEF SharedInv, TypeOK
  <2>3. JoinedInv(Q)'
    BY <1>1, <1>3, <2>1, <2>2, JoinedThen
  <2>4. DirInv(Q)' /\ LostInv(Q)'
    <3>1. {"exec"} \cap Mutations = {} /\ childParent' = childParent
      BY <1>1 DEF Mutations, cloneVars
    <3> QED BY <1>1, <1>7, <3>1, GroupRests
  <2>5. SeedInv(Q)'
    BY <1>1, <2>1, ParkedStays DEF ReadQ, openVars
  <2> QED BY <2>3, <2>4, <2>5 DEF ReadQ
<1> QED
  BY <1>1, <1>2, <1>4, <1>6, <1>7, SharedStep

LEMMA SharedOpen ==
    ASSUME SharedInv, NEW p \in Pids, TakeOpen(p)
    PROVE  SharedInv'
<1> DEFINE e == [pid |-> p, ts |-> lineTs(p), dir |-> canonicalCwd(p), replay |-> FALSE]
           o == [pid |-> p, ts |-> lineTs(p), sharedAtRead |-> p \in everCwdShared,
                 stamped |-> FALSE, initialCwd |-> None, cloneFsSeed |-> FALSE,
                 seedParentPid |-> p]
<1>1. /\ Take(p, {"open"}) /\ up' = compressed(p)
      /\ UNCHANGED <<pidCwd, pidCwdUnknown, pendingCwdDetach, everCwdShared, cloneFsEdges, cloneVars,
                     mutVars, execVars>>
      /\ \/ canonicalCwd(p) # None /\ emitted' = emitted \cup {e} /\ deferredRelOpens' = deferredRelOpens
         \/ emitted' = emitted /\ deferredRelOpens' = deferredRelOpens \cup {o}
  BY DEF TakeOpen
<1>2. /\ compressed(p) \in [Pids -> Pids] /\ Forest(compressed(p)) /\ canonicalCwd(p) \in Known
      /\ up \in [Pids -> Pids]
      /\ deferredRelOpens \subseteq Deferred /\ emitted \subseteq Emitted
  BY GroupOf DEF SharedInv, TypeOK
<1>3. /\ taken' \in [Pids -> Nat] /\ file' = file /\ bornIn' = bornIn /\ Next1(p).call = "open"
      /\ lineTs(p) \in Nat /\ lineTs(p) = taken[p] + 1 /\ lineTs(p) \in 1..taken'[p]
      /\ Next1(p) = file[p][lineTs(p)] /\ taken[p] \in Nat
  BY <1>1, TakeFacts
<1>4. /\ o \in Deferred /\ (canonicalCwd(p) # None => e \in Emitted) /\ e.replay = FALSE
      /\ o.pid = p /\ o.ts = lineTs(p) /\ o.stamped = FALSE /\ o.sharedAtRead = (p \in everCwdShared)
  BY <1>2, <1>3 DEF Deferred, Emitted, Known
<1> HIDE DEF e, o
<1>5. TypeOK'
  <2>1. emitted' \subseteq Emitted /\ deferredRelOpens' \subseteq Deferred
    BY <1>1, <1>2, <1>4
  <2> QED BY <1>1, <1>2, <1>3, <2>1 DEF SharedInv, TypeOK, Take, treeVars, cloneVars, mutVars, execVars
<1>6. Forest(up)'
  BY <1>1, <1>2 DEF Forest
<1>7. Reads(p)
  <2>1. "open" \notin Mutations \cup Clones
    BY DEF Mutations, Clones
  <2>2. \A x \in emitted' : x \in emitted \/ ~x.replay
    BY <1>1, <1>4
  <2> QED BY <1>1, <1>3, <2>1, <2>2 DEF Reads, cloneVars, mutVars
<1>8. /\ childParent' = childParent /\ childSeedCloneTs' = childSeedCloneTs
      /\ pidCloneTimeCwd' = pidCloneTimeCwd
      /\ \A q \in Pids : taken[q] \in Nat /\ taken'[q] \in Nat /\ taken[q] <= taken'[q]
      /\ \A x \in deferredRelOpens' : x \in deferredRelOpens \/ x = o
  BY <1>1, TakeFacts DEF cloneVars
<1>9. ParkedRead'
  <2> SUFFICES ASSUME NEW x \in deferredRelOpens'
               PROVE  /\ x.ts \in 1..taken'[x.pid]
                      /\ ~x.sharedAtRead => \A j \in 1..x.ts : file[x.pid][j].call # "clone_fs"
                      /\ x.stamped =>
                           /\ childParent[x.pid] = x.seedParentPid /\ x.seedParentPid # x.pid
                           /\ ~x.cloneFsSeed => file[x.seedParentPid][childSeedCloneTs[x.pid]].call = "clone"
    BY <1>3, <1>8 DEF ParkedRead
  <2>1. CASE x \in deferredRelOpens
    <3>1. x.pid \in Pids /\ x.ts \in Nat /\ x.ts \in 1..taken[x.pid]
      BY <1>2, <2>1 DEF Deferred, SharedInv, ReadInv, ParkedRead
    <3>2. x.ts \in 1..taken'[x.pid]
      BY <1>8, <3>1
    <3> QED BY <2>1, <3>2 DEF SharedInv, ReadInv, ParkedRead
  <2>2. CASE x = o
    <3>1. ASSUME p \notin everCwdShared, NEW j \in 1..lineTs(p)
          PROVE  file[p][j].call # "clone_fs"
      <4>1. CASE j = lineTs(p)
        BY <1>3, <4>1
      <4>2. CASE j # lineTs(p)
        <5>1. j \in 1..taken[p]
          BY <1>3, <4>2
        <5> QED BY <3>1, <5>1 DEF SharedInv, ReadInv, LinesRead
      <4> QED BY <4>1, <4>2
    <3> QED BY <1>3, <1>4, <2>2, <3>1
  <2> QED BY <1>8, <2>1, <2>2
<1>10. ReadInv'
  BY <1>1, <1>5, <1>7, <1>9, ReadStep
<1>11. ASSUME NEW Q \in SUBSET Pids, Visible, Still(Q)
       PROVE  ReadQ(Q)'
  <2>1. ReadQ(Q) /\ JoinedBy(Q, compressed(p))
    BY <1>11, GroupOf DEF SharedInv
  <2>2. JoinedInv(Q)'
    BY <1>1, <1>2, <1>3, <2>1, JoinedThen
  <2>3. DirInv(Q)' /\ LostInv(Q)'
    <3>1. {"open"} \cap Mutations = {}
      BY DEF Mutations
    <3> QED BY <1>1, <1>8, <1>11, <3>1, GroupRests
  <2>4. SeedInv(Q)'
    BY <1>3, <1>4, <1>8, <2>1 DEF ReadQ, SeedInv
  <2> QED BY <2>2, <2>3, <2>4 DEF ReadQ
<1> QED
  BY <1>1, <1>5, <1>6, <1>10, <1>11, SharedStep

\* A process that leaves its group: the links stay right, and what it or the new root is
\* given is the directory of one alike.
LEMMA GroupLeft ==
    ASSUME SharedInv, NEW p \in Pids, detachCwdGroup(p)
    PROVE  /\ \E g \in [Pids -> Pids] :
                /\ up' = g /\ Forest(g)
                /\ \A Q \in SUBSET Pids : Visible /\ Still(Q) => JoinedBy(Q, g)
           /\ pidCwd' \in [Pids -> Known] /\ pidCwdUnknown' \subseteq Pids
           /\ pidCwdUnknown \subseteq pidCwdUnknown'
           /\ everCwdShared' \subseteq Pids /\ everCwdShared \subseteq everCwdShared'
           /\ \A q \in Pids :
                \/ pidCwd'[q] = pidCwd[q]
                \/ \E s \in Pids :
                     /\ pidCwd[s] # None /\ pidCwd'[q] = pidCwd[s]
                     /\ \A Q \in SUBSET Pids : Visible /\ Still(Q) /\ q \in Q =>
                          s \in Q /\ Like(Q, s, q) /\ bornIn[s] = bornIn[q]
<1>1. PICK r \in Pids : r = rootedCwd(p)
  BY GroupOf
<1>2. PICK u \in [Pids -> Pids] : u = compressed(p)
  BY GroupOf
<1>3. PICK others \in SUBSET (Pids \ {p}) : others = {q \in Pids \ {p} : findCwdRoot(u, q) = p}
  OBVIOUS
<1>4. /\ Forest(u) /\ pidCwd \in [Pids -> Known] /\ pidCwdUnknown \subseteq Pids
      /\ everCwdShared \subseteq Pids
      /\ \A Q \in SUBSET Pids : Visible /\ Still(Q) =>
           JoinedBy(Q, u) /\ Like(Q, p, r) /\ (p \in Q => bornIn[r] = bornIn[p])
  BY <1>1, <1>2, GroupOf DEF SharedInv, TypeOK
<1>5. \/ /\ r # p /\ up' = [u EXCEPT ![p] = p]
         /\ pidCwd' = [pidCwd EXCEPT ![p] = IF pidCwd[r] # None THEN pidCwd[r] ELSE @]
         /\ pidCwdUnknown' = pidCwdUnknown \cup {q \in {p} : r \in pidCwdUnknown}
         /\ everCwdShared' = everCwdShared \cup {p}
      \/ /\ up' = u /\ pidCwd' = pidCwd /\ pidCwdUnknown' = pidCwdUnknown
         /\ everCwdShared' = everCwdShared
      \/ \E root \in others :
           /\ up' = [q \in Pids |-> IF q \in others THEN root ELSE u[q]]
           /\ pidCwd' = [pidCwd EXCEPT ![root] = IF pidCwd[p] # None THEN pidCwd[p] ELSE @]
           /\ pidCwdUnknown' = pidCwdUnknown \cup {q \in {root} : p \in pidCwdUnknown}
           /\ everCwdShared' = everCwdShared \cup {p}
  BY <1>1, <1>2, <1>3 DEF detachCwdGroup
<1>6. CASE /\ r # p /\ up' = [u EXCEPT ![p] = p]
           /\ pidCwd' = [pidCwd EXCEPT ![p] = IF pidCwd[r] # None THEN pidCwd[r] ELSE @]
           /\ pidCwdUnknown' = pidCwdUnknown \cup {q \in {p} : r \in pidCwdUnknown}
           /\ everCwdShared' = everCwdShared \cup {p}
  <2>1. PICK g \in [Pids -> Pids] : g = [u EXCEPT ![p] = p]
    OBVIOUS
  <2>2. Forest(g)
    BY <1>4, <2>1, ForestOne
  <2>3. g[p] = p /\ \A x \in Pids : x # p => g[x] = u[x]
    BY <2>1
  <2>4. ASSUME NEW Q \in SUBSET Pids, Visible, Still(Q)
        PROVE  JoinedBy(Q, g)
    <3>1. JoinedBy(Q, u)
      BY <1>4, <2>4
    <3> QED BY <2>3, <3>1 DEF JoinedBy, Like
  <2>5. pidCwd' \in [Pids -> Known] /\ \A q \in Pids : q # p => pidCwd'[q] = pidCwd[q]
    BY <1>4, <1>6
  <2>6. pidCwd'[p] = pidCwd[p] \/ (pidCwd[r] # None /\ pidCwd'[p] = pidCwd[r])
    BY <1>4, <1>6
  <2>7. \A Q \in SUBSET Pids : Visible /\ Still(Q) /\ p \in Q =>
          r \in Q /\ Like(Q, r, p) /\ bornIn[r] = bornIn[p]
    BY <1>4 DEF Like
  <2>8. \A q \in Pids :
          \/ pidCwd'[q] = pidCwd[q]
          \/ \E s \in Pids :
               /\ pidCwd[s] # None /\ pidCwd'[q] = pidCwd[s]
               /\ \A Q \in SUBSET Pids : Visible /\ Still(Q) /\ q \in Q =>
                    s \in Q /\ Like(Q, s, q) /\ bornIn[s] = bornIn[q]
    BY <2>5, <2>6, <2>7
  <2>9. /\ pidCwdUnknown' \subseteq Pids /\ pidCwdUnknown \subseteq pidCwdUnknown'
        /\ everCwdShared' \subseteq Pids /\ everCwdShared \subseteq everCwdShared'
    BY <1>4, <1>6
  <2> QED BY <1>6, <2>1, <2>2, <2>4, <2>5, <2>8, <2>9
<1>7. CASE up' = u /\ pidCwd' = pidCwd /\ pidCwdUnknown' = pidCwdUnknown
           /\ everCwdShared' = everCwdShared
  BY <1>4, <1>7
<1>8. ASSUME NEW root \in others,
             up' = [q \in Pids |-> IF q \in others THEN root ELSE u[q]],
             pidCwd' = [pidCwd EXCEPT ![root] = IF pidCwd[p] # None THEN pidCwd[p] ELSE @],
             pidCwdUnknown' = pidCwdUnknown \cup {q \in {root} : p \in pidCwdUnknown},
             everCwdShared' = everCwdShared \cup {p}
      PROVE  /\ \E g \in [Pids -> Pids] :
                  /\ up' = g /\ Forest(g)
                  /\ \A Q \in SUBSET Pids : Visible /\ Still(Q) => JoinedBy(Q, g)
             /\ pidCwd' \in [Pids -> Known] /\ pidCwdUnknown' \subseteq Pids
             /\ pidCwdUnknown \subseteq pidCwdUnknown'
             /\ everCwdShared' \subseteq Pids /\ everCwdShared \subseteq everCwdShared'
             /\ \A q \in Pids :
                  \/ pidCwd'[q] = pidCwd[q]
                  \/ \E s \in Pids :
                       /\ pidCwd[s] # None /\ pidCwd'[q] = pidCwd[s]
                       /\ \A Q \in SUBSET Pids : Visible /\ Still(Q) /\ q \in Q =>
                            s \in Q /\ Like(Q, s, q) /\ bornIn[s] = bornIn[q]
  <2>1. PICK g \in [Pids -> Pids] : g = [q \in Pids |-> IF q \in others THEN root ELSE u[q]]
    BY <1>3
  <2>2. /\ root \in Pids /\ root # p /\ others \in SUBSET Pids /\ g[root] = root
        /\ \A x \in Pids \ others : g[x] = u[x]
        /\ \A x \in others : g[x] = root
    BY <1>3, <2>1
  <2>3. Forest(g)
    BY <1>4, <2>2, ForestLed
  <2>4. ASSUME NEW Q \in SUBSET Pids, Visible, Still(Q), NEW q \in others
        PROVE  Like(Q, q, p) /\ q # p /\ (q \in Q => bornIn[p] = bornIn[q])
    <3>1. q \in Pids /\ q # p /\ findCwdRoot(u, q) = p
      BY <1>3
    <3>2. p \in Along(u, q)
      BY <1>4, <3>1, WalkEnds
    <3>3. JoinedBy(Q, u)
      BY <1>4, <2>4
    <3> QED BY <3>1, <3>2, <3>3, WalkAlike
  <2>5. ASSUME NEW Q \in SUBSET Pids, Visible, Still(Q), NEW q \in others
        PROVE  Like(Q, q, root) /\ (q \in Q => bornIn[root] = bornIn[q])
    <3>1. Like(Q, q, p) /\ q # p /\ (q \in Q => bornIn[p] = bornIn[q])
      BY <2>4, <2>5
    <3>2. Like(Q, root, p) /\ root # p /\ (root \in Q => bornIn[p] = bornIn[root])
      BY <2>4, <2>5
    <3> QED BY <3>1, <3>2 DEF Like
  <2>6. ASSUME NEW Q \in SUBSET Pids, Visible, Still(Q)
        PROVE  JoinedBy(Q, g)
    <3>1. JoinedBy(Q, u)
      BY <1>4, <2>6
    <3>2. ASSUME NEW x \in Pids
          PROVE  Like(Q, x, g[x]) /\ (x \in Q => bornIn[g[x]] = bornIn[x])
      <4>1. CASE x \in others
        BY <2>2, <2>5, <2>6, <4>1
      <4>2. CASE x \notin others
        BY <2>2, <3>1, <4>2 DEF JoinedBy
      <4> QED BY <4>1, <4>2
    <3> QED BY <3>2 DEF JoinedBy
  <2>7. pidCwd' \in [Pids -> Known] /\ \A q \in Pids : q # root => pidCwd'[q] = pidCwd[q]
    BY <1>4, <1>8, <2>2
  <2>8. pidCwd'[root] = pidCwd[root] \/ (pidCwd[p] # None /\ pidCwd'[root] = pidCwd[p])
    BY <1>4, <1>8, <2>2
  <2>9. \A Q \in SUBSET Pids : Visible /\ Still(Q) /\ root \in Q =>
          p \in Q /\ Like(Q, p, root) /\ bornIn[p] = bornIn[root]
    BY <2>4 DEF Like
  <2>10. \A q \in Pids :
          \/ pidCwd'[q] = pidCwd[q]
          \/ \E s \in Pids :
               /\ pidCwd[s] # None /\ pidCwd'[q] = pidCwd[s]
               /\ \A Q \in SUBSET Pids : Visible /\ Still(Q) /\ q \in Q =>
                    s \in Q /\ Like(Q, s, q) /\ bornIn[s] = bornIn[q]
    BY <2>7, <2>8, <2>9
  <2>11. /\ pidCwdUnknown' \subseteq Pids /\ pidCwdUnknown \subseteq pidCwdUnknown'
         /\ everCwdShared' \subseteq Pids /\ everCwdShared \subseteq everCwdShared'
    BY <1>4, <1>8, <2>2
  <2> QED BY <1>8, <2>1, <2>3, <2>6, <2>7, <2>10, <2>11
<1> QED
  BY <1>5, <1>6, <1>7, <1>8

LEMMA SharedUnshare ==
    ASSUME SharedInv, NEW p \in Pids, TakeUnshare(p)
    PROVE  SharedInv'
<1> DEFINE s == [cwd |-> cwdGet(p), unknown |-> cwdUnknownHas(p)]
<1>1. /\ Take(p, {"unshare"}) /\ detachCwdGroup(p)
      /\ pendingCwdDetach' = [pendingCwdDetach EXCEPT ![p] = s]
      /\ UNCHANGED <<cloneFsEdges, cloneVars, mutVars, execVars, openVars>>
  BY DEF TakeUnshare
<1>2. s \in Snapshot
  BY GroupOf DEF Snapshot, cwdUnknownHas
<1> HIDE DEF s
<1>3. PICK g \in [Pids -> Pids] :
        /\ up' = g /\ Forest(g)
        /\ \A Q \in SUBSET Pids : Visible /\ Still(Q) => JoinedBy(Q, g)
  BY <1>1, GroupLeft
<1>4. /\ pidCwd' \in [Pids -> Known] /\ pidCwdUnknown' \subseteq Pids
      /\ pidCwdUnknown \subseteq pidCwdUnknown'
      /\ everCwdShared' \subseteq Pids /\ everCwdShared \subseteq everCwdShared'
  BY <1>1, GroupLeft
<1>5. /\ taken' \in [Pids -> Nat] /\ file' = file /\ bornIn' = bornIn /\ Next1(p).call = "unshare"
      /\ pendingCwdDetach \in [Pids -> Snapshot \cup {None}]
  <2>1. pendingCwdDetach \in [Pids -> Snapshot \cup {None}]
    BY DEF SharedInv, TypeOK
  <2> QED BY <1>1, <2>1, TakeFacts
<1>6. pendingCwdDetach' \in [Pids -> Snapshot \cup {None}]
      /\ \A q \in Pids : q # p => pendingCwdDetach'[q] = pendingCwdDetach[q]
  BY <1>1, <1>2, <1>5
<1>7. TypeOK'
  <2>1. up' \in [Pids -> Pids]
    BY <1>3
  <2> QED BY <1>1, <2>1, <1>4, <1>5, <1>6
          DEF SharedInv, TypeOK, Take, treeVars, cloneVars, mutVars, execVars, openVars
<1>8. Forest(up)'
  BY <1>3 DEF Forest
<1>9. Reads(p)
  <2>1. "unshare" \notin Mutations \cup Clones
    BY DEF Mutations, Clones
  <2> QED BY <1>1, <1>4, <1>5, <1>6, <2>1 DEF Reads, cloneVars, mutVars, openVars
<1>10. ReadInv'
  BY <1>1, <1>7, <1>9, ParkedStays, ReadStep DEF openVars
<1>11. ASSUME NEW Q \in SUBSET Pids, Visible, Still(Q)
       PROVE  ReadQ(Q)'
  <2>1. ReadQ(Q) /\ JoinedBy(Q, g)
    BY <1>3, <1>11 DEF SharedInv
  <2>2. JoinedInv(Q)'
    BY <1>3, <1>5, <2>1, JoinedThen
  <2>3. \A q \in Q : now(q)' = now(q)
    <3>1. {"unshare"} \cap Mutations = {}
      BY DEF Mutations
    <3> QED BY <1>1, <1>11, <3>1, QuietLine
  <2>4. ASSUME NEW q \in Q, pidCwd'[q] # None
        PROVE  pidCwd'[q] = now(q)'
    <3>1. CASE pidCwd'[q] = pidCwd[q]
      BY <2>1, <2>3, <2>4, <3>1 DEF ReadQ, DirInv
    <3>2. CASE pidCwd'[q] # pidCwd[q]
      <4>1. PICK x \in Pids :
              /\ pidCwd[x] # None /\ pidCwd'[q] = pidCwd[x]
              /\ x \in Q /\ Like(Q, x, q) /\ bornIn[x] = bornIn[q]
        <5>1. q \in Pids
          OBVIOUS
        <5> QED BY <1>1, <1>11, <3>2, <5>1, GroupLeft
      <4>2. now(x) = now(q)
        BY <1>11, <4>1, AlikeNow
      <4> QED BY <2>1, <2>3, <4>1, <4>2 DEF ReadQ, DirInv
    <3> QED BY <3>1, <3>2
  <2>5. DirInv(Q)'
    BY <2>4 DEF DirInv
  <2>6. LostInv(Q)'
    <3> SUFFICES ASSUME NEW q \in Q, firstCwdMutationTs'[q] # 0, childParent'[q] = q, pidCwd'[q] = None
                 PROVE  q \in pidCwdUnknown' /\ Only(Calls \ {"unshare"})
      BY <1>5 DEF LostInv, Only
    <3>1. pidCwd[q] = None
      <4>1. q \in Pids
        OBVIOUS
      <4>2. \/ pidCwd'[q] = pidCwd[q]
            \/ \E x \in Pids : pidCwd[x] # None /\ pidCwd'[q] = pidCwd[x]
        BY <1>1, <4>1, GroupLeft
      <4> QED BY <4>2
    <3>2. firstCwdMutationTs[q] # 0 /\ childParent[q] = q
      BY <1>1 DEF cloneVars, mutVars
    <3> QED BY <1>4, <2>1, <3>1, <3>2 DEF ReadQ, LostInv
  <2>7. SeedInv(Q)'
    BY <1>1, <2>1, ParkedStays DEF ReadQ, openVars
  <2> QED BY <2>2, <2>5, <2>6, <2>7 DEF ReadQ
<1> QED
  BY <1>1, <1>7, <1>8, <1>10, <1>11, SharedStep-----------------------------------------------------------------------------
(* A clone taken, directories shared.                                      *)

\* What moved, and is still, does not share.
LEMMA StillFirst ==
    ASSUME SharedInv, NEW Q \in SUBSET Pids, Still(Q), NEW x \in Q, Shares(x)
    PROVE  firstCwdMutationTs[x] = 0
<1>1. PICK n \in Nat : n = firstCwdMutationTs[x]
  BY DEF SharedInv, TypeOK
<1>2. n <= taken[x] /\ taken[x] <= Len(file[x]) /\ taken[x] \in Nat /\ Len(file[x]) \in Nat
      /\ (n # 0 => file[x][n].call \in Mutations)
  BY <1>1 DEF SharedInv, TypeOK, ReadInv, TimesRead, ReplayRead
<1>3. CASE n # 0
  <2>1. n \in 1..Len(file[x])
    BY <1>2, <1>3
  <2> QED BY <1>2, <1>3, <2>1 DEF Still
<1> QED
  BY <1>1, <1>3

\* The parent, the child and their groups at a clone.
LEMMA CloneFacts ==
    ASSUME SharedInv, NEW p \in Pids, Take(p, Clones), NEW c \in Pids, c = Next1(p).child,
           NEW pr \in Pids, pr = rootedCwd(p), NEW cr \in Pids, cr = rootedCwd(c),
           Visible, NEW Q \in SUBSET Pids, Still(Q)
    PROVE  /\ Like(Q, p, pr) /\ (p \in Q => bornIn[pr] = bornIn[p])
           /\ Like(Q, c, cr) /\ (c \in Q => bornIn[cr] = bornIn[c])
           /\ c \in Q => p \in Q
           /\ p \in Q => bornIn[c] = now(p)
           /\ p \in Q /\ pidCwd[pr] # None => pidCwd[pr] = bornIn[c]
           /\ Next1(p).call = "clone_fs" =>
                /\ Shares(p) /\ Shares(c) /\ Shares(pr) /\ Shares(cr)
                /\ Like(Q, cr, pr) /\ (cr \in Q => bornIn[pr] = bornIn[cr])
<1>1. /\ Like(Q, p, pr) /\ (p \in Q => bornIn[pr] = bornIn[p])
      /\ Like(Q, c, cr) /\ (c \in Q => bornIn[cr] = bornIn[c])
      /\ p \in Q /\ pidCwd[pr] # None => pidCwd[pr] = now(p)
  BY GroupOf DEF cwdGet
<1>2. PICK n \in Nat : n = lineTs(p)
  BY TakeFacts
<1>3. /\ n \in 1..Len(file[p]) /\ Next1(p) = file[p][n] /\ file[p][n].call \in Clones
      /\ at(p, n) = Next1(p).at /\ bornIn[c] = Next1(p).at /\ c # p
      /\ file \in [Pids -> Seq(Line)] /\ Kernel
  BY <1>2, TakeFacts, NewChild DEF SharedInv, TypeOK
<1>4. p \in Q => bornIn[c] = now(p)
  <2>1. Clones \cap Mutations = {}
    BY DEF Clones, Mutations
  <2> QED BY <1>3, <2>1, QuietLine
<1>5. c \in Q => p \in Q
  BY <1>3 DEF Still
<1>6. ASSUME Next1(p).call = "clone_fs"
      PROVE  /\ Shares(p) /\ Shares(c) /\ Shares(pr) /\ Shares(cr)
             /\ Like(Q, cr, pr) /\ (cr \in Q => bornIn[pr] = bornIn[cr])
  <2>1. Shares(p) /\ Shares(c)
    BY <1>3, <1>6 DEF Shares
  <2>2. Shares(pr) /\ Shares(cr)
    BY <1>1, <2>1 DEF Like
  <2>3. p \in Q <=> c \in Q
    BY <1>3, <1>5, <1>6 DEF Still
  <2>4. Like(Q, cr, pr)
    BY <1>1, <2>2, <2>3 DEF Like
  <2>5. ASSUME cr \in Q PROVE bornIn[pr] = bornIn[cr]
    <3>1. c \in Q /\ p \in Q
      BY <1>1, <1>5, <2>5 DEF Like
    <3>2. n \in 0..Len(file[p])
      BY <1>3
    <3>3. at(p, n) = bornIn[p]
      BY <1>3, <2>1, <3>1, <3>2, StillHome
    <3> QED BY <1>1, <1>3, <3>1, <3>3
  <2> QED BY <2>1, <2>2, <2>4, <2>5
<1> QED
  BY <1>1, <1>3, <1>4, <1>5, <1>6

\* The links a clone leaves.
LEMMA CloneLinks ==
    ASSUME SharedInv, NEW p \in Pids, TakeClone(p)
    PROVE  \E g \in [Pids -> Pids] :
             /\ up' = g /\ Forest(g)
             /\ \A Q \in SUBSET Pids : Visible /\ Still(Q) => JoinedBy(Q, g)
<1>1. Take(p, Clones)
  BY DEF TakeClone
<1>2. PICK c \in Pids : c = Next1(p).child
  BY <1>1, NewChild
<1>3. PICK pr \in Pids : pr = rootedCwd(p)
  BY GroupOf
<1>4. PICK cr \in Pids : cr = rootedCwd(c)
  BY GroupOf
<1>5. PICK joins \in BOOLEAN :
        joins = (Next1(p).call = "clone_fs" /\ pendingCwdDetach[Next1(p).child] = None)
  OBVIOUS
<1>6. /\ up \in [Pids -> Pids] /\ Forest(up) /\ up[pr] = pr /\ up[cr] = cr
      /\ c # p
  BY <1>1, <1>2, <1>3, <1>4, GroupOf, NewChild DEF SharedInv, TypeOK
<1>7. (up[p] = p => pr = p) /\ (up[c] = c => cr = c)
  <2>1. ASSUME NEW x \in Pids, up[x] = x PROVE rootedCwd(x) = x
    <3>1. rootedCwd(x) \in Along(up, x)
      BY <1>6, WalkEnds DEF rootedCwd
    <3>2. \A y \in {x} : up[y] \in {x}
      BY <2>1
    <3>3. {x} \in SUBSET Pids /\ x \in {x}
      OBVIOUS
    <3>4. rootedCwd(x) \in {x}
      BY <3>1, <3>2, <3>3 DEF Along
    <3> QED BY <3>4
  <2> QED BY <1>3, <1>4, <2>1
<1>8. PICK f \in [Pids -> Pids] : f = [up EXCEPT ![p] = pr]
  BY <1>6
<1>9. Forest(f) /\ f[p] = pr /\ (\A x \in Pids : x # p => f[x] = up[x]) /\ f[cr] = cr
  <2>1. Forest(f)
    BY <1>6, <1>8, ForestOne
  <2> QED BY <1>6, <1>7, <1>8, <2>1
<1>10. PICK h \in [Pids -> Pids] : h = [f EXCEPT ![c] = cr]
  OBVIOUS
<1>11. /\ Forest(h) /\ h[c] = cr /\ (\A x \in Pids : x # c => h[x] = f[x]) /\ h[pr] = pr
  <2>1. Forest(h)
    BY <1>9, <1>10, ForestOne
  <2>2. h[pr] = pr
    <3>1. CASE pr = c
      BY <1>6, <1>7, <1>10, <3>1
    <3>2. CASE pr # c
      BY <1>6, <1>9, <1>10, <3>2
    <3> QED BY <3>1, <3>2
  <2> QED BY <1>10, <2>1, <2>2
<1>12. PICK u \in [Pids -> Pids] : u = [h EXCEPT ![cr] = IF joins THEN pr ELSE h[cr]]
  OBVIOUS
<1>13. Forest(u) /\ u[cr] = (IF joins THEN pr ELSE h[cr]) /\ (\A x \in Pids : x # cr => u[x] = h[x])
  <2>1. CASE joins
    <3>1. u = [h EXCEPT ![cr] = pr]
      BY <1>12, <2>1
    <3>2. Forest([h EXCEPT ![cr] = pr])
      BY <1>11, ForestOne
    <3> QED BY <1>12, <2>1, <3>1, <3>2
  <2>2. CASE ~joins
    <3>1. u = h
      BY <1>12, <2>2
    <3> QED BY <1>11, <2>2, <3>1
  <2> QED BY <1>12, <2>1, <2>2
<1>14. up' = IF c \in pendingExecCwd THEN [u EXCEPT ![c] = findCwdRoot(u, c)] ELSE u
  <2>1. u = [up EXCEPT ![p] = pr, ![c] = cr, ![cr] = IF joins THEN pr ELSE @]
    <3>1. h[cr] = up[cr]
      BY <1>6, <1>9, <1>11
    <3>2. h = [up EXCEPT ![p] = pr, ![c] = cr]
      BY <1>6, <1>8, <1>10
    <3> QED BY <1>6, <1>12, <3>1, <3>2
  <2> QED BY <1>2, <1>3, <1>4, <1>5, <2>1 DEF TakeClone
<1>15. ASSUME Visible, NEW Q \in SUBSET Pids, Still(Q)
       PROVE  JoinedBy(Q, u)
  <2>1. /\ Like(Q, p, pr) /\ (p \in Q => bornIn[pr] = bornIn[p])
        /\ Like(Q, c, cr) /\ (c \in Q => bornIn[cr] = bornIn[c])
        /\ Next1(p).call = "clone_fs" =>
             Like(Q, cr, pr) /\ (cr \in Q => bornIn[pr] = bornIn[cr])
    BY <1>1, <1>2, <1>3, <1>4, <1>15, CloneFacts
  <2>2. JoinedBy(Q, up)
    BY <1>15 DEF SharedInv, ReadQ, JoinedInv, JoinedBy
  <2>3. JoinedBy(Q, f)
    BY <1>9, <2>1, <2>2 DEF JoinedBy
  <2>4. JoinedBy(Q, h)
    BY <1>11, <2>1, <2>3 DEF JoinedBy
  <2> QED BY <1>5, <1>13, <2>1, <2>4 DEF JoinedBy
<1>16. CASE c \notin pendingExecCwd
  BY <1>13, <1>14, <1>15, <1>16
<1>17. CASE c \in pendingExecCwd
  <2>1. PICK e \in Pids : e = findCwdRoot(u, c)
    BY <1>13, WalkEnds
  <2>2. e \in Along(u, c) /\ u[e] = e
    BY <1>13, <2>1, WalkEnds
  <2>3. PICK g \in [Pids -> Pids] : g = [u EXCEPT ![c] = e]
    OBVIOUS
  <2>4. Forest(g) /\ g[c] = e /\ \A x \in Pids : x # c => g[x] = u[x]
    <3>1. Forest(g)
      BY <1>13, <2>2, <2>3, ForestOne
    <3> QED BY <2>3, <3>1
  <2>5. ASSUME Visible, NEW Q \in SUBSET Pids, Still(Q)
        PROVE  JoinedBy(Q, g)
    <3>1. JoinedBy(Q, u)
      BY <1>15, <2>5
    <3>2. Like(Q, c, e) /\ (c \in Q => bornIn[e] = bornIn[c])
      BY <2>2, <3>1, WalkAlike
    <3> QED BY <2>4, <3>1, <3>2 DEF JoinedBy
  <2>6. up' = g
    BY <1>14, <1>17, <2>1, <2>3
  <2> QED BY <2>4, <2>5, <2>6
<1> QED
  BY <1>16, <1>17

\* Where no change of directory was noted, the process is where it was born.
LEMMA StillUnmoved ==
    ASSUME SharedInv, NEW Q \in SUBSET Pids, Still(Q), NEW x \in Q, firstCwdMutationTs[x] = 0
    PROVE  now(x) = bornIn[x]
<1>1. /\ taken[x] \in Nat /\ taken[x] <= Len(file[x]) /\ Len(file[x]) \in Nat /\ x \in Pids
      /\ StaysInv(Q) /\ Steady(Q, x, taken[x])
  BY DEF SharedInv, TypeOK, ReadInv, ReplayRead, Kernel, KernelQ, Steady
<1>2. ASSUME NEW k \in 1..taken[x]
      PROVE  file[x][k].call \notin Mutations
  <2>1. file[x][k].call \in Mutations => firstCwdMutationTs[x] \in 1..k
    BY <1>1 DEF SharedInv, ReadInv, LinesRead
  <2> QED BY <2>1
<1>3. taken[x] \in 0..Len(file[x]) /\ 0 \in 0..taken[x] /\ \A k \in (0 + 1)..taken[x] : k \in 1..taken[x]
  BY <1>1
<1>4. at(x, 0) = at(x, taken[x])
  BY <1>1, <1>2, <1>3 DEF StaysInv
<1> QED
  BY <1>4 DEF at, now

\* A process that shares, and is still, is where it was born.
LEMMA ShareHome ==
    ASSUME SharedInv, NEW Q \in SUBSET Pids, Still(Q), NEW x \in Q, Shares(x)
    PROVE  now(x) = bornIn[x]
<1> QED
  BY StillFirst, StillUnmoved

\* Two groups made one have one directory.
LEMMA UnionDirs ==
    ASSUME SharedInv, NEW p \in Pids, Take(p, Clones), NEW c \in Pids, c = Next1(p).child,
           NEW pr \in Pids, pr = rootedCwd(p), NEW cr \in Pids, cr = rootedCwd(c),
           Next1(p).call = "clone_fs", unionCwd(pr, cr)
    PROVE  /\ pidCwd' \in [Pids -> Known] /\ pidCwdUnknown' \subseteq Pids
           /\ \A Q \in SUBSET Pids : Visible /\ Still(Q) => \A q \in Q :
                /\ pidCwd'[q] # None => pidCwd'[q] = now(q)
                /\ q # c /\ firstCwdMutationTs[q] # 0 /\ childParent[q] = q /\ pidCwd'[q] = None
                     => q \in pidCwdUnknown' /\ Only(Calls \ {"unshare"})
<1>1. pidCwd \in [Pids -> Known] /\ pidCwdUnknown \subseteq Pids
  BY DEF SharedInv, TypeOK
<1>2. /\ pidCwd' \in [Pids -> Known] /\ pidCwdUnknown' \subseteq Pids
      /\ \A q \in Pids : q \notin {pr, cr} =>
           pidCwd'[q] = pidCwd[q] /\ (q \in pidCwdUnknown => q \in pidCwdUnknown')
      /\ pidCwd'[pr] \in {None, pidCwd[pr], pidCwd[cr]} /\ pidCwd'[cr] \in {None, pidCwd[pr], pidCwd[cr]}
      /\ pr = cr => pidCwd' = pidCwd
      /\ pr # cr => pidCwd'[cr] = None
  <2>1. CASE pr = cr
    <3>1. pidCwd' = pidCwd /\ pidCwdUnknown' = pidCwdUnknown
      BY <2>1 DEF unionCwd
    <3> QED BY <1>1, <2>1, <3>1
  <2>2. CASE pr # cr
    <3>1. PICK m \in {None, pidCwd[pr], pidCwd[cr]} : pidCwd' = [pidCwd EXCEPT ![cr] = None, ![pr] = m]
      BY <2>2 DEF unionCwd
    <3>2. PICK X \in SUBSET {pr} : pidCwdUnknown' = (pidCwdUnknown \ {cr}) \cup X
      <4>1. PICK X : /\ X = {q \in {pr} : \/ pidCwd[pr] # None /\ pidCwd[cr] \notin {None, pidCwd[pr]}
                                          \/ cr \in pidCwdUnknown}
                     /\ pidCwdUnknown' = (pidCwdUnknown \ {cr}) \cup X
        BY <2>2 DEF unionCwd
      <4> QED BY <4>1
    <3>3. m \in Known
      BY <1>1 DEF Known
    <3>4. pidCwd' \in [Pids -> Known] /\ pidCwd'[pr] = m /\ pidCwd'[cr] = None
          /\ \A q \in Pids : q \notin {pr, cr} => pidCwd'[q] = pidCwd[q]
      BY <1>1, <2>2, <3>1, <3>3 DEF Known
    <3>5. pidCwdUnknown' \subseteq Pids
          /\ \A q \in Pids : q \notin {pr, cr} => (q \in pidCwdUnknown => q \in pidCwdUnknown')
      BY <1>1, <3>2
    <3> QED BY <2>2, <3>1, <3>4, <3>5
  <2> QED BY <2>1, <2>2
<1>3. ASSUME NEW Q \in SUBSET Pids, Visible, Still(Q), NEW q \in Q
      PROVE  /\ pidCwd'[q] # None => pidCwd'[q] = now(q)
             /\ q # c /\ firstCwdMutationTs[q] # 0 /\ childParent[q] = q /\ pidCwd'[q] = None
                  => q \in pidCwdUnknown' /\ Only(Calls \ {"unshare"})
  <2>1. /\ Shares(pr) /\ Shares(cr) /\ Like(Q, cr, pr) /\ (cr \in Q => bornIn[pr] = bornIn[cr])
    BY <1>3, CloneFacts
  <2>2. /\ q \in Pids
        /\ \A x \in Q : pidCwd[x] # None => pidCwd[x] = now(x)
        /\ firstCwdMutationTs[q] # 0 /\ childParent[q] = q /\ pidCwd[q] = None
             => q \in pidCwdUnknown /\ Only(Calls \ {"unshare"})
    BY <1>3 DEF SharedInv, ReadQ, DirInv, LostInv
  <2>3. CASE q \notin {pr, cr}
    BY <1>2, <2>2, <2>3
  <2>4. CASE q \in {pr, cr}
    <3>1. pr \in Q /\ cr \in Q /\ bornIn[pr] = bornIn[cr]
      BY <2>1, <2>4 DEF Like
    <3>2. now(pr) = bornIn[pr] /\ now(cr) = bornIn[cr]
      BY <1>3, <2>1, <3>1, ShareHome
    <3>3. firstCwdMutationTs[q] = 0
      BY <1>3, <2>1, <2>4, StillFirst
    <3>4. pidCwd'[q] \in {None, pidCwd[pr], pidCwd[cr]}
      BY <1>2, <2>4
    <3> QED BY <2>2, <2>4, <3>1, <3>2, <3>3, <3>4
  <2> QED BY <2>3, <2>4
<1> QED
  BY <1>2, <1>3

\* A child that does not share gets its parent's directory, if it was born there.
LEMMA CopyDirs ==
    ASSUME SharedInv, NEW p \in Pids, Take(p, Clones), NEW c \in Pids, c = Next1(p).child,
           NEW pr \in Pids, pr = rootedCwd(p), NEW cr \in Pids, cr = rootedCwd(c),
           NEW shared \in BOOLEAN, shared = (Next1(p).call = "clone_fs"),
           NEW snap \in Snapshot \cup {None}, snap = pendingCwdDetach[c],
           copyCwd(pr, cr, snap, shared)
    PROVE  /\ pidCwd' \in [Pids -> Known] /\ pidCwdUnknown' \subseteq Pids
           /\ \A Q \in SUBSET Pids : Visible /\ Still(Q) => \A q \in Q :
                /\ pidCwd'[q] # None => pidCwd'[q] = now(q)
                /\ q # c /\ firstCwdMutationTs[q] # 0 /\ childParent[q] = q /\ pidCwd'[q] = None
                     => q \in pidCwdUnknown' /\ Only(Calls \ {"unshare"})
<1>1. pidCwd \in [Pids -> Known] /\ pidCwdUnknown \subseteq Pids
  BY DEF SharedInv, TypeOK
<1>2. PICK childUnknown \in BOOLEAN :
        childUnknown = IF snap = None THEN cr \in pidCwdUnknown ELSE snap.unknown
  <2>1. CASE snap = None
    <3>1. CASE cr \in pidCwdUnknown
      BY <2>1, <3>1
    <3>2. CASE cr \notin pidCwdUnknown
      <4>1. FALSE = (cr \in pidCwdUnknown) /\ FALSE \in BOOLEAN
        BY <3>2
      <4> QED BY <2>1, <4>1
    <3> QED BY <3>1, <3>2
  <2>2. CASE snap # None
    <3>1. snap \in Snapshot
      BY <2>2
    <3>2. snap.unknown \in BOOLEAN
      BY <3>1 DEF Snapshot
    <3> QED BY <2>2, <3>2
  <2> QED BY <2>1, <2>2
<1>3. PICK childCwd \in Known : childCwd = IF snap = None THEN pidCwd[cr] ELSE snap.cwd
  BY <1>1 DEF Snapshot
<1>4. PICK unknown \in BOOLEAN : unknown = (pr \in pidCwdUnknown \/ childUnknown)
  OBVIOUS
<1>5. PICK conflict \in BOOLEAN :
        conflict = (~unknown /\ pidCwd[pr] # None /\ childCwd \notin {None, pidCwd[pr]})
  OBVIOUS
<1>6. PICK inherits \in BOOLEAN :
        inherits = (~unknown /\ pidCwd[pr] # None /\ childCwd = None /\ pidCwd[cr] = None)
  OBVIOUS
<1>7. PICK spoiled \in SUBSET {pr, cr} : spoiled = IF shared THEN {pr, cr} ELSE {cr}
  OBVIOUS
<1>8. /\ pidCwdUnknown' = pidCwdUnknown \cup (IF unknown \/ conflict THEN spoiled ELSE {})
      /\ pidCwd' = [q \in Pids |->
                      IF q \in spoiled /\ (conflict \/ (unknown /\ shared)) THEN None
                      ELSE IF q = cr /\ inherits THEN pidCwd[pr] ELSE pidCwd[q]]
  BY <1>2, <1>3, <1>4, <1>5, <1>6, <1>7 DEF copyCwd
<1>9. /\ pidCwdUnknown' \subseteq Pids /\ pidCwdUnknown \subseteq pidCwdUnknown'
      /\ pidCwd' \in [Pids -> Known]
      /\ \A q \in Pids : \/ pidCwd'[q] = pidCwd[q]
                         \/ pidCwd'[q] = None /\ q \in spoiled
                         \/ q = cr /\ inherits /\ pidCwd'[q] = pidCwd[pr]
  <2>1. pidCwdUnknown' \subseteq Pids /\ pidCwdUnknown \subseteq pidCwdUnknown'
    BY <1>1, <1>8
  <2>2. pidCwd' \in [Pids -> Known]
    BY <1>1, <1>8 DEF Known
  <2>3. \A q \in Pids : \/ pidCwd'[q] = pidCwd[q]
                        \/ pidCwd'[q] = None /\ q \in spoiled
                        \/ q = cr /\ inherits /\ pidCwd'[q] = pidCwd[pr]
    BY <1>8
  <2> QED BY <2>1, <2>2, <2>3
<1>10. ASSUME NEW Q \in SUBSET Pids, Visible, Still(Q), NEW q \in Q
       PROVE  /\ pidCwd'[q] # None => pidCwd'[q] = now(q)
              /\ q # c /\ firstCwdMutationTs[q] # 0 /\ childParent[q] = q /\ pidCwd'[q] = None
                   => q \in pidCwdUnknown' /\ Only(Calls \ {"unshare"})
  <2>1. /\ Like(Q, p, pr)
        /\ Like(Q, c, cr) /\ (c \in Q => bornIn[cr] = bornIn[c])
        /\ c \in Q => p \in Q
        /\ p \in Q /\ pidCwd[pr] # None => pidCwd[pr] = bornIn[c]
        /\ shared => Shares(pr) /\ Shares(cr)
    <3>1. /\ Like(Q, p, pr)
          /\ Like(Q, c, cr) /\ (c \in Q => bornIn[cr] = bornIn[c])
          /\ c \in Q => p \in Q
          /\ p \in Q /\ pidCwd[pr] # None => pidCwd[pr] = bornIn[c]
          /\ Next1(p).call = "clone_fs" => Shares(pr) /\ Shares(cr)
      BY <1>10, CloneFacts
    <3> QED BY <3>1
  <2>2. /\ q \in Pids
        /\ pidCwd[q] # None => pidCwd[q] = now(q)
        /\ \A x \in Q : firstCwdMutationTs[x] # 0 /\ childParent[x] = x /\ pidCwd[x] = None
             => x \in pidCwdUnknown /\ Only(Calls \ {"unshare"})
    BY <1>10 DEF SharedInv, ReadQ, DirInv, LostInv
  <2>3. CASE pidCwd'[q] = pidCwd[q]
    BY <1>9, <2>2, <2>3
  <2>4. CASE pidCwd'[q] = None /\ q \in spoiled
    <3>1. q # c => Shares(q)
      BY <1>7, <2>1, <2>4 DEF Like
    <3> QED BY <1>10, <2>4, <3>1, StillFirst
  <2>5. CASE q = cr /\ inherits /\ pidCwd'[q] = pidCwd[pr]
    <3>1. c \in Q /\ p \in Q /\ pidCwd[pr] # None /\ pidCwd[pr] = bornIn[c] /\ bornIn[cr] = bornIn[c]
      BY <1>6, <2>1, <2>5 DEF Like
    <3>2. now(cr) = bornIn[cr]
      <4>1. CASE cr # c
        <5>1. Shares(cr)
          BY <2>1, <4>1 DEF Like
        <5> QED BY <1>10, <2>5, <5>1, ShareHome
      <4>2. CASE cr = c
        <5>1. firstCwdMutationTs[c] = 0
          <6>1. ASSUME firstCwdMutationTs[c] # 0 PROVE FALSE
            <7>1. childParent[c] = c /\ pidCwd[c] = None
              BY <1>6, <2>5, <4>2, NewChild
            <7>2. c \in pidCwdUnknown /\ Only(Calls \ {"unshare"})
              BY <2>2, <3>1, <6>1, <7>1
            <7>3. snap = None
              BY <7>2 DEF SharedInv, ReadInv, DetachedRead, Only
            <7>4. unknown
              BY <1>2, <1>4, <4>2, <7>2, <7>3
            <7> QED BY <1>6, <2>5, <7>4
          <6> QED BY <6>1
        <5> QED BY <1>10, <3>1, <4>2, <5>1, StillUnmoved
      <4> QED BY <4>1, <4>2
    <3> QED BY <2>5, <3>1, <3>2
  <2> QED BY <1>9, <2>2, <2>3, <2>4, <2>5
<1> QED
  BY <1>9, <1>10

\* What is kept for an exec seen before the clone.
LEMMA SettleType ==
    ASSUME SharedInv, NEW c \in Pids, settleExecCwd(c), NEW g \in [Pids -> Pids], up' = g, Forest(g),
           pidCwd' \in [Pids -> Known]
    PROVE  execCwd' \in [Pids -> Known] /\ execKnown' \subseteq Pids /\ pendingExecCwd' \subseteq Pids
<1>1. execCwd \in [Pids -> Known] /\ execKnown \subseteq Pids /\ pendingExecCwd \subseteq Pids
  BY DEF SharedInv, TypeOK
<1>2. PICK r \in Pids : r = findCwdRoot(g, c)
  BY WalkEnds
<1>3. findCwdRoot(up', c) = r
  BY <1>2 DEF findCwdRoot, Along
<1>4. CASE c \in pendingExecCwd
  <2>1. /\ execCwd' = [execCwd EXCEPT ![c] = IF r \in pidCwdUnknown' THEN None ELSE pidCwd'[r]]
        /\ execKnown' = execKnown \cup {c} /\ pendingExecCwd' = pendingExecCwd \ {c}
    BY <1>3, <1>4 DEF settleExecCwd
  <2>2. (IF r \in pidCwdUnknown' THEN None ELSE pidCwd'[r]) \in Known
    BY <1>2 DEF Known
  <2> QED BY <1>1, <2>1, <2>2
<1>5. CASE c \notin pendingExecCwd
  BY <1>1, <1>5 DEF settleExecCwd, execVars
<1> QED
  BY <1>4, <1>5

\* The parked opens of the child learn its parent, and where the parent was.
LEMMA StampsTrue ==
    ASSUME SharedInv, NEW p \in Pids, Take(p, Clones), NEW c \in Pids, c = Next1(p).child,
           NEW shared \in BOOLEAN, shared = (Next1(p).call = "clone_fs"),
           stampDeferredRelOpens(p, c, shared),
           childParent' = [childParent EXCEPT ![c] = p],
           childSeedCloneTs' = [childSeedCloneTs EXCEPT ![c] = lineTs(p)]
    PROVE  /\ deferredRelOpens' \subseteq Deferred /\ ParkedRead'
           /\ \A o \in deferredRelOpens' :
                \/ o \in deferredRelOpens
                \/ o.pid = c /\ o.seedParentPid = p /\ o.initialCwd = canonicalCwd(p)
<1>1. /\ deferredRelOpens \subseteq Deferred /\ ParkedRead /\ canonicalCwd(p) \in Known
      /\ childParent \in [Pids -> Pids] /\ childSeedCloneTs \in [Pids -> Nat]
  BY GroupOf DEF SharedInv, TypeOK, ReadInv
<1>2. PICK n \in Nat : n = lineTs(p)
  BY TakeFacts
<1>3. /\ file' = file /\ file[p][n] = Next1(p) /\ Next1(p).call \in Clones
      /\ childParent[c] = c /\ c # p
      /\ \A q \in Pids : taken[q] \in Nat /\ taken'[q] \in Nat /\ taken[q] <= taken'[q]
  BY <1>2, TakeFacts, NewChild
<1>4. ASSUME NEW o \in deferredRelOpens'
      PROVE  /\ o \in Deferred
             /\ \E d \in deferredRelOpens :
                  /\ o.pid = d.pid /\ o.ts = d.ts /\ o.sharedAtRead = d.sharedAtRead
                  /\ \/ o = d /\ (d.pid = c => d.stamped)
                     \/ /\ d.pid = c /\ o.stamped /\ o.initialCwd = canonicalCwd(p)
                        /\ o.cloneFsSeed = shared /\ o.seedParentPid = p
  <2>1. PICK d \in deferredRelOpens :
          o = IF d.pid = c /\ ~d.stamped
              THEN [d EXCEPT !.stamped = TRUE, !.initialCwd = canonicalCwd(p), !.cloneFsSeed = shared,
                             !.seedParentPid = p]
              ELSE d
    BY DEF stampDeferredRelOpens
  <2>2. d \in Deferred
    BY <1>1
  <2>3. CASE d.pid = c /\ ~d.stamped
    <3>1. o = [d EXCEPT !.stamped = TRUE, !.initialCwd = canonicalCwd(p), !.cloneFsSeed = shared,
                        !.seedParentPid = p]
      BY <2>1, <2>3
    <3>2. /\ o \in Deferred /\ o.pid = d.pid /\ o.ts = d.ts /\ o.sharedAtRead = d.sharedAtRead
          /\ o.stamped /\ o.initialCwd = canonicalCwd(p)
          /\ o.cloneFsSeed = shared /\ o.seedParentPid = p
      BY <1>1, <2>2, <3>1 DEF Deferred
    <3> QED BY <2>3, <3>2
  <2>4. CASE ~(d.pid = c /\ ~d.stamped)
    <3>1. o = d
      BY <2>1, <2>4
    <3> QED BY <2>2, <2>4, <3>1
  <2> QED BY <2>3, <2>4
<1>5. deferredRelOpens' \subseteq Deferred
  BY <1>4
<1>6. \A o \in deferredRelOpens' :
        \/ o \in deferredRelOpens
        \/ o.pid = c /\ o.seedParentPid = p /\ o.initialCwd = canonicalCwd(p)
  BY <1>4
<1>7. ASSUME NEW o \in deferredRelOpens'
      PROVE  /\ o.ts \in 1..taken'[o.pid]
             /\ ~o.sharedAtRead => \A j \in 1..o.ts : file[o.pid][j].call # "clone_fs"
             /\ o.stamped =>
                  /\ childParent'[o.pid] = o.seedParentPid /\ o.seedParentPid # o.pid
                  /\ ~o.cloneFsSeed => file[o.seedParentPid][childSeedCloneTs'[o.pid]].call = "clone"
  <2>1. PICK d \in deferredRelOpens :
          /\ o.pid = d.pid /\ o.ts = d.ts /\ o.sharedAtRead = d.sharedAtRead
          /\ \/ o = d /\ (d.pid = c => d.stamped)
             \/ /\ d.pid = c /\ o.stamped /\ o.initialCwd = canonicalCwd(p)
                /\ o.cloneFsSeed = shared /\ o.seedParentPid = p
    BY <1>4
  <2>2. /\ d.pid \in Pids /\ d.ts \in 1..taken[d.pid]
        /\ ~d.sharedAtRead => \A j \in 1..d.ts : file[d.pid][j].call # "clone_fs"
        /\ d.stamped =>
             /\ childParent[d.pid] = d.seedParentPid /\ d.seedParentPid # d.pid
             /\ ~d.cloneFsSeed => file[d.seedParentPid][childSeedCloneTs[d.pid]].call = "clone"
    BY <1>1 DEF Deferred, ParkedRead
  <2>3. o.ts \in 1..taken'[o.pid]
    BY <1>3, <2>1, <2>2
  <2>4. ~o.sharedAtRead => \A j \in 1..o.ts : file[o.pid][j].call # "clone_fs"
    BY <2>1, <2>2
  <2>5. CASE o = d /\ (d.pid = c => d.stamped)
    <3>1. ASSUME o.stamped
          PROVE  /\ childParent'[o.pid] = o.seedParentPid /\ o.seedParentPid # o.pid
                 /\ ~o.cloneFsSeed => file[o.seedParentPid][childSeedCloneTs'[o.pid]].call = "clone"
      <4>1. d.pid # c
        BY <1>3, <2>2, <2>5, <3>1
      <4>2. childParent'[d.pid] = childParent[d.pid] /\ childSeedCloneTs'[d.pid] = childSeedCloneTs[d.pid]
        BY <1>1, <2>2, <4>1
      <4> QED BY <2>2, <2>5, <3>1, <4>2
    <3> QED BY <2>3, <2>4, <3>1
  <2>6. CASE d.pid = c /\ o.stamped /\ o.cloneFsSeed = shared /\ o.seedParentPid = p
    <3>1. childParent'[c] = p /\ childSeedCloneTs'[c] = n
      BY <1>1, <1>2
    <3>2. ~shared => Next1(p).call = "clone"
      BY <1>3 DEF Clones
    <3> QED BY <1>3, <2>1, <2>3, <2>4, <2>6, <3>1, <3>2
  <2> QED BY <2>1, <2>5, <2>6
<1>8. ParkedRead'
  BY <1>3, <1>7 DEF ParkedRead
<1> QED
  BY <1>5, <1>6, <1>8

LEMMA SharedClone ==
    ASSUME SharedInv, NEW p \in Pids, TakeClone(p)
    PROVE  SharedInv'
<1>1. Take(p, Clones)
  BY DEF TakeClone
<1>2. PICK c \in Pids : c = Next1(p).child
  BY <1>1, NewChild
<1>3. PICK pr \in Pids : pr = rootedCwd(p)
  BY GroupOf
<1>4. PICK cr \in Pids : cr = rootedCwd(c)
  BY GroupOf
<1>5. PICK shared \in BOOLEAN : shared = (Next1(p).call = "clone_fs")
  OBVIOUS
<1>6. PICK snap \in Snapshot \cup {None} : snap = pendingCwdDetach[c]
  BY DEF SharedInv, TypeOK
<1>7. PICK n \in Nat : n = lineTs(p)
  BY <1>1, TakeFacts
<1>8. PICK k \in Known : k = canonicalCwd(p)
  BY GroupOf
<1>9. /\ childParent' = [childParent EXCEPT ![c] = p]
      /\ pidCloneTimeCwd' = [pidCloneTimeCwd EXCEPT ![c] = IF @ = None THEN k ELSE @]
      /\ childSeedCloneTs' = [childSeedCloneTs EXCEPT ![c] = lineTs(p)]
      /\ everCwdShared' = everCwdShared \cup (IF shared THEN {p, c} ELSE {})
      /\ cloneFsEdges' = cloneFsEdges \cup (IF shared THEN {<<p, c>>, <<c, p>>} ELSE {})
      /\ pendingCwdDetach' = [pendingCwdDetach EXCEPT ![c] = None]
      /\ IF shared /\ snap = None THEN unionCwd(pr, cr) ELSE copyCwd(pr, cr, snap, shared)
      /\ settleExecCwd(c) /\ stampDeferredRelOpens(p, c, shared)
      /\ UNCHANGED <<mutVars, emitted>>
  BY <1>2, <1>3, <1>4, <1>5, <1>6, <1>8 DEF TakeClone
<1>10. /\ taken' \in [Pids -> Nat] /\ file' = file /\ bornIn' = bornIn /\ Next1(p).call \in Clones
       /\ childParent[c] = c /\ c # p /\ bornIn[c] = Next1(p).at
  BY <1>1, <1>2, TakeFacts, NewChild
<1>11. PICK g \in [Pids -> Pids] :
         /\ up' = g /\ Forest(g)
         /\ \A Q \in SUBSET Pids : Visible /\ Still(Q) => JoinedBy(Q, g)
  BY CloneLinks
<1>12. /\ pidCwd' \in [Pids -> Known] /\ pidCwdUnknown' \subseteq Pids
       /\ \A Q \in SUBSET Pids : Visible /\ Still(Q) => \A q \in Q :
            /\ pidCwd'[q] # None => pidCwd'[q] = now(q)
            /\ q # c /\ firstCwdMutationTs[q] # 0 /\ childParent[q] = q /\ pidCwd'[q] = None
                 => q \in pidCwdUnknown' /\ Only(Calls \ {"unshare"})
  <2>1. CASE shared /\ snap = None
    <3>1. unionCwd(pr, cr) /\ Next1(p).call = "clone_fs"
      BY <1>5, <1>9, <2>1
    <3> QED BY <1>1, <1>2, <1>3, <1>4, <3>1, UnionDirs
  <2>2. CASE ~(shared /\ snap = None)
    <3>1. copyCwd(pr, cr, snap, shared)
      BY <1>9, <2>2
    <3> QED BY <1>1, <1>2, <1>3, <1>4, <1>5, <1>6, <3>1, CopyDirs
  <2> QED BY <2>1, <2>2
<1>13. /\ deferredRelOpens' \subseteq Deferred /\ ParkedRead'
       /\ \A o \in deferredRelOpens' :
            \/ o \in deferredRelOpens
            \/ o.pid = c /\ o.seedParentPid = p /\ o.initialCwd = k
  <2>1. stampDeferredRelOpens(p, c, shared) /\ childParent' = [childParent EXCEPT ![c] = p]
        /\ childSeedCloneTs' = [childSeedCloneTs EXCEPT ![c] = lineTs(p)]
    BY <1>9
  <2>2. /\ deferredRelOpens' \subseteq Deferred /\ ParkedRead'
        /\ \A o \in deferredRelOpens' :
             \/ o \in deferredRelOpens
             \/ o.pid = c /\ o.seedParentPid = p /\ o.initialCwd = canonicalCwd(p)
    BY <1>1, <1>2, <1>5, <2>1, StampsTrue
  <2> QED BY <1>8, <2>2
<1>14. execCwd' \in [Pids -> Known] /\ execKnown' \subseteq Pids /\ pendingExecCwd' \subseteq Pids
  BY <1>9, <1>11, <1>12, SettleType
<1>15. /\ childParent \in [Pids -> Pids] /\ pidCloneTimeCwd \in [Pids -> Known]
       /\ childSeedCloneTs \in [Pids -> Nat] /\ everCwdShared \subseteq Pids
       /\ cloneFsEdges \subseteq Pids \X Pids /\ pendingCwdDetach \in [Pids -> Snapshot \cup {None}]
  BY DEF SharedInv, TypeOK
<1>16. /\ childParent' \in [Pids -> Pids] /\ pidCloneTimeCwd' \in [Pids -> Known]
       /\ childSeedCloneTs' \in [Pids -> Nat] /\ everCwdShared' \subseteq Pids
       /\ cloneFsEdges' \subseteq Pids \X Pids /\ pendingCwdDetach' \in [Pids -> Snapshot \cup {None}]
  BY <1>7, <1>9, <1>15
<1>17. TypeOK'
  <2>1. up' \in [Pids -> Pids]
    BY <1>11
  <2> QED BY <1>1, <1>9, <1>10, <1>12, <1>13, <1>14, <1>16, <2>1
          DEF SharedInv, TypeOK, Take, treeVars, mutVars
<1>18. Forest(up)'
  BY <1>11 DEF Forest
<1>19. /\ childParent'[c] = p /\ childSeedCloneTs'[c] = lineTs(p)
       /\ \A q \in Pids : q # c =>
            /\ childParent'[q] = childParent[q] /\ childSeedCloneTs'[q] = childSeedCloneTs[q]
            /\ pidCloneTimeCwd'[q] = pidCloneTimeCwd[q]
            /\ pendingCwdDetach'[q] = pendingCwdDetach[q]
       /\ pidCloneTimeCwd'[c] \in {k, pidCloneTimeCwd[c]} /\ pendingCwdDetach'[c] = None
  BY <1>9, <1>15
<1>20. Reads(p)
  <2>1. Clones \cap Mutations = {}
    BY DEF Clones, Mutations
  <2>2. Next1(p).call \notin Mutations
    BY <1>10, <2>1
  <2>3. \A q \in Pids : pendingCwdDetach'[q] \in {None, pendingCwdDetach[q]}
    BY <1>19
  <2>4. \A e \in emitted' : e \in emitted \/ ~e.replay
    BY <1>9
  <2>5. /\ everCwdShared \subseteq everCwdShared' /\ cloneFsEdges \subseteq cloneFsEdges'
        /\ shared => /\ p \in everCwdShared' /\ c \in everCwdShared'
                     /\ <<p, c>> \in cloneFsEdges' /\ <<c, p>> \in cloneFsEdges'
    BY <1>9
  <2>6. firstCwdMutationTs' = firstCwdMutationTs /\ lastCwdMutationTs' = lastCwdMutationTs
    BY <1>9 DEF mutVars
  <2>7. \A q \in Pids :
          \/ childParent'[q] = childParent[q] /\ childSeedCloneTs'[q] = childSeedCloneTs[q]
          \/ Next1(p).call \in Clones /\ q = Next1(p).child
    BY <1>2, <1>10, <1>19
  <2>8. \A q \in Pids : childParent[q] # q =>
          childParent'[q] = childParent[q] /\ childSeedCloneTs'[q] = childSeedCloneTs[q]
    BY <1>10, <1>19
  <2> QED BY <1>2, <1>5, <1>19, <2>2, <2>3, <2>4, <2>5, <2>6, <2>7, <2>8 DEF Reads
<1>21. ReadInv'
  BY <1>1, <1>13, <1>17, <1>20, ReadStep
<1>22. ASSUME NEW Q \in SUBSET Pids, Visible, Still(Q)
       PROVE  ReadQ(Q)'
  <2>1. ReadQ(Q) /\ JoinedBy(Q, g)
    BY <1>11, <1>22 DEF SharedInv
  <2>2. JoinedInv(Q)'
    BY <1>10, <1>11, <2>1, JoinedThen
  <2>3. \A q \in Q : now(q)' = now(q)
    <3>1. Clones \cap Mutations = {}
      BY DEF Clones, Mutations
    <3> QED BY <1>1, <1>22, <3>1, QuietLine
  <2>4. \A q \in Q : /\ pidCwd'[q] # None => pidCwd'[q] = now(q)
                     /\ q # c /\ firstCwdMutationTs[q] # 0 /\ childParent[q] = q /\ pidCwd'[q] = None
                          => q \in pidCwdUnknown' /\ Only(Calls \ {"unshare"})
    BY <1>12, <1>22
  <2>5. DirInv(Q)'
    BY <2>3, <2>4 DEF DirInv
  <2>6. LostInv(Q)'
    <3> SUFFICES ASSUME NEW q \in Q, firstCwdMutationTs'[q] # 0, childParent'[q] = q, pidCwd'[q] = None
                 PROVE  q \in pidCwdUnknown' /\ Only(Calls \ {"unshare"})
      BY <1>10 DEF LostInv, Only
    <3>1. q # c /\ q \in Pids
      BY <1>10, <1>19
    <3>2. childParent[q] = q /\ firstCwdMutationTs[q] # 0
      BY <1>9, <1>19, <3>1 DEF mutVars
    <3> QED BY <2>4, <3>1, <3>2
  <2>7. /\ c \in Q => p \in Q
        /\ p \in Q /\ k # None => k = bornIn[c]
    <3>1. /\ c \in Q => p \in Q
          /\ p \in Q /\ pidCwd[pr] # None => pidCwd[pr] = bornIn[c]
      BY <1>1, <1>2, <1>3, <1>4, <1>22, CloneFacts
    <3>2. k # None => k = pidCwd[pr]
      BY <1>3, <1>8, GroupOf DEF cwdGet
    <3> QED BY <3>1, <3>2
  <2>8. \A q \in Q : pidCloneTimeCwd'[q] # None => pidCloneTimeCwd'[q] = bornIn[q]
    <3> SUFFICES ASSUME NEW q \in Q, pidCloneTimeCwd'[q] # None
                 PROVE  pidCloneTimeCwd'[q] = bornIn[q]
      OBVIOUS
    <3>1. pidCloneTimeCwd[q] # None => pidCloneTimeCwd[q] = bornIn[q]
      BY <2>1 DEF ReadQ, SeedInv
    <3> QED BY <1>19, <2>7, <3>1
  <2>9. \A o \in deferredRelOpens' :
          o.stamped /\ o.seedParentPid \in Q /\ o.initialCwd # None => o.initialCwd = bornIn[o.pid]
    <3> SUFFICES ASSUME NEW o \in deferredRelOpens',
                        o.stamped, o.seedParentPid \in Q, o.initialCwd # None
                 PROVE  o.initialCwd = bornIn[o.pid]
      OBVIOUS
    <3>1. CASE o \in deferredRelOpens
      BY <2>1, <3>1 DEF ReadQ, SeedInv
    <3>2. CASE o.pid = c /\ o.seedParentPid = p /\ o.initialCwd = k
      BY <2>7, <3>2
    <3> QED BY <1>13, <3>1, <3>2
  <2>10. SeedInv(Q)'
    BY <1>10, <2>8, <2>9 DEF SeedInv
  <2> QED BY <2>2, <2>5, <2>6, <2>10 DEF ReadQ
<1> QED
  BY <1>1, <1>17, <1>18, <1>21, <1>22, SharedStep-----------------------------------------------------------------------------
(* The replay, directories shared.                                         *)

AllTaken == \A p \in Pids : taken[p] = Len(file[p])

\* The processes of L and those reached from them over sharing clones.
SharedFrom(L) ==
    {q \in Pids : \A S \in SUBSET Pids :
        /\ L \subseteq S
        /\ \A p \in S : \A i \in 1..Len(file[p]) : file[p][i].call = "clone_fs" => file[p][i].child \in S
        => q \in S}

\* If none of p's parents shares a directory with a process that moved, the parents and all
\* they share with are still.
LEMMA LineageStill ==
    ASSUME SharedInv, AllTaken, NEW p \in Pids, ~lineageSharedGroupMutated(p)
    PROVE  \E Q \in SUBSET Pids : Still(Q) /\ p \in Q
<1>1. PICK L \in SUBSET Pids : L = Along(childParent, p)
  BY DEF Along
<1>2. PICK Q \in SUBSET Pids : Q = SharedFrom(L)
  BY DEF SharedFrom
<1>3. /\ file \in [Pids -> Seq(Line)] /\ childParent \in [Pids -> Pids]
      /\ \A q \in Pids : Len(file[q]) \in Nat
      /\ \A q \in Pids : \A i \in 1..Len(file[q]) : file[q][i].child \in Pids /\ file[q][i] \in Line
      /\ LinesRead /\ OneBirth /\ Shown
  <2>1. file \in [Pids -> Seq(Line)] /\ childParent \in [Pids -> Pids]
    BY DEF SharedInv, TypeOK
  <2>2. \A q \in Pids : \A i \in 1..Len(file[q]) : file[q][i] \in Line
    BY <2>1
  <2>3. LinesRead /\ OneBirth /\ Shown
    BY DEF SharedInv, ReadInv, Kernel, KernelInv
  <2>4. \A q \in Pids : Len(file[q]) \in Nat
    BY <2>1
  <2>5. \A q \in Pids : \A i \in 1..Len(file[q]) : file[q][i].child \in Pids
    BY <2>2 DEF Line
  <2> QED BY <2>1, <2>2, <2>3, <2>4, <2>5
<1>4. p \in L /\ \A x \in L : childParent[x] \in L
  <2>1. p \in L
    BY <1>1 DEF Along
  <2>2. ASSUME NEW x \in L PROVE childParent[x] \in L
    <3>1. childParent[x] \in Pids
      BY <1>3
    <3>2. \A S \in SUBSET Pids : p \in S /\ (\A y \in S : childParent[y] \in S) => childParent[x] \in S
      BY <1>1 DEF Along
    <3> QED BY <1>1, <3>1, <3>2 DEF Along
  <2> QED BY <2>1, <2>2
<1>5. L \subseteq Q
  BY <1>2 DEF SharedFrom
<1>6. ASSUME NEW a \in Q, NEW i \in 1..Len(file[a]), file[a][i].call = "clone_fs"
      PROVE  file[a][i].child \in Q
  <2>1. PICK b \in Pids : b = file[a][i].child
    BY <1>3
  <2>2. ASSUME NEW S \in SUBSET Pids, L \subseteq S,
               \A x \in S : \A j \in 1..Len(file[x]) : file[x][j].call = "clone_fs" => file[x][j].child \in S
        PROVE  b \in S
    <3>1. a \in S
      BY <1>2, <2>2 DEF SharedFrom
    <3> QED BY <1>6, <2>1, <2>2, <3>1
  <2>3. b \in SharedFrom(L)
    BY <2>2 DEF SharedFrom
  <2> QED BY <1>2, <2>1, <2>3
<1>7. \A a \in Pids : \A i \in 1..Len(file[a]) : i \in 1..taken[a]
  BY DEF AllTaken
<1>8. ASSUME NEW a \in Pids, NEW i \in 1..Len(file[a]), file[a][i].call \in Clones, file[a][i].child \in Q
      PROVE  a \in Q
  <2>1. PICK c \in Pids : c = file[a][i].child
    BY <1>3
  <2>2. childParent[c] = a
    BY <1>3, <1>7, <1>8, <2>1 DEF LinesRead
  <2>3. CASE c \in L
    BY <1>4, <1>5, <2>2, <2>3
  <2>4. CASE c \notin L
    <3>1. ASSUME a \notin Q PROVE FALSE
      <4>1. PICK S \in SUBSET Pids : S = Q \ {c}
        OBVIOUS
      <4>2. L \subseteq S
        BY <1>5, <2>4, <4>1
      <4>3. ASSUME NEW x \in S, NEW j \in 1..Len(file[x]), file[x][j].call = "clone_fs"
            PROVE  file[x][j].child \in S
        <5>1. x \in Q /\ file[x][j].child \in Q
          BY <1>6, <4>1, <4>3
        <5>2. file[x][j].child # c
          <6>1. ASSUME file[x][j].child = c PROVE FALSE
            <7>1. file[x][j].call \in Clones
              BY <4>3 DEF Clones
            <7>2. x = a
              BY <1>3, <1>8, <2>1, <4>3, <6>1, <7>1 DEF OneBirth
            <7> QED BY <3>1, <5>1, <7>2
          <6> QED BY <6>1
        <5> QED BY <4>1, <5>1, <5>2
      <4>4. c \in Q
        BY <1>8, <2>1
      <4>5. c \in S
        BY <1>2, <4>2, <4>3, <4>4 DEF SharedFrom
      <4> QED BY <4>1, <4>5
    <3> QED BY <3>1
  <2> QED BY <2>3, <2>4
<1>9. ASSUME NEW a \in Q, NEW i \in 1..Len(file[a]), file[a][i].call \in Mutations
      PROVE  ~Shares(a)
  <2>1. PICK T \in SUBSET Pids :
          T = {q \in Pids : Shares(q) => \E b \in L :
                /\ b \in everCwdShared
                /\ \A S \in SUBSET Pids :
                     b \in S /\ (\A e \in cloneFsEdges : e[1] \in S => e[2] \in S) => q \in S}
    OBVIOUS
  <2>2. L \subseteq T
    <3> SUFFICES ASSUME NEW q \in L, Shares(q) PROVE q \in everCwdShared
      BY <2>1
    <3>1. PICK x \in Pids : \E j \in 1..Len(file[x]) :
            file[x][j].call = "clone_fs" /\ q \in {x, file[x][j].child}
      BY DEF Shares
    <3>2. PICK j \in 1..Len(file[x]) :
            file[x][j].call = "clone_fs" /\ q \in {x, file[x][j].child}
      BY <3>1
    <3>3. x \in everCwdShared /\ file[x][j].child \in everCwdShared
      BY <1>3, <1>7, <3>2 DEF LinesRead
    <3> QED BY <3>2, <3>3
  <2>3. ASSUME NEW x \in T, NEW j \in 1..Len(file[x]), file[x][j].call = "clone_fs"
        PROVE  file[x][j].child \in T
    <3>1. PICK y \in Pids : y = file[x][j].child
      BY <1>3, <2>1
    <3>2. Shares(x) /\ x \in Pids
      BY <2>1, <2>3 DEF Shares
    <3>3. PICK b \in L :
            /\ b \in everCwdShared
            /\ \A S \in SUBSET Pids :
                 b \in S /\ (\A e \in cloneFsEdges : e[1] \in S => e[2] \in S) => x \in S
      BY <2>1, <3>2
    <3>4. <<x, y>> \in cloneFsEdges
      BY <1>3, <1>7, <2>3, <3>1, <3>2 DEF LinesRead
    <3>5. \A S \in SUBSET Pids :
            b \in S /\ (\A e \in cloneFsEdges : e[1] \in S => e[2] \in S) => y \in S
      <4> SUFFICES ASSUME NEW S \in SUBSET Pids, b \in S, \A e \in cloneFsEdges : e[1] \in S => e[2] \in S
                   PROVE  y \in S
        OBVIOUS
      <4>1. x \in S
        BY <3>3
      <4>2. <<x, y>>[1] \in S => <<x, y>>[2] \in S
        BY <3>4
      <4> QED BY <4>1, <4>2
    <3> QED BY <2>1, <3>1, <3>3, <3>5
  <2>4. a \in T
    BY <1>2, <2>2, <2>3 DEF SharedFrom
  <2>5. ASSUME Shares(a) PROVE FALSE
    <3>1. PICK b \in L :
            /\ b \in everCwdShared
            /\ \A S \in SUBSET Pids :
                 b \in S /\ (\A e \in cloneFsEdges : e[1] \in S => e[2] \in S) => a \in S
      BY <2>1, <2>4, <2>5
    <3>2. firstCwdMutationTs[a] # 0
      <4>1. i \in 1..taken[a] /\ a \in Pids
        BY <1>7
      <4>2. firstCwdMutationTs[a] \in 1..i
        BY <1>3, <1>9, <4>1 DEF LinesRead
      <4> QED BY <4>2
    <3>3. cloneFsGroupEverMutated(b)
      BY <3>1, <3>2 DEF cloneFsGroupEverMutated
    <3>4. lineageSharedGroupMutated(p)
      BY <1>1, <3>1, <3>3 DEF lineageSharedGroupMutated
    <3> QED BY <3>4
  <2> QED BY <2>5
<1>10. Still(Q)
  <2> SUFFICES ASSUME NEW a \in Pids, NEW i \in 1..Len(file[a])
               PROVE  /\ file[a][i].call \in Clones /\ file[a][i].child \in Q => a \in Q
                      /\ file[a][i].call = "clone_fs" /\ a \in Q => file[a][i].child \in Q
                      /\ file[a][i].call \in Mutations /\ a \in Q => ~Shares(a)
    BY DEF Still
  <2> QED BY <1>6, <1>8, <1>9
<1> QED
  BY <1>4, <1>5, <1>10

\* Where a still parent did not move before the clone, the child is born where it was; where
\* it did not move since, where it is.
LEMMA BornThere ==
    ASSUME SharedInv, NEW Q \in SUBSET Pids, Still(Q), NEW y \in Pids, NEW a \in Q,
           a = childParent[y], a # y
    PROVE  /\ bornBeforeMutation(y) => bornIn[y] = bornIn[a]
           /\ lastCwdMutationTs[a] < childSeedCloneTs[y] => bornIn[y] = now(a)
           /\ childParent[a] \in Q
<1>1. PICK n \in Nat : n = childSeedCloneTs[y]
  BY DEF SharedInv, TypeOK
<1>2. /\ taken[a] \in Nat /\ taken[a] <= Len(file[a]) /\ Len(file[a]) \in Nat /\ a \in Pids
      /\ firstCwdMutationTs[a] \in Nat /\ lastCwdMutationTs[a] \in Nat
      /\ StaysInv(Q) /\ Shown /\ LinesRead /\ ParentsRead /\ \A j \in Nat : Steady(Q, a, j)
  BY DEF SharedInv, TypeOK, ReadInv, ReplayRead, Kernel, KernelInv, KernelQ, Steady
<1>3. n \in 1..taken[a] /\ file[a][n].call \in Clones /\ file[a][n].child = y
  BY <1>1, <1>2 DEF ParentsRead
<1>4. n \in 1..Len(file[a]) /\ n \in 0..Len(file[a]) /\ taken[a] \in 0..Len(file[a])
      /\ n \in 0..taken[a] /\ 0 \in 0..n
  BY <1>2, <1>3
<1>5. at(a, n) = bornIn[y]
  BY <1>2, <1>3, <1>4 DEF Shown, at
<1>6. \A k \in 1..taken[a] : file[a][k].call \in Mutations =>
        firstCwdMutationTs[a] \in 1..k /\ k <= lastCwdMutationTs[a]
  BY <1>2 DEF LinesRead
<1>7. ASSUME bornBeforeMutation(y) PROVE bornIn[y] = bornIn[a]
  <2>1. firstCwdMutationTs[a] = 0 \/ firstCwdMutationTs[a] > n
    BY <1>1, <1>7 DEF bornBeforeMutation
  <2>2. \A k \in (0 + 1)..n : file[a][k].call \notin Mutations
    BY <1>2, <1>4, <1>6, <2>1
  <2>3. at(a, 0) = at(a, n)
    BY <1>2, <1>4, <2>2 DEF StaysInv
  <2> QED BY <1>5, <2>3 DEF at
<1>8. ASSUME lastCwdMutationTs[a] < n PROVE bornIn[y] = now(a)
  <2>1. \A k \in (n + 1)..taken[a] : file[a][k].call \notin Mutations
    BY <1>2, <1>4, <1>6, <1>8
  <2>2. at(a, n) = at(a, taken[a])
    BY <1>2, <1>4, <2>1 DEF StaysInv
  <2> QED BY <1>5, <2>2 DEF now
<1>9. childParent[a] \in Q
  <2>1. CASE childParent[a] = a
    BY <2>1
  <2>2. CASE childParent[a] # a
    <3>1. PICK b \in Pids : b = childParent[a]
      BY <1>2 DEF SharedInv, TypeOK
    <3>2. PICK m \in 1..taken[b] : m = childSeedCloneTs[a]
      BY <1>2, <2>2, <3>1 DEF ParentsRead
    <3>3. file[b][m].call \in Clones /\ file[b][m].child = a
      BY <1>2, <2>2, <3>1, <3>2 DEF ParentsRead
    <3>4. m \in 1..Len(file[b])
      BY <3>1, <3>2 DEF SharedInv, TypeOK, ReadInv, ReplayRead
    <3> QED BY <3>1, <3>3, <3>4 DEF Still
  <2> QED BY <2>1, <2>2
<1> QED
  BY <1>1, <1>7, <1>8, <1>9

\* The climb over still parents ends where p was born.
LEMMA ClimbTrue ==
    ASSUME SharedInv, Visible, NEW Q \in SUBSET Pids, Still(Q), NEW p \in Pids, childParent[p] \in Q,
           recoveredCwd(p) # None
    PROVE  recoveredCwd(p) = bornIn[p]
<1>1. PICK ends \in SUBSET Pids : ends = {x \in Along(recoveryHop, p) : recoveryHop[x] = x}
  BY DEF Along
<1>2. PICK x : x = CHOOSE e \in ends : TRUE
  OBVIOUS
<1>3. PICK a : a = childParent[x]
  OBVIOUS
<1>4. recoveredCwd(p) = IF ends = {} \/ a = x THEN None
                        ELSE IF bornBeforeMutation(x) THEN pidCloneTimeCwd[a]
                        ELSE IF lastCwdMutationTs[a] < childSeedCloneTs[x] THEN cwdGet(a)
                        ELSE None
  BY <1>1, <1>2, <1>3 DEF recoveredCwd
<1>5. ends # {} /\ a # x /\ x \in ends
  BY <1>2, <1>4
<1>6. PICK W \in SUBSET Pids : W = {y \in Pids : bornIn[y] = bornIn[p] /\ childParent[y] \in Q}
  OBVIOUS
<1>7. \A y \in W : recoveryHop[y] \in W
  <2> SUFFICES ASSUME NEW y \in W PROVE recoveryHop[y] \in W
    OBVIOUS
  <2>1. y \in Pids /\ bornIn[y] = bornIn[p] /\ childParent[y] \in Q
    BY <1>6
  <2>2. PICK b \in Q : b = childParent[y]
    BY <2>1
  <2>3. recoveryHop[y] = IF bornBeforeMutation(y) /\ pidCloneTimeCwd[b] = None THEN b ELSE y
    BY <2>1, <2>2 DEF recoveryHop
  <2>4. CASE bornBeforeMutation(y) /\ b # y
    <3>1. bornIn[y] = bornIn[b] /\ childParent[b] \in Q
      BY <2>1, <2>2, <2>4, BornThere
    <3>2. b \in W
      BY <1>6, <2>1, <2>2, <3>1
    <3> QED BY <2>3, <3>2
  <2>5. CASE ~(bornBeforeMutation(y) /\ b # y)
    BY <2>3, <2>5
  <2> QED BY <2>4, <2>5
<1>8. p \in W
  BY <1>6
<1>9. Along(recoveryHop, p) \subseteq W
  BY <1>7, <1>8, WalkInside
<1>10. x \in Pids /\ bornIn[x] = bornIn[p] /\ a \in Q
  BY <1>1, <1>3, <1>5, <1>6, <1>9
<1>11. /\ bornBeforeMutation(x) => bornIn[x] = bornIn[a]
       /\ lastCwdMutationTs[a] < childSeedCloneTs[x] => bornIn[x] = now(a)
  BY <1>3, <1>5, <1>10, BornThere
<1>12. /\ pidCloneTimeCwd[a] # None => pidCloneTimeCwd[a] = bornIn[a]
       /\ cwdGet(a) # None => cwdGet(a) = now(a)
  <2>1. a \in Pids /\ ReadQ(Q)
    BY <1>10 DEF SharedInv
  <2>2. cwdGet(a) # None => cwdGet(a) = now(a)
    BY <1>10, <2>1, GroupOf
  <2> QED BY <1>10, <2>1, <2>2 DEF ReadQ, SeedInv
<1> QED
  BY <1>4, <1>5, <1>10, <1>11, <1>12

\* The directory a replayed open is resolved against is the one it was made in.
LEMMA ReplayGenuine ==
    ASSUME SharedInv, Visible, AllTaken, NEW o \in deferredRelOpens, replayCwd(o) # None
    PROVE  replayCwd(o) = file[o.pid][o.ts].at
<1>1. /\ o.stamped /\ ~o.sharedAtRead /\ ~o.cloneFsSeed /\ ~lineageSharedGroupMutated(o.seedParentPid)
      /\ firstCwdMutationTs[o.pid] = 0 \/ o.ts < firstCwdMutationTs[o.pid]
      /\ replayCwd(o) = IF o.initialCwd # None THEN o.initialCwd ELSE recoveredCwd(o.pid)
  BY DEF replayCwd
<1>2. PICK p \in Pids : p = o.pid
  BY DEF SharedInv, TypeOK, Deferred
<1>3. PICK a \in Pids : a = o.seedParentPid
  BY DEF SharedInv, TypeOK, Deferred
<1>4. PICK n \in Nat : n = o.ts
  BY DEF SharedInv, TypeOK, Deferred
<1>5. /\ n \in 1..taken[p] /\ taken[p] \in Nat /\ taken[p] = Len(file[p])
      /\ \A j \in 1..n : file[p][j].call # "clone_fs"
      /\ childParent[p] = a /\ a # p /\ file[a][childSeedCloneTs[p]].call = "clone"
  BY <1>1, <1>2, <1>3, <1>4 DEF SharedInv, TypeOK, ReadInv, ParkedRead, AllTaken
<1>6. \A b \in Pids : \A i \in 1..Len(file[b]) : file[b][i].call = "clone_fs" => file[b][i].child # p
  <2> SUFFICES ASSUME NEW b \in Pids, NEW i \in 1..Len(file[b]),
                      file[b][i].call = "clone_fs", file[b][i].child = p
               PROVE  FALSE
    OBVIOUS
  <2>1. i \in 1..taken[b] /\ file[b][i].call \in Clones
    BY DEF AllTaken, Clones
  <2>2. childParent[p] = b /\ childSeedCloneTs[p] = i
    BY <2>1 DEF SharedInv, ReadInv, LinesRead
  <2> QED BY <1>5, <2>2
<1>7. \A k \in 1..n : file[p][k].call \notin Mutations
  <2> SUFFICES ASSUME NEW k \in 1..n, file[p][k].call \in Mutations PROVE FALSE
    OBVIOUS
  <2>1. k \in 1..taken[p]
    BY <1>5
  <2>2. firstCwdMutationTs[p] \in 1..k
    BY <2>1 DEF SharedInv, ReadInv, LinesRead
  <2> QED BY <1>1, <1>2, <1>4, <2>2
<1>8. PICK Q \in SUBSET Pids : Still(Q) /\ a \in Q
  BY <1>1, <1>3, LineageStill
<1>9. bornIn[p] = file[p][n].at
  <2>1. Steady(Q, p, n)
    BY <1>5, <1>6 DEF Steady, Apart
  <2>2. n \in 0..Len(file[p]) /\ 0 \in 0..n /\ \A k \in (0 + 1)..n : k \in 1..n
    BY <1>5
  <2>3. StaysInv(Q)
    BY <1>8 DEF SharedInv, Kernel, KernelQ
  <2>4. at(p, 0) = at(p, n)
    BY <1>7, <2>1, <2>2, <2>3 DEF StaysInv
  <2> QED BY <1>5, <2>4 DEF at
<1>10. CASE o.initialCwd # None
  <2>1. o.initialCwd = bornIn[p]
    BY <1>1, <1>2, <1>3, <1>8, <1>10 DEF SharedInv, ReadQ, SeedInv
  <2> QED BY <1>1, <1>2, <1>4, <1>9, <1>10, <2>1
<1>11. CASE o.initialCwd = None
  <2>1. recoveredCwd(p) # None /\ replayCwd(o) = recoveredCwd(p)
    BY <1>1, <1>2, <1>11
  <2>2. recoveredCwd(p) = bornIn[p]
    BY <1>5, <1>8, <2>1, ClimbTrue
  <2> QED BY <1>2, <1>4, <1>9, <2>1, <2>2
<1> QED
  BY <1>10, <1>11

LEMMA SharedReplay ==
    ASSUME SharedInv, Replay
    PROVE  SharedInv' /\ ReplayTrue'
<1> DEFINE resolved == {[pid |-> o.pid, ts |-> o.ts, dir |-> replayCwd(o), replay |-> TRUE] :
                          o \in {x \in deferredRelOpens : replayCwd(x) # None}}
<1>1. /\ emitted' = emitted \cup resolved /\ deferredRelOpens' = {}
      /\ execKnown' = execKnown \cup pendingExecCwd /\ pendingExecCwd' = {} /\ execCwd' = execCwd
      /\ UNCHANGED <<treeVars, taken, rootKnown, groupVars, cloneVars, mutVars>> /\ replayed' = TRUE
      /\ ~running /\ ~replayed /\ AllTaken
  BY DEF Replay, AllTaken
<1>2. /\ live' = live /\ cwd' = cwd /\ bornIn' = bornIn /\ mates' = mates /\ file' = file
      /\ running' = running /\ calls' = calls
      /\ taken' = taken /\ up' = up /\ pidCwd' = pidCwd /\ pidCwdUnknown' = pidCwdUnknown
      /\ pendingCwdDetach' = pendingCwdDetach /\ everCwdShared' = everCwdShared
      /\ cloneFsEdges' = cloneFsEdges /\ childParent' = childParent
      /\ pidCloneTimeCwd' = pidCloneTimeCwd /\ childSeedCloneTs' = childSeedCloneTs
      /\ firstCwdMutationTs' = firstCwdMutationTs /\ lastCwdMutationTs' = lastCwdMutationTs
  BY <1>1 DEF treeVars, groupVars, cloneVars, mutVars
<1>3. ASSUME NEW o \in deferredRelOpens PROVE replayCwd(o) \in Known
  <2>1. o.pid \in Pids /\ o.initialCwd \in Known
    BY DEF SharedInv, TypeOK, Deferred
  <2>2. recoveredCwd(o.pid) \in Known
    <3>1. PICK ends \in SUBSET Pids :
            ends = {x \in Along(recoveryHop, o.pid) : recoveryHop[x] = x}
      BY DEF Along
    <3>2. PICK x : x = CHOOSE e \in ends : TRUE
      OBVIOUS
    <3>3. CASE ends = {}
      BY <3>1, <3>3 DEF recoveredCwd, Known
    <3>4. CASE ends # {}
      <4>1. x \in Pids
        BY <3>2, <3>4
      <4>2. PICK a \in Pids : a = childParent[x]
        BY <4>1 DEF SharedInv, TypeOK
      <4>3. pidCloneTimeCwd[a] \in Known /\ cwdGet(a) \in Known /\ None \in Known
        BY GroupOf DEF SharedInv, TypeOK, Known
      <4> QED BY <3>1, <3>2, <4>2, <4>3 DEF recoveredCwd
    <3> QED BY <3>3, <3>4
  <2> QED BY <2>1, <2>2 DEF replayCwd, Known
<1>4. ASSUME NEW e \in resolved
      PROVE  e \in Emitted /\ (Visible => Genuine(e))
  <2>1. PICK o \in deferredRelOpens :
          /\ replayCwd(o) # None
          /\ e = [pid |-> o.pid, ts |-> o.ts, dir |-> replayCwd(o), replay |-> TRUE]
    OBVIOUS
  <2>2. o.pid \in Pids /\ o.ts \in Nat /\ replayCwd(o) \in Dirs
    BY <1>3, <2>1 DEF SharedInv, TypeOK, Deferred, Known
  <2>3. Visible => replayCwd(o) = file[o.pid][o.ts].at
    BY <1>1, <2>1, ReplayGenuine
  <2> QED BY <2>1, <2>2, <2>3 DEF Emitted, Genuine, lineOf
<1> HIDE DEF resolved
<1>5. TypeOK' /\ Forest(up)'
  <2>1. emitted' \subseteq Emitted /\ deferredRelOpens' \subseteq Deferred
    BY <1>1, <1>4 DEF SharedInv, TypeOK
  <2>2. execCwd' \in [Pids -> Known] /\ execKnown' \subseteq Pids /\ pendingExecCwd' \subseteq Pids
        /\ replayed' \in BOOLEAN /\ rootKnown' = rootKnown
    BY <1>1 DEF SharedInv, TypeOK
  <2>3. TypeOK'
    BY <1>2, <2>1, <2>2 DEF SharedInv, TypeOK
  <2>4. Forest(up)'
    BY <1>2 DEF SharedInv, Forest
  <2> QED BY <2>3, <2>4
<1>6. Kernel' /\ Visible' = Visible /\ \A Q \in SUBSET Pids : Still(Q)' = Still(Q)
  BY <1>2, SameTree DEF SharedInv
<1>7. Unread'
  BY <1>1, <1>2 DEF Unread, FreshInv
<1>8. ReadInv'
  <2>1. LinesRead /\ TimesRead /\ ParentsRead /\ DetachedRead
    BY DEF SharedInv, ReadInv
  <2>2. LinesRead' /\ TimesRead' /\ ParentsRead' /\ DetachedRead'
    BY <1>2, <2>1 DEF LinesRead, TimesRead, ParentsRead, DetachedRead
  <2>3. ParkedRead'
    BY <1>1 DEF ParkedRead
  <2>4. ReplayRead'
    BY <1>1, <1>2 DEF SharedInv, ReadInv, ReplayRead, AllTaken
  <2> QED BY <2>2, <2>3, <2>4 DEF ReadInv
<1>9. ASSUME NEW Q \in SUBSET Pids, Visible, Still(Q)
      PROVE  ReadQ(Q)'
  <2>1. ReadQ(Q)
    BY <1>9 DEF SharedInv
  <2>2. JoinedInv(Q)' /\ DirInv(Q)'
    BY <1>2, <2>1 DEF ReadQ, JoinedInv, DirInv, Like, Shares, now, at
  <2>3. LostInv(Q)' /\ SeedInv(Q)'
    BY <1>1, <1>2, <2>1 DEF ReadQ, LostInv, SeedInv, Only
  <2> QED BY <2>2, <2>3 DEF ReadQ
<1>10. SharedInv'
  <2>1. Visible' => \A Q \in SUBSET Pids : Still(Q)' => ReadQ(Q)'
    BY <1>6, <1>9
  <2> QED BY <1>5, <1>6, <1>7, <1>8, <2>1 DEF SharedInv
<1>11. ReplayTrue'
  <2>1. ASSUME Visible, NEW e \in emitted', e.replay
        PROVE  Genuine(e)'
    <3>1. e \in resolved
      BY <1>1, <2>1 DEF SharedInv, ReadInv, ReplayRead
    <3>2. Genuine(e)
      BY <1>4, <2>1, <3>1
    <3> QED BY <1>2, <3>2 DEF Genuine, lineOf
  <2>2. Visible' => \A e \in emitted' : e.replay => Genuine(e)'
    BY <1>6, <2>1
  <2> QED BY <2>2 DEF ReplayTrue, Visible
<1> QED
  BY <1>10, <1>11
-----------------------------------------------------------------------------
(* The theorems about trees that share.                                    *)

LEMMA SharedTake ==
    ASSUME SharedInv, TakeNext
    PROVE  SharedInv' /\ ReplayTrue'
<1>1. PICK p \in Pids :
        \/ TakeChdir(p) \/ TakeRelative(p) \/ TakeOpaque(p) \/ TakeClone(p)
        \/ TakeUnshare(p) \/ TakeOpen(p) \/ TakeExec(p)
  BY DEF TakeNext
<1>2. SharedInv'
  BY <1>1, SharedChdir, SharedRelative, SharedOpaque, SharedClone, SharedUnshare, SharedOpen, SharedExec
<1>3. PICK these \in SUBSET Calls : Take(p, these)
  BY <1>1 DEF TakeChdir, TakeRelative, TakeOpaque, TakeClone, TakeUnshare, TakeOpen, TakeExec, Calls,
     Mutations, Clones
<1>4. ~replayed'
  BY <1>3, TakeFacts
<1>5. \A e \in emitted' : ~e.replay
  BY <1>2, <1>4 DEF SharedInv, ReadInv, ReplayRead
<1> QED
  BY <1>2, <1>5 DEF ReplayTrue

\* Whatever the processes share, and in whatever order the files are read: what the
\* dispatcher tracks of a set that is still is true, and so is every replayed open.
THEOREM SharedInvariant == Spec => [](SharedInv /\ ReplayTrue)
<1>1. Init => SharedInv /\ ReplayTrue
  BY InitShared DEF Init, ReplayTrue
<1>2. SharedInv /\ ReplayTrue /\ [Next]_vars => SharedInv' /\ ReplayTrue'
  <2> SUFFICES ASSUME SharedInv, ReplayTrue, [Next]_vars PROVE SharedInv' /\ ReplayTrue'
    OBVIOUS
  <2>1. CASE KernelNext
    <3>1. SharedInv'
      BY <2>1, SharedCalls
    <3>2. running'
      BY <2>1, CallsType DEF SharedInv
    <3>3. emitted' = {}
      BY <3>1, <3>2 DEF SharedInv, Unread, FreshInv
    <3> QED BY <3>1, <3>3 DEF ReplayTrue
  <2>2. CASE TreeDone
    <3>1. emitted' = {}
      BY <2>2 DEF TreeDone, openVars, SharedInv, Unread, FreshInv
    <3> QED BY <2>2, <3>1, SharedEnds DEF ReplayTrue
  <2>3. CASE TakeNext
    BY <2>3, SharedTake
  <2>4. CASE Replay
    BY <2>4, SharedReplay
  <2>5. CASE Done \/ UNCHANGED vars
    <3>1. UNCHANGED vars
      BY <2>5 DEF Done
    <3>2. /\ live' = live /\ cwd' = cwd /\ bornIn' = bornIn /\ mates' = mates /\ file' = file
          /\ running' = running /\ calls' = calls /\ rootKnown' = rootKnown
          /\ taken' = taken /\ up' = up /\ pidCwd' = pidCwd /\ pidCwdUnknown' = pidCwdUnknown
          /\ pendingCwdDetach' = pendingCwdDetach /\ everCwdShared' = everCwdShared
          /\ cloneFsEdges' = cloneFsEdges /\ childParent' = childParent
          /\ pidCloneTimeCwd' = pidCloneTimeCwd /\ childSeedCloneTs' = childSeedCloneTs
          /\ firstCwdMutationTs' = firstCwdMutationTs /\ lastCwdMutationTs' = lastCwdMutationTs
          /\ execCwd' = execCwd /\ execKnown' = execKnown /\ pendingExecCwd' = pendingExecCwd
          /\ deferredRelOpens' = deferredRelOpens /\ emitted' = emitted /\ replayed' = replayed
      BY <3>1 DEF vars, treeVars, groupVars, cloneVars, mutVars, execVars, openVars
    <3>3. TypeOK' /\ Forest(up)'
      BY <3>2 DEF SharedInv, TypeOK, Forest
    <3>4. Kernel' /\ Visible' = Visible /\ \A Q \in SUBSET Pids : Still(Q)' = Still(Q)
      BY <3>2, SameTree DEF SharedInv
    <3>5. Unread'
      BY <3>2 DEF SharedInv, Unread, FreshInv
    <3>6. ReadInv'
      <4>1. LinesRead /\ TimesRead /\ ParentsRead /\ DetachedRead /\ ParkedRead /\ ReplayRead
        BY DEF SharedInv, ReadInv
      <4>2. LinesRead' /\ TimesRead' /\ ParentsRead'
        BY <3>2, <4>1 DEF LinesRead, TimesRead, ParentsRead
      <4>3. DetachedRead' /\ ParkedRead' /\ ReplayRead'
        BY <3>2, <4>1 DEF DetachedRead, ParkedRead, ReplayRead
      <4> QED BY <4>2, <4>3 DEF ReadInv
    <3>7. ASSUME Visible, NEW Q \in SUBSET Pids, Still(Q)
          PROVE  ReadQ(Q)'
      <4>1. ReadQ(Q)
        BY <3>7 DEF SharedInv
      <4>2. JoinedInv(Q)' /\ DirInv(Q)'
        BY <3>2, <4>1 DEF ReadQ, JoinedInv, DirInv, Like, Shares, now, at
      <4>3. LostInv(Q)' /\ SeedInv(Q)'
        BY <3>2, <4>1 DEF ReadQ, LostInv, SeedInv, Only
      <4> QED BY <4>2, <4>3 DEF ReadQ
    <3>8. SharedInv'
      BY <3>3, <3>4, <3>5, <3>6, <3>7 DEF SharedInv
    <3>9. ReplayTrue'
      BY <3>2 DEF ReplayTrue, Only, Genuine, lineOf
    <3> QED BY <3>8, <3>9
  <2> QED BY <2>1, <2>2, <2>3, <2>4, <2>5 DEF Next
<1> QED
  BY <1>1, <1>2, PTL DEF Spec

\* The types hold of every tree, shared directories or not: in particular every walk of the
\* union-find of directories ends at a process.
THEOREM TypeCorrect == Spec => []TypeOK
<1>1. SharedInv => TypeOK
  BY DEF SharedInv
<1> QED
  BY <1>1, SharedInvariant, PTL

\* However processes share, leave and inherit directories, an open resolved at the end is
\* resolved against the directory it was made in, as long as nobody unshares or every
\* change of directory shows the directory.
THEOREM ReplayTrueHolds == Spec => []ReplayTrue
  BY SharedInvariant, PTL-----------------------------------------------------------------------------
(* What the replay resolves.                                               *)

CloneOf(f, i, c) == file[f][i].call \in Clones /\ file[f][i].child = c

\* Whoever lives was cloned, the root aside.
BornInv == \A q \in live \ {Root} : \E f \in Pids : \E i \in 1..Len(file[f]) : CloneOf(f, i, q)

\* Among any processes is one that none of them cloned.
OldestInv ==
    \A S \in SUBSET Pids : S # {} =>
        \E x \in S : \A f \in S : \A i \in 1..Len(file[f]) : ~CloneOf(f, i, x)

\* Without sharing no process is taken for one that shares.
UnjoinedInv ==
    Unshared => everCwdShared = {} /\ \A o \in deferredRelOpens : ~o.sharedAtRead /\ ~o.cloneFsSeed

ClimbInv ==
    BornInv /\ OldestInv /\ UnjoinedInv /\ (rootKnown => pidCloneTimeCwd[Root] # None)

\* A call adds a line, and a process if it is a clone.
LEMMA CallAdds ==
    ASSUME SharedInv, KernelNext
    PROVE  \E p \in live, l \in Line :
             /\ file' = [file EXCEPT ![p] = Append(@, l)]
             /\ IF l.call \in Clones THEN l.child \notin live /\ live' = live \cup {l.child}
                ELSE live' = live
<1>0. file \in [Pids -> Seq(Line)] /\ cwd \in [Pids -> Dirs] /\ live \subseteq Pids /\ Below \in [Dirs -> Dirs]
  BY DirsAssumption DEF SharedInv, TypeOK
<1>1. ASSUME NEW p \in Pids, NEW call, NEW d \in Dirs, NEW c \in Pids, NEW dir \in Dirs,
             Calling(p, call, dir, c, d)
      PROVE  p \in live /\ \E l \in Line : /\ file' = [file EXCEPT ![p] = Append(@, l)]
                                           /\ l.call = call /\ l.child = c
  <2> DEFINE m == [call |-> call, dir |-> dir, child |-> c, at |-> d]
  <2>1. p \in live /\ call \in Calls /\ file' = [file EXCEPT ![p] = Append(@, m)]
    BY <1>1, CallsAssumption DEF Calling
  <2>2. m \in Line /\ m.call = call /\ m.child = c
    BY <2>1 DEF Line
  <2> HIDE DEF m
  <2> QED BY <2>1, <2>2
<1>2. PICK p \in Pids :
        \/ \E call \in Mutations, d \in Dirs : Chdir(p, call, d)
        \/ \E call \in Clones, c \in Pids : Clone(p, call, c)
        \/ Unshare(p)
        \/ \E call \in {"open", "exec"} : Other(p, call)
  BY DEF KernelNext
<1>3. \A call \in Mutations \cup {"open", "exec", "unshare"} : call \notin Clones
  BY DEF Mutations, Clones
<1>4. cwd[p] \in Dirs
  BY <1>0
<1>5. CASE \E call \in Clones, c \in Pids : Clone(p, call, c)
  <2>1. PICK call \in Clones, c \in Pids : Clone(p, call, c)
    BY <1>5
  <2>2. Calling(p, call, cwd[p], c, cwd[p]) /\ c \notin live /\ live' = live \cup {c}
    BY <2>1 DEF Clone
  <2>3. PICK l \in Line : file' = [file EXCEPT ![p] = Append(@, l)] /\ l.call = call /\ l.child = c
    <3>1. PICK w \in Dirs : w = cwd[p]
      BY <1>4
    <3>2. Calling(p, call, w, c, w)
      BY <2>2, <3>1
    <3>3. PICK l \in Line : l = [call |-> call, dir |-> w, child |-> c, at |-> w]
      BY <1>0, <3>2, CallingStep
    <3>4. file' = [file EXCEPT ![p] = Append(@, l)] /\ l.call = call /\ l.child = c
      BY <3>2, <3>3 DEF Calling
    <3> QED BY <3>4
  <2>4. p \in live
    BY <1>1, <1>4, <2>2
  <2>5. IF l.call \in Clones THEN l.child \notin live /\ live' = live \cup {l.child}
        ELSE live' = live
    BY <2>1, <2>2, <2>3
  <2> QED BY <2>3, <2>4, <2>5
<1>6. CASE ~\E call \in Clones, c \in Pids : Clone(p, call, c)
  <2>1. PICK call \in Mutations \cup {"open", "exec", "unshare"}, dir \in Dirs, d \in Dirs :
          Calling(p, call, dir, p, d) /\ live' = live
    <3>1. CASE \E call \in Mutations, d \in Dirs : Chdir(p, call, d)
      BY <3>1 DEF Chdir
    <3>2. CASE Unshare(p)
      BY <1>4, <3>2 DEF Unshare
    <3>3. CASE \E call \in {"open", "exec"} : Other(p, call)
      BY <1>4, <3>3 DEF Other
    <3> QED BY <1>2, <1>6, <3>1, <3>2, <3>3
  <2>2. PICK l \in Line : file' = [file EXCEPT ![p] = Append(@, l)] /\ l.call = call /\ l.child = p
    BY <1>1, <2>1
  <2>3. l.call \notin Clones
    BY <1>3, <2>2
  <2> QED BY <1>1, <2>1, <2>2, <2>3
<1> QED BY <1>5, <1>6

\* A clone is younger than whoever lives, and has cloned nobody.
LEMMA ClimbCalls ==
    ASSUME SharedInv, ClimbInv, KernelNext
    PROVE  BornInv' /\ OldestInv'
<1>1. PICK p \in live, l \in Line :
        /\ file' = [file EXCEPT ![p] = Append(@, l)]
        /\ IF l.call \in Clones THEN l.child \notin live /\ live' = live \cup {l.child}
           ELSE live' = live
  BY CallAdds
<1>2. /\ file \in [Pids -> Seq(Line)] /\ live \subseteq Pids /\ l.child \in Pids
      /\ \A q \in Pids : q \notin live => file[q] = <<>>
  BY DEF SharedInv, TypeOK, Kernel, KernelInv, Living, Line
<1>3. /\ Len(file[p]) + 1 \in 1..Len(file'[p]) /\ file'[p][Len(file[p]) + 1] = l
      /\ \A q \in Pids : \A i \in 1..Len(file[q]) :
           i \in 1..Len(file'[q]) /\ file'[q][i] = file[q][i]
      /\ \A q \in Pids : \A i \in 1..Len(file'[q]) :
           i \in 1..Len(file[q]) \/ (q = p /\ i = Len(file[p]) + 1)
  <2>1. /\ Len(file[p]) \in Nat /\ Len(file'[p]) = Len(file[p]) + 1
        /\ file'[p][Len(file[p]) + 1] = l
        /\ \A q \in Pids : \A i \in 1..Len(file[q]) :
             i \in 1..Len(file'[q]) /\ file'[q][i] = file[q][i]
        /\ \A q \in Pids : \A i \in 1..Len(file'[q]) :
             i \in 1..Len(file[q]) \/ (q = p /\ i = Len(file[p]) + 1)
    BY <1>1, <1>2, Added
  <2> QED BY <2>1
<1>4. \A f, c \in Pids : \A i \in 1..Len(file'[f]) :
        CloneOf(f, i, c)' => \/ i \in 1..Len(file[f]) /\ CloneOf(f, i, c)
                             \/ f = p /\ l.call \in Clones /\ l.child = c
  BY <1>3 DEF CloneOf
<1>5. \A f, c \in Pids : \A i \in 1..Len(file[f]) :
        CloneOf(f, i, c) => i \in 1..Len(file'[f]) /\ CloneOf(f, i, c)'
  BY <1>3 DEF CloneOf
<1>6. BornInv'
  <2> SUFFICES ASSUME NEW q \in live', q # Root
               PROVE  \E f \in Pids : \E i \in 1..Len(file'[f]) : CloneOf(f, i, q)'
    BY DEF BornInv
  <2>1. CASE q \in live
    <3>1. PICK f \in Pids : \E i \in 1..Len(file[f]) : CloneOf(f, i, q)
      BY <2>1 DEF ClimbInv, BornInv
    <3> QED BY <1>2, <1>5, <2>1, <3>1
  <2>2. CASE q \notin live
    <3>1. l.call \in Clones /\ l.child = q
      BY <1>1, <2>2
    <3>2. PICK n \in 1..Len(file'[p]) : file'[p][n] = l
      BY <1>3
    <3>3. CloneOf(p, n, q)'
      BY <3>1, <3>2 DEF CloneOf
    <3> QED BY <1>2, <3>3
  <2> QED BY <2>1, <2>2
<1>7. OldestInv'
  <2> SUFFICES ASSUME NEW S \in SUBSET Pids, S # {}
               PROVE  \E x \in S : \A f \in S : \A i \in 1..Len(file'[f]) : ~CloneOf(f, i, x)'
    BY DEF OldestInv
  <2>1. \A T \in SUBSET Pids : T # {} =>
          \E x \in T : \A f \in T : \A i \in 1..Len(file[f]) : ~CloneOf(f, i, x)
    BY DEF ClimbInv, OldestInv
  <2>2. CASE l.call \in Clones /\ l.child \in S
    <3>1. l.child \notin live /\ file[l.child] = <<>>
      BY <1>1, <1>2, <2>2
    <3>2. CASE S = {l.child}
      <4>1. \A f \in S : \A i \in 1..Len(file'[f]) : ~CloneOf(f, i, l.child)'
        BY <1>2, <1>4, <3>1, <3>2
      <4> QED BY <2>2, <4>1
    <3>3. CASE S # {l.child}
      <4>1. PICK T \in SUBSET Pids : T = S \ {l.child}
        OBVIOUS
      <4>2. T # {}
        BY <2>2, <3>3, <4>1
      <4>3. PICK x \in T : \A f \in T : \A i \in 1..Len(file[f]) : ~CloneOf(f, i, x)
        BY <2>1, <4>2
      <4>4. x \in S /\ x # l.child
        BY <4>1, <4>3
      <4>5. \A i \in 1..Len(file[l.child]) : FALSE
        BY <3>1
      <4>6. ASSUME NEW f \in S, NEW i \in 1..Len(file'[f]) PROVE ~CloneOf(f, i, x)'
        <5>1. CASE f = l.child
          BY <1>2, <1>4, <3>1, <4>4, <4>5, <5>1
        <5>2. CASE f # l.child
          BY <1>4, <4>1, <4>3, <4>4, <5>2
        <5> QED BY <5>1, <5>2
      <4> QED BY <4>4, <4>6
    <3> QED BY <3>2, <3>3
  <2>3. CASE ~(l.call \in Clones /\ l.child \in S)
    <3>1. PICK x \in S : \A f \in S : \A i \in 1..Len(file[f]) : ~CloneOf(f, i, x)
      BY <2>1
    <3> QED BY <1>4, <2>3, <3>1
  <2> QED BY <2>2, <2>3
<1> QED BY <1>6, <1>7
\* Who cloned whom is said by the lines alone.
LEMMA ClimbStays ==
    ASSUME ClimbInv, live' = live, file' = file
    PROVE  BornInv' /\ OldestInv'
<1>1. BornInv /\ OldestInv
  BY DEF ClimbInv
<1>2. BornInv'
  BY <1>1 DEF BornInv, CloneOf
<1>3. OldestInv'
  BY <1>1 DEF OldestInv, CloneOf
<1> QED BY <1>2, <1>3

\* What a line taken adds to it: the root's directory stays, and nobody is taken to share.
LEMMA ClimbTake ==
    ASSUME SharedInv, ClimbInv, TakeNext
    PROVE  ClimbInv'
<1>1. PICK p \in Pids :
        \/ TakeChdir(p) \/ TakeRelative(p) \/ TakeOpaque(p) \/ TakeClone(p)
        \/ TakeUnshare(p) \/ TakeOpen(p) \/ TakeExec(p)
  BY DEF TakeNext
<1>2. PICK these : Take(p, these)
  BY <1>1 DEF TakeChdir, TakeRelative, TakeOpaque, TakeClone, TakeUnshare, TakeOpen, TakeExec
<1>3. live' = live /\ file' = file /\ rootKnown' = rootKnown
  BY <1>2 DEF Take, treeVars
<1>4. BornInv' /\ OldestInv'
  BY <1>3, ClimbStays
<1>5. rootKnown' => pidCloneTimeCwd'[Root] # None
  <2>1. pidCloneTimeCwd \in [Pids -> Known] /\ Root \in Pids
    BY RootAssumption DEF SharedInv, TypeOK
  <2>2. CASE TakeClone(p)
    <3>1. PICK c, w : pidCloneTimeCwd' = [pidCloneTimeCwd EXCEPT ![c] = IF @ = None THEN w ELSE @]
      BY <2>2 DEF TakeClone
    <3> QED BY <1>3, <2>1, <3>1 DEF ClimbInv
  <2>3. CASE ~TakeClone(p)
    BY <1>1, <1>3, <2>3 DEF TakeChdir, TakeRelative, TakeOpaque, TakeUnshare, TakeOpen, TakeExec,
       cloneVars, ClimbInv
  <2> QED BY <2>2, <2>3
<1>6. ASSUME Unshared'
      PROVE  everCwdShared' = {} /\ \A o \in deferredRelOpens' : ~o.sharedAtRead /\ ~o.cloneFsSeed
  <2>1. everCwdShared = {} /\ \A o \in deferredRelOpens : ~o.sharedAtRead /\ ~o.cloneFsSeed
    BY <1>3, <1>6 DEF Unshared, Only, ClimbInv, UnjoinedInv
  <2>2. Next1(p).call \notin {"clone_fs", "unshare"}
    <3>1. PICK n \in 1..Len(file[p]) : Next1(p) = file[p][n]
      BY <1>2, TakeFacts
    <3> QED BY <1>3, <1>6, <3>1 DEF Unshared, Only
  <2>3. CASE TakeClone(p)
    <3>1. PICK c : c = Next1(p).child
      OBVIOUS
    <3>2. everCwdShared' = everCwdShared
      BY <2>2, <2>3 DEF TakeClone
    <3>3. deferredRelOpens' =
            {IF d.pid = c /\ ~d.stamped
             THEN [d EXCEPT !.stamped = TRUE, !.initialCwd = canonicalCwd(p), !.cloneFsSeed = FALSE,
                            !.seedParentPid = p]
             ELSE d : d \in deferredRelOpens}
      BY <2>2, <2>3, <3>1 DEF TakeClone, stampDeferredRelOpens
    <3>4. ASSUME NEW o \in deferredRelOpens' PROVE ~o.sharedAtRead /\ ~o.cloneFsSeed
      <4>1. PICK d \in deferredRelOpens :
              o = IF d.pid = c /\ ~d.stamped
                  THEN [d EXCEPT !.stamped = TRUE, !.initialCwd = canonicalCwd(p),
                                 !.cloneFsSeed = FALSE, !.seedParentPid = p]
                  ELSE d
        BY <3>3, <3>4
      <4>2. d \in Deferred /\ ~d.sharedAtRead /\ ~d.cloneFsSeed
        BY <2>1 DEF SharedInv, TypeOK
      <4>3. CASE d.pid = c /\ ~d.stamped
        BY <4>1, <4>2, <4>3 DEF Deferred
      <4> QED BY <4>1, <4>2, <4>3
    <3> QED BY <2>1, <3>2, <3>4
  <2>4. CASE TakeOpen(p)
    <3>1. everCwdShared' = everCwdShared
      BY <2>4 DEF TakeOpen
    <3>2. \A o \in deferredRelOpens' :
            o \in deferredRelOpens \/ (~o.sharedAtRead /\ ~o.cloneFsSeed)
      <4>1. PICK n : n = [pid |-> p, ts |-> lineTs(p), sharedAtRead |-> FALSE,
                          stamped |-> FALSE, initialCwd |-> None, cloneFsSeed |-> FALSE,
                          seedParentPid |-> p]
        OBVIOUS
      <4>2. ~n.sharedAtRead /\ ~n.cloneFsSeed
        BY <4>1
      <4>3. (p \in everCwdShared) = FALSE
        BY <2>1
      <4>4. deferredRelOpens' \subseteq deferredRelOpens \cup {n}
        BY <2>4, <4>1, <4>3 DEF TakeOpen
      <4> QED BY <4>2, <4>4
    <3> QED BY <2>1, <3>1, <3>2
  <2>5. CASE TakeChdir(p) \/ TakeRelative(p) \/ TakeOpaque(p) \/ TakeExec(p)
    BY <2>1, <2>5 DEF TakeChdir, TakeRelative, TakeOpaque, TakeExec, openVars
  <2>6. ~TakeUnshare(p)
    BY <2>2 DEF TakeUnshare, Take
  <2> QED BY <1>1, <2>3, <2>4, <2>5, <2>6
<1> QED BY <1>4, <1>5, <1>6 DEF ClimbInv, UnjoinedInv

\* The climb from a process whose ancestors did not move before the clones below them ends
\* below one whose own clone showed a directory.
LEMMA ClimbEnds ==
    ASSUME SharedInv, ClimbInv, AllTaken, rootKnown, NEW p \in Pids, childParent[p] # p,
           \A x \in Along(childParent, p) : bornBeforeMutation(x)
    PROVE  recoveredCwd(p) # None
<1>1. PICK h : h = recoveryHop
  OBVIOUS
<1>2. \A x \in Pids : h[x] = IF bornBeforeMutation(x) /\ pidCloneTimeCwd[childParent[x]] = None
                             THEN childParent[x] ELSE x
  BY <1>1 DEF recoveryHop
<1>3. childParent \in [Pids -> Pids] /\ live \subseteq Pids
  BY DEF SharedInv, TypeOK
<1>4. ASSUME NEW c \in Pids, childParent[c] # c
      PROVE  \E i \in 1..Len(file[childParent[c]]) : CloneOf(childParent[c], i, c)
  <2>1. /\ childSeedCloneTs[c] \in 1..taken[childParent[c]]
        /\ CloneOf(childParent[c], childSeedCloneTs[c], c)
    BY <1>4 DEF SharedInv, ReadInv, ParentsRead, CloneOf
  <2>2. taken[childParent[c]] = Len(file[childParent[c]])
    BY <1>3 DEF AllTaken
  <2> QED BY <2>1, <2>2
<1>5. ASSUME NEW f \in Pids, NEW i \in 1..Len(file[f]), NEW c \in Pids, CloneOf(f, i, c)
      PROVE  childParent[c] = f /\ c \in live \ {Root} /\ c # f /\ f \in live
  <2>1. i \in 1..taken[f]
    BY DEF AllTaken
  <2>2. childParent[c] = f
    BY <1>5, <2>1 DEF SharedInv, ReadInv, LinesRead, CloneOf
  <2>3. c \in live \ {Root} /\ c # f
    BY <1>5 DEF SharedInv, Kernel, KernelInv, Shown, CloneOf
  <2>4. f \in live
    <3>1. f \notin live => file[f] = <<>>
      BY DEF SharedInv, Kernel, KernelInv, Living
    <3> QED BY <3>1
  <2> QED BY <2>2, <2>3, <2>4
<1>6. ASSUME NEW c \in live \ {Root}
      PROVE  childParent[c] # c
  <2>1. PICK f \in Pids : \E i \in 1..Len(file[f]) : CloneOf(f, i, c)
    BY DEF ClimbInv, BornInv
  <2>2. c \in Pids
    BY <1>3
  <2> QED BY <1>5, <2>1, <2>2
<1>7. PICK A \in SUBSET Pids : A = Along(childParent, p)
  BY DEF Along
<1>8. p \in A /\ \A x \in A : childParent[x] \in A
  BY <1>3, <1>7 DEF Along
<1>9. PICK W \in SUBSET Pids : W = A \cap (live \ {Root})
  OBVIOUS
<1>10. p \in W
  BY <1>4, <1>5, <1>8, <1>9
<1>11. ASSUME NEW x \in W PROVE h[x] \in W
  <2>1. CASE h[x] = x
    BY <2>1
  <2>2. CASE h[x] # x
    <3>1. h[x] = childParent[x] /\ pidCloneTimeCwd[childParent[x]] = None
      BY <1>2, <2>2
    <3>2. childParent[x] # Root
      BY <3>1 DEF ClimbInv
    <3>3. childParent[x] \in live
      <4>1. childParent[x] # x /\ childParent[x] \in Pids
        BY <1>3, <1>6, <1>9
      <4> QED BY <1>4, <1>5, <4>1
    <3> QED BY <1>8, <1>9, <3>1, <3>2, <3>3
  <2> QED BY <2>1, <2>2
<1>12. PICK B \in SUBSET Pids : B = Along(h, p)
  BY DEF Along
<1>13. B \subseteq W
  BY <1>10, <1>11, <1>12 DEF Along
<1>14. p \in B /\ \A x \in B : h[x] \in B
  <2>1. \A x \in B : h[x] \in Pids
    BY <1>11, <1>13
  <2> QED BY <1>12, <2>1 DEF Along
<1>15. PICK y \in B : \A f \in B : \A i \in 1..Len(file[f]) : ~CloneOf(f, i, y)
  BY <1>14 DEF ClimbInv, OldestInv
<1>16. h[y] = y
  <2>1. CASE h[y] = childParent[y]
    BY <1>3, <1>4, <1>14, <1>15, <2>1
  <2> QED BY <1>2, <2>1
<1>17. PICK ends : ends = {x \in Along(recoveryHop, p) : recoveryHop[x] = x}
  OBVIOUS
<1>18. ends = {x \in B : h[x] = x} /\ ends # {}
  BY <1>1, <1>12, <1>16, <1>17
<1>19. PICK x : x = CHOOSE e \in ends : TRUE
  OBVIOUS
<1>20. x \in B /\ h[x] = x
  BY <1>18, <1>19
<1>21. childParent[x] # x /\ bornBeforeMutation(x) /\ x \in Pids
  BY <1>6, <1>7, <1>9, <1>13, <1>20
<1>22. pidCloneTimeCwd[childParent[x]] # None
  BY <1>2, <1>20, <1>21
<1>23. recoveredCwd(p) = pidCloneTimeCwd[childParent[x]]
  BY <1>17, <1>18, <1>19, <1>21 DEF recoveredCwd
<1> QED BY <1>22, <1>23

LEMMA ReplayStamped ==
    ASSUME SharedInv, ClimbInv, Replay, rootKnown, Unshared, NEW o \in deferredRelOpens, o.stamped,
           firstCwdMutationTs[o.pid] = 0 \/ o.ts < firstCwdMutationTs[o.pid],
           \A x \in Along(childParent, o.pid) : bornBeforeMutation(x)
    PROVE  \E e \in emitted' : e.pid = o.pid /\ e.ts = o.ts
<1>1. everCwdShared = {} /\ ~o.sharedAtRead /\ ~o.cloneFsSeed
  BY DEF ClimbInv, UnjoinedInv
<1>2. ~lineageSharedGroupMutated(o.seedParentPid)
  BY <1>1 DEF lineageSharedGroupMutated
<1>3. o.pid \in Pids /\ childParent[o.pid] # o.pid
  BY DEF SharedInv, TypeOK, Deferred, ReadInv, ParkedRead
<1>4. AllTaken
  BY DEF Replay, AllTaken
<1>5. recoveredCwd(o.pid) # None
  BY <1>3, <1>4, ClimbEnds
<1>6. replayCwd(o) # None
  BY <1>1, <1>2, <1>5 DEF replayCwd
<1>7. [pid |-> o.pid, ts |-> o.ts, dir |-> replayCwd(o), replay |-> TRUE] \in emitted'
  BY <1>6 DEF Replay
<1> QED BY <1>7

\* In a tree of plain forks with a known root, every open parked until its clone was seen is
\* resolved at the end, unless its process moved before it or one that it descends from moved
\* before the clone that leads to it: the climb stops below a process with a directory.
THEOREM StampedResolvesHolds == Spec => StampedResolves
<1>1. Init => ClimbInv
  <2> SUFFICES ASSUME Init PROVE ClimbInv
    OBVIOUS
  <2>1. \A p \in Pids : Len(file[p]) = 0
    BY DEF Init
  <2>2. BornInv
    BY DEF Init, BornInv
  <2>3. OldestInv
    BY <2>1 DEF OldestInv
  <2>4. rootKnown => pidCloneTimeCwd[Root] # None
    BY RootAssumption, DirsAssumption DEF Init
  <2>5. UnjoinedInv
    BY DEF Init, UnjoinedInv
  <2> QED BY <2>2, <2>3, <2>4, <2>5 DEF ClimbInv
<1>2. SharedInv /\ ClimbInv /\ [Next]_vars => ClimbInv'
  <2> SUFFICES ASSUME SharedInv, ClimbInv, [Next]_vars PROVE ClimbInv'
    OBVIOUS
  <2>1. CASE KernelNext
    <3>1. BornInv' /\ OldestInv'
      BY <2>1, ClimbCalls
    <3>2. /\ everCwdShared' = everCwdShared /\ deferredRelOpens' = deferredRelOpens
          /\ rootKnown' = rootKnown /\ pidCloneTimeCwd' = pidCloneTimeCwd
          /\ running
      BY <2>1 DEF KernelNext, Chdir, Clone, Unshare, Other, Calling, groupVars, openVars, cloneVars
    <3>3. Unshared' => Unshared
      <4>1. PICK p \in live, l \in Line : file' = [file EXCEPT ![p] = Append(@, l)]
        BY <2>1, CallAdds
      <4>2. file \in [Pids -> Seq(Line)] /\ p \in Pids
        BY <4>1 DEF SharedInv, TypeOK
      <4>3. \A q \in Pids : \A i \in 1..Len(file[q]) :
              i \in 1..Len(file'[q]) /\ file'[q][i] = file[q][i]
        BY <4>1, <4>2, Added
      <4> QED BY <4>3 DEF Unshared, Only
    <3>4. rootKnown' => pidCloneTimeCwd'[Root] # None
      BY <3>2 DEF ClimbInv
    <3>5. UnjoinedInv'
      BY <3>2, <3>3 DEF ClimbInv, UnjoinedInv
    <3> QED BY <3>1, <3>4, <3>5 DEF ClimbInv
  <2>2. CASE TakeNext
    BY <2>2, ClimbTake
  <2>3. CASE TreeDone \/ Replay \/ Done \/ UNCHANGED vars
    <3>1. /\ live' = live /\ file' = file /\ everCwdShared' = everCwdShared
          /\ rootKnown' = rootKnown /\ pidCloneTimeCwd' = pidCloneTimeCwd
          /\ deferredRelOpens' \subseteq deferredRelOpens
      BY <2>3 DEF TreeDone, Replay, Done, vars, treeVars, groupVars, cloneVars, openVars
    <3>2. BornInv' /\ OldestInv'
      BY <3>1, ClimbStays
    <3>3. UnjoinedInv'
      BY <3>1 DEF ClimbInv, UnjoinedInv, Unshared, Only
    <3> QED BY <3>1, <3>2, <3>3 DEF ClimbInv
  <2> QED BY <2>1, <2>2, <2>3 DEF Next
<1>3. SharedInv /\ ClimbInv /\ [Next]_vars =>
        [~replayed /\ replayed' /\ rootKnown /\ Unshared =>
           \A o \in deferredRelOpens :
              /\ o.stamped
              /\ firstCwdMutationTs[o.pid] = 0 \/ o.ts < firstCwdMutationTs[o.pid]
              /\ \A x \in Along(childParent, o.pid) : bornBeforeMutation(x)
              => \E e \in emitted' : e.pid = o.pid /\ e.ts = o.ts]_vars
  <2> SUFFICES ASSUME SharedInv, ClimbInv, [Next]_vars, ~replayed, replayed', rootKnown, Unshared,
                      NEW o \in deferredRelOpens, o.stamped,
                      firstCwdMutationTs[o.pid] = 0 \/ o.ts < firstCwdMutationTs[o.pid],
                      \A x \in Along(childParent, o.pid) : bornBeforeMutation(x)
               PROVE  \E e \in emitted' : e.pid = o.pid /\ e.ts = o.ts
    OBVIOUS
  <2>1. ~KernelNext
    <3>1. KernelNext => replayed' = replayed
      BY DEF KernelNext, Chdir, Clone, Unshare, Other, Calling
    <3> QED BY <3>1
  <2>2. ~TakeNext
    <3>1. TakeNext => replayed' = replayed
      BY DEF TakeNext, TakeChdir, TakeRelative, TakeOpaque, TakeClone, TakeUnshare, TakeOpen, TakeExec, Take
    <3> QED BY <3>1
  <2>3. Replay
    BY <2>1, <2>2 DEF Next, TreeDone, Done, vars
  <2> QED BY <2>3, ReplayStamped
<1> QED
  BY <1>1, <1>2, <1>3, SharedInvariant, PTL DEF Spec, StampedResolves
=============================================================================
