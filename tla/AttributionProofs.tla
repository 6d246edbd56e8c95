------------------------- MODULE AttributionProofs -------------------------
(***************************************************************************)
(* Proofs about Attribution, for any number of processes and packages, any *)
(* reuse of pids and any order in which the files are read.                *)
(*                                                                         *)
(* The invariants come first.  TreeInv is about the processes and their    *)
(* files alone: where the script of every generation comes from and what   *)
(* the lines tell of it.  LineInv, CountInv, NamedInv and the parts of     *)
(* PromptParts relate what the dispatcher keeps to the lines it has taken  *)
(* and to the processes as they are.  Each theorem takes from them the     *)
(* conjunction that is inductive for it.                                   *)
(***************************************************************************)
EXTENDS Attribution, FiniteSetTheorems, FunctionTheorems, WellFoundedInduction, TLAPS

IsClone(q, i, c) == file[q][i].kind = "clone" /\ file[q][i].child = c

\* The package whose script wrote line i of q.
wrote(q, i) == scripts[q][file[q][i].gen]

\* The package manager runs no script and is there to the end; nobody else lives without
\* having been forked.
RootInv == Root \in live /\ scripts[Root] = <<None>> /\ \A p \in live : scripts[p] # <<>>

\* Every line is of a generation of its pid, as is every record.
GenInv ==
    /\ \A p \in Pids : \A i \in DOMAIN file[p] : file[p][i].gen \in DOMAIN scripts[p]
    /\ \A i \in DOMAIN shimFile : shimFile[i].gen \in DOMAIN scripts[shimFile[i].pid]

\* Between the lines of two generations of a pid is the exit line of one, and after it
\* nothing of its generation.
ExitInv ==
    \A p \in Pids : \A i \in DOMAIN file[p] :
        /\ file[p][i].gen # gen(p) \/ p \notin live =>
               \E m \in i..Len(file[p]) : file[p][m].kind = "exit"
        /\ file[p][i].kind = "exit" => file[p][i].gen # gen(p) \/ p \notin live
        /\ \A j \in i + 1..Len(file[p]) :
              /\ file[p][i].gen # file[p][j].gen => \E m \in i..(j - 1) : file[p][m].kind = "exit"
              /\ file[p][i].kind = "exit" => file[p][i].gen # file[p][j].gen

\* Only the package manager forks before it runs a script, and what is forked runs the script
\* of the process that forked it.
CloneInv ==
    \A q \in Pids : \A i \in DOMAIN file[q], c \in Pids :
        IsClone(q, i, c) =>
            /\ c \notin {q, Root}
            /\ q = Root \/ wrote(q, i) # None
            /\ \E h \in DOMAIN scripts[c] : wrote(q, i) # None => scripts[c][h] = wrote(q, i)

\* A process that runs a script was forked by the package manager and started it with the first
\* exec of its generation, in the directory of the package, or was forked by one that ran it.
Started(p, g) ==
    /\ \E i \in DOMAIN file[Root] : IsClone(Root, i, p)
    /\ \E i \in DOMAIN file[p] :
          /\ file[p][i].kind = "spawn" /\ file[p][i].gen = g
          /\ file[p][i].inWorkDir = (scripts[p][g] = RootPkg)
          /\ \A j \in 1..(i - 1) : file[p][j].gen = g => file[p][j].kind # "spawn"
Forked(p, g) ==
    \E q \in Pids \ {Root} : \E i \in DOMAIN file[q] : IsClone(q, i, p) /\ wrote(q, i) = scripts[p][g]
OriginInv ==
    \A p \in Pids : \A g \in DOMAIN scripts[p] : scripts[p][g] # None => Started(p, g) \/ Forked(p, g)

\* A generation that has not started its script has made no exec and was forked by the package manager.
FreshInv ==
    \A p \in live \ {Root} : scriptOf(p) = None =>
        /\ \E i \in DOMAIN file[Root] : IsClone(Root, i, p)
        /\ \A i \in DOMAIN file[p] : file[p][i].gen = gen(p) => file[p][i].kind # "spawn"

\* Parents live and run the same script.
ParentInv ==
    \A p \in live : ppid[p] # None =>
        ppid[p] \in live /\ (ppid[p] = Root \/ (scriptOf(p) # None /\ scriptOf(ppid[p]) = scriptOf(p)))

TreeInv == RootInv /\ GenInv /\ ExitInv /\ CloneInv /\ OriginInv /\ FreshInv /\ ParentInv

\* Without forgery every name is that of the process which has it.
NameInv ==
    "forge" \notin used =>
        /\ \A p \in live : {image[p].env, image[p].canon} \subseteq {None, scriptOf(p)}
        /\ \A i \in DOMAIN shimFile :
              shimFile[i].npm \in {None, scripts[shimFile[i].pid][shimFile[i].gen]}

-----------------------------------------------------------------------------
\* The dispatcher is not ahead of what was written.
TakenInv == shimTaken <= Len(shimFile) /\ \A p \in Pids : taken[p] <= Len(file[p])

\* Nobody was called a bypass or resolved before the end.
EndInv == ~ended => \A r \in reports : r.how \in {"live", "shim"}

\* The records of execs among the first n that were not taken back.
Kept(p, n) ==
    {i \in 1..n : /\ shimFile[i].kind = "exec" /\ shimFile[i].pid = p
                  /\ i < n => shimFile[i + 1].kind # "failed"}
Spawns(p, n) == {i \in 1..n : file[p][i].kind = "spawn"}
Recorded(p) == {i \in Spawns(p, Len(file[p])) : file[p][i].recorded}

\* A record is taken back by the next one.
FailedInv ==
    \A i \in DOMAIN shimFile : shimFile[i].kind = "failed" =>
        i > 1 /\ shimFile[i - 1].kind = "exec" /\ shimFile[i - 1].pid = shimFile[i].pid

\* The shim has recorded as many execs as the lines say, and the dispatcher has counted them
\* and sampled the lines.
RecordedInv == \A p \in Pids : Cardinality(Kept(p, Len(shimFile))) = Cardinality(Recorded(p))
CountedInv == \A p \in Pids : shimExecCountByPid[p] = Cardinality(Kept(p, shimTaken))
SampledInv ==
    \A p \in Pids :
        /\ Len(straceExecsByPid[p]) = Cardinality(Spawns(p, taken[p]))
        /\ \A i \in 1..Len(straceExecsByPid[p]) :
              /\ straceExecsByPid[p][i].event.pid = p /\ straceExecsByPid[p][i].event.at <= taken[p]
              /\ \A j \in 1..(i - 1) : straceExecsByPid[p][j].event.at < straceExecsByPid[p][i].event.at
CountInv == RecordedInv /\ CountedInv /\ SampledInv

-----------------------------------------------------------------------------
\* What was taken is reported or parked.
Reported(p, i) ==
    \/ \E r \in reports : r.event.from = "strace" /\ r.event.pid = p /\ r.event.at = i
    \/ \E e \in deferredNullAttribEvents : e.from = "strace" /\ e.pid = p /\ e.at = i
TakenReported ==
    ~ended => \A p \in Pids : \A i \in 1..taken[p] :
        file[p][i].kind \in {"spawn", "failed", "read"} => Reported(p, i)
SeedInv ==
    \A i \in 1..shimTaken :
        shimFile[i].kind \in {"exec", "failed"} /\ shimFile[i].npm # None
            => attributionGenByPid[shimFile[i].pid] # None

-----------------------------------------------------------------------------
\* What the taken lines of a pid and of its forks say.
RecycledInv ==
    \A p \in Pids : \A i \in 1..taken[p] :
        /\ file[p][i].kind = "exit" => p \in pidSawExit
        /\ p \notin pidRecycled /\ file[p][i].kind = "spawn" =>
              \A j \in 1..(i - 1) : file[p][j].kind # "exit"
        /\ file[p][i].kind = "spawn" /\ (\A j \in 1..(i - 1) : file[p][j].kind # "spawn") =>
              execCwd[p] = IF file[p][i].inWorkDir THEN "workDir" ELSE "elsewhere"
NotYetInv ==
    \A p \in Pids : execCwd[p] = "none" \/ \E i \in 1..taken[p] : file[p][i].kind = "spawn"
EdgeInv ==
    \A q, c \in Pids : \A i \in 1..taken[q] :
        IsClone(q, i, c) => childParent[c] # None /\ (c \notin childParentReused => childParent[c] = q)
LineInv == RecycledInv /\ NotYetInv /\ EdgeInv

-----------------------------------------------------------------------------
\* The names known of p are names p had.
R(p) == {scripts[p][g] : g \in DOMAIN scripts[p]} \ {None}
ForkedIn(p, S) == \A f \in Pids : \A i \in DOMAIN file[f] : IsClone(f, i, p) => f \in S
Named(p) ==
    /\ cache[p] \in {"unread", None} \cup R(p)
    /\ attributionSnapshotByPid[p] # None => attributionSnapshotByPid[p].pkg \in R(p)
    /\ attributionGenByPid[p] # None => attributionGenByPid[p].pkg \in R(p)
NamedInv ==
    "forge" \notin used =>
        \A S \in SUBSET Pids : SingleLine(S) => \A p \in Pids : ForkedIn(p, S) => Named(p)

-----------------------------------------------------------------------------
Prompt == ~behind /\ late = {} /\ "forge" \notin used
ForksUntaken(p) == \E q \in Pids : \E i \in taken[q] + 1..Len(file[q]) : IsClone(q, i, p)
RecordsUntaken(p) == \E i \in shimTaken + 1..Len(shimFile) : shimFile[i].pid = p
Gone(p) == p \notin live /\ ~Untaken(p)
WaitingInv ==
    /\ \A p \in Pids : \A i \in taken[p] + 1..Len(file[p]) :
          /\ file[p][i].gen = gen(p)
          /\ \A c \in Pids : IsClone(p, i, c) /\ scriptOf(p) # None => scriptOf(c) = scriptOf(p)
    /\ \A i \in shimTaken + 1..Len(shimFile) : shimFile[i].gen = gen(shimFile[i].pid)
GoneInv ==
    \A p \in Pids : Gone(p) =>
        /\ cache[p] = "unread"
        /\ attributionSnapshotByPid[p] # None => attributionSnapshotByPid[p].stale
        /\ ~ForksUntaken(p) /\ ~RecordsUntaken(p)
NowInv ==
    \A p \in Pids :
        /\ cache[p] \notin {"unread", None} => gen(p) > 0 /\ cache[p] = scriptOf(p)
        /\ attributionSnapshotByPid[p] # None /\ ~attributionSnapshotByPid[p].stale =>
              gen(p) > 0 /\ attributionSnapshotByPid[p].pkg = scriptOf(p)
TrueOf(e, pkg) == e.gen \in DOMAIN scripts[e.pid] /\ pkg \in {Unattributed, truth(e)}
SaidInv ==
    /\ \A r \in reports : r.event.from = "strace" /\ r.how # "parked" => TrueOf(r.event, r.pkg)
    /\ \A p \in Pids : \A i \in DOMAIN straceExecsByPid[p] :
          TrueOf(straceExecsByPid[p][i].event, straceExecsByPid[p][i].pkg)

-----------------------------------------------------------------------------
(* Numbers.                                                                *)

\* A set of numbers has a least.
LEMMA Least ==
    ASSUME NEW T \in SUBSET Nat, T # {}
    PROVE  \E x \in T : \A y \in T : x <= y
<1> DEFINE R0 == OpToRel(<, Nat)
<1>1. R0 = {ss \in Nat \X Nat : ss[1] < ss[2]}
  BY DEF OpToRel
<1>2. IsWellFoundedOn(R0, Nat)
  BY NatLessThanWellFounded
<1>3. PICK x \in T : \A y \in T : <<y, x>> \notin R0
  <2> HIDE DEF R0
  <2> QED BY <1>2, WFMin
<1>4. \A y \in T : ~(y < x)
  BY <1>1, <1>3
<1> HIDE DEF R0
<1> QED BY <1>3, <1>4

-----------------------------------------------------------------------------
(* Types.                                                                  *)

\* What a step of a process writes has its type.
LEMMA StepType ==
    ASSUME TypeOK, NEW p \in Pids, NEW step, NEW lines \in Seq(Line), NEW records \in Seq(Record),
           Step(p, step, lines, records)
    PROVE  /\ steps' \in 0..MaxSteps /\ file' \in [Pids -> Seq(Line)] /\ shimFile' \in Seq(Record)
           /\ used' \subseteq Steps
<1>1. /\ steps < MaxSteps /\ steps' = steps + 1 /\ used' = used \cup {step} /\ step \in Allowed
      /\ file' = [file EXCEPT ![p] = @ \o lines] /\ shimFile' = shimFile \o records
  BY DEF Step
<1>2. steps' \in 0..MaxSteps /\ used' \subseteq Steps
  BY <1>1, StepsAssumption DEF TypeOK
<1>3. shimFile \in Seq(Record) /\ file \in [Pids -> Seq(Line)] /\ file[p] \in Seq(Line)
  BY DEF TypeOK
<1>4. shimFile' \in Seq(Record) /\ file[p] \o lines \in Seq(Line)
  BY <1>1, <1>3
<1> QED BY <1>1, <1>2, <1>3, <1>4

\* Lines and records of p have their types.
LEMMA LineType ==
    ASSUME TypeOK, NEW p \in Pids
    PROVE  /\ gen(p) \in Nat /\ aLine(p) \in Line
           /\ \A kinds \in Seq({"exec", "failed", "other", "startup"}) : Records(p, kinds) \in Seq(Record)
<1>1. gen(p) \in Nat
  BY DEF gen, TypeOK
<1>2. aLine(p) \in Line
  BY <1>1, RootAssumption DEF aLine, Line
<1>3. ASSUME NEW kinds \in Seq({"exec", "failed", "other", "startup"})
      PROVE  Records(p, kinds) \in Seq(Record)
  <2>1. image[p].canon \in Name
    BY DEF TypeOK, Image
  <2>2. \A i \in DOMAIN kinds : [kind |-> kinds[i], pid |-> p, npm |-> image[p].canon, gen |-> gen(p)] \in Record
    BY <1>1, <2>1 DEF Record
  <2>3. [i \in DOMAIN kinds |-> [kind |-> kinds[i], pid |-> p, npm |-> image[p].canon, gen |-> gen(p)]]
          \in Seq(Record)
    BY <2>2
  <2> QED BY <2>3 DEF Records
<1> QED BY <1>1, <1>2, <1>3

\* The answers there can be.
LEMMA WalkType == TypeOK => \A p \in Pids : walk(p) \in Name /\ attribute(p) \in Name
<1> SUFFICES ASSUME TypeOK, NEW p \in Pids PROVE walk(p) \in Name /\ attribute(p) \in Name
  OBVIOUS
<1>1. walk(p) \in Name
  <2> DEFINE named == {q \in visited(p) \cap live : image[q].env # None}
  <2>1. walk(p) = IF named = {} THEN None ELSE image[CHOOSE q \in named : TRUE].env
    BY DEF walk
  <2>2. named \subseteq Pids
    BY DEF visited
  <2>3. \A q \in Pids : image[q].env \in Name
    BY DEF TypeOK, Image
  <2> HIDE DEF named
  <2> QED BY <2>1, <2>2, <2>3 DEF Name
<1>2. attribute(p) \in Name
  BY <1>1 DEF attribute, TypeOK
<1> QED BY <1>1, <1>2

\* Everything a process leaves alone.
DispatchVars == <<taken, shimTaken, attrVars, nodeStartupAttributionByPid, lineVars, countVars, outVars, ended>>

\* Types of the dispatcher's state.
DispatchType ==
    /\ taken \in [Pids -> Nat] /\ shimTaken \in Nat /\ cache \in [Pids -> Name \cup {"unread"}]
    /\ late \subseteq {"record", "clone"}
    /\ attributionSnapshotByPid \in [Pids -> Snapshot \cup {None}]
    /\ attributionGenByPid \in [Pids -> Generation \cup {None}]
    /\ nodeStartupAttributionByPid \in [Pids -> Name]
    /\ pidSawExit \subseteq Pids /\ pidRecycled \subseteq Pids
    /\ childParent \in [Pids -> Pids \cup {None}] /\ childParentReused \subseteq Pids
    /\ execCwd \in [Pids -> {"none", "workDir", "elsewhere"}]
    /\ straceExecsByPid \in [Pids -> Seq([event : Event, pkg : Pkgs \cup {Unattributed}])]
    /\ shimExecCountByPid \in [Pids -> Nat]
    /\ deferredNullAttribEvents \subseteq Event /\ reports \subseteq Report /\ ended \in BOOLEAN

TreeType ==
    /\ live \subseteq Pids /\ ppid \in [Pids -> Pids \cup {None}] /\ image \in [Pids -> Image]
    /\ scripts \in [Pids -> Seq(Name)] /\ steps \in 0..MaxSteps
    /\ file \in [Pids -> Seq(Line)] /\ shimFile \in Seq(Record)
    /\ used \subseteq Steps /\ behind \in BOOLEAN

LEMMA TypeHalves == TypeOK <=> TreeType /\ DispatchType
  BY DEF TypeOK, TreeType, DispatchType

\* A step of a process leaves the dispatcher alone.
LEMMA ProcessDispatch ==
    ASSUME NEW p \in Pids, Processes(p)
    PROVE  UNCHANGED DispatchVars
  BY DEF Processes, Fork, Start, Exec, Fail, Read, ShimEvent, Exit, Step, DispatchVars
\* Types, and that who lives has a generation.
Base == TypeOK /\ RootInv

\* A process runs what its last generation runs.
LEMMA LiveScript == Base => \A p \in live : scriptOf(p) \in Name /\ scriptOf(p) = scripts[p][gen(p)] /\ gen(p) \in Nat \ {0}
<1> SUFFICES ASSUME Base, NEW p \in live
             PROVE  scriptOf(p) \in Name /\ scriptOf(p) = scripts[p][gen(p)] /\ gen(p) \in Nat \ {0}
  OBVIOUS
<1>1. scripts[p] \in Seq(Name) /\ scripts[p] # <<>>
  BY DEF Base, TypeOK, RootInv
<1>2. Len(scripts[p]) \in Nat \ {0}
  BY <1>1
<1>3. scripts[p][Len(scripts[p])] \in Name
  BY <1>1, <1>2
<1> QED BY <1>2, <1>3 DEF scriptOf, Last, gen

ScriptsNow == \A p \in live : scriptOf(p) \in Name /\ scriptOf(p) = scripts[p][gen(p)] /\ gen(p) \in Nat \ {0}
LEMMA NowRuns == Base => ScriptsNow
  BY LiveScript DEF ScriptsNow

\* The processes keep their types.
LEMMA ProcessType ==
    ASSUME Base, NEW p \in Pids, Processes(p)
    PROVE  TreeType' /\ RootInv'
<1> DEFINE K == {"exec", "failed", "other", "startup"}
           NameSeqs == Seq(Name)
           LineSeqs == Seq(Line)
           RecordSeqs == Seq(Record)
<1>0. /\ live \subseteq Pids /\ ppid \in [Pids -> Pids \cup {None}] /\ image \in [Pids -> Image]
      /\ scripts \in [Pids -> Seq(Name)] /\ behind \in BOOLEAN /\ aLine(p) \in Line /\ gen(p) \in Nat
      /\ scripts[p] \in Seq(Name) /\ image[p] \in Image /\ image[p].shim \in BOOLEAN /\ image[p].env \in Name
      /\ Root \in live /\ scripts[Root] = <<None>> /\ \A q \in live : scripts[q] # <<>>
      /\ TypeOK /\ Root \in Pids
  BY LineType, RootAssumption DEF TypeOK, Base, RootInv, Image
<1>1. \A kinds \in Seq(K) : Records(p, kinds) \in Seq(Record)
  BY <1>0, LineType
<1>2. /\ <<>> \in Seq(Record) /\ <<>> \in Seq(Line) /\ <<"exec">> \in Seq(K) /\ <<"exec", "failed">> \in Seq(K)
      /\ \A l \in Line : <<l>> \in Seq(Line)
      /\ \A k \in K : <<k>> \in Seq(K)
  OBVIOUS
<1>s. ASSUME NEW step, NEW lines \in Seq(Line), NEW records \in Seq(Record), Step(p, step, lines, records)
      PROVE  /\ steps' \in 0..MaxSteps /\ file' \in [Pids -> Seq(Line)] /\ shimFile' \in Seq(Record)
             /\ used' \subseteq Steps /\ p \in live
  BY <1>s, <1>0, StepType DEF Step
<1> HIDE DEF K
\* What is left to show of an action that leaves the processes alone.
<1>q. ASSUME UNCHANGED <<live, ppid, scripts, behind>>, image' \in [Pids -> Image],
             NEW step, NEW lines \in Seq(Line), NEW records \in Seq(Record), Step(p, step, lines, records)
      PROVE  TreeType' /\ RootInv'
  <2>1. /\ steps' \in 0..MaxSteps /\ file' \in [Pids -> Seq(Line)] /\ shimFile' \in Seq(Record)
        /\ used' \subseteq Steps
    BY <1>q, <1>s
  <2> QED BY <1>q, <2>1, <1>0 DEF TreeType, RootInv
<1>3. ASSUME NEW c \in Pids, Fork(p, c) PROVE TreeType' /\ RootInv'
  <2>1. [aLine(p) EXCEPT !.kind = "clone", !.child = c] \in Line
    BY <1>0 DEF Line
  <2>2. Step(p, "fork", <<[aLine(p) EXCEPT !.kind = "clone", !.child = c]>>, <<>>) /\ c \notin live
    BY <1>3 DEF Fork
  <2>3. /\ steps' \in 0..MaxSteps /\ file' \in [Pids -> Seq(Line)] /\ shimFile' \in Seq(Record)
        /\ used' \subseteq Steps /\ p \in live
    BY <2>1, <2>2, <1>2, <1>s
  <2>4. /\ live' = live \cup {c} /\ ppid' = [ppid EXCEPT ![c] = p] /\ image' = [image EXCEPT ![c] = image[p]]
        /\ scripts' = [scripts EXCEPT ![c] = Append(@, scriptOf(p))]
    BY <1>3 DEF Fork
  <2>5. behind' \in BOOLEAN
    BY <1>3, <1>0 DEF Fork
  <2>6. scripts[c] \in Seq(Name) /\ scriptOf(p) \in Name
    BY <2>3, <1>0, LiveScript
  <2>7. Append(scripts[c], scriptOf(p)) \in Seq(Name) /\ Append(scripts[c], scriptOf(p)) # <<>>
    BY <2>6
  <2>8. live' \subseteq Pids /\ ppid' \in [Pids -> Pids \cup {None}] /\ image' \in [Pids -> Image]
    BY <2>4, <1>0
  <2>9. scripts' \in [Pids -> Seq(Name)] /\ scripts'[c] # <<>> /\ \A q \in Pids \ {c} : scripts'[q] = scripts[q]
    BY <2>4, <2>7, <1>0
  <2>10. RootInv'
    BY <2>2, <2>4, <2>9, <1>0 DEF RootInv
  <2> QED BY <2>3, <2>5, <2>8, <2>9, <2>10 DEF TreeType
<1>4. ASSUME NEW k \in Pkgs, Start(p, k) PROVE TreeType' /\ RootInv'
  <2> DEFINE l == [aLine(p) EXCEPT !.kind = "spawn", !.recorded = image[p].shim, !.inWorkDir = (k = RootPkg)]
  <2>1. l \in Line
    BY <1>0 DEF Line
  <2>2. Step(p, "start", <<l>>, Records(p, <<"exec">>)) /\ p # Root
    BY <1>4 DEF Start
  <2>3. Records(p, <<"exec">>) \in Seq(Record)
    BY <1>1, <1>2
  <2>4. /\ steps' \in 0..MaxSteps /\ file' \in [Pids -> Seq(Line)] /\ shimFile' \in Seq(Record)
        /\ used' \subseteq Steps /\ p \in live
    BY <2>1, <2>2, <2>3, <1>2, <1>s
  <2>5. /\ image' = [image EXCEPT ![p] = [env |-> k, canon |-> k, shim |-> TRUE]]
        /\ scripts' = [scripts EXCEPT ![p][gen(p)] = k] /\ UNCHANGED <<live, ppid, behind>>
    BY <1>4 DEF Start
  <2>6. [env |-> k, canon |-> k, shim |-> TRUE] \in Image /\ k \in Name
    BY DEF Image, Name
  <2>7. image' \in [Pids -> Image]
    BY <2>5, <2>6, <1>0
  <2>8. [scripts[p] EXCEPT ![gen(p)] = k] \in Seq(Name) /\ [scripts[p] EXCEPT ![gen(p)] = k] # <<>>
    <3>1. gen(p) \in 1..Len(scripts[p])
      BY <2>4, LiveScript DEF gen
    <3>2. scripts[p] \in Seq(Name) /\ Len(scripts[p]) \in Nat
      BY <1>0
    <3>3. Len([scripts[p] EXCEPT ![gen(p)] = k]) = Len(scripts[p])
      BY <3>1, <3>2
    <3> QED BY <2>6, <3>1, <3>2, <3>3
  <2>9. scripts' \in [Pids -> Seq(Name)] /\ scripts'[p] # <<>> /\ \A q \in Pids \ {p} : scripts'[q] = scripts[q]
    BY <2>5, <2>8, <1>0
  <2>10. RootInv'
    BY <2>2, <2>5, <2>9, <1>0 DEF RootInv
  <2> QED BY <2>4, <2>5, <2>7, <2>9, <2>10, <1>0 DEF TreeType
<1>5. ASSUME NEW how \in Steps, NEW inWorkDir \in BOOLEAN, Exec(p, how, inWorkDir) PROVE TreeType' /\ RootInv'
  <2> DEFINE raw == how \in {"raw", "rawscrub"} \/ ~image[p].shim
             env == CASE how \in {"scrub", "rawscrub"} -> None
                      [] how = "forge" -> RootPkg
                      [] OTHER -> image[p].env
             l == [aLine(p) EXCEPT !.kind = "spawn", !.recorded = ~raw, !.inWorkDir = inWorkDir]
             records == IF raw THEN <<>> ELSE Records(p, <<"exec">>)
             im == [env |-> env, canon |-> env, shim |-> image[p].shim /\ how # "rawscrub"]
  <2>1. Step(p, how, <<l>>, records) /\ image' = [image EXCEPT ![p] = im]
        /\ UNCHANGED <<live, ppid, scripts, behind>>
    BY <1>5 DEF Exec
  <2>2. l \in Line
    <3>1. raw \in BOOLEAN
      OBVIOUS
    <3> HIDE DEF raw
    <3> QED BY <1>0, <3>1 DEF Line
  <2>3. records \in Seq(Record)
    BY <1>1, <1>2
  <2>4. env \in Name
    BY <1>0, RootAssumption DEF Name
  <2>5. im \in Image
    <3> HIDE DEF env
    <3> QED BY <2>4, <1>0 DEF Image
  <2> HIDE DEF l, records, im, env, raw
  <2>6. image' \in [Pids -> Image]
    BY <2>1, <2>5, <1>0
  <2> QED BY <2>1, <2>2, <2>3, <2>6, <1>2, <1>q
<1>6. ASSUME Fail(p) PROVE TreeType' /\ RootInv'
  <2>1. /\ Step(p, "fail", <<[aLine(p) EXCEPT !.kind = "failed"]>>, Records(p, <<"exec", "failed">>))
        /\ UNCHANGED <<live, ppid, image, scripts, behind>>
    BY <1>6 DEF Fail
  <2>2. [aLine(p) EXCEPT !.kind = "failed"] \in Line /\ Records(p, <<"exec", "failed">>) \in Seq(Record)
    BY <1>0, <1>1, <1>2 DEF Line
  <2> QED BY <2>1, <2>2, <1>0, <1>2, <1>q
<1>7. ASSUME Read(p) PROVE TreeType' /\ RootInv'
  <2>1. Step(p, "read", <<aLine(p)>>, <<>>) /\ UNCHANGED <<live, ppid, image, scripts, behind>>
    BY <1>7 DEF Read
  <2> QED BY <2>1, <1>0, <1>2, <1>q
<1>8. ASSUME NEW kind \in Steps, ShimEvent(p, kind) PROVE TreeType' /\ RootInv'
  <2>1. Step(p, kind, <<>>, Records(p, <<kind>>)) /\ UNCHANGED <<live, ppid, image, scripts, behind>>
        /\ kind \in {"other", "startup"}
    BY <1>8 DEF ShimEvent
  <2>2. Records(p, <<kind>>) \in Seq(Record)
    BY <2>1, <1>1, <1>2 DEF K
  <2> QED BY <2>1, <2>2, <1>0, <1>2, <1>q
<1>9. ASSUME Exit(p) PROVE TreeType' /\ RootInv'
  <2>1. Step(p, "exit", <<[aLine(p) EXCEPT !.kind = "exit"]>>, <<>>) /\ p # Root
        /\ live' = live \ {p} /\ ppid' = [q \in Pids |-> IF ppid[q] = p THEN None ELSE ppid[q]]
        /\ UNCHANGED <<image, scripts, behind>>
    BY <1>9 DEF Exit
  <2>2. [aLine(p) EXCEPT !.kind = "exit"] \in Line
    BY <1>0 DEF Line
  <2>3. /\ steps' \in 0..MaxSteps /\ file' \in [Pids -> Seq(Line)] /\ shimFile' \in Seq(Record)
        /\ used' \subseteq Steps
    BY <2>1, <2>2, <1>2, <1>s
  <2>4. ppid' \in [Pids -> Pids \cup {None}]
    BY <2>1, <1>0
  <2> QED BY <2>1, <2>3, <2>4, <1>0 DEF TreeType, RootInv
<1> QED
  BY <1>3, <1>4, <1>5, <1>6, <1>7, <1>8, <1>9 DEF Processes
-----------------------------------------------------------------------------
(* The dispatcher keeps its types.                                         *)

\* What the answer for p leaves.
LEMMA AskedType ==
    ASSUME DispatchType, NEW p \in Pids, NEW result \in Name
    PROVE  /\ Asked(p, result) =>
                /\ cache' \in [Pids -> Name \cup {"unread"}]
                /\ attributionSnapshotByPid' \in [Pids -> Snapshot \cup {None}]
                /\ attributionGenByPid' \in [Pids -> Generation \cup {None}]
           /\ result # None =>
                /\ snapshotWith(attributionSnapshotByPid, p, result) \in [Pids -> Snapshot \cup {None}]
                /\ generationWith(attributionGenByPid, p, result) \in [Pids -> Generation \cup {None}]
                /\ generationWith(attributionGenByPid, p, result)[p] \in Generation
                /\ [pkg |-> result, stale |-> FALSE, old |-> FALSE] \in Snapshot
<1>1. ASSUME result # None
      PROVE  /\ snapshotWith(attributionSnapshotByPid, p, result) \in [Pids -> Snapshot \cup {None}]
             /\ generationWith(attributionGenByPid, p, result) \in [Pids -> Generation \cup {None}]
             /\ generationWith(attributionGenByPid, p, result)[p] \in Generation
             /\ [pkg |-> result, stale |-> FALSE, old |-> FALSE] \in Snapshot
  <2>1. result \in Pkgs
    BY <1>1 DEF Name
  <2>2. [pkg |-> result, stale |-> FALSE, old |-> FALSE] \in Snapshot
    BY <2>1 DEF Snapshot
  <2>3. snapshotWith(attributionSnapshotByPid, p, result) \in [Pids -> Snapshot \cup {None}]
    BY <2>2 DEF snapshotWith, DispatchType
  <2> DEFINE amb == attributionGenByPid[p] # None /\ (attributionGenByPid[p].ambiguous \/ attributionGenByPid[p].pkg # result)
             name == IF attributionGenByPid[p] = None THEN result ELSE attributionGenByPid[p].pkg
             g == [pkg |-> name, ambiguous |-> amb]
  <2>4. g \in Generation
    <3>1. attributionGenByPid[p] \in Generation \cup {None}
      BY DEF DispatchType
    <3>2. name \in Pkgs
      BY <2>1, <3>1 DEF Generation
    <3>3. amb \in BOOLEAN
      OBVIOUS
    <3> HIDE DEF amb, name
    <3> QED BY <3>2, <3>3 DEF Generation
  <2>5. generationWith(attributionGenByPid, p, result) = [attributionGenByPid EXCEPT ![p] = g]
    BY DEF generationWith
  <2> HIDE DEF g
  <2>6. attributionGenByPid \in [Pids -> Generation \cup {None}]
    BY DEF DispatchType
  <2> QED BY <2>2, <2>3, <2>4, <2>5, <2>6
<1>2. ASSUME Asked(p, result)
      PROVE  /\ cache' \in [Pids -> Name \cup {"unread"}]
             /\ attributionSnapshotByPid' \in [Pids -> Snapshot \cup {None}]
             /\ attributionGenByPid' \in [Pids -> Generation \cup {None}]
  BY <1>1, <1>2 DEF Asked, DispatchType
<1> QED BY <1>1, <1>2

\* A sampled or emitted event is one.
LEMMA EventType ==
    ASSUME TypeOK, NEW p \in Pids, Untaken(p)
    PROVE  /\ thisEvent(p) \in Event /\ thisEvent(p).pid = p /\ thisEvent(p).from = "strace"
           /\ thisEvent(p).at = taken[p] + 1 /\ thisEvent(p).gen = NextLine(p).gen
           /\ NextLine(p) \in Line /\ taken[p] + 1 \in DOMAIN file[p]
<1>1. taken[p] \in Nat /\ Len(file[p]) \in Nat /\ taken[p] < Len(file[p]) /\ file[p] \in Seq(Line)
  BY DEF TypeOK, Untaken
<1>2. taken[p] + 1 \in DOMAIN file[p]
  BY <1>1
<1>3. NextLine(p) \in Line
  BY <1>1, <1>2 DEF NextLine
<1>4. NextLine(p).gen \in Nat
  BY <1>3 DEF Line
<1> QED BY <1>1, <1>2, <1>3, <1>4 DEF thisEvent, Event

\* What a spawn is reported as.
LEMMA UsableType ==
    ASSUME TypeOK, NEW p \in Pids
    PROVE  /\ usableSnapshot(p) \in Pkgs \cup {Unattributed} /\ usableSnapshot(p) # None
           /\ snapshotAttribution(p) \in Name /\ freshSnapshotAttribution(p) \in Name
<1>1. attributionSnapshotByPid[p] \in Snapshot \cup {None}
  BY DEF TypeOK
<1>2. attributionSnapshotByPid[p] # None => attributionSnapshotByPid[p].pkg \in Pkgs
  BY <1>1 DEF Snapshot
<1> QED BY <1>2, NoneAssumption DEF usableSnapshot, snapshotAttribution, freshSnapshotAttribution, Name

\* The spawn of a program.
LEMMA EmitsType ==
    ASSUME TypeOK, NEW p \in Pids, Untaken(p), NEW result \in Name, EmitsSpawn(p, result)
    PROVE  deferredNullAttribEvents' \subseteq Event /\ reports' \subseteq Report
<1>1. thisEvent(p) \in Event /\ usableSnapshot(p) \in Pkgs \cup {Unattributed}
  BY EventType, UsableType
<1>2. deferredNullAttribEvents \subseteq Event /\ reports \subseteq Report
  BY DEF TypeOK
<1>3. \A pkg \in Pkgs \cup {Unattributed} : [event |-> thisEvent(p), pkg |-> pkg, how |-> "live"] \in Report
  BY <1>1 DEF Report
<1>4. result # None => result \in Pkgs \cup {Unattributed}
  BY DEF Name
<1> QED BY <1>1, <1>2, <1>3, <1>4 DEF EmitsSpawn, Reports, Parks

\* The first of some answers is one of them, and it is none only if all are.
LEMMA FirstOf ==
    ASSUME NEW said \in Seq(Name)
    PROVE  /\ firstOf(said) \in Name /\ \A i \in DOMAIN said : said[i] # None => firstOf(said) # None
           /\ firstOf(said) # None => \E i \in DOMAIN said : firstOf(said) = said[i]
<1> DEFINE given == {i \in DOMAIN said : said[i] # None}
           first == CHOOSE i \in given : \A j \in given : i <= j
<1>0. /\ Len(said) \in Nat
      /\ DOMAIN said = 1..Len(said)
      /\ \A i \in 1..Len(said) : said[i] \in Name
  <2>1. Len(said) \in Nat
    OBVIOUS
  <2>2. DOMAIN said = 1..Len(said)
    OBVIOUS
  <2> QED BY <2>1, <2>2
<1>1. firstOf(said) = IF given = {} THEN None ELSE said[first]
  BY DEF firstOf
<1>2. given # {} => first \in given
  <2> SUFFICES ASSUME given # {} PROVE first \in given
    OBVIOUS
  <2>1. given \subseteq Nat
    <3>1. given \subseteq 1..Len(said)
      BY <1>0
    <3> QED BY <3>1, <1>0
  <2> HIDE DEF given
  <2>2. \E i \in given : \A j \in given : i <= j
    BY <2>1, Least
  <2> QED BY <2>2
<1>3. \A i : i \in given <=> i \in DOMAIN said /\ said[i] # None
  OBVIOUS
<1> HIDE DEF given, first
<1>4. CASE given = {}
  BY <1>1, <1>3, <1>4 DEF Name
<1>5. CASE given # {}
  <2>1. first \in DOMAIN said /\ said[first] # None
    BY <1>2, <1>3, <1>5
  <2> QED BY <1>0, <1>1, <1>5, <2>1
<1> QED BY <1>4, <1>5
\* A sequence of answers.
LEMMA AnswersType ==
    TypeOK => \A p \in Pids, a, b \in Name :
        /\ <<a, b, freshSnapshotAttribution(p), nodeStartupAttributionByPid[p], snapshotAttribution(p)>> \in Seq(Name)
        /\ <<a, b>> \in Seq(Name)
<1> SUFFICES ASSUME TypeOK, NEW p \in Pids, NEW a \in Name, NEW b \in Name
             PROVE  /\ <<a, b, freshSnapshotAttribution(p), nodeStartupAttributionByPid[p], snapshotAttribution(p)>>
                          \in Seq(Name)
                    /\ <<a, b>> \in Seq(Name)
  OBVIOUS
<1>1. nodeStartupAttributionByPid[p] \in Name
  BY DEF TypeOK
<1>2. freshSnapshotAttribution(p) \in Name /\ snapshotAttribution(p) \in Name
  BY UsableType
<1> QED BY <1>1, <1>2

\* Whatever the dispatcher takes, its types stay.
LEMMA TakeType ==
    ASSUME Base, NEW p \in Pids, Takes(p)
    PROVE  DispatchType'
<1>0. TypeOK /\ DispatchType
  BY TypeHalves DEF Base
<1>1. /\ ~ended /\ Untaken(p) /\ taken' = [taken EXCEPT ![p] = @ + 1]
      /\ UNCHANGED <<treeVars, shimTaken, nodeStartupAttributionByPid, ended>>
  BY DEF Takes, TakeSpawn, TakeFailed, TakeRead, TakeClone, TakeExit, Take
<1>2. taken' \in [Pids -> Nat] /\ UNCHANGED <<shimTaken, nodeStartupAttributionByPid, ended>>
  BY <1>0, <1>1 DEF DispatchType
<1>3. attribute(p) \in Name /\ walk(p) \in Name
  BY <1>0, WalkType
<1>4. thisEvent(p) \in Event
  BY <1>0, <1>1, EventType
<1>a. Asked(p, attribute(p)) =>
        /\ cache' \in [Pids -> Name \cup {"unread"}]
        /\ attributionSnapshotByPid' \in [Pids -> Snapshot \cup {None}]
        /\ attributionGenByPid' \in [Pids -> Generation \cup {None}]
  BY <1>0, <1>3, AskedType
<1>e. EmitsSpawn(p, attribute(p)) => deferredNullAttribEvents' \subseteq Event /\ reports' \subseteq Report
  BY <1>0, <1>1, <1>3, EmitsType
<1>5. CASE TakeSpawn(p)
  <2> DEFINE pkg == IF attribute(p) # None THEN attribute(p) ELSE usableSnapshot(p)
             sample == [event |-> thisEvent(p), pkg |-> pkg]
             cwd == IF execCwd[p] # "none" THEN execCwd[p] ELSE IF NextLine(p).inWorkDir THEN "workDir" ELSE "elsewhere"
  <2>1. /\ pidRecycled' = pidRecycled \cup ({p} \cap pidSawExit) /\ execCwd' = [execCwd EXCEPT ![p] = cwd]
        /\ Asked(p, attribute(p)) /\ EmitsSpawn(p, attribute(p))
        /\ straceExecsByPid' = [straceExecsByPid EXCEPT ![p] = Append(@, sample)]
        /\ UNCHANGED <<late, pidSawExit, childParent, childParentReused, shimExecCountByPid>>
    BY <1>5 DEF TakeSpawn
  <2>2. pkg \in Pkgs \cup {Unattributed}
    BY <1>0, <1>3, UsableType DEF Name
  <2>3. sample \in [event : Event, pkg : Pkgs \cup {Unattributed}]
    BY <2>2, <1>4
  <2> HIDE DEF sample
  <2>4. straceExecsByPid' \in [Pids -> Seq([event : Event, pkg : Pkgs \cup {Unattributed}])]
    <3> DEFINE T == [event : Event, pkg : Pkgs \cup {Unattributed}]
    <3>1. straceExecsByPid \in [Pids -> Seq(T)] /\ sample \in T
      BY <2>3, <1>0 DEF DispatchType
    <3> HIDE DEF T
    <3>2. Append(straceExecsByPid[p], sample) \in Seq(T)
      BY <3>1
    <3>3. straceExecsByPid' \in [Pids -> Seq(T)]
      BY <2>1, <3>1, <3>2
    <3> QED BY <3>3 DEF T
  <2>5. execCwd' \in [Pids -> {"none", "workDir", "elsewhere"}] /\ pidRecycled' \subseteq Pids
    BY <2>1, <1>0 DEF DispatchType
  <2> HIDE DEF cwd
  <2> QED BY <1>0, <1>2, <1>a, <1>e, <2>1, <2>4, <2>5 DEF DispatchType
<1>6. CASE TakeFailed(p)
  <2>1. Asked(p, attribute(p)) /\ EmitsSpawn(p, attribute(p)) /\ UNCHANGED <<lineVars, countVars>>
    BY <1>6 DEF TakeFailed
  <2> QED BY <1>0, <1>2, <1>a, <1>e, <2>1 DEF DispatchType, lineVars, countVars
<1>7. CASE TakeRead(p)
  <2>1. /\ Asked(p, attribute(p)) /\ UNCHANGED <<lineVars, countVars>>
        /\ IF attribute(p) # None
           THEN Reports(thisEvent(p), attribute(p), "live") /\ UNCHANGED deferredNullAttribEvents
           ELSE Parks(thisEvent(p)) /\ UNCHANGED reports
    BY <1>7 DEF TakeRead
  <2>2. deferredNullAttribEvents' \subseteq Event /\ reports' \subseteq Report
    <3>1. deferredNullAttribEvents \subseteq Event /\ reports \subseteq Report
      BY <1>0 DEF DispatchType
    <3>2. attribute(p) # None => [event |-> thisEvent(p), pkg |-> attribute(p), how |-> "live"] \in Report
      BY <1>3, <1>4 DEF Report, Name
    <3> QED BY <2>1, <3>1, <3>2, <1>4 DEF Reports, Parks
  <2> QED BY <1>0, <1>2, <1>a, <2>1, <2>2 DEF DispatchType, lineVars, countVars
<1>8. CASE TakeClone(p)
  <2> DEFINE c == NextLine(p).child
             fresh == attributionSnapshotByPid[p] # None /\ ~attributionSnapshotByPid[p].stale
             pkg == IF fresh THEN attributionSnapshotByPid[p].pkg ELSE attribute(p)
             recorded == (IF fresh \/ pkg = None THEN {} ELSE {p}) \cup (IF pkg = None THEN {} ELSE {c})
  <2>1. /\ childParentReused' = childParentReused \cup {q \in {c} : childParent[c] \notin {None, p}}
        /\ childParent' = [childParent EXCEPT ![c] = p]
        /\ cache' = IF fresh THEN cache ELSE [cache EXCEPT ![p] = attribute(p)]
        /\ attributionSnapshotByPid' =
              [q \in Pids |-> IF q \in recorded THEN [pkg |-> pkg, stale |-> FALSE, old |-> FALSE]
                              ELSE attributionSnapshotByPid[q]]
        /\ attributionGenByPid' =
              [q \in Pids |-> IF q \in recorded THEN generationWith(attributionGenByPid, q, pkg)[q]
                              ELSE attributionGenByPid[q]]
        /\ UNCHANGED <<late, pidSawExit, pidRecycled, execCwd, countVars, outVars>>
    BY <1>8 DEF TakeClone
  <2>2. c \in Pids
    BY <1>0, <1>1, EventType DEF Line
  <2>3. pkg \in Name
    <3>1. attributionSnapshotByPid[p] \in Snapshot \cup {None}
      BY <1>0 DEF DispatchType
    <3> QED BY <3>1, <1>3 DEF Snapshot, Name
  <2>4. cache' \in [Pids -> Name \cup {"unread"}]
    <3> HIDE DEF fresh
    <3> QED BY <2>1, <1>3, <1>0 DEF DispatchType
  <2>5. \A q \in recorded : pkg # None
    OBVIOUS
  <2> HIDE DEF c, fresh, pkg, recorded
  <2>6. attributionSnapshotByPid' \in [Pids -> Snapshot \cup {None}]
    BY <2>1, <2>3, <2>5, <1>0, AskedType DEF DispatchType
  <2>7. \A q \in Pids : pkg # None => generationWith(attributionGenByPid, q, pkg)[q] \in Generation
    BY <1>0, <2>3, AskedType
  <2>8. attributionGenByPid' \in [Pids -> Generation \cup {None}]
    BY <2>1, <2>5, <2>7, <1>0 DEF DispatchType
  <2>9. childParent' \in [Pids -> Pids \cup {None}] /\ childParentReused' \subseteq Pids
    BY <2>1, <2>2, <1>0 DEF DispatchType
  <2> QED BY <1>0, <1>2, <2>1, <2>4, <2>6, <2>8, <2>9 DEF DispatchType, countVars, outVars
<1>9. CASE TakeExit(p)
  <2>1. /\ late' = late \cup lateFor(p) /\ pidSawExit' = pidSawExit \cup {p}
        /\ cache' = [cache EXCEPT ![p] = "unread"]
        /\ UNCHANGED <<pidRecycled, childParent, childParentReused, execCwd, countVars, outVars>>
        /\ walk(p) # None => /\ attributionSnapshotByPid' = snapshotWith(attributionSnapshotByPid, p, walk(p))
                             /\ attributionGenByPid' = generationWith(attributionGenByPid, p, walk(p))
        /\ walk(p) = None =>
              /\ attributionSnapshotByPid' =
                    [attributionSnapshotByPid EXCEPT ![p] = IF @ = None THEN None ELSE [@ EXCEPT !.stale = TRUE]]
              /\ attributionGenByPid' = attributionGenByPid
    BY <1>9 DEF TakeExit
  <2>2. late' \subseteq {"record", "clone"}
    <3>1. lateFor(p) \subseteq {"record", "clone"}
      BY DEF lateFor
    <3> QED BY <2>1, <3>1, <1>0 DEF DispatchType
  <2>3. cache' \in [Pids -> Name \cup {"unread"}] /\ pidSawExit' \subseteq Pids
    BY <2>1, <1>0 DEF DispatchType
  <2>4. attributionGenByPid' \in [Pids -> Generation \cup {None}]
    <3>1. walk(p) # None => generationWith(attributionGenByPid, p, walk(p)) \in [Pids -> Generation \cup {None}]
      BY <1>3, <1>0, AskedType
    <3> QED BY <2>1, <3>1, <1>0 DEF DispatchType
  <2>5. attributionSnapshotByPid' \in [Pids -> Snapshot \cup {None}]
    <3>1. \A s \in Snapshot : [s EXCEPT !.stale = TRUE] \in Snapshot
      BY DEF Snapshot
    <3>2. walk(p) # None => snapshotWith(attributionSnapshotByPid, p, walk(p)) \in [Pids -> Snapshot \cup {None}]
      BY <1>3, <1>0, AskedType
    <3>3. attributionSnapshotByPid \in [Pids -> Snapshot \cup {None}]
      BY <1>0 DEF DispatchType
    <3>4. CASE walk(p) = None
      BY <2>1, <3>1, <3>3, <3>4
    <3> QED BY <2>1, <3>2, <3>4
  <2> QED BY <1>0, <1>2, <2>1, <2>2, <2>3, <2>4, <2>5 DEF DispatchType, countVars, outVars
<1> QED BY <1>5, <1>6, <1>7, <1>8, <1>9 DEF Takes

\* Records and the end.
LEMMA RecordType ==
    ASSUME Base, TakeStartup \/ TakeShimEvent \/ Finish
    PROVE  DispatchType' /\ UNCHANGED treeVars
<1>0. TypeOK /\ DispatchType
  BY TypeHalves DEF Base
<1>r. ASSUME shimTaken < Len(shimFile)
      PROVE  NextRecord \in Record /\ NextRecord.pid \in Pids /\ NextRecord.npm \in Name /\ NextRecord.gen \in Nat
             /\ NextRecord.kind \in {"exec", "failed", "other", "startup"} /\ shimTaken + 1 \in Nat
             /\ shimTaken \in Nat /\ shimTaken + 1 \in 1..Len(shimFile)
  <2>1. shimFile \in Seq(Record) /\ shimTaken \in Nat /\ Len(shimFile) \in Nat
    BY <1>0 DEF TypeOK
  <2>2. shimTaken + 1 \in 1..Len(shimFile)
    BY <1>r, <2>1
  <2>3. NextRecord \in Record
    BY <2>1, <2>2 DEF NextRecord
  <2> QED BY <2>1, <2>2, <2>3 DEF Record
<1>1. CASE TakeStartup
  <2>1. /\ shimTaken < Len(shimFile) /\ shimTaken' = shimTaken + 1
        /\ UNCHANGED <<treeVars, taken, lineVars, straceExecsByPid, deferredNullAttribEvents, ended,
                       cache, attributionGenByPid, shimExecCountByPid, reports>>
        /\ nodeStartupAttributionByPid' = [nodeStartupAttributionByPid EXCEPT ![NextRecord.pid] = NextRecord.npm]
        /\ attributionSnapshotByPid' =
              [attributionSnapshotByPid EXCEPT ![NextRecord.pid] = IF @ = None THEN None ELSE [@ EXCEPT !.old = TRUE]]
    BY <1>1 DEF TakeStartup, TakeRecord
  <2>2. attributionSnapshotByPid' \in [Pids -> Snapshot \cup {None}]
    <3>1. \A s \in Snapshot : [s EXCEPT !.old = TRUE] \in Snapshot
      BY DEF Snapshot
    <3> QED BY <1>0, <1>r, <2>1, <3>1 DEF DispatchType
  <2>3. nodeStartupAttributionByPid' \in [Pids -> Name] /\ shimTaken' \in Nat
    BY <1>0, <1>r, <2>1 DEF DispatchType
  <2> QED BY <1>0, <2>1, <2>2, <2>3 DEF DispatchType, lineVars
<1>2. CASE TakeShimEvent
  <2> DEFINE p == NextRecord.pid
             result == attribute(p)
             shimAttrib == IF NextRecord.kind = "other" THEN None ELSE NextRecord.npm
             pkg == firstOf(<<shimAttrib, result, freshSnapshotAttribution(p),
                              nodeStartupAttributionByPid[p], snapshotAttribution(p)>>)
             seed == firstOf(<<shimAttrib, result>>)
             event == [pid |-> p, gen |-> NextRecord.gen, from |-> "shim", at |-> shimTaken + 1]
  <2>1. /\ shimTaken < Len(shimFile) /\ shimTaken' = shimTaken + 1
        /\ UNCHANGED <<treeVars, taken, lineVars, straceExecsByPid, deferredNullAttribEvents, ended,
                       nodeStartupAttributionByPid>>
        /\ cache' = [cache EXCEPT ![p] = result]
        /\ shimExecCountByPid' = [shimExecCountByPid EXCEPT ![p] = execCount(@, NextRecord.kind)]
        /\ attributionSnapshotByPid' = IF seed = None THEN attributionSnapshotByPid
                                       ELSE snapshotWith(attributionSnapshotByPid, p, seed)
        /\ attributionGenByPid' = IF seed = None THEN attributionGenByPid
                                  ELSE generationWith(attributionGenByPid, p, seed)
        /\ IF pkg = None THEN UNCHANGED reports ELSE Reports(event, pkg, "shim")
    BY <1>2 DEF TakeShimEvent, TakeRecord
  <2>2. p \in Pids /\ result \in Name /\ shimAttrib \in Name
    BY <1>0, <1>r, <2>1, WalkType DEF Name
  <2>3. pkg \in Name /\ seed \in Name
    <3> HIDE DEF shimAttrib, p, result
    <3>1. <<shimAttrib, result, freshSnapshotAttribution(p), nodeStartupAttributionByPid[p], snapshotAttribution(p)>>
            \in Seq(Name)
          /\ <<shimAttrib, result>> \in Seq(Name)
      BY <2>2, <1>0, AnswersType
    <3> QED BY <3>1, FirstOf
  <2>4. event \in Event
    BY <1>r, <2>1 DEF Event
  <2> HIDE DEF p, result, pkg, seed, event
  <2>5. reports' \subseteq Report
    <3>1. pkg # None => [event |-> event, pkg |-> pkg, how |-> "shim"] \in Report
      BY <2>3, <2>4 DEF Report, Name
    <3> QED BY <2>1, <3>1, <1>0 DEF Reports, DispatchType
  <2>6. shimExecCountByPid' \in [Pids -> Nat]
    <3>1. \A n \in Nat : execCount(n, NextRecord.kind) \in Nat
      BY DEF execCount
    <3> QED BY <2>1, <2>2, <3>1, <1>0 DEF DispatchType
  <2>7. cache' \in [Pids -> Name \cup {"unread"}] /\ shimTaken' \in Nat
    BY <2>1, <2>2, <1>r, <1>0 DEF DispatchType
  <2>8. attributionSnapshotByPid' \in [Pids -> Snapshot \cup {None}] /\ attributionGenByPid' \in [Pids -> Generation \cup {None}]
    <3>1. attributionSnapshotByPid \in [Pids -> Snapshot \cup {None}] /\ attributionGenByPid \in [Pids -> Generation \cup {None}]
      BY <1>0 DEF DispatchType
    <3> QED BY <2>1, <2>2, <2>3, <1>0, <3>1, AskedType
  <2> QED BY <1>0, <2>1, <2>5, <2>6, <2>7, <2>8 DEF DispatchType, lineVars
<1>3. CASE Finish
  <2> DEFINE resolved == {[event |-> e, pkg |-> resolveDeferredAttribution(e.pid), how |-> "parked"] :
                            e \in {d \in deferredNullAttribEvents : resolveDeferredAttribution(d.pid) # None}}
             blamed == {[event |-> s.event, pkg |-> s.pkg, how |-> "bypass"] :
                            s \in UNION {ToSet(bypasses(p)) : p \in Pids}}
  <2>1. /\ reports' = reports \cup resolved \cup blamed /\ deferredNullAttribEvents' = {} /\ ended' = TRUE
        /\ UNCHANGED <<treeVars, taken, shimTaken, attrVars, nodeStartupAttributionByPid, lineVars, countVars>>
    BY <1>3 DEF Finish
  <2>2. resolved \subseteq Report
    <3>1. \A e \in deferredNullAttribEvents : e \in Event /\ e.pid \in Pids
      BY <1>0 DEF DispatchType, Event
    <3>2. \A p \in Pids : attributionGenByPid[p] # None => attributionGenByPid[p].pkg \in Pkgs
      BY <1>0 DEF DispatchType, Generation
    <3>3. \A p \in Pids : resolveDeferredAttribution(p) # None => resolveDeferredAttribution(p) \in Pkgs \cup {Unattributed}
      BY <3>2 DEF resolveDeferredAttribution
    <3> QED BY <3>1, <3>3 DEF Report
  <2>3. blamed \subseteq Report
    <3> DEFINE T == [event : Event, pkg : Pkgs \cup {Unattributed}]
    <3>1. straceExecsByPid \in [Pids -> Seq(T)] /\ shimExecCountByPid \in [Pids -> Nat]
      BY <1>0 DEF DispatchType
    <3>2. ASSUME NEW p \in Pids PROVE ToSet(bypasses(p)) \subseteq T
      <4> HIDE DEF T
      <4>1. straceExecsByPid[p] \in Seq(T) /\ shimExecCountByPid[p] \in Nat
        BY <3>1
      <4>2. SubSeq(straceExecsByPid[p], shimExecCountByPid[p] + 1, Len(straceExecsByPid[p])) \in Seq(T)
        BY <4>1
      <4>3. bypasses(p) \in Seq(T)
        BY <4>2 DEF bypasses
      <4> QED BY <4>3 DEF ToSet
    <3>3. \A s \in UNION {ToSet(bypasses(p)) : p \in Pids} : s \in T
      BY <3>2
    <3>4. \A s \in T : [event |-> s.event, pkg |-> s.pkg, how |-> "bypass"] \in Report
      BY DEF Report
    <3> HIDE DEF T
    <3> QED BY <3>3, <3>4
  <2> HIDE DEF resolved, blamed
  <2> QED BY <1>0, <2>1, <2>2, <2>3 DEF DispatchType, attrVars, lineVars, countVars
<1> QED BY <1>1, <1>2, <1>3 DEF TakeStartup, TakeShimEvent, TakeRecord, Finish, treeVars
LEMMA InitBase == Init => Base
<1> SUFFICES ASSUME Init PROVE Base
  OBVIOUS
<1>1. Root \in Pids /\ MaxSteps \in Nat /\ 0 \in 0..MaxSteps /\ None \in Name
  BY RootAssumption, StepsAssumption DEF Name
<1>2. [env |-> None, canon |-> None, shim |-> TRUE] \in Image /\ <<None>> \in Seq(Name) /\ <<>> \in Seq(Name)
  BY <1>1 DEF Image
<1>3. TreeType
  <2>1. live \subseteq Pids /\ ppid \in [Pids -> Pids \cup {None}] /\ image \in [Pids -> Image]
    BY <1>1, <1>2 DEF Init
  <2>2. scripts \in [Pids -> Seq(Name)]
    BY <1>2 DEF Init
  <2>3. file \in [Pids -> Seq(Line)] /\ shimFile \in Seq(Record)
    <3>1. <<>> \in Seq(Line) /\ <<>> \in Seq(Record)
      OBVIOUS
    <3> QED BY <3>1 DEF Init
  <2>4. steps \in 0..MaxSteps /\ used \subseteq Steps /\ behind \in BOOLEAN
    BY <1>1 DEF Init
  <2> QED BY <2>1, <2>2, <2>3, <2>4 DEF TreeType
<1>4. DispatchType
  <2>1. straceExecsByPid \in [Pids -> Seq([event : Event, pkg : Pkgs \cup {Unattributed}])]
    <3>1. <<>> \in Seq([event : Event, pkg : Pkgs \cup {Unattributed}])
      OBVIOUS
    <3> QED BY <3>1 DEF Init
  <2>2. /\ taken \in [Pids -> Nat] /\ shimTaken \in Nat /\ cache \in [Pids -> Name \cup {"unread"}]
        /\ shimExecCountByPid \in [Pids -> Nat] /\ late \subseteq {"record", "clone"}
    BY DEF Init
  <2>3. /\ attributionSnapshotByPid \in [Pids -> Snapshot \cup {None}]
        /\ attributionGenByPid \in [Pids -> Generation \cup {None}]
        /\ nodeStartupAttributionByPid \in [Pids -> Name]
    BY <1>1 DEF Init
  <2>4. /\ pidSawExit \subseteq Pids /\ pidRecycled \subseteq Pids
        /\ childParent \in [Pids -> Pids \cup {None}] /\ childParentReused \subseteq Pids
        /\ execCwd \in [Pids -> {"none", "workDir", "elsewhere"}]
        /\ deferredNullAttribEvents \subseteq Event /\ reports \subseteq Report /\ ended \in BOOLEAN
    BY DEF Init
  <2> QED BY <2>1, <2>2, <2>3, <2>4 DEF DispatchType
<1>5. RootInv
  BY <1>1 DEF Init, RootInv
<1> QED BY <1>3, <1>4, <1>5, TypeHalves DEF Base

\* The lines of the dispatcher leave the processes alone.
LEMMA TakesTree ==
    (\E p \in Pids : Takes(p)) \/ TakeStartup \/ TakeShimEvent \/ Finish => UNCHANGED treeVars
<1>1. \A p \in Pids : Takes(p) => UNCHANGED treeVars
  BY DEF Takes, TakeSpawn, TakeFailed, TakeRead, TakeClone, TakeExit, Take
<1>2. TakeStartup \/ TakeShimEvent \/ Finish => UNCHANGED treeVars
  BY DEF TakeStartup, TakeShimEvent, TakeRecord, Finish
<1> QED BY <1>1, <1>2

LEMMA NextBase == Base /\ [Next]_vars => Base'
<1> SUFFICES ASSUME Base, [Next]_vars PROVE Base'
  OBVIOUS
<1>0. TreeType /\ DispatchType /\ RootInv /\ TypeOK
  BY TypeHalves DEF Base
<1>t. UNCHANGED treeVars => TreeType' /\ RootInv'
  BY <1>0 DEF treeVars, TreeType, RootInv
<1>d. UNCHANGED DispatchVars => DispatchType'
  BY <1>0 DEF DispatchVars, attrVars, lineVars, countVars, outVars, DispatchType
<1>h. TreeType' /\ RootInv' /\ DispatchType' => Base'
  BY TypeHalves, PTL DEF Base
<1>1. ASSUME NEW p \in Pids, Processes(p) PROVE Base'
  <2>1. TreeType' /\ RootInv'
    BY <1>1, ProcessType
  <2>2. UNCHANGED DispatchVars
    BY <1>1, ProcessDispatch
  <2> QED BY <2>1, <2>2, <1>d, <1>h
<1>2. ASSUME NEW p \in Pids, Takes(p) PROVE Base'
  <2>1. DispatchType'
    BY <1>2, TakeType
  <2>2. UNCHANGED treeVars
    BY <1>2, TakesTree
  <2> QED BY <2>1, <2>2, <1>t, <1>h
<1>3. ASSUME TakeStartup \/ TakeShimEvent \/ Finish PROVE Base'
  <2>1. DispatchType' /\ UNCHANGED treeVars
    BY <1>3, RecordType
  <2> QED BY <2>1, <1>t, <1>h
<1>4. ASSUME UNCHANGED vars PROVE Base'
  <2>1. UNCHANGED treeVars /\ UNCHANGED DispatchVars
    BY <1>4 DEF vars, DispatchVars
  <2> QED BY <2>1, <1>t, <1>d, <1>h
<1> QED BY <1>1, <1>2, <1>3, <1>4 DEF Next, Done

\* Types hold, whatever the processes do.
THEOREM TypeCorrect == Spec => []TypeOK
<1>1. Base => TypeOK
  BY DEF Base
<1> QED BY InitBase, NextBase, <1>1, PTL DEF Spec

-----------------------------------------------------------------------------
(* How a property of the end of the run is shown.                          *)

\* Nothing changes after the end.
LEMMA EndedStays == Base /\ ended /\ [Next]_vars => UNCHANGED vars
<1> SUFFICES ASSUME Base, ended, [Next]_vars PROVE UNCHANGED vars
  OBVIOUS
<1>1. \A p \in Pids : ~Processes(p)
  BY DEF Processes, Fork, Start, Exec, Fail, Read, ShimEvent, Exit, Step
<1>2. \A p \in Pids : ~Takes(p)
  BY DEF Takes, TakeSpawn, TakeFailed, TakeRead, TakeClone, TakeExit, Take
<1>3. ~TakeStartup /\ ~TakeShimEvent /\ ~Finish
  BY DEF TakeStartup, TakeShimEvent, TakeRecord, Finish
<1> QED BY <1>1, <1>2, <1>3 DEF Next, Done
-----------------------------------------------------------------------------
(* What a step of a process writes.                                        *)

Wrote(p, l) ==
    /\ \A q \in Pids \ {p} : file'[q] = file[q]
    /\ Len(file'[p]) = Len(file[p]) + 1 /\ file'[p][Len(file[p]) + 1] = l
    /\ \A i \in 1..Len(file[p]) : file'[p][i] = file[p][i]
Silent == shimFile' = shimFile
Noted(p, kinds) ==
    /\ Len(shimFile') = Len(shimFile) + Len(kinds)
    /\ \A i \in 1..Len(shimFile) : shimFile'[i] = shimFile[i]
    /\ \A i \in 1..Len(kinds) :
          shimFile'[Len(shimFile) + i] = [kind |-> kinds[i], pid |-> p, npm |-> image[p].canon, gen |-> gen(p)]

LEMMA Writes ==
    ASSUME TypeOK, NEW p \in Pids, NEW step, NEW records
    PROVE  /\ \A l \in Line : Step(p, step, <<l>>, records) => Wrote(p, l)
           /\ \A lines : Step(p, step, lines, <<>>) => Silent
           /\ Step(p, step, <<>>, records) => file' = file
<1>1. file \in [Pids -> Seq(Line)] /\ shimFile \in Seq(Record) /\ file[p] \in Seq(Line)
  BY DEF TypeOK
<1>2. ASSUME NEW l \in Line, Step(p, step, <<l>>, records) PROVE Wrote(p, l)
  <2>1. file' = [file EXCEPT ![p] = @ \o <<l>>]
    BY <1>2 DEF Step
  <2>2. \A q \in Pids \ {p} : file'[q] = file[q]
    BY <2>1, <1>1
  <2>3. file'[p] = file[p] \o <<l>>
    BY <2>1, <1>1
  <2> DEFINE old == file[p]
  <2>4. old \in Seq(Line) /\ Len(old) \in Nat
    BY <1>1
  <2> HIDE DEF old
  <2>5. Len(old \o <<l>>) = Len(old) + 1 /\ (old \o <<l>>)[Len(old) + 1] = l
        /\ \A i \in 1..Len(old) : (old \o <<l>>)[i] = old[i]
    BY <2>4
  <2> QED BY <2>2, <2>3, <2>5 DEF Wrote, old
<1>3. ASSUME NEW lines, Step(p, step, lines, <<>>) PROVE Silent
  <2>1. shimFile' = shimFile \o <<>>
    BY <1>3 DEF Step
  <2> QED BY <2>1, <1>1 DEF Silent
<1>4. ASSUME Step(p, step, <<>>, records) PROVE file' = file
  <2>1. file' = [file EXCEPT ![p] = @ \o <<>>]
    BY <1>4 DEF Step
  <2>2. file[p] \o <<>> = file[p]
    BY <1>1
  <2> QED BY <2>1, <2>2, <1>1
<1> QED BY <1>2, <1>3, <1>4

LEMMA Notes ==
    ASSUME TypeOK, NEW p \in Pids, NEW kinds \in Seq({"exec", "failed", "other", "startup"}),
           NEW step, NEW lines, Step(p, step, lines, Records(p, kinds))
    PROVE  IF image[p].shim THEN Noted(p, kinds) ELSE Silent
<1>1. CASE ~image[p].shim
  <2>1. Step(p, step, lines, <<>>)
    BY <1>1 DEF Records
  <2> QED BY <2>1, <1>1, Writes
<1>2. CASE image[p].shim
  <2> DEFINE new(i) == [kind |-> kinds[i], pid |-> p, npm |-> image[p].canon, gen |-> gen(p)]
             added == [i \in DOMAIN kinds |-> new(i)]
             old == shimFile
  <2>1. shimFile' = old \o added
    BY <1>2 DEF Step, Records
  <2>2. Len(kinds) \in Nat /\ DOMAIN kinds = 1..Len(kinds)
    OBVIOUS
  <2>3. added \in Seq(Record)
    <3>1. Records(p, kinds) \in Seq(Record)
      BY LineType
    <3> QED BY <3>1, <1>2 DEF Records
  <2>4. Len(added) = Len(kinds)
    BY <2>2
  <2>5. old \in Seq(Record) /\ Len(old) \in Nat
    BY DEF TypeOK
  <2>6. \A i \in 1..Len(kinds) : added[i] = new(i)
    BY <2>2
  <2> HIDE DEF added, old, new
  <2>7. Len(old \o added) = Len(old) + Len(kinds) /\ \A i \in 1..Len(old) : (old \o added)[i] = old[i]
    BY <2>2, <2>3, <2>4, <2>5
  <2>8. \A i \in 1..Len(kinds) : (old \o added)[Len(old) + i] = added[i]
    BY <2>2, <2>3, <2>4, <2>5
  <2> QED BY <1>2, <2>1, <2>6, <2>7, <2>8 DEF Noted, old, new
<1> QED BY <1>1, <1>2

\* The line and the records of every step.
LEMMA Shapes ==
    ASSUME Base, NEW p \in Pids
    PROVE  /\ \A c \in Pids : Fork(p, c) =>
                 Silent /\ \E l \in Line : Wrote(p, l) /\ l.kind = "clone" /\ l.child = c /\ l.gen = gen(p)
           /\ \A k \in Pkgs : Start(p, k) =>
                 /\ \E l \in Line : /\ Wrote(p, l) /\ l.kind = "spawn" /\ l.gen = gen(p)
                                    /\ l.recorded = image[p].shim /\ l.inWorkDir = (k = RootPkg)
                 /\ IF image[p].shim THEN Noted(p, <<"exec">>) ELSE Silent
           /\ \A how \in Steps, inWorkDir \in BOOLEAN : Exec(p, how, inWorkDir) =>
                 \E l \in Line : /\ Wrote(p, l) /\ l.kind = "spawn" /\ l.gen = gen(p)
                                 /\ IF l.recorded THEN Noted(p, <<"exec">>) ELSE Silent
           /\ Fail(p) =>
                 /\ \E l \in Line : Wrote(p, l) /\ l.kind = "failed" /\ l.gen = gen(p)
                 /\ IF image[p].shim THEN Noted(p, <<"exec", "failed">>) ELSE Silent
           /\ Read(p) => Silent /\ \E l \in Line : Wrote(p, l) /\ l.kind = "read" /\ l.gen = gen(p)
           /\ \A kind \in Steps : ShimEvent(p, kind) =>
                 file' = file /\ Noted(p, <<kind>>) /\ kind \in {"other", "startup"}
           /\ Exit(p) => Silent /\ \E l \in Line : Wrote(p, l) /\ l.kind = "exit" /\ l.gen = gen(p)
<1> DEFINE K == {"exec", "failed", "other", "startup"}
<1>0. /\ TypeOK /\ aLine(p) \in Line /\ gen(p) \in Nat /\ image[p].shim \in BOOLEAN
      /\ aLine(p).gen = gen(p) /\ aLine(p).kind = "read"
  BY LineType DEF Base, TypeOK, Image, aLine
<1>2. /\ <<"exec">> \in Seq(K) /\ <<"exec", "failed">> \in Seq(K) /\ \A k \in K : <<k>> \in Seq(K)
  OBVIOUS
<1>n. ASSUME NEW kinds \in Seq(K), NEW step, NEW lines, Step(p, step, lines, Records(p, kinds))
      PROVE  IF image[p].shim THEN Noted(p, kinds) ELSE Silent
  BY <1>n, <1>0, Notes
<1> HIDE DEF K
<1>3. ASSUME NEW c \in Pids, Fork(p, c)
      PROVE  Silent /\ \E l \in Line : Wrote(p, l) /\ l.kind = "clone" /\ l.child = c /\ l.gen = gen(p)
  <2> DEFINE l == [aLine(p) EXCEPT !.kind = "clone", !.child = c]
  <2>1. l \in Line /\ l.kind = "clone" /\ l.child = c /\ l.gen = gen(p)
    BY <1>0 DEF Line
  <2>2. Step(p, "fork", <<l>>, <<>>)
    BY <1>3 DEF Fork
  <2> HIDE DEF l
  <2> QED BY <2>1, <2>2, <1>0, Writes
<1>4. ASSUME NEW k \in Pkgs, Start(p, k)
      PROVE  /\ \E l \in Line : /\ Wrote(p, l) /\ l.kind = "spawn" /\ l.gen = gen(p)
                                /\ l.recorded = image[p].shim /\ l.inWorkDir = (k = RootPkg)
             /\ IF image[p].shim THEN Noted(p, <<"exec">>) ELSE Silent
  <2> DEFINE l == [aLine(p) EXCEPT !.kind = "spawn", !.recorded = image[p].shim, !.inWorkDir = (k = RootPkg)]
  <2>1. l \in Line /\ l.kind = "spawn" /\ l.recorded = image[p].shim /\ l.inWorkDir = (k = RootPkg)
        /\ l.gen = gen(p)
    BY <1>0 DEF Line
  <2>2. Step(p, "start", <<l>>, Records(p, <<"exec">>))
    BY <1>4 DEF Start
  <2> HIDE DEF l
  <2>3. Wrote(p, l)
    BY <2>1, <2>2, <1>0, Writes
  <2>4. IF image[p].shim THEN Noted(p, <<"exec">>) ELSE Silent
    BY <2>2, <1>2, <1>n
  <2> QED BY <2>1, <2>3, <2>4
<1>5. ASSUME NEW how \in Steps, NEW inWorkDir \in BOOLEAN, Exec(p, how, inWorkDir)
      PROVE  \E l \in Line : /\ Wrote(p, l) /\ l.kind = "spawn" /\ l.gen = gen(p)
                             /\ IF l.recorded THEN Noted(p, <<"exec">>) ELSE Silent
  <2> DEFINE raw == how \in {"raw", "rawscrub"} \/ ~image[p].shim
             l == [aLine(p) EXCEPT !.kind = "spawn", !.recorded = ~raw, !.inWorkDir = inWorkDir]
             records == IF raw THEN <<>> ELSE Records(p, <<"exec">>)
  <2>1. Step(p, how, <<l>>, records)
    BY <1>5 DEF Exec
  <2>r. raw \in BOOLEAN /\ (~raw => image[p].shim)
    OBVIOUS
  <2> HIDE DEF raw
  <2>2. l \in Line /\ l.kind = "spawn" /\ l.recorded = ~raw /\ l.gen = gen(p)
    BY <2>r, <1>0 DEF Line
  <2> HIDE DEF l
  <2>3. Wrote(p, l)
    BY <2>1, <2>2, <1>0, Writes
  <2>4. CASE raw
    <3>1. Step(p, how, <<l>>, <<>>)
      BY <2>1, <2>4
    <3>2. Silent
      BY <3>1, <1>0, Writes
    <3> QED BY <2>2, <2>3, <2>4, <3>2
  <2>5. CASE ~raw
    <3>1. Step(p, how, <<l>>, Records(p, <<"exec">>))
      BY <2>1, <2>5
    <3>2. Noted(p, <<"exec">>)
      BY <3>1, <2>r, <2>5, <1>2, <1>n
    <3> QED BY <2>2, <2>3, <2>5, <3>2
  <2> QED BY <2>4, <2>5
<1>6. ASSUME Fail(p)
      PROVE  /\ \E l \in Line : Wrote(p, l) /\ l.kind = "failed" /\ l.gen = gen(p)
             /\ IF image[p].shim THEN Noted(p, <<"exec", "failed">>) ELSE Silent
  <2> DEFINE l == [aLine(p) EXCEPT !.kind = "failed"]
  <2>1. l \in Line /\ l.kind = "failed" /\ l.gen = gen(p)
    BY <1>0 DEF Line
  <2>2. Step(p, "fail", <<l>>, Records(p, <<"exec", "failed">>))
    BY <1>6 DEF Fail
  <2> HIDE DEF l
  <2>3. Wrote(p, l)
    BY <2>1, <2>2, <1>0, Writes
  <2>4. IF image[p].shim THEN Noted(p, <<"exec", "failed">>) ELSE Silent
    BY <2>2, <1>2, <1>n
  <2> QED BY <2>1, <2>3, <2>4
<1>7. ASSUME Read(p) PROVE Silent /\ \E l \in Line : Wrote(p, l) /\ l.kind = "read" /\ l.gen = gen(p)
  <2>1. Step(p, "read", <<aLine(p)>>, <<>>)
    BY <1>7 DEF Read
  <2> QED BY <2>1, <1>0, Writes
<1>8. ASSUME NEW kind \in Steps, ShimEvent(p, kind)
      PROVE  file' = file /\ Noted(p, <<kind>>) /\ kind \in {"other", "startup"}
  <2>1. Step(p, kind, <<>>, Records(p, <<kind>>)) /\ kind \in {"other", "startup"} /\ image[p].shim
    BY <1>8 DEF ShimEvent
  <2>2. file' = file
    BY <2>1, <1>0, Writes
  <2>3. <<kind>> \in Seq(K)
    BY <2>1, <1>2 DEF K
  <2>4. Noted(p, <<kind>>)
    BY <2>1, <2>3, <1>n
  <2> QED BY <2>1, <2>2, <2>4
<1>9. ASSUME Exit(p) PROVE Silent /\ \E l \in Line : Wrote(p, l) /\ l.kind = "exit" /\ l.gen = gen(p)
  <2> DEFINE l == [aLine(p) EXCEPT !.kind = "exit"]
  <2>1. l \in Line /\ l.kind = "exit" /\ l.gen = gen(p)
    BY <1>0 DEF Line
  <2>2. Step(p, "exit", <<l>>, <<>>)
    BY <1>9 DEF Exit
  <2> HIDE DEF l
  <2> QED BY <2>1, <2>2, <1>0, Writes
<1> QED BY <1>3, <1>4, <1>5, <1>6, <1>7, <1>8, <1>9

\* Nothing that was written changes.
Grown ==
    /\ \A q \in Pids : /\ Len(file[q]) \in Nat /\ Len(file'[q]) \in Nat /\ Len(file[q]) <= Len(file'[q])
                       /\ DOMAIN file[q] = 1..Len(file[q]) /\ DOMAIN file'[q] = 1..Len(file'[q])
                       /\ \A i \in 1..Len(file[q]) : file'[q][i] = file[q][i]
    /\ Len(shimFile) \in Nat /\ Len(shimFile') \in Nat /\ Len(shimFile) <= Len(shimFile')
    /\ DOMAIN shimFile = 1..Len(shimFile) /\ DOMAIN shimFile' = 1..Len(shimFile')
    /\ \A i \in 1..Len(shimFile) : shimFile'[i] = shimFile[i]

LEMMA FilesGrow == Base /\ [Next]_vars => Grown
<1> SUFFICES ASSUME Base, [Next]_vars PROVE Grown
  OBVIOUS
<1>0. /\ file \in [Pids -> Seq(Line)] /\ file' \in [Pids -> Seq(Line)]
      /\ shimFile \in Seq(Record) /\ shimFile' \in Seq(Record)
  BY NextBase DEF Base, TypeOK
<1>1. /\ \A q \in Pids : /\ Len(file[q]) \in Nat /\ Len(file'[q]) \in Nat
                         /\ DOMAIN file[q] = 1..Len(file[q]) /\ DOMAIN file'[q] = 1..Len(file'[q])
      /\ Len(shimFile) \in Nat /\ Len(shimFile') \in Nat
      /\ DOMAIN shimFile = 1..Len(shimFile) /\ DOMAIN shimFile' = 1..Len(shimFile')
  BY <1>0
<1>2. ASSUME NEW p \in Pids, NEW l, Wrote(p, l) \/ file' = file
      PROVE  \A q \in Pids : /\ Len(file[q]) <= Len(file'[q])
                             /\ \A i \in 1..Len(file[q]) : file'[q][i] = file[q][i]
  BY <1>1, <1>2 DEF Wrote
<1>3. ASSUME NEW p \in Pids, Silent \/ Noted(p, <<"exec">>) \/ Noted(p, <<"exec", "failed">>) \/ \E kind : Noted(p, <<kind>>)
      PROVE  Len(shimFile) <= Len(shimFile') /\ \A i \in 1..Len(shimFile) : shimFile'[i] = shimFile[i]
  <2>1. Len(<<"exec">>) = 1 /\ Len(<<"exec", "failed">>) = 2 /\ \A kind : Len(<<kind>>) = 1
    OBVIOUS
  <2>2. ASSUME NEW kinds, Len(kinds) \in Nat, Noted(p, kinds)
        PROVE  Len(shimFile) <= Len(shimFile') /\ \A i \in 1..Len(shimFile) : shimFile'[i] = shimFile[i]
    BY <1>1, <2>2 DEF Noted
  <2>3. CASE Silent
    BY <1>1, <2>3 DEF Silent
  <2> QED BY <1>3, <2>1, <2>2, <2>3
<1>4. ASSUME NEW p \in Pids, Processes(p) PROVE Grown
  <2>1. file' = file \/ \E l \in Line : Wrote(p, l)
    <3>1. CASE \E c \in Pids : Fork(p, c)
      BY <3>1, Shapes
    <3>2. CASE \E k \in Pkgs : Start(p, k)
      BY <3>2, Shapes
    <3>3. CASE \E how \in Steps, inWorkDir \in BOOLEAN : Exec(p, how, inWorkDir)
      BY <3>3, Shapes
    <3>4. CASE \E kind \in Steps : ShimEvent(p, kind)
      BY <3>4, Shapes
    <3>5. CASE Fail(p) \/ Read(p) \/ Exit(p)
      BY <3>5, Shapes
    <3> QED BY <1>4, <3>1, <3>2, <3>3, <3>4, <3>5 DEF Processes
  <2>2. Silent \/ Noted(p, <<"exec">>) \/ Noted(p, <<"exec", "failed">>) \/ \E kind : Noted(p, <<kind>>)
    BY <1>4, Shapes DEF Processes
  <2> QED BY <2>1, <2>2, <1>1, <1>2, <1>3 DEF Grown
<1>5. ASSUME UNCHANGED treeVars PROVE Grown
  BY <1>5, <1>1 DEF Grown, treeVars
<1> QED BY <1>4, <1>5, TakesTree DEF Next, Done, vars
-----------------------------------------------------------------------------
(* What strace saw of a pid the shim has named is reported.                *)

\* What is taken.
LEMMA TakesOne ==
    ASSUME Base, NEW p \in Pids, Takes(p)
    PROVE  /\ ~ended /\ taken[p] \in Nat /\ taken[p] < Len(file[p]) /\ taken'[p] = taken[p] + 1
           /\ \A q \in Pids \ {p} : taken'[q] = taken[q]
           /\ UNCHANGED treeVars /\ shimTaken' = shimTaken /\ ended' = ended
           /\ nodeStartupAttributionByPid' = nodeStartupAttributionByPid
  BY DEF Base, TypeOK, Takes, TakeSpawn, TakeFailed, TakeRead, TakeClone, TakeExit, Take, Untaken

LEMMA TakesRecord ==
    ASSUME Base, TakeStartup \/ TakeShimEvent
    PROVE  /\ ~ended /\ shimTaken \in Nat /\ shimTaken < Len(shimFile) /\ shimTaken' = shimTaken + 1
           /\ UNCHANGED treeVars /\ taken' = taken /\ ended' = ended
           /\ deferredNullAttribEvents' = deferredNullAttribEvents /\ UNCHANGED lineVars
           /\ straceExecsByPid' = straceExecsByPid
  BY DEF Base, TypeOK, TakeStartup, TakeShimEvent, TakeRecord

LEMMA TakenNext == Base /\ TakenInv /\ [Next]_vars => TakenInv'
<1> SUFFICES ASSUME Base, TakenInv, [Next]_vars PROVE TakenInv'
  OBVIOUS
<1>0. Grown /\ shimTaken \in Nat /\ taken \in [Pids -> Nat]
  BY FilesGrow DEF Base, TypeOK
<1>1. CASE UNCHANGED <<taken, shimTaken>>
  BY <1>0, <1>1 DEF TakenInv, Grown
<1>2. ASSUME NEW p \in Pids, Takes(p) PROVE TakenInv'
  BY <1>0, <1>2, TakesOne DEF TakenInv, Grown, treeVars
<1>3. CASE TakeStartup \/ TakeShimEvent
  BY <1>0, <1>3, TakesRecord DEF TakenInv, Grown, treeVars
<1>4. (\E p \in Pids : Processes(p)) \/ Finish \/ UNCHANGED vars => UNCHANGED <<taken, shimTaken>>
  BY ProcessDispatch DEF Finish, vars, DispatchVars
<1> QED BY <1>1, <1>2, <1>3, <1>4 DEF Next, Done

\* Until the end nothing that was reported or parked is lost.
LEMMA ReportsGrow ==
    ASSUME Base, [Next]_vars, ~Finish
    PROVE  reports \subseteq reports' /\ deferredNullAttribEvents \subseteq deferredNullAttribEvents'
<1>1. ASSUME NEW p \in Pids, Takes(p)
      PROVE  reports \subseteq reports' /\ deferredNullAttribEvents \subseteq deferredNullAttribEvents'
  BY <1>1 DEF Takes, TakeSpawn, TakeFailed, TakeRead, TakeClone, TakeExit, EmitsSpawn, Reports, Parks, outVars
<1>2. CASE TakeStartup \/ TakeShimEvent
  BY <1>2 DEF TakeStartup, TakeShimEvent, TakeRecord, Reports
<1>3. (\E p \in Pids : Processes(p)) \/ UNCHANGED vars => UNCHANGED outVars
  BY ProcessDispatch DEF vars, DispatchVars
<1> QED BY <1>1, <1>2, <1>3 DEF Next, Done, outVars

LEMMA TakenReportedNext == Base /\ TakenInv /\ TakenReported /\ [Next]_vars => TakenReported'
<1> SUFFICES ASSUME Base, TakenInv, TakenReported, [Next]_vars, ended' = FALSE,
                    NEW p \in Pids, NEW i \in 1..taken'[p], file'[p][i].kind \in {"spawn", "failed", "read"}
             PROVE  Reported(p, i)'
  BY NextBase DEF TakenReported, Base, TypeOK
<1>0. Grown /\ taken \in [Pids -> Nat] /\ ~Finish /\ taken[p] <= Len(file[p]) /\ taken' \in [Pids -> Nat]
  BY FilesGrow, NextBase DEF Base, TypeOK, Finish, TakenInv
<1>1. ~ended
  BY EndedStays DEF vars
<1>2. ASSUME i \in 1..taken[p] PROVE Reported(p, i)'
  <2>1. file[p][i] = file'[p][i]
    BY <1>0, <1>2 DEF Grown
  <2>2. Reported(p, i)
    BY <2>1, <1>1, <1>2 DEF TakenReported
  <2> QED BY <2>2, <1>0, ReportsGrow DEF Reported
<1>3. CASE i \notin 1..taken[p]
  <2>1. taken'[p] # taken[p]
    BY <1>3
  <2>2. PICK q \in Pids : Takes(q)
    <3>1. (\E q \in Pids : Processes(q)) \/ UNCHANGED vars => taken' = taken
      BY ProcessDispatch DEF vars, DispatchVars
    <3>2. TakeStartup \/ TakeShimEvent => taken' = taken
      BY TakesRecord
    <3> QED BY <2>1, <1>0, <3>1, <3>2 DEF Next, Done
  <2>3. q = p /\ i = taken[p] + 1 /\ file' = file
    BY <2>1, <2>2, <1>0, <1>3, TakesOne DEF treeVars
  <2>4. NextLine(p) = file'[p][i]
    BY <2>3 DEF NextLine
  <2>5. TakeSpawn(p) \/ TakeFailed(p) \/ TakeRead(p)
    BY <2>2, <2>3, <2>4 DEF Takes, TakeClone, TakeExit, Take
  <2>6. Untaken(p)
    BY <2>5 DEF TakeSpawn, TakeFailed, TakeRead, Take
  <2>7. thisEvent(p).from = "strace" /\ thisEvent(p).pid = p /\ thisEvent(p).at = i
    BY <2>3, <2>6, EventType DEF Base
  <2>8. thisEvent(p) \in deferredNullAttribEvents' \/
          \E pkg : [event |-> thisEvent(p), pkg |-> pkg, how |-> "live"] \in reports'
    BY <2>5 DEF TakeSpawn, TakeFailed, TakeRead, EmitsSpawn, Reports, Parks
  <2> QED BY <2>7, <2>8 DEF Reported
<1> QED BY <1>2, <1>3

\* What was once recorded for a pid stays.
LEMMA GenerationsStay ==
    ASSUME Base, [Next]_vars, NEW p \in Pids, attributionGenByPid[p] # None
    PROVE  attributionGenByPid'[p] # None
<1>0. attributionGenByPid \in [Pids -> Generation \cup {None}] /\ DispatchType /\ TypeOK
  BY TypeHalves DEF Base, TypeOK
<1>g. ASSUME NEW q \in Pids, NEW pkg \in Name, pkg # None
      PROVE  /\ generationWith(attributionGenByPid, q, pkg)[p] # None
             /\ generationWith(attributionGenByPid, q, pkg)[q] # None
  <2>1. generationWith(attributionGenByPid, q, pkg)[q] \in Generation
    BY <1>0, <1>g, AskedType
  <2>2. q # p => generationWith(attributionGenByPid, q, pkg)[p] = attributionGenByPid[p]
    BY <1>0 DEF generationWith
  <2> QED BY <2>1, <2>2, RecordsAssumption
<1>1. ASSUME NEW q \in Pids, Takes(q) PROVE attributionGenByPid'[p] # None
  <2>0. attribute(q) \in Name /\ walk(q) \in Name
    BY <1>0, WalkType
  <2>1. Asked(q, attribute(q)) => attributionGenByPid'[p] # None
    BY <2>0, <1>g DEF Asked
  <2>2. CASE TakeClone(q)
    <3> DEFINE c == NextLine(q).child
               fresh == attributionSnapshotByPid[q] # None /\ ~attributionSnapshotByPid[q].stale
               pkg == IF fresh THEN attributionSnapshotByPid[q].pkg ELSE attribute(q)
               recorded == (IF fresh \/ pkg = None THEN {} ELSE {q}) \cup (IF pkg = None THEN {} ELSE {c})
    <3>1. attributionGenByPid' =
              [x \in Pids |-> IF x \in recorded THEN generationWith(attributionGenByPid, x, pkg)[x]
                              ELSE attributionGenByPid[x]]
      BY <2>2 DEF TakeClone
    <3>2. pkg \in Name
      <4>1. attributionSnapshotByPid[q] \in Snapshot \cup {None}
        BY <1>0 DEF DispatchType
      <4> QED BY <4>1, <2>0 DEF Snapshot, Name
    <3>3. p \in recorded => pkg # None
      OBVIOUS
    <3> HIDE DEF recorded, pkg
    <3> QED BY <3>1, <3>2, <3>3, <1>g
  <2>3. CASE TakeExit(q)
    BY <2>0, <2>3, <1>g DEF TakeExit
  <2> QED BY <1>1, <2>1, <2>2, <2>3 DEF Takes, TakeSpawn, TakeFailed, TakeRead
<1>2. CASE TakeShimEvent
  <2>1. PICK q, seed : attributionGenByPid' = IF seed = None THEN attributionGenByPid
                                              ELSE generationWith(attributionGenByPid, q, seed)
    BY <1>2 DEF TakeShimEvent
  <2>2. DOMAIN attributionGenByPid = Pids
    BY <1>0
  <2>3. q # p => generationWith(attributionGenByPid, q, seed)[p] = attributionGenByPid[p]
    BY <2>2 DEF generationWith
  <2>4. attributionGenByPid' \in [Pids -> Generation \cup {None}]
    BY NextBase DEF Base, TypeOK
  <2>5. generationWith(attributionGenByPid, p, seed)[p] =
            [pkg |-> IF attributionGenByPid[p] = None THEN seed ELSE attributionGenByPid[p].pkg,
             ambiguous |-> attributionGenByPid[p] # None /\ (attributionGenByPid[p].ambiguous \/ attributionGenByPid[p].pkg # seed)]
    BY <2>2 DEF generationWith
  <2>6. generationWith(attributionGenByPid, p, seed)[p].pkg = attributionGenByPid[p].pkg
    BY <2>5
  <2>7. attributionGenByPid[p].pkg \in Pkgs
    BY <1>0 DEF Generation
  <2>8. generationWith(attributionGenByPid, p, seed)[p] \in Generation
    BY <2>5, <2>7 DEF Generation
  <2> QED BY <2>1, <2>3, <2>8, RecordsAssumption
<1>3. (\E q \in Pids : Processes(q)) \/ TakeStartup \/ Finish \/ UNCHANGED vars => attributionGenByPid' = attributionGenByPid
  BY ProcessDispatch DEF DispatchVars, TakeStartup, Finish, vars, attrVars
<1> QED BY <1>1, <1>2, <1>3 DEF Next, Done

LEMMA SeedNext == Base /\ TakenInv /\ SeedInv /\ [Next]_vars => SeedInv'
<1> SUFFICES ASSUME Base, TakenInv, SeedInv, [Next]_vars,
                    NEW i \in 1..shimTaken', shimFile'[i].kind \in {"exec", "failed"}, shimFile'[i].npm # None
             PROVE  attributionGenByPid'[shimFile'[i].pid] # None
  BY DEF SeedInv
<1>0. /\ Grown /\ shimTaken \in Nat /\ TypeOK /\ DispatchType /\ shimTaken <= Len(shimFile) /\ shimFile \in Seq(Record)
      /\ shimTaken' \in Nat
  BY FilesGrow, TypeHalves, NextBase DEF Base, TypeOK, TakenInv
<1>1. CASE i \in 1..shimTaken
  <2>1. i \in 1..Len(shimFile) /\ shimFile'[i] = shimFile[i]
    BY <1>0, <1>1 DEF Grown
  <2>2. shimFile[i] \in Record
    BY <2>1, <1>0
  <2>3. shimFile[i].pid \in Pids
    BY <2>2 DEF Record
  <2> QED BY <2>1, <2>3, <1>1, GenerationsStay DEF SeedInv
<1>2. CASE i \notin 1..shimTaken
  <2>1. shimTaken' # shimTaken
    BY <1>2
  <2>2. TakeStartup \/ TakeShimEvent
    <3>1. (\E q \in Pids : Processes(q)) \/ Finish \/ UNCHANGED vars => shimTaken' = shimTaken
      BY ProcessDispatch DEF vars, DispatchVars, Finish
    <3>2. \A q \in Pids : Takes(q) => shimTaken' = shimTaken
      BY TakesOne
    <3> QED BY <2>1, <3>1, <3>2 DEF Next, Done
  <2>3. i = shimTaken + 1 /\ shimFile' = shimFile /\ shimTaken < Len(shimFile)
    BY <2>2, <1>2, <1>0, TakesRecord DEF treeVars
  <2>4. NextRecord = shimFile'[i] /\ NextRecord = shimFile[i]
    BY <2>3 DEF NextRecord
  <2>5. TakeShimEvent
    BY <2>2, <2>4 DEF TakeStartup, TakeRecord
  <2>6. NextRecord \in Record
    BY <2>3, <2>4, <1>0
  <2> DEFINE p == NextRecord.pid
             npm == NextRecord.npm
             seed == firstOf(<<npm, attribute(p)>>)
  <2>7. p \in Pids /\ npm \in Name /\ npm # None /\ attribute(p) \in Name
    BY <2>6, <2>4, <1>0, WalkType DEF Record
  <2>8. attributionGenByPid' = IF seed = None THEN attributionGenByPid
                               ELSE generationWith(attributionGenByPid, p, seed)
    <3>1. NextRecord.kind # "other"
      BY <2>4
    <3> QED BY <2>5, <3>1 DEF TakeShimEvent
  <2>9. seed \in Name /\ seed # None
    <3> HIDE DEF p, npm
    <3> DEFINE answers == <<npm, attribute(p)>>
    <3>1. answers \in Seq(Name) /\ 1 \in DOMAIN answers /\ answers[1] = npm
      BY <2>7
    <3> HIDE DEF answers
    <3>2. firstOf(answers) \in Name /\ firstOf(answers) # None
      BY <3>1, <2>7, FirstOf
    <3> QED BY <3>2 DEF answers
  <2> HIDE DEF seed, p, npm
  <2>10. generationWith(attributionGenByPid, p, seed)[p] \in Generation
    BY <2>7, <2>9, <1>0, AskedType
  <2>11. attributionGenByPid'[p] # None
    BY <2>8, <2>9, <2>10, RecordsAssumption
  <2> QED BY <2>4, <2>11 DEF p
<1> QED BY <1>1, <1>2

\* The inductive invariant of SeededReported.
ReportInv == Base /\ TakenInv /\ TakenReported /\ SeedInv /\ SeededReported

\* At the end what is parked is reported.
LEMMA SeededAtEnd ==
    ASSUME Base, TakenInv, TakenReported, SeedInv, Finish
    PROVE  SeededReported'
<1> SUFFICES ASSUME NEW p \in Pids, NEW j \in DOMAIN shimFile', shimFile'[j].pid = p,
                    shimFile'[j].kind \in {"exec", "failed"}, shimFile'[j].npm # None,
                    NEW i \in DOMAIN file'[p], file'[p][i].kind \in {"spawn", "failed", "read"}
             PROVE  \E r \in reports' : r.event.from = "strace" /\ r.event.pid = p /\ r.event.at = i
  BY DEF SeededReported
<1>1. /\ ~ended /\ shimTaken = Len(shimFile) /\ \A q \in Pids : ~Untaken(q)
      /\ reports \subseteq reports' /\ file' = file /\ shimFile' = shimFile
      /\ \A e \in deferredNullAttribEvents : resolveDeferredAttribution(e.pid) # None =>
            [event |-> e, pkg |-> resolveDeferredAttribution(e.pid), how |-> "parked"] \in reports'
  BY DEF Finish, treeVars
<1>2. /\ j \in 1..shimTaken /\ taken[p] \in Nat /\ Len(file[p]) \in Nat /\ i \in 1..Len(file[p])
      /\ attributionGenByPid \in [Pids -> Generation \cup {None}]
  BY <1>1 DEF Base, TypeOK
<1>3. i \in 1..taken[p]
  BY <1>1, <1>2 DEF Untaken
<1>4. attributionGenByPid[p] # None
  BY <1>1, <1>2 DEF SeedInv
<1>5. resolveDeferredAttribution(p) # None
  <2>1. attributionGenByPid[p].pkg \in Pkgs
    BY <1>2, <1>4 DEF Generation
  <2> QED BY <2>1, <1>4, NoneAssumption DEF resolveDeferredAttribution
<1>6. Reported(p, i)
  BY <1>1, <1>3 DEF TakenReported
<1> QED BY <1>1, <1>5, <1>6 DEF Reported

LEMMA ReportStart == Init => ReportInv
<1> SUFFICES ASSUME Init PROVE ReportInv
  OBVIOUS
<1>1. TakenInv
  BY DEF Init, TakenInv
<1>2. TakenReported /\ SeedInv /\ SeededReported
  BY DEF Init, TakenReported, SeedInv, SeededReported
<1> QED BY <1>1, <1>2, InitBase DEF ReportInv

LEMMA ReportNext == ReportInv /\ [Next]_vars => ReportInv'
<1> SUFFICES ASSUME ReportInv, [Next]_vars PROVE ReportInv'
  OBVIOUS
<1>1. Base' /\ TakenInv' /\ TakenReported' /\ SeedInv'
  BY NextBase, TakenNext, TakenReportedNext, SeedNext DEF ReportInv
<1>2. CASE ended
  <2>1. file' = file /\ shimFile' = shimFile /\ reports' = reports /\ ended' = ended
    BY <1>2, EndedStays DEF ReportInv, vars, treeVars, outVars
  <2> QED BY <1>1, <2>1 DEF ReportInv, SeededReported
<1>3. CASE ~ended /\ ~Finish
  <2>1. ended' = ended
    BY <1>3, TakesOne, TakesRecord, ProcessDispatch DEF ReportInv, Next, Done, DispatchVars, vars
  <2> QED BY <1>1, <1>3, <2>1 DEF ReportInv, SeededReported
<1>4. CASE Finish
  BY <1>1, <1>4, SeededAtEnd DEF ReportInv
<1> QED BY <1>2, <1>3, <1>4

\* What strace saw of a pid the shim has named is reported, whatever the order the two files
\* are read in.
THEOREM SeededReportedHolds == Spec => []SeededReported
<1>1. ReportInv => SeededReported
  BY DEF ReportInv
<1> QED BY ReportStart, ReportNext, <1>1, PTL DEF Spec
-----------------------------------------------------------------------------
(* The execs that went past the shim are counted.                          *)

\* Sets of positions are finite.
LEMMA Finite ==
    \A n \in Nat : \A S \in SUBSET (1..n) : IsFiniteSet(S) /\ Cardinality(S) \in Nat
<1> SUFFICES ASSUME NEW n \in Nat, NEW S \in SUBSET (1..n) PROVE IsFiniteSet(S) /\ Cardinality(S) \in Nat
  OBVIOUS
<1>1. IsFiniteSet(1..n)
  BY FS_Interval
<1>2. IsFiniteSet(S)
  BY <1>1, FS_Subset
<1> QED BY <1>2, FS_CardinalityType

LEMMA FailedNext == Base /\ FailedInv /\ [Next]_vars => FailedInv'
<1> SUFFICES ASSUME Base, FailedInv, [Next]_vars,
                    NEW i \in DOMAIN shimFile', shimFile'[i].kind = "failed"
             PROVE  i > 1 /\ shimFile'[i - 1].kind = "exec" /\ shimFile'[i - 1].pid = shimFile'[i].pid
  BY DEF FailedInv
<1>0. Grown /\ i \in 1..Len(shimFile')
  BY FilesGrow DEF Grown
<1>1. CASE i \in 1..Len(shimFile)
  BY <1>0, <1>1 DEF Grown, FailedInv
<1>2. CASE i \notin 1..Len(shimFile)
  <2>1. Len(shimFile') # Len(shimFile)
    BY <1>0, <1>2
  <2>2. PICK p \in Pids : Processes(p)
    BY <2>1, TakesTree DEF treeVars, vars, Next, Done
  <2>3. Noted(p, <<"exec">>) \/ Noted(p, <<"exec", "failed">>) \/ \E kind \in {"other", "startup"} : Noted(p, <<kind>>)
    <3>1. CASE \E c \in Pids : Fork(p, c)
      BY <2>1, <3>1, Shapes DEF Silent
    <3>2. CASE \E k \in Pkgs : Start(p, k)
      BY <2>1, <3>2, Shapes DEF Silent
    <3>3. CASE \E how \in Steps, inWorkDir \in BOOLEAN : Exec(p, how, inWorkDir)
      BY <2>1, <3>3, Shapes DEF Silent
    <3>4. CASE \E kind \in Steps : ShimEvent(p, kind)
      BY <3>4, Shapes
    <3>5. CASE Fail(p) \/ Read(p) \/ Exit(p)
      BY <2>1, <3>5, Shapes DEF Silent
    <3> QED BY <2>2, <3>1, <3>2, <3>3, <3>4, <3>5 DEF Processes
  <2>4. ASSUME NEW kind, kind # "failed", Noted(p, <<kind>>) PROVE FALSE
    <3> DEFINE kinds == <<kind>>
    <3>1. Len(kinds) = 1 /\ kinds[1] = kind /\ 1 \in 1..Len(kinds)
      OBVIOUS
    <3> HIDE DEF kinds
    <3>2. Noted(p, kinds)
      BY <2>4 DEF kinds
    <3>3. Len(shimFile') = Len(shimFile) + 1 /\ shimFile'[Len(shimFile) + 1].kind = kind
      BY <3>1, <3>2 DEF Noted
    <3>4. i = Len(shimFile) + 1
      BY <3>3, <1>0, <1>2 DEF Grown
    <3> QED BY <2>4, <3>3, <3>4
  <2>5. ASSUME Noted(p, <<"exec", "failed">>)
        PROVE  i > 1 /\ shimFile'[i - 1].kind = "exec" /\ shimFile'[i - 1].pid = shimFile'[i].pid
    <3> DEFINE kinds == <<"exec", "failed">>
               n == Len(shimFile)
    <3>1. Len(kinds) = 2 /\ kinds[1] = "exec" /\ kinds[2] = "failed" /\ 1 \in 1..Len(kinds) /\ 2 \in 1..Len(kinds)
      OBVIOUS
    <3> HIDE DEF kinds
    <3>2. Noted(p, kinds)
      BY <2>5 DEF kinds
    <3>3. /\ n \in Nat /\ Len(shimFile') = n + 2
          /\ shimFile'[n + 1].kind = "exec" /\ shimFile'[n + 1].pid = p
          /\ shimFile'[n + 2].kind = "failed" /\ shimFile'[n + 2].pid = p
      BY <3>1, <3>2, <1>0 DEF Noted, Grown
    <3> HIDE DEF n
    <3>4. i = n + 1 \/ i = n + 2
      BY <3>3, <1>0, <1>2 DEF n
    <3>5. i = n + 2
      BY <3>3, <3>4
    <3> QED BY <3>3, <3>5
  <2> QED BY <2>3, <2>4, <2>5
<1> QED BY <1>1, <1>2

\* What the next record does to the execs that were kept.
KeptSteps ==
    \A p \in Pids, n \in Nat : n < Len(shimFile) =>
        Cardinality(Kept(p, n + 1)) =
            IF shimFile[n + 1].pid = p THEN execCount(Cardinality(Kept(p, n)), shimFile[n + 1].kind)
            ELSE Cardinality(Kept(p, n))

LEMMA KeptMore == Base /\ FailedInv => KeptSteps
<1> SUFFICES ASSUME Base, FailedInv, NEW p \in Pids, NEW n \in Nat, n < Len(shimFile)
             PROVE  Cardinality(Kept(p, n + 1)) =
                      IF shimFile[n + 1].pid = p THEN execCount(Cardinality(Kept(p, n)), shimFile[n + 1].kind)
                      ELSE Cardinality(Kept(p, n))
  BY DEF KeptSteps
<1> DEFINE next == shimFile[n + 1]
<1>1. Len(shimFile) \in Nat /\ DOMAIN shimFile = 1..Len(shimFile) /\ n + 1 \in 1..Len(shimFile)
  BY DEF Base, TypeOK
<1>2. Kept(p, n) \in SUBSET (1..n)
  BY DEF Kept
<1>3. IsFiniteSet(Kept(p, n)) /\ Cardinality(Kept(p, n)) \in Nat
  BY <1>2, Finite
<1>4. \A i : i \in Kept(p, n + 1) <=>
          \/ i \in Kept(p, n) /\ ~(i = n /\ next.kind = "failed")
          \/ i = n + 1 /\ next.kind = "exec" /\ next.pid = p
  BY <1>1 DEF Kept
<1> HIDE DEF next
<1>5. CASE next.kind = "exec" /\ next.pid = p
  <2>1. Kept(p, n + 1) = Kept(p, n) \cup {n + 1}
    BY <1>4, <1>5
  <2>2. n + 1 \notin Kept(p, n)
    BY <1>2
  <2>3. Cardinality(Kept(p, n + 1)) = Cardinality(Kept(p, n)) + 1
    BY <2>1, <2>2, <1>3, FS_AddElement
  <2> QED BY <2>3, <1>5 DEF execCount, next
<1>6. CASE next.kind = "failed"
  <2>1. n \in 1..Len(shimFile) /\ shimFile[n].kind = "exec" /\ shimFile[n].pid = next.pid
    <3>1. n + 1 > 1 /\ shimFile[(n + 1) - 1].kind = "exec" /\ shimFile[(n + 1) - 1].pid = next.pid
      BY <1>1, <1>6 DEF FailedInv, next
    <3>2. (n + 1) - 1 = n
      OBVIOUS
    <3> QED BY <3>1, <3>2, <1>1
  <2>2. n \in Kept(p, n) <=> next.pid = p
    BY <2>1 DEF Kept
  <2>3. Kept(p, n + 1) = Kept(p, n) \ {n}
    BY <1>4, <1>6
  <2>4. Cardinality(Kept(p, n + 1)) = IF next.pid = p THEN Cardinality(Kept(p, n)) - 1 ELSE Cardinality(Kept(p, n))
    BY <2>2, <2>3, <1>3, FS_RemoveElement
  <2>5. next.pid = p => Cardinality(Kept(p, n)) # 0
    BY <2>2, <1>3, FS_EmptySet
  <2> QED BY <2>4, <2>5, <1>3, <1>6 DEF execCount, next
<1>7. CASE next.kind # "failed" /\ ~(next.kind = "exec" /\ next.pid = p)
  <2>1. Kept(p, n + 1) = Kept(p, n)
    BY <1>4, <1>7
  <2> QED BY <2>1, <1>7 DEF execCount, next
<1> QED BY <1>5, <1>6, <1>7

LEMMA CountedNext == Base /\ TakenInv /\ FailedInv /\ CountedInv /\ [Next]_vars => CountedInv'
<1> SUFFICES ASSUME Base, TakenInv, FailedInv, CountedInv, [Next]_vars, NEW p \in Pids
             PROVE  shimExecCountByPid'[p] = Cardinality(Kept(p, shimTaken)')
  BY DEF CountedInv
<1>0. /\ Grown /\ shimTaken \in Nat /\ shimTaken <= Len(shimFile) /\ shimExecCountByPid \in [Pids -> Nat]
      /\ KeptSteps
  BY FilesGrow, KeptMore DEF Base, TypeOK, TakenInv
<1>1. CASE shimTaken' = shimTaken /\ shimExecCountByPid' = shimExecCountByPid
  <2>1. Kept(p, shimTaken)' = Kept(p, shimTaken)
    <3> DEFINE n == shimTaken
    <3>1. \A i : i \in Kept(p, shimTaken)' <=> i \in Kept(p, shimTaken)
      <4>1. \A i \in 1..shimTaken : shimFile'[i] = shimFile[i] /\ (i < shimTaken => shimFile'[i + 1] = shimFile[i + 1])
        BY <1>0 DEF Grown
      <4> QED BY <4>1, <1>1 DEF Kept
    <3> QED BY <3>1
  <2> QED BY <2>1, <1>0, <1>1 DEF CountedInv
<1>2. CASE TakeStartup \/ TakeShimEvent
  <2>1. shimTaken < Len(shimFile) /\ shimTaken' = shimTaken + 1 /\ shimFile' = shimFile
    BY <1>2, TakesRecord DEF treeVars
  <2>2. Cardinality(Kept(p, shimTaken + 1)) =
            IF NextRecord.pid = p THEN execCount(Cardinality(Kept(p, shimTaken)), NextRecord.kind)
            ELSE Cardinality(Kept(p, shimTaken))
    BY <2>1, <1>0 DEF KeptSteps, NextRecord
  <2>3. Kept(p, shimTaken)' = Kept(p, shimTaken + 1)
    BY <2>1 DEF Kept
  <2>4. shimExecCountByPid'[p] = IF NextRecord.pid = p THEN execCount(shimExecCountByPid[p], NextRecord.kind)
                                 ELSE shimExecCountByPid[p]
    <3>1. CASE TakeShimEvent
      BY <3>1, <1>0 DEF TakeShimEvent
    <3>2. CASE TakeStartup
      BY <3>2, <1>0 DEF TakeStartup, TakeRecord, execCount
    <3> QED BY <1>2, <3>1, <3>2
  <2> QED BY <2>2, <2>3, <2>4 DEF CountedInv
<1>3. (\E q \in Pids : Processes(q) \/ Takes(q)) \/ Finish \/ UNCHANGED vars
        => shimTaken' = shimTaken /\ shimExecCountByPid' = shimExecCountByPid
  <2>1. \A q \in Pids : Takes(q) => shimTaken' = shimTaken /\ shimExecCountByPid' = shimExecCountByPid
    BY DEF Takes, TakeSpawn, TakeFailed, TakeRead, TakeClone, TakeExit, Take, countVars
  <2> QED BY <2>1, ProcessDispatch DEF Finish, vars, DispatchVars, countVars
<1> QED BY <1>1, <1>2, <1>3 DEF Next, Done
\* The execs strace says are recorded, after one more line.
LEMMA RecordedMore ==
    ASSUME Base, [Next]_vars, NEW q \in Pids, NEW l \in Line, Wrote(q, l), NEW p \in Pids
    PROVE  Cardinality(Recorded(p)') = IF p = q /\ l.kind = "spawn" /\ l.recorded
                                       THEN Cardinality(Recorded(p)) + 1 ELSE Cardinality(Recorded(p))
<1> DEFINE n == Len(file[p])
<1>0. n \in Nat /\ DOMAIN file[p] = 1..n /\ Len(file'[p]) \in Nat
  BY FilesGrow DEF Grown
<1>1. IsFiniteSet(Recorded(p)) /\ Cardinality(Recorded(p)) \in Nat
  <2>1. Recorded(p) \in SUBSET (1..n)
    BY DEF Recorded, Spawns
  <2> QED BY <1>0, <2>1, Finite
<1>2. CASE p # q
  <2>1. file'[p] = file[p]
    BY <1>2 DEF Wrote
  <2>2. Recorded(p)' = Recorded(p)
    BY <2>1 DEF Recorded, Spawns
  <2> QED BY <1>2, <2>2
<1>3. CASE p = q
  <2>1. Len(file'[p]) = n + 1 /\ file'[p][n + 1] = l /\ \A i \in 1..n : file'[p][i] = file[p][i]
    BY <1>3 DEF Wrote
  <2> HIDE DEF n
  <2> DEFINE before == Recorded(p)
             after == Recorded(p)'
             hit == l.kind = "spawn" /\ l.recorded
  <2>2. after = {i \in 1..(n + 1) : file'[p][i].kind = "spawn" /\ file'[p][i].recorded}
    BY <2>1 DEF Recorded, Spawns
  <2>3. before = {i \in 1..n : file[p][i].kind = "spawn" /\ file[p][i].recorded}
    BY DEF Recorded, Spawns, n
  <2>4. n \in Nat
    BY <1>0 DEF n
  <2>5. n + 1 \in after <=> hit
    BY <2>1, <2>2, <2>4
  <2>6. \A i \in 1..n : i \in after <=> i \in before
    BY <2>1, <2>2, <2>3, <2>4
  <2>7. before \subseteq 1..n /\ after \subseteq 1..n \cup {n + 1}
    BY <2>2, <2>3, <2>4
  <2>8. n + 1 \notin before
    BY <2>4, <2>7
  <2> HIDE DEF before, after, hit
  <2>9. after = IF hit THEN before \cup {n + 1} ELSE before
    <3>1. CASE hit
      BY <3>1, <2>5, <2>6, <2>7
    <3>2. CASE ~hit
      <4>1. after \subseteq before
        BY <3>2, <2>5, <2>6, <2>7
      <4>2. before \subseteq after
        BY <2>6, <2>7
      <4>3. after = before
        BY <4>1, <4>2
      <4> QED BY <3>2, <4>3
    <3> QED BY <3>1, <3>2
  <2>10. IsFiniteSet(before)
    BY <1>1 DEF before
  <2>11. Cardinality(after) = IF hit THEN Cardinality(before) + 1 ELSE Cardinality(before)
    BY <2>8, <2>9, <2>10, FS_AddElement
  <2> QED BY <2>11, <1>3 DEF before, after, hit
<1> QED BY <1>2, <1>3

\* The execs the shim recorded and did not take back, after some more records.
LEMMA KeptNoted ==
    ASSUME Base, FailedInv, [Next]_vars, NEW q \in Pids, NEW p \in Pids
    PROVE  LET old == Cardinality(Kept(p, Len(shimFile)))
               new == Cardinality(Kept(p, Len(shimFile))')
           IN /\ Silent => new = old
              /\ \A kind : Noted(q, <<kind>>) => new = IF p = q THEN execCount(old, kind) ELSE old
              /\ Noted(q, <<"exec", "failed">>) => new = old
<1> DEFINE n == Len(shimFile)
           old == Cardinality(Kept(p, n))
<1>0. Grown /\ n \in Nat /\ KeptSteps'
  <2>1. Base' /\ FailedInv'
    BY NextBase, FailedNext
  <2>2. KeptSteps'
    BY <2>1, KeptMore, PTL
  <2> QED BY <2>2, FilesGrow DEF Grown
<1>1. ASSUME NEW m \in Nat, m < Len(shimFile')
      PROVE  Cardinality(Kept(p, m + 1)') =
               IF shimFile'[m + 1].pid = p THEN execCount(Cardinality(Kept(p, m)'), shimFile'[m + 1].kind)
               ELSE Cardinality(Kept(p, m)')
  BY <1>0, <1>1 DEF KeptSteps
<1>2. old \in Nat
  <2>1. Kept(p, n) \in SUBSET (1..n)
    BY DEF Kept
  <2> QED BY <1>0, <2>1, Finite
<1>3. \A m \in Nat : m = n => \A i : i \in Kept(p, m)' <=> i \in Kept(p, n)
  <2>1. \A i \in 1..n : shimFile'[i] = shimFile[i] /\ (i < n => shimFile'[i + 1] = shimFile[i + 1])
    BY <1>0 DEF Grown
  <2> QED BY <2>1 DEF Kept
<1>4. \A m \in Nat : m = n => Kept(p, m)' = Kept(p, n)
  BY <1>3
<1>5. \A m \in Nat : m = n => Cardinality(Kept(p, m)') = old
  BY <1>4
<1>6. \A m \in Nat : Len(shimFile') = m => Kept(p, Len(shimFile))' = Kept(p, m)'
  BY DEF Kept
<1>s. Silent => Cardinality(Kept(p, Len(shimFile))') = old
  <2>1. Silent => Kept(p, Len(shimFile))' = Kept(p, n)
    BY DEF Silent, Kept
  <2> QED BY <2>1
<1>7. ASSUME NEW kind, Noted(q, <<kind>>)
      PROVE  Cardinality(Kept(p, Len(shimFile))') = IF p = q THEN execCount(old, kind) ELSE old
  <2> DEFINE kinds == <<kind>>
  <2>1. Len(kinds) = 1 /\ kinds[1] = kind /\ 1 \in 1..Len(kinds)
    OBVIOUS
  <2> HIDE DEF kinds
  <2>2. Noted(q, kinds)
    BY <1>7 DEF kinds
  <2>3. Len(shimFile') = n + 1 /\ shimFile'[n + 1].kind = kind /\ shimFile'[n + 1].pid = q
    BY <2>1, <2>2 DEF Noted
  <2> HIDE DEF n, old
  <2>4. n < Len(shimFile') /\ n + 1 \in Nat
    BY <2>3, <1>0
  <2>6. PICK m \in Nat : m = n
    BY <1>0
  <2>7. Cardinality(Kept(p, m + 1)') = IF q = p THEN execCount(Cardinality(Kept(p, m)'), kind) ELSE Cardinality(Kept(p, m)')
    BY <2>3, <2>4, <2>6, <1>1
  <2>8. Cardinality(Kept(p, m)') = old
    BY <2>6, <1>5
  <2>9. Kept(p, Len(shimFile))' = Kept(p, m + 1)'
    BY <2>3, <2>4, <2>6, <1>6
  <2> QED BY <2>7, <2>8, <2>9
<1>8. ASSUME Noted(q, <<"exec", "failed">>) PROVE Cardinality(Kept(p, Len(shimFile))') = old
  <2> DEFINE kinds == <<"exec", "failed">>
  <2>1. Len(kinds) = 2 /\ kinds[1] = "exec" /\ kinds[2] = "failed" /\ 1 \in 1..Len(kinds) /\ 2 \in 1..Len(kinds)
    OBVIOUS
  <2> HIDE DEF kinds
  <2>2. Noted(q, kinds)
    BY <1>8 DEF kinds
  <2>3. /\ Len(shimFile') = n + 2
        /\ shimFile'[n + 1].kind = "exec" /\ shimFile'[n + 1].pid = q
        /\ shimFile'[n + 2].kind = "failed" /\ shimFile'[n + 2].pid = q
    BY <2>1, <2>2 DEF Noted
  <2> HIDE DEF n, old
  <2>4. PICK m \in Nat : m = n
    BY <1>0
  <2>5. m < Len(shimFile') /\ m + 1 \in Nat /\ m + 1 < Len(shimFile') /\ (m + 1) + 1 = m + 2 /\ m + 2 \in Nat
        /\ Len(shimFile') = m + 2
    BY <2>3, <2>4
  <2>6. Cardinality(Kept(p, m)') = old
    BY <2>4, <1>5
  <2>7. Cardinality(Kept(p, m + 1)') = IF q = p THEN execCount(old, "exec") ELSE old
    BY <2>3, <2>4, <2>5, <2>6, <1>1
  <2>8. Cardinality(Kept(p, (m + 1) + 1)') =
            IF q = p THEN execCount(Cardinality(Kept(p, m + 1)'), "failed") ELSE Cardinality(Kept(p, m + 1)')
    <3> DEFINE m1 == m + 1
    <3>1. m1 \in Nat /\ m1 < Len(shimFile') /\ shimFile'[m1 + 1].pid = q /\ shimFile'[m1 + 1].kind = "failed"
      BY <2>3, <2>4, <2>5
    <3> HIDE DEF m1
    <3>2. Cardinality(Kept(p, m1 + 1)') =
            IF q = p THEN execCount(Cardinality(Kept(p, m1)'), "failed") ELSE Cardinality(Kept(p, m1)')
      BY <3>1, <1>1
    <3> QED BY <3>2 DEF m1
  <2>9. execCount(execCount(old, "exec"), "failed") = old
    BY <1>2 DEF execCount, old
  <2>10. Kept(p, Len(shimFile))' = Kept(p, (m + 1) + 1)'
    BY <2>5, <1>6
  <2> QED BY <2>7, <2>8, <2>9, <2>10
<1> QED BY <1>s, <1>7, <1>8

LEMMA RecordedNext == Base /\ FailedInv /\ RecordedInv /\ [Next]_vars => RecordedInv'
<1> SUFFICES ASSUME Base, FailedInv, RecordedInv, [Next]_vars, NEW p \in Pids
             PROVE  Cardinality(Kept(p, Len(shimFile))') = Cardinality(Recorded(p)')
  BY DEF RecordedInv
<1> DEFINE old == Cardinality(Kept(p, Len(shimFile)))
           new == Cardinality(Kept(p, Len(shimFile))')
<1>0. old = Cardinality(Recorded(p))
  BY DEF RecordedInv
<1>k. ASSUME NEW q \in Pids
      PROVE  /\ Silent => new = old
             /\ \A kind : Noted(q, <<kind>>) => new = IF p = q THEN execCount(old, kind) ELSE old
             /\ Noted(q, <<"exec", "failed">>) => new = old
  BY KeptNoted
<1>f. file' = file => Recorded(p)' = Recorded(p)
  BY DEF Recorded, Spawns
<1> HIDE DEF old, new
<1>1. CASE UNCHANGED treeVars
  BY <1>1, <1>0, <1>k, <1>f DEF treeVars, Silent, new
<1>2. ASSUME NEW q \in Pids, Processes(q) PROVE new = Cardinality(Recorded(p)')
  <2>w. ASSUME NEW l \in Line, Wrote(q, l)
        PROVE  Cardinality(Recorded(p)') = IF p = q /\ l.kind = "spawn" /\ l.recorded THEN old + 1 ELSE old
    BY <2>w, <1>0, RecordedMore
  <2>e. new = old \/ ~Noted(q, <<"exec">>) \/ (p = q /\ new = old + 1)
    BY <1>k DEF execCount
  <2>x. Noted(q, <<"exec">>) => new = IF p = q THEN old + 1 ELSE old
    BY <1>k DEF execCount
  <2>1. CASE \E c \in Pids : Fork(q, c)
    <3>1. Silent /\ \E l \in Line : Wrote(q, l) /\ l.kind = "clone"
      BY <2>1, Shapes
    <3> QED BY <3>1, <2>w, <1>k
  <2>2. CASE \E k \in Pkgs : Start(q, k)
    <3>1. /\ \E l \in Line : Wrote(q, l) /\ l.kind = "spawn" /\ l.recorded = image[q].shim
          /\ IF image[q].shim THEN Noted(q, <<"exec">>) ELSE Silent
      BY <2>2, Shapes
    <3> QED BY <3>1, <2>w, <2>x, <1>k
  <2>3. CASE \E how \in Steps, inWorkDir \in BOOLEAN : Exec(q, how, inWorkDir)
    <3>1. \E l \in Line : Wrote(q, l) /\ l.kind = "spawn" /\ IF l.recorded THEN Noted(q, <<"exec">>) ELSE Silent
      BY <2>3, Shapes
    <3> QED BY <3>1, <2>w, <2>x, <1>k
  <2>4. CASE \E kind \in Steps : ShimEvent(q, kind)
    <3>1. PICK kind \in {"other", "startup"} : file' = file /\ Noted(q, <<kind>>)
      BY <2>4, Shapes
    <3>2. new = old
      BY <3>1, <1>k DEF execCount
    <3> QED BY <3>1, <3>2, <1>f, <1>0
  <2>5. CASE Fail(q)
    <3>1. /\ \E l \in Line : Wrote(q, l) /\ l.kind = "failed"
          /\ IF image[q].shim THEN Noted(q, <<"exec", "failed">>) ELSE Silent
      BY <2>5, Shapes
    <3> QED BY <3>1, <2>w, <1>k
  <2>6. CASE Read(q) \/ Exit(q)
    <3>1. Silent /\ \E l \in Line : Wrote(q, l) /\ l.kind \in {"read", "exit"}
      BY <2>6, Shapes
    <3> QED BY <3>1, <2>w, <1>k
  <2> QED BY <1>2, <2>1, <2>2, <2>3, <2>4, <2>5, <2>6 DEF Processes
<1> QED BY <1>1, <1>2, TakesTree DEF Next, Done, vars, new
\* The samples keep pace with the lines that were taken.
LEMMA SampledNext == Base /\ TakenInv /\ SampledInv /\ [Next]_vars => SampledInv'
<1> SUFFICES ASSUME Base, TakenInv, SampledInv, [Next]_vars PROVE SampledInv'
  OBVIOUS
<1> DEFINE T == [event : Event, pkg : Pkgs \cup {Unattributed}]
           Sampled(s, p, n) ==
               \A i \in 1..Len(s) : /\ s[i].event.pid = p /\ s[i].event.at <= n
                                    /\ \A j \in 1..(i - 1) : s[j].event.at < s[i].event.at
<1>0. /\ Grown /\ taken \in [Pids -> Nat] /\ \A p \in Pids : taken[p] <= Len(file[p])
      /\ straceExecsByPid \in [Pids -> Seq(T)]
  BY FilesGrow DEF Base, TypeOK, TakenInv
<1>s. SampledInv <=> \A p \in Pids : /\ Len(straceExecsByPid[p]) = Cardinality(Spawns(p, taken[p]))
                                     /\ Sampled(straceExecsByPid[p], p, taken[p])
  BY DEF SampledInv
<1>p. SampledInv' <=> \A p \in Pids : /\ Len(straceExecsByPid'[p]) = Cardinality(Spawns(p, taken[p])')
                                      /\ Sampled(straceExecsByPid'[p], p, taken'[p])
  BY DEF SampledInv
<1>1. ASSUME NEW p \in Pids, straceExecsByPid'[p] = straceExecsByPid[p], taken'[p] = taken[p]
      PROVE  /\ Len(straceExecsByPid'[p]) = Cardinality(Spawns(p, taken[p])')
             /\ Sampled(straceExecsByPid'[p], p, taken'[p])
  <2>1. \A i \in 1..taken[p] : file'[p][i] = file[p][i]
    BY <1>0 DEF Grown
  <2>2. Spawns(p, taken[p])' = Spawns(p, taken[p])
    BY <2>1, <1>1 DEF Spawns
  <2> HIDE DEF Sampled
  <2> QED BY <2>2, <1>1, <1>s
<1>2. ASSUME NEW q \in Pids, Takes(q) PROVE SampledInv'
  <2>1. /\ taken[q] \in Nat /\ taken'[q] = taken[q] + 1 /\ file' = file /\ taken[q] + 1 <= Len(file[q])
        /\ \A p \in Pids \ {q} : taken'[p] = taken[p]
    BY <1>2, <1>0, TakesOne DEF treeVars, Grown
  <2> DEFINE n == taken[q]
             old == Spawns(q, n)
             new == Spawns(q, taken[q])'
             s == straceExecsByPid[q]
  <2>2. new = {i \in 1..(n + 1) : file[q][i].kind = "spawn"}
    BY <2>1 DEF Spawns
  <2>3. n \in Nat /\ old \in SUBSET (1..n) /\ IsFiniteSet(old) /\ Cardinality(old) \in Nat
    <3>1. n \in Nat /\ old \in SUBSET (1..n)
      BY <2>1 DEF Spawns
    <3> QED BY <3>1, Finite
  <2>4. new = IF NextLine(q).kind = "spawn" THEN old \cup {n + 1} ELSE old
    <3>1. old = {i \in 1..n : file[q][i].kind = "spawn"}
      BY DEF Spawns
    <3>2. NextLine(q) = file[q][n + 1]
      BY DEF NextLine
    <3> HIDE DEF old, new, n
    <3>3. CASE NextLine(q).kind = "spawn"
      <4>1. \A i : i \in new <=> i \in old \/ i = n + 1
        BY <2>2, <2>3, <3>1, <3>2, <3>3
      <4> QED BY <4>1, <3>3
    <3>4. CASE NextLine(q).kind # "spawn"
      <4>1. \A i : i \in new <=> i \in old
        BY <2>2, <2>3, <3>1, <3>2, <3>4
      <4>2. new = old
        BY <4>1
      <4> QED BY <4>2, <3>4
    <3> QED BY <3>3, <3>4
  <2>5. s \in Seq(T) /\ Len(s) \in Nat /\ Len(s) = Cardinality(old) /\ Sampled(s, q, n)
    <3>1. s \in Seq(T)
      BY <1>0
    <3>2. Len(s) \in Nat
      <4> HIDE DEF s, T
      <4> QED BY <3>1
    <3>3. Len(s) = Cardinality(old) /\ Sampled(s, q, n)
      <4> HIDE DEF Sampled
      <4> QED BY <1>s
    <3> QED BY <3>1, <3>2, <3>3
  <2>6. ASSUME TakeSpawn(q)
        PROVE  Len(straceExecsByPid'[q]) = Cardinality(new) /\ Sampled(straceExecsByPid'[q], q, n + 1)
               /\ \A p \in Pids \ {q} : straceExecsByPid'[p] = straceExecsByPid[p]
    <3>1. PICK pkg : straceExecsByPid' =
                [straceExecsByPid EXCEPT ![q] = Append(@, [event |-> thisEvent(q), pkg |-> pkg])]
      BY <2>6 DEF TakeSpawn
    <3>2. Untaken(q) /\ NextLine(q).kind = "spawn"
      BY <2>6 DEF TakeSpawn, Take
    <3>3. thisEvent(q).pid = q /\ thisEvent(q).at = n + 1
      BY <3>2, EventType DEF Base
    <3> DEFINE e == [event |-> thisEvent(q), pkg |-> pkg]
    <3>4. straceExecsByPid'[q] = Append(s, e) /\ \A p \in Pids \ {q} : straceExecsByPid'[p] = straceExecsByPid[p]
      BY <3>1, <1>0
    <3>5. e.event.pid = q /\ e.event.at = n + 1
      BY <3>3
    <3> HIDE DEF e, s, old, new, n, T
    <3> DEFINE t == Append(s, e)
    <3>6. Len(t) = Len(s) + 1 /\ t[Len(s) + 1] = e /\ \A i \in 1..Len(s) : t[i] = s[i]
      BY <2>5
    <3>7. Cardinality(new) = Cardinality(old) + 1
      <4>1. new = old \cup {n + 1} /\ n + 1 \notin old
        BY <2>3, <2>4, <3>2
      <4> QED BY <4>1, <2>3, FS_AddElement
    <3> HIDE DEF t
    <3>8. Sampled(t, q, n + 1)
      <4>1. ASSUME NEW i \in 1..Len(t)
            PROVE  /\ t[i].event.pid = q /\ t[i].event.at <= n + 1
                   /\ \A j \in 1..(i - 1) : t[j].event.at < t[i].event.at
        <5>1. CASE i \in 1..Len(s)
          <6>0. s[i].event.at \in Nat
            <7>1. s[i] \in T
              BY <2>5, <5>1
            <7> QED BY <7>1 DEF T, Event
          <6>1. s[i].event.pid = q /\ s[i].event.at <= n /\ \A j \in 1..(i - 1) : s[j].event.at < s[i].event.at
            BY <2>5, <5>1
          <6>2. \A j \in 1..(i - 1) : j \in 1..Len(s)
            BY <2>5, <5>1
          <6> QED BY <6>0, <6>1, <6>2, <5>1, <2>3, <3>6
        <5>2. CASE i = Len(s) + 1
          <6>1. t[i] = e /\ \A j \in 1..(i - 1) : j \in 1..Len(s)
            BY <5>2, <2>5, <3>6
          <6>2. \A j \in 1..Len(s) : s[j].event.at <= n /\ s[j].event.at \in Nat
            <7>1. \A j \in 1..Len(s) : s[j] \in T
              BY <2>5
            <7> QED BY <7>1, <2>5 DEF T, Event
          <6> QED BY <6>1, <6>2, <2>3, <3>5, <3>6
        <5> QED BY <5>1, <5>2, <2>5, <3>6
      <4> QED BY <4>1
    <3> QED BY <3>4, <3>6, <3>7, <3>8, <2>5 DEF t
  <2>7. ASSUME ~TakeSpawn(q)
        PROVE  Len(straceExecsByPid'[q]) = Cardinality(new) /\ Sampled(straceExecsByPid'[q], q, n + 1)
               /\ \A p \in Pids \ {q} : straceExecsByPid'[p] = straceExecsByPid[p]
    <3>1. straceExecsByPid' = straceExecsByPid /\ NextLine(q).kind # "spawn"
      BY <1>2, <2>7 DEF Takes, TakeFailed, TakeRead, TakeClone, TakeExit, Take, countVars
    <3>2. new = old
      BY <2>4, <3>1
    <3>3. Sampled(s, q, n + 1)
      <4> HIDE DEF s
      <4>1. \A i \in 1..Len(s) : s[i].event.at \in Nat
        <5>1. \A i \in 1..Len(s) : s[i] \in T
          <6> HIDE DEF T, Sampled
          <6> QED BY <2>5
        <5> QED BY <5>1 DEF T, Event
      <4> QED BY <2>3, <2>5, <4>1
    <3> HIDE DEF Sampled, new, old
    <3> QED BY <3>1, <3>2, <3>3, <2>5
  <2>8. Len(straceExecsByPid'[q]) = Cardinality(new) /\ Sampled(straceExecsByPid'[q], q, taken'[q])
        /\ \A p \in Pids \ {q} : straceExecsByPid'[p] = straceExecsByPid[p]
    <3> HIDE DEF Sampled, new
    <3> QED BY <2>1, <2>6, <2>7
  <2> HIDE DEF Sampled, new, old
  <2> QED BY <2>1, <2>8, <1>1, <1>p DEF new
<1>3. (\E q \in Pids : Processes(q)) \/ TakeStartup \/ TakeShimEvent \/ Finish \/ UNCHANGED vars
        => straceExecsByPid' = straceExecsByPid /\ taken' = taken
  BY TakesRecord, ProcessDispatch DEF Finish, vars, DispatchVars, countVars
<1> HIDE DEF Sampled
<1> QED BY <1>1, <1>2, <1>3, <1>p DEF Next, Done

LEMMA EndNext == Base /\ EndInv /\ [Next]_vars => EndInv'
<1> SUFFICES ASSUME Base, EndInv, [Next]_vars, ~ended', NEW r \in reports' PROVE r.how \in {"live", "shim"}
  BY DEF EndInv
<1>1. ~ended
  BY EndedStays DEF vars
<1>2. r \in reports => r.how \in {"live", "shim"}
  BY <1>1 DEF EndInv
<1>3. ASSUME NEW p \in Pids, Takes(p) PROVE r.how \in {"live", "shim"}
  BY <1>2, <1>3 DEF Takes, TakeSpawn, TakeFailed, TakeRead, TakeClone, TakeExit, EmitsSpawn, Reports, outVars
<1>4. CASE TakeStartup \/ TakeShimEvent
  BY <1>2, <1>4 DEF TakeStartup, TakeShimEvent, Reports
<1>5. ~Finish
  BY DEF Finish
<1>6. (\E p \in Pids : Processes(p)) \/ UNCHANGED vars => reports' = reports
  BY ProcessDispatch DEF vars, DispatchVars, outVars
<1> QED BY <1>2, <1>3, <1>4, <1>5, <1>6 DEF Next, Done
\* The inductive invariant of BypassExact.
BypassInv == Base /\ TakenInv /\ FailedInv /\ CountInv /\ EndInv /\ BypassExact

\* The execs blamed on p at the end are the samples beyond the count.
LEMMA BypassAtEnd ==
    ASSUME Base, TakenInv, CountInv, EndInv, Finish, NEW p \in Pids
    PROVE  Cardinality({r \in reports' : r.how = "bypass" /\ r.event.pid = p})
             = Cardinality({i \in DOMAIN file'[p] : file'[p][i].kind = "spawn" /\ ~file'[p][i].recorded})
<1> DEFINE T == [event : Event, pkg : Pkgs \cup {Unattributed}]
           s == straceExecsByPid[p]
           k == shimExecCountByPid[p]
           n == Len(s)
           blamed == {r \in reports' : r.how = "bypass" /\ r.event.pid = p}
           missed == {i \in DOMAIN file[p] : file[p][i].kind = "spawn" /\ ~file[p][i].recorded}
           rep(i) == [event |-> s[i].event, pkg |-> s[i].pkg, how |-> "bypass"]
<1>1. /\ ~ended /\ shimTaken = Len(shimFile) /\ taken[p] = Len(file[p]) /\ file' = file
      /\ \A q \in Pids : straceExecsByPid[q] \in Seq(T) /\ shimExecCountByPid[q] \in Nat
      /\ Len(file[p]) \in Nat /\ DOMAIN file[p] = 1..Len(file[p]) /\ file[p] \in Seq(Line)
  <2>1. taken[p] \in Nat /\ Len(file[p]) \in Nat /\ taken[p] <= Len(file[p]) /\ ~(taken[p] < Len(file[p]))
    BY DEF Finish, Untaken, Base, TypeOK, TakenInv
  <2>2. \A q \in Pids : straceExecsByPid[q] \in Seq(T) /\ shimExecCountByPid[q] \in Nat
    BY DEF Base, TypeOK
  <2>3. file[p] \in Seq(Line)
    BY DEF Base, TypeOK
  <2>4. DOMAIN file[p] = 1..Len(file[p])
    BY <2>3
  <2>5. ~ended /\ shimTaken = Len(shimFile) /\ file' = file
    BY DEF Finish, treeVars
  <2>6. taken[p] = Len(file[p]) /\ Len(file[p]) \in Nat
    BY <2>1
  <2> HIDE DEF T
  <2>7. \A q \in Pids : straceExecsByPid[q] \in Seq(T) /\ shimExecCountByPid[q] \in Nat
    BY <2>2 DEF T
  <2> QED BY <2>3, <2>4, <2>5, <2>6, <2>7
<1>2. s \in Seq(T) /\ n \in Nat /\ k \in Nat
  <2>1. s \in Seq(T) /\ k \in Nat
    BY <1>1
  <2> HIDE DEF s, T
  <2> QED BY <2>1
<1>3. k = Cardinality(Recorded(p)) /\ n = Cardinality(Spawns(p, Len(file[p])))
  <2>1. k = Cardinality(Kept(p, shimTaken)) /\ n = Cardinality(Spawns(p, taken[p]))
    BY DEF CountInv, CountedInv, SampledInv
  <2>2. Cardinality(Kept(p, Len(shimFile))) = Cardinality(Recorded(p))
    BY DEF CountInv, RecordedInv
  <2> QED BY <2>1, <2>2, <1>1
<1>4. Cardinality(missed) = n - k /\ k <= n
  <2> DEFINE spawns == Spawns(p, Len(file[p]))
             recorded == Recorded(p)
  <2>1. spawns \in SUBSET (1..Len(file[p])) /\ recorded \in SUBSET spawns
    BY DEF Spawns, Recorded
  <2>2. IsFiniteSet(spawns) /\ Cardinality(spawns) \in Nat
    <3> HIDE DEF spawns
    <3> QED BY <1>1, <2>1, Finite
  <2>3. missed = spawns \ recorded
    BY <1>1 DEF Spawns, Recorded
  <2> HIDE DEF spawns, recorded, missed
  <2>4. spawns \cap recorded = recorded
    BY <2>1
  <2>5. Cardinality(missed) = Cardinality(spawns) - Cardinality(recorded)
    <3>1. Cardinality(spawns \ recorded) = Cardinality(spawns) - Cardinality(spawns \cap recorded)
      BY <2>2, FS_Difference
    <3> QED BY <3>1, <2>3, <2>4
  <2>6. Cardinality(recorded) <= Cardinality(spawns)
    BY <2>1, <2>2, FS_Subset
  <2> QED BY <2>5, <2>6, <1>3 DEF spawns, recorded
<1>5. blamed = {rep(i) : i \in k + 1..n}
  <2> DEFINE all == UNION {ToSet(bypasses(q)) : q \in Pids}
             resolved == {[event |-> e, pkg |-> resolveDeferredAttribution(e.pid), how |-> "parked"] :
                            e \in {d \in deferredNullAttribEvents : resolveDeferredAttribution(d.pid) # None}}
  <2>1. reports' = reports \cup resolved \cup {[event |-> b.event, pkg |-> b.pkg, how |-> "bypass"] : b \in all}
    BY DEF Finish
  <2>2. ASSUME NEW q \in Pids
        PROVE  /\ ToSet(bypasses(q)) = {straceExecsByPid[q][i] : i \in shimExecCountByPid[q] + 1..Len(straceExecsByPid[q])}
               /\ \A b \in ToSet(bypasses(q)) : b.event.pid = q
    <3> DEFINE t == straceExecsByPid[q]
               c == shimExecCountByPid[q]
               m == Len(t)
    <3>1. t \in Seq(T) /\ c \in Nat
      BY <1>1
    <3>2. \A i \in 1..m : t[i].event.pid = q
      BY DEF CountInv, SampledInv
    <3> HIDE DEF t, c, T
    <3>3. m \in Nat
      BY <3>1
    <3> HIDE DEF m
    <3> DEFINE u == SubSeq(t, c + 1, m)
    <3>4. /\ Len(u) = IF c + 1 <= m THEN m - c ELSE 0
          /\ Len(u) \in Nat /\ DOMAIN u = 1..Len(u)
          /\ \A i \in 1..Len(u) : u[i] = t[c + i]
      BY <3>1, <3>3 DEF m
    <3>5. u = bypasses(q)
      BY DEF bypasses, t, c, m
    <3> HIDE DEF u
    <3>6. {u[i] : i \in DOMAIN u} = {t[i] : i \in c + 1..m}
      <4>1. ASSUME NEW i \in 1..Len(u) PROVE c + i \in c + 1..m /\ u[i] = t[c + i]
        BY <3>1, <3>3, <3>4, <4>1
      <4>2. ASSUME NEW i \in c + 1..m PROVE i - c \in 1..Len(u) /\ u[i - c] = t[i]
        <5>1. i - c \in 1..Len(u) /\ c + (i - c) = i
          BY <3>1, <3>3, <3>4, <4>2
        <5> QED BY <5>1, <3>4
      <4>3. \A x \in {u[i] : i \in DOMAIN u} : x \in {t[i] : i \in c + 1..m}
        BY <4>1, <3>4
      <4>4. \A x \in {t[i] : i \in c + 1..m} : x \in {u[i] : i \in DOMAIN u}
        BY <4>2, <3>4
      <4> QED BY <4>3, <4>4
    <3>7. \A i \in c + 1..m : i \in 1..m
      BY <3>1, <3>3
    <3>8. ToSet(bypasses(q)) = {t[i] : i \in c + 1..m}
      BY <3>5, <3>6 DEF ToSet
    <3>9. \A b \in ToSet(bypasses(q)) : b.event.pid = q
      BY <3>2, <3>7, <3>8
    <3> QED BY <3>8, <3>9 DEF t, c, m
  <2>3. \A r \in reports : r.how # "bypass"
    BY <1>1 DEF EndInv
  <2>4. \A r \in resolved : r.how # "bypass"
    OBVIOUS
  <2>5. \A b \in all : b.event.pid = p => b \in ToSet(bypasses(p))
    BY <2>2
  <2>6. ToSet(bypasses(p)) \subseteq all
    OBVIOUS
  <2> HIDE DEF all, resolved
  <2>7. ASSUME NEW r \in blamed PROVE r \in {rep(i) : i \in k + 1..n}
    <3>1. PICK b \in all : r = [event |-> b.event, pkg |-> b.pkg, how |-> "bypass"]
      BY <2>1, <2>3, <2>4, <2>7
    <3>2. r.event = b.event /\ r.event.pid = p
      BY <3>1, <2>7
    <3>3. b \in ToSet(bypasses(p))
      BY <3>2, <2>5
    <3>4. PICK i \in k + 1..n : b = s[i]
      BY <3>3, <2>2
    <3> QED BY <3>1, <3>4
  <2>8. ASSUME NEW i \in k + 1..n PROVE rep(i) \in blamed
    <3>1. s[i] \in ToSet(bypasses(p)) /\ s[i].event.pid = p
      BY <2>2
    <3>2. rep(i) \in reports'
      BY <3>1, <2>1, <2>6
    <3>3. rep(i).how = "bypass" /\ rep(i).event = s[i].event
      OBVIOUS
    <3> HIDE DEF rep
    <3> QED BY <3>1, <3>2, <3>3
  <2> HIDE DEF blamed
  <2> QED BY <2>7, <2>8
<1>6. \A i, j \in k + 1..n : rep(i) = rep(j) => i = j
  <2> SUFFICES ASSUME NEW i \in k + 1..n, NEW j \in k + 1..n, rep(i) = rep(j), i < j PROVE FALSE
    <3> HIDE DEF rep, n, k
    <3> QED BY <1>2
  <2>1. s[i].event = s[j].event
    <3>1. rep(i).event = s[i].event /\ rep(j).event = s[j].event
      OBVIOUS
    <3> HIDE DEF rep
    <3> QED BY <3>1
  <2>2. i \in 1..(j - 1) /\ j \in 1..n /\ i \in 1..n
    BY <1>2
  <2>3. s[i].event.at < s[j].event.at
    BY <2>2 DEF CountInv, SampledInv
  <2>4. s[i].event.at \in Nat
    <3>1. s[i] \in T
      <4> HIDE DEF s, T
      <4> QED BY <1>2, <2>2
    <3> QED BY <3>1 DEF Event
  <2> QED BY <2>1, <2>3, <2>4
<1>7. Cardinality(blamed) = Cardinality(k + 1..n)
  <2> DEFINE f == [i \in k + 1..n |-> rep(i)]
             B == {rep(i) : i \in k + 1..n}
  <2>1. f \in [k + 1..n -> B] /\ \A i \in k + 1..n : f[i] = rep(i)
    OBVIOUS
  <2>2. \A r \in B : \E i \in k + 1..n : f[i] = r
    OBVIOUS
  <2> HIDE DEF f, B, rep, k, n
  <2>3. \A i, j \in k + 1..n : f[i] = f[j] => i = j
    BY <2>1, <1>6
  <2>4. f \in Bijection(k + 1..n, B)
    BY <2>1, <2>2, <2>3, Fun_IsBij
  <2>5. ExistsBijection(k + 1..n, B)
    BY <2>4 DEF ExistsBijection
  <2>6. IsFiniteSet(k + 1..n)
    BY <1>2, FS_Interval
  <2> QED BY <2>5, <2>6, <1>5, FS_Bijection DEF B
<1>8. Cardinality(k + 1..n) = n - k
  <2> HIDE DEF k, n
  <2>1. Cardinality(k + 1..n) = IF k + 1 > n THEN 0 ELSE n - (k + 1) + 1
    BY <1>2, FS_Interval
  <2> QED BY <2>1, <1>2, <1>4
<1> HIDE DEF k, n
<1> QED BY <1>1, <1>4, <1>7, <1>8

LEMMA BypassStart == Init => BypassInv
<1> SUFFICES ASSUME Init PROVE BypassInv
  OBVIOUS
<1>0. Base
  BY InitBase
<1>1. TakenInv /\ FailedInv /\ EndInv /\ BypassExact
  BY DEF Init, TakenInv, FailedInv, EndInv, BypassExact
<1>2. \A p \in Pids : /\ file[p] = <<>> /\ shimFile = <<>> /\ straceExecsByPid[p] = <<>> /\ shimExecCountByPid[p] = 0
                      /\ taken[p] = 0 /\ shimTaken = 0
  BY DEF Init
<1>3. Len(<<>>) = 0 /\ 1..0 = {} /\ Cardinality({}) = 0
  BY FS_EmptySet
<1>4. \A p \in Pids : Kept(p, Len(shimFile)) = {} /\ Kept(p, shimTaken) = {} /\ Spawns(p, taken[p]) = {} /\ Recorded(p) = {}
  BY <1>2, <1>3 DEF Kept, Spawns, Recorded
<1>5. CountInv
  BY <1>2, <1>3, <1>4 DEF CountInv, RecordedInv, CountedInv, SampledInv
<1> QED BY <1>0, <1>1, <1>5 DEF BypassInv

LEMMA BypassNext == BypassInv /\ [Next]_vars => BypassInv'
<1> SUFFICES ASSUME BypassInv, [Next]_vars PROVE BypassInv'
  OBVIOUS
<1>0. Base' /\ TakenInv' /\ FailedInv' /\ EndInv'
  BY NextBase, TakenNext, FailedNext, EndNext DEF BypassInv
<1>1. CountInv'
  BY RecordedNext, CountedNext, SampledNext DEF BypassInv, CountInv
<1>2. CASE ended
  <2>1. file' = file /\ reports' = reports /\ ended' = ended
    BY <1>2, EndedStays DEF BypassInv, vars, treeVars, outVars
  <2> QED BY <1>0, <1>1, <2>1 DEF BypassInv, BypassExact
<1>3. CASE ~ended /\ ~Finish
  <2>1. ended' = ended
    BY <1>3, TakesOne, TakesRecord, ProcessDispatch DEF BypassInv, Next, Done, DispatchVars, vars
  <2> QED BY <1>0, <1>1, <1>3, <2>1 DEF BypassInv, BypassExact
<1>4. CASE Finish
  <2>1. BypassExact'
    BY <1>4, BypassAtEnd DEF BypassInv, BypassExact
  <2> QED BY <1>0, <1>1, <2>1 DEF BypassInv
<1> QED BY <1>2, <1>3, <1>4

\* Each pid is blamed for as many execs as went past the shim.
THEOREM BypassExactHolds == Spec => []BypassExact
<1>1. BypassInv => BypassExact
  BY DEF BypassInv
<1> QED BY BypassStart, BypassNext, <1>1, PTL DEF Spec
-----------------------------------------------------------------------------
(* The tree of processes.                                                  *)

Quiet(p) ==
    /\ UNCHANGED <<live, ppid, scripts>>
    /\ \/ file' = file
       \/ \E l \in Line : /\ Wrote(p, l) /\ l.gen = gen(p) /\ l.kind \in {"spawn", "failed", "read"}
                          /\ l.kind = "spawn" => scriptOf(p) # None
Forks(p, c) ==
    /\ c \in Pids \ live /\ (p = Root \/ scriptOf(p) # None)
    /\ live' = live \cup {c} /\ ppid'[c] = p /\ \A q \in Pids \ {c} : ppid'[q] = ppid[q]
    /\ \A q \in Pids \ {c} : scripts'[q] = scripts[q]
    /\ Len(scripts'[c]) = gen(c) + 1 /\ scripts'[c][gen(c) + 1] = scriptOf(p)
    /\ \A g \in 1..gen(c) : scripts'[c][g] = scripts[c][g]
    /\ \E l \in Line : Wrote(p, l) /\ l.kind = "clone" /\ l.child = c /\ l.gen = gen(p)
Starts(p, k) ==
    /\ p # Root /\ scriptOf(p) = None /\ live' = live /\ ppid' = ppid
    /\ \A q \in Pids \ {p} : scripts'[q] = scripts[q]
    /\ Len(scripts'[p]) = gen(p) /\ scripts'[p][gen(p)] = k
    /\ \A g \in 1..gen(p) : g # gen(p) => scripts'[p][g] = scripts[p][g]
    /\ \E l \in Line : Wrote(p, l) /\ l.kind = "spawn" /\ l.gen = gen(p) /\ l.inWorkDir = (k = RootPkg)
Exits(p) ==
    /\ p # Root /\ live' = live \ {p} /\ scripts' = scripts
    /\ \A q \in Pids : ppid'[q] = IF ppid[q] = p THEN None ELSE ppid[q]
    /\ \E l \in Line : Wrote(p, l) /\ l.kind = "exit" /\ l.gen = gen(p)
\* Who writes records.
RecordsOf(p) ==
    \A i \in 1..Len(shimFile') : i > Len(shimFile) =>
        shimFile'[i].pid = p /\ shimFile'[i].gen = gen(p) /\ shimFile'[i].npm = image[p].canon

LEMMA StepKinds ==
    ASSUME Base, NEW p \in Pids, Processes(p)
    PROVE  /\ p \in live /\ RecordsOf(p)
           /\ \/ Quiet(p) \/ Exits(p)
              \/ \E c \in Pids : Forks(p, c)
              \/ \E k \in Pkgs : Starts(p, k)
<1>0. /\ ppid \in [Pids -> Pids \cup {None}] /\ scripts \in [Pids -> Seq(Name)]
      /\ Len(shimFile) \in Nat /\ Len(shimFile') \in Nat
  <2>1. Base'
    <3>1. Next
      BY DEF Next
    <3> QED BY <3>1, NextBase
  <2> QED BY <2>1 DEF Base, TypeOK
<1>1. p \in live
  BY DEF Processes, Fork, Start, Exec, Fail, Read, ShimEvent, Exit, Step
<1>l. gen(p) \in Nat \ {0} /\ scriptOf(p) = scripts[p][gen(p)]
  BY <1>1, LiveScript
<1>r. /\ Silent => RecordsOf(p)
      /\ \A kind : Noted(p, <<kind>>) => RecordsOf(p)
      /\ Noted(p, <<"exec", "failed">>) => RecordsOf(p)
  <2>1. ASSUME NEW kinds, Len(kinds) \in Nat, Noted(p, kinds) PROVE RecordsOf(p)
    <3>1. ASSUME NEW i \in 1..Len(shimFile'), i > Len(shimFile)
          PROVE  shimFile'[i].pid = p /\ shimFile'[i].gen = gen(p) /\ shimFile'[i].npm = image[p].canon
      <4> DEFINE j == i - Len(shimFile)
      <4>1. Len(shimFile') = Len(shimFile) + Len(kinds)
        BY <2>1 DEF Noted
      <4>2. j \in 1..Len(kinds) /\ Len(shimFile) + j = i
        BY <4>1, <2>1, <3>1, <1>0
      <4> HIDE DEF j
      <4>3. shimFile'[Len(shimFile) + j] = [kind |-> kinds[j], pid |-> p, npm |-> image[p].canon, gen |-> gen(p)]
        BY <4>2, <2>1 DEF Noted
      <4> QED BY <4>2, <4>3
    <3> QED BY <3>1 DEF RecordsOf
  <2>2. Len(<<"exec", "failed">>) \in Nat /\ \A kind : Len(<<kind>>) \in Nat
    OBVIOUS
  <2>3. Silent => RecordsOf(p)
    BY <1>0 DEF Silent, RecordsOf
  <2> QED BY <2>1, <2>2, <2>3
<1>2. ASSUME NEW c \in Pids, Fork(p, c) PROVE Forks(p, c) /\ RecordsOf(p)
  <2>1. Silent /\ \E l \in Line : Wrote(p, l) /\ l.kind = "clone" /\ l.child = c /\ l.gen = gen(p)
    BY <1>2, Shapes
  <2>2. /\ c \in Pids \ live /\ (p = Root \/ scriptOf(p) # None)
        /\ live' = live \cup {c} /\ ppid' = [ppid EXCEPT ![c] = p]
        /\ scripts' = [scripts EXCEPT ![c] = Append(@, scriptOf(p))]
    BY <1>2 DEF Fork
  <2> DEFINE old == scripts[c]
             new == Append(old, scriptOf(p))
  <2>3. old \in Seq(Name) /\ Len(old) \in Nat
    BY <1>0
  <2> HIDE DEF old
  <2>4. Len(new) = Len(old) + 1 /\ new[Len(old) + 1] = scriptOf(p) /\ \A g \in 1..Len(old) : new[g] = old[g]
    BY <2>3
  <2>5. scripts'[c] = new /\ \A q \in Pids \ {c} : scripts'[q] = scripts[q]
    BY <2>2, <1>0 DEF old
  <2> HIDE DEF new
  <2>6. /\ Len(scripts'[c]) = gen(c) + 1 /\ scripts'[c][gen(c) + 1] = scriptOf(p)
        /\ \A g \in 1..gen(c) : scripts'[c][g] = scripts[c][g]
    BY <2>4, <2>5 DEF gen, old
  <2> QED BY <2>1, <2>2, <2>5, <2>6, <1>0, <1>r DEF Forks
<1>3. ASSUME NEW k \in Pkgs, Start(p, k) PROVE Starts(p, k) /\ RecordsOf(p)
  <2>1. /\ \E l \in Line : Wrote(p, l) /\ l.kind = "spawn" /\ l.gen = gen(p) /\ l.inWorkDir = (k = RootPkg)
        /\ IF image[p].shim THEN Noted(p, <<"exec">>) ELSE Silent
    BY <1>3, Shapes
  <2>2. /\ p # Root /\ scriptOf(p) = None /\ live' = live /\ ppid' = ppid
        /\ scripts' = [scripts EXCEPT ![p][gen(p)] = k]
    BY <1>3 DEF Start
  <2> DEFINE old == scripts[p]
             new == [old EXCEPT ![gen(p)] = k]
  <2>3. old \in Seq(Name) /\ Len(old) \in Nat /\ DOMAIN old = 1..Len(old) /\ gen(p) = Len(old) /\ gen(p) \in 1..Len(old)
    BY <1>0, <1>l DEF gen
  <2> HIDE DEF old
  <2>4. Len(new) = Len(old) /\ new[gen(p)] = k /\ \A g \in 1..Len(old) : g # gen(p) => new[g] = old[g]
    <3>1. Len(new) = Len(old)
      BY <2>3
    <3>2. DOMAIN new = DOMAIN old
      OBVIOUS
    <3>3. \A g \in DOMAIN old : new[g] = IF g = gen(p) THEN k ELSE old[g]
      OBVIOUS
    <3> HIDE DEF new
    <3> QED BY <3>1, <3>2, <3>3, <2>3
  <2>5. scripts'[p] = new /\ \A q \in Pids \ {p} : scripts'[q] = scripts[q]
    BY <2>2, <1>0 DEF old
  <2> HIDE DEF new
  <2>6. /\ Len(scripts'[p]) = gen(p) /\ scripts'[p][gen(p)] = k
        /\ \A g \in 1..gen(p) : g # gen(p) => scripts'[p][g] = scripts[p][g]
    BY <2>3, <2>4, <2>5 DEF old
  <2> QED BY <2>1, <2>2, <2>5, <2>6, <1>r DEF Starts
<1>4. ASSUME NEW how \in Steps, NEW inWorkDir \in BOOLEAN, Exec(p, how, inWorkDir) PROVE Quiet(p) /\ RecordsOf(p)
  <2>1. PICK l \in Line : Wrote(p, l) /\ l.kind = "spawn" /\ l.gen = gen(p) /\ IF l.recorded THEN Noted(p, <<"exec">>) ELSE Silent
    BY <1>4, Shapes
  <2>2. scriptOf(p) # None /\ UNCHANGED <<live, ppid, scripts>>
    BY <1>4 DEF Exec
  <2> QED BY <2>1, <2>2, <1>r DEF Quiet
<1>5. ASSUME Fail(p) PROVE Quiet(p) /\ RecordsOf(p)
  <2>1. /\ \E l \in Line : Wrote(p, l) /\ l.kind = "failed" /\ l.gen = gen(p)
        /\ IF image[p].shim THEN Noted(p, <<"exec", "failed">>) ELSE Silent
    BY <1>5, Shapes
  <2>2. UNCHANGED <<live, ppid, scripts>>
    BY <1>5 DEF Fail
  <2> QED BY <2>1, <2>2, <1>r DEF Quiet
<1>6. ASSUME Read(p) PROVE Quiet(p) /\ RecordsOf(p)
  <2>1. Silent /\ \E l \in Line : Wrote(p, l) /\ l.kind = "read" /\ l.gen = gen(p)
    BY <1>6, Shapes
  <2>2. UNCHANGED <<live, ppid, scripts>>
    BY <1>6 DEF Read
  <2> QED BY <2>1, <2>2, <1>r DEF Quiet
<1>7. ASSUME NEW kind \in Steps, ShimEvent(p, kind) PROVE Quiet(p) /\ RecordsOf(p)
  <2>1. file' = file /\ Noted(p, <<kind>>)
    BY <1>7, Shapes
  <2>2. UNCHANGED <<live, ppid, scripts>>
    BY <1>7 DEF ShimEvent
  <2> QED BY <2>1, <2>2, <1>r DEF Quiet
<1>8. ASSUME Exit(p) PROVE Exits(p) /\ RecordsOf(p)
  <2>1. Silent /\ \E l \in Line : Wrote(p, l) /\ l.kind = "exit" /\ l.gen = gen(p)
    BY <1>8, Shapes
  <2>2. /\ p # Root /\ live' = live \ {p} /\ scripts' = scripts
        /\ ppid' = [q \in Pids |-> IF ppid[q] = p THEN None ELSE ppid[q]]
    BY <1>8 DEF Exit
  <2> QED BY <2>1, <2>2, <1>r DEF Exits
<1> QED BY <1>1, <1>2, <1>3, <1>4, <1>5, <1>6, <1>7, <1>8 DEF Processes

\* A generation keeps the script it runs.
ScriptsGrow ==
    \A q \in Pids : /\ DOMAIN scripts[q] = 1..gen(q) /\ DOMAIN scripts'[q] = 1..Len(scripts'[q])
                    /\ gen(q) \in Nat /\ Len(scripts'[q]) \in Nat /\ gen(q) <= Len(scripts'[q])
                    /\ \A g \in 1..gen(q) : scripts'[q][g] = scripts[q][g] \/ scripts[q][g] = None

LEMMA ScriptsStay == Base /\ [Next]_vars => ScriptsGrow
<1> SUFFICES ASSUME Base, [Next]_vars PROVE ScriptsGrow
  OBVIOUS
<1>0. scripts \in [Pids -> Seq(Name)] /\ scripts' \in [Pids -> Seq(Name)]
  BY NextBase DEF Base, TypeOK
<1>1. \A q \in Pids : /\ DOMAIN scripts[q] = 1..gen(q) /\ DOMAIN scripts'[q] = 1..Len(scripts'[q])
                      /\ gen(q) \in Nat /\ Len(scripts'[q]) \in Nat
  BY <1>0 DEF gen
<1>2. CASE scripts' = scripts
  BY <1>1, <1>2 DEF ScriptsGrow, gen
<1>3. ASSUME NEW p \in Pids, Processes(p) PROVE ScriptsGrow
  <2>1. CASE Quiet(p) \/ Exits(p)
    BY <2>1, <1>2 DEF Quiet, Exits
  <2>2. CASE \E c \in Pids : Forks(p, c)
    <3>1. PICK c \in Pids : Forks(p, c)
      BY <2>2
    <3>2. \A q \in Pids \ {c} : scripts'[q] = scripts[q]
      BY <3>1 DEF Forks
    <3>3. Len(scripts'[c]) = gen(c) + 1 /\ \A g \in 1..gen(c) : scripts'[c][g] = scripts[c][g]
      BY <3>1 DEF Forks
    <3>4. ASSUME NEW q \in Pids
          PROVE  gen(q) <= Len(scripts'[q]) /\ \A g \in 1..gen(q) : scripts'[q][g] = scripts[q][g]
      BY <3>2, <3>3, <1>1 DEF gen
    <3> QED BY <3>4, <1>1 DEF ScriptsGrow
  <2>3. CASE \E k \in Pkgs : Starts(p, k)
    <3>0. p \in live /\ scriptOf(p) = scripts[p][gen(p)] /\ scriptOf(p) = None
      BY <2>3, <1>3, StepKinds, LiveScript DEF Starts
    <3>1. \A q \in Pids \ {p} : scripts'[q] = scripts[q]
      BY <2>3 DEF Starts
    <3>2. Len(scripts'[p]) = gen(p) /\ \A g \in 1..gen(p) : g # gen(p) => scripts'[p][g] = scripts[p][g]
      BY <2>3 DEF Starts
    <3>3. \A g \in 1..gen(p) : scripts'[p][g] = scripts[p][g] \/ scripts[p][g] = None
      BY <3>0, <3>2
    <3>4. ASSUME NEW q \in Pids
          PROVE  gen(q) <= Len(scripts'[q]) /\ \A g \in 1..gen(q) : scripts'[q][g] = scripts[q][g] \/ scripts[q][g] = None
      <4>1. CASE q = p
        BY <4>1, <3>2, <3>3, <1>1
      <4>2. CASE q # p
        BY <4>2, <3>1, <1>1 DEF gen
      <4> QED BY <4>1, <4>2
    <3> QED BY <3>4, <1>1 DEF ScriptsGrow
  <2> QED BY <1>3, <2>1, <2>2, <2>3, StepKinds
<1> QED BY <1>2, <1>3, TakesTree DEF Next, Done, vars, treeVars
\* The line that is new.
LEMMA NewLine ==
    ASSUME Base, NEW p \in Pids, Processes(p), NEW q \in Pids, NEW i \in 1..Len(file'[q]), i \notin 1..Len(file[q])
    PROVE  /\ q = p /\ i = Len(file[p]) + 1 /\ file'[p][i].gen = gen(p)
           /\ Quiet(p) => /\ file'[p][i].kind \in {"spawn", "failed", "read"}
                          /\ file'[p][i].kind = "spawn" => scriptOf(p) # None
           /\ \A c \in Pids : Forks(p, c) => file'[p][i].kind = "clone" /\ file'[p][i].child = c
           /\ \A k \in Pkgs : Starts(p, k) => file'[p][i].kind = "spawn" /\ file'[p][i].inWorkDir = (k = RootPkg)
           /\ Exits(p) => file'[p][i].kind = "exit"
<1>0. Grown /\ Next
  BY FilesGrow DEF Next
<1>1. ASSUME NEW l \in Line, Wrote(p, l) PROVE q = p /\ i = Len(file[p]) + 1 /\ file'[p][i] = l
  BY <1>0, <1>1 DEF Wrote, Grown
<1>2. \/ Quiet(p) \/ Exits(p)
      \/ \E c \in Pids : Forks(p, c)
      \/ \E k \in Pkgs : Starts(p, k)
  BY StepKinds
<1>3. Quiet(p) => \E l \in Line : /\ Wrote(p, l) /\ l.gen = gen(p) /\ l.kind \in {"spawn", "failed", "read"}
                                  /\ l.kind = "spawn" => scriptOf(p) # None
  BY DEF Quiet
<1>4. \A c \in Pids : Forks(p, c) => \E l \in Line : Wrote(p, l) /\ l.kind = "clone" /\ l.child = c /\ l.gen = gen(p)
  BY DEF Forks
<1>5. \A k \in Pkgs : Starts(p, k) =>
          \E l \in Line : Wrote(p, l) /\ l.kind = "spawn" /\ l.gen = gen(p) /\ l.inWorkDir = (k = RootPkg)
  BY DEF Starts
<1>6. Exits(p) => \E l \in Line : Wrote(p, l) /\ l.kind = "exit" /\ l.gen = gen(p)
  BY DEF Exits
<1>7. q = p /\ i = Len(file[p]) + 1 /\ file'[p][i].gen = gen(p)
  BY <1>1, <1>2, <1>3, <1>4, <1>5, <1>6
<1> QED BY <1>1, <1>3, <1>4, <1>5, <1>6, <1>7

LEMMA GenNext == ASSUME Base, GenInv, NEW p \in Pids, Processes(p) PROVE GenInv'
<1>0. Grown /\ ScriptsGrow /\ RecordsOf(p) /\ gen(p) \in Nat \ {0} /\ Next /\ p \in live
  <2>1. Next
    BY DEF Next
  <2>2. p \in live /\ RecordsOf(p)
    BY StepKinds
  <2> QED BY <2>1, <2>2, FilesGrow, ScriptsStay, LiveScript
<1>1. ASSUME NEW q \in Pids, NEW i \in DOMAIN file'[q] PROVE file'[q][i].gen \in DOMAIN scripts'[q]
  <2>1. i \in 1..Len(file'[q])
    BY <1>0 DEF Grown
  <2>2. CASE i \in 1..Len(file[q])
    <3>1. file'[q][i] = file[q][i] /\ i \in DOMAIN file[q]
      BY <1>0, <2>2 DEF Grown
    <3>2. file[q][i].gen \in 1..gen(q)
      BY <3>1, <1>0 DEF GenInv, ScriptsGrow
    <3> QED BY <3>1, <3>2, <1>0 DEF ScriptsGrow
  <2>3. CASE i \notin 1..Len(file[q])
    <3>1. q = p /\ file'[q][i].gen = gen(p)
      BY <2>1, <2>3, NewLine
    <3> QED BY <3>1, <1>0 DEF ScriptsGrow
  <2> QED BY <2>2, <2>3
<1>2. ASSUME NEW i \in DOMAIN shimFile' PROVE shimFile'[i].gen \in DOMAIN scripts'[shimFile'[i].pid]
  <2>0. \A r \in Record : r.pid \in Pids
    BY DEF Record
  <2>1. i \in 1..Len(shimFile') /\ Len(shimFile) \in Nat
    BY <1>0 DEF Grown
  <2>2. CASE i \in 1..Len(shimFile)
    <3>1. shimFile'[i] = shimFile[i] /\ i \in DOMAIN shimFile
      BY <1>0, <2>2 DEF Grown
    <3>2. shimFile[i].pid \in Pids
      <4>1. shimFile \in Seq(Record)
        BY DEF Base, TypeOK
      <4>2. shimFile[i] \in Record
        BY <4>1, <3>1
      <4> QED BY <4>2, <2>0
    <3>3. shimFile[i].gen \in 1..gen(shimFile[i].pid)
      BY <3>1, <3>2, <1>0 DEF GenInv, ScriptsGrow
    <3> QED BY <3>1, <3>2, <3>3, <1>0 DEF ScriptsGrow
  <2>3. CASE i \notin 1..Len(shimFile)
    <3>1. shimFile'[i].pid = p /\ shimFile'[i].gen = gen(p)
      BY <2>1, <2>3, <1>0 DEF RecordsOf
    <3> QED BY <3>1, <1>0 DEF ScriptsGrow
  <2> QED BY <2>2, <2>3
<1> QED BY <1>1, <1>2 DEF GenInv

LEMMA ExitNext == ASSUME Base, GenInv, ExitInv, NEW p \in Pids, Processes(p) PROVE ExitInv'
<1>0. Grown /\ ScriptsGrow /\ gen(p) \in Nat \ {0} /\ Next /\ p \in live
  <2>1. Next
    BY DEF Next
  <2>2. p \in live
    BY StepKinds
  <2> QED BY <2>1, <2>2, FilesGrow, ScriptsStay, LiveScript
\* One process.
<1> DEFINE Ends(q, i) == \E m \in i..Len(file[q]) : file[q][m].kind = "exit"
           Ends1(q, i) == \E m \in i..Len(file'[q]) : file'[q][m].kind = "exit"
<1>1. ASSUME NEW q \in Pids, NEW i \in 1..Len(file[q])
      PROVE  /\ file'[q][i] = file[q][i] /\ i \in 1..Len(file'[q]) /\ i \in DOMAIN file[q]
             /\ Ends(q, i) => Ends1(q, i)
             /\ file[q][i].gen \in 1..gen(q)
  <2>1. file'[q][i] = file[q][i] /\ i \in 1..Len(file'[q]) /\ i \in DOMAIN file[q]
    BY <1>0 DEF Grown
  <2>2. Ends(q, i) => Ends1(q, i)
    BY <1>0 DEF Grown
  <2>3. file[q][i].gen \in 1..gen(q)
    BY <2>1, <1>0 DEF GenInv, ScriptsGrow
  <2> QED BY <2>1, <2>2, <2>3
\* Which generation is the last.
<1>2. ASSUME NEW q \in Pids
      PROVE  \/ gen(q)' = gen(q) /\ (q \in live' <=> q \in live)
             \/ q \notin live /\ gen(q)' = gen(q) + 1 /\ q \in live' /\ q # p
             \/ q = p /\ Exits(p) /\ q \notin live' /\ gen(q)' = gen(q)
  <2>1. CASE Quiet(p)
    BY <2>1 DEF Quiet, gen
  <2>2. CASE Exits(p)
    BY <2>2 DEF Exits, gen
  <2>3. CASE \E c \in Pids : Forks(p, c)
    BY <2>3, <1>0 DEF Forks, gen
  <2>4. CASE \E k \in Pkgs : Starts(p, k)
    <3>1. live' = live /\ Len(scripts'[p]) = gen(p) /\ \A x \in Pids \ {p} : scripts'[x] = scripts[x]
      BY <2>4 DEF Starts
    <3> QED BY <3>1 DEF gen
  <2> QED BY <2>1, <2>2, <2>3, <2>4, StepKinds
\* A line that was there.
<1>3. ASSUME NEW q \in Pids, NEW i \in 1..Len(file[q])
      PROVE  /\ file'[q][i].gen # gen(q)' \/ q \notin live' => Ends1(q, i)
             /\ file'[q][i].kind = "exit" => file'[q][i].gen # gen(q)' \/ q \notin live'
  <2>0. gen(q) \in Nat
    BY <1>0 DEF ScriptsGrow
  <2>1. /\ file[q][i].gen # gen(q) \/ q \notin live => Ends(q, i)
        /\ file[q][i].kind = "exit" => file[q][i].gen # gen(q) \/ q \notin live
    BY <1>1 DEF ExitInv
  <2>2. CASE gen(q)' = gen(q) /\ (q \in live' <=> q \in live)
    <3> HIDE DEF Ends, Ends1
    <3> QED BY <1>1, <2>1, <2>2
  <2>3. CASE q \notin live /\ gen(q)' = gen(q) + 1 /\ q \in live'
    <3>1. file[q][i].gen # gen(q)'
      BY <1>1, <2>0, <2>3
    <3> HIDE DEF Ends, Ends1
    <3> QED BY <3>1, <1>1, <2>1, <2>3
  <2>4. CASE q = p /\ Exits(p) /\ q \notin live' /\ gen(q)' = gen(q)
    <3>1. Len(file'[p]) = Len(file[p]) + 1 /\ file'[p][Len(file[p]) + 1].kind = "exit"
      BY <2>4 DEF Exits, Wrote
    <3>2. Ends1(q, i)
      BY <3>1, <2>4, <1>0 DEF Grown
    <3> QED BY <3>2, <2>4
  <2> QED BY <1>2, <2>2, <2>3, <2>4
\* The line that is new.
<1>4. ASSUME NEW i \in 1..Len(file'[p]), i \notin 1..Len(file[p])
      PROVE  /\ i = Len(file[p]) + 1 /\ i = Len(file'[p]) /\ file'[p][i].gen = gen(p)
             /\ file'[p][i].gen # gen(p)' \/ p \notin live' => Ends1(p, i)
             /\ file'[p][i].kind = "exit" => file'[p][i].gen # gen(p)' \/ p \notin live'
  <2>1. i = Len(file[p]) + 1 /\ file'[p][i].gen = gen(p)
    BY <1>4, NewLine
  <2>2. i = Len(file'[p])
    <3>1. Len(file'[p]) \in 1..Len(file'[p]) /\ Len(file'[p]) \notin 1..Len(file[p])
      BY <1>4, <1>0 DEF Grown
    <3>2. Len(file'[p]) = Len(file[p]) + 1
      BY <3>1, NewLine
    <3> QED BY <3>2, <2>1
  <2>3. CASE Exits(p)
    <3>1. file'[p][i].kind = "exit" /\ p \notin live'
      BY <2>3, <1>4, NewLine DEF Exits
    <3>2. Ends1(p, i)
      BY <3>1, <2>2, <1>0 DEF Grown
    <3> QED BY <3>1, <3>2, <2>1, <2>2
  <2>4. CASE ~Exits(p)
    <3>1. gen(p)' = gen(p) /\ p \in live'
      BY <2>4, <1>2, <1>0
    <3>2. file'[p][i].kind # "exit"
      BY <2>4, <1>4, NewLine, StepKinds
    <3> QED BY <3>1, <3>2, <2>1, <2>2
  <2> QED BY <2>3, <2>4
<1>5. ASSUME NEW q \in Pids, NEW i \in DOMAIN file'[q], NEW j \in i + 1..Len(file'[q])
      PROVE  /\ file'[q][i].gen # file'[q][j].gen => \E m \in i..(j - 1) : file'[q][m].kind = "exit"
             /\ file'[q][i].kind = "exit" => file'[q][i].gen # file'[q][j].gen
  <2>1. /\ Len(file'[q]) \in Nat /\ Len(file[q]) \in Nat /\ i \in 1..Len(file'[q]) /\ j \in 1..Len(file'[q]) /\ i < j
        /\ Len(file[q]) <= Len(file'[q])
    BY <1>0 DEF Grown
  <2>2. CASE j \in 1..Len(file[q])
    <3>1. i \in 1..Len(file[q]) /\ j \in i + 1..Len(file[q]) /\ \A m \in i..(j - 1) : m \in 1..Len(file[q])
      BY <2>1, <2>2
    <3>2. file'[q][i] = file[q][i] /\ file'[q][j] = file[q][j] /\ \A m \in i..(j - 1) : file'[q][m] = file[q][m]
      BY <3>1, <2>2, <1>1
    <3>3. /\ file[q][i].gen # file[q][j].gen => \E m \in i..(j - 1) : file[q][m].kind = "exit"
          /\ file[q][i].kind = "exit" => file[q][i].gen # file[q][j].gen
      BY <3>1, <1>1 DEF ExitInv
    <3> QED BY <3>2, <3>3
  <2>3. CASE j \notin 1..Len(file[q])
    <3>1. q = p /\ j = Len(file[p]) + 1 /\ file'[q][j].gen = gen(p)
      BY <2>1, <2>3, NewLine
    <3>2. i \in 1..Len(file[p]) /\ j - 1 = Len(file[p])
      BY <2>1, <3>1
    <3>3. file'[p][i] = file[p][i] /\ i \in DOMAIN file[p]
      BY <3>2, <1>1
    <3>4. /\ file[p][i].gen # gen(p) => Ends(p, i)
          /\ file[p][i].kind = "exit" => file[p][i].gen # gen(p)
      BY <3>3, <1>0 DEF ExitInv
    <3>5. Ends(p, i) => \E m \in i..(j - 1) : file'[p][m].kind = "exit"
      <4>1. \A m \in i..Len(file[p]) : m \in 1..Len(file[p])
        BY <2>1, <3>2
      <4>2. \A m \in i..Len(file[p]) : file'[p][m] = file[p][m]
        BY <4>1, <1>1
      <4> QED BY <4>2, <3>2
    <3> HIDE DEF Ends
    <3> QED BY <3>1, <3>3, <3>4, <3>5
  <2> QED BY <2>2, <2>3
<1>6. ASSUME NEW q \in Pids, NEW i \in DOMAIN file'[q]
      PROVE  /\ file'[q][i].gen # gen(q)' \/ q \notin live' => Ends1(q, i)
             /\ file'[q][i].kind = "exit" => file'[q][i].gen # gen(q)' \/ q \notin live'
  <2>1. i \in 1..Len(file'[q])
    BY <1>0 DEF Grown
  <2>2. CASE i \notin 1..Len(file[q])
    <3>1. q = p
      BY <2>1, <2>2, NewLine
    <3> HIDE DEF Ends1
    <3> QED BY <2>1, <2>2, <3>1, <1>4
  <2> HIDE DEF Ends1
  <2> QED BY <2>2, <1>3
<1> QED BY <1>5, <1>6 DEF ExitInv
LEMMA CloneNext == ASSUME Base, GenInv, CloneInv, NEW p \in Pids, Processes(p) PROVE CloneInv'
<1>0. /\ Grown /\ ScriptsGrow /\ gen(p) \in Nat \ {0} /\ Next /\ p \in live /\ Base'
      /\ scriptOf(p) = scripts[p][gen(p)] /\ Root \in Pids
  <2>1. Next
    BY DEF Next
  <2>2. p \in live
    BY StepKinds
  <2> QED BY <2>1, <2>2, FilesGrow, ScriptsStay, LiveScript, NextBase, RootAssumption
<1> SUFFICES ASSUME NEW q \in Pids, NEW i \in DOMAIN file'[q], NEW c \in Pids,
                    file'[q][i].kind = "clone", file'[q][i].child = c
             PROVE  /\ c \notin {q, Root}
                    /\ q = Root \/ wrote(q, i)' # None
                    /\ \E h \in DOMAIN scripts'[c] : wrote(q, i)' # None => scripts'[c][h] = wrote(q, i)'
  BY DEF CloneInv, IsClone
<1>1. i \in 1..Len(file'[q])
  BY <1>0 DEF Grown
<1>2. CASE i \in 1..Len(file[q])
  <2>1. file'[q][i] = file[q][i] /\ i \in DOMAIN file[q]
    BY <1>0, <1>2 DEF Grown
  <2>2. /\ c \notin {q, Root}
        /\ q = Root \/ wrote(q, i) # None
        /\ \E h \in DOMAIN scripts[c] : wrote(q, i) # None => scripts[c][h] = wrote(q, i)
    BY <2>1 DEF CloneInv, IsClone
  <2>3. file[q][i].gen \in 1..gen(q)
    BY <2>1, <1>0 DEF GenInv, ScriptsGrow
  <2>4. wrote(q, i)' = wrote(q, i) \/ wrote(q, i) = None
    BY <2>1, <2>3, <1>0 DEF wrote, ScriptsGrow
  <2>5. PICK h \in 1..gen(c) : wrote(q, i) # None => scripts[c][h] = wrote(q, i)
    BY <2>2, <1>0 DEF ScriptsGrow
  <2>6. h \in DOMAIN scripts'[c] /\ (wrote(q, i) # None => scripts'[c][h] = wrote(q, i))
    BY <2>5, <1>0 DEF ScriptsGrow
  <2>7. CASE wrote(q, i) # None
    BY <2>2, <2>4, <2>6, <2>7
  <2>8. CASE wrote(q, i) = None
    <3>1. q = Root
      BY <2>2, <2>8
    <3>2. scripts'[Root] = <<None>> /\ gen(q) = 1
      BY <3>1, <1>0 DEF Base, RootInv, gen
    <3>3. wrote(q, i)' = None
      BY <2>1, <2>3, <3>1, <3>2 DEF wrote
    <3> QED BY <2>2, <2>6, <3>1, <3>3
  <2> QED BY <2>7, <2>8
<1>3. CASE i \notin 1..Len(file[q])
  <2>1. q = p /\ file'[p][i].gen = gen(p)
    BY <1>1, <1>3, NewLine
  <2>2. Forks(p, c)
    <3>1. ~Quiet(p) /\ ~Exits(p) /\ \A k \in Pkgs : ~Starts(p, k)
      BY <1>1, <1>3, NewLine
    <3>2. PICK d \in Pids : Forks(p, d)
      BY <3>1, StepKinds
    <3>3. d = c
      BY <3>2, <2>1, <1>1, <1>3, NewLine
    <3> QED BY <3>2, <3>3
  <2>3. c \notin live /\ c # p /\ Root \in live
    BY <2>2, <1>0 DEF Forks, Base, RootInv
  <2>4. scripts'[p] = scripts[p]
    BY <2>2, <2>3 DEF Forks
  <2>5. wrote(q, i)' = scriptOf(p)
    BY <2>1, <2>4, <1>0 DEF wrote
  <2>6. gen(c) + 1 \in DOMAIN scripts'[c] /\ scripts'[c][gen(c) + 1] = scriptOf(p)
    BY <2>2, <1>0 DEF Forks, ScriptsGrow
  <2> QED BY <2>1, <2>2, <2>3, <2>5, <2>6 DEF Forks
<1> QED BY <1>2, <1>3

LEMMA FreshNext == ASSUME Base, GenInv, FreshInv, NEW p \in Pids, Processes(p) PROVE FreshInv'
<1>0. /\ Grown /\ ScriptsGrow /\ gen(p) \in Nat \ {0} /\ Next /\ p \in live /\ Base' /\ Base
      /\ scriptOf(p) = scripts[p][gen(p)] /\ Root \in Pids /\ live \subseteq Pids /\ live' \subseteq Pids
  <2>1. Next
    BY DEF Next
  <2>2. p \in live
    BY StepKinds
  <2> QED BY <2>1, <2>2, FilesGrow, ScriptsStay, LiveScript, NextBase, RootAssumption DEF Base, TypeOK
<1>s. ASSUME NEW q \in live' PROVE scriptOf(q)' = scripts'[q][Len(scripts'[q])] /\ gen(q)' = Len(scripts'[q])
  <2>1. ScriptsNow'
    BY <1>0, NowRuns, PTL
  <2> QED BY <2>1 DEF ScriptsNow, gen
<1> SUFFICES ASSUME NEW q \in live' \ {Root}, scriptOf(q)' = None
             PROVE  /\ \E i \in DOMAIN file'[Root] : file'[Root][i].kind = "clone" /\ file'[Root][i].child = q
                    /\ \A i \in DOMAIN file'[q] : file'[q][i].gen = gen(q)' => file'[q][i].kind # "spawn"
  BY DEF FreshInv, IsClone
<1>1. q \in Pids /\ DOMAIN file'[q] = 1..Len(file'[q])
  BY <1>0 DEF Grown
\* The process was there.
<1>2. ASSUME q \in live, scripts'[q] = scripts[q]
      PROVE  /\ \E i \in DOMAIN file'[Root] : file'[Root][i].kind = "clone" /\ file'[Root][i].child = q
             /\ \A i \in DOMAIN file'[q] : file'[q][i].gen = gen(q)' => file'[q][i].kind # "spawn"
  <2>0. gen(q)' = gen(q) /\ scriptOf(q) = None
    BY <1>2, <1>s, <1>0, LiveScript DEF gen
  <2>1. PICK i \in DOMAIN file[Root] : file[Root][i].kind = "clone" /\ file[Root][i].child = q
    BY <1>2, <2>0 DEF FreshInv, IsClone
  <2>2. i \in DOMAIN file'[Root] /\ file'[Root][i].kind = "clone" /\ file'[Root][i].child = q
    BY <2>1, <1>0 DEF Grown
  <2>3. ASSUME NEW j \in DOMAIN file'[q], file'[q][j].gen = gen(q)' PROVE file'[q][j].kind # "spawn"
    <3>1. CASE j \in 1..Len(file[q])
      <4>1. file'[q][j] = file[q][j] /\ j \in DOMAIN file[q]
        BY <3>1, <1>0, <1>1 DEF Grown
      <4> QED BY <4>1, <2>0, <2>3, <1>2 DEF FreshInv
    <3>2. CASE j \notin 1..Len(file[q])
      <4>1. j \in 1..Len(file'[q])
        BY <1>1
      <4>2. q = p
        BY <4>1, <3>2, <1>1, NewLine
      <4>3. \A k \in Pkgs : ~Starts(p, k)
        <5>1. ASSUME NEW k \in Pkgs, Starts(p, k) PROVE FALSE
          <6>1. scripts'[p][gen(p)] = k
            BY <5>1 DEF Starts
          <6>2. k # None
            BY NoneAssumption
          <6> QED BY <6>1, <6>2, <1>2, <2>0, <4>2, <1>0
        <5> QED BY <5>1
      <4> QED BY <4>1, <4>2, <4>3, <3>2, <2>0, <1>1, NewLine, StepKinds
    <3> QED BY <3>1, <3>2
  <2> QED BY <2>2, <2>3
<1>3. CASE Quiet(p) \/ Exits(p)
  <2>1. q \in live /\ scripts'[q] = scripts[q]
    BY <1>3 DEF Quiet, Exits
  <2> QED BY <2>1, <1>2
<1>4. ASSUME NEW c \in Pids, Forks(p, c)
      PROVE  /\ \E i \in DOMAIN file'[Root] : file'[Root][i].kind = "clone" /\ file'[Root][i].child = q
             /\ \A i \in DOMAIN file'[q] : file'[q][i].gen = gen(q)' => file'[q][i].kind # "spawn"
  <2>1. CASE q # c
    <3>1. q \in live /\ scripts'[q] = scripts[q]
      BY <1>4, <2>1, <1>1 DEF Forks
    <3> QED BY <3>1, <1>2
  <2>2. CASE q = c
    <3>1. scriptOf(p) = None /\ gen(q)' = gen(q) + 1
      BY <1>4, <2>2, <1>s DEF Forks
    <3>2. p = Root
      BY <3>1, <1>4 DEF Forks
    <3>3. PICK l \in Line : Wrote(p, l) /\ l.kind = "clone" /\ l.child = c
      BY <1>4 DEF Forks
    <3>4. /\ Len(file[p]) + 1 \in DOMAIN file'[Root] /\ file'[Root][Len(file[p]) + 1].kind = "clone"
          /\ file'[Root][Len(file[p]) + 1].child = q
      BY <3>2, <3>3, <2>2, <1>0 DEF Wrote, Grown
    <3>5. ASSUME NEW i \in DOMAIN file'[q] PROVE file'[q][i].gen # gen(q)'
      <4>1. c # p /\ c \notin live
        BY <1>4, <1>0 DEF Forks
      <4>2. i \in 1..Len(file[q])
        BY <4>1, <2>2, <1>1, NewLine
      <4>3. file'[q][i] = file[q][i] /\ file[q][i].gen \in 1..gen(q) /\ gen(q) \in Nat
        BY <4>2, <1>0, <1>1 DEF Grown, GenInv, ScriptsGrow
      <4> QED BY <4>3, <3>1
    <3> QED BY <3>4, <3>5
  <2> QED BY <2>1, <2>2
<1>5. ASSUME NEW k \in Pkgs, Starts(p, k)
      PROVE  /\ \E i \in DOMAIN file'[Root] : file'[Root][i].kind = "clone" /\ file'[Root][i].child = q
             /\ \A i \in DOMAIN file'[q] : file'[q][i].gen = gen(q)' => file'[q][i].kind # "spawn"
  <2>1. q # p
    <3>1. SUFFICES ASSUME q = p PROVE FALSE
      OBVIOUS
    <3>2. scriptOf(q)' = k
      BY <3>1, <1>5, <1>s DEF Starts
    <3> QED BY <3>2, NoneAssumption
  <2>2. q \in live /\ scripts'[q] = scripts[q]
    BY <1>5, <2>1, <1>1 DEF Starts
  <2> QED BY <2>2, <1>2
<1> QED BY <1>3, <1>4, <1>5, StepKinds

LEMMA OriginNext == ASSUME Base, GenInv, FreshInv, OriginInv, NEW p \in Pids, Processes(p) PROVE OriginInv'
<1>0. /\ Grown /\ ScriptsGrow /\ gen(p) \in Nat \ {0} /\ Next /\ p \in live /\ Base'
      /\ scriptOf(p) = scripts[p][gen(p)] /\ Root \in Pids /\ Base
  <2>1. Next
    BY DEF Next
  <2>2. p \in live
    BY StepKinds
  <2> QED BY <2>1, <2>2, FilesGrow, ScriptsStay, LiveScript, NextBase, RootAssumption
<1> SUFFICES ASSUME NEW q \in Pids, NEW g \in DOMAIN scripts'[q], scripts'[q][g] # None
             PROVE  Started(q, g)' \/ Forked(q, g)'
  BY DEF OriginInv
<1>1. g \in 1..Len(scripts'[q]) /\ gen(q) \in Nat /\ Len(scripts'[q]) \in Nat
  BY <1>0 DEF ScriptsGrow
\* A script that ran before.
<1>2. ASSUME g \in 1..gen(q), scripts[q][g] # None PROVE Started(q, g)' \/ Forked(q, g)'
  <2>0. scripts'[q][g] = scripts[q][g] /\ g \in DOMAIN scripts[q]
    BY <1>2, <1>0 DEF ScriptsGrow
  <2>1. CASE Started(q, g)
    <3>1. PICK i \in DOMAIN file[Root] : file[Root][i].kind = "clone" /\ file[Root][i].child = q
      BY <2>1 DEF Started, IsClone
    <3>2. i \in DOMAIN file'[Root] /\ file'[Root][i].kind = "clone" /\ file'[Root][i].child = q
      BY <3>1, <1>0 DEF Grown
    <3>3. PICK j \in DOMAIN file[q] :
              /\ file[q][j].kind = "spawn" /\ file[q][j].gen = g
              /\ file[q][j].inWorkDir = (scripts[q][g] = RootPkg)
              /\ \A m \in 1..(j - 1) : file[q][m].gen = g => file[q][m].kind # "spawn"
      BY <2>1 DEF Started
    <3>j. j \in 1..Len(file[q]) /\ Len(file[q]) \in Nat
      BY <3>3, <1>0 DEF Grown
    <3>m. \A m \in 1..(j - 1) : m \in 1..Len(file[q])
      BY <3>j
    <3>4. j \in DOMAIN file'[q] /\ file'[q][j] = file[q][j] /\ \A m \in 1..(j - 1) : file'[q][m] = file[q][m]
      BY <3>j, <3>m, <1>0 DEF Grown
    <3>5. Started(q, g)'
      BY <2>0, <3>2, <3>3, <3>4 DEF Started, IsClone
    <3> QED BY <3>5
  <2>2. CASE Forked(q, g)
    <3>1. PICK f \in Pids \ {Root} : \E i \in DOMAIN file[f] : IsClone(f, i, q) /\ wrote(f, i) = scripts[q][g]
      BY <2>2 DEF Forked
    <3>2. PICK i \in DOMAIN file[f] : file[f][i].kind = "clone" /\ file[f][i].child = q /\ wrote(f, i) = scripts[q][g]
      BY <3>1 DEF IsClone
    <3>i. i \in 1..Len(file[f])
      BY <3>2, <1>0 DEF Grown
    <3>3. i \in DOMAIN file'[f] /\ file'[f][i] = file[f][i]
      BY <3>i, <1>0 DEF Grown
    <3>4. file[f][i].gen \in 1..gen(f)
      BY <3>2, <1>0 DEF GenInv, ScriptsGrow
    <3>5. wrote(f, i)' = scripts'[q][g]
      BY <3>2, <3>3, <3>4, <2>0, <1>0, <1>2 DEF wrote, ScriptsGrow
    <3>6. Forked(q, g)'
      BY <3>2, <3>3, <3>5 DEF Forked, IsClone
    <3> QED BY <3>6
  <2> QED BY <2>0, <2>1, <2>2, <1>2 DEF OriginInv
<1>3. CASE Quiet(p) \/ Exits(p)
  <2>1. scripts' = scripts
    BY <1>3 DEF Quiet, Exits
  <2>2. g \in 1..gen(q) /\ scripts[q][g] # None
    BY <2>1, <1>1 DEF gen
  <2> QED BY <2>2, <1>2
<1>4. ASSUME NEW c \in Pids, Forks(p, c) PROVE Started(q, g)' \/ Forked(q, g)'
  <2>1. CASE q # c \/ g \in 1..gen(c)
    <3>1. g \in 1..gen(q) /\ scripts[q][g] # None
      BY <1>1, <1>4, <2>1 DEF Forks, gen
    <3> QED BY <3>1, <1>2
  <2>2. CASE q = c /\ g \notin 1..gen(c)
    <3>1. g = gen(c) + 1 /\ scripts'[q][g] = scriptOf(p)
      BY <1>1, <1>4, <2>2 DEF Forks
    <3>2. p # Root
      <4>1. scripts[Root] = <<None>>
        BY <1>0 DEF Base, RootInv
      <4>2. p = Root => scriptOf(p) = None
        BY <4>1, <1>0 DEF gen
      <4> QED BY <4>2, <3>1
    <3>3. c # p
      BY <1>4, <1>0 DEF Forks
    <3>4. PICK l \in Line : Wrote(p, l) /\ l.kind = "clone" /\ l.child = c /\ l.gen = gen(p)
      BY <1>4 DEF Forks
    <3>5. \E i \in DOMAIN file'[p] : file'[p][i] = l
      <4>1. Len(file[p]) + 1 \in DOMAIN file'[p]
        BY <3>4, <1>0 DEF Wrote, Grown
      <4> QED BY <4>1, <3>4 DEF Wrote
    <3>6. PICK i \in DOMAIN file'[p] : file'[p][i] = l
      BY <3>5
    <3>7. scripts'[p] = scripts[p]
      BY <1>4, <3>3 DEF Forks
    <3>8. wrote(p, i)' = scripts'[q][g]
      BY <3>1, <3>4, <3>6, <3>7, <1>0 DEF wrote
    <3>9. Forked(q, g)'
      BY <2>2, <3>2, <3>4, <3>6, <3>8 DEF Forked, IsClone
    <3> QED BY <3>9
  <2> QED BY <2>1, <2>2
<1>5. ASSUME NEW k \in Pkgs, Starts(p, k) PROVE Started(q, g)' \/ Forked(q, g)'
  <2>1. CASE q # p \/ g # gen(p)
    <3>1. g \in 1..gen(q) /\ scripts[q][g] # None
      BY <1>1, <1>5, <2>1 DEF Starts, gen
    <3> QED BY <3>1, <1>2
  <2>2. CASE q = p /\ g = gen(p)
    <3>1. scripts'[q][g] = k /\ p # Root /\ scriptOf(p) = None
      BY <1>5, <2>2 DEF Starts
    <3>2. /\ \E i \in DOMAIN file[Root] : file[Root][i].kind = "clone" /\ file[Root][i].child = p
          /\ \A i \in DOMAIN file[p] : file[p][i].gen = gen(p) => file[p][i].kind # "spawn"
      BY <3>1, <1>0 DEF FreshInv, IsClone
    <3>c. PICK i \in DOMAIN file[Root] : file[Root][i].kind = "clone" /\ file[Root][i].child = p
      BY <3>2
    <3>3. \E m \in DOMAIN file'[Root] : file'[Root][m].kind = "clone" /\ file'[Root][m].child = q
      <4>1. i \in 1..Len(file[Root])
        BY <3>c, <1>0 DEF Grown
      <4>2. i \in DOMAIN file'[Root] /\ file'[Root][i] = file[Root][i]
        BY <4>1, <1>0 DEF Grown
      <4> QED BY <3>c, <4>2, <2>2
    <3>4. PICK l \in Line : Wrote(p, l) /\ l.kind = "spawn" /\ l.gen = gen(p) /\ l.inWorkDir = (k = RootPkg)
      BY <1>5 DEF Starts
    <3>5. \E j \in DOMAIN file'[p] : j = Len(file[p]) + 1 /\ file'[p][j] = l
      <4>1. Len(file[p]) + 1 \in DOMAIN file'[p]
        BY <3>4, <1>0 DEF Wrote, Grown
      <4> QED BY <4>1, <3>4 DEF Wrote
    <3>6. PICK j \in DOMAIN file'[p] : j = Len(file[p]) + 1 /\ file'[p][j] = l
      BY <3>5
    <3>7. \A m \in 1..(j - 1) : file'[p][m].gen = g => file'[p][m].kind # "spawn"
      <4>1. \A m \in 1..(j - 1) : m \in DOMAIN file[p] /\ file'[p][m] = file[p][m]
        BY <3>6, <1>0 DEF Grown
      <4> QED BY <4>1, <3>2, <2>2
    <3>8. Started(q, g)'
      BY <2>2, <3>1, <3>3, <3>4, <3>6, <3>7 DEF Started, IsClone
    <3> QED BY <3>8
  <2> QED BY <2>1, <2>2
<1> QED BY <1>3, <1>4, <1>5, StepKinds
LEMMA ParentNext == ASSUME Base, ParentInv, NEW p \in Pids, Processes(p) PROVE ParentInv'
<1>0. /\ p \in live /\ Base' /\ Base /\ Root \in live /\ live \subseteq Pids /\ live' \subseteq Pids
      /\ scripts[Root] = <<None>> /\ None \notin Pids
      /\ ppid \in [Pids -> Pids \cup {None}] /\ ppid' \in [Pids -> Pids \cup {None}]
  <2>1. Next
    BY DEF Next
  <2>2. p \in live
    BY StepKinds
  <2> QED BY <2>1, <2>2, NextBase, NoneAssumption DEF Base, TypeOK, RootInv
<1>s. /\ \A q \in live' : scriptOf(q)' = scripts'[q][Len(scripts'[q])]
      /\ \A q \in live : scriptOf(q) = scripts[q][gen(q)] /\ gen(q) = Len(scripts[q])
  <2>1. ScriptsNow'
    BY <1>0, NowRuns, PTL
  <2>2. ScriptsNow
    BY <1>0, NowRuns
  <2> QED BY <2>1, <2>2 DEF ScriptsNow, gen
<1>k. \A q \in live \cap live' : scripts'[q] = scripts[q] => scriptOf(q)' = scriptOf(q)
  BY <1>s
<1> SUFFICES ASSUME NEW q \in live', ppid'[q] # None
             PROVE  ppid'[q] \in live' /\ (ppid'[q] = Root \/ (scriptOf(q)' # None /\ scriptOf(ppid[q])' = scriptOf(q)'))
  BY DEF ParentInv
<1> DEFINE f == ppid'[q]
<1>1. q \in Pids /\ f \in Pids
  BY <1>0
<1>2. \A x \in live : ppid[x] # None =>
        ppid[x] \in live /\ (ppid[x] = Root \/ (scriptOf(x) # None /\ scriptOf(ppid[x]) = scriptOf(x)))
  BY DEF ParentInv
<1>4. CASE Quiet(p)
  <2>1. live' = live /\ ppid' = ppid /\ scripts' = scripts
    BY <1>4 DEF Quiet
  <2>2. f \in live /\ (f = Root \/ (scriptOf(q) # None /\ scriptOf(f) = scriptOf(q)))
    BY <2>1, <1>2
  <2>3. scriptOf(q)' = scriptOf(q) /\ scriptOf(ppid[q])' = scriptOf(ppid[q])
    BY <2>1, <2>2, <1>s
  <2> QED BY <2>1, <2>2, <2>3
<1>5. CASE Exits(p)
  <2>1. live' = live \ {p} /\ scripts' = scripts /\ ppid'[q] = IF ppid[q] = p THEN None ELSE ppid[q]
    BY <1>5, <1>1 DEF Exits
  <2>2. q \in live /\ f = ppid[q] /\ f # p
    BY <2>1
  <2>3. f \in live /\ (f = Root \/ (scriptOf(q) # None /\ scriptOf(f) = scriptOf(q)))
    BY <2>2, <1>2
  <2>4. f \in live'
    BY <2>1, <2>2, <2>3
  <2> HIDE DEF f
  <2>5. scriptOf(q)' = scriptOf(q)
    BY <2>1, <2>2, <1>s
  <2>6. scripts'[f][Len(scripts'[f])] = scriptOf(f)
    BY <2>1, <2>3, <1>s
  <2>7. scriptOf(ppid[q])' = scripts'[ppid'[q]][Len(scripts'[ppid'[q]])]
    BY <2>4, <1>s DEF f
  <2> QED BY <2>3, <2>4, <2>5, <2>6, <2>7 DEF f
<1>6. ASSUME NEW c \in Pids, Forks(p, c)
      PROVE  f \in live' /\ (f = Root \/ (scriptOf(q)' # None /\ scriptOf(ppid[q])' = scriptOf(q)'))
  <2>1. /\ c \notin live /\ live' = live \cup {c} /\ \A x \in Pids \ {c} : scripts'[x] = scripts[x] /\ ppid'[x] = ppid[x]
        /\ Len(scripts'[c]) = gen(c) + 1 /\ scripts'[c][gen(c) + 1] = scriptOf(p) /\ ppid'[c] = p
        /\ (p = Root \/ scriptOf(p) # None)
    BY <1>6 DEF Forks
  <2>2. CASE q = c
    <3>1. f = p /\ scriptOf(q)' = scriptOf(p) /\ p \in live' /\ p # c
      BY <2>1, <2>2, <1>0, <1>s
    <3>2. scripts'[p][Len(scripts'[p])] = scriptOf(p)
      BY <2>1, <3>1, <1>0, <1>s
    <3>3. scriptOf(ppid[q])' = scripts'[ppid'[q]][Len(scripts'[ppid'[q]])]
      BY <3>1, <1>s
    <3> QED BY <2>1, <3>1, <3>2, <3>3
  <2>3. CASE q # c
    <3>1. q \in live /\ f = ppid[q]
      BY <2>1, <2>3, <1>1
    <3>2. f \in live /\ f # c /\ (f = Root \/ (scriptOf(q) # None /\ scriptOf(f) = scriptOf(q)))
      BY <3>1, <2>1, <1>2
    <3>3. scriptOf(q)' = scriptOf(q)
      BY <2>1, <2>3, <3>1, <1>k, <1>1
    <3>4. f \in live' /\ scripts'[f] = scripts[f]
      BY <3>2, <2>1, <1>1
    <3> HIDE DEF f
    <3>5. scripts'[f][Len(scripts'[f])] = scriptOf(f)
      BY <3>2, <3>4, <1>s
    <3>6. scriptOf(ppid[q])' = scripts'[ppid'[q]][Len(scripts'[ppid'[q]])]
      BY <3>4, <1>s DEF f
    <3> QED BY <3>2, <3>3, <3>4, <3>5, <3>6 DEF f
  <2> QED BY <2>2, <2>3
<1>7. ASSUME NEW k \in Pkgs, Starts(p, k)
      PROVE  f \in live' /\ (f = Root \/ (scriptOf(q)' # None /\ scriptOf(ppid[q])' = scriptOf(q)'))
  <2>1. /\ p # Root /\ scriptOf(p) = None /\ live' = live /\ ppid' = ppid
        /\ \A x \in Pids \ {p} : scripts'[x] = scripts[x]
    BY <1>7 DEF Starts
  <2>2. f \in live /\ (f = Root \/ (scriptOf(q) # None /\ scriptOf(f) = scriptOf(q)))
    BY <2>1, <1>2
  <2>3. CASE f = Root
    BY <2>1, <2>2, <2>3
  <2>4. CASE f # Root
    <3>1. q # p /\ f # p
      BY <2>1, <2>2, <2>4
    <3>2. scriptOf(q)' = scriptOf(q)
      BY <2>1, <3>1, <1>k, <1>1
    <3>3. f \in live' /\ scripts'[f] = scripts[f]
      BY <2>1, <2>2, <3>1, <1>1
    <3> HIDE DEF f
    <3>4. scripts'[f][Len(scripts'[f])] = scriptOf(f)
      BY <2>2, <3>3, <1>s
    <3>5. scriptOf(ppid[q])' = scripts'[ppid'[q]][Len(scripts'[ppid'[q]])]
      BY <3>3, <1>s DEF f
    <3> QED BY <2>2, <2>4, <3>2, <3>3, <3>4, <3>5 DEF f
  <2> QED BY <2>3, <2>4
<1> HIDE DEF f
<1> QED BY <1>4, <1>5, <1>6, <1>7, StepKinds DEF f

LEMMA InitTree == Init => TreeInv
<1> SUFFICES ASSUME Init PROVE TreeInv
  OBVIOUS
<1>0. RootInv /\ Base /\ live = {Root} /\ Root \in Pids
  BY InitBase, RootAssumption DEF Base, Init
<1>1. \A p \in Pids : DOMAIN file[p] = {} /\ DOMAIN shimFile = {}
  BY DEF Init
<1>2. GenInv /\ ExitInv /\ CloneInv /\ FreshInv
  BY <1>0, <1>1 DEF GenInv, ExitInv, CloneInv, FreshInv
<1>3. OriginInv
  <2> SUFFICES ASSUME NEW p \in Pids, NEW g \in DOMAIN scripts[p], scripts[p][g] # None PROVE FALSE
    BY DEF OriginInv
  <2>1. scripts[p] = IF p = Root THEN <<None>> ELSE <<>>
    BY DEF Init
  <2> QED BY <2>1
<1>4. ParentInv
  BY <1>0 DEF Init, ParentInv
<1> QED BY <1>0, <1>2, <1>3, <1>4 DEF TreeInv

LEMMA TreeNext == Base /\ TreeInv /\ [Next]_vars => TreeInv'
<1> SUFFICES ASSUME Base, TreeInv, [Next]_vars PROVE TreeInv'
  OBVIOUS
<1>0. Base' /\ RootInv'
  BY NextBase DEF Base
<1>1. ASSUME NEW p \in Pids, Processes(p) PROVE TreeInv'
  BY <1>0, <1>1, GenNext, ExitNext, CloneNext, OriginNext, FreshNext, ParentNext DEF TreeInv
<1>2. CASE UNCHANGED treeVars
  <2>1. /\ live' = live /\ ppid' = ppid /\ scripts' = scripts /\ file' = file /\ shimFile' = shimFile
    BY <1>2 DEF treeVars
  <2>2. GenInv' /\ ExitInv'
    BY <2>1 DEF TreeInv, GenInv, ExitInv, gen
  <2>3. CloneInv'
    BY <2>1 DEF TreeInv, CloneInv, IsClone, wrote
  <2>4. OriginInv'
    BY <2>1 DEF TreeInv, OriginInv, Started, Forked, IsClone, wrote
  <2>5. FreshInv' /\ ParentInv'
    BY <2>1 DEF TreeInv, FreshInv, ParentInv, IsClone, scriptOf, gen
  <2> QED BY <1>0, <2>2, <2>3, <2>4, <2>5 DEF TreeInv
<1> QED BY <1>1, <1>2, TakesTree DEF Next, Done, vars, treeVars
-----------------------------------------------------------------------------
(* A dependency is not taken for the repository.                           *)

\* Every event is of a generation of its pid.
Good(e) == e.gen \in DOMAIN scripts[e.pid]
EventsInv ==
    /\ \A r \in reports : Good(r.event)
    /\ \A e \in deferredNullAttribEvents : Good(e)
    /\ \A p \in Pids : \A i \in 1..Len(straceExecsByPid[p]) : Good(straceExecsByPid[p][i].event)

\* An event stays good.
LEMMA GoodStays ==
    ASSUME Base, [Next]_vars, NEW e, e.pid \in Pids, Good(e)
    PROVE  e.gen \in DOMAIN scripts'[e.pid]
<1>1. ScriptsGrow
  BY ScriptsStay
<1> QED BY <1>1 DEF ScriptsGrow, Good

\* What a sample is after a line.
LEMMA SamplesGrow ==
    ASSUME Base, [Next]_vars, NEW p \in Pids, NEW i \in 1..Len(straceExecsByPid'[p])
    PROVE  \/ i \in 1..Len(straceExecsByPid[p]) /\ straceExecsByPid'[p][i] = straceExecsByPid[p][i]
           \/ TakeSpawn(p) /\ straceExecsByPid'[p][i] =
                [event |-> thisEvent(p), pkg |-> IF attribute(p) # None THEN attribute(p) ELSE usableSnapshot(p)]
<1> DEFINE T == [event : Event, pkg : Pkgs \cup {Unattributed}]
<1>0. straceExecsByPid \in [Pids -> Seq(T)]
  BY DEF Base, TypeOK
<1>1. CASE straceExecsByPid'[p] = straceExecsByPid[p]
  BY <1>1
<1>2. ASSUME NEW q \in Pids, TakeSpawn(q), straceExecsByPid'[p] # straceExecsByPid[p]
      PROVE  \/ i \in 1..Len(straceExecsByPid[p]) /\ straceExecsByPid'[p][i] = straceExecsByPid[p][i]
             \/ TakeSpawn(p) /\ straceExecsByPid'[p][i] =
                  [event |-> thisEvent(p), pkg |-> IF attribute(p) # None THEN attribute(p) ELSE usableSnapshot(p)]
  <2> DEFINE e == [event |-> thisEvent(q), pkg |-> IF attribute(q) # None THEN attribute(q) ELSE usableSnapshot(q)]
             s == straceExecsByPid[p]
  <2>1. straceExecsByPid' = [straceExecsByPid EXCEPT ![q] = Append(@, e)]
    BY <1>2 DEF TakeSpawn
  <2>2. q = p
    BY <2>1, <1>2, <1>0
  <2>3. straceExecsByPid'[p] = Append(s, e)
    BY <2>1, <2>2, <1>0
  <2>4. s \in Seq(T)
    BY <1>0
  <2> HIDE DEF s, e, T
  <2>5. Len(s) \in Nat /\ Len(Append(s, e)) = Len(s) + 1 /\ Append(s, e)[Len(s) + 1] = e
        /\ \A j \in 1..Len(s) : Append(s, e)[j] = s[j]
    BY <2>4
  <2>6. i \in 1..Len(s) \/ i = Len(s) + 1
    BY <2>3, <2>5
  <2> QED BY <2>2, <2>3, <2>5, <2>6, <1>2 DEF s, e
<1>3. ASSUME NEW q \in Pids, Takes(q), ~TakeSpawn(q) PROVE straceExecsByPid' = straceExecsByPid
  BY <1>3 DEF Takes, TakeFailed, TakeRead, TakeClone, TakeExit, countVars
<1>4. (\E q \in Pids : Processes(q)) \/ TakeStartup \/ TakeShimEvent \/ Finish \/ UNCHANGED vars
        => straceExecsByPid' = straceExecsByPid
  BY TakesRecord, ProcessDispatch DEF Finish, vars, DispatchVars, countVars
<1> QED BY <1>1, <1>2, <1>3, <1>4 DEF Next, Done, Takes

\* A bypass is a sample.
LEMMA Bypassed ==
    ASSUME Base, NEW p \in Pids, NEW b \in ToSet(bypasses(p))
    PROVE  \E i \in 1..Len(straceExecsByPid[p]) : b = straceExecsByPid[p][i]
<1> DEFINE T == [event : Event, pkg : Pkgs \cup {Unattributed}]
           s == straceExecsByPid[p]
           k == shimExecCountByPid[p]
           n == Len(s)
           u == SubSeq(s, k + 1, n)
<1>1. s \in Seq(T) /\ k \in Nat
  BY DEF Base, TypeOK
<1> HIDE DEF s, k, T
<1>2. n \in Nat
  BY <1>1
<1> HIDE DEF n
<1>3. /\ Len(u) = IF k + 1 <= n THEN n - k ELSE 0
      /\ DOMAIN u = 1..Len(u) /\ \A i \in 1..Len(u) : u[i] = s[k + i]
  BY <1>1, <1>2 DEF n
<1>4. u = bypasses(p)
  BY DEF bypasses, s, k, n
<1> HIDE DEF u
<1>5. PICK i \in DOMAIN u : b = u[i]
  BY <1>4 DEF ToSet
<1>6. k + i \in 1..n /\ b = s[k + i]
  BY <1>1, <1>2, <1>3, <1>5
<1> QED BY <1>6 DEF s, n

\* A report is an old one, or of an event that was taken, parked or sampled.
LEMMA ReportsFrom ==
    ASSUME Base, [Next]_vars, NEW r \in reports'
    PROVE  \/ r \in reports
           \/ \E p \in Pids : Takes(p) /\ r.event = thisEvent(p) /\ r.how = "live"
           \/ /\ TakeShimEvent /\ r.event = [pid |-> NextRecord.pid, gen |-> NextRecord.gen, from |-> "shim", at |-> shimTaken + 1]
              /\ r.how = "shim"
           \/ Finish /\ r.event \in deferredNullAttribEvents /\ r.how = "parked"
                     /\ r.pkg = resolveDeferredAttribution(r.event.pid)
           \/ Finish /\ r.how = "bypass" /\ \E p \in Pids : \E i \in 1..Len(straceExecsByPid[p]) :
                            r.event = straceExecsByPid[p][i].event /\ r.pkg = straceExecsByPid[p][i].pkg
<1>1. ASSUME NEW p \in Pids, Takes(p), r \notin reports PROVE r.event = thisEvent(p) /\ r.how = "live"
  BY <1>1 DEF Takes, TakeSpawn, TakeFailed, TakeRead, TakeClone, TakeExit, EmitsSpawn, Reports, outVars
<1>2. CASE TakeShimEvent
  BY <1>2 DEF TakeShimEvent, Reports
<1>3. CASE Finish
  <2>1. \/ r \in reports
        \/ r \in {[event |-> e, pkg |-> resolveDeferredAttribution(e.pid), how |-> "parked"] :
                     e \in {d \in deferredNullAttribEvents : resolveDeferredAttribution(d.pid) # None}}
        \/ \E p \in Pids : \E b \in ToSet(bypasses(p)) : r = [event |-> b.event, pkg |-> b.pkg, how |-> "bypass"]
    BY <1>3 DEF Finish
  <2>2. ASSUME NEW p \in Pids, NEW b \in ToSet(bypasses(p))
        PROVE  \E i \in 1..Len(straceExecsByPid[p]) : b = straceExecsByPid[p][i]
    BY Bypassed
  <2>3. r \in {[event |-> e, pkg |-> resolveDeferredAttribution(e.pid), how |-> "parked"] :
                  e \in {d \in deferredNullAttribEvents : resolveDeferredAttribution(d.pid) # None}}
          => r.event \in deferredNullAttribEvents /\ r.how = "parked" /\ r.pkg = resolveDeferredAttribution(r.event.pid)
    OBVIOUS
  <2>4. ASSUME NEW p \in Pids, NEW b \in ToSet(bypasses(p)), r = [event |-> b.event, pkg |-> b.pkg, how |-> "bypass"]
        PROVE  r.how = "bypass" /\ \E i \in 1..Len(straceExecsByPid[p]) :
                            r.event = straceExecsByPid[p][i].event /\ r.pkg = straceExecsByPid[p][i].pkg
    BY <2>2, <2>4
  <2> QED BY <1>3, <2>1, <2>3, <2>4
<1>4. (\E q \in Pids : Processes(q)) \/ TakeStartup \/ UNCHANGED vars => reports' = reports
  BY ProcessDispatch DEF TakeStartup, vars, DispatchVars, outVars
<1> QED BY <1>1, <1>2, <1>3, <1>4 DEF Next, Done

LEMMA EventsNext == Base /\ GenInv /\ EventsInv /\ [Next]_vars => EventsInv'
<1> SUFFICES ASSUME Base, GenInv, EventsInv, [Next]_vars PROVE EventsInv'
  OBVIOUS
<1>0. /\ \A r \in reports : r.event.pid \in Pids
      /\ \A e \in deferredNullAttribEvents : e.pid \in Pids
      /\ \A p \in Pids : \A i \in 1..Len(straceExecsByPid[p]) : straceExecsByPid[p][i].event.pid \in Pids
  <2> DEFINE T == [event : Event, pkg : Pkgs \cup {Unattributed}]
  <2>1. \A e \in Event : e.pid \in Pids
    BY DEF Event
  <2>2. \A r \in Report : r.event \in Event
    BY DEF Report
  <2>3. \A t \in T : t.event \in Event
    OBVIOUS
  <2>4. reports \subseteq Report /\ deferredNullAttribEvents \subseteq Event /\ straceExecsByPid \in [Pids -> Seq(T)]
    BY DEF Base, TypeOK
  <2> HIDE DEF T
  <2>5. \A p \in Pids : \A i \in 1..Len(straceExecsByPid[p]) : straceExecsByPid[p][i] \in T
    BY <2>4
  <2> QED BY <2>1, <2>2, <2>3, <2>4, <2>5
<1>1. \A p \in Pids : Takes(p) => thisEvent(p).pid = p /\ Good(thisEvent(p)) /\ scripts' = scripts
  <2> SUFFICES ASSUME NEW p \in Pids, Takes(p)
               PROVE  thisEvent(p).pid = p /\ Good(thisEvent(p)) /\ scripts' = scripts
    OBVIOUS
  <2>1. Untaken(p)
    BY DEF Takes, TakeSpawn, TakeFailed, TakeRead, TakeClone, TakeExit, Take
  <2>2. /\ thisEvent(p).pid = p /\ thisEvent(p).gen = NextLine(p).gen /\ taken[p] + 1 \in DOMAIN file[p]
    BY <2>1, EventType DEF Base
  <2>3. NextLine(p).gen \in DOMAIN scripts[p]
    BY <2>2 DEF GenInv, NextLine
  <2>4. scripts' = scripts
    BY TakesOne DEF treeVars
  <2> QED BY <2>2, <2>3, <2>4 DEF Good
<1>g. ASSUME NEW e, e.pid \in Pids, Good(e) PROVE e.gen \in DOMAIN scripts'[e.pid]
  BY <1>g, GoodStays
<1>3. ASSUME NEW r \in reports' PROVE r.event.gen \in DOMAIN scripts'[r.event.pid]
  <2>1. CASE r \in reports
    BY <2>1, <1>0, <1>g DEF EventsInv
  <2>2. ASSUME NEW p \in Pids, Takes(p), r.event = thisEvent(p) PROVE r.event.gen \in DOMAIN scripts'[r.event.pid]
    BY <2>2, <1>1 DEF Good
  <2>3. CASE TakeShimEvent /\ r.event = [pid |-> NextRecord.pid, gen |-> NextRecord.gen, from |-> "shim", at |-> shimTaken + 1]
    <3>1. shimTaken < Len(shimFile) /\ scripts' = scripts /\ shimTaken \in Nat
      BY <2>3, TakesRecord DEF treeVars
    <3>2. shimTaken + 1 \in DOMAIN shimFile
      BY <3>1 DEF Base, TypeOK
    <3>3. NextRecord.gen \in DOMAIN scripts[NextRecord.pid]
      BY <3>2 DEF GenInv, NextRecord
    <3> QED BY <2>3, <3>1, <3>3
  <2>4. CASE r.event \in deferredNullAttribEvents
    BY <2>4, <1>0, <1>g DEF EventsInv
  <2>5. ASSUME NEW p \in Pids, NEW i \in 1..Len(straceExecsByPid[p]), r.event = straceExecsByPid[p][i].event
        PROVE  r.event.gen \in DOMAIN scripts'[r.event.pid]
    BY <2>5, <1>0, <1>g DEF EventsInv
  <2> QED BY <2>1, <2>2, <2>3, <2>4, <2>5, ReportsFrom
<1>4. ASSUME NEW e \in deferredNullAttribEvents' PROVE e.gen \in DOMAIN scripts'[e.pid]
  <2>1. CASE e \in deferredNullAttribEvents
    BY <2>1, <1>0, <1>g DEF EventsInv
  <2>2. CASE e \notin deferredNullAttribEvents
    <3>1. PICK p \in Pids : Takes(p)
      <4>1. (\E q \in Pids : Processes(q)) \/ UNCHANGED vars => UNCHANGED deferredNullAttribEvents
        BY ProcessDispatch DEF vars, DispatchVars, outVars
      <4>2. Finish => deferredNullAttribEvents' = {}
        BY DEF Finish
      <4> QED BY <2>2, <4>1, <4>2, TakesRecord DEF Next, Done
    <3>2. e = thisEvent(p)
      BY <2>2, <3>1 DEF Takes, TakeSpawn, TakeFailed, TakeRead, TakeClone, TakeExit, EmitsSpawn, Parks, outVars
    <3> QED BY <3>1, <3>2, <1>1 DEF Good
  <2> QED BY <2>1, <2>2
<1>5. ASSUME NEW p \in Pids, NEW i \in 1..Len(straceExecsByPid'[p])
      PROVE  straceExecsByPid'[p][i].event.gen \in DOMAIN scripts'[straceExecsByPid'[p][i].event.pid]
  <2>1. CASE i \in 1..Len(straceExecsByPid[p]) /\ straceExecsByPid'[p][i] = straceExecsByPid[p][i]
    BY <2>1, <1>0, <1>g DEF EventsInv
  <2>2. CASE TakeSpawn(p) /\ straceExecsByPid'[p][i].event = thisEvent(p)
    BY <2>2, <1>1 DEF Good, Takes
  <2>3. ASSUME NEW pkg, straceExecsByPid'[p][i] = [event |-> thisEvent(p), pkg |-> pkg]
        PROVE  straceExecsByPid'[p][i].event = thisEvent(p)
    BY <2>3
  <2> QED BY <2>1, <2>2, <2>3, SamplesGrow
<1> QED BY <1>3, <1>4, <1>5 DEF EventsInv, Good
-----------------------------------------------------------------------------
(* What the taken lines say of reuse, of forks and of where a pid began.   *)

\* What a line does to the state of the lines.
LEMMA TakesLines ==
    ASSUME Base, NEW p \in Pids, Takes(p)
    PROVE  /\ pidSawExit \subseteq pidSawExit' /\ pidRecycled \subseteq pidRecycled'
           /\ childParentReused \subseteq childParentReused'
           /\ NextLine(p).kind = "exit" => p \in pidSawExit'
           /\ \A q \in Pids \ {p} : execCwd'[q] = execCwd[q]
           /\ IF NextLine(p).kind = "spawn"
              THEN /\ p \in pidSawExit => p \in pidRecycled'
                   /\ execCwd'[p] = IF execCwd[p] # "none" THEN execCwd[p]
                                    ELSE IF NextLine(p).inWorkDir THEN "workDir" ELSE "elsewhere"
              ELSE execCwd' = execCwd
           /\ IF NextLine(p).kind = "clone"
              THEN LET c == NextLine(p).child
                   IN /\ c \in Pids /\ childParent'[c] = p /\ \A d \in Pids \ {c} : childParent'[d] = childParent[d]
                      /\ childParent[c] \notin {None, p} => c \in childParentReused'
              ELSE childParent' = childParent
<1>0. /\ execCwd \in [Pids -> {"none", "workDir", "elsewhere"}] /\ childParent \in [Pids -> Pids \cup {None}]
  BY DEF Base, TypeOK
<1>1. CASE TakeSpawn(p)
  BY <1>0, <1>1 DEF TakeSpawn, Take
<1>2. CASE TakeClone(p)
  <2>1. NextLine(p).child \in Pids
    <3>1. Untaken(p) /\ taken[p] \in Nat /\ file[p] \in Seq(Line)
      BY <1>2 DEF TakeClone, Take, Base, TypeOK
    <3>2. file[p][taken[p] + 1] \in Line
      BY <3>1 DEF Untaken
    <3> QED BY <3>2 DEF NextLine, Line
  <2>2. /\ NextLine(p).kind = "clone" /\ childParent' = [childParent EXCEPT ![NextLine(p).child] = p]
        /\ childParentReused' = childParentReused \cup {q \in {NextLine(p).child} : childParent[NextLine(p).child] \notin {None, p}}
        /\ UNCHANGED <<pidSawExit, pidRecycled, execCwd>>
    BY <1>2 DEF TakeClone, Take
  <2> QED BY <1>0, <2>1, <2>2
<1>3. CASE TakeExit(p)
  BY <1>0, <1>3 DEF TakeExit, Take
<1>4. CASE TakeFailed(p) \/ TakeRead(p)
  BY <1>4 DEF TakeFailed, TakeRead, Take, lineVars
<1> QED BY <1>1, <1>2, <1>3, <1>4 DEF Takes

\* The lines taken so far, before and after a line of p.
LEMMA TakesPlaces ==
    ASSUME Base, TakenInv, NEW p \in Pids, Takes(p)
    PROVE  /\ \A q \in Pids : taken[q] \in Nat
           /\ \A q \in Pids \ {p} : taken'[q] = taken[q]
           /\ taken'[p] = taken[p] + 1 /\ file' = file
           /\ \A i \in 1..taken'[p] : i \in 1..taken[p] \/ (i = taken[p] + 1 /\ file[p][i] = NextLine(p))
<1>1. taken \in [Pids -> Nat]
  BY DEF Base, TypeOK
<1>2. taken'[p] = taken[p] + 1 /\ file' = file /\ \A q \in Pids \ {p} : taken'[q] = taken[q]
  BY TakesOne DEF treeVars
<1> QED BY <1>1, <1>2 DEF NextLine

LEMMA RecycledNext == ASSUME Base, TakenInv, RecycledInv, NotYetInv, NEW p \in Pids, Takes(p) PROVE RecycledInv' /\ NotYetInv'
<1> DEFINE seen == pidSawExit'
           again == pidRecycled'
           cwd == execCwd'
           n == taken[p]
<1>0. /\ execCwd \in [Pids -> {"none", "workDir", "elsewhere"}] /\ n \in Nat
  BY DEF Base, TypeOK
<1>1. /\ \A q \in Pids : taken[q] \in Nat
      /\ \A q \in Pids \ {p} : taken'[q] = taken[q]
      /\ taken'[p] = n + 1 /\ file' = file
      /\ \A i \in 1..taken'[p] : i \in 1..n \/ (i = n + 1 /\ file[p][i] = NextLine(p))
  BY TakesPlaces
<1>2. /\ pidSawExit \subseteq seen /\ pidRecycled \subseteq again
      /\ NextLine(p).kind = "exit" => p \in seen
      /\ \A q \in Pids \ {p} : cwd[q] = execCwd[q]
      /\ IF NextLine(p).kind = "spawn"
         THEN /\ p \in pidSawExit => p \in again
              /\ cwd[p] = IF execCwd[p] # "none" THEN execCwd[p]
                          ELSE IF NextLine(p).inWorkDir THEN "workDir" ELSE "elsewhere"
         ELSE cwd = execCwd
  BY TakesLines
<1> HIDE DEF seen, again, cwd, n
<1>3. ASSUME NEW q \in Pids, NEW i \in 1..taken'[q]
      PROVE  /\ file[q][i].kind = "exit" => q \in seen
             /\ q \notin again /\ file[q][i].kind = "spawn" =>
                   \A j \in 1..(i - 1) : file[q][j].kind # "exit"
             /\ file[q][i].kind = "spawn" /\ (\A j \in 1..(i - 1) : file[q][j].kind # "spawn") =>
                   cwd[q] = IF file[q][i].inWorkDir THEN "workDir" ELSE "elsewhere"
  <2>1. CASE q # p
    BY <2>1, <1>1, <1>2 DEF RecycledInv
  <2>2. CASE q = p /\ i \in 1..n
    <3>1. /\ file[p][i].kind = "exit" => p \in pidSawExit
          /\ p \notin pidRecycled /\ file[p][i].kind = "spawn" => \A j \in 1..(i - 1) : file[p][j].kind # "exit"
          /\ file[p][i].kind = "spawn" /\ (\A j \in 1..(i - 1) : file[p][j].kind # "spawn") =>
                execCwd[p] = IF file[p][i].inWorkDir THEN "workDir" ELSE "elsewhere"
      BY <2>2 DEF RecycledInv, n
    <3>2. file[p][i].kind = "spawn" /\ (\A j \in 1..(i - 1) : file[p][j].kind # "spawn") => cwd[p] = execCwd[p]
      BY <3>1, <1>2
    <3> QED BY <2>2, <3>1, <3>2, <1>2
  <2>3. CASE q = p /\ i = n + 1 /\ file[p][i] = NextLine(p)
    <3>1. \A j \in 1..(i - 1) : j \in 1..n
      BY <2>3, <1>0
    <3>2. (\A j \in 1..n : file[p][j].kind # "spawn") => execCwd[p] = "none"
      BY DEF NotYetInv, n
    <3>3. p \notin pidSawExit => \A j \in 1..n : file[p][j].kind # "exit"
      BY DEF RecycledInv, n
    <3>4. \A j \in 1..n : j \in 1..(i - 1)
      BY <2>3, <1>0
    <3> QED BY <2>3, <3>1, <3>2, <3>3, <3>4, <1>2
  <2> QED BY <2>1, <2>2, <2>3, <1>1
<1>4. ASSUME NEW q \in Pids PROVE cwd[q] = "none" \/ \E i \in 1..taken'[q] : file[q][i].kind = "spawn"
  <2>1. CASE q # p
    BY <2>1, <1>1, <1>2 DEF NotYetInv
  <2>2. CASE q = p /\ NextLine(p).kind = "spawn"
    <3>1. n + 1 \in 1..taken'[p] /\ file[p][n + 1] = NextLine(p)
      BY <1>0, <1>1
    <3> QED BY <2>2, <3>1
  <2>3. CASE q = p /\ NextLine(p).kind # "spawn"
    <3>1. \A i \in 1..n : i \in 1..taken'[p]
      BY <1>0, <1>1
    <3>2. execCwd[p] = "none" \/ \E i \in 1..n : file[p][i].kind = "spawn"
      BY DEF NotYetInv, n
    <3> QED BY <2>3, <3>1, <3>2, <1>2
  <2> QED BY <2>1, <2>2, <2>3
<1>5. file' = file
  BY <1>1
<1> QED BY <1>3, <1>4, <1>5 DEF RecycledInv, NotYetInv, seen, again, cwd

LEMMA EdgeNext == ASSUME Base, TakenInv, EdgeInv, NEW p \in Pids, Takes(p) PROVE EdgeInv'
<1>0. None \notin Pids /\ childParent \in [Pids -> Pids \cup {None}]
  BY NoneAssumption DEF Base, TypeOK
<1>1. /\ \A q \in Pids \ {p} : taken'[q] = taken[q]
      /\ file' = file
      /\ \A i \in 1..taken'[p] : i \in 1..taken[p] \/ (i = taken[p] + 1 /\ file[p][i] = NextLine(p))
  BY TakesPlaces
<1>2. /\ childParentReused \subseteq childParentReused'
      /\ IF NextLine(p).kind = "clone"
         THEN LET c == NextLine(p).child
              IN /\ c \in Pids /\ childParent'[c] = p /\ \A d \in Pids \ {c} : childParent'[d] = childParent[d]
                 /\ childParent[c] \notin {None, p} => c \in childParentReused'
         ELSE childParent' = childParent
  BY TakesLines
<1>3. ASSUME NEW q \in Pids, NEW c \in Pids, NEW i \in 1..taken'[q], IsClone(q, i, c)
      PROVE  childParent'[c] # None /\ (c \notin childParentReused' => childParent'[c] = q)
  <2>1. CASE i \in 1..taken[q]
    <3>1. childParent[c] # None /\ (c \notin childParentReused => childParent[c] = q)
      BY <2>1, <1>3 DEF EdgeInv
    <3> QED BY <3>1, <1>0, <1>2
  <2>2. CASE q = p /\ file[p][i] = NextLine(p)
    BY <2>2, <1>0, <1>2, <1>3 DEF IsClone
  <2> QED BY <2>1, <2>2, <1>1
<1> QED BY <1>1, <1>3 DEF EdgeInv, IsClone

LEMMA LineNext == Base /\ TakenInv /\ LineInv /\ [Next]_vars => LineInv'
<1> SUFFICES ASSUME Base, TakenInv, LineInv, [Next]_vars PROVE LineInv'
  OBVIOUS
<1>1. ASSUME NEW p \in Pids, Takes(p) PROVE LineInv'
  BY <1>1, RecycledNext, EdgeNext DEF LineInv
<1>2. CASE taken' = taken /\ UNCHANGED lineVars
  <2>0. Grown /\ \A q \in Pids : taken[q] \in Nat /\ taken[q] <= Len(file[q])
    BY FilesGrow DEF TakenInv, Base, TypeOK
  <2>1. \A q \in Pids : \A i \in 1..taken[q] : file'[q][i] = file[q][i] /\ \A j \in 1..(i - 1) : file'[q][j] = file[q][j]
    <3>1. ASSUME NEW q \in Pids, NEW i \in 1..taken[q]
          PROVE  i \in 1..Len(file[q]) /\ \A j \in 1..(i - 1) : j \in 1..Len(file[q])
      BY <2>0 DEF Grown
    <3> QED BY <2>0, <3>1 DEF Grown
  <2>2. RecycledInv' /\ NotYetInv'
    BY <1>2, <2>1 DEF LineInv, RecycledInv, NotYetInv, lineVars
  <2>3. EdgeInv'
    BY <1>2, <2>1 DEF LineInv, EdgeInv, IsClone, lineVars
  <2> QED BY <2>2, <2>3 DEF LineInv
<1>3. (\E p \in Pids : Processes(p)) \/ TakeStartup \/ TakeShimEvent \/ Finish \/ UNCHANGED vars
        => taken' = taken /\ UNCHANGED lineVars
  BY ProcessDispatch, TakesRecord DEF Finish, vars, DispatchVars
<1> QED BY <1>1, <1>2, <1>3 DEF Next, Done
-----------------------------------------------------------------------------
(* RootNeverForged.                                                        *)

\* The end comes when every line was taken.
AllTaken == ended => \A p \in Pids : ~Untaken(p)

LEMMA AllTakenNext == Base /\ AllTaken /\ [Next]_vars => AllTaken'
<1> SUFFICES ASSUME Base, AllTaken, [Next]_vars, ended' PROVE \A p \in Pids : ~Untaken(p)'
  BY DEF AllTaken
<1>1. CASE ended
  <2>1. taken' = taken /\ file' = file
    BY <1>1, EndedStays DEF vars, treeVars
  <2> QED BY <1>1, <2>1 DEF AllTaken, Untaken
<1>2. CASE Finish
  BY <1>2 DEF Finish, Untaken, treeVars
<1>3. ~ended /\ ~Finish => ~ended'
  BY ProcessDispatch, TakesOne, TakesRecord DEF Next, Done, vars, DispatchVars
<1> QED BY <1>1, <1>2, <1>3

\* The first exec of a process that was not reused is in the directory of its script.
LEMMA StartedElsewhere ==
    ASSUME Base, GenInv, ExitInv, RecycledInv, NEW q \in Pids, ~Untaken(q), q \notin pidRecycled,
           NEW g \in DOMAIN scripts[q], scripts[q][g] # RootPkg, Started(q, g)
    PROVE  execCwd[q] = "elsewhere"
<1>1. PICK i \in DOMAIN file[q] :
          /\ file[q][i].kind = "spawn" /\ file[q][i].gen = g
          /\ file[q][i].inWorkDir = (scripts[q][g] = RootPkg)
          /\ \A j \in 1..(i - 1) : file[q][j].gen = g => file[q][j].kind # "spawn"
  BY DEF Started
<1>2. DOMAIN file[q] = 1..Len(file[q]) /\ Len(file[q]) \in Nat /\ taken[q] \in Nat
  BY DEF Base, TypeOK
<1>3. i \in 1..taken[q] /\ i \in Nat /\ \A j \in 1..(i - 1) : j \in DOMAIN file[q] /\ i \in j + 1..Len(file[q])
  BY <1>2 DEF Untaken
<1>4. \A j \in 1..(i - 1) : file[q][j].kind # "exit"
  BY <1>1, <1>3 DEF RecycledInv
<1>5. ASSUME NEW j \in 1..(i - 1) PROVE file[q][j].gen = g
  <2>1. file[q][j].gen # file[q][i].gen => \E m \in j..(i - 1) : file[q][m].kind = "exit"
    BY <1>3 DEF ExitInv
  <2>2. \A m \in j..(i - 1) : m \in 1..(i - 1)
    BY <1>3
  <2> QED BY <1>1, <1>4, <2>1, <2>2
<1>6. execCwd[q] = IF file[q][i].inWorkDir THEN "workDir" ELSE "elsewhere"
  BY <1>1, <1>3, <1>5 DEF RecycledInv
<1>7. ~file[q][i].inWorkDir
  BY <1>1
<1> QED BY <1>6, <1>7

\* A pid the climb anchors ran nobody's script but the repository's.
LEMMA Anchored ==
    ASSUME Base, TakenInv, TreeInv, LineInv, \A q \in Pids : ~Untaken(q),
           NEW p \in Pids, isRepoRootAnchored(p), NEW g \in DOMAIN scripts[p]
    PROVE  scripts[p][g] \in {None, RootPkg}
<1> DEFINE foreign == {q \in Pids : \E h \in DOMAIN scripts[q] : scripts[q][h] \notin {None, RootPkg}}
           ok == {q \in Pids : execCwd[q] # "elsewhere"}
<1>1. Root \notin foreign
  BY DEF TreeInv, RootInv
<1>2. ASSUME NEW q \in (foreign \cap ok) \ (reused \cup {Root}), childParent[q] # None
      PROVE  childParent[q] \in foreign
  <2>1. PICK h \in DOMAIN scripts[q] : scripts[q][h] \notin {None, RootPkg}
    OBVIOUS
  <2>2. q \in Pids /\ q \notin childParentReused /\ q \notin pidRecycled /\ execCwd[q] # "elsewhere"
    BY DEF reused
  <2>3. ~Started(q, h)
    BY <2>1, <2>2, StartedElsewhere DEF TreeInv, LineInv
  <2>4. Forked(q, h)
    BY <2>1, <2>2, <2>3 DEF TreeInv, OriginInv
  <2>5. PICK f \in Pids \ {Root} : \E i \in DOMAIN file[f] : IsClone(f, i, q) /\ wrote(f, i) = scripts[q][h]
    BY <2>4 DEF Forked
  <2>6. PICK i \in DOMAIN file[f] : IsClone(f, i, q) /\ wrote(f, i) = scripts[q][h]
    BY <2>5
  <2>7. DOMAIN file[f] = 1..Len(file[f]) /\ Len(file[f]) \in Nat /\ taken[f] \in Nat /\ ~Untaken(f)
    BY DEF Base, TypeOK
  <2>8. i \in 1..taken[f]
    BY <2>7 DEF Untaken
  <2>9. childParent[q] = f
    BY <2>2, <2>6, <2>8 DEF LineInv, EdgeInv
  <2>10. file[f][i].gen \in DOMAIN scripts[f] /\ scripts[f][file[f][i].gen] = scripts[q][h]
    BY <2>6 DEF TreeInv, GenInv, wrote
  <2> QED BY <2>1, <2>9, <2>10
<1>3. foreign \in SUBSET Pids
  OBVIOUS
<1>4. \A S \in SUBSET Pids :
          /\ p \in S
          /\ \A q \in (S \cap ok) \ (reused \cup {Root}) : childParent[q] # None => childParent[q] \in S
          => Root \in S
  BY DEF isRepoRootAnchored, climbs
<1> HIDE DEF foreign, ok
<1>5. p \notin foreign
  BY <1>1, <1>2, <1>3, <1>4
<1> QED BY <1>5 DEF foreign

RootedInv == Base /\ TakenInv /\ TreeInv /\ LineInv /\ EventsInv /\ AllTaken

LEMMA RootedStart == Init => RootedInv
<1> SUFFICES ASSUME Init PROVE RootedInv
  OBVIOUS
<1>1. Base /\ TreeInv
  BY InitBase, InitTree
<1>2. TakenInv
  BY DEF Init, TakenInv
<1>3. LineInv
  BY DEF Init, LineInv, RecycledInv, NotYetInv, EdgeInv
<1>4. EventsInv
  BY DEF Init, EventsInv
<1>5. AllTaken
  BY DEF Init, AllTaken
<1> QED BY <1>1, <1>2, <1>3, <1>4, <1>5 DEF RootedInv

LEMMA RootedNext == RootedInv /\ [Next]_vars => RootedInv'
<1> SUFFICES ASSUME RootedInv, [Next]_vars PROVE RootedInv'
  OBVIOUS
<1>1. Base' /\ TreeInv' /\ TakenInv' /\ LineInv' /\ EventsInv' /\ AllTaken'
  BY NextBase, TreeNext, TakenNext, LineNext, EventsNext, AllTakenNext DEF RootedInv, TreeInv
<1> QED BY <1>1 DEF RootedInv

\* A report under the repository's package that isRepoRootAnchored accepts is of a process which
\* ran the repository's own script, however the scripts of dependencies name themselves: the
\* pids that ran another script are closed under the climb, and the package manager is not one.
THEOREM RootNeverForgedHolds == Spec => []RootNeverForged
<1>1. RootedInv => RootNeverForged
  <2> SUFFICES ASSUME RootedInv, ended, NEW r \in reports, isRepoRootAnchored(r.event.pid)
               PROVE  truth(r.event) \in {RootPkg, None}
    BY DEF RootNeverForged
  <2>1. r.event.pid \in Pids
    BY DEF RootedInv, Base, TypeOK, Report, Event
  <2>2. r.event.gen \in DOMAIN scripts[r.event.pid]
    BY DEF RootedInv, EventsInv, Good
  <2>3. \A q \in Pids : ~Untaken(q)
    BY DEF RootedInv, AllTaken
  <2>4. scripts[r.event.pid][r.event.gen] \in {None, RootPkg}
    BY <2>1, <2>2, <2>3, Anchored DEF RootedInv
  <2> QED BY <2>4 DEF truth
<1> QED BY <1>1, RootedStart, RootedNext, PTL DEF Spec
-----------------------------------------------------------------------------
(* Names.                                                                  *)

\* Without forgery a process and its records have the names of what it runs.
LEMMA ImageNext ==
    ASSUME Base, NameInv, "forge" \notin used', NEW p \in Pids, Processes(p)
    PROVE  \A q \in live' : {image'[q].env, image'[q].canon} \subseteq {None, Last(scripts'[q])}
<1>0. /\ image \in [Pids -> Image] /\ scripts \in [Pids -> Seq(Name)] /\ live \subseteq Pids /\ p \in live
      /\ gen(p) \in Nat \ {0} /\ scriptOf(p) = scripts[p][gen(p)]
  BY StepKinds, LiveScript DEF Base, TypeOK
<1>1. "forge" \notin used
  BY DEF Processes, Fork, Start, Exec, Fail, Read, ShimEvent, Exit, Step
<1>2. \A q \in live : image[q].env \in {None, scriptOf(q)} /\ image[q].canon \in {None, scriptOf(q)}
  BY <1>1 DEF NameInv
<1>3. ASSUME NEW c \in Pids, Fork(p, c)
      PROVE  \A q \in live' : {image'[q].env, image'[q].canon} \subseteq {None, Last(scripts'[q])}
  <2>1. /\ c \notin live /\ live' = live \cup {c} /\ image' = [image EXCEPT ![c] = image[p]]
        /\ scripts' = [scripts EXCEPT ![c] = Append(@, scriptOf(p))]
    BY <1>3 DEF Fork
  <2>2. ASSUME NEW q \in live PROVE {image'[q].env, image'[q].canon} \subseteq {None, Last(scripts'[q])}
    <3>1. image'[q] = image[q] /\ scripts'[q] = scripts[q]
      BY <2>1, <1>0
    <3> QED BY <3>1, <1>2 DEF scriptOf
  <2>3. {image'[c].env, image'[c].canon} \subseteq {None, Last(scripts'[c])}
    <3> DEFINE old == scripts[c]
               k == scriptOf(p)
    <3>1. image'[c] = image[p] /\ scripts'[c] = Append(old, k)
      BY <2>1, <1>0
    <3>2. old \in Seq(Name) /\ k \in Name
      BY <1>0, LiveScript
    <3> HIDE DEF old
    <3>3. Last(Append(old, k)) = k
      BY <3>2 DEF Last
    <3> QED BY <3>1, <3>3, <1>0, <1>2
  <2> QED BY <2>1, <2>2, <2>3
<1>4. ASSUME NEW k \in Pkgs, Start(p, k)
      PROVE  \A q \in live' : {image'[q].env, image'[q].canon} \subseteq {None, Last(scripts'[q])}
  <2>1. /\ live' = live /\ image' = [image EXCEPT ![p] = [env |-> k, canon |-> k, shim |-> TRUE]]
        /\ scripts' = [scripts EXCEPT ![p][gen(p)] = k]
    BY <1>4 DEF Start
  <2>2. ASSUME NEW q \in live \ {p} PROVE {image'[q].env, image'[q].canon} \subseteq {None, Last(scripts'[q])}
    <3>1. image'[q] = image[q] /\ scripts'[q] = scripts[q]
      BY <2>1, <1>0
    <3> QED BY <3>1, <1>2 DEF scriptOf
  <2>3. {image'[p].env, image'[p].canon} \subseteq {None, Last(scripts'[p])}
    <3>1. image'[p].env = k /\ image'[p].canon = k
      BY <2>1, <1>0
    <3> DEFINE old == scripts[p]
               n == gen(p)
    <3>2. scripts'[p] = [old EXCEPT ![n] = k]
      BY <2>1, <1>0
    <3>3. old \in Seq(Name) /\ n = Len(old) /\ n \in Nat \ {0}
      BY <1>0 DEF gen
    <3> HIDE DEF old, n
    <3>4. Len([old EXCEPT ![n] = k]) = n /\ [old EXCEPT ![n] = k][n] = k
      BY <3>3
    <3>5. Last(scripts'[p]) = k
      BY <3>2, <3>4 DEF Last
    <3> QED BY <3>1, <3>5
  <2> QED BY <2>1, <2>2, <2>3
<1>5. ASSUME NEW how \in Steps, NEW inWorkDir \in BOOLEAN, Exec(p, how, inWorkDir)
      PROVE  \A q \in live' : {image'[q].env, image'[q].canon} \subseteq {None, Last(scripts'[q])}
  <2>1. how # "forge"
    BY <1>5 DEF Exec, Step
  <2>2. /\ live' = live /\ scripts' = scripts
        /\ \E env \in {None, image[p].env}, shim \in BOOLEAN :
              image' = [image EXCEPT ![p] = [env |-> env, canon |-> env, shim |-> shim]]
    <3>1. image[p].shim \in BOOLEAN
      BY <1>0 DEF Image
    <3> DEFINE env == CASE how \in {"scrub", "rawscrub"} -> None
                        [] how = "forge" -> RootPkg
                        [] OTHER -> image[p].env
    <3>2. env \in {None, image[p].env}
      BY <2>1
    <3>3. /\ live' = live /\ scripts' = scripts
          /\ image' = [image EXCEPT ![p] = [env |-> env, canon |-> env, shim |-> image[p].shim /\ how # "rawscrub"]]
      BY <1>5 DEF Exec
    <3> HIDE DEF env
    <3> QED BY <3>1, <3>2, <3>3
  <2>3. PICK env \in {None, image[p].env}, shim \in BOOLEAN :
            image' = [image EXCEPT ![p] = [env |-> env, canon |-> env, shim |-> shim]]
    BY <2>2
  <2>4. image'[p].env = env /\ image'[p].canon = env /\ \A q \in live \ {p} : image'[q] = image[q]
    BY <2>3, <1>0
  <2> QED BY <2>2, <2>4, <1>0, <1>2 DEF scriptOf
<1>6. CASE Fail(p) \/ Read(p) \/ \E kind \in Steps : ShimEvent(p, kind)
  BY <1>2, <1>6 DEF Fail, Read, ShimEvent, scriptOf
<1>7. CASE Exit(p)
  BY <1>2, <1>7 DEF Exit, scriptOf
<1> QED BY <1>3, <1>4, <1>5, <1>6, <1>7 DEF Processes

LEMMA NameNext == Base /\ GenInv /\ NameInv /\ [Next]_vars => NameInv'
<1> SUFFICES ASSUME Base, GenInv, NameInv, [Next]_vars, "forge" \notin used'
             PROVE  /\ \A p \in live' : {image'[p].env, image'[p].canon} \subseteq {None, Last(scripts'[p])}
                    /\ \A i \in DOMAIN shimFile' :
                          shimFile'[i].npm \in {None, scripts'[shimFile'[i].pid][shimFile'[i].gen]}
  BY DEF NameInv, scriptOf
<1>1. CASE UNCHANGED treeVars
  BY <1>1 DEF NameInv, treeVars, scriptOf
<1>2. ASSUME NEW p \in Pids, Processes(p)
      PROVE  \A i \in DOMAIN shimFile' :
                 shimFile'[i].npm \in {None, scripts'[shimFile'[i].pid][shimFile'[i].gen]}
  <2>0. Grown /\ ScriptsGrow /\ RecordsOf(p) /\ p \in live /\ gen(p) \in Nat \ {0} /\ scriptOf(p) = scripts[p][gen(p)]
    BY <1>2, FilesGrow, ScriptsStay, StepKinds, LiveScript
  <2>1. "forge" \notin used
    BY <1>2 DEF Processes, Fork, Start, Exec, Fail, Read, ShimEvent, Exit, Step
  <2>2. \A q \in Pids, g \in Nat : g \in DOMAIN scripts[q] => scripts'[q][g] = scripts[q][g] \/ scripts[q][g] = None
    BY <2>0 DEF ScriptsGrow
  <2>3. ASSUME NEW i \in 1..Len(shimFile)
        PROVE  shimFile'[i].npm \in {None, scripts'[shimFile'[i].pid][shimFile'[i].gen]}
    <3>1. shimFile'[i] = shimFile[i] /\ i \in DOMAIN shimFile
      BY <2>0 DEF Grown
    <3>2. shimFile[i] \in Record
      BY <3>1 DEF Base, TypeOK
    <3>3. shimFile[i].pid \in Pids /\ shimFile[i].gen \in Nat
      BY <3>2 DEF Record
    <3>4. shimFile[i].npm \in {None, scripts[shimFile[i].pid][shimFile[i].gen]} /\ shimFile[i].gen \in DOMAIN scripts[shimFile[i].pid]
      BY <2>1, <3>1 DEF NameInv, GenInv
    <3> QED BY <3>1, <3>3, <3>4, <2>2
  <2>4. ASSUME NEW i \in 1..Len(shimFile'), i > Len(shimFile)
        PROVE  shimFile'[i].npm \in {None, scripts'[shimFile'[i].pid][shimFile'[i].gen]}
    <3>1. shimFile'[i].pid = p /\ shimFile'[i].gen = gen(p) /\ shimFile'[i].npm = image[p].canon
      BY <2>0, <2>4 DEF RecordsOf
    <3>2. image[p].canon \in {None, scripts[p][gen(p)]}
      BY <2>0, <2>1 DEF NameInv
    <3>3. gen(p) \in DOMAIN scripts[p]
      BY <2>0 DEF ScriptsGrow
    <3> QED BY <3>1, <3>2, <3>3, <2>0, <2>2
  <2> QED BY <2>0, <2>3, <2>4 DEF Grown
<1>3. ASSUME NEW p \in Pids, Processes(p)
      PROVE  \A q \in live' : {image'[q].env, image'[q].canon} \subseteq {None, Last(scripts'[q])}
  BY <1>3, ImageNext
<1>4. (\E p \in Pids : Processes(p)) \/ UNCHANGED treeVars
  BY TakesTree DEF Next, Done, vars
<1> QED BY <1>1, <1>2, <1>3, <1>4

\* What /proc says of p without forgery is what p runs.
LEMMA WalkFact ==
    ASSUME Base, NameInv, ParentInv, "forge" \notin used, NEW p \in Pids, walk(p) # None
    PROVE  p \in live /\ walk(p) = scriptOf(p)
<1> DEFINE line == {v \in Pids : v = p \/ (p \in live /\ (v = Root \/ (v \in live /\ scriptOf(v) = scriptOf(p))))}
           named == {v \in visited(p) \cap live : image[v].env # None}
<1>1. live \subseteq Pids /\ Root \in live /\ scriptOf(Root) = None
  BY DEF Base, TypeOK, RootInv, scriptOf, Last
<1>2. ASSUME NEW a \in line \cap live, ppid[a] # None PROVE ppid[a] \in line
  BY <1>1, <1>2 DEF ParentInv
<1>3. p \in line /\ line \in SUBSET Pids
  OBVIOUS
<1>4. visited(p) \subseteq line
  <2> SUFFICES ASSUME NEW v \in visited(p) PROVE v \in line
    OBVIOUS
  <2>1. \A S \in SUBSET Pids :
            /\ p \in S
            /\ \A a \in S \cap live : image[a].env = None /\ ppid[a] # None => ppid[a] \in S
            => v \in S
    BY DEF visited
  <2> HIDE DEF line
  <2> QED BY <2>1, <1>2, <1>3
<1>5. walk(p) = IF named = {} THEN None ELSE image[CHOOSE v \in named : TRUE].env
  BY DEF walk
<1>6. PICK v \in named : walk(p) = image[v].env
  <2> HIDE DEF named
  <2> QED BY <1>5
<1>7. v \in line /\ v \in live /\ image[v].env = scriptOf(v) /\ scriptOf(v) # None
  BY <1>4, <1>6 DEF NameInv
<1> QED BY <1>1, <1>6, <1>7
-----------------------------------------------------------------------------
(* What is known of a pid comes from /proc, from its parent or from the    *)
(* shim.                                                                   *)

Source(v, pkg) ==
    /\ pkg # None
    /\ \/ pkg = attribute(v) \/ pkg = walk(v)
       \/ \E q \in Pids : /\ TakeClone(q) /\ NextLine(q).child = v
                          /\ \/ pkg = attribute(q)
                             \/ /\ attributionSnapshotByPid[q] # None /\ ~attributionSnapshotByPid[q].stale
                                /\ pkg = attributionSnapshotByPid[q].pkg
       \/ TakeShimEvent /\ NextRecord.pid = v /\ pkg = NextRecord.npm
Known(v) ==
    /\ cache'[v] \in {cache[v], "unread", attribute(v)}
    /\ attributionSnapshotByPid'[v] # None =>
          \/ /\ attributionSnapshotByPid[v] # None
             /\ attributionSnapshotByPid'[v].pkg = attributionSnapshotByPid[v].pkg
             /\ attributionSnapshotByPid[v].stale => attributionSnapshotByPid'[v].stale
          \/ Source(v, attributionSnapshotByPid'[v].pkg)
    /\ attributionGenByPid'[v] # None =>
          \/ attributionGenByPid[v] # None /\ attributionGenByPid'[v].pkg = attributionGenByPid[v].pkg
          \/ Source(v, attributionGenByPid'[v].pkg)

\* Functions of what was known with one answer more.
LEMMA WithOne ==
    ASSUME TypeOK, NEW p \in Pids, NEW pkg \in Name \ {None}
    PROVE  LET snap == snapshotWith(attributionSnapshotByPid, p, pkg)
               gens == generationWith(attributionGenByPid, p, pkg)
           IN /\ snap[p].pkg = pkg /\ ~snap[p].stale /\ \A v \in Pids \ {p} : snap[v] = attributionSnapshotByPid[v]
              /\ \A v \in Pids \ {p} : gens[v] = attributionGenByPid[v]
              /\ gens[p].pkg = IF attributionGenByPid[p] = None THEN pkg ELSE attributionGenByPid[p].pkg
<1>1. attributionSnapshotByPid \in [Pids -> Snapshot \cup {None}] /\ attributionGenByPid \in [Pids -> Generation \cup {None}]
  BY DEF TypeOK
<1> QED BY <1>1 DEF snapshotWith, generationWith

LEMMA AskedKnown ==
    ASSUME TypeOK, NEW p \in Pids, Asked(p, attribute(p)), NEW v \in Pids
    PROVE  Known(v)
<1>1. /\ cache \in [Pids -> Name \cup {"unread"}] /\ attribute(p) \in Name
  BY WalkType DEF TypeOK
<1>2. cache'[v] \in {cache[v], "unread", attribute(v)}
  BY <1>1 DEF Asked
<1>3. CASE attribute(p) = None
  BY <1>2, <1>3 DEF Asked, Known
<1>4. CASE attribute(p) # None
  <2>1. /\ attributionSnapshotByPid' = snapshotWith(attributionSnapshotByPid, p, attribute(p))
        /\ attributionGenByPid' = generationWith(attributionGenByPid, p, attribute(p))
    BY <1>4 DEF Asked
  <2> DEFINE snap == snapshotWith(attributionSnapshotByPid, p, attribute(p))
             gens == generationWith(attributionGenByPid, p, attribute(p))
  <2>2. /\ snap[p].pkg = attribute(p) /\ \A w \in Pids \ {p} : snap[w] = attributionSnapshotByPid[w]
        /\ \A w \in Pids \ {p} : gens[w] = attributionGenByPid[w]
        /\ gens[p].pkg = IF attributionGenByPid[p] = None THEN attribute(p) ELSE attributionGenByPid[p].pkg
    BY <1>1, <1>4, WithOne
  <2>3. Source(p, attribute(p))
    BY <1>4 DEF Source
  <2> HIDE DEF snap, gens
  <2>4. attributionSnapshotByPid' = snap /\ attributionGenByPid' = gens
    BY <2>1 DEF snap, gens
  <2>5. CASE v # p
    BY <1>2, <2>2, <2>4, <2>5 DEF Known
  <2>6. CASE v = p
    BY <1>2, <2>2, <2>3, <2>4, <2>6 DEF Known
  <2> QED BY <2>5, <2>6
<1> QED BY <1>3, <1>4

\* What a fork leaves known of its parent and of its child.
LEMMA CloneKnown ==
    ASSUME TypeOK, NEW p \in Pids, TakeClone(p), NEW v \in Pids
    PROVE  Known(v)
<1> DEFINE c == NextLine(p).child
           fresh == attributionSnapshotByPid[p] # None /\ ~attributionSnapshotByPid[p].stale
           sampled == attribute(p)
           pkg == IF fresh THEN attributionSnapshotByPid[p].pkg ELSE sampled
           recorded == (IF fresh \/ pkg = None THEN {} ELSE {p}) \cup (IF pkg = None THEN {} ELSE {c})
<1>1. /\ cache' = IF fresh THEN cache ELSE [cache EXCEPT ![p] = sampled]
      /\ attributionSnapshotByPid' =
            [q \in Pids |-> IF q \in recorded THEN [pkg |-> pkg, stale |-> FALSE, old |-> FALSE]
                            ELSE attributionSnapshotByPid[q]]
      /\ attributionGenByPid' =
            [q \in Pids |-> IF q \in recorded THEN generationWith(attributionGenByPid, q, pkg)[q]
                            ELSE attributionGenByPid[q]]
  BY DEF TakeClone
<1>2. cache \in [Pids -> Name \cup {"unread"}] /\ sampled \in Name
  BY WalkType DEF TypeOK
<1>3. attributionSnapshotByPid[p] # None => attributionSnapshotByPid[p].pkg \in Name
  <2>1. attributionSnapshotByPid[p] \in Snapshot \cup {None}
    BY DEF TypeOK
  <2> QED BY <2>1 DEF Snapshot, Name
<1>4. pkg \in Name
  BY <1>2, <1>3
<1>5. cache'[v] \in {cache[v], "unread", attribute(v)}
  BY <1>1, <1>2
<1>6. CASE v \notin recorded
  BY <1>1, <1>5, <1>6 DEF Known
<1>7. CASE v \in recorded
  <2>1. pkg # None
    BY <1>7
  <2>2. attributionSnapshotByPid'[v].pkg = pkg
    BY <1>1, <1>7
  <2>3. attributionGenByPid'[v] = generationWith(attributionGenByPid, v, pkg)[v]
    BY <1>1, <1>7
  <2>4. generationWith(attributionGenByPid, v, pkg)[v].pkg = IF attributionGenByPid[v] = None THEN pkg ELSE attributionGenByPid[v].pkg
    BY <1>4, <2>1, WithOne
  <2>5. Source(v, pkg)
    <3>1. CASE v = p /\ pkg = sampled
      BY <2>1, <3>1 DEF Source
    <3>2. CASE v = c
      <4>1. \/ pkg = attribute(p)
            \/ /\ attributionSnapshotByPid[p] # None /\ ~attributionSnapshotByPid[p].stale
               /\ pkg = attributionSnapshotByPid[p].pkg
        OBVIOUS
      <4> HIDE DEF pkg
      <4> QED BY <2>1, <3>2, <4>1 DEF Source
    <3> QED BY <1>7, <3>1, <3>2
  <2> HIDE DEF pkg, recorded
  <2> QED BY <1>5, <2>2, <2>3, <2>4, <2>5 DEF Known
<1> QED BY <1>6, <1>7

LEMMA ExitKnown ==
    ASSUME TypeOK, NEW p \in Pids, TakeExit(p), NEW v \in Pids
    PROVE  Known(v)
<1>1. /\ cache \in [Pids -> Name \cup {"unread"}] /\ walk(p) \in Name
      /\ attributionSnapshotByPid \in [Pids -> Snapshot \cup {None}]
  BY WalkType DEF TypeOK
<1>2. cache'[v] \in {cache[v], "unread", attribute(v)}
  BY <1>1 DEF TakeExit
<1>3. CASE walk(p) = None
  <2>1. attributionSnapshotByPid' =
            [attributionSnapshotByPid EXCEPT ![p] = IF @ = None THEN None ELSE [@ EXCEPT !.stale = TRUE]]
        /\ attributionGenByPid' = attributionGenByPid
    BY <1>3 DEF TakeExit
  <2>2. attributionSnapshotByPid'[v] # None =>
            /\ attributionSnapshotByPid[v] # None
            /\ attributionSnapshotByPid'[v].pkg = attributionSnapshotByPid[v].pkg
            /\ attributionSnapshotByPid[v].stale => attributionSnapshotByPid'[v].stale
    BY <1>1, <2>1 DEF Snapshot
  <2> QED BY <1>2, <2>1, <2>2 DEF Known
<1>4. CASE walk(p) # None
  <2> DEFINE snap == snapshotWith(attributionSnapshotByPid, p, walk(p))
             gens == generationWith(attributionGenByPid, p, walk(p))
  <2>1. attributionSnapshotByPid' = snap /\ attributionGenByPid' = gens
    BY <1>4 DEF TakeExit
  <2>2. /\ snap[p].pkg = walk(p) /\ \A w \in Pids \ {p} : snap[w] = attributionSnapshotByPid[w]
        /\ \A w \in Pids \ {p} : gens[w] = attributionGenByPid[w]
        /\ gens[p].pkg = IF attributionGenByPid[p] = None THEN walk(p) ELSE attributionGenByPid[p].pkg
    BY <1>1, <1>4, WithOne
  <2>3. Source(p, walk(p))
    BY <1>4 DEF Source
  <2> HIDE DEF snap, gens
  <2>5. CASE v # p
    BY <1>2, <2>1, <2>2, <2>5 DEF Known
  <2>6. CASE v = p
    BY <1>2, <2>1, <2>2, <2>3, <2>6 DEF Known
  <2> QED BY <2>5, <2>6
<1> QED BY <1>3, <1>4

LEMMA RecordKnown ==
    ASSUME TypeOK, TakeStartup \/ TakeShimEvent, NEW v \in Pids
    PROVE  Known(v)
<1> DEFINE p == NextRecord.pid
<1>0. /\ cache \in [Pids -> Name \cup {"unread"}]
      /\ attributionSnapshotByPid \in [Pids -> Snapshot \cup {None}]
      /\ NextRecord \in Record /\ p \in Pids /\ NextRecord.npm \in Name
  <2>1. shimTaken \in Nat /\ shimFile \in Seq(Record) /\ shimTaken < Len(shimFile)
    BY DEF TypeOK, TakeStartup, TakeShimEvent, TakeRecord
  <2>2. NextRecord \in Record
    BY <2>1 DEF NextRecord
  <2> QED BY <2>2 DEF Record, TypeOK
<1>1. CASE TakeStartup
  <2>1. /\ attributionSnapshotByPid' =
            [attributionSnapshotByPid EXCEPT ![p] = IF @ = None THEN None ELSE [@ EXCEPT !.old = TRUE]]
        /\ attributionGenByPid' = attributionGenByPid /\ cache' = cache
    BY <1>1 DEF TakeStartup
  <2>2. attributionSnapshotByPid'[v] # None =>
            /\ attributionSnapshotByPid[v] # None
            /\ attributionSnapshotByPid'[v].pkg = attributionSnapshotByPid[v].pkg
            /\ attributionSnapshotByPid[v].stale => attributionSnapshotByPid'[v].stale
    BY <1>0, <2>1 DEF Snapshot
  <2> QED BY <2>1, <2>2 DEF Known
<1>2. CASE TakeShimEvent
  <2> DEFINE result == attribute(p)
             shimAttrib == IF NextRecord.kind = "other" THEN None ELSE NextRecord.npm
             answers == <<shimAttrib, result>>
             seed == firstOf(answers)
  <2>1. /\ cache' = [cache EXCEPT ![p] = result]
        /\ attributionSnapshotByPid' = IF seed = None THEN attributionSnapshotByPid
                                       ELSE snapshotWith(attributionSnapshotByPid, p, seed)
        /\ attributionGenByPid' = IF seed = None THEN attributionGenByPid
                                  ELSE generationWith(attributionGenByPid, p, seed)
    BY <1>2 DEF TakeShimEvent
  <2>2. result \in Name /\ shimAttrib \in Name
    BY <1>0, WalkType DEF Name
  <2>3. cache'[v] \in {cache[v], "unread", attribute(v)}
    BY <1>0, <2>1
  <2>4. seed \in Name /\ (seed # None => seed = result \/ seed = shimAttrib)
    <3> HIDE DEF result, shimAttrib
    <3>1. answers \in Seq(Name) /\ DOMAIN answers = 1..2 /\ answers[1] = shimAttrib /\ answers[2] = result
      BY <2>2
    <3> HIDE DEF answers
    <3>2. seed \in Name /\ (seed # None => \E i \in DOMAIN answers : seed = answers[i])
      BY <3>1, FirstOf
    <3> QED BY <3>1, <3>2
  <2>5. seed # None => Source(p, seed)
    <3>1. seed # None => seed = attribute(p) \/ seed = NextRecord.npm
      <4> HIDE DEF seed
      <4> QED BY <2>4
    <3> HIDE DEF seed
    <3> QED BY <1>2, <3>1 DEF Source
  <2> HIDE DEF seed
  <2>6. CASE seed = None
    BY <2>1, <2>3, <2>6 DEF Known
  <2>7. CASE seed # None
    <3> DEFINE snap == snapshotWith(attributionSnapshotByPid, p, seed)
               gens == generationWith(attributionGenByPid, p, seed)
    <3>1. attributionSnapshotByPid' = snap /\ attributionGenByPid' = gens
      BY <2>1, <2>7
    <3>2. /\ snap[p].pkg = seed /\ \A w \in Pids \ {p} : snap[w] = attributionSnapshotByPid[w]
          /\ \A w \in Pids \ {p} : gens[w] = attributionGenByPid[w]
          /\ gens[p].pkg = IF attributionGenByPid[p] = None THEN seed ELSE attributionGenByPid[p].pkg
      BY <1>0, <2>4, <2>7, WithOne
    <3>3. Source(p, seed)
      BY <2>5, <2>7
    <3> HIDE DEF snap, gens, p
    <3>5. CASE v # p
      BY <2>3, <3>1, <3>2, <3>5 DEF Known
    <3>6. CASE v = p
      BY <2>3, <3>1, <3>2, <3>3, <3>6 DEF Known
    <3> QED BY <3>5, <3>6
  <2> QED BY <2>6, <2>7
<1> QED BY <1>1, <1>2

LEMMA NextKnown == Base /\ [Next]_vars => \A v \in Pids : Known(v)
<1> SUFFICES ASSUME Base, [Next]_vars, NEW v \in Pids PROVE Known(v)
  OBVIOUS
<1>1. ASSUME NEW p \in Pids, Takes(p) PROVE Known(v)
  BY <1>1, AskedKnown, CloneKnown, ExitKnown DEF Base, Takes, TakeSpawn, TakeFailed, TakeRead
<1>2. CASE TakeStartup \/ TakeShimEvent
  BY <1>2, RecordKnown DEF Base
<1>3. (\E p \in Pids : Processes(p)) \/ Finish \/ UNCHANGED vars => UNCHANGED attrVars
  BY ProcessDispatch DEF Finish, vars, DispatchVars
<1>4. UNCHANGED attrVars => Known(v)
  BY DEF attrVars, Known
<1> QED BY <1>1, <1>2, <1>3, <1>4 DEF Next, Done
-----------------------------------------------------------------------------
(* ParkedTrue.                                                             *)

\* Where nothing above v was reused, what is said of v is a script v ran.
LEMMA SourceNamed ==
    ASSUME Base, TreeInv, NameInv, "forge" \notin used, NEW S \in SUBSET Pids, SingleLine(S),
           \A q \in Pids : ForkedIn(q, S) => Named(q),
           NEW v \in Pids, ForkedIn(v, S), NEW pkg, Source(v, pkg)
    PROVE  pkg \in R(v)
<1>0. pkg # None /\ \A q \in Pids : DOMAIN scripts[q] = 1..gen(q) /\ gen(q) \in Nat
  BY DEF Source, Base, TypeOK, gen
<1>w. ASSUME NEW q \in Pids, walk(q) # None PROVE walk(q) \in R(q)
  <2>1. q \in live /\ walk(q) = scripts[q][gen(q)] /\ gen(q) \in Nat \ {0}
    BY <1>w, WalkFact, LiveScript DEF TreeInv
  <2>2. gen(q) \in DOMAIN scripts[q]
    BY <2>1, <1>0
  <2> QED BY <1>w, <2>1, <2>2 DEF R
<1>a. ASSUME NEW q \in Pids, Named(q), attribute(q) # None PROVE attribute(q) \in R(q)
  BY <1>a, <1>w DEF attribute, Named
<1>1. CASE pkg = attribute(v) \/ pkg = walk(v)
  BY <1>0, <1>1, <1>a, <1>w
<1>2. ASSUME NEW q \in Pids, TakeClone(q), NextLine(q).child = v,
             \/ pkg = attribute(q)
             \/ /\ attributionSnapshotByPid[q] # None /\ ~attributionSnapshotByPid[q].stale
                /\ pkg = attributionSnapshotByPid[q].pkg
      PROVE  pkg \in R(v)
  <2> DEFINE i == taken[q] + 1
  <2>1. Untaken(q) /\ NextLine(q).kind = "clone"
    BY <1>2 DEF TakeClone, Take
  <2>2. i \in DOMAIN file[q] /\ NextLine(q) = file[q][i]
    BY <2>1, EventType DEF Base, NextLine
  <2> HIDE DEF i
  <2>3. IsClone(q, i, v)
    BY <1>2, <2>1, <2>2 DEF IsClone
  <2>4. q \in S
    BY <2>2, <2>3 DEF ForkedIn
  <2>5. ForkedIn(q, S) /\ gen(q) <= 1
    BY <2>4 DEF SingleLine, ForkedIn, IsClone
  <2>6. pkg \in R(q)
    BY <1>0, <1>2, <1>a, <2>5 DEF Named
  <2>7. PICK g \in DOMAIN scripts[q] : pkg = scripts[q][g]
    BY <2>6 DEF R
  <2>8. file[q][i].gen \in DOMAIN scripts[q]
    BY <2>2 DEF TreeInv, GenInv
  <2>9. g = file[q][i].gen
    BY <1>0, <2>5, <2>7, <2>8
  <2>10. \E h \in DOMAIN scripts[v] : wrote(q, i) # None => scripts[v][h] = wrote(q, i)
    BY <2>2, <2>3 DEF TreeInv, CloneInv
  <2> QED BY <1>0, <2>7, <2>9, <2>10 DEF wrote, R
<1>3. ASSUME TakeShimEvent, NextRecord.pid = v, pkg = NextRecord.npm PROVE pkg \in R(v)
  <2>1. shimTaken \in Nat /\ shimTaken < Len(shimFile) /\ shimFile \in Seq(Record)
    BY <1>3 DEF Base, TypeOK, TakeShimEvent, TakeRecord
  <2>2. shimTaken + 1 \in DOMAIN shimFile
    BY <2>1
  <2>3. pkg = scripts[v][NextRecord.gen] /\ NextRecord.gen \in DOMAIN scripts[v]
    BY <1>0, <1>3, <2>2 DEF NameInv, TreeInv, GenInv, NextRecord
  <2> QED BY <1>0, <2>3 DEF R
<1> QED BY <1>1, <1>2, <1>3 DEF Source

\* In a step of a process the names stay, and fewer pids are forked in a set.
LEMMA NamesGrow ==
    ASSUME Base, [Next]_vars, NEW S \in SUBSET Pids, NEW v \in Pids
    PROVE  /\ R(v) \subseteq R(v)'
           /\ ForkedIn(v, S)' => ForkedIn(v, S)
           /\ SingleLine(S)' => SingleLine(S)
<1>0. ScriptsGrow /\ Grown
  BY ScriptsStay, FilesGrow
<1>1. R(v) \subseteq R(v)'
  <2> SUFFICES ASSUME NEW g \in DOMAIN scripts[v], scripts[v][g] # None
               PROVE  g \in DOMAIN scripts'[v] /\ scripts'[v][g] = scripts[v][g]
    BY DEF R
  <2> QED BY <1>0 DEF ScriptsGrow
<1>2. ASSUME NEW w \in Pids, ForkedIn(w, S)' PROVE ForkedIn(w, S)
  <2> SUFFICES ASSUME NEW f \in Pids, NEW i \in DOMAIN file[f], IsClone(f, i, w) PROVE f \in S
    BY DEF ForkedIn
  <2>1. i \in DOMAIN file'[f] /\ file'[f][i] = file[f][i]
    BY <1>0 DEF Grown
  <2> QED BY <1>2, <2>1 DEF ForkedIn, IsClone
<1>3. ASSUME SingleLine(S)' PROVE SingleLine(S)
  <2> SUFFICES ASSUME NEW q \in S PROVE gen(q) <= 1 /\ ForkedIn(q, S)
    BY DEF SingleLine, ForkedIn, IsClone
  <2>1. Len(scripts'[q]) <= 1 /\ ForkedIn(q, S)'
    BY <1>3 DEF SingleLine, ForkedIn, IsClone, gen
  <2>2. gen(q) <= 1
    BY <1>0, <2>1 DEF ScriptsGrow
  <2> QED BY <1>2, <2>1, <2>2
<1> QED BY <1>1, <1>2, <1>3

LEMMA NamedNext == Base /\ TreeInv /\ NameInv /\ NamedInv /\ [Next]_vars => NamedInv'
<1> SUFFICES ASSUME Base, TreeInv, NameInv, NamedInv, [Next]_vars, "forge" \notin used',
                    NEW S \in SUBSET Pids, SingleLine(S)', NEW v \in Pids, ForkedIn(v, S)'
             PROVE  Named(v)'
  BY DEF NamedInv
<1>0. "forge" \notin used
  <2>1. ASSUME NEW p \in Pids, Processes(p) PROVE "forge" \notin used
    BY <2>1 DEF Processes, Fork, Start, Exec, Fail, Read, ShimEvent, Exit, Step
  <2>2. (\E p \in Pids : Processes(p)) \/ UNCHANGED treeVars
    BY TakesTree DEF Next, Done, vars
  <2> QED BY <2>1, <2>2 DEF treeVars
<1>1. SingleLine(S) /\ ForkedIn(v, S) /\ R(v) \subseteq R(v)'
  BY NamesGrow
<1>2. \A q \in Pids : ForkedIn(q, S) => Named(q)
  BY <1>0, <1>1 DEF NamedInv
<1>3. \A pkg : Source(v, pkg) => pkg \in R(v)
  BY <1>0, <1>1, <1>2, SourceNamed
<1>4. attribute(v) \in {None} \cup R(v)
  BY <1>3 DEF Source
<1>5. Named(v) /\ Known(v)
  BY <1>1, <1>2, NextKnown
<1>6. cache'[v] \in {"unread", None} \cup R(v)
  BY <1>4, <1>5 DEF Named, Known
<1>7. attributionSnapshotByPid'[v] # None => attributionSnapshotByPid'[v].pkg \in R(v)
  BY <1>3, <1>5 DEF Named, Known
<1>8. attributionGenByPid'[v] # None => attributionGenByPid'[v].pkg \in R(v)
  BY <1>3, <1>5 DEF Named, Known
<1> QED BY <1>1, <1>6, <1>7, <1>8 DEF Named

\* A pid without a sign of reuse below such a set ran the script of one package.
LEMMA OneScript ==
    ASSUME Base, TreeInv, LineInv, \A q \in Pids : ~Untaken(q), NEW S \in SUBSET Pids, SingleLine(S),
           NEW p \in Pids, ForkedIn(p, S), p \notin reused,
           NEW g \in DOMAIN scripts[p], NEW h \in DOMAIN scripts[p], scripts[p][g] # None, scripts[p][h] # None
    PROVE  scripts[p][g] = scripts[p][h]
<1>0. \A q \in Pids : /\ DOMAIN file[q] = 1..Len(file[q]) /\ Len(file[q]) \in Nat /\ taken[q] \in Nat
                      /\ DOMAIN scripts[q] = 1..gen(q) /\ gen(q) \in Nat
  BY DEF Base, TypeOK, gen
<1>1. \A q \in Pids : DOMAIN file[q] \subseteq 1..taken[q]
  BY <1>0 DEF Untaken
<1>2. p \notin pidRecycled /\ p \notin childParentReused
  BY DEF reused
<1>3. \A q \in Pids : \A i \in DOMAIN file[q] : IsClone(q, i, p) => childParent[p] = q
  BY <1>1, <1>2 DEF LineInv, EdgeInv
<1>4. ASSUME NEW a \in DOMAIN scripts[p], NEW b \in DOMAIN scripts[p], Started(p, a), Started(p, b) PROVE a = b
  <2>1. PICK i \in DOMAIN file[p] : file[p][i].kind = "spawn" /\ file[p][i].gen = a
    BY <1>4 DEF Started
  <2>2. PICK j \in DOMAIN file[p] : file[p][j].kind = "spawn" /\ file[p][j].gen = b
    BY <1>4 DEF Started
  <2>3. ASSUME NEW k \in DOMAIN file[p], NEW l \in DOMAIN file[p], k < l, file[p][l].kind = "spawn",
               file[p][k].gen # file[p][l].gen
        PROVE  FALSE
    <3>1. l \in k + 1..Len(file[p]) /\ l \in 1..taken[p]
      BY <1>0, <1>1, <2>3
    <3>2. PICK m \in k..(l - 1) : file[p][m].kind = "exit"
      BY <2>3, <3>1 DEF TreeInv, ExitInv
    <3>3. m \in 1..(l - 1)
      BY <1>0, <2>3, <3>2
    <3> QED BY <1>2, <2>3, <3>1, <3>2, <3>3 DEF LineInv, RecycledInv
  <2>4. i < j \/ j < i \/ i = j
    BY <1>0
  <2> QED BY <2>1, <2>2, <2>3, <2>4
<1>5. ASSUME NEW a \in DOMAIN scripts[p], NEW b \in DOMAIN scripts[p], Started(p, a), Forked(p, b) PROVE FALSE
  <2>1. childParent[p] = Root
    BY <1>3, <1>5, RootAssumption DEF Started
  <2>2. childParent[p] # Root
    BY <1>3, <1>5 DEF Forked
  <2> QED BY <2>1, <2>2
<1>6. ASSUME NEW a \in DOMAIN scripts[p], NEW b \in DOMAIN scripts[p], Forked(p, a), Forked(p, b)
      PROVE  scripts[p][a] = scripts[p][b]
  <2>1. PICK q \in Pids : \E i \in DOMAIN file[q] : IsClone(q, i, p) /\ wrote(q, i) = scripts[p][a]
    BY <1>6 DEF Forked
  <2>2. PICK f \in Pids : \E i \in DOMAIN file[f] : IsClone(f, i, p) /\ wrote(f, i) = scripts[p][b]
    BY <1>6 DEF Forked
  <2>3. q = f /\ q \in S
    BY <1>3, <2>1, <2>2 DEF ForkedIn
  <2>4. gen(q) <= 1
    BY <2>3 DEF SingleLine
  <2>5. PICK i \in DOMAIN file[q] : wrote(q, i) = scripts[p][a]
    BY <2>1
  <2>6. PICK j \in DOMAIN file[q] : wrote(q, j) = scripts[p][b]
    BY <2>2, <2>3
  <2>7. file[q][i].gen \in 1..gen(q) /\ file[q][j].gen \in 1..gen(q)
    BY <1>0 DEF TreeInv, GenInv
  <2>8. file[q][i].gen = file[q][j].gen
    BY <1>0, <2>4, <2>7
  <2> QED BY <2>5, <2>6, <2>8 DEF wrote
<1>7. (Started(p, g) \/ Forked(p, g)) /\ (Started(p, h) \/ Forked(p, h))
  BY DEF TreeInv, OriginInv
<1> QED BY <1>4, <1>5, <1>6, <1>7

ParkedInv == RootedInv /\ NameInv /\ NamedInv /\ EndInv /\ ParkedTrue

LEMMA ParkedStart == Init => ParkedInv
<1> SUFFICES ASSUME Init PROVE ParkedInv
  OBVIOUS
<1>1. EndInv /\ ParkedTrue
  BY DEF Init, EndInv, ParkedTrue
<1>2. NameInv
  <2>1. live = {Root} /\ image[Root].env = None /\ image[Root].canon = None /\ shimFile = <<>>
    BY RootAssumption DEF Init
  <2>2. \A p \in live : {image[p].env, image[p].canon} \subseteq {None, scriptOf(p)}
    BY <2>1
  <2> QED BY <2>1, <2>2 DEF NameInv
<1>3. NamedInv
  BY DEF Init, NamedInv, Named
<1> QED BY <1>1, <1>2, <1>3, RootedStart DEF ParkedInv

\* What is resolved at the end is true.
LEMMA ParkedAtEnd ==
    ASSUME RootedInv, NameInv, NamedInv, EndInv, Finish, "forge" \notin used, NEW e \in deferredNullAttribEvents,
           NEW pkg, pkg = resolveDeferredAttribution(e.pid), pkg # None, truth(e) # None,
           NEW S \in SUBSET Pids, SingleLine(S), ForkedIn(e.pid, S)
    PROVE  pkg \in {truth(e), Unattributed}
<1> DEFINE p == e.pid
<1>1. p \in Pids /\ e.gen \in DOMAIN scripts[p]
  BY DEF RootedInv, EventsInv, Good, Base, TypeOK, Event
<1>2. \A q \in Pids : ~Untaken(q)
  BY DEF Finish
<1>3. CASE p \in reused \/ attributionGenByPid[p].ambiguous
  BY <1>3 DEF resolveDeferredAttribution, reused
<1>4. CASE p \notin reused /\ pkg = attributionGenByPid[p].pkg /\ attributionGenByPid[p] # None
  <2>1. pkg \in R(p)
    BY <1>1, <1>4 DEF NamedInv, Named
  <2>2. PICK g \in DOMAIN scripts[p] : pkg = scripts[p][g]
    BY <2>1 DEF R
  <2>3. scripts[p][g] = scripts[p][e.gen]
    BY <1>1, <1>2, <1>4, <2>2, OneScript DEF RootedInv, truth
  <2> QED BY <2>2, <2>3 DEF truth
<1> QED BY <1>3, <1>4 DEF resolveDeferredAttribution, reused

LEMMA ParkedNext == ParkedInv /\ [Next]_vars => ParkedInv'
<1> SUFFICES ASSUME ParkedInv, [Next]_vars PROVE ParkedInv'
  OBVIOUS
<1>1. RootedInv' /\ NameInv' /\ NamedInv' /\ EndInv'
  BY RootedNext, NameNext, NamedNext, EndNext DEF ParkedInv, RootedInv, TreeInv
<1>2. CASE ended
  <2>1. UNCHANGED <<used, reports, scripts, file>>
    BY <1>2, EndedStays DEF ParkedInv, RootedInv, vars, treeVars, outVars
  <2> QED BY <1>1, <2>1 DEF ParkedInv, ParkedTrue, IsTrue, truth, SingleLine, gen
<1>3. CASE ~ended /\ ~Finish
  <2>1. ended' = ended
    BY <1>3, TakesOne, TakesRecord, ProcessDispatch DEF ParkedInv, RootedInv, Next, Done, DispatchVars, vars
  <2>2. \A r \in reports' : r.how # "parked"
    BY <1>1, <1>3, <2>1 DEF EndInv
  <2> QED BY <1>1, <2>2 DEF ParkedInv, ParkedTrue
<1>4. CASE Finish
  <2>1. UNCHANGED <<used, scripts, file>> /\ ~ended
    BY <1>4 DEF Finish, treeVars
  <2>2. SUFFICES ASSUME "forge" \notin used, NEW r \in reports', NEW S \in SUBSET Pids, r.how = "parked", SingleLine(S)',
                        \A f \in Pids : \A i \in DOMAIN file'[f] :
                            file'[f][i].kind = "clone" /\ file'[f][i].child = r.event.pid => f \in S
                 PROVE  IsTrue(r)'
    BY <1>1, <2>1 DEF ParkedInv, ParkedTrue
  <2>3. r \notin reports
    BY <2>1, <2>2 DEF ParkedInv, EndInv
  <2>4. PICK e \in deferredNullAttribEvents :
            /\ resolveDeferredAttribution(e.pid) # None
            /\ r = [event |-> e, pkg |-> resolveDeferredAttribution(e.pid), how |-> "parked"]
    BY <1>4, <2>2, <2>3 DEF Finish
  <2>5. SingleLine(S)
    BY <2>1, <2>2 DEF SingleLine, gen
  <2>6. r.event = e /\ r.pkg = resolveDeferredAttribution(e.pid)
    BY <2>4
  <2>7. ForkedIn(e.pid, S)
    BY <2>1, <2>2, <2>6 DEF ForkedIn, IsClone
  <2>8. truth(e) # None => r.pkg \in {truth(e), Unattributed}
    BY <1>4, <2>2, <2>4, <2>5, <2>6, <2>7, ParkedAtEnd DEF ParkedInv
  <2> QED BY <2>1, <2>6, <2>8 DEF IsTrue, truth
<1> QED BY <1>2, <1>3, <1>4

\* An event parked without a package is resolved to the package whose script its process ran, or
\* to no package, unless the number of a process above it was used again.
THEOREM ParkedTrueHolds == Spec => []ParkedTrue
<1>1. ParkedInv => ParkedTrue
  BY DEF ParkedInv
<1> QED BY ParkedStart, ParkedNext, <1>1, PTL DEF Spec
-----------------------------------------------------------------------------
(* PromptTrue.                                                             *)

\* Who was prompt was prompt before.
LEMMA PromptBefore ==
    ASSUME Base, [Next]_vars, Prompt'
    PROVE  /\ Prompt
           /\ \A p \in Pids, c \in Pids : Fork(p, c) =>
                 scripts[c] = <<>> \/ (shimTaken >= Len(shimFile) /\ \A q \in Pids : ~Untaken(q))
           /\ \A p \in Pids : TakeExit(p) => lateFor(p) = {}
<1>1. /\ late \subseteq late'
      /\ \A p \in Pids : TakeExit(p) => late' = late \cup lateFor(p)
  <2>1. \A p \in Pids : Takes(p) => late \subseteq late'
    BY DEF Takes, TakeSpawn, TakeFailed, TakeRead, TakeClone, TakeExit, lineVars
  <2>2. (\E p \in Pids : Processes(p)) \/ TakeStartup \/ TakeShimEvent \/ Finish \/ UNCHANGED vars => late' = late
    BY ProcessDispatch, TakesRecord DEF Finish, vars, DispatchVars, lineVars
  <2>3. \A p \in Pids : TakeExit(p) => late' = late \cup lateFor(p)
    BY DEF TakeExit
  <2> QED BY <2>1, <2>2, <2>3 DEF Next, Done
<1>2. /\ behind => behind'
      /\ \A p \in Pids, c \in Pids : Fork(p, c) =>
            behind' = (behind \/ (scripts[c] # <<>> /\ (shimTaken < Len(shimFile) \/ \E q \in Pids : Untaken(q))))
  <2>1. \A p \in Pids, c \in Pids : Fork(p, c) =>
            behind' = (behind \/ (scripts[c] # <<>> /\ (shimTaken < Len(shimFile) \/ \E q \in Pids : Untaken(q))))
    BY DEF Fork
  <2>2. \A p \in Pids : Processes(p) => (behind => behind')
    BY <2>1 DEF Processes, Start, Exec, Fail, Read, ShimEvent, Exit
  <2>3. UNCHANGED treeVars => behind' = behind
    BY DEF treeVars
  <2> QED BY <2>1, <2>2, <2>3, TakesTree DEF Next, Done, vars
<1>3. "forge" \notin used
  <2>1. ASSUME NEW p \in Pids, Processes(p) PROVE "forge" \notin used
    BY <2>1 DEF Prompt, Processes, Fork, Start, Exec, Fail, Read, ShimEvent, Exit, Step
  <2>2. UNCHANGED treeVars => used' = used
    BY DEF treeVars
  <2> QED BY <2>1, <2>2, TakesTree DEF Prompt, Next, Done, vars
<1>4. Prompt
  BY <1>1, <1>2, <1>3 DEF Prompt
<1>5. ASSUME NEW p \in Pids, NEW c \in Pids, Fork(p, c)
      PROVE  scripts[c] = <<>> \/ (shimTaken >= Len(shimFile) /\ \A q \in Pids : ~Untaken(q))
  <2>1. shimTaken \in Nat /\ Len(shimFile) \in Nat
    BY DEF Base, TypeOK
  <2>2. scripts[c] = <<>> \/ (~(shimTaken < Len(shimFile)) /\ \A q \in Pids : ~Untaken(q))
    BY <1>2, <1>5 DEF Prompt
  <2>3. ~(shimTaken < Len(shimFile)) => shimTaken >= Len(shimFile)
    BY <2>1
  <2> QED BY <2>2, <2>3
<1>6. ASSUME NEW p \in Pids, TakeExit(p) PROVE lateFor(p) = {}
  BY <1>1, <1>6 DEF Prompt
<1> QED BY <1>4, <1>5, <1>6
\* Only Fork makes a process.
LEMMA ForksFork ==
    ASSUME Base, NEW p \in Pids, Processes(p), NEW c \in Pids, Forks(p, c)
    PROVE  Fork(p, c)
<1>1. c \notin live /\ c \in live'
  BY DEF Forks
<1>2. (\E d \in Pids : Fork(p, d)) \/ live' \subseteq live
  BY DEF Processes, Start, Exec, Fail, Read, ShimEvent, Exit
<1>3. PICK d \in Pids : Fork(p, d)
  BY <1>1, <1>2
<1>4. live' = live \cup {d}
  BY <1>3 DEF Fork
<1> QED BY <1>1, <1>3, <1>4

PromptParts == WaitingInv /\ GoneInv /\ NowInv /\ SaidInv
Stays(v) == Len(scripts'[v]) = gen(v) /\ Last(scripts'[v]) = scriptOf(v)

\* What a step of a process does to the scripts, to the lines and to who is gone.
LEMMA PromptStep ==
    ASSUME Base, TreeInv, TakenInv, NEW p \in Pids, Processes(p),
           \A c \in Pids : Fork(p, c) =>
                 scripts[c] = <<>> \/ (shimTaken >= Len(shimFile) /\ \A q \in Pids : ~Untaken(q))
    PROVE  /\ \A v \in Pids : \/ Stays(v)
                              \/ Gone(v) /\ v \in live'
                              \/ v = p /\ p # Root /\ scriptOf(p) = None /\ Len(scripts'[p]) = gen(p)
           /\ \A q \in Pids : \A i \in 1..Len(file'[q]) : i \notin 1..Len(file[q]) =>
                 /\ q = p /\ file'[p][i].gen = gen(p) /\ Len(scripts'[p]) = gen(p)
                 /\ \A d \in Pids : file'[p][i].kind = "clone" /\ file'[p][i].child = d =>
                       d \in live' /\ Last(scripts'[d]) = scriptOf(p) /\ Stays(p)
           /\ \A v \in Pids \ live' : taken[v] >= Len(file'[v]) => v # p /\ Gone(v)
<1>0. /\ Grown /\ ScriptsGrow /\ p \in live /\ Next
      /\ \A q \in Pids : taken[q] \in Nat /\ taken[q] <= Len(file[q])
      /\ scripts \in [Pids -> Seq(Name)] /\ live \subseteq Pids
  <2>1. Next
    BY DEF Next
  <2> QED BY <2>1, FilesGrow, ScriptsStay, StepKinds DEF Base, TypeOK, TakenInv
<1>1. \/ Quiet(p) \/ Exits(p)
      \/ \E c \in Pids : Forks(p, c)
      \/ \E k \in Pkgs : Starts(p, k)
  BY StepKinds
<1>s. \A v \in Pids : scripts'[v] = scripts[v] => Stays(v)
  BY DEF Stays, gen, scriptOf
<1>g. ASSUME NEW c \in Pids, Forks(p, c) PROVE Gone(c) /\ c \in live'
  <2>1. c \notin live /\ c \in live'
    BY <1>g DEF Forks
  <2>2. Fork(p, c)
    BY <1>g, ForksFork
  <2>3. ASSUME scripts[c] = <<>> PROVE ~Untaken(c)
    <3>1. \A i \in DOMAIN file[c] : file[c][i].gen \in 1..0
      <4>1. DOMAIN scripts[c] = 1..0
        BY <2>3
      <4> QED BY <4>1 DEF TreeInv, GenInv
    <3>2. DOMAIN file[c] = {}
      BY <3>1
    <3>3. Len(file[c]) = 0
      BY <3>2, <1>0 DEF Grown
    <3> QED BY <3>3, <1>0 DEF Untaken
  <2> QED BY <2>1, <2>2, <2>3 DEF Gone
<1>2. ASSUME NEW v \in Pids
      PROVE  \/ Stays(v)
             \/ Gone(v) /\ v \in live'
             \/ v = p /\ p # Root /\ scriptOf(p) = None /\ Len(scripts'[p]) = gen(p)
  <2>1. CASE Quiet(p) \/ Exits(p)
    BY <2>1, <1>s DEF Quiet, Exits
  <2>2. ASSUME NEW c \in Pids, Forks(p, c) PROVE Stays(v) \/ (Gone(v) /\ v \in live')
    BY <2>2, <1>g, <1>s DEF Forks
  <2>3. ASSUME NEW k \in Pkgs, Starts(p, k)
        PROVE  Stays(v) \/ (v = p /\ p # Root /\ scriptOf(p) = None /\ Len(scripts'[p]) = gen(p))
    BY <2>3, <1>s DEF Starts
  <2> QED BY <1>1, <2>1, <2>2, <2>3
<1>3. ASSUME NEW q \in Pids, NEW i \in 1..Len(file'[q]), i \notin 1..Len(file[q])
      PROVE  /\ q = p /\ file'[p][i].gen = gen(p) /\ Len(scripts'[p]) = gen(p)
             /\ \A d \in Pids : file'[p][i].kind = "clone" /\ file'[p][i].child = d =>
                   d \in live' /\ Last(scripts'[d]) = scriptOf(p) /\ Stays(p)
  <2>0. q = p /\ file'[p][i].gen = gen(p)
    BY <1>3, NewLine
  <2>1. CASE Quiet(p) \/ Exits(p)
    <3>1. file'[p][i].kind # "clone"
      BY <1>3, <2>1, NewLine
    <3>2. Stays(p)
      BY <2>1, <1>s DEF Quiet, Exits
    <3> QED BY <2>0, <3>1, <3>2 DEF Stays
  <2>2. ASSUME NEW c \in Pids, Forks(p, c)
        PROVE  /\ Len(scripts'[p]) = gen(p)
               /\ \A d \in Pids : file'[p][i].kind = "clone" /\ file'[p][i].child = d =>
                     d \in live' /\ Last(scripts'[d]) = scriptOf(p) /\ Stays(p)
    <3>1. file'[p][i].child = c
      BY <1>3, <2>2, NewLine
    <3>2. p # c /\ Stays(p) /\ c \in live'
      BY <2>2, <1>0, <1>s DEF Forks
    <3>3. Last(scripts'[c]) = scriptOf(p)
      BY <2>2 DEF Forks, Last
    <3> QED BY <3>1, <3>2, <3>3 DEF Stays
  <2>3. ASSUME NEW k \in Pkgs, Starts(p, k) PROVE file'[p][i].kind # "clone" /\ Len(scripts'[p]) = gen(p)
    <3>1. file'[p][i].kind = "spawn"
      BY <1>3, <2>3, NewLine
    <3> QED BY <2>3, <3>1 DEF Starts
  <2> QED BY <1>1, <2>0, <2>1, <2>2, <2>3
<1>4. ASSUME NEW v \in Pids \ live', taken[v] >= Len(file'[v]) PROVE v # p /\ Gone(v)
  <2>1. v # p
    <3>1. Exits(p) => Len(file'[p]) > Len(file[p])
      BY <1>0 DEF Exits, Wrote, Grown
    <3>2. Exits(p) => taken[p] < Len(file'[p])
      BY <1>0, <3>1 DEF Grown
    <3>3. Exits(p) \/ p \in live'
      BY <1>0, <1>1 DEF Quiet, Forks, Starts
    <3> QED BY <1>0, <1>4, <3>2, <3>3 DEF Grown
  <2>2. v \notin live
    BY <2>1, <1>1, <1>4 DEF Quiet, Forks, Starts, Exits
  <2>3. ~Untaken(v)
    BY <1>0, <1>4 DEF Untaken, Grown
  <2> QED BY <2>1, <2>2, <2>3 DEF Gone
<1> QED BY <1>2, <1>3, <1>4
\* What the processes do keeps what is known up to date.
LEMMA PromptProcess ==
    ASSUME Base, TreeInv, TakenInv, EventsInv, PromptParts, NEW p \in Pids, Processes(p),
           \A c \in Pids : Fork(p, c) =>
                 scripts[c] = <<>> \/ (shimTaken >= Len(shimFile) /\ \A q \in Pids : ~Untaken(q))
    PROVE  PromptParts'
<1>0. /\ Grown /\ ScriptsGrow /\ RecordsOf(p) /\ p \in live
      /\ taken' = taken /\ shimTaken' = shimTaken /\ cache' = cache
      /\ attributionSnapshotByPid' = attributionSnapshotByPid
      /\ reports' = reports /\ straceExecsByPid' = straceExecsByPid
      /\ taken \in [Pids -> Nat] /\ shimTaken \in Nat
  <2>1. Next
    BY DEF Next
  <2> QED BY <2>1, FilesGrow, ScriptsStay, StepKinds, ProcessDispatch
          DEF Base, TypeOK, DispatchVars, attrVars, countVars, outVars
<1>1. \A v \in Pids : \/ Stays(v)
                      \/ Gone(v) /\ v \in live'
                      \/ v = p /\ p # Root /\ scriptOf(p) = None /\ Len(scripts'[p]) = gen(p)
  BY PromptStep
<1>2. \A q \in Pids : \A i \in 1..Len(file'[q]) : i \notin 1..Len(file[q]) =>
          /\ q = p /\ file'[p][i].gen = gen(p) /\ Len(scripts'[p]) = gen(p)
          /\ \A d \in Pids : file'[p][i].kind = "clone" /\ file'[p][i].child = d =>
                d \in live' /\ Last(scripts'[d]) = scriptOf(p) /\ Stays(p)
  BY PromptStep
<1>3. \A v \in Pids \ live' : taken[v] >= Len(file'[v]) => v # p /\ Gone(v)
  BY PromptStep
<1>4. \A v \in Pids : Gone(v) =>
        /\ cache[v] = "unread"
        /\ attributionSnapshotByPid[v] # None => attributionSnapshotByPid[v].stale
        /\ ~ForksUntaken(v) /\ ~RecordsUntaken(v) /\ ~Untaken(v)
  BY DEF PromptParts, GoneInv, Gone
<1>5. ASSUME NEW q \in Pids, NEW i \in taken[q] + 1..Len(file'[q])
      PROVE  /\ file'[q][i].gen = Len(scripts'[q])
             /\ \A c \in Pids : file'[q][i].kind = "clone" /\ file'[q][i].child = c /\ Last(scripts'[q]) # None
                    => Last(scripts'[c]) = Last(scripts'[q])
  <2>0. i \in 1..Len(file'[q]) /\ taken[q] \in Nat
    BY <1>0 DEF Grown
  <2>1. CASE i \notin 1..Len(file[q])
    BY <1>2, <2>0, <2>1 DEF Stays
  <2>2. CASE i \in 1..Len(file[q])
    <3>1. i \in taken[q] + 1..Len(file[q]) /\ file'[q][i] = file[q][i] /\ i \in DOMAIN file[q]
      BY <1>0, <2>0, <2>2 DEF Grown
    <3>2. /\ file[q][i].gen = gen(q)
          /\ \A c \in Pids : IsClone(q, i, c) /\ scriptOf(q) # None => scriptOf(c) = scriptOf(q)
      BY <3>1 DEF PromptParts, WaitingInv
    <3>3. Untaken(q)
      BY <1>0, <3>1 DEF Untaken, Grown
    <3>4. Len(scripts'[q]) = gen(q)
      BY <1>1, <1>4, <3>3 DEF Stays
    <3>5. ASSUME NEW c \in Pids, file'[q][i].kind = "clone", file'[q][i].child = c, Last(scripts'[q]) # None
          PROVE  Last(scripts'[c]) = Last(scripts'[q])
      <4>1. IsClone(q, i, c)
        BY <3>1, <3>5 DEF IsClone
      <4>2. ~Gone(c)
        BY <1>4, <3>1, <4>1 DEF ForksUntaken
      <4>3. CASE q = p /\ p # Root /\ scriptOf(p) = None
        <5>1. wrote(p, i) # None
          BY <3>1, <4>1, <4>3 DEF TreeInv, CloneInv
        <5>2. wrote(p, i) = scriptOf(p)
          BY <3>2, <4>3 DEF wrote, scriptOf, Last, gen
        <5> QED BY <4>3, <5>1, <5>2
      <4>4. CASE Stays(q)
        <5>1. scriptOf(q) # None
          BY <3>5, <4>4 DEF Stays
        <5>2. scriptOf(c) = scriptOf(q)
          BY <3>2, <4>1, <5>1
        <5>3. Stays(c)
          BY <1>1, <4>2, <5>1, <5>2
        <5> QED BY <4>4, <5>2, <5>3 DEF Stays
      <4> QED BY <1>1, <1>4, <3>3, <4>3, <4>4
    <3> QED BY <3>1, <3>2, <3>4, <3>5
  <2> QED BY <2>1, <2>2
<1>6. ASSUME NEW i \in shimTaken + 1..Len(shimFile')
      PROVE  shimFile'[i].gen = Len(scripts'[shimFile'[i].pid])
  <2>0. i \in 1..Len(shimFile')
    BY <1>0 DEF Grown
  <2>1. CASE i \in 1..Len(shimFile)
    <3>1. i \in shimTaken + 1..Len(shimFile) /\ shimFile'[i] = shimFile[i]
      BY <1>0, <2>0, <2>1 DEF Grown
    <3>2. shimFile[i].gen = gen(shimFile[i].pid)
      BY <3>1 DEF PromptParts, WaitingInv
    <3>3. shimFile[i].pid \in Pids
      <4>1. shimFile \in Seq(Record)
        BY DEF Base, TypeOK
      <4>2. shimFile[i] \in Record
        BY <2>1, <4>1
      <4> QED BY <4>2 DEF Record
    <3>4. ~Gone(shimFile[i].pid)
      BY <1>4, <3>1, <3>3 DEF RecordsUntaken
    <3>5. Len(scripts'[shimFile[i].pid]) = gen(shimFile[i].pid)
      BY <1>1, <3>3, <3>4 DEF Stays
    <3> QED BY <3>1, <3>2, <3>5
  <2>2. CASE i \notin 1..Len(shimFile)
    <3>1. shimFile'[i].pid = p /\ shimFile'[i].gen = gen(p)
      BY <1>0, <2>0, <2>2 DEF RecordsOf, Grown
    <3>2. Len(scripts'[p]) = gen(p)
      BY <1>0, <1>1 DEF Stays, Gone
    <3> QED BY <3>1, <3>2
  <2> QED BY <2>1, <2>2
<1>7. WaitingInv'
  BY <1>0, <1>5, <1>6 DEF WaitingInv, IsClone, scriptOf, gen
<1>8. ASSUME NEW v \in Pids, Gone(v)'
      PROVE  /\ cache'[v] = "unread"
             /\ attributionSnapshotByPid'[v] # None => attributionSnapshotByPid'[v].stale
             /\ ~ForksUntaken(v)' /\ ~RecordsUntaken(v)'
  <2>1. v # p /\ Gone(v) /\ v \notin live'
    <3>1. v \notin live' /\ taken[v] >= Len(file'[v])
      BY <1>0, <1>8 DEF Gone, Untaken, Grown
    <3> QED BY <1>3, <3>1
  <2>2. ASSUME NEW q \in Pids, NEW i \in taken[q] + 1..Len(file'[q]), file'[q][i].kind = "clone", file'[q][i].child = v
        PROVE  FALSE
    <3>0. i \in 1..Len(file'[q]) /\ taken[q] \in Nat
      BY <1>0 DEF Grown
    <3>1. CASE i \notin 1..Len(file[q])
      BY <1>2, <2>1, <2>2, <3>0, <3>1
    <3>2. CASE i \in 1..Len(file[q])
      <4>1. i \in taken[q] + 1..Len(file[q]) /\ IsClone(q, i, v)
        BY <1>0, <2>2, <3>0, <3>2 DEF Grown, IsClone
      <4> QED BY <1>4, <2>1, <4>1 DEF ForksUntaken
    <3> QED BY <3>1, <3>2
  <2>3. ASSUME NEW i \in shimTaken + 1..Len(shimFile'), shimFile'[i].pid = v PROVE FALSE
    <3>0. i \in 1..Len(shimFile')
      BY <1>0 DEF Grown
    <3>1. CASE i \notin 1..Len(shimFile)
      BY <1>0, <2>1, <2>3, <3>0, <3>1 DEF RecordsOf, Grown
    <3>2. CASE i \in 1..Len(shimFile)
      <4>1. i \in shimTaken + 1..Len(shimFile) /\ shimFile[i].pid = v
        BY <1>0, <2>3, <3>0, <3>2 DEF Grown
      <4> QED BY <1>4, <2>1, <4>1 DEF RecordsUntaken
    <3> QED BY <3>1, <3>2
  <2>4. ~ForksUntaken(v)'
    BY <1>0, <2>2 DEF ForksUntaken, IsClone
  <2>5. ~RecordsUntaken(v)'
    BY <1>0, <2>3 DEF RecordsUntaken
  <2> QED BY <1>0, <1>4, <2>1, <2>4, <2>5
<1>9. GoneInv'
  BY <1>8 DEF GoneInv
<1>10. ASSUME NEW v \in Pids
       PROVE  /\ cache[v] \notin {"unread", None} => Len(scripts'[v]) > 0 /\ cache[v] = Last(scripts'[v])
              /\ attributionSnapshotByPid[v] # None /\ ~attributionSnapshotByPid[v].stale =>
                    Len(scripts'[v]) > 0 /\ attributionSnapshotByPid[v].pkg = Last(scripts'[v])
  <2>1. /\ cache[v] \notin {"unread", None} => gen(v) > 0 /\ cache[v] = scriptOf(v)
        /\ attributionSnapshotByPid[v] # None /\ ~attributionSnapshotByPid[v].stale =>
              gen(v) > 0 /\ attributionSnapshotByPid[v].pkg = scriptOf(v)
    BY DEF PromptParts, NowInv
  <2>2. attributionSnapshotByPid[v] # None => attributionSnapshotByPid[v].pkg # None
    <3>1. attributionSnapshotByPid[v] \in Snapshot \cup {None}
      BY DEF Base, TypeOK
    <3>2. None \notin Pkgs
      BY NoneAssumption
    <3> QED BY <3>1, <3>2 DEF Snapshot
  <2>3. CASE Stays(v)
    BY <2>1, <2>3 DEF Stays
  <2>4. CASE Gone(v)
    BY <1>4, <2>4
  <2>5. CASE scriptOf(v) = None
    BY <2>1, <2>2, <2>5
  <2> QED BY <1>1, <2>3, <2>4, <2>5
<1>11. NowInv'
  BY <1>0, <1>10 DEF NowInv, gen, scriptOf
<1>12. ASSUME NEW e \in Event, NEW pkg \in Pkgs \cup {Unattributed}, TrueOf(e, pkg)
       PROVE  e.gen \in DOMAIN scripts'[e.pid] /\ pkg \in {Unattributed, scripts'[e.pid][e.gen]}
  <2>1. e.pid \in Pids /\ pkg # None
    BY NoneAssumption DEF Event
  <2> QED BY <1>0, <1>12, <2>1 DEF ScriptsGrow, TrueOf, truth
<1>13. \A r \in reports : r.event \in Event /\ r.pkg \in Pkgs \cup {Unattributed}
  BY DEF Base, TypeOK, Report
<1>14. ASSUME NEW v \in Pids, NEW i \in DOMAIN straceExecsByPid[v]
       PROVE  straceExecsByPid[v][i].event \in Event /\ straceExecsByPid[v][i].pkg \in Pkgs \cup {Unattributed}
  <2> DEFINE T == [event : Event, pkg : Pkgs \cup {Unattributed}]
  <2>1. straceExecsByPid[v] \in Seq(T)
    BY DEF Base, TypeOK
  <2>2. \A t \in T : t.event \in Event /\ t.pkg \in Pkgs \cup {Unattributed}
    OBVIOUS
  <2> HIDE DEF T
  <2>3. straceExecsByPid[v][i] \in T
    BY <2>1
  <2> QED BY <2>2, <2>3
<1>15. SaidInv'
  BY <1>0, <1>12, <1>13, <1>14 DEF PromptParts, SaidInv, TrueOf, truth
<1> QED BY <1>7, <1>9, <1>11, <1>15 DEF PromptParts
\* Of a dispatcher that keeps up, what is said of v is what v runs.
LEMMA SourceNow ==
    ASSUME Base, TreeInv, NameInv, "forge" \notin used, WaitingInv, NowInv, NEW v \in Pids, NEW pkg, Source(v, pkg)
    PROVE  gen(v) > 0 /\ pkg = scriptOf(v)
<1>0. pkg # None /\ \A q \in Pids : DOMAIN scripts[q] = 1..gen(q) /\ gen(q) \in Nat
  BY DEF Source, Base, TypeOK, gen
<1>w. ASSUME NEW q \in Pids, walk(q) # None PROVE walk(q) = scriptOf(q) /\ gen(q) > 0
  BY <1>0, <1>w, WalkFact, LiveScript DEF TreeInv
<1>a. ASSUME NEW q \in Pids, attribute(q) # None PROVE attribute(q) = scriptOf(q) /\ gen(q) > 0
  BY <1>a, <1>w DEF attribute, NowInv
<1>1. CASE pkg = attribute(v) \/ pkg = walk(v)
  BY <1>0, <1>1, <1>a, <1>w
<1>2. ASSUME NEW q \in Pids, TakeClone(q), NextLine(q).child = v,
             \/ pkg = attribute(q)
             \/ /\ attributionSnapshotByPid[q] # None /\ ~attributionSnapshotByPid[q].stale
                /\ pkg = attributionSnapshotByPid[q].pkg
      PROVE  gen(v) > 0 /\ pkg = scriptOf(v)
  <2> DEFINE i == taken[q] + 1
  <2>1. Untaken(q) /\ NextLine(q).kind = "clone"
    BY <1>2 DEF TakeClone, Take
  <2>2. i \in DOMAIN file[q] /\ NextLine(q) = file[q][i]
    BY <2>1, EventType DEF Base, NextLine
  <2>3. i \in taken[q] + 1..Len(file[q])
    BY <2>1 DEF Untaken, Base, TypeOK
  <2> HIDE DEF i
  <2>4. IsClone(q, i, v)
    BY <1>2, <2>1, <2>2 DEF IsClone
  <2>5. pkg = scriptOf(q)
    BY <1>0, <1>2, <1>a DEF NowInv
  <2>6. scriptOf(v) = scriptOf(q)
    BY <1>0, <2>3, <2>4, <2>5 DEF WaitingInv
  <2>7. \E h \in DOMAIN scripts[v] : TRUE
    BY <2>2, <2>4 DEF TreeInv, CloneInv
  <2> QED BY <1>0, <2>5, <2>6, <2>7
<1>3. ASSUME TakeShimEvent, NextRecord.pid = v, pkg = NextRecord.npm PROVE gen(v) > 0 /\ pkg = scriptOf(v)
  <2>1. shimTaken \in Nat /\ shimTaken < Len(shimFile) /\ shimFile \in Seq(Record)
    BY <1>3 DEF Base, TypeOK, TakeShimEvent, TakeRecord
  <2>2. shimTaken + 1 \in DOMAIN shimFile /\ shimTaken + 1 \in shimTaken + 1..Len(shimFile)
    BY <2>1
  <2>3. pkg = scripts[v][NextRecord.gen] /\ NextRecord.gen \in DOMAIN scripts[v]
    BY <1>0, <1>3, <2>2 DEF NameInv, TreeInv, GenInv, NextRecord
  <2>4. NextRecord.gen = gen(v)
    BY <1>3, <2>2 DEF WaitingInv, NextRecord
  <2> QED BY <1>0, <2>3, <2>4 DEF scriptOf, Last, gen
<1> QED BY <1>1, <1>2, <1>3 DEF Source

\* What a step of the dispatcher leaves alone.
LEMMA Untouched ==
    ASSUME TypeOK, NEW v \in Pids
    PROVE  /\ \A p \in Pids \ {v} : Takes(p) /\ (TakeClone(p) => NextLine(p).child # v) =>
                 cache'[v] = cache[v] /\ attributionSnapshotByPid'[v] = attributionSnapshotByPid[v]
           /\ (TakeStartup \/ TakeShimEvent) /\ NextRecord.pid # v =>
                 cache'[v] = cache[v] /\ attributionSnapshotByPid'[v] = attributionSnapshotByPid[v]
<1>0. cache \in [Pids -> Name \cup {"unread"}] /\ attributionSnapshotByPid \in [Pids -> Snapshot \cup {None}]
  BY DEF TypeOK
<1>1. ASSUME NEW p \in Pids \ {v}, Asked(p, attribute(p))
      PROVE  cache'[v] = cache[v] /\ attributionSnapshotByPid'[v] = attributionSnapshotByPid[v]
  BY <1>0, <1>1 DEF Asked, snapshotWith
<1>2. ASSUME NEW p \in Pids \ {v}, TakeClone(p), NextLine(p).child # v
      PROVE  cache'[v] = cache[v] /\ attributionSnapshotByPid'[v] = attributionSnapshotByPid[v]
  BY <1>0, <1>2 DEF TakeClone
<1>3. ASSUME NEW p \in Pids \ {v}, TakeExit(p)
      PROVE  cache'[v] = cache[v] /\ attributionSnapshotByPid'[v] = attributionSnapshotByPid[v]
  BY <1>0, <1>3 DEF TakeExit, snapshotWith
<1>4. ASSUME TakeStartup, NextRecord.pid # v
      PROVE  cache'[v] = cache[v] /\ attributionSnapshotByPid'[v] = attributionSnapshotByPid[v]
  BY <1>0, <1>4 DEF TakeStartup
<1>5. ASSUME TakeShimEvent, NextRecord.pid # v
      PROVE  cache'[v] = cache[v] /\ attributionSnapshotByPid'[v] = attributionSnapshotByPid[v]
  BY <1>0, <1>5 DEF TakeShimEvent, snapshotWith
<1> QED BY <1>1, <1>2, <1>3, <1>4, <1>5 DEF Takes, TakeSpawn, TakeFailed, TakeRead

\* When the tree of processes stays and less is waiting, what is known is still up to date.
LEMMA PromptKnown ==
    ASSUME Base, TreeInv, NameInv, "forge" \notin used, WaitingInv, NowInv, [Next]_vars, UNCHANGED treeVars,
           shimTaken' \in Nat, shimTaken' >= shimTaken, \A q \in Pids : taken'[q] \in Nat /\ taken'[q] >= taken[q]
    PROVE  WaitingInv' /\ NowInv'
<1>0. /\ scripts' = scripts /\ file' = file /\ shimFile' = shimFile
      /\ taken \in [Pids -> Nat] /\ shimTaken \in Nat /\ Len(shimFile) \in Nat /\ \A q \in Pids : Len(file[q]) \in Nat
  BY DEF treeVars, Base, TypeOK
<1>1. ASSUME NEW q \in Pids, NEW i \in taken'[q] + 1..Len(file[q])
      PROVE  /\ file[q][i].gen = gen(q)
             /\ \A c \in Pids : IsClone(q, i, c) /\ scriptOf(q) # None => scriptOf(c) = scriptOf(q)
  <2> DEFINE t == taken'[q]
             n == Len(file[q])
  <2>1. t \in Nat /\ taken[q] \in Nat /\ t >= taken[q] /\ n \in Nat /\ i \in t + 1..n
    BY <1>0
  <2> HIDE DEF t, n
  <2>2. i \in taken[q] + 1..n
    BY <2>1
  <2> QED BY <2>2 DEF WaitingInv, n
<1>2. WaitingInv'
  <2>1. ASSUME NEW i \in shimTaken' + 1..Len(shimFile) PROVE shimFile[i].gen = gen(shimFile[i].pid)
    <3> DEFINE t == shimTaken'
    <3>1. t \in Nat /\ t >= shimTaken /\ i \in t + 1..Len(shimFile)
      OBVIOUS
    <3> HIDE DEF t
    <3>2. i \in shimTaken + 1..Len(shimFile)
      BY <1>0, <3>1
    <3> QED BY <3>2 DEF WaitingInv
  <2>2. ASSUME NEW i \in shimTaken' + 1..Len(shimFile') PROVE shimFile'[i].gen = Len(scripts'[shimFile'[i].pid])
    BY <1>0, <2>1 DEF gen
  <2>3. ASSUME NEW q \in Pids, NEW i \in taken'[q] + 1..Len(file'[q])
        PROVE  /\ file'[q][i].gen = Len(scripts'[q])
               /\ \A c \in Pids : file'[q][i].kind = "clone" /\ file'[q][i].child = c /\ Last(scripts'[q]) # None
                      => Last(scripts'[c]) = Last(scripts'[q])
    <3>1. i \in taken'[q] + 1..Len(file[q])
      BY <1>0
    <3> QED BY <1>0, <1>1, <3>1 DEF IsClone, scriptOf, gen
  <2> QED BY <2>2, <2>3 DEF WaitingInv, IsClone, scriptOf, gen
<1>3. ASSUME NEW v \in Pids
      PROVE  /\ cache'[v] \notin {"unread", None} => gen(v) > 0 /\ cache'[v] = scriptOf(v)
             /\ attributionSnapshotByPid'[v] # None /\ ~attributionSnapshotByPid'[v].stale =>
                   gen(v) > 0 /\ attributionSnapshotByPid'[v].pkg = scriptOf(v)
  <2>1. Known(v)
    BY NextKnown
  <2>2. \A pkg : Source(v, pkg) => gen(v) > 0 /\ pkg = scriptOf(v)
    BY SourceNow
  <2>3. attribute(v) # None => gen(v) > 0 /\ attribute(v) = scriptOf(v)
    BY <2>2 DEF Source
  <2> QED BY <2>1, <2>2, <2>3 DEF Known, NowInv
<1>4. NowInv'
  BY <1>0, <1>3 DEF NowInv, scriptOf, gen
<1> QED BY <1>2, <1>4
\* Nobody who is gone becomes known again.
LEMMA PromptGone ==
    ASSUME Base, TreeInv, TakenInv, NameInv, "forge" \notin used, GoneInv, NEW p \in Pids, Takes(p),
           TakeExit(p) => lateFor(p) = {}
    PROVE  GoneInv'
<1>0. /\ UNCHANGED treeVars /\ shimTaken' = shimTaken /\ taken'[p] = taken[p] + 1 /\ taken[p] \in Nat
      /\ \A q \in Pids \ {p} : taken'[q] = taken[q]
      /\ live' = live /\ file' = file /\ shimFile' = shimFile
      /\ \A q \in Pids : taken[q] \in Nat /\ Len(file[q]) \in Nat /\ DOMAIN file[q] = 1..Len(file[q])
      /\ taken[p] < Len(file[p])
      /\ cache \in [Pids -> Name \cup {"unread"}] /\ attributionSnapshotByPid \in [Pids -> Snapshot \cup {None}]
  <2>1. /\ taken \in [Pids -> Nat] /\ file \in [Pids -> Seq(Line)]
        /\ cache \in [Pids -> Name \cup {"unread"}] /\ attributionSnapshotByPid \in [Pids -> Snapshot \cup {None}]
    BY DEF Base, TypeOK
  <2>2. \A q \in Pids : taken[q] \in Nat /\ Len(file[q]) \in Nat /\ DOMAIN file[q] = 1..Len(file[q])
    BY <2>1
  <2> QED BY <2>1, <2>2, TakesOne DEF treeVars
<1>1. \A q \in Pids : taken'[q] + 1..Len(file[q]) \subseteq taken[q] + 1..Len(file[q])
  <2>1. \A q \in Pids \ {p} : taken'[q] + 1..Len(file[q]) \subseteq taken[q] + 1..Len(file[q])
    BY <1>0
  <2>2. taken'[p] + 1..Len(file[p]) \subseteq taken[p] + 1..Len(file[p])
    BY <1>0
  <2> QED BY <2>1, <2>2
<1>2. \A v \in Pids : ~ForksUntaken(v) => ~ForksUntaken(v)'
  BY <1>0, <1>1 DEF ForksUntaken, IsClone
<1>3. \A v \in Pids : ~RecordsUntaken(v) => ~RecordsUntaken(v)'
  BY <1>0 DEF RecordsUntaken
<1>4. ASSUME NEW v \in Pids \ {p}, v \notin live, ~Untaken(v)'
      PROVE  /\ cache'[v] = "unread"
             /\ attributionSnapshotByPid'[v] # None => attributionSnapshotByPid'[v].stale
             /\ ~ForksUntaken(v)' /\ ~RecordsUntaken(v)'
  <2>1. Gone(v)
    BY <1>0, <1>4 DEF Gone, Untaken
  <2>2. /\ cache[v] = "unread"
        /\ attributionSnapshotByPid[v] # None => attributionSnapshotByPid[v].stale
        /\ ~ForksUntaken(v) /\ ~RecordsUntaken(v)
    BY <2>1 DEF GoneInv
  <2>3. TakeClone(p) => NextLine(p).child # v
    <3>1. taken[p] + 1 \in taken[p] + 1..Len(file[p])
      BY <1>0
    <3>2. TakeClone(p) => file[p][taken[p] + 1].kind = "clone"
      BY DEF TakeClone, Take, NextLine
    <3> QED BY <2>2, <3>1, <3>2 DEF ForksUntaken, IsClone, NextLine
  <2>4. cache'[v] = cache[v] /\ attributionSnapshotByPid'[v] = attributionSnapshotByPid[v]
    BY <2>3, Untouched DEF Base
  <2> QED BY <1>2, <1>3, <2>2, <2>4
<1>5. ASSUME p \notin live, ~Untaken(p)'
      PROVE  /\ cache'[p] = "unread"
             /\ attributionSnapshotByPid'[p] # None => attributionSnapshotByPid'[p].stale
             /\ ~ForksUntaken(p)' /\ ~RecordsUntaken(p)'
  <2>1. taken[p] + 1 = Len(file[p])
    BY <1>0, <1>5 DEF Untaken
  <2>2. NextLine(p).kind = "exit"
    <3> DEFINE n == Len(file[p])
    <3>1. n \in DOMAIN file[p] /\ n \in Nat
      BY <1>0
    <3>2. \E m \in n..Len(file[p]) : file[p][m].kind = "exit"
      BY <1>5, <3>1 DEF TreeInv, ExitInv
    <3>3. \A m \in n..Len(file[p]) : m = n
      BY <3>1
    <3>4. file[p][n].kind = "exit"
      BY <3>2, <3>3
    <3> QED BY <2>1, <3>4 DEF NextLine
  <2>3. TakeExit(p)
    BY <2>2 DEF Takes, TakeSpawn, TakeFailed, TakeRead, TakeClone, Take
  <2>4. walk(p) = None
    BY <1>5, WalkFact DEF TreeInv
  <2>5. /\ cache' = [cache EXCEPT ![p] = "unread"]
        /\ attributionSnapshotByPid' =
              [attributionSnapshotByPid EXCEPT ![p] = IF @ = None THEN None ELSE [@ EXCEPT !.stale = TRUE]]
    BY <2>3, <2>4 DEF TakeExit
  <2>6. cache'[p] = "unread" /\ (attributionSnapshotByPid'[p] # None => attributionSnapshotByPid'[p].stale)
    BY <1>0, <2>5 DEF Snapshot
  <2>7. "record" \notin lateFor(p) /\ "clone" \notin lateFor(p)
    BY <2>3
  <2>8. ~RecordsUntaken(p)
    <3>1. "record" \in {w \in {"record"} : \E i \in shimTaken + 1..Len(shimFile) : shimFile[i].pid = p} <=>
             \E i \in shimTaken + 1..Len(shimFile) : shimFile[i].pid = p
      OBVIOUS
    <3> QED BY <2>7, <3>1 DEF lateFor, RecordsUntaken
  <2>9. ~ForksUntaken(p)
    <3>1. "clone" \in {w \in {"clone"} : \E q \in Pids : \E i \in taken[q] + 1..Len(file[q]) :
                                             file[q][i].kind = "clone" /\ file[q][i].child = p} <=>
             \E q \in Pids : \E i \in taken[q] + 1..Len(file[q]) : file[q][i].kind = "clone" /\ file[q][i].child = p
      OBVIOUS
    <3> QED BY <2>7, <3>1 DEF lateFor, ForksUntaken, IsClone
  <2> QED BY <1>2, <1>3, <2>6, <2>8, <2>9
<1> QED BY <1>0, <1>4, <1>5 DEF GoneInv, Gone

LEMMA PromptGoneRecord ==
    ASSUME Base, GoneInv, TakeStartup \/ TakeShimEvent
    PROVE  GoneInv'
<1>0. /\ taken' = taken /\ shimTaken' = shimTaken + 1 /\ shimTaken \in Nat /\ shimTaken < Len(shimFile)
      /\ live' = live /\ file' = file /\ shimFile' = shimFile /\ Len(shimFile) \in Nat
  <2>1. Len(shimFile) \in Nat
    BY DEF Base, TypeOK
  <2> QED BY <2>1, TakesRecord DEF treeVars
<1>1. shimTaken + 1 \in shimTaken + 1..Len(shimFile) /\ shimTaken' + 1..Len(shimFile) \subseteq shimTaken + 1..Len(shimFile)
  BY <1>0
<1>2. ASSUME NEW v \in Pids, Gone(v)
      PROVE  /\ cache'[v] = "unread"
             /\ attributionSnapshotByPid'[v] # None => attributionSnapshotByPid'[v].stale
             /\ ~ForksUntaken(v)' /\ ~RecordsUntaken(v)'
  <2>1. /\ cache[v] = "unread"
        /\ attributionSnapshotByPid[v] # None => attributionSnapshotByPid[v].stale
        /\ ~ForksUntaken(v) /\ ~RecordsUntaken(v)
    BY <1>2 DEF GoneInv
  <2>2. NextRecord.pid # v
    BY <1>1, <2>1 DEF RecordsUntaken, NextRecord
  <2>3. cache'[v] = cache[v] /\ attributionSnapshotByPid'[v] = attributionSnapshotByPid[v]
    BY <2>2, Untouched DEF Base
  <2>4. ~ForksUntaken(v)'
    BY <1>0, <2>1 DEF ForksUntaken, IsClone
  <2>5. ~RecordsUntaken(v)'
    BY <1>0, <1>1, <2>1 DEF RecordsUntaken
  <2> QED BY <2>1, <2>3, <2>4, <2>5
<1>3. \A v \in Pids : Gone(v)' => Gone(v)
  BY <1>0 DEF Gone, Untaken
<1> QED BY <1>2, <1>3 DEF GoneInv

\* What is reported and sampled of a line is true.
LEMMA PromptSaid ==
    ASSUME Base, TreeInv, NameInv, "forge" \notin used, WaitingInv, NowInv, SaidInv, NEW p \in Pids, Takes(p)
    PROVE  SaidInv'
<1>0. Untaken(p) /\ scripts' = scripts /\ taken[p] \in Nat /\ Len(file[p]) \in Nat /\ [Next]_vars
  <2>1. taken[p] \in Nat /\ file[p] \in Seq(Line)
    BY DEF Base, TypeOK
  <2>2. Untaken(p) /\ scripts' = scripts
    BY TakesOne DEF treeVars, Untaken
  <2> QED BY <2>1, <2>2 DEF Next
<1>1. thisEvent(p).pid = p /\ thisEvent(p).gen = NextLine(p).gen /\ taken[p] + 1 \in DOMAIN file[p]
  BY <1>0, EventType DEF Base
<1>2. thisEvent(p).gen = gen(p) /\ gen(p) \in DOMAIN scripts[p]
  <2>1. taken[p] + 1 \in taken[p] + 1..Len(file[p])
    BY <1>0 DEF Untaken
  <2> QED BY <1>1, <2>1 DEF WaitingInv, TreeInv, GenInv, NextLine
<1>3. truth(thisEvent(p)) = scriptOf(p)
  BY <1>1, <1>2 DEF truth, scriptOf, Last, gen
<1>4. attribute(p) # None => attribute(p) = scriptOf(p)
  BY SourceNow DEF Source
<1>5. usableSnapshot(p) \in {Unattributed, scriptOf(p)}
  BY DEF usableSnapshot, NowInv
<1>6. \A pkg \in {Unattributed, scriptOf(p)} : TrueOf(thisEvent(p), pkg)
  BY <1>1, <1>2, <1>3 DEF TrueOf
<1>7. ASSUME NEW r \in reports' \ reports
      PROVE  r.event = thisEvent(p) /\ r.pkg \in {Unattributed, scriptOf(p)}
  <2>1. \A pkg, how : Reports(thisEvent(p), pkg, how) => r = [event |-> thisEvent(p), pkg |-> pkg, how |-> how]
    BY <1>7 DEF Reports
  <2>2. CASE reports' = reports
    BY <1>7, <2>2
  <2>3. ASSUME EmitsSpawn(p, attribute(p)) PROVE r.event = thisEvent(p) /\ r.pkg \in {Unattributed, scriptOf(p)}
    BY <1>4, <1>5, <1>7, <2>1, <2>3 DEF EmitsSpawn
  <2>4. CASE TakeSpawn(p) \/ TakeFailed(p)
    BY <2>3, <2>4 DEF TakeSpawn, TakeFailed
  <2>5. CASE TakeRead(p)
    BY <1>4, <1>7, <2>1, <2>5 DEF TakeRead
  <2>6. CASE TakeClone(p) \/ TakeExit(p)
    BY <2>2, <2>6 DEF TakeClone, TakeExit, outVars
  <2> QED BY <2>4, <2>5, <2>6 DEF Takes
<1>8. ASSUME NEW v \in Pids, NEW i \in DOMAIN straceExecsByPid'[v]
      PROVE  TrueOf(straceExecsByPid'[v][i].event, straceExecsByPid'[v][i].pkg)
  <2>1. straceExecsByPid \in [Pids -> Seq([event : Event, pkg : Pkgs \cup {Unattributed}])]
        /\ straceExecsByPid' \in [Pids -> Seq([event : Event, pkg : Pkgs \cup {Unattributed}])]
    BY <1>0, NextBase DEF Base, TypeOK
  <2>2. i \in 1..Len(straceExecsByPid'[v]) /\ DOMAIN straceExecsByPid[v] = 1..Len(straceExecsByPid[v])
    BY <2>1
  <2>3. CASE i \in 1..Len(straceExecsByPid[v]) /\ straceExecsByPid'[v][i] = straceExecsByPid[v][i]
    BY <2>2, <2>3 DEF SaidInv
  <2>4. ASSUME TakeSpawn(v), straceExecsByPid'[v][i] =
                 [event |-> thisEvent(v), pkg |-> IF attribute(v) # None THEN attribute(v) ELSE usableSnapshot(v)]
        PROVE  TrueOf(straceExecsByPid'[v][i].event, straceExecsByPid'[v][i].pkg)
    <3>1. v = p
      <4>1. Takes(v)
        BY <2>4 DEF Takes
      <4>2. taken'[v] = taken[v] + 1 /\ taken[v] \in Nat
        BY <4>1, TakesOne
      <4>3. v # p => taken'[v] = taken[v]
        BY TakesOne
      <4> QED BY <4>2, <4>3
    <3>2. /\ straceExecsByPid'[v][i].event = thisEvent(v)
          /\ straceExecsByPid'[v][i].pkg = IF attribute(v) # None THEN attribute(v) ELSE usableSnapshot(v)
      BY <2>4
    <3> QED BY <1>4, <1>5, <1>6, <3>1, <3>2
  <2> QED BY <1>0, <2>2, <2>3, <2>4, SamplesGrow
<1> QED BY <1>0, <1>6, <1>7, <1>8 DEF SaidInv, TrueOf, truth
LEMMA PromptSaidRecord ==
    ASSUME Base, SaidInv, TakeStartup \/ TakeShimEvent
    PROVE  SaidInv'
<1>1. scripts' = scripts /\ straceExecsByPid' = straceExecsByPid
  BY TakesRecord DEF treeVars
<1>2. ASSUME NEW r \in reports', r.event.from = "strace" PROVE r \in reports
  BY <1>2 DEF TakeStartup, TakeShimEvent, Reports
<1> QED BY <1>1, <1>2 DEF SaidInv, TrueOf, truth

\* At the end only samples are added.
LEMMA PromptFinish ==
    ASSUME Base, PromptParts, Finish
    PROVE  PromptParts'
<1>0. /\ UNCHANGED <<live, scripts, file, shimFile, taken, shimTaken, cache, attributionSnapshotByPid>>
      /\ straceExecsByPid' = straceExecsByPid
  BY DEF Finish, treeVars, attrVars, countVars
<1>1. WaitingInv' /\ GoneInv' /\ NowInv'
  <2>1. WaitingInv'
    BY <1>0 DEF PromptParts, WaitingInv, IsClone, scriptOf, gen
  <2>2. GoneInv'
    BY <1>0 DEF PromptParts, GoneInv, Gone, Untaken, ForksUntaken, RecordsUntaken, IsClone
  <2>3. NowInv'
    BY <1>0 DEF PromptParts, NowInv, scriptOf, gen
  <2> QED BY <2>1, <2>2, <2>3
<1>2. ASSUME NEW r \in reports', r \notin reports, r.how # "parked"
      PROVE  \E p \in Pids : \E i \in DOMAIN straceExecsByPid[p] :
                 r.event = straceExecsByPid[p][i].event /\ r.pkg = straceExecsByPid[p][i].pkg
  <2>0. PICK p \in Pids : \E b \in ToSet(bypasses(p)) : r = [event |-> b.event, pkg |-> b.pkg, how |-> "bypass"]
    BY <1>2 DEF Finish
  <2>1. PICK b \in ToSet(bypasses(p)) : r = [event |-> b.event, pkg |-> b.pkg, how |-> "bypass"]
    BY <2>0
  <2>2. r.event = b.event /\ r.pkg = b.pkg
    BY <2>1
  <2>3. \E i \in 1..Len(straceExecsByPid[p]) : b = straceExecsByPid[p][i]
    BY Bypassed
  <2>4. DOMAIN straceExecsByPid[p] = 1..Len(straceExecsByPid[p])
    <3>1. straceExecsByPid[p] \in Seq([event : Event, pkg : Pkgs \cup {Unattributed}])
      BY DEF Base, TypeOK
    <3> QED BY <3>1
  <2> QED BY <2>2, <2>3, <2>4
<1>3. SaidInv'
  <2>1. ASSUME NEW r \in reports', r.event.from = "strace", r.how # "parked" PROVE TrueOf(r.event, r.pkg)
    <3>1. CASE r \in reports
      BY <2>1, <3>1 DEF PromptParts, SaidInv
    <3>2. CASE r \notin reports
      BY <1>2, <2>1, <3>2 DEF PromptParts, SaidInv
    <3> QED BY <3>1, <3>2
  <2> QED BY <1>0, <2>1 DEF PromptParts, SaidInv, TrueOf, truth
<1> QED BY <1>1, <1>3 DEF PromptParts

PromptInv == RootedInv /\ NameInv /\ (Prompt => PromptParts)

LEMMA PromptStart == Init => PromptInv
<1> SUFFICES ASSUME Init PROVE PromptInv
  OBVIOUS
<1>0. RootedInv /\ NameInv
  BY ParkedStart DEF ParkedInv
<1>1. /\ \A p \in Pids : file[p] = <<>> /\ taken[p] = 0 /\ cache[p] = "unread" /\ attributionSnapshotByPid[p] = None
                         /\ straceExecsByPid[p] = <<>>
      /\ shimFile = <<>> /\ shimTaken = 0 /\ reports = {}
  BY DEF Init
<1>2. Len(<<>>) = 0 /\ 0 + 1..0 = {} /\ DOMAIN <<>> = {}
  OBVIOUS
<1>3. WaitingInv
  BY <1>1, <1>2 DEF WaitingInv
<1>4. GoneInv
  BY <1>1, <1>2 DEF GoneInv, ForksUntaken, RecordsUntaken
<1>5. NowInv
  BY <1>1 DEF NowInv
<1>6. SaidInv
  BY <1>1, <1>2 DEF SaidInv
<1> QED BY <1>0, <1>3, <1>4, <1>5, <1>6 DEF PromptInv, PromptParts

LEMMA PromptNext == PromptInv /\ [Next]_vars => PromptInv'
<1> SUFFICES ASSUME PromptInv, [Next]_vars, Prompt' PROVE PromptParts'
  <2>1. PromptInv /\ [Next]_vars => RootedInv' /\ NameInv'
    BY RootedNext, NameNext DEF PromptInv, RootedInv, TreeInv
  <2> QED BY <2>1 DEF PromptInv
<1>0. /\ Base /\ TreeInv /\ TakenInv /\ EventsInv /\ NameInv /\ PromptParts /\ "forge" \notin used
      /\ WaitingInv /\ GoneInv /\ NowInv /\ SaidInv
  BY PromptBefore DEF PromptInv, RootedInv, PromptParts, Prompt
<1>1. ASSUME NEW p \in Pids, Processes(p) PROVE PromptParts'
  <2>1. \A c \in Pids : Fork(p, c) =>
            scripts[c] = <<>> \/ (shimTaken >= Len(shimFile) /\ \A q \in Pids : ~Untaken(q))
    BY <1>0, PromptBefore
  <2> QED BY <1>0, <1>1, <2>1, PromptProcess
<1>2. ASSUME NEW p \in Pids, Takes(p) PROVE PromptParts'
  <2>1. UNCHANGED treeVars /\ shimTaken' = shimTaken /\ shimTaken \in Nat
        /\ \A q \in Pids : taken'[q] \in Nat /\ taken'[q] >= taken[q]
    <3>1. shimTaken \in Nat /\ taken \in [Pids -> Nat]
      BY <1>0 DEF Base, TypeOK
    <3> QED BY <1>0, <1>2, <3>1, TakesOne
  <2>2. WaitingInv' /\ NowInv'
    BY <1>0, <2>1, PromptKnown
  <2>3. GoneInv'
    BY <1>0, <1>2, PromptBefore, PromptGone
  <2>4. SaidInv'
    BY <1>0, <1>2, PromptSaid
  <2> QED BY <2>2, <2>3, <2>4 DEF PromptParts
<1>3. CASE TakeStartup \/ TakeShimEvent
  <2>1. UNCHANGED treeVars /\ shimTaken' \in Nat /\ shimTaken' >= shimTaken
        /\ \A q \in Pids : taken'[q] \in Nat /\ taken'[q] >= taken[q]
    <3>1. shimTaken \in Nat /\ taken \in [Pids -> Nat]
      BY <1>0 DEF Base, TypeOK
    <3> QED BY <1>0, <1>3, <3>1, TakesRecord
  <2>2. WaitingInv' /\ NowInv'
    BY <1>0, <2>1, PromptKnown
  <2>3. GoneInv' /\ SaidInv'
    BY <1>0, <1>3, PromptGoneRecord, PromptSaidRecord
  <2> QED BY <2>2, <2>3 DEF PromptParts
<1>4. CASE Finish
  BY <1>0, <1>4, PromptFinish
<1>5. CASE UNCHANGED vars
  <2>0. /\ UNCHANGED <<live, scripts, file, shimFile, taken, shimTaken, cache, attributionSnapshotByPid>>
        /\ UNCHANGED <<reports, straceExecsByPid>>
    BY <1>5 DEF vars, treeVars, attrVars, countVars, outVars
  <2>1. WaitingInv'
    BY <1>0, <2>0 DEF WaitingInv, IsClone, scriptOf, gen
  <2>2. GoneInv'
    BY <1>0, <2>0 DEF GoneInv, Gone, Untaken, ForksUntaken, RecordsUntaken, IsClone
  <2>3. NowInv' /\ SaidInv'
    BY <1>0, <2>0 DEF NowInv, SaidInv, TrueOf, truth, scriptOf, gen
  <2> QED BY <2>1, <2>2, <2>3 DEF PromptParts
<1> QED BY <1>1, <1>2, <1>3, <1>4, <1>5 DEF Next, Done

\* If the dispatcher keeps up, what strace saw a script do is reported under its package or as
\* unattributed although pids are reused: no answer and no snapshot outlives its process.
THEOREM PromptTrueHolds == Spec => []PromptTrue
<1>1. PromptInv => PromptTrue
  <2> SUFFICES ASSUME PromptInv, Prompt, NEW r \in reports, r.how # "parked" PROVE IsTrue(r)
    BY DEF PromptTrue, Prompt
  <2> QED BY DEF PromptInv, PromptParts, SaidInv, TrueOf, IsTrue
<1> QED BY <1>1, PromptStart, PromptNext, PTL DEF Spec
=============================================================================
