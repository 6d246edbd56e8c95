---------------------------- MODULE Attribution ----------------------------
(***************************************************************************)
(* How the dispatcher of phase-install.ts decides which package an event   *)
(* belongs to, and which execs of a process its shim has not recorded.     *)
(*                                                                         *)
(* The package manager forks and starts scripts, which fork, exec and      *)
(* exit; pids are reused.  What they do is written to one strace file per  *)
(* pid, shared by all generations of the pid, and to the events file of    *)
(* the shim.  The dispatcher takes lines from these files while the        *)
(* processes go on, and reads /proc as it is at that moment.               *)
(*                                                                         *)
(* A package stands for a package and its lifecycle stage.  An event is    *)
(* one line; paths, addresses and the bootstrap reads of Node are left     *)
(* out.                                                                    *)
(***************************************************************************)
EXTENDS Integers, Sequences, FiniteSets, SequencesExt

CONSTANTS
    Pids,
    Root,        \* the package manager, strace's child
    Pkgs,
    RootPkg,     \* the repository's own package
    Allowed,     \* the steps the processes may make
    MaxSteps,    \* bound: steps of the processes
    Unattributed,
    None

Steps == {"fork", "start", "exec", "raw", "scrub", "rawscrub", "forge", "fail", "read", "other",
          "startup", "exit"}

ASSUME RootAssumption == Root \in Pids /\ RootPkg \in Pkgs
ASSUME NoneAssumption ==
    {Unattributed, None, "unread"} \cap (Pkgs \cup Pids) = {} /\ None \notin {Unattributed, "unread"}
ASSUME StepsAssumption == Allowed \subseteq Steps /\ MaxSteps \in Nat

VARIABLES
    \* the processes
    live, ppid,
    image,       \* the program in a pid: its npm_* variables, the shim's copy of them, the shim
    scripts,     \* the package whose script each generation of a pid ran
    steps,
    file, shimFile,
    used,        \* the steps made so far
    behind,      \* a pid was reused while lines were still to be taken
    late,        \* what was taken only after the exit line of its process
    \* the dispatcher
    taken, shimTaken,
    cache,       \* Attribution.cache
    attributionSnapshotByPid, attributionGenByPid, nodeStartupAttributionByPid,
    pidSawExit, pidRecycled,
    childParent, childParentReused, execCwd,
    straceExecsByPid, shimExecCountByPid,
    deferredNullAttribEvents,
    reports,     \* what was emitted
    ended

treeVars == <<live, ppid, image, scripts, steps, file, shimFile, used, behind>>
lineVars == <<late, pidSawExit, pidRecycled, childParent, childParentReused, execCwd>>
countVars == <<straceExecsByPid, shimExecCountByPid>>
attrVars == <<cache, attributionSnapshotByPid, attributionGenByPid>>
outVars == <<deferredNullAttribEvents, reports>>
vars == <<treeVars, taken, shimTaken, attrVars, nodeStartupAttributionByPid, lineVars, countVars,
          outVars, ended>>

Name == Pkgs \cup {None}
Image == [env : Name, canon : Name, shim : BOOLEAN]
Line == [kind : {"clone", "spawn", "failed", "read", "exit"}, child : Pids, recorded : BOOLEAN,
         inWorkDir : BOOLEAN, gen : Nat]
Record == [kind : {"exec", "failed", "other", "startup"}, pid : Pids, npm : Name, gen : Nat]
Event == [pid : Pids, gen : Nat, from : {"strace", "shim"}, at : Nat]
Snapshot == [pkg : Pkgs, stale : BOOLEAN, old : BOOLEAN]
Generation == [pkg : Pkgs, ambiguous : BOOLEAN]
ASSUME RecordsAssumption == (\A s \in Snapshot : s # None) /\ \A g \in Generation : g # None
Report == [event : Event, pkg : Pkgs \cup {Unattributed}, how : {"live", "parked", "shim", "bypass"}]

TypeOK ==
    /\ live \subseteq Pids /\ ppid \in [Pids -> Pids \cup {None}] /\ image \in [Pids -> Image]
    /\ scripts \in [Pids -> Seq(Name)] /\ steps \in 0..MaxSteps
    /\ file \in [Pids -> Seq(Line)] /\ shimFile \in Seq(Record)
    /\ used \subseteq Steps /\ behind \in BOOLEAN /\ late \subseteq {"record", "clone"}
    /\ taken \in [Pids -> Nat] /\ shimTaken \in Nat /\ cache \in [Pids -> Name \cup {"unread"}]
    /\ attributionSnapshotByPid \in [Pids -> Snapshot \cup {None}]
    /\ attributionGenByPid \in [Pids -> Generation \cup {None}]
    /\ nodeStartupAttributionByPid \in [Pids -> Name]
    /\ pidSawExit \subseteq Pids /\ pidRecycled \subseteq Pids
    /\ childParent \in [Pids -> Pids \cup {None}] /\ childParentReused \subseteq Pids
    /\ execCwd \in [Pids -> {"none", "workDir", "elsewhere"}]
    /\ straceExecsByPid \in [Pids -> Seq([event : Event, pkg : Pkgs \cup {Unattributed}])]
    /\ shimExecCountByPid \in [Pids -> Nat]
    /\ deferredNullAttribEvents \subseteq Event /\ reports \subseteq Report /\ ended \in BOOLEAN

Init ==
    /\ live = {Root} /\ ppid = [p \in Pids |-> None]
    /\ image = [p \in Pids |-> [env |-> None, canon |-> None, shim |-> TRUE]]
    /\ scripts = [p \in Pids |-> IF p = Root THEN <<None>> ELSE <<>>] /\ steps = 0
    /\ file = [p \in Pids |-> <<>>] /\ shimFile = <<>> /\ used = {} /\ behind = FALSE /\ late = {}
    /\ taken = [p \in Pids |-> 0] /\ shimTaken = 0 /\ cache = [p \in Pids |-> "unread"]
    /\ attributionSnapshotByPid = [p \in Pids |-> None]
    /\ attributionGenByPid = [p \in Pids |-> None]
    /\ nodeStartupAttributionByPid = [p \in Pids |-> None]
    /\ pidSawExit = {} /\ pidRecycled = {}
    /\ childParent = [p \in Pids |-> None] /\ childParentReused = {}
    /\ execCwd = [p \in Pids |-> "none"]
    /\ straceExecsByPid = [p \in Pids |-> <<>>] /\ shimExecCountByPid = [p \in Pids |-> 0]
    /\ deferredNullAttribEvents = {} /\ reports = {} /\ ended = FALSE

-----------------------------------------------------------------------------
(* The processes.                                                          *)

gen(p) == Len(scripts[p])
scriptOf(p) == Last(scripts[p])

aLine(p) == [kind |-> "read", child |-> Root, recorded |-> FALSE, inWorkDir |-> TRUE, gen |-> gen(p)]
Untaken(p) == taken[p] < Len(file[p])

\* p makes a step, with its line for strace and its records for the shim.
Step(p, step, lines, records) ==
    /\ ~ended /\ p \in live /\ step \in Allowed /\ steps < MaxSteps
    /\ steps' = steps + 1 /\ used' = used \cup {step}
    /\ file' = [file EXCEPT ![p] = @ \o lines]
    /\ shimFile' = shimFile \o records
    /\ UNCHANGED <<taken, shimTaken, attrVars, nodeStartupAttributionByPid, lineVars, countVars, outVars,
                   ended>>

\* What the shim of p writes, if p has one.
Records(p, kinds) ==
    IF ~image[p].shim THEN <<>>
    ELSE [i \in DOMAIN kinds |-> [kind |-> kinds[i], pid |-> p, npm |-> image[p].canon, gen |-> gen(p)]]

\* The package manager and scripts fork; a number may be used again.
Fork(p, c) ==
    /\ p \in live /\ c \notin live /\ (p = Root \/ scriptOf(p) # None)
    /\ Step(p, "fork", <<[aLine(p) EXCEPT !.kind = "clone", !.child = c]>>, <<>>)
    /\ live' = live \cup {c} /\ ppid' = [ppid EXCEPT ![c] = p]
    /\ image' = [image EXCEPT ![c] = image[p]]
    /\ scripts' = [scripts EXCEPT ![c] = Append(@, scriptOf(p))]
    /\ behind' = (behind \/ (scripts[c] # <<>> /\ (shimTaken < Len(shimFile) \/ \E q \in Pids : Untaken(q))))

\* A child of the package manager becomes the script of k.
Start(p, k) ==
    /\ p # Root /\ p \in live /\ scriptOf(p) = None
    /\ Step(p, "start", <<[aLine(p) EXCEPT !.kind = "spawn", !.recorded = image[p].shim,
                                          !.inWorkDir = (k = RootPkg)]>>, Records(p, <<"exec">>))
    /\ image' = [image EXCEPT ![p] = [env |-> k, canon |-> k, shim |-> TRUE]]
    /\ scripts' = [scripts EXCEPT ![p][gen(p)] = k]
    /\ UNCHANGED <<live, ppid, behind>>

\* A script execs: through libc, where the shim records it and follows into the new program,
\* or with a raw system call; with its variables, without them, or under the repository's name.
Exec(p, how, inWorkDir) ==
    /\ how \in {"exec", "raw", "scrub", "rawscrub", "forge"}
    /\ p \in live /\ scriptOf(p) # None
    /\ LET raw == how \in {"raw", "rawscrub"} \/ ~image[p].shim
           env == CASE how \in {"scrub", "rawscrub"} -> None
                    [] how = "forge" -> RootPkg
                    [] OTHER -> image[p].env
       IN /\ Step(p, how, <<[aLine(p) EXCEPT !.kind = "spawn", !.recorded = ~raw, !.inWorkDir = inWorkDir]>>,
                  IF raw THEN <<>> ELSE Records(p, <<"exec">>))
          /\ image' = [image EXCEPT ![p] = [env |-> env, canon |-> env,
                                            shim |-> image[p].shim /\ how # "rawscrub"]]
    /\ UNCHANGED <<live, ppid, scripts, behind>>

\* An exec that fails: the shim has recorded it and takes it back.
Fail(p) ==
    /\ p \in live /\ scriptOf(p) # None
    /\ Step(p, "fail", <<[aLine(p) EXCEPT !.kind = "failed"]>>, Records(p, <<"exec", "failed">>))
    /\ UNCHANGED <<live, ppid, image, scripts, behind>>

Read(p) ==
    /\ Step(p, "read", <<aLine(p)>>, <<>>)
    /\ UNCHANGED <<live, ppid, image, scripts, behind>>

\* What only the shim sees: a variable that is read, or the end of Node's start.
ShimEvent(p, kind) ==
    /\ kind \in {"other", "startup"} /\ p \in live /\ image[p].shim /\ scriptOf(p) # None
    /\ Step(p, kind, <<>>, Records(p, <<kind>>))
    /\ UNCHANGED <<live, ppid, image, scripts, behind>>

\* Children of a dead process are init's.
Exit(p) ==
    /\ p # Root
    /\ Step(p, "exit", <<[aLine(p) EXCEPT !.kind = "exit"]>>, <<>>)
    /\ live' = live \ {p}
    /\ ppid' = [q \in Pids |-> IF ppid[q] = p THEN None ELSE ppid[q]]
    /\ UNCHANGED <<image, scripts, behind>>

-----------------------------------------------------------------------------
(* Attribution.                                                            *)

\* The processes a walk from p upwards comes to; it goes on while they have no npm_* variables.
visited(p) ==
    {q \in Pids : \A S \in SUBSET Pids :
        /\ p \in S
        /\ \A a \in S \cap live : image[a].env = None /\ ppid[a] # None => ppid[a] \in S
        => q \in S}

\* _walk: the variables of the first process that has any.
walk(p) ==
    LET named == {q \in visited(p) \cap live : image[q].env # None}
    IN IF named = {} THEN None ELSE image[CHOOSE q \in named : TRUE].env

\* attribute: the first answer is kept, also when there is none.
attribute(p) == IF cache[p] # "unread" THEN cache[p] ELSE walk(p)

\* recordAttribution, on snapshots and generations s and g.
snapshotWith(s, p, pkg) == [s EXCEPT ![p] = [pkg |-> pkg, stale |-> FALSE, old |-> FALSE]]
generationWith(g, p, pkg) ==
    [g EXCEPT ![p] = [pkg |-> IF g[p] = None THEN pkg ELSE g[p].pkg,
                      ambiguous |-> g[p] # None /\ (g[p].ambiguous \/ g[p].pkg # pkg)]]

\* The answer for p is kept and, if there is one, recorded.
Asked(p, result) ==
    /\ cache' = [cache EXCEPT ![p] = result]
    /\ attributionSnapshotByPid' = IF result = None THEN attributionSnapshotByPid
                                   ELSE snapshotWith(attributionSnapshotByPid, p, result)
    /\ attributionGenByPid' = IF result = None THEN attributionGenByPid
                              ELSE generationWith(attributionGenByPid, p, result)

\* A snapshot from before the marker of a Node that says something else.
superseded(p) ==
    /\ attributionSnapshotByPid[p].old
    /\ nodeStartupAttributionByPid[p] \notin {None, attributionSnapshotByPid[p].pkg}

snapshotAttribution(p) ==
    IF attributionSnapshotByPid[p] = None \/ superseded(p) THEN None ELSE attributionSnapshotByPid[p].pkg
freshSnapshotAttribution(p) ==
    IF attributionSnapshotByPid[p] # None /\ attributionSnapshotByPid[p].stale THEN None
    ELSE snapshotAttribution(p)

\* What a snapshot says of an event of strace that /proc says nothing of.
usableSnapshot(p) ==
    IF attributionSnapshotByPid[p] = None \/ attributionSnapshotByPid[p].stale THEN Unattributed
    ELSE attributionSnapshotByPid[p].pkg

\* The first of a sequence of answers.
firstOf(answers) ==
    LET given == {i \in DOMAIN answers : answers[i] # None}
    IN IF given = {} THEN None ELSE answers[CHOOSE i \in given : \A j \in given : i <= j]

\* MUTANT of resolveDeferredAttribution: the signs that the pid was reused are not looked at.
Mut_resolveDeferredAttribution(p) ==
    IF attributionGenByPid[p] = None THEN None
    ELSE IF attributionGenByPid[p].ambiguous THEN Unattributed
    ELSE attributionGenByPid[p].pkg

resolveDeferredAttribution(p) ==
    IF attributionGenByPid[p] = None THEN None
    ELSE IF attributionGenByPid[p].ambiguous \/ p \in pidRecycled \cup childParentReused THEN Unattributed
    ELSE attributionGenByPid[p].pkg

-----------------------------------------------------------------------------
(* The dispatcher takes a line of strace.                                  *)

NextLine(p) == file[p][taken[p] + 1]
thisEvent(p) == [pid |-> p, gen |-> NextLine(p).gen, from |-> "strace", at |-> taken[p] + 1]

Take(p, kind) ==
    /\ ~ended /\ Untaken(p) /\ NextLine(p).kind = kind
    /\ taken' = [taken EXCEPT ![p] = @ + 1]
    /\ UNCHANGED <<treeVars, shimTaken, nodeStartupAttributionByPid, ended>>

Reports(event, pkg, how) == reports' = reports \cup {[event |-> event, pkg |-> pkg, how |-> how]}
Parks(event) == deferredNullAttribEvents' = deferredNullAttribEvents \cup {event}

\* MUTANT of EmitsSpawn: without a snapshot the spawn is dropped.
Mut_EmitsSpawn(p, result) ==
    /\ IF result = None /\ attributionSnapshotByPid[p] = None THEN UNCHANGED reports
       ELSE Reports(thisEvent(p), IF result # None THEN result ELSE usableSnapshot(p), "live")
    /\ UNCHANGED deferredNullAttribEvents

\* A spawn that /proc says nothing of goes by the snapshot, if there is one.
EmitsSpawn(p, result) ==
    IF result # None
    THEN Reports(thisEvent(p), result, "live") /\ UNCHANGED deferredNullAttribEvents
    ELSE IF attributionSnapshotByPid[p] # None
    THEN Reports(thisEvent(p), usableSnapshot(p), "live") /\ UNCHANGED deferredNullAttribEvents
    ELSE Parks(thisEvent(p)) /\ UNCHANGED reports

TakeSpawn(p) ==
    /\ Take(p, "spawn")
    /\ pidRecycled' = pidRecycled \cup ({p} \cap pidSawExit)
    /\ execCwd' = [execCwd EXCEPT ![p] = IF @ # "none" THEN @
                                         ELSE IF NextLine(p).inWorkDir THEN "workDir" ELSE "elsewhere"]
    /\ LET result == attribute(p)
           pkg == IF result # None THEN result ELSE usableSnapshot(p)
       IN /\ Asked(p, result)
          /\ straceExecsByPid' =
                [straceExecsByPid EXCEPT ![p] = Append(@, [event |-> thisEvent(p), pkg |-> pkg])]
          /\ EmitsSpawn(p, result)
    /\ UNCHANGED <<late, pidSawExit, childParent, childParentReused, shimExecCountByPid>>

TakeFailed(p) ==
    /\ Take(p, "failed")
    /\ Asked(p, attribute(p))
    /\ EmitsSpawn(p, attribute(p))
    /\ UNCHANGED <<lineVars, countVars>>

\* An open by an absolute path.
TakeRead(p) ==
    /\ Take(p, "read")
    /\ LET result == attribute(p)
       IN /\ Asked(p, result)
          /\ IF result # None
             THEN Reports(thisEvent(p), result, "live") /\ UNCHANGED deferredNullAttribEvents
             ELSE Parks(thisEvent(p)) /\ UNCHANGED reports
    /\ UNCHANGED <<lineVars, countVars>>

\* The child gets what its parent is known as.
TakeClone(p) ==
    /\ Take(p, "clone")
    /\ LET c == NextLine(p).child
           fresh == attributionSnapshotByPid[p] # None /\ ~attributionSnapshotByPid[p].stale
           sampled == attribute(p)
           pkg == IF fresh THEN attributionSnapshotByPid[p].pkg ELSE sampled
           recorded == (IF fresh \/ pkg = None THEN {} ELSE {p}) \cup (IF pkg = None THEN {} ELSE {c})
       IN /\ childParentReused' = childParentReused \cup {q \in {c} : childParent[c] \notin {None, p}}
          /\ childParent' = [childParent EXCEPT ![c] = p]
          /\ cache' = IF fresh THEN cache ELSE [cache EXCEPT ![p] = sampled]
          /\ attributionSnapshotByPid' =
                [q \in Pids |-> IF q \in recorded THEN [pkg |-> pkg, stale |-> FALSE, old |-> FALSE]
                                ELSE attributionSnapshotByPid[q]]
          /\ attributionGenByPid' =
                [q \in Pids |-> IF q \in recorded THEN generationWith(attributionGenByPid, q, pkg)[q]
                                ELSE attributionGenByPid[q]]
    /\ UNCHANGED <<late, pidSawExit, pidRecycled, execCwd, countVars, outVars>>

\* What of p is still to be taken.
lateFor(p) ==
    {w \in {"record"} : \E i \in shimTaken + 1..Len(shimFile) : shimFile[i].pid = p}
        \cup {w \in {"clone"} : \E q \in Pids : \E i \in taken[q] + 1..Len(file[q]) :
                                 file[q][i].kind = "clone" /\ file[q][i].child = p}

\* MUTANT of TakeExit: the cached answer is kept.
Mut_TakeExit(p) ==
    /\ Take(p, "exit")
    /\ late' = late \cup lateFor(p)
    /\ pidSawExit' = pidSawExit \cup {p}
    /\ attributionSnapshotByPid' =
          [attributionSnapshotByPid EXCEPT ![p] = IF @ = None THEN None ELSE [@ EXCEPT !.stale = TRUE]]
    /\ UNCHANGED <<cache, attributionGenByPid, pidRecycled, childParent, childParentReused, execCwd,
                   countVars, outVars>>

\* The exit line: what was cached is asked again, and nothing stays in the cache.
TakeExit(p) ==
    /\ Take(p, "exit")
    /\ late' = late \cup lateFor(p)
    /\ pidSawExit' = pidSawExit \cup {p}
    /\ cache' = [cache EXCEPT ![p] = "unread"]
    /\ IF walk(p) # None
       THEN /\ attributionSnapshotByPid' = snapshotWith(attributionSnapshotByPid, p, walk(p))
            /\ attributionGenByPid' = generationWith(attributionGenByPid, p, walk(p))
       ELSE /\ attributionSnapshotByPid' =
                 [attributionSnapshotByPid EXCEPT ![p] = IF @ = None THEN None ELSE [@ EXCEPT !.stale = TRUE]]
            /\ UNCHANGED attributionGenByPid
    /\ UNCHANGED <<pidRecycled, childParent, childParentReused, execCwd, countVars, outVars>>

-----------------------------------------------------------------------------
(* The dispatcher takes a record of the shim.                              *)

NextRecord == shimFile[shimTaken + 1]

TakeRecord(kinds) ==
    /\ ~ended /\ shimTaken < Len(shimFile) /\ NextRecord.kind \in kinds
    /\ shimTaken' = shimTaken + 1
    /\ UNCHANGED <<treeVars, taken, lineVars, straceExecsByPid, deferredNullAttribEvents, ended>>

\* The end of Node's start: older snapshots of the pid may be of another process.
TakeStartup ==
    /\ TakeRecord({"startup"})
    /\ LET p == NextRecord.pid
       IN /\ nodeStartupAttributionByPid' = [nodeStartupAttributionByPid EXCEPT ![p] = NextRecord.npm]
          /\ attributionSnapshotByPid' =
                [attributionSnapshotByPid EXCEPT ![p] = IF @ = None THEN None ELSE [@ EXCEPT !.old = TRUE]]
    /\ UNCHANGED <<cache, attributionGenByPid, shimExecCountByPid, reports>>

\* MUTANT of execCount: a failed exec stays counted.
Mut_execCount(n, kind) == IF kind = "exec" THEN n + 1 ELSE n

\* Records of execs, less those that failed.
execCount(n, kind) ==
    CASE kind = "exec" -> n + 1
      [] kind = "failed" -> IF n > 0 THEN n - 1 ELSE 0
      [] OTHER -> n

TakeShimEvent ==
    /\ TakeRecord({"exec", "failed", "other"})
    /\ LET r == NextRecord
           p == r.pid
           result == attribute(p)
           shimAttrib == IF r.kind = "other" THEN None ELSE r.npm
           pkg == firstOf(<<shimAttrib, result, freshSnapshotAttribution(p),
                            nodeStartupAttributionByPid[p], snapshotAttribution(p)>>)
           seed == firstOf(<<shimAttrib, result>>)
       IN /\ cache' = [cache EXCEPT ![p] = result]
          /\ shimExecCountByPid' =
                [shimExecCountByPid EXCEPT ![p] = execCount(@, r.kind)]
          /\ attributionSnapshotByPid' = IF seed = None THEN attributionSnapshotByPid
                                         ELSE snapshotWith(attributionSnapshotByPid, p, seed)
          /\ attributionGenByPid' = IF seed = None THEN attributionGenByPid
                                    ELSE generationWith(attributionGenByPid, p, seed)
          /\ IF pkg = None THEN UNCHANGED reports
             ELSE Reports([pid |-> p, gen |-> r.gen, from |-> "shim", at |-> shimTaken + 1], pkg, "shim")
    /\ UNCHANGED nodeStartupAttributionByPid

-----------------------------------------------------------------------------
(* The end of the run.                                                     *)

\* The last execs of p, as many as its shim has not recorded.
bypasses(p) ==
    LET samples == straceExecsByPid[p]
    IN SubSeq(samples, shimExecCountByPid[p] + 1, Len(samples))

\* The events still without a package, and the execs nobody recorded.
Finish ==
    /\ ~ended /\ shimTaken = Len(shimFile) /\ \A p \in Pids : ~Untaken(p)
    /\ reports' = reports
         \cup {[event |-> e, pkg |-> resolveDeferredAttribution(e.pid), how |-> "parked"] :
                  e \in {d \in deferredNullAttribEvents : resolveDeferredAttribution(d.pid) # None}}
         \cup {[event |-> s.event, pkg |-> s.pkg, how |-> "bypass"] :
                  s \in UNION {ToSet(bypasses(p)) : p \in Pids}}
    /\ deferredNullAttribEvents' = {}
    /\ ended' = TRUE
    /\ UNCHANGED <<treeVars, taken, shimTaken, attrVars, nodeStartupAttributionByPid, lineVars, countVars>>

\* Signs that the number of a pid was used again.
reused == childParentReused \cup pidRecycled

\* A climb over the clone edges from p, through the processes ok only, ends at the package
\* manager.
climbs(p, ok) ==
    /\ Root \notin reused
    /\ \A S \in SUBSET Pids :
          /\ p \in S
          /\ \A q \in (S \cap ok) \ (reused \cup {Root}) : childParent[q] # None => childParent[q] \in S
          => Root \in S

\* MUTANT of isRepoRootAnchored: wherever the programs started.
Mut_isRepoRootAnchored(p) == climbs(p, Pids)

\* Up to the package manager, over processes that were not reused and whose first program
\* started in the repository.
isRepoRootAnchored(p) == climbs(p, {q \in Pids : execCwd[q] # "elsewhere"})

Done == ended /\ UNCHANGED vars

Processes(p) ==
    \/ \E c \in Pids : Fork(p, c)
    \/ \E k \in Pkgs : Start(p, k)
    \/ \E how \in Steps, inWorkDir \in BOOLEAN : Exec(p, how, inWorkDir)
    \/ \E kind \in Steps : ShimEvent(p, kind)
    \/ Fail(p) \/ Read(p) \/ Exit(p)

Takes(p) == TakeSpawn(p) \/ TakeFailed(p) \/ TakeRead(p) \/ TakeClone(p) \/ TakeExit(p)

Next ==
    \/ \E p \in Pids : Processes(p) \/ Takes(p)
    \/ TakeStartup \/ TakeShimEvent \/ Finish \/ Done

Spec == Init /\ [][Next]_vars

-----------------------------------------------------------------------------
(* Properties.                                                             *)

\* The package whose script the process of an event ran.
truth(e) == scripts[e.pid][e.gen]

IsTrue(r) ==
    r.event.from = "strace" /\ truth(r.event) # None => r.pkg \in {truth(r.event), Unattributed}

\* What strace saw a script do is reported under its package or as unattributed although pids
\* are reused, if the dispatcher keeps up: nothing was waiting when a pid was reused, and neither
\* a record of a process nor the line of its fork came after its exit line.  Then no cached
\* answer and no snapshot outlives its process.
PromptTrue ==
    ~behind /\ late = {} /\ "forge" \notin used => \A r \in reports : r.how # "parked" => IsTrue(r)

\* S is closed under forking processes, and no pid in it was used twice.
SingleLine(S) ==
    \A q \in S : /\ gen(q) <= 1
                  /\ \A f \in Pids : \A i \in DOMAIN file[f] :
                        file[f][i].kind = "clone" /\ file[f][i].child = q => f \in S

\* An event parked without a package never gets that of another process with its pid, in
\* whatever order the files are read and however late, unless the number of a process above
\* it was used again as well.
ParkedTrue ==
    "forge" \notin used =>
        \A r \in reports : \A S \in SUBSET Pids :
            /\ r.how = "parked" /\ SingleLine(S)
            /\ \A f \in Pids : \A i \in DOMAIN file[f] :
                  file[f][i].kind = "clone" /\ file[f][i].child = r.event.pid => f \in S
            => IsTrue(r)

\* Each pid is blamed for as many execs as went past the shim, whatever order the two files
\* are read in, whether or not the process could be attributed, failed execs left out.
BypassExact ==
    ended => \A p \in Pids :
        Cardinality({r \in reports : r.how = "bypass" /\ r.event.pid = p})
          = Cardinality({i \in DOMAIN file[p] : file[p][i].kind = "spawn" /\ ~file[p][i].recorded})

\* Once the shim has named the package of a pid, nothing strace saw of that pid is lost.
SeededReported ==
    ended => \A p \in Pids :
        (\E i \in DOMAIN shimFile : shimFile[i].pid = p /\ shimFile[i].kind \in {"exec", "failed"}
                                    /\ shimFile[i].npm # None)
        => \A i \in DOMAIN file[p] : file[p][i].kind \in {"spawn", "failed", "read"}
             => \E r \in reports : r.event.from = "strace" /\ r.event.pid = p /\ r.event.at = i

\* A script of a dependency that calls itself the repository is not taken for it.
RootNeverForged ==
    ended => \A r \in reports :
        r.pkg = RootPkg /\ isRepoRootAnchored(r.event.pid) => truth(r.event) \in {RootPkg, None}
=============================================================================
