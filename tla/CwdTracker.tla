----------------------------- MODULE CwdTracker -----------------------------
(***************************************************************************)
(* How the dispatcher of phase-install.ts resolves relative opens: it      *)
(* follows every process's working directory from the strace lines.        *)
(*                                                                         *)
(* Strace writes one file per pid, so the dispatcher sees the lines of one *)
(* process in order and those of different processes in any order: a child *)
(* may be seen before the clone that made it.  The kernel half of the      *)
(* model runs a tree of processes and keeps the true directories; the      *)
(* other half takes the lines, file by file in any interleaving, keeps its *)
(* union-find of directories, parks the opens it cannot resolve yet and    *)
(* replays them at the end.                                                *)
(*                                                                         *)
(* Pids are not reused, an fchdir to a known descriptor is a chdir, and    *)
(* the lines are taken once the tree is done: taking them reads nothing    *)
(* but the files, so any order in which they are taken while they are      *)
(* being written is also an order of taking them afterwards.               *)
(***************************************************************************)
EXTENDS Integers, Sequences, FiniteSets

CONSTANTS
    Pids,
    Root,       \* the package manager, strace's child
    Dirs,
    WorkDir,    \* input.cwd
    Below,      \* path.resolve(dir, p) for the relative p of the tree's chdirs
    Allowed,    \* the calls the tree may make
    MaxCalls,   \* bound: calls of the whole tree
    None        \* undefined, or null

\* Calls that change the caller's directory: to a visible path, to a path below it, or to
\* one the line does not show (an unknown descriptor, a split line).
Mutations == {"chdir", "relative", "opaque"}
Clones == {"clone", "clone_fs"}
Calls == Mutations \cup Clones \cup {"unshare", "open", "exec"}

ASSUME RootAssumption == Root \in Pids
ASSUME DirsAssumption == WorkDir \in Dirs /\ Below \in [Dirs -> Dirs] /\ None \notin Dirs
ASSUME CallsAssumption == Allowed \subseteq Calls /\ MaxCalls \in Nat

VARIABLES
    \* the processes, and what strace wrote of them
    running, live,
    cwd,          \* true directory of each process
    bornIn,       \* the directory it was cloned in
    mates,        \* processes sharing a process's fs_struct, with itself
    file,         \* the lines; `at` is the caller's true directory after the call
    calls,
    \* the dispatcher
    taken,        \* lines taken from each file
    rootKnown,    \* the runner knows its root pid
    up,           \* cwdParent
    pidCwd, pidCwdUnknown,
    pendingCwdDetach,
    everCwdShared, cloneFsEdges,
    childParent, pidCloneTimeCwd, childSeedCloneTs,
    firstCwdMutationTs, lastCwdMutationTs,
    execCwd, execKnown, pendingExecCwd,
    deferredRelOpens,
    emitted,      \* opens resolved to a directory
    replayed

treeVars  == <<running, live, cwd, bornIn, mates, file, calls>>
groupVars == <<up, pidCwd, pidCwdUnknown, pendingCwdDetach, everCwdShared, cloneFsEdges>>
cloneVars == <<childParent, pidCloneTimeCwd, childSeedCloneTs>>
mutVars   == <<firstCwdMutationTs, lastCwdMutationTs>>
execVars  == <<execCwd, execKnown, pendingExecCwd>>
openVars  == <<deferredRelOpens, emitted>>
vars == <<treeVars, taken, rootKnown, groupVars, cloneVars, mutVars, execVars, openVars, replayed>>

Line == [call : Calls, dir : Dirs, child : Pids, at : Dirs]
Known == Dirs \cup {None}
Snapshot == [cwd : Known, unknown : BOOLEAN]
Deferred == [pid : Pids, ts : Nat, sharedAtRead : BOOLEAN, stamped : BOOLEAN,
             initialCwd : Known, cloneFsSeed : BOOLEAN, seedParentPid : Pids]
Emitted == [pid : Pids, ts : Nat, dir : Dirs, replay : BOOLEAN]

TypeOK ==
    /\ running \in BOOLEAN /\ live \subseteq Pids /\ cwd \in [Pids -> Dirs]
    /\ bornIn \in [Pids -> Dirs]
    /\ mates \in [Pids -> SUBSET Pids] /\ file \in [Pids -> Seq(Line)] /\ calls \in 0..MaxCalls
    /\ taken \in [Pids -> Nat] /\ rootKnown \in BOOLEAN
    /\ up \in [Pids -> Pids] /\ pidCwd \in [Pids -> Known] /\ pidCwdUnknown \subseteq Pids
    /\ pendingCwdDetach \in [Pids -> Snapshot \cup {None}]
    /\ everCwdShared \subseteq Pids /\ cloneFsEdges \subseteq Pids \X Pids
    /\ childParent \in [Pids -> Pids] /\ pidCloneTimeCwd \in [Pids -> Known]
    /\ childSeedCloneTs \in [Pids -> Nat]
    /\ firstCwdMutationTs \in [Pids -> Nat] /\ lastCwdMutationTs \in [Pids -> Nat]
    /\ execCwd \in [Pids -> Known] /\ execKnown \subseteq Pids /\ pendingExecCwd \subseteq Pids
    /\ deferredRelOpens \subseteq Deferred /\ emitted \subseteq Emitted
    /\ replayed \in BOOLEAN

\* The root's entries are seeded before its first line; nothing touches them earlier, so
\* they are seeded at the start.
Init ==
    /\ running = TRUE /\ live = {Root} /\ cwd = [p \in Pids |-> WorkDir]
    /\ bornIn = cwd /\ mates = [p \in Pids |-> {p}] /\ file = [p \in Pids |-> <<>>] /\ calls = 0
    /\ taken = [p \in Pids |-> 0] /\ rootKnown \in BOOLEAN
    /\ up = [p \in Pids |-> p]
    /\ pidCwd = [p \in Pids |-> IF p = Root /\ rootKnown THEN WorkDir ELSE None]
    /\ pidCwdUnknown = {} /\ pendingCwdDetach = [p \in Pids |-> None]
    /\ everCwdShared = {} /\ cloneFsEdges = {}
    /\ childParent = [p \in Pids |-> p] /\ pidCloneTimeCwd = pidCwd
    /\ childSeedCloneTs = [p \in Pids |-> 0]
    /\ firstCwdMutationTs = [p \in Pids |-> 0] /\ lastCwdMutationTs = [p \in Pids |-> 0]
    /\ execCwd = pidCwd /\ execKnown = {p \in Pids : pidCwd[p] # None} /\ pendingExecCwd = {}
    /\ deferredRelOpens = {} /\ emitted = {} /\ replayed = FALSE

-----------------------------------------------------------------------------
(* The processes.                                                          *)

\* p makes a call; strace writes its line.
Calling(p, call, dir, child, at) ==
    /\ running /\ p \in live /\ call \in Allowed /\ calls < MaxCalls
    /\ calls' = calls + 1
    /\ file' = [file EXCEPT ![p] = Append(@, [call |-> call, dir |-> dir, child |-> child, at |-> at])]
    /\ UNCHANGED <<running, taken, rootKnown, groupVars, cloneVars, mutVars, execVars, openVars,
                   replayed>>

\* chdir or fchdir: everyone who shares the fs_struct moves.
Chdir(p, call, d) ==
    /\ call \in Mutations /\ (call = "relative" => d = Below[cwd[p]])
    /\ Calling(p, call, d, p, d)
    /\ cwd' = [q \in Pids |-> IF q \in mates[p] THEN d ELSE cwd[q]]
    /\ UNCHANGED <<live, bornIn, mates>>

Clone(p, call, c) ==
    /\ call \in Clones /\ c \notin live
    /\ Calling(p, call, cwd[p], c, cwd[p])
    /\ live' = live \cup {c} /\ cwd' = [cwd EXCEPT ![c] = cwd[p]]
    /\ bornIn' = [bornIn EXCEPT ![c] = cwd[p]]
    /\ LET group == mates[p] \cup {c}
       IN mates' = [q \in Pids |-> IF call = "clone_fs" /\ q \in group THEN group ELSE mates[q]]

\* unshare(CLONE_FS) or of a namespace that implies it.
Unshare(p) ==
    /\ Calling(p, "unshare", cwd[p], p, cwd[p])
    /\ mates' = [q \in Pids |-> IF q = p THEN {p} ELSE mates[q] \ {p}]
    /\ UNCHANGED <<live, cwd, bornIn>>

\* A relative open, or an exec: the directory stays.
Other(p, call) ==
    /\ call \in {"open", "exec"}
    /\ Calling(p, call, cwd[p], p, cwd[p])
    /\ UNCHANGED <<live, cwd, bornIn, mates>>

TreeDone ==
    /\ running /\ running' = FALSE
    /\ UNCHANGED <<live, cwd, bornIn, mates, file, calls, taken, rootKnown, groupVars, cloneVars, mutVars,
                   execVars, openVars, replayed>>

-----------------------------------------------------------------------------
(* The union-find of directories.                                          *)

\* p and what follows it along f: the least set that holds p and is closed under f.
Along(f, p) == {a \in Pids : \A S \in SUBSET Pids : p \in S /\ (\A x \in S : f[x] \in S) => a \in S}

\* Where a walk along u from p ends.
findCwdRoot(u, p) == CHOOSE r \in Along(u, p) : u[r] = r
rootedCwd(p) == findCwdRoot(up, p)

\* Path compression, which every access makes for the pid it names.
compressed(p) == [up EXCEPT ![p] = rootedCwd(p)]

cwdGet(p) == pidCwd[rootedCwd(p)]
cwdUnknownHas(p) == rootedCwd(p) \in pidCwdUnknown

\* canonicalizeForEmit of a relative path: the unknown bit dominates.
canonicalCwd(p) == IF cwdUnknownHas(p) THEN None ELSE cwdGet(p)

\* The two groups become one under the parent's root pr; two different directories leave
\* the merged group without one.
unionCwd(pr, cr) ==
    IF pr = cr THEN UNCHANGED <<pidCwd, pidCwdUnknown>>
    ELSE LET conflict == pidCwd[pr] # None /\ pidCwd[cr] \notin {None, pidCwd[pr]}
             merged == IF pidCwd[pr] = None THEN pidCwd[cr] ELSE pidCwd[pr]
         IN /\ pidCwd' = [pidCwd EXCEPT ![cr] = None, ![pr] = IF conflict THEN None ELSE merged]
            /\ pidCwdUnknown' = (pidCwdUnknown \ {cr})
                                  \cup {q \in {pr} : conflict \/ cr \in pidCwdUnknown}

\* p leaves its group with a copy of the group's state; if p was the root, the smallest
\* other member (any of them, the numbers mean nothing) becomes the root.
detachCwdGroup(p) ==
    LET r == rootedCwd(p)
        u == compressed(p)
        others == {q \in Pids \ {p} : findCwdRoot(u, q) = p}
    IN IF r # p
       THEN /\ up' = [u EXCEPT ![p] = p]
            /\ pidCwd' = [pidCwd EXCEPT ![p] = IF pidCwd[r] # None THEN pidCwd[r] ELSE @]
            /\ pidCwdUnknown' = pidCwdUnknown \cup {q \in {p} : r \in pidCwdUnknown}
            /\ everCwdShared' = everCwdShared \cup {p}
       ELSE IF others = {}
       THEN up' = u /\ UNCHANGED <<pidCwd, pidCwdUnknown, everCwdShared>>
       ELSE \E root \in others :
            /\ up' = [q \in Pids |-> IF q \in others THEN root ELSE u[q]]
            /\ pidCwd' = [pidCwd EXCEPT ![root] = IF pidCwd[p] # None THEN pidCwd[p] ELSE @]
            /\ pidCwdUnknown' = pidCwdUnknown \cup {q \in {root} : p \in pidCwdUnknown}
            /\ everCwdShared' = everCwdShared \cup {p}

-----------------------------------------------------------------------------
(* The dispatcher takes a line.                                            *)

\* The number of the line being taken; a process's own numbers order its own lines.
lineTs(p) == taken[p] + 1
Next1(p) == file[p][lineTs(p)]

Take(p, these) ==
    /\ ~running /\ taken[p] < Len(file[p]) /\ Next1(p).call \in these
    /\ taken' = [taken EXCEPT ![p] = lineTs(p)]
    /\ UNCHANGED <<treeVars, rootKnown, replayed>>

\* A cwd mutation of p is noted, whatever becomes of it.
noteMutation(p) ==
    /\ firstCwdMutationTs' = [firstCwdMutationTs EXCEPT ![p] = IF @ = 0 THEN lineTs(p) ELSE @]
    /\ lastCwdMutationTs' = [lastCwdMutationTs EXCEPT ![p] = lineTs(p)]

\* chdir("/abs"), or fchdir to a known directory.
TakeChdir(p) ==
    /\ Take(p, {"chdir"}) /\ noteMutation(p)
    /\ up' = compressed(p)
    /\ pidCwd' = [pidCwd EXCEPT ![rootedCwd(p)] = Next1(p).dir]
    /\ pidCwdUnknown' = pidCwdUnknown \ {rootedCwd(p)}
    /\ UNCHANGED <<pendingCwdDetach, everCwdShared, cloneFsEdges, cloneVars, execVars, openVars>>

\* chdir("rel"): on a tracked directory the unknown bit stays as it is.
TakeRelative(p) ==
    /\ Take(p, {"relative"}) /\ noteMutation(p)
    /\ up' = compressed(p)
    /\ IF cwdGet(p) # None
       THEN /\ pidCwd' = [pidCwd EXCEPT ![rootedCwd(p)] = Below[@]]
            /\ UNCHANGED pidCwdUnknown
       ELSE /\ pidCwdUnknown' = pidCwdUnknown \cup {rootedCwd(p)}
            /\ UNCHANGED pidCwd
    /\ UNCHANGED <<pendingCwdDetach, everCwdShared, cloneFsEdges, cloneVars, execVars, openVars>>

\* fchdir to an unknown descriptor, or a chdir split in two lines.
TakeOpaque(p) ==
    /\ Take(p, {"opaque"}) /\ noteMutation(p)
    /\ up' = compressed(p)
    /\ pidCwdUnknown' = pidCwdUnknown \cup {rootedCwd(p)}
    /\ pidCwd' = [pidCwd EXCEPT ![rootedCwd(p)] = None]
    /\ UNCHANGED <<pendingCwdDetach, everCwdShared, cloneFsEdges, cloneVars, execVars, openVars>>

TakeUnshare(p) ==
    /\ Take(p, {"unshare"})
    /\ detachCwdGroup(p)
    /\ pendingCwdDetach' =
         [pendingCwdDetach EXCEPT ![p] = [cwd |-> cwdGet(p), unknown |-> cwdUnknownHas(p)]]
    /\ UNCHANGED <<cloneFsEdges, cloneVars, mutVars, execVars, openVars>>

\* A relative open: emitted with its path, or parked.
TakeOpen(p) ==
    /\ Take(p, {"open"})
    /\ up' = compressed(p)
    /\ IF canonicalCwd(p) # None
       THEN /\ emitted' = emitted \cup {[pid |-> p, ts |-> lineTs(p), dir |-> canonicalCwd(p),
                                         replay |-> FALSE]}
            /\ UNCHANGED deferredRelOpens
       ELSE /\ deferredRelOpens' = deferredRelOpens \cup
                 {[pid |-> p, ts |-> lineTs(p), sharedAtRead |-> p \in everCwdShared,
                   stamped |-> FALSE, initialCwd |-> None, cloneFsSeed |-> FALSE,
                   seedParentPid |-> p]}
            /\ UNCHANGED emitted
    /\ UNCHANGED <<pidCwd, pidCwdUnknown, pendingCwdDetach, everCwdShared, cloneFsEdges, cloneVars,
                   mutVars, execVars>>

\* Mutant: a later exec replaces the first one's directory.
Mut_TakeExec(p) ==
    /\ Take(p, {"exec"})
    /\ up' = compressed(p)
    /\ IF cwdUnknownHas(p) \/ cwdGet(p) # None
       THEN /\ execCwd' = [execCwd EXCEPT ![p] = canonicalCwd(p)]
            /\ execKnown' = execKnown \cup {p}
            /\ UNCHANGED pendingExecCwd
       ELSE pendingExecCwd' = pendingExecCwd \cup {p} /\ UNCHANGED <<execCwd, execKnown>>
    /\ UNCHANGED <<pidCwd, pidCwdUnknown, pendingCwdDetach, everCwdShared, cloneFsEdges, cloneVars,
                   mutVars, openVars>>

\* The directory of the first exec; unknown for good, or parked until the clone is seen.
TakeExec(p) ==
    /\ Take(p, {"exec"})
    /\ IF p \in execKnown THEN UNCHANGED <<up, execVars>>
       ELSE /\ up' = compressed(p)
            /\ IF cwdUnknownHas(p) \/ cwdGet(p) # None
               THEN /\ execCwd' = [execCwd EXCEPT ![p] = canonicalCwd(p)]
                    /\ execKnown' = execKnown \cup {p}
                    /\ UNCHANGED pendingExecCwd
               ELSE pendingExecCwd' = pendingExecCwd \cup {p} /\ UNCHANGED <<execCwd, execKnown>>
    /\ UNCHANGED <<pidCwd, pidCwdUnknown, pendingCwdDetach, everCwdShared, cloneFsEdges, cloneVars,
                   mutVars, openVars>>

\* A child that does not share gets a copy; what cannot be told is unknown.  `snap` is what
\* the child had when it left a group before its clone was seen, and then a sharing clone
\* spoils the parent's directory too.
copyCwd(pr, cr, snap, shared) ==
    LET childCwd == IF snap = None THEN pidCwd[cr] ELSE snap.cwd
        childUnknown == IF snap = None THEN cr \in pidCwdUnknown ELSE snap.unknown
        unknown == pr \in pidCwdUnknown \/ childUnknown
        conflict == ~unknown /\ pidCwd[pr] # None /\ childCwd \notin {None, pidCwd[pr]}
        spoiled == IF shared THEN {pr, cr} ELSE {cr}
        inherits == ~unknown /\ pidCwd[pr] # None /\ childCwd = None /\ pidCwd[cr] = None
    IN /\ pidCwdUnknown' = pidCwdUnknown \cup (IF unknown \/ conflict THEN spoiled ELSE {})
       /\ pidCwd' = [q \in Pids |->
                       IF q \in spoiled /\ (conflict \/ (unknown /\ shared)) THEN None
                       ELSE IF q = cr /\ inherits THEN pidCwd[pr] ELSE pidCwd[q]]

\* An exec of c seen before its clone gets the directory c has now.
settleExecCwd(c) ==
    LET r == findCwdRoot(up', c)
    IN IF c \in pendingExecCwd
       THEN /\ execCwd' = [execCwd EXCEPT ![c] = IF r \in pidCwdUnknown' THEN None ELSE pidCwd'[r]]
            /\ execKnown' = execKnown \cup {c} /\ pendingExecCwd' = pendingExecCwd \ {c}
       ELSE UNCHANGED execVars

\* The opens of c parked before its clone learn what c was born with.
stampDeferredRelOpens(p, c, shared) ==
    deferredRelOpens' =
        {IF d.pid = c /\ ~d.stamped
         THEN [d EXCEPT !.stamped = TRUE, !.initialCwd = canonicalCwd(p), !.cloneFsSeed = shared,
                        !.seedParentPid = p]
         ELSE d : d \in deferredRelOpens}

TakeClone(p) ==
    /\ Take(p, Clones)
    /\ LET c == Next1(p).child
           shared == Next1(p).call = "clone_fs"
           snap == pendingCwdDetach[c]
           pr == rootedCwd(p)
           cr == rootedCwd(c)
           joins == shared /\ snap = None
           u == [up EXCEPT ![p] = pr, ![c] = cr, ![cr] = IF joins THEN pr ELSE @]
       IN /\ childParent' = [childParent EXCEPT ![c] = p]
          /\ pidCloneTimeCwd' =
               [pidCloneTimeCwd EXCEPT ![c] = IF @ = None THEN canonicalCwd(p) ELSE @]
          /\ childSeedCloneTs' = [childSeedCloneTs EXCEPT ![c] = lineTs(p)]
          /\ everCwdShared' = everCwdShared \cup (IF shared THEN {p, c} ELSE {})
          /\ cloneFsEdges' = cloneFsEdges \cup (IF shared THEN {<<p, c>>, <<c, p>>} ELSE {})
          /\ pendingCwdDetach' = [pendingCwdDetach EXCEPT ![c] = None]
          /\ up' = IF c \in pendingExecCwd THEN [u EXCEPT ![c] = findCwdRoot(u, c)] ELSE u
          /\ IF joins THEN unionCwd(pr, cr) ELSE copyCwd(pr, cr, snap, shared)
          /\ settleExecCwd(c)
          /\ stampDeferredRelOpens(p, c, shared)
    /\ UNCHANGED <<mutVars, emitted>>

-----------------------------------------------------------------------------
(* The replay of the parked opens, once every file has been read.          *)

\* Mutant: only a's own changes count, not those of the processes it shares with.
Mut_cloneFsGroupEverMutated(a) == firstCwdMutationTs[a] # 0

\* a shares, or shared, a directory with a process that changed it.
cloneFsGroupEverMutated(a) ==
    \E q \in Pids :
        /\ firstCwdMutationTs[q] # 0
        /\ \A S \in SUBSET Pids :
               a \in S /\ (\A e \in cloneFsEdges : e[1] \in S => e[2] \in S) => q \in S

lineageSharedGroupMutated(p) ==
    \E a \in Along(childParent, p) : a \in everCwdShared /\ cloneFsGroupEverMutated(a)

\* Mutant: the parent's last change decides, so changes on both sides of the clone pass.
Mut_bornBeforeMutation(x) ==
    \/ firstCwdMutationTs[childParent[x]] = 0
    \/ lastCwdMutationTs[childParent[x]] > childSeedCloneTs[x]

\* x's parent did not change its directory before it cloned x.
bornBeforeMutation(x) ==
    \/ firstCwdMutationTs[childParent[x]] = 0
    \/ firstCwdMutationTs[childParent[x]] > childSeedCloneTs[x]

\* Mutant: only the parent is asked.
Mut_recoveryHop == [x \in Pids |-> x]

\* An open stamped with no directory: go up the parents, over those who did not change
\* theirs before the clone below them and whose own clone showed no directory either, ...
recoveryHop == [x \in Pids |-> IF bornBeforeMutation(x) /\ pidCloneTimeCwd[childParent[x]] = None
                               THEN childParent[x] ELSE x]

\* ... and take the directory the last one was cloned with; or, of one that changed its
\* directory but not since the clone, the directory it ended with.
recoveredCwd(p) ==
    LET ends == {x \in Along(recoveryHop, p) : recoveryHop[x] = x}
        x == CHOOSE e \in ends : TRUE
        a == childParent[x]
    IN IF ends = {} \/ a = x THEN None
       ELSE IF bornBeforeMutation(x) THEN pidCloneTimeCwd[a]
       ELSE IF lastCwdMutationTs[a] < childSeedCloneTs[x] THEN cwdGet(a)
       ELSE None

\* The directory a parked open is resolved against, or None: it stays unresolved.
replayCwd(d) ==
    IF /\ d.stamped
       /\ ~d.sharedAtRead /\ ~d.cloneFsSeed /\ ~lineageSharedGroupMutated(d.seedParentPid)
       /\ firstCwdMutationTs[d.pid] = 0 \/ d.ts < firstCwdMutationTs[d.pid]
    THEN IF d.initialCwd # None THEN d.initialCwd ELSE recoveredCwd(d.pid)
    ELSE None

\* The parked execs are given up: no directory is known for them.
Replay ==
    /\ ~running /\ ~replayed /\ \A p \in Pids : taken[p] = Len(file[p])
    /\ replayed' = TRUE
    /\ emitted' = emitted \cup
         {[pid |-> d.pid, ts |-> d.ts, dir |-> replayCwd(d), replay |-> TRUE] :
              d \in {o \in deferredRelOpens : replayCwd(o) # None}}
    /\ deferredRelOpens' = {}
    /\ execKnown' = execKnown \cup pendingExecCwd /\ pendingExecCwd' = {}
    /\ UNCHANGED <<treeVars, taken, rootKnown, groupVars, cloneVars, mutVars, execCwd>>

Done == replayed /\ UNCHANGED vars

KernelNext ==
    \E p \in Pids :
        \/ \E call \in Mutations, d \in Dirs : Chdir(p, call, d)
        \/ \E call \in Clones, c \in Pids : Clone(p, call, c)
        \/ Unshare(p)
        \/ \E call \in {"open", "exec"} : Other(p, call)

TakeNext ==
    \E p \in Pids :
        \/ TakeChdir(p) \/ TakeRelative(p) \/ TakeOpaque(p) \/ TakeClone(p)
        \/ TakeUnshare(p) \/ TakeOpen(p) \/ TakeExec(p)

Next == KernelNext \/ TreeDone \/ TakeNext \/ Replay \/ Done

Spec == Init /\ [][Next]_vars

-----------------------------------------------------------------------------
(* Properties.                                                             *)

lineOf(e) == file[e.pid][e.ts]
Only(calls_) == \A p \in Pids : \A i \in 1..Len(file[p]) : file[p][i].call \in calls_

Genuine(e) == e.dir = lineOf(e).at

\* No process ever shared its directory with another.
Unshared == Only(Calls \ {"clone_fs", "unshare"})

\* In a tree of plain forks an open is only ever resolved against the directory it was
\* made in, whatever the order in which the files are read.
ResolvedTrue == Unshared => \A e \in emitted : Genuine(e)

\* The strengthening of ResolvedTrue.  at(p, i): p's directory after its first i lines.
at(p, i) == IF i = 0 THEN bornIn[p] ELSE file[p][i].at
now(p) == at(p, taken[p])

\* Every line shows the directory its call left; a child is born where its clone was made.
LineInv(p, i) ==
    LET l == file[p][i]
    IN /\ l.call \notin Mutations => l.at = at(p, i - 1)
       /\ l.call = "relative" => l.at = Below[at(p, i - 1)]
       /\ l.call = "chdir" => l.at = l.dir
       /\ l.call = "clone" => l.child \in live /\ bornIn[l.child] = l.at

TreeInv ==
    /\ mates = [p \in Pids |-> {p}] /\ Root \in live /\ bornIn[Root] = WorkDir
    /\ \A p \in Pids : /\ p \notin live => file[p] = <<>>
                       /\ cwd[p] = at(p, Len(file[p]))
                       /\ \A i \in 1..Len(file[p]) : LineInv(p, i)

\* Until the tree is done no line is taken.
FreshInv ==
    running =>
        /\ taken = [p \in Pids |-> 0] /\ deferredRelOpens = {} /\ emitted = {}
        /\ childParent = [p \in Pids |-> p]
        /\ firstCwdMutationTs = [p \in Pids |-> 0] /\ lastCwdMutationTs = [p \in Pids |-> 0]
        /\ \A p \in Pids : /\ pidCwd[p] # None => p = Root /\ pidCwd[p] = WorkDir
                           /\ pidCloneTimeCwd[p] # None => p = Root /\ pidCloneTimeCwd[p] = WorkDir

\* A tracked directory is the true one, unknown bit or not; without one or the bit p has
\* not moved.
CwdInv(p) ==
    /\ pidCwd[p] # None => pidCwd[p] = now(p)
    /\ pidCwd[p] = None /\ p \notin pidCwdUnknown => firstCwdMutationTs[p] = 0

\* Before its first noted change p is where it was born, after the last one where it is.
MutInv(p) ==
    /\ taken[p] <= Len(file[p])
    /\ firstCwdMutationTs[p] <= lastCwdMutationTs[p] /\ lastCwdMutationTs[p] <= taken[p]
    /\ firstCwdMutationTs[p] = 0 => lastCwdMutationTs[p] = 0
    /\ \A i \in 0..taken[p] :
          /\ firstCwdMutationTs[p] = 0 \/ i < firstCwdMutationTs[p] => at(p, i) = bornIn[p]
          /\ lastCwdMutationTs[p] <= i => at(p, i) = now(p)

\* A parent's clone line shows where its child was born.
BirthInv(c) ==
    /\ childParent[c] # c =>
          /\ childSeedCloneTs[c] \in 0..taken[childParent[c]]
          /\ at(childParent[c], childSeedCloneTs[c]) = bornIn[c]
    /\ pidCloneTimeCwd[c] # None => pidCloneTimeCwd[c] = bornIn[c]

OpenInv ==
    /\ \A o \in deferredRelOpens : /\ o.ts \in 1..taken[o.pid]
                                   /\ o.initialCwd # None => o.initialCwd = bornIn[o.pid]
    /\ \A e \in emitted : e.ts \in 1..taken[e.pid] /\ Genuine(e)

TrackInv ==
    /\ up = [p \in Pids |-> p] /\ pendingCwdDetach = [p \in Pids |-> None]
    /\ \A p \in Pids : CwdInv(p) /\ MutInv(p) /\ BirthInv(p)
    /\ OpenInv

\* In a tree of plain forks everything the dispatcher tracks is true of the processes.
PlainInv ==
    /\ live \subseteq Pids /\ cwd \in [Pids -> Dirs] /\ file \in [Pids -> Seq(Line)]
    /\ Unshared => TypeOK /\ TreeInv /\ FreshInv /\ TrackInv

\* With directories shared by CLONE_FS at least a replayed open is, as long as nobody
\* unshares, or every change of directory shows the directory.
ReplayTrue ==
    Only(Calls \ {"unshare"}) \/ Only(Calls \ {"relative", "opaque"})
        => \A e \in emitted : e.replay => Genuine(e)

\* A parked open whose clone was seen later is resolved at the end if nobody it descends
\* from moved before the clone that leads to it, and its process not before the open: the
\* climb over a deep chain ends at the root's own directory.
StampedResolves ==
    [][~replayed /\ replayed' /\ rootKnown /\ Unshared =>
         \A o \in deferredRelOpens :
            /\ o.stamped
            /\ firstCwdMutationTs[o.pid] = 0 \/ o.ts < firstCwdMutationTs[o.pid]
            /\ \A x \in Along(childParent, o.pid) : bornBeforeMutation(x)
            => \E e \in emitted' : e.pid = o.pid /\ e.ts = o.ts]_vars

\* The directory of an exec: of p's first one.
atFirstExec(p, i) ==
    file[p][i].call = "exec" /\ \A j \in 1..(i - 1) : file[p][j].call # "exec"

\* In a tree of plain forks the directory kept for a process's first exec is the one it was
\* made in, in every order of the files, except for a process that moved after it and was
\* seen to be cloned by a parent of unknown directory.
ExecTrue ==
    Unshared => \A p \in execKnown \ {Root} : \A i \in 1..Len(file[p]) :
        atFirstExec(p, i) /\ execCwd[p] # None
          => \/ execCwd[p] = file[p][i].at
             \/ lastCwdMutationTs[p] > i /\ pidCloneTimeCwd[p] = None

\* phase-install.ts:7423-7424: the recovery never gives a wrong path.
RecoveryNeverWrong == \A e \in emitted : e.replay => Genuine(e)
=============================================================================
