----------------------------- MODULE FdTracker -----------------------------
(***************************************************************************)
(* How the dispatcher of phase-install.ts follows descriptors: which       *)
(* directory stands behind a numeric dirfd of an openat or an fchdir.      *)
(*                                                                         *)
(* As in CwdTracker a tree of processes runs in the kernel half and        *)
(* strace's lines are then taken file by file, in any interleaving.        *)
(* Processes cloned with CLONE_FILES share one table; unshare,             *)
(* close_range with CLOSE_RANGE_UNSHARE and execve give the caller a       *)
(* private copy.  The dispatcher keeps one table per group of a            *)
(* union-find.  What a child did before the clone that made it is seen is  *)
(* kept as tombstones, as a snapshot with a log, and as sets of reused     *)
(* descriptors, and reconciled when the clone line is taken.               *)
(*                                                                         *)
(* A range of descriptors is a set.  An openat names the directory itself, *)
(* so that its result stands for the same directory.                       *)
(***************************************************************************)
EXTENDS Integers, Sequences, FiniteSets, SequencesExt

CONSTANTS
    Pids,
    Root,       \* the package manager, strace's child
    Fds,        \* descriptor numbers
    Dirs,
    Ranges,     \* the ranges of the tree's close_range calls
    Allowed,    \* the calls the tree may make
    MaxCalls,   \* bound: calls of the whole tree
    None

\* open: of an absolute path; opaque: of one the dispatcher cannot resolve.
Opens == {"open", "opaque"}
Dups == {"dup", "dup2"}
Calls == Opens \cup Dups \cup {"openat", "fchdir", "close", "close_range", "range_unshare", "setfd",
                               "unshare", "exec", "clone", "clone_files"}

ASSUME RootAssumption == Root \in Pids
ASSUME FdsAssumption == Fds \subseteq Nat /\ Ranges \subseteq SUBSET Fds
ASSUME CallsAssumption == Allowed \subseteq Calls /\ MaxCalls \in Nat
ASSUME NoneAssumption == None \notin Dirs /\ None \notin Fds

VARIABLES
    \* the processes, and what strace wrote of them
    running, live,
    fds,          \* the true table of each process
    mates,        \* processes sharing a process's table, with itself
    file,         \* the lines; `at` is the directory behind the line's descriptor, n the call's number
    calls,
    \* the dispatcher
    taken,        \* lines taken from each file
    inOrder,      \* they were taken in the order of the calls so far
    takenBefore,  \* lines of a child taken before its clone line
    up,           \* fdParent
    dirfdTable, dirfdStateUnknown,
    opaqueFdReuses, pendingFdTombstones,
    pendingFdDetach, postMarkerFdReuses,
    resolved,     \* openat and fchdir lines with the directory found for them
    unresolved    \* those without

treeVars == <<running, live, fds, mates, file, calls>>
groupVars == <<up, dirfdTable, dirfdStateUnknown, opaqueFdReuses>>
pendVars == <<pendingFdTombstones, pendingFdDetach, postMarkerFdReuses>>
takeVars == <<taken, inOrder, takenBefore>>
outVars == <<resolved, unresolved>>
vars == <<treeVars, takeVars, groupVars, pendVars, outVars>>

Entry == [path : Dirs, cloexec : BOOLEAN]
Table == [Fds -> Entry \cup {None}]
NoTable == [f \in Fds |-> None]
NoReuse == [f \in Fds |-> "none"]
Line == [call : Calls, fd : Fds \cup {None}, to : Fds \cup {None}, range : SUBSET Fds,
         path : Dirs \cup {None}, cloexec : BOOLEAN, child : Pids, at : Dirs \cup {None}, n : Nat]

\* FdTombstone and FdDetachAction: what is still to be done to a child's copy.
Pending == [kind : {"close", "cloexec", "range", "range_unshare", "exec"}, fds : SUBSET Fds,
            cloexec : BOOLEAN]
FdSnapshot == [entries : Table, unknown : BOOLEAN, preDetachTombstones : Seq(Pending),
               postDetachLog : Seq(Pending), preDetachOpaque : SUBSET Fds]
Use == [pid : Pids, ts : Nat, dir : Dirs \cup {None}, inOrder : BOOLEAN]

TypeOK ==
    /\ running \in BOOLEAN /\ live \subseteq Pids /\ fds \in [Pids -> Table]
    /\ mates \in [Pids -> SUBSET Pids] /\ file \in [Pids -> Seq(Line)] /\ calls \in 0..MaxCalls
    /\ taken \in [Pids -> Nat] /\ inOrder \in BOOLEAN /\ takenBefore \in [Pids -> Nat]
    /\ up \in [Pids -> Pids] /\ dirfdTable \in [Pids -> Table] /\ dirfdStateUnknown \subseteq Pids
    /\ opaqueFdReuses \in [Pids -> SUBSET Fds] /\ pendingFdTombstones \in [Pids -> Seq(Pending)]
    /\ pendingFdDetach \in [Pids -> FdSnapshot \cup {None}]
    /\ postMarkerFdReuses \in [Pids -> [Fds -> {"none", "open", "closed"}]]
    /\ resolved \subseteq Use /\ unresolved \subseteq Use

Init ==
    /\ running = TRUE /\ live = {Root} /\ fds = [p \in Pids |-> NoTable]
    /\ mates = [p \in Pids |-> {p}] /\ file = [p \in Pids |-> <<>>] /\ calls = 0
    /\ taken = [p \in Pids |-> 0] /\ inOrder = TRUE /\ takenBefore = [p \in Pids |-> 0]
    /\ up = [p \in Pids |-> p] /\ dirfdTable = [p \in Pids |-> NoTable] /\ dirfdStateUnknown = {}
    /\ opaqueFdReuses = [p \in Pids |-> {}] /\ pendingFdTombstones = [p \in Pids |-> <<>>]
    /\ pendingFdDetach = [p \in Pids |-> None] /\ postMarkerFdReuses = [p \in Pids |-> NoReuse]
    /\ resolved = {} /\ unresolved = {}

-----------------------------------------------------------------------------
(* The processes.                                                          *)

aLine == [call |-> "exec", fd |-> None, to |-> None, range |-> {}, path |-> None, cloexec |-> FALSE,
          child |-> Root, at |-> None, n |-> calls + 1]

\* p makes the call of line l; strace writes l.
Calling(p, l) ==
    /\ running /\ p \in live /\ l.call \in Allowed /\ calls < MaxCalls
    /\ calls' = calls + 1
    /\ file' = [file EXCEPT ![p] = Append(@, l)]
    /\ UNCHANGED <<running, takeVars, groupVars, pendVars, outVars>>

IsOpen(p, f) == fds[p][f] # None

\* The kernel hands out the lowest free number.
IsLowestFree(p, f) == ~IsOpen(p, f) /\ \A g \in Fds : g < f => IsOpen(p, g)

\* The new table of p is that of everyone who shares it.
SetTable(p, t) == fds' = [q \in Pids |-> IF q \in mates[p] THEN t ELSE fds[q]]

Alone(p) == [q \in Pids |-> IF q = p THEN {p} ELSE mates[q] \ {p}]

\* The table after the descriptors of S are closed, or marked close-on-exec.
CloseIn(t, S, cloexec) ==
    [f \in Fds |-> IF f \notin S \/ t[f] = None THEN t[f]
                   ELSE IF cloexec THEN [t[f] EXCEPT !.cloexec = TRUE] ELSE None]

OpenCall(p, call, d, cloexec, f) ==
    /\ call \in Opens /\ IsLowestFree(p, f)
    /\ Calling(p, [aLine EXCEPT !.call = call, !.to = f, !.path = d, !.cloexec = cloexec])
    /\ SetTable(p, [fds[p] EXCEPT ![f] = [path |-> d, cloexec |-> cloexec]])
    /\ UNCHANGED <<live, mates>>

\* openat(fd, "."), with a descriptor for the result, or failing.
OpenAtCall(p, f, g) ==
    /\ IsOpen(p, f) /\ (g # None => IsLowestFree(p, g))
    /\ Calling(p, [aLine EXCEPT !.call = "openat", !.fd = f, !.to = g, !.at = fds[p][f].path])
    /\ IF g = None THEN UNCHANGED fds
       ELSE SetTable(p, [fds[p] EXCEPT ![g] = [path |-> fds[p][f].path, cloexec |-> FALSE]])
    /\ UNCHANGED <<live, mates>>

FchdirCall(p, f) ==
    /\ IsOpen(p, f)
    /\ Calling(p, [aLine EXCEPT !.call = "fchdir", !.fd = f, !.at = fds[p][f].path])
    /\ UNCHANGED <<live, fds, mates>>

\* dup and F_DUPFD take the lowest number, dup2 and dup3 the one they name.
DupCall(p, call, f, g, cloexec) ==
    /\ call \in Dups /\ IsOpen(p, f) /\ f # g /\ (call = "dup" => IsLowestFree(p, g))
    /\ Calling(p, [aLine EXCEPT !.call = call, !.fd = f, !.to = g, !.cloexec = cloexec])
    /\ SetTable(p, [fds[p] EXCEPT ![g] = [path |-> fds[p][f].path, cloexec |-> cloexec]])
    /\ UNCHANGED <<live, mates>>

CloseCall(p, f) ==
    /\ IsOpen(p, f)
    /\ Calling(p, [aLine EXCEPT !.call = "close", !.fd = f])
    /\ SetTable(p, CloseIn(fds[p], {f}, FALSE))
    /\ UNCHANGED <<live, mates>>

SetfdCall(p, f, cloexec) ==
    /\ IsOpen(p, f)
    /\ Calling(p, [aLine EXCEPT !.call = "setfd", !.fd = f, !.cloexec = cloexec])
    /\ SetTable(p, [fds[p] EXCEPT ![f].cloexec = cloexec])
    /\ UNCHANGED <<live, mates>>

CloseRangeCall(p, call, range, cloexec) ==
    /\ call \in {"close_range", "range_unshare"}
    /\ Calling(p, [aLine EXCEPT !.call = call, !.range = range, !.cloexec = cloexec])
    /\ IF call = "close_range"
       THEN SetTable(p, CloseIn(fds[p], range, cloexec)) /\ UNCHANGED mates
       ELSE fds' = [fds EXCEPT ![p] = CloseIn(@, range, cloexec)] /\ mates' = Alone(p)
    /\ UNCHANGED live

UnshareCall(p) ==
    /\ Calling(p, [aLine EXCEPT !.call = "unshare"])
    /\ mates' = Alone(p)
    /\ UNCHANGED <<live, fds>>

ExecCall(p) ==
    /\ Calling(p, aLine)
    /\ mates' = Alone(p)
    /\ fds' = [fds EXCEPT ![p] = [f \in Fds |-> IF @[f] # None /\ @[f].cloexec THEN None ELSE @[f]]]
    /\ UNCHANGED live

CloneCall(p, call, c) ==
    /\ call \in {"clone", "clone_files"} /\ c \notin live
    /\ Calling(p, [aLine EXCEPT !.call = call, !.child = c])
    /\ live' = live \cup {c} /\ fds' = [fds EXCEPT ![c] = fds[p]]
    /\ LET group == mates[p] \cup {c}
       IN mates' = [q \in Pids |-> IF call = "clone_files" /\ q \in group THEN group ELSE mates[q]]

TreeDone ==
    /\ running /\ running' = FALSE
    /\ UNCHANGED <<live, fds, mates, file, calls, takeVars, groupVars, pendVars, outVars>>

-----------------------------------------------------------------------------
(* Groups, tombstones and reused descriptors.                              *)

\* Where a walk along u from p ends.
findFdRoot(u, p) == LET walk[q \in Pids] == IF u[q] = q THEN q ELSE walk[u[q]] IN walk[p]
rootedFd(p) == findFdRoot(up, p)

\* Path compression, which every access makes for the pid it names.
compressed(u, p) == [u EXCEPT ![p] = findFdRoot(u, p)]

others(p) == {q \in Pids \ {p} : findFdRoot(up, q) = p}
isFdSingleton(p) == rootedFd(p) = p /\ others(p) = {}

\* MUTANT of detachFdGroup: p leaves without the copy.
Mut_detachFdGroup(p, root) ==
    [up |-> IF rootedFd(p) # p THEN [up EXCEPT ![p] = p]
            ELSE [q \in Pids |-> IF q \in others(p) THEN root ELSE up[q]],
     tbl |-> dirfdTable, unknown |-> dirfdStateUnknown, opaque |-> opaqueFdReuses]

\* p leaves its group with a copy of the group's state; if p was the root, the smallest
\* other member (any of them, the numbers mean nothing) becomes the root.
newRoots(p) == IF rootedFd(p) = p /\ others(p) # {} THEN others(p) ELSE {p}

detachFdGroup(p, root) ==
    LET r == rootedFd(p)
        to == IF r # p THEN p ELSE root       \* who gets the copy
        copy == [f \in Fds |-> IF dirfdTable[r][f] # None THEN dirfdTable[r][f]
                               ELSE dirfdTable[to][f]]
    IN [up |-> IF r # p THEN [up EXCEPT ![p] = p]
               ELSE [q \in Pids |-> IF q \in others(p) THEN root ELSE up[q]],
        tbl |-> [dirfdTable EXCEPT ![to] = copy],
        unknown |-> dirfdStateUnknown \cup {q \in {to} : r \in dirfdStateUnknown},
        opaque |-> [opaqueFdReuses EXCEPT
                      ![to] = IF opaqueFdReuses[r] = {} THEN @ ELSE opaqueFdReuses[r]]]

\* MUTANT of unionFd: the parent's path wins.
Mut_unionFd(pr, cr) ==
    [tbl |-> [dirfdTable EXCEPT
                ![pr] = [f \in Fds |-> IF @[f] = None THEN dirfdTable[cr][f] ELSE @[f]], ![cr] = NoTable],
     unknown |-> dirfdStateUnknown, opaque |-> opaqueFdReuses]

\* The tables of the parent's group pr and the child's cr as one: two paths for one
\* descriptor leave it without any, and so does a reuse either side could not follow.
unionFd(pr, cr) ==
    LET pt == dirfdTable[pr]
        ct == dirfdTable[cr]
        opaque == opaqueFdReuses[pr] \cup opaqueFdReuses[cr]
        merged(f) ==
            IF f \in opaque THEN None
            ELSE IF ct[f] = None THEN pt[f]
            ELSE IF pt[f] = None THEN ct[f]
            ELSE IF pt[f].path # ct[f].path THEN None
            ELSE [pt[f] EXCEPT !.cloexec = @ \/ ct[f].cloexec]
    IN [tbl |-> [dirfdTable EXCEPT ![pr] = [f \in Fds |-> merged(f)], ![cr] = NoTable],
        unknown |-> (dirfdStateUnknown \ {cr})
                      \cup {q \in {pr} : cr \in dirfdStateUnknown},
        opaque |-> [opaqueFdReuses EXCEPT ![cr] = {}, ![pr] = opaque]]

\* What is pending when descriptor f is opened anew no longer applies to f.
cancel(seq, f) ==
    SelectSeq([i \in DOMAIN seq |-> [seq[i] EXCEPT !.fds = @ \ {f}]], LAMBDA e : e.fds # {})

\* A close of a descriptor the table does not have: logged if the group has a snapshot,
\* parked if p is alone, and otherwise nothing.
recordFdTombstone(p, tomb) ==
    LET r == rootedFd(p)
    IN IF pendingFdDetach[r] # None
       THEN /\ pendingFdDetach' =
                 [pendingFdDetach EXCEPT ![r].postDetachLog = Append(@, tomb)]
            /\ UNCHANGED pendingFdTombstones
       ELSE /\ pendingFdTombstones' =
                 [pendingFdTombstones EXCEPT ![p] = IF isFdSingleton(p) THEN Append(@, tomb) ELSE @]
            /\ UNCHANGED pendingFdDetach

\* cancelPendingTombstonesForFd and recordPostMarkerFdReuse, which go together.
reopened(p, f) ==
    LET r == rootedFd(p)
        snap == pendingFdDetach[r]
    IN /\ pendingFdTombstones' = [pendingFdTombstones EXCEPT ![p] = cancel(@, f)]
       /\ IF snap = None THEN UNCHANGED <<pendingFdDetach, postMarkerFdReuses>>
          ELSE /\ pendingFdDetach' =
                    [pendingFdDetach EXCEPT ![r].postDetachLog = cancel(@, f)]
               /\ postMarkerFdReuses' = [postMarkerFdReuses EXCEPT ![r][f] = "open"]

\* recordPostMarkerFdClose and recordPostMarkerFdRangeClose.
closedAfterMarker(r, S) ==
    [postMarkerFdReuses EXCEPT ![r] =
        [f \in Fds |-> IF f \in S /\ pendingFdDetach[r] # None /\ @[f] = "open" THEN "closed" ELSE @[f]]]

\* The marker of p that is about to leave its group: what p's table was at the first one,
\* and then everything in order.
markDetach(p, log) ==
    LET r == rootedFd(p)
        parked == pendingFdTombstones[p]
        old == pendingFdDetach[p]
    IN IF old # None
       THEN [old EXCEPT !.postDetachLog = @ \o log, !.preDetachTombstones = @ \o parked]
       ELSE [entries |-> dirfdTable[r], unknown |-> r \in dirfdStateUnknown,
             preDetachTombstones |-> parked, postDetachLog |-> log,
             preDetachOpaque |-> opaqueFdReuses[r]]

-----------------------------------------------------------------------------
(* The dispatcher takes a line.                                            *)

NextLine(p) == file[p][taken[p] + 1]
Untaken == {p \in Pids : taken[p] < Len(file[p])}

Take(p, these) ==
    /\ ~running /\ p \in Untaken /\ NextLine(p).call \in these
    /\ taken' = [taken EXCEPT ![p] = @ + 1]
    /\ inOrder' = (inOrder /\ \A q \in Untaken : NextLine(p).n <= NextLine(q).n)
    /\ UNCHANGED treeVars

\* canonicalizeForEmit for a dirfd: the unknown bit dominates.
dirOf(p, f) ==
    LET r == rootedFd(p)
    IN IF r \in dirfdStateUnknown \/ dirfdTable[r][f] = None THEN None ELSE dirfdTable[r][f].path

theUse(p, d) == [pid |-> p, ts |-> taken[p] + 1, dir |-> d, inOrder |-> inOrder']

Uses(p, d) ==
    IF d # None
    THEN resolved' = resolved \cup {theUse(p, d)} /\ UNCHANGED unresolved
    ELSE unresolved' = unresolved \cup {theUse(p, None)} /\ UNCHANGED resolved

\* Descriptor f of p now stands for path d, or (None) for one that is not known.
Registers(p, f, d, cloexec) ==
    LET r == rootedFd(p)
    IN /\ dirfdTable' = [dirfdTable EXCEPT
                           ![r][f] = IF d = None THEN None ELSE [path |-> d, cloexec |-> cloexec]]
       /\ opaqueFdReuses' = [opaqueFdReuses EXCEPT ![r] = IF d = None THEN @ \cup {f} ELSE @ \ {f}]
       /\ reopened(p, f)

TakeOpen(p) ==
    /\ Take(p, Opens)
    /\ up' = compressed(up, p)
    /\ LET l == NextLine(p)
       IN Registers(p, l.to, IF l.call = "open" THEN l.path ELSE None, l.cloexec)
    /\ UNCHANGED <<takenBefore, dirfdStateUnknown, outVars>>

TakeOpenAt(p) ==
    /\ Take(p, {"openat"})
    /\ up' = compressed(up, p)
    /\ LET l == NextLine(p)
           d == dirOf(p, l.fd)
       IN /\ Uses(p, d)
          /\ IF l.to # None THEN Registers(p, l.to, d, FALSE)
             ELSE UNCHANGED <<dirfdTable, opaqueFdReuses, pendVars>>
    /\ UNCHANGED <<takenBefore, dirfdStateUnknown>>

\* fchdir looks the descriptor up whether the group is unknown or not.
TakeFchdir(p) ==
    /\ Take(p, {"fchdir"})
    /\ up' = compressed(up, p)
    /\ LET entry == dirfdTable[rootedFd(p)][NextLine(p).fd]
       IN Uses(p, IF entry = None THEN None ELSE entry.path)
    /\ UNCHANGED <<takenBefore, dirfdTable, dirfdStateUnknown, opaqueFdReuses, pendVars>>

\* dup, dup2, dup3 and F_DUPFD: of an untracked descriptor they spoil the whole group.
TakeDup(p) ==
    /\ Take(p, Dups)
    /\ up' = compressed(up, p)
    /\ LET l == NextLine(p)
           old == dirfdTable[rootedFd(p)][l.fd]
       IN /\ Registers(p, l.to, IF old = None THEN None ELSE old.path, l.cloexec)
          /\ dirfdStateUnknown' = dirfdStateUnknown \cup {r \in {rootedFd(p)} : old = None}
    /\ UNCHANGED <<takenBefore, outVars>>

TakeClose(p) ==
    /\ Take(p, {"close"})
    /\ up' = compressed(up, p)
    /\ LET r == rootedFd(p)
           f == NextLine(p).fd
       IN /\ IF dirfdTable[r][f] = None
             THEN recordFdTombstone(p, [kind |-> "close", fds |-> {f}, cloexec |-> FALSE])
             ELSE UNCHANGED <<pendingFdTombstones, pendingFdDetach>>
          /\ postMarkerFdReuses' = closedAfterMarker(r, {f})
          /\ opaqueFdReuses' = [opaqueFdReuses EXCEPT ![r] = @ \ {f}]
          /\ dirfdTable' = [dirfdTable EXCEPT ![r][f] = None]
    /\ UNCHANGED <<takenBefore, dirfdStateUnknown, outVars>>

\* F_SETFD: only a mark on an untracked descriptor is remembered, not its removal.
TakeSetfd(p) ==
    /\ Take(p, {"setfd"})
    /\ up' = compressed(up, p)
    /\ LET r == rootedFd(p)
           l == NextLine(p)
       IN IF dirfdTable[r][l.fd] # None
          THEN /\ dirfdTable' = [dirfdTable EXCEPT ![r][l.fd].cloexec = l.cloexec]
               /\ UNCHANGED <<pendingFdTombstones, pendingFdDetach>>
          ELSE /\ IF l.cloexec
                  THEN recordFdTombstone(p, [kind |-> "cloexec", fds |-> {l.fd}, cloexec |-> TRUE])
                  ELSE UNCHANGED <<pendingFdTombstones, pendingFdDetach>>
               /\ UNCHANGED dirfdTable
    /\ UNCHANGED <<takenBefore, dirfdStateUnknown, opaqueFdReuses, postMarkerFdReuses, outVars>>

\* close_range on the group's table; its range is remembered whatever was tracked in it.
TakeCloseRange(p) ==
    /\ Take(p, {"close_range"})
    /\ up' = compressed(up, p)
    /\ LET r == rootedFd(p)
           l == NextLine(p)
       IN /\ dirfdTable' = [dirfdTable EXCEPT ![r] = CloseIn(@, l.range, l.cloexec)]
          /\ recordFdTombstone(p, [kind |-> "range", fds |-> l.range, cloexec |-> l.cloexec])
          /\ IF l.cloexec THEN UNCHANGED <<postMarkerFdReuses, opaqueFdReuses>>
             ELSE /\ postMarkerFdReuses' = closedAfterMarker(r, l.range)
                  /\ opaqueFdReuses' = [opaqueFdReuses EXCEPT ![r] = @ \ l.range]
    /\ UNCHANGED <<takenBefore, dirfdStateUnknown, outVars>>

\* unshare(CLONE_FILES): p leaves its group, with a marker for a clone line yet to come.
TakeUnshare(p) ==
    /\ Take(p, {"unshare"})
    /\ \E root \in newRoots(p) :
         LET d == detachFdGroup(p, root)
         IN /\ up' = d.up /\ dirfdTable' = d.tbl /\ dirfdStateUnknown' = d.unknown
            /\ opaqueFdReuses' = d.opaque
    /\ pendingFdDetach' = [pendingFdDetach EXCEPT ![p] = markDetach(p, <<>>)]
    /\ pendingFdTombstones' = [pendingFdTombstones EXCEPT ![p] = <<>>]
    /\ UNCHANGED <<takenBefore, postMarkerFdReuses, outVars>>

\* The marker of a detach that changes the copy; only a process alone in its group needs one.
marksAction(p, action) ==
    IF isFdSingleton(p)
    THEN /\ pendingFdDetach' = [pendingFdDetach EXCEPT ![p] = markDetach(p, <<action>>)]
         /\ pendingFdTombstones' = [pendingFdTombstones EXCEPT ![p] = <<>>]
    ELSE UNCHANGED <<pendingFdDetach, pendingFdTombstones>>

TakeRangeUnshare(p) ==
    /\ Take(p, {"range_unshare"})
    /\ LET l == NextLine(p)
       IN /\ \E root \in newRoots(p) :
               LET d == detachFdGroup(p, root)
               IN /\ up' = d.up /\ dirfdStateUnknown' = d.unknown
                  /\ dirfdTable' = [d.tbl EXCEPT ![p] = CloseIn(@, l.range, l.cloexec)]
                  /\ opaqueFdReuses' = [d.opaque EXCEPT ![p] = IF l.cloexec THEN @ ELSE @ \ l.range]
          /\ marksAction(p, [kind |-> "range_unshare", fds |-> l.range, cloexec |-> l.cloexec])
          /\ postMarkerFdReuses' = IF l.cloexec THEN postMarkerFdReuses
                                   ELSE closedAfterMarker(p, l.range)
    /\ UNCHANGED <<takenBefore, outVars>>

\* execve: a private table without the close-on-exec descriptors.
TakeExec(p) ==
    /\ Take(p, {"exec"})
    /\ \E root \in newRoots(p) :
         LET d == detachFdGroup(p, root)
             swept == {f \in Fds : d.tbl[p][f] # None /\ d.tbl[p][f].cloexec}
         IN /\ up' = d.up /\ dirfdStateUnknown' = d.unknown /\ opaqueFdReuses' = d.opaque
            /\ dirfdTable' = [d.tbl EXCEPT ![p] = CloseIn(@, swept, FALSE)]
            /\ postMarkerFdReuses' = closedAfterMarker(p, swept)
    /\ marksAction(p, [kind |-> "exec", fds |-> Fds, cloexec |-> FALSE])
    /\ UNCHANGED <<takenBefore, outVars>>

-----------------------------------------------------------------------------
(* Reconciling a child with its parent.                                    *)

\* Whether applying e to table t loses a descriptor there; a close is taken to lose one
\* even if the table does not have it.
Marks(e) == e.cloexec
Loses(t, e) == ~Marks(e) /\ (e.kind = "close" \/ \E f \in e.fds : t[f] # None)

\* A pending entry on the child's table; descriptors it reused are spared by what came
\* before, except by the range a detach itself closed.
onChild(t, e, reused) ==
    CASE e.kind = "exec" ->
           CloseIn(t, {f \in e.fds : t[f] # None /\ t[f].cloexec}, FALSE)
      [] e.kind = "range_unshare" -> CloseIn(t, e.fds, e.cloexec)
      [] OTHER -> CloseIn(t, e.fds \ reused, Marks(e))

\* CLONE_FILES without a marker: one group; what the child closed in the shared table
\* before its clone was seen is closed in the group, which is unknown from then on.
shareFds(p, c, tombs) ==
    LET pr == rootedFd(p)
        u == unionFd(pr, rootedFd(c))
        step(s, e) == [tbl |-> CloseIn(s.tbl, e.fds, Marks(e)), lost |-> s.lost \/ Loses(s.tbl, e)]
        end == FoldLeft(step, [tbl |-> u.tbl[pr], lost |-> FALSE], tombs)
    IN /\ up' = [compressed(compressed(up, c), p) EXCEPT ![rootedFd(c)] = pr]
       /\ dirfdTable' = [u.tbl EXCEPT ![pr] = end.tbl]
       /\ dirfdStateUnknown' = u.unknown \cup {q \in {pr} : end.lost}
       /\ opaqueFdReuses' = u.opaque
       /\ pendingFdDetach' =
            [pendingFdDetach EXCEPT ![pr] = IF @ = None THEN @
                                            ELSE [@ EXCEPT !.postDetachLog = @ \o tombs]]

\* MUTANT of inherited: a descriptor the child reopened unseen gets the parent's entry.
Mut_inherited(t, pt, reused, opaque) == [f \in Fds |-> IF t[f] = None THEN pt[f] ELSE t[f]]

\* The child's table t with the parent's entries: a descriptor the child reused is its own;
\* two paths for one descriptor leave it without any.
inherited(t, pt, reused, opaque) ==
    [f \in Fds |->
        IF pt[f] = None THEN t[f]
        ELSE IF t[f] = None THEN IF f \in reused \cup opaque THEN None ELSE pt[f]
        ELSE IF t[f].path = pt[f].path THEN [t[f] EXCEPT !.cloexec = @ \/ pt[f].cloexec]
        ELSE IF f \in reused \cup opaque THEN t[f] ELSE None]

\* The parent's table after a child that shared it left with snapshot snap: what the two
\* disagree on, what the child reused unseen, or everything if the child's was unknown.
disagree(pt, snap) ==
    {f \in Fds : pt[f] # None /\ snap.entries[f] # None /\ pt[f].path # snap.entries[f].path}
afterSharing(pt, snap) ==
    IF snap.unknown THEN NoTable
    ELSE CloseIn(pt, disagree(pt, snap) \cup snap.preDetachOpaque, FALSE)

\* The child gets a copy.  With a snapshot its log is replayed on the copy, and if the clone
\* shared the table, what came before the snapshot also on the parent.
copyFds(p, c, share, snap, reused, tombs) ==
    LET pr == rootedFd(p)
        cr == rootedFd(c)
        shared == snap # None /\ share
        taints == shared /\ (snap.unknown \/ disagree(dirfdTable[pr], snap) # {})
        unknownToBoth == IF taints THEN {pr, cr} ELSE {}
        start == [child |-> inherited(dirfdTable[cr], dirfdTable[pr], reused, opaqueFdReuses[cr]),
                  parent |-> IF shared THEN afterSharing(dirfdTable[pr], snap) ELSE dirfdTable[pr],
                  unknown |-> dirfdStateUnknown \cup unknownToBoth
                                \cup {q \in {cr} : pr \in dirfdStateUnknown}]
        before(s, e) ==
            LET lost == {f \in e.fds : e.kind = "close" \/ s.parent[f] # None}
            IN [child |-> onChild(s.child, e, reused),
                parent |-> IF shared THEN CloseIn(s.parent, e.fds, Marks(e)) ELSE s.parent,
                unknown |-> IF shared /\ Loses(s.parent, e)
                            THEN s.unknown \cup {pr} \cup {q \in {cr} : lost \ reused # {}}
                            ELSE s.unknown]
        after(s, e) == [s EXCEPT !.child = onChild(@, e, reused)]
        end == IF snap = None THEN FoldLeft(after, start, tombs)
               ELSE FoldLeft(after, FoldLeft(before, start, snap.preDetachTombstones),
                             snap.postDetachLog)
    IN /\ up' = compressed(compressed(up, c), p)
       /\ IF pr = cr THEN UNCHANGED <<dirfdTable, dirfdStateUnknown>>
          ELSE /\ dirfdTable' = [dirfdTable EXCEPT ![pr] = end.parent, ![cr] = end.child]
               /\ dirfdStateUnknown' = end.unknown
       /\ UNCHANGED opaqueFdReuses

\* The clone line of c, which may come after any number of c's own lines.
TakeClone(p) ==
    /\ Take(p, {"clone", "clone_files"})
    /\ LET l == NextLine(p)
           c == l.child
           share == l.call = "clone_files"
           snap == pendingFdDetach[c]
           reused == {f \in Fds : postMarkerFdReuses[rootedFd(c)][f] # "none"}
           tombs == IF snap = None THEN pendingFdTombstones[c] ELSE <<>>
       IN /\ takenBefore' = [takenBefore EXCEPT ![c] = taken[c]]
          /\ postMarkerFdReuses' = [postMarkerFdReuses EXCEPT ![rootedFd(c)] = NoReuse]
          /\ pendingFdTombstones' = [pendingFdTombstones EXCEPT ![c] = <<>>]
          /\ IF share /\ snap = None THEN shareFds(p, c, tombs)
             ELSE /\ copyFds(p, c, share, snap, reused, tombs)
                  /\ pendingFdDetach' = [pendingFdDetach EXCEPT ![c] = None]
    /\ UNCHANGED outVars

Done ==
    /\ ~running /\ Untaken = {}
    /\ UNCHANGED vars

Calls1(p) ==
    \/ \E call \in Opens, d \in Dirs, x \in BOOLEAN, f \in Fds : OpenCall(p, call, d, x, f)
    \/ \E f \in Fds, g \in Fds \cup {None} : OpenAtCall(p, f, g)
    \/ \E f \in Fds : FchdirCall(p, f) \/ CloseCall(p, f)
    \/ \E call \in Dups, f, g \in Fds, x \in BOOLEAN : DupCall(p, call, f, g, x)
    \/ \E f \in Fds, x \in BOOLEAN : SetfdCall(p, f, x)
    \/ \E call \in Calls, range \in Ranges, x \in BOOLEAN : CloseRangeCall(p, call, range, x)
    \/ UnshareCall(p)
    \/ ExecCall(p)
    \/ \E call \in Calls, c \in Pids : CloneCall(p, call, c)

Takes(p) ==
    \/ TakeOpen(p) \/ TakeOpenAt(p) \/ TakeFchdir(p) \/ TakeDup(p) \/ TakeClose(p) \/ TakeSetfd(p)
    \/ TakeCloseRange(p) \/ TakeUnshare(p) \/ TakeRangeUnshare(p) \/ TakeExec(p) \/ TakeClone(p)

Next == (\E p \in Pids : Calls1(p) \/ Takes(p)) \/ TreeDone \/ Done

Spec == Init /\ [][Next]_vars

-----------------------------------------------------------------------------
(* Properties.                                                             *)

LineOf(u) == file[u.pid][u.ts]
IsTrue(u) == u.dir = LineOf(u).at
Lines(p) == {file[p][i] : i \in DOMAIN file[p]}
AllLines == UNION {Lines(p) : p \in Pids}

\* While every process has a table of its own, a directory found for a descriptor is the
\* one behind it, in whatever order the files are read: a child before its clone line, its
\* closes, reuses and execs replayed on the copy it gets.
PrivateTrue ==
    (\A l \in AllLines : l.call # "clone_files") => \A u \in resolved : IsTrue(u)

\* As long as the lines come in the order of the calls, shared tables and private ones are
\* followed exactly: a directory that is found is true, and nothing but an open that could
\* not be followed leaves a descriptor without one.
InOrderExact ==
    /\ \A u \in resolved : u.inOrder => IsTrue(u)
    /\ (\A l \in AllLines : l.call # "opaque") => \A u \in unresolved : ~u.inOrder

\* What a child did to the table it shares with its parent is not missed by the parent when
\* the child's file is read before the clone line: a parent that only looks descriptors up
\* after the clone, and later than the child's last call, finds the true directory or none.
SharedSeenByParent ==
    \A u \in resolved, c \in Pids :
        LET later == {i \in DOMAIN file[u.pid] : file[u.pid][i].child = c
                                                 /\ file[u.pid][i].call = "clone_files"}
            quiet == \A i \in later, j \in DOMAIN file[u.pid] :
                        i < j => file[u.pid][j].call \in {"openat", "fchdir"}
                                 /\ file[u.pid][j].to = None
        IN /\ later # {} /\ (\A i \in later : i < u.ts) /\ quiet
           /\ live = {u.pid, c}
           /\ takenBefore[c] = Len(file[c])
           /\ \A l \in Lines(c) : l.n < LineOf(u).n
           => IsTrue(u)
=============================================================================
