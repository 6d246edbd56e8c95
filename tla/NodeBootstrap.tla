--------------------------- MODULE NodeBootstrap ---------------------------
(***************************************************************************)
(* Which reads the dispatcher of phase-install.ts leaves out because Node  *)
(* makes them while it starts.                                             *)
(*                                                                         *)
(* As in FdTracker a tree of processes runs first; then the lines of       *)
(* strace, a file for each process, and those of the shim, one file for    *)
(* all, are taken in any interleaving.  A Node tells on both when it has   *)
(* started.  Until then its reads are noise, and so is later what          *)
(* processes of unknown kind read of the same name.  A program that is not *)
(* called node may still be one: its reads are held back until it tells.   *)
(*                                                                         *)
(* A name or path is an item.  No pid is reused, a read that is not        *)
(* hidden or protected is meant, and whoever reads has an attribution, at  *)
(* once or (a process already gone) at the end.                            *)
(***************************************************************************)
EXTENDS Integers, Sequences, FiniteSets

CONSTANTS
    Pids,
    Root,       \* the package manager
    Items,
    Allowed,    \* the calls the tree may make
    MaxCalls,   \* bound: calls of the whole tree
    None

Calls == {"exec", "clone", "thread", "read", "env_read", "marker", "exit"}

ASSUME RootAssumption == Root \in Pids /\ None \notin Pids
ASSUME CallsAssumption == Allowed \subseteq Calls /\ MaxCalls \in Nat

VARIABLES
    \* the processes, and what strace and the shim wrote of them
    running, live,
    image,        \* other, starting or started (a Node), thread
    leader,       \* of a thread
    client,       \* whether a process is a package manager's
    file, shim, calls,
    \* the dispatcher
    taken, shimTaken,
    prompt,       \* so far lines were taken in the order of the calls, those of reads from the living
    seen,         \* children whose clone line was taken
    boot,         \* nodeBootstrap: env and file: pids pending, completed, children
    cand,         \* nodeBootstrapCandidate: pids, their events, confirmed and marked pids
    envReads, fileReads,
    packageManagerClientPids, completedPackageManagerClientPids,
    envEndedTs, fileEndedTs,
    deferredRelOpens, deferredNullAttribEvents,
    emitted,
    flushed

treeVars == <<running, live, image, leader, client, file, shim, calls>>
takeVars == <<taken, shimTaken, prompt, seen>>
clientVars == <<packageManagerClientPids, completedPackageManagerClientPids>>
endedVars == <<envEndedTs, fileEndedTs>>
deferVars == <<deferredRelOpens, deferredNullAttribEvents>>
dispatchVars == <<takeVars, boot, cand, envReads, fileReads, clientVars, endedVars, deferVars,
                  emitted, flushed>>
vars == <<treeVars, dispatchVars>>

Images == {"other", "starting", "started", "thread"}

\* A line: whose, what and when; startup and client are true of the process at that time.
Line == [call : Calls, pid : Pids, node : BOOLEAN, client : BOOLEAN, child : Pids \cup {None},
         item : Items \cup {None}, relative : BOOLEAN, image : Images, startup : BOOLEAN, n : Nat]

TypeOK ==
    /\ running \in BOOLEAN /\ live \subseteq Pids /\ image \in [Pids -> Images]
    /\ leader \in [Pids -> Pids] /\ client \in [Pids -> BOOLEAN]
    /\ file \in [Pids -> Seq(Line)] /\ shim \in Seq(Line) /\ calls \in 0..MaxCalls
    /\ taken \in [Pids -> Nat] /\ shimTaken \in Nat /\ prompt \in BOOLEAN /\ seen \subseteq Pids
    /\ boot \in [env : SUBSET Pids, file : SUBSET Pids, completed : SUBSET Pids,
                 children : [Pids -> SUBSET Pids]]
    /\ cand \in [pids : SUBSET Pids, events : [Pids -> SUBSET Line],
                 confirmed : SUBSET Pids, marked : SUBSET Pids]
    /\ envReads \subseteq Items \cup {None} /\ fileReads \subseteq Items \cup {None}
    /\ packageManagerClientPids \subseteq Pids /\ completedPackageManagerClientPids \subseteq Pids
    /\ envEndedTs \in [Pids -> Nat] /\ fileEndedTs \in [Pids -> Nat]
    /\ deferredRelOpens \in Seq([line : Line, inherited : BOOLEAN])
    /\ deferredNullAttribEvents \in Seq([line : Line, pending : BOOLEAN])
    /\ emitted \subseteq Line /\ flushed \in BOOLEAN

Init ==
    /\ running = TRUE /\ live = {Root} /\ image = [p \in Pids |-> "other"]
    /\ leader = [p \in Pids |-> p] /\ client = [p \in Pids |-> p = Root]
    /\ file = [p \in Pids |-> <<>>] /\ shim = <<>> /\ calls = 0
    /\ taken = [p \in Pids |-> 0] /\ shimTaken = 0 /\ prompt = TRUE /\ seen = {Root}
    /\ boot = [env |-> {}, file |-> {}, completed |-> {}, children |-> [p \in Pids |-> {}]]
    /\ cand = [pids |-> {}, events |-> [p \in Pids |-> {}], confirmed |-> {}, marked |-> {}]
    /\ envReads = {} /\ fileReads = {}
    /\ packageManagerClientPids = {} /\ completedPackageManagerClientPids = {}
    /\ envEndedTs = [p \in Pids |-> 0] /\ fileEndedTs = [p \in Pids |-> 0]
    /\ deferredRelOpens = <<>> /\ deferredNullAttribEvents = <<>>
    /\ emitted = {} /\ flushed = FALSE

-----------------------------------------------------------------------------
(* The processes.                                                          *)

lineOf(p, call) ==
    [call |-> call, pid |-> p, node |-> FALSE, client |-> client[p], child |-> None, item |-> None,
     relative |-> FALSE, image |-> image[p], startup |-> image[leader[p]] = "starting",
     n |-> calls + 1]

\* p makes a call; strace writes lines, and the shim writes said.
Calling(p, lines, said) ==
    /\ running /\ p \in live /\ calls < MaxCalls
    /\ \A l \in {(lines \o said)[i] : i \in DOMAIN (lines \o said)} : l.call \in Allowed
    /\ calls' = calls + 1
    /\ file' = [file EXCEPT ![p] = @ \o lines]
    /\ shim' = shim \o said
    /\ UNCHANGED <<running, dispatchVars>>

IsThread(p) == leader[p] # p

\* A program is called node, is a script that node runs, or something else; a package
\* manager's is known by its name or not.  The threads are gone.
ExecCall(p, node, becomes, isClient, known) ==
    /\ ~IsThread(p) /\ image[p] # "starting"
    /\ becomes \in {"starting", "other"} /\ (node => becomes = "starting")
    /\ (known => isClient) /\ (p = Root => isClient)
    /\ Calling(p, <<[lineOf(p, "exec") EXCEPT !.node = node, !.client = known]>>, <<>>)
    /\ image' = [image EXCEPT ![p] = becomes] /\ client' = [client EXCEPT ![p] = isClient]
    /\ live' = live \ {q \in Pids \ {p} : leader[q] = p}
    /\ UNCHANGED leader

\* A fork runs the same program; that of a Node is none until it executes something.
CloneCall(p, c) ==
    /\ ~IsThread(p) /\ image[p] # "starting" /\ c \notin live /\ file[c] = <<>> /\ c # Root
    /\ \A q \in Pids : c \notin {file[q][i].child : i \in DOMAIN file[q]}
    /\ Calling(p, <<[lineOf(p, "clone") EXCEPT !.child = c]>>, <<>>)
    /\ live' = live \cup {c} /\ client' = [client EXCEPT ![c] = client[p]]
    /\ UNCHANGED <<image, leader>>

\* Node starts threads from its beginning on; strace has a file for each.
ThreadCall(p, c) ==
    /\ image[p] \in {"starting", "started"} /\ c \notin live /\ file[c] = <<>> /\ c # Root
    /\ \A q \in Pids : c \notin {file[q][i].child : i \in DOMAIN file[q]}
    /\ Calling(p, <<[lineOf(p, "thread") EXCEPT !.child = c]>>, <<>>)
    /\ live' = live \cup {c} /\ client' = [client EXCEPT ![c] = client[p]]
    /\ image' = [image EXCEPT ![c] = "thread"] /\ leader' = [leader EXCEPT ![c] = p]

ReadCall(p, x, relative) ==
    /\ Calling(p, <<[lineOf(p, "read") EXCEPT !.item = x, !.relative = relative]>>, <<>>)
    /\ UNCHANGED <<live, image, leader, client>>

\* The shim names the process, not the thread.
EnvCall(p, x) ==
    /\ ~IsThread(p)
    /\ Calling(p, <<>>, <<[lineOf(p, "env_read") EXCEPT !.item = x]>>)
    /\ UNCHANGED <<live, image, leader, client>>

\* signalNodeStartupDone: the shim's line, and an open for strace.
StartedCall(p) ==
    /\ image[p] = "starting"
    /\ Calling(p, <<lineOf(p, "marker")>>, <<lineOf(p, "marker")>>)
    /\ image' = [image EXCEPT ![p] = "started"]
    /\ UNCHANGED <<live, leader, client>>

ExitCall(p) ==
    /\ ~IsThread(p)
    /\ Calling(p, <<lineOf(p, "exit")>>, <<>>)
    /\ live' = live \ {q \in Pids : leader[q] = p}
    /\ UNCHANGED <<image, leader, client>>

TreeDone ==
    /\ running /\ running' = FALSE
    /\ UNCHANGED <<live, image, leader, client, file, shim, calls, dispatchVars>>
-----------------------------------------------------------------------------
(* Who is starting.                                                        *)

\* p and the children below it: the least set that holds p and is closed under children.
nodeBootstrapSubtree(p) ==
    {q \in Pids : \A S \in SUBSET Pids :
                     p \in S /\ (\A x \in S : boot.children[x] \subseteq S) => q \in S}

clearNodeBootstrap(p) ==
    LET S == nodeBootstrapSubtree(p)
    IN [env |-> boot.env \ S, file |-> boot.file \ S, completed |-> boot.completed \ S,
        children |-> [q \in Pids |-> IF q \in S THEN {} ELSE boot.children[q]]]

clearNodeBootstrapEnv(p) == [boot EXCEPT !.env = @ \ nodeBootstrapSubtree(p)]

clearNodeBootstrapFile(p) ==
    LET S == nodeBootstrapSubtree(p)
    IN [boot EXCEPT !.file = @ \ S,
                    !.children = [q \in Pids |-> IF q \in S \ boot.env THEN {} ELSE @[q]]]

beginNodeBootstrap(p) ==
    LET b == clearNodeBootstrap(p) IN [b EXCEPT !.env = @ \cup {p}, !.file = @ \cup {p}]

\* MUTANT of propagateNodeBootstrap: a thread is not taken to start with its process.
Mut_propagateNodeBootstrap(p, c) == boot

propagateNodeBootstrap(p, c) ==
    [boot EXCEPT !.env = @ \cup {q \in {c} : p \in boot.env},
                 !.file = @ \cup {q \in {c} : p \in boot.file},
                 !.children[p] = @ \cup {q \in {c} : p \in boot.env \cup boot.file}]

IsCandidate(p) == p \in cand.pids
heldBack(p) == cand.events[p]

\* The candidate p is decided, or begins anew.
candidateWithout(c, p) ==
    [pids |-> c.pids \ {p}, events |-> [c.events EXCEPT ![p] = {}], confirmed |-> c.confirmed \ {p},
     marked |-> c.marked \ {p}]
beginCandidate(p) == LET c == candidateWithout(cand, p) IN [c EXCEPT !.pids = @ \cup {p}]

itemsOf(events, call) == {l.item : l \in {e \in events : e.call = call}}

-----------------------------------------------------------------------------
(* The dispatcher takes a line.                                            *)

NextLine(p) == file[p][taken[p] + 1]
Untaken == {p \in Pids : taken[p] < Len(file[p])}
Heads == {NextLine(p) : p \in Untaken} \cup {shim[i] : i \in {shimTaken + 1} \cap DOMAIN shim}

isFirst(l) == \A m \in Heads : l.n <= m.n

TakeFile(p, call) ==
    /\ ~running /\ p \in Untaken /\ NextLine(p).call = call
    /\ taken' = [taken EXCEPT ![p] = @ + 1]
    /\ UNCHANGED <<treeVars, shimTaken>>

Take(p, call) == TakeFile(p, call) /\ prompt' = (prompt /\ isFirst(NextLine(p)))

TakeShim(call) ==
    /\ ~running /\ shimTaken < Len(shim) /\ shim[shimTaken + 1].call = call
    /\ prompt' = (prompt /\ isFirst(shim[shimTaken + 1]))
    /\ shimTaken' = shimTaken + 1
    /\ UNCHANGED <<treeVars, taken, seen>>

TakeExec(p) ==
    /\ Take(p, "exec")
    /\ emitted' = emitted \cup heldBack(p)
    /\ boot' = IF NextLine(p).node THEN beginNodeBootstrap(p) ELSE clearNodeBootstrap(p)
    /\ cand' = IF NextLine(p).node THEN candidateWithout(cand, p) ELSE beginCandidate(p)
    /\ packageManagerClientPids' = (packageManagerClientPids \ {p}) \cup {q \in {p} : NextLine(p).client}
    /\ completedPackageManagerClientPids' = completedPackageManagerClientPids \ {p}
    /\ UNCHANGED <<seen, envReads, fileReads, endedVars, deferVars, flushed>>

\* propagateNodeBootstrap and stampDeferredRelOpens, for forks and threads alike.
TakeClone(p, call) ==
    /\ Take(p, call)
    /\ LET c == NextLine(p).child
       IN /\ boot' = propagateNodeBootstrap(p, c)
          /\ seen' = seen \cup {c}
          /\ deferredRelOpens' = [i \in DOMAIN deferredRelOpens |->
                IF deferredRelOpens[i].line.pid = c
                THEN [deferredRelOpens[i] EXCEPT !.inherited = c \in boot'.file]
                ELSE deferredRelOpens[i]]
    /\ UNCHANGED <<cand, envReads, fileReads, clientVars, endedVars, deferredNullAttribEvents,
                   emitted, flushed>>

TakeExit(p) ==
    /\ Take(p, "exit")
    /\ emitted' = emitted \cup heldBack(p)
    /\ cand' = candidateWithout(cand, p)
    /\ packageManagerClientPids' = packageManagerClientPids \ {p}
    /\ completedPackageManagerClientPids' =
           completedPackageManagerClientPids \cup (packageManagerClientPids \cap {p})
    /\ UNCHANGED <<seen, boot, envReads, fileReads, endedVars, deferVars, flushed>>

\* The candidate p with the marks of c: with both it was a Node, and its reads are noise.
DecideCandidate(p, c) ==
    LET asNode == p \in c.confirmed \cap c.marked
    IN /\ cand' = IF asNode THEN candidateWithout(c, p) ELSE c
       /\ fileReads' = fileReads \cup (IF asNode THEN itemsOf(c.events[p], "read") ELSE {})

\* strace's line of the marker.
TakeMarker(p) ==
    /\ Take(p, "marker")
    /\ DecideCandidate(p, IF IsCandidate(p) THEN [cand EXCEPT !.marked = @ \cup {p}] ELSE cand)
    /\ boot' = [clearNodeBootstrapFile(p) EXCEPT !.completed = @ \cup {p}]
    /\ fileEndedTs' = [fileEndedTs EXCEPT ![p] = IF @ = 0 THEN NextLine(p).n ELSE @]
    /\ UNCHANGED <<seen, envReads, clientVars, envEndedTs, deferVars, emitted, flushed>>

\* MUTANT of stillStarting: whoever told before is taken to start again.
Mut_stillStarting(p) == ~IsCandidate(p)

\* The shim's line came first: strace's will end the reads of files.
stillStarting(p) == ~IsCandidate(p) /\ p \notin boot.completed

TakeShimMarker ==
    /\ TakeShim("marker")
    /\ LET l == shim[shimTaken + 1]
           p == l.pid
           b == clearNodeBootstrapEnv(p)
       IN /\ packageManagerClientPids' = packageManagerClientPids \cup ({p} \cap {Root})
          /\ completedPackageManagerClientPids' = completedPackageManagerClientPids \ ({p} \cap {Root})
          /\ DecideCandidate(p,
                 IF IsCandidate(p)
                 THEN [cand EXCEPT !.confirmed = @ \cup {p},
                                   !.events[p] = {e \in @ : e.call # "env_read"}]
                 ELSE cand)
          /\ envReads' = envReads \cup
                 (IF p \in packageManagerClientPids' THEN {} ELSE itemsOf(heldBack(p), "env_read"))
          /\ boot' = [b EXCEPT !.file = @ \cup {q \in {p} : stillStarting(p)}]
          /\ envEndedTs' = [envEndedTs EXCEPT ![p] = IF @ = 0 THEN l.n ELSE @]
    /\ UNCHANGED <<fileEndedTs, deferVars, emitted, flushed>>

-----------------------------------------------------------------------------
(* The dispatcher takes a read.                                            *)

hold(l) == cand' = [cand EXCEPT !.events[l.pid] = @ \cup {l}]

\* shouldBufferNodeBootstrapCandidateFileRead, else emit.
HoldOrEmit(l) ==
    \/ IsCandidate(l.pid) /\ l.pid \notin cand.marked /\ hold(l) /\ UNCHANGED emitted
    \/ (~IsCandidate(l.pid) \/ l.pid \in cand.marked) /\ emitted' = emitted \cup {l} /\ UNCHANGED cand

\* shouldFilterNodeBootstrapFileRead, with what is known now of its process.
FilterOrKeep(l, pending) ==
    \/ /\ pending
       /\ fileReads' = fileReads \cup {l.item} /\ UNCHANGED <<cand, emitted>>
    \/ /\ ~pending /\ l.item \in fileReads
       /\ UNCHANGED <<fileReads, cand, emitted>>
    \/ /\ ~pending /\ l.item \notin fileReads
       /\ HoldOrEmit(l) /\ UNCHANGED fileReads

\* Nothing is known of the directory of a child before its clone line.
TakeRelative(p) ==
    /\ Take(p, "read") /\ NextLine(p).relative /\ p \notin seen
    /\ deferredRelOpens' = Append(deferredRelOpens, [line |-> NextLine(p), inherited |-> FALSE])
    /\ UNCHANGED <<seen, boot, cand, envReads, fileReads, clientVars, endedVars,
                   deferredNullAttribEvents, emitted, flushed>>

TakeRead(p) ==
    /\ Take(p, "read") /\ (NextLine(p).relative => p \in seen)
    /\ FilterOrKeep(NextLine(p), p \in boot.file)
    /\ UNCHANGED <<seen, boot, envReads, clientVars, endedVars, deferVars, flushed>>

\* The process is gone and has no attribution yet.
TakeReapedRead(p) ==
    /\ TakeFile(p, "read") /\ ~NextLine(p).relative
    /\ prompt' = FALSE
    /\ deferredNullAttribEvents' =
           Append(deferredNullAttribEvents, [line |-> NextLine(p), pending |-> p \in boot.file])
    /\ UNCHANGED <<seen, boot, cand, envReads, fileReads, clientVars, endedVars, deferredRelOpens,
                   emitted, flushed>>

\* shouldFilterNodeBootstrapEnvRead
filteredEnv(l) ==
    IF l.pid \in boot.env THEN TRUE
    ELSE IF envEndedTs[l.pid] # 0 THEN l.n < envEndedTs[l.pid]
    ELSE l.item \in envReads

TakeEnv ==
    /\ TakeShim("env_read")
    /\ LET l == shim[shimTaken + 1]
           p == l.pid
           held == ~filteredEnv(l) /\ IsCandidate(p) /\ p \notin cand.confirmed
           ofClient == p \in packageManagerClientPids \cup completedPackageManagerClientPids
       IN /\ envReads' = envReads \cup
                 {x \in {l.item} : p \in boot.env /\ p \notin packageManagerClientPids}
          /\ IF held THEN hold(l) ELSE UNCHANGED cand
          /\ emitted' = emitted \cup {e \in {l} : ~filteredEnv(l) /\ ~held /\ ~ofClient}
    /\ UNCHANGED <<boot, fileReads, clientVars, endedVars, deferVars, flushed>>

-----------------------------------------------------------------------------
(* The end of the run: what was deferred, then what is still held back.    *)

AllTaken == ~running /\ Untaken = {} /\ shimTaken = Len(shim)

inWindow(l) == fileEndedTs[l.pid] # 0 /\ l.n < fileEndedTs[l.pid]

ReplayRelOpen ==
    /\ AllTaken /\ deferredRelOpens # <<>>
    /\ LET d == Head(deferredRelOpens)
       IN FilterOrKeep(d.line, inWindow(d.line) \/ (d.inherited /\ fileEndedTs[d.line.pid] = 0))
    /\ deferredRelOpens' = Tail(deferredRelOpens)
    /\ UNCHANGED <<treeVars, takeVars, boot, envReads, clientVars, endedVars,
                   deferredNullAttribEvents, flushed>>

ReplayReaped ==
    /\ AllTaken /\ deferredRelOpens = <<>> /\ deferredNullAttribEvents # <<>>
    /\ LET d == Head(deferredNullAttribEvents)
           starting == d.pending /\ (inWindow(d.line) \/ fileEndedTs[d.line.pid] = 0)
       IN \/ starting /\ UNCHANGED <<cand, emitted>>
          \/ ~starting /\ HoldOrEmit(d.line)
    /\ deferredNullAttribEvents' = Tail(deferredNullAttribEvents)
    /\ UNCHANGED <<treeVars, takeVars, boot, envReads, fileReads, clientVars, endedVars,
                   deferredRelOpens, flushed>>

\* flushAllNodeBootstrapCandidates
FlushAll ==
    /\ AllTaken /\ deferredRelOpens = <<>> /\ deferredNullAttribEvents = <<>> /\ ~flushed
    /\ emitted' = emitted \cup UNION {heldBack(p) : p \in Pids}
    /\ cand' = [pids |-> {}, events |-> [p \in Pids |-> {}], confirmed |-> {}, marked |-> {}]
    /\ flushed' = TRUE
    /\ UNCHANGED <<treeVars, takeVars, boot, envReads, fileReads, clientVars, endedVars, deferVars>>

Done == flushed /\ UNCHANGED vars

Processes(p) ==
    \/ \E node, isClient, known \in BOOLEAN, becomes \in {"starting", "other"} :
           ExecCall(p, node, becomes, isClient, known)
    \/ \E c \in Pids : CloneCall(p, c)
    \/ \E c \in Pids : ThreadCall(p, c)
    \/ \E x \in Items, relative \in BOOLEAN : ReadCall(p, x, relative)
    \/ \E x \in Items : EnvCall(p, x)
    \/ StartedCall(p)
    \/ ExitCall(p)

Dispatch(p) ==
    \/ TakeExec(p)
    \/ TakeClone(p, "clone")
    \/ TakeClone(p, "thread")
    \/ TakeExit(p)
    \/ TakeMarker(p)
    \/ TakeRelative(p)
    \/ TakeRead(p)
    \/ TakeReapedRead(p)

Next ==
    \/ \E p \in Pids : Processes(p)
    \/ TreeDone
    \/ \E p \in Pids : Dispatch(p)
    \/ TakeShimMarker
    \/ TakeEnv
    \/ ReplayRelOpen
    \/ ReplayReaped
    \/ FlushAll
    \/ Done

Spec == Init /\ [][Next]_vars

-----------------------------------------------------------------------------
(* Properties.                                                             *)

Lines ==
    (UNION {{file[p][i] : i \in DOMAIN file[p]} : p \in Pids}) \cup {shim[i] : i \in DOMAIN shim}

Births == {l \in Lines : l.child # None}

\* p and those it descends from.
Kin(p) ==
    {q \in Pids : \A S \in SUBSET Pids :
                     p \in S /\ (\A b \in Births : b.child \in S => b.pid \in S) => q \in S}

TellsLater(l) == \E m \in Lines : m.call = "marker" /\ m.pid = leader[l.pid] /\ m.n > l.n

CalledNode(l) == \A m \in Lines : m.call = "exec" /\ m.pid = leader[l.pid] => m.node

\* Its process tells later that it has started, or executes a program called node; or one it
\* descends from tells so after the fork.
BecomesNode(l) ==
    \/ TellsLater(l)
    \/ \E m \in Lines : m.node /\ m.pid = l.pid /\ m.n > l.n
    \/ \E b \in Births, m \in Lines :
           b.child \in Kin(l.pid) /\ m.call = "marker" /\ m.pid = b.pid /\ m.n > b.n

\* Nobody reads the same while starting, and no thread does.
Clean(l) == \A m \in Lines : m.call = l.call /\ m.item = l.item => ~m.startup /\ m.image # "thread"

\* Its process, or one it descends from, is a Node whose own ancestor executes something after
\* the fork: that makes the dispatcher forget that the Node has told that it started.
Reopens(l) ==
    \E a \in Kin(l.pid), m, e \in Lines, b \in Births :
        /\ m.call = "marker" /\ m.pid = a
        /\ b.child \in Kin(a) /\ e.call = "exec" /\ e.pid = b.pid /\ e.n > b.n

\* In whatever order the files are read, the filter takes nothing that matters: a read of a
\* file that nobody reads while starting or about to become a Node is in the audit (the
\* pending sets, the held back reads and the replay).
FileReadsKept ==
    flushed =>
        \A l \in Lines :
            /\ l.call = "read" /\ Clean(l)
            /\ \A m \in Lines : m.call = "read" /\ m.item = l.item => ~BecomesNode(m) /\ ~Reopens(m)
            => l \in emitted

\* Lines taken in the order in which they were written, before their processes are gone, leave
\* out exactly the noise: what is read of clean items is in the audit, what a Node reads before
\* it tells that it started is not, nor what its threads read if it is called node (the begin,
\* spread and end of the bootstrap, the held back reads).
PromptExact ==
    flushed /\ prompt =>
        \A l \in Lines :
            /\ l.call \in {"read", "env_read"} /\ Clean(l) /\ (l.call = "env_read" => ~l.client)
                   => l \in emitted
            /\ l.call = "read" /\ l.startup /\ TellsLater(l) /\ (l.image = "thread" => CalledNode(l))
                   => l \notin emitted
=============================================================================
