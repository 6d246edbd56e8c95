----------------------------- MODULE StraceRun -----------------------------
(***************************************************************************)
(* One install under strace: LinuxStraceRunner.run of agent.ts without the *)
(* lines of the trace, which StraceTailer models.                          *)
(*                                                                         *)
(* While the children of strace are polled for the pid of the install      *)
(* command, the install runs, writes to stdout and may already end.  What  *)
(* it wrote is kept as a tail, redacted a whole line at a time, for the    *)
(* error message.  A byte of stdout is a letter, one of the two bytes of   *)
(* an accented one, or a newline, and the secret is a letter and an        *)
(* accented one; the time is counted in poll intervals.                    *)
(***************************************************************************)
EXTENDS Integers, Sequences, FiniteSets

CONSTANTS
    Install,        \* the install command
    Launcher,       \* a wrapper that starts it and goes away
    Daemons,        \* processes the install leaves behind
    None,
    settlePolls, deadlineMs, maxIters,
    LauncherPolls,  \* how many polls a launcher may live to see
    Delays,         \* how long a poll interval may take
    capBytes, pendingMaxBytes,
    MaxBytes        \* bound: bytes written to stdout

Pids == {Install, Launcher} \cup Daemons

ASSUME PidsAssumption ==
    /\ Install # Launcher /\ Install \notin Daemons /\ Launcher \notin Daemons /\ None \notin Pids
    /\ IsFiniteSet(Daemons)
ASSUME PollsAssumption ==
    /\ settlePolls \in Nat \ {0} /\ maxIters \in Nat /\ deadlineMs \in Nat
    /\ LauncherPolls \in Nat /\ LauncherPolls < settlePolls
    /\ Delays \subseteq Nat
ASSUME BytesAssumption ==
    capBytes \in Nat /\ pendingMaxBytes \in Nat /\ MaxBytes \in Nat /\ pendingMaxBytes >= capBytes

VARIABLES
    \* the processes
    strace,         \* unborn, running, gone, or failed to start
    alive,
    children,       \* strace's direct children
    launches,       \* polls the launcher has lived to see
    stdout,         \* what was written to it
    \* readStraceChildPid
    candidate, streak, iter, elapsed,
    \* attachStdoutTailCollector
    read,           \* bytes of stdout given to its decoder
    pending, redactedTail, poisoned,
    stdoutEnded,
    \* run
    pc, rootPid,
    installWasAlive,  \* when the root pid was settled
    exitStatus        \* as the exit promise has it

treeVars == <<alive, children, launches>>
pollVars == <<candidate, streak, iter, elapsed>>
tailVars == <<read, pending, redactedTail, poisoned, stdoutEnded>>
runVars  == <<pc, rootPid, installWasAlive, exitStatus>>
vars == <<strace, treeVars, stdout, pollVars, tailVars, runVars>>

Bytes == {"s", "u", "v", "nl"}

\* Characters: "e" is "u" and "v" together, "?" a broken one, "M" the mask of a secret and
\* "T" the mark of a tail that was given up.  "" takes the place of a first byte, which its
\* character shows at the second, and of what a mask has swallowed.
Chars == {"s", "e", "nl", "?", "M", "T", ""}

TypeOK ==
    /\ strace \in {"unborn", "running", "gone", "failed"}
    /\ alive \subseteq Pids /\ children \subseteq alive /\ launches \in 0..LauncherPolls
    /\ stdout \in Seq(Bytes) /\ Len(stdout) <= MaxBytes
    /\ candidate \in Pids \cup {None} /\ streak \in 0..settlePolls
    /\ iter \in 0..maxIters /\ elapsed \in Nat
    /\ read \in 0..Len(stdout)
    /\ pending \in Seq(Chars) /\ redactedTail \in Seq(Chars)
    /\ poisoned \in BOOLEAN /\ stdoutEnded \in BOOLEAN
    /\ pc \in {"resolving", "tailing", "returned"}
    /\ rootPid \in Pids \cup {None} /\ installWasAlive \in BOOLEAN
    /\ exitStatus \in {"none", "close", "error"}

\* The collector starts with nothing read and nothing kept.
attachStdoutTailCollector ==
    /\ read = 0 /\ pending = <<>> /\ redactedTail = <<>> /\ poisoned = FALSE /\ stdoutEnded = FALSE

\* Everything is attached before the first await: exit, stdout, stderr and fd 3.
Init ==
    /\ strace \in {"unborn", "failed"}
    /\ alive = {} /\ children = {} /\ launches = 0 /\ stdout = <<>>
    /\ candidate = None /\ streak = 0 /\ iter = 0 /\ elapsed = 0
    /\ attachStdoutTailCollector
    /\ pc = (IF strace = "failed" THEN "tailing" ELSE "resolving")
    /\ rootPid = None /\ installWasAlive = FALSE /\ exitStatus = "none"

-----------------------------------------------------------------------------
(* The processes under strace, and what the kernel makes of orphans: they  *)
(* become children of strace.                                              *)

Others == UNCHANGED <<stdout, pollVars, tailVars, runVars>>

StraceForks(p) ==
    /\ strace = "unborn" /\ p \in {Install, Launcher}
    /\ strace' = "running" /\ alive' = {p} /\ children' = {p}
    /\ UNCHANGED launches /\ Others

Launch ==
    /\ Launcher \in alive /\ Install \notin alive
    /\ alive' = alive \cup {Install}
    /\ UNCHANGED <<strace, children, launches>> /\ Others

LauncherExits ==
    /\ Launcher \in alive
    /\ alive' = alive \ {Launcher}
    /\ children' = (children \ {Launcher}) \cup (alive \cap {Install})
    /\ UNCHANGED <<strace, launches>> /\ Others

Daemonise(d) ==
    /\ Install \in alive /\ d \in Daemons \ alive
    /\ alive' = alive \cup {d} /\ children' = children \cup {d}
    /\ UNCHANGED <<strace, launches>> /\ Others

\* The install or a daemon exits; a launcher waits for nobody.
Exits(p) ==
    /\ p \in alive \ {Launcher}
    /\ alive' = alive \ {p} /\ children' = children \ {p}
    /\ UNCHANGED <<strace, launches>> /\ Others

\* Characters are written whole, except by a process that dies.
Write(b) ==
    /\ alive # {} /\ Len(stdout) < MaxBytes
    /\ (b = "v") = (stdout # <<>> /\ stdout[Len(stdout)] = "u")
    /\ stdout' = Append(stdout, b)
    /\ UNCHANGED <<strace, treeVars, pollVars, tailVars, runVars>>

\* strace exits with the last process of the tree.
StraceExits ==
    /\ strace = "running" /\ alive = {} /\ strace' = "gone"
    /\ UNCHANGED treeVars /\ Others

Tree ==
    \/ \E p \in Pids : StraceForks(p) \/ Exits(p) \/ Daemonise(p)
    \/ Launch \/ LauncherExits \/ StraceExits
    \/ \E b \in Bytes : Write(b)

-----------------------------------------------------------------------------
(* readStraceChildPid.                                                     *)

Settled(p) ==
    /\ rootPid' = p /\ pc' = "tailing" /\ installWasAlive' = (Install \in alive)
    /\ UNCHANGED exitStatus

Polling == pc = "resolving" /\ UNCHANGED <<strace, alive, children, stdout, tailVars>>

\* Out of time by the monotonic clock, or out of turns if that stands still.
GiveUp ==
    /\ Polling /\ (iter = maxIters \/ elapsed >= deadlineMs)
    /\ Settled(None)
    /\ UNCHANGED <<launches, pollVars>>

\* MUTANT of counted: the first sole child is taken at once.
Mut_counted(seen) ==
    IF Cardinality(seen) # 1 THEN [of |-> None, polls |-> 0]
    ELSE [of |-> CHOOSE p \in seen : TRUE, polls |-> settlePolls]

\* The sole child and the polls in a row it has been that.
counted(seen) ==
    IF Cardinality(seen) # 1 THEN [of |-> None, polls |-> 0]
    ELSE LET p == CHOOSE q \in seen : TRUE
         IN [of |-> p, polls |-> IF p = candidate THEN streak + 1 ELSE 1]

\* A poll; /proc may be unreadable.
Poll ==
    /\ Polling /\ iter < maxIters /\ elapsed < deadlineMs
    /\ Launcher \in alive => launches < LauncherPolls
    /\ launches' = IF Launcher \in alive THEN launches + 1 ELSE launches
    /\ \E seen \in {children, {}} :
         /\ candidate' = counted(seen).of /\ streak' = counted(seen).polls
         /\ IF streak' >= settlePolls
            THEN Settled(candidate') /\ UNCHANGED <<iter, elapsed>>
            ELSE /\ iter' = iter + 1 /\ \E d \in Delays : elapsed' = elapsed + d
                 /\ UNCHANGED runVars

-----------------------------------------------------------------------------
(* attachStdoutTailCollector.                                              *)

Count(s, cs) == Cardinality({i \in DOMAIN s : s[i] \in cs})
size(s) == Count(s, Chars \ {""}) + Count(s, {"e", "?"}) + Count(s, {"?"})

\* The characters that bytes of stdout stand for; a first byte shows nothing yet.
decoded(bytes) ==
    [i \in DOMAIN bytes |-> IF bytes[i] = "u" THEN "" ELSE IF bytes[i] = "v" THEN "e" ELSE bytes[i]]

\* What the redactor makes of text: every secret in it is masked whole.
redact(text) ==
    LET secretAt(i) == /\ {i, i + 2} \subseteq DOMAIN text
                       /\ text[i] = "s" /\ text[i + 1] = "" /\ text[i + 2] = "e"
    IN [i \in DOMAIN text |-> IF secretAt(i) THEN "M"
                              ELSE IF secretAt(i - 1) \/ secretAt(i - 2) THEN "" ELSE text[i]]

\* The longest end of s that fits, cut between characters.
capTail(s) ==
    LET ends == {SubSeq(s, i, Len(s)) : i \in 1..Len(s) + 1}
        fits == {t \in ends : size(t) <= capBytes}
    IN CHOOSE t \in fits : \A u \in fits : Len(u) <= Len(t)

appendRedacted(s) == redactedTail' = capTail(redactedTail \o s)

\* Where the complete lines of text end.
lastNewline(text) ==
    LET ends == {i \in DOMAIN text : text[i] = "nl"}
    IN IF ends = {} THEN 0 ELSE CHOOSE i \in ends : \A j \in ends : j <= i

\* MUTANT of drainCompleteLines: text is redacted and committed as it arrives.
Mut_drainCompleteLines(text) == pending' = <<>> /\ appendRedacted(redact(text))

\* The complete lines are redacted, none of them in pieces, and committed.
drainCompleteLines(text) ==
    LET n == lastNewline(text)
    IN /\ pending' = SubSeq(text, n + 1, Len(text))
       /\ appendRedacted(redact(SubSeq(text, 1, n)))

\* A line that does not end in time ends the tail for good.
poison(text) ==
    LET n == lastNewline(text)
    IN /\ redactedTail' = capTail(capTail(redactedTail \o redact(SubSeq(text, 1, n))) \o <<"T">>)
       /\ poisoned' = TRUE /\ pending' = <<>>

Reading == UNCHANGED <<strace, treeVars, stdout, pollVars, runVars>>

\* A chunk up to byte n.
Data(n) ==
    /\ Reading /\ n \in (read + 1)..Len(stdout) /\ read' = n
    /\ \E text \in {pending \o decoded(SubSeq(stdout, read + 1, n))} :
          IF poisoned THEN UNCHANGED <<pending, redactedTail, poisoned>>
          ELSE IF size(SubSeq(text, lastNewline(text) + 1, Len(text))) > pendingMaxBytes THEN poison(text)
          ELSE drainCompleteLines(text) /\ UNCHANGED poisoned
    /\ UNCHANGED stdoutEnded

\* Nobody can write any more, and all is read: a first byte that still waits is broken.
broken == IF stdout # <<>> /\ stdout[Len(stdout)] = "u" THEN <<"?">> ELSE <<>>

End ==
    /\ Reading /\ strace \in {"gone", "failed"} /\ read = Len(stdout) /\ ~stdoutEnded
    /\ stdoutEnded' = TRUE
    /\ IF poisoned THEN UNCHANGED <<pending, redactedTail>> ELSE drainCompleteLines(pending \o broken)
    /\ UNCHANGED <<read, poisoned>>

getStdoutTail == capTail(redactedTail \o IF poisoned THEN <<>> ELSE redact(pending))

-----------------------------------------------------------------------------
(* The exit promise, and the end of run.                                   *)

Emits == UNCHANGED <<strace, treeVars, stdout, pollVars, tailVars, pc, rootPid, installWasAlive>>

\* MUTANT of Close: nobody listens before the root pid is settled.
Mut_Close ==
    /\ Emits /\ strace = "gone" /\ stdoutEnded /\ exitStatus = "none"
    /\ exitStatus' = IF pc = "resolving" THEN "lost" ELSE "close"

\* close waits for the ends of the pipes.
Close ==
    /\ Emits /\ strace = "gone" /\ stdoutEnded /\ exitStatus = "none"
    /\ exitStatus' = "close"

SpawnError ==
    /\ Emits /\ strace = "failed" /\ exitStatus = "none"
    /\ exitStatus' = "error"

\* The tailer returns after the exit promise (StraceTailer).
TailerReturns ==
    /\ pc = "tailing" /\ exitStatus \in {"close", "error"} /\ pc' = "returned"
    /\ UNCHANGED <<strace, treeVars, stdout, pollVars, tailVars, rootPid, installWasAlive, exitStatus>>

Runner ==
    \/ GiveUp \/ Poll \/ (\E n \in 1..MaxBytes : Data(n)) \/ End \/ Close \/ SpawnError
    \/ TailerReturns

Done == pc = "returned" /\ UNCHANGED vars

Next == Tree \/ Runner \/ Done

\* The event loop of the agent goes on; the processes need not end.
Spec == Init /\ [][Next]_vars /\ WF_vars(Runner)

-----------------------------------------------------------------------------
(* Properties.                                                             *)

\* As long as the install command lives, no wrapper before it and no process it left behind
\* is taken for it: what readStraceChildPid settles on is the install command or nothing.
RootIsInstall == rootPid \notin {None, Install} => ~installWasAlive

\* However stdout was cut into chunks, what is kept of it is the end of all of it with every
\* secret masked; if a line had no end in time, of all lines before that one, and a mark.
TailExact ==
    pc = "returned" =>
        LET said == decoded(stdout) \o broken
            before(i) == redact(SubSeq(said, 1, i))
        IN IF ~poisoned THEN getStdoutTail = capTail(redact(said))
           ELSE \E i \in 0..Len(said) :
                   /\ i = 0 \/ said[i] = "nl"
                   /\ \A j \in i + 1..Len(said) :
                         size(SubSeq(said, i + 1, j)) <= pendingMaxBytes => said[j] # "nl"
                   /\ getStdoutTail = capTail(before(i) \o <<"T">>)

\* Once the whole tree is gone, or strace did not start, run returns, also if that was while
\* the children were being polled and whether or not the clock moves.
RunReturns == (strace \in {"gone", "failed"}) ~> (pc = "returned")
=============================================================================
