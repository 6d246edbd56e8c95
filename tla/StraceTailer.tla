---------------------------- MODULE StraceTailer ----------------------------
(***************************************************************************)
(* The guest's capture of the audit channel: runStraceTailer and           *)
(* attachFd3Reader of agent.ts, against the traced processes that write.   *)
(*                                                                         *)
(* Strace writes one file per pid and the preload shim appends to one      *)
(* events file and to fd 3.  The tailer polls, is called back by file      *)
(* watchers, and once strace has exited re-reads until nothing changes; a  *)
(* consumer takes the lines from one queue and sleeps when it is empty.    *)
(* JavaScript runs each callback to its end, but the traced processes run  *)
(* in parallel: they may write between two reads of the same callback.     *)
(*                                                                         *)
(* A file is a number of tokens, two per line: the text and its newline.   *)
(* So 2k tokens are k whole lines, 2k + 1 end in an unterminated one, and  *)
(* line n of a file is its tokens 2n - 1 and 2n.                           *)
(***************************************************************************)
EXTENDS Integers, Sequences

CONSTANTS
    PidFiles,           \* strace's per-pid files
    Events,             \* the shim's events file
    Fd3,                \* the shim's fd-3 pipe
    MaxTokens,          \* bound: tokens written to one file
    MaxFd3,             \* bound: lines written to fd 3
    MaxStall,           \* polls in a row that may miss a file's unread tokens
    settleQuietPasses,  \* unchanged passes that end the settle loop
    Interference        \* may anything but the shim touch the events file?

ASSUME SourcesAssumption ==
    Events \notin PidFiles /\ Fd3 \notin PidFiles /\ Fd3 # Events
ASSUME BoundsAssumption == MaxTokens \in Nat /\ MaxFd3 \in Nat
\* A directory listing or a read may miss what was just written, but not for as many
\* polls as the settle loop waits.
ASSUME SettleAssumption ==
    MaxStall \in Nat /\ settleQuietPasses \in Nat \ {0} /\ MaxStall < settleQuietPasses
ASSUME InterferenceAssumption == Interference \in BOOLEAN

Files == PidFiles \cup {Events}
Sources == Files \cup {Fd3}
META_ADVANCE_REQUIRED_POLLS == 3

VARIABLES
    \* the traced processes and what is on disk
    exit,          \* how strace ended, as the exit handler sees it
    size,          \* tokens in each file
    stall,         \* consecutive polls that missed unread tokens of the file
    evId,          \* what the events path names
    lag,           \* a write has moved the events file's times, not yet its size
    mtimeBack,     \* the events file's mtime is before one already observed
    renamed,       \* an inotify rename of the events file is undelivered
    disturbed,     \* something but the shim touched the events file
    lost,          \* text of the events file was removed unread, or put where it was read already
    \* the tailer's read positions and queue
    pos, buf, queue,
    \* the gates of drainEventsFile
    maxSeen, statted, ctimeNew, mtimeNew, ctimeStrikes, mtimeStrikes, pendingCtime, tamper,
    \* control
    cb,            \* the callback in progress
    left,          \* per-pid files it has still to visit
    phase, childExited, quiet, prev,
    consumer,
    delivered,     \* number of the last line of each source handed to the dispatcher
    \* fd 3
    fd3n, fd3Pending, fd3Closed

diskVars == <<size, evId, lag, mtimeBack, renamed, disturbed, lost>>
readVars == <<pos, buf, queue, stall>>
gateVars == <<maxSeen, statted, ctimeNew, mtimeNew, ctimeStrikes, mtimeStrikes>>
loopVars == <<phase, childExited, quiet, prev>>
fd3Vars  == <<fd3n, fd3Pending, fd3Closed>>
vars == <<exit, diskVars, readVars, gateVars, pendingCtime, tamper, cb, left, loopVars,
          consumer, delivered, fd3Vars>>

Item == [file : Sources, n : Nat]
Reasons == {"gone", "replaced", "shrank", "regressed", "mtime", "ctime", "renamed",
            "signal", "unsettled"}

DiskTypeOK ==
    /\ exit \in {"alive", "clean", "signal", "unknown"}
    /\ size \in [Files -> 0..MaxTokens]
    /\ stall \in [Files -> 0..MaxStall]
    /\ evId \in {"same", "other", "gone"}
    /\ lag \in BOOLEAN /\ mtimeBack \in BOOLEAN /\ renamed \in BOOLEAN /\ disturbed \in BOOLEAN
    /\ lost \in BOOLEAN

ReadTypeOK ==
    /\ pos \in [Files -> 0..MaxTokens]
    /\ buf \in [Files -> 0..1]
    /\ queue \in Seq(Item)
    /\ delivered \in [Sources -> Nat]
    /\ fd3n \in 0..MaxFd3 /\ fd3Pending \in 0..MaxFd3 /\ fd3Closed \in BOOLEAN

GateTypeOK ==
    /\ maxSeen \in 0..MaxTokens
    /\ statted \in BOOLEAN /\ ctimeNew \in BOOLEAN /\ mtimeNew \in BOOLEAN
    /\ ctimeStrikes \in 0..META_ADVANCE_REQUIRED_POLLS
    /\ mtimeStrikes \in 0..META_ADVANCE_REQUIRED_POLLS
    /\ pendingCtime \in BOOLEAN
    /\ tamper \in Reasons \cup {"none"}

LoopTypeOK ==
    /\ cb \in {"idle", "tick", "settle", "flush"}
    /\ left \subseteq PidFiles
    /\ phase \in {"run", "settle", "done"}
    /\ childExited \in BOOLEAN
    /\ quiet \in 0..settleQuietPasses
    /\ prev \in [Files -> -1..MaxTokens]
    /\ consumer \in {"unstarted", "ready", "parked", "finished"}

TypeOK == DiskTypeOK /\ ReadTypeOK /\ GateTypeOK /\ LoopTypeOK

Init ==
    /\ exit = "alive"
    /\ size = [f \in Files |-> 0] /\ stall = [f \in Files |-> 0]
    /\ evId = "same" /\ lag = FALSE /\ mtimeBack = FALSE /\ renamed = FALSE /\ disturbed = FALSE
    /\ lost = FALSE
    /\ pos = [f \in Files |-> 0] /\ buf = [f \in Files |-> 0] /\ queue = <<>>
    /\ maxSeen = 0 /\ statted = FALSE /\ ctimeNew = FALSE /\ mtimeNew = FALSE
    /\ ctimeStrikes = 0 /\ mtimeStrikes = 0 /\ pendingCtime = FALSE /\ tamper = "none"
    /\ cb = "idle" /\ left = {} /\ phase = "run" /\ childExited = FALSE
    /\ quiet = 0 /\ prev = [f \in Files |-> -1]
    /\ consumer = "unstarted" /\ delivered = [s \in Sources |-> 0]
    /\ fd3n = 0 /\ fd3Pending = 0 /\ fd3Closed \in BOOLEAN

-----------------------------------------------------------------------------
(* The traced processes.                                                   *)

\* Strace appends to a per-pid file, a token at a time.
StraceWrites(f) ==
    /\ exit = "alive" /\ size[f] < MaxTokens
    /\ size' = [size EXCEPT ![f] = @ + 1]
    /\ UNCHANGED <<exit, evId, lag, mtimeBack, renamed, disturbed, lost, readVars, gateVars,
                   pendingCtime, tamper, cb, left, loopVars, consumer, delivered, fd3Vars>>

\* The shim appends to the events file: a stat may see the new times before the new
\* size.  Without strace to wait for the whole tree, writers outlive the exit.
ShimStamps ==
    /\ exit # "clean" /\ evId = "same" /\ ~lag /\ size[Events] < MaxTokens
    /\ lag' = TRUE
    /\ mtimeNew' = TRUE /\ ctimeNew' = TRUE /\ mtimeBack' = FALSE
    /\ UNCHANGED <<exit, size, evId, renamed, disturbed, lost, readVars, maxSeen, statted,
                   ctimeStrikes, mtimeStrikes, pendingCtime, tamper, cb, left, loopVars,
                   consumer, delivered, fd3Vars>>

ShimWrites ==
    /\ lag
    /\ lag' = FALSE
    /\ size' = [size EXCEPT ![Events] = @ + 1]
    /\ lost' = (lost \/ size[Events] < pos[Events])
    /\ UNCHANGED <<exit, evId, mtimeBack, renamed, disturbed, readVars, gateVars, pendingCtime,
                   tamper, cb, left, loopVars, consumer, delivered, fd3Vars>>

\* The kernel settles the ctime of the last write after the write was read.
CtimeSettles ==
    /\ size[Events] > 0 /\ ~ctimeNew
    /\ ctimeNew' = TRUE
    /\ UNCHANGED <<exit, diskVars, readVars, maxSeen, statted, mtimeNew, ctimeStrikes,
                   mtimeStrikes, pendingCtime, tamper, cb, left, loopVars, consumer, delivered,
                   fd3Vars>>

\* The events file is cut back to k tokens and written again up to m, with no poll in between;
\* its mtime may be put back.  A poll sees sizes and times, never that the text has changed.
EventsRewritten(k, m) ==
    /\ k < size[Events] /\ k <= m
    /\ size' = [size EXCEPT ![Events] = m]
    /\ lost' = (lost \/ pos[Events] < size[Events] \/ (k < pos[Events] /\ k < m))
    /\ ctimeNew' = TRUE /\ mtimeNew' \in BOOLEAN

\* Something else touches the events file, once: it disappears, is replaced, is renamed
\* away and back, loses a suffix and perhaps gets another, or has its mtime set back.
EventsDisturbed ==
    /\ Interference /\ ~disturbed /\ exit # "clean" /\ ~lag
    /\ disturbed' = TRUE
    /\ \/ /\ evId' \in {"gone", "other", "same"} /\ renamed' = TRUE
          /\ UNCHANGED <<size, lost, mtimeBack, ctimeNew, mtimeNew>>
       \/ /\ \E k, m \in 0..MaxTokens : EventsRewritten(k, m)
          /\ UNCHANGED <<evId, renamed, mtimeBack>>
       \/ /\ mtimeBack' = TRUE /\ ctimeNew' = TRUE /\ mtimeNew' = FALSE
          /\ UNCHANGED <<evId, renamed, size, lost>>
    /\ UNCHANGED <<exit, lag, readVars, maxSeen, statted, ctimeStrikes, mtimeStrikes,
                   pendingCtime, tamper, cb, left, loopVars, consumer, delivered, fd3Vars>>

\* exitPromise resolves: strace exited after the whole tree, was killed or failed to
\* spawn, or (macOS) only the direct child is known to have exited.
StraceExits ==
    /\ exit = "alive"
    /\ exit' \in {"clean", "signal", "unknown"}
    /\ exit' = "clean" => ~lag
    /\ UNCHANGED <<diskVars, readVars, gateVars, pendingCtime, tamper, cb, left, loopVars,
                   consumer, delivered, fd3Vars>>

-----------------------------------------------------------------------------
(* Shared pieces of the tailer.                                            *)

Awake == IF consumer = "parked" THEN "ready" ELSE consumer
wake == consumer' = Awake

\* drainFile wakes the consumer only when it queued a whole line.
WakeIfQueued == consumer' = IF queue' # queue THEN Awake ELSE consumer

\* recordTamper after `first`: the first reason is kept.
recordTamper(first, reason) == tamper' = IF first = "none" THEN reason ELSE first

\* How much of f's unread tokens a poll may return.
Readable(f) == {n \in 0..(size[f] - pos[f]) : n = 0 /\ size[f] > pos[f] => stall[f] < MaxStall}

\* Lines k + 1 to k + m of f.
LineItems(f, k, m) == [i \in 1..m |-> [file |-> f, n |-> k + i]]

\* Lines of f already queued when the whole buffer is held back.
Before(f) == (pos[f] - buf[f]) \div 2

\* The tokens kept back as an unterminated line.
Remainder(f, n) == (buf[f] + n) % 2

\* Read n more tokens of f: whole lines are queued, the rest stays in the buffer.
Mut_ReadTokens(f, n) ==
    /\ pos' = pos
    /\ buf' = [buf EXCEPT ![f] = Remainder(f, n)]
    /\ queue' = queue \o LineItems(f, Before(f), (buf[f] + n) \div 2)
    /\ stall' = [stall EXCEPT ![f] = IF n = 0 /\ size[f] > pos[f] THEN @ + 1 ELSE 0]
ReadTokens(f, n) ==
    /\ pos' = [pos EXCEPT ![f] = @ + n]
    /\ buf' = [buf EXCEPT ![f] = Remainder(f, n)]
    /\ queue' = queue \o LineItems(f, Before(f), (buf[f] + n) \div 2)
    /\ stall' = [stall EXCEPT ![f] = IF n = 0 /\ size[f] > pos[f] THEN @ + 1 ELSE 0]

\* "Advanced without new bytes": size === eventsPos while the traced tree is alive.
NoNewBytes == ~childExited /\ size[Events] = pos[Events]

Strike(hit, strikes) ==
    IF ~hit THEN 0
    ELSE IF strikes < META_ADVANCE_REQUIRED_POLLS THEN strikes + 1 ELSE strikes

\* drainEventsFile, refusing: the path is gone or names another file, the file shrank,
\* or its mtime went back.  `first` is the reason recorded before the call.
EventsRefused(first) ==
    /\ \/ evId = "gone" /\ recordTamper(first, "gone") /\ UNCHANGED maxSeen
       \/ evId = "other" /\ recordTamper(first, "replaced") /\ UNCHANGED maxSeen
       \/ /\ evId = "same" /\ size[Events] < maxSeen
          /\ recordTamper(first, "shrank") /\ UNCHANGED maxSeen
       \/ /\ evId = "same" /\ size[Events] >= maxSeen /\ mtimeBack
          /\ recordTamper(first, "regressed") /\ maxSeen' = size[Events]
    /\ UNCHANGED <<readVars, statted, ctimeNew, mtimeNew, ctimeStrikes, mtimeStrikes,
                   pendingCtime>>

\* drainEventsFile, past those gates: three polls in a row with a newer ctime and no new
\* bytes are noted for the exit handler; three with a newer mtime are reported at once;
\* otherwise the new bytes are read.  (The fd's own inode check is part of the first gate:
\* a replacement between the stat and the open is one just before the stat.)
EventsAccepted(first) ==
    /\ evId = "same" /\ size[Events] >= maxSeen /\ ~mtimeBack
    /\ maxSeen' = size[Events]
    /\ ctimeStrikes' = Strike(ctimeNew /\ NoNewBytes, ctimeStrikes)
    /\ IF ctimeStrikes' = META_ADVANCE_REQUIRED_POLLS
       THEN /\ pendingCtime' = TRUE /\ tamper' = first
            /\ UNCHANGED <<readVars, statted, ctimeNew, mtimeNew, mtimeStrikes>>
       ELSE /\ mtimeStrikes' = Strike(statted /\ mtimeNew /\ NoNewBytes, mtimeStrikes)
            /\ IF mtimeStrikes' = META_ADVANCE_REQUIRED_POLLS
               THEN /\ recordTamper(first, "mtime")
                    /\ UNCHANGED <<readVars, statted, ctimeNew, mtimeNew>>
               ELSE /\ mtimeNew' = FALSE /\ statted' = TRUE /\ tamper' = first
                    /\ \E n \in Readable(Events) :
                         ReadTokens(Events, n) /\ ctimeNew' = (ctimeNew /\ n = 0)
            /\ UNCHANGED pendingCtime

drainEventsFile(first) == EventsRefused(first) \/ EventsAccepted(first)

-----------------------------------------------------------------------------
(* The tailer's callbacks.  `cb` holds the one in progress.                *)

Idle == cb = "idle" /\ consumer \notin {"unstarted", "finished"}

\* The poll timer or the directory watcher: drainEventsFile, then pollDir.
Tick ==
    /\ Idle /\ phase # "done"
    /\ drainEventsFile(tamper) /\ WakeIfQueued
    /\ cb' = "tick" /\ left' = PidFiles
    /\ UNCHANGED <<exit, diskVars, loopVars, delivered, fd3Vars>>

\* A pass of the settle loop starts the same way.
SettlePass ==
    /\ Idle /\ phase = "settle"
    /\ drainEventsFile(tamper) /\ WakeIfQueued
    /\ cb' = "settle" /\ left' = PidFiles
    /\ UNCHANGED <<exit, diskVars, loopVars, delivered, fd3Vars>>

\* The events-file watcher: drainEventsFile; wake().
EventsChanged ==
    /\ Idle /\ phase # "done"
    /\ drainEventsFile(tamper) /\ wake
    /\ UNCHANGED <<exit, diskVars, cb, left, loopVars, delivered, fd3Vars>>

\* The events directory's watcher saw a rename of the basename.
EventsRenamed ==
    /\ Idle /\ phase # "done" /\ renamed
    /\ renamed' = FALSE
    /\ drainEventsFile(IF tamper = "none" THEN "renamed" ELSE tamper) /\ wake
    /\ UNCHANGED <<exit, size, evId, lag, mtimeBack, disturbed, lost, cb, left, loopVars,
                   delivered, fd3Vars>>

\* pollDir -> drainFile(f), for each listed file in turn.
DrainPidFile ==
    /\ cb \in {"tick", "settle"}
    /\ \E f \in left :
         /\ \E n \in Readable(f) : ReadTokens(f, n)
         /\ left' = left \ {f}
    /\ WakeIfQueued
    /\ UNCHANGED <<exit, diskVars, gateVars, pendingCtime, tamper, cb, loopVars, delivered, fd3Vars>>

EndTick ==
    /\ cb = "tick" /\ left = {}
    /\ cb' = "idle" /\ wake
    /\ UNCHANGED <<exit, diskVars, readVars, gateVars, pendingCtime, tamper, left, loopVars,
                   delivered, fd3Vars>>

\* The exit handler: a killed tracer is reported; a normal exit of the whole tree freezes
\* the two strike gates and voids the provisional verdict.
Mut_ExitHandler ==
    /\ Idle /\ phase = "run" /\ exit # "alive"
    /\ phase' = "settle"
    /\ childExited' = FALSE
    /\ IF exit = "signal" THEN recordTamper(tamper, "signal") ELSE UNCHANGED tamper
    /\ UNCHANGED <<pendingCtime, exit, diskVars, readVars, gateVars, cb, left, quiet, prev,
                   consumer, delivered, fd3Vars>>
ExitHandler ==
    /\ Idle /\ phase = "run" /\ exit # "alive"
    /\ phase' = "settle"
    /\ childExited' = (exit = "clean")
    /\ IF exit = "signal" THEN recordTamper(tamper, "signal") ELSE UNCHANGED tamper
    /\ pendingCtime' = (pendingCtime /\ exit # "clean")
    /\ UNCHANGED <<exit, diskVars, readVars, gateVars, cb, left, quiet, prev,
                   consumer, delivered, fd3Vars>>

\* Quiet passes so far, after this one.  Positions never go back, so comparing them is
\* comparing progressKey's sums.
Mut_QuietAfterPass == IF pos = prev THEN settleQuietPasses ELSE 0
QuietAfterPass == IF pos = prev THEN quiet + 1 ELSE 0

\* Why the settle loop refuses the capture, if it does.
settleVerdict(q) ==
    IF tamper # "none" THEN tamper
    ELSE IF pendingCtime /\ ~childExited THEN "ctime"
    ELSE IF q < settleQuietPasses THEN "unsettled"
    ELSE "none"

\* The end of a pass: another one, or the loop ends (quiet, or the hard deadline).
EndSettlePass ==
    /\ cb = "settle" /\ left = {}
    /\ quiet' = QuietAfterPass /\ prev' = pos
    /\ \/ /\ quiet' < settleQuietPasses
          /\ cb' = "idle"
          /\ UNCHANGED <<tamper, left>>
       \/ /\ cb' = "flush" /\ left' = PidFiles
          /\ tamper' = settleVerdict(quiet')
    /\ UNCHANGED <<exit, diskVars, readVars, gateVars, pendingCtime, phase, childExited, consumer,
                   delivered, fd3Vars>>

\* An unterminated line is handed over as it is.
Flush(f) ==
    /\ buf' = [buf EXCEPT ![f] = 0]
    /\ queue' = IF buf[f] > 0 THEN Append(queue, [file |-> f, n |-> Before(f) + 1]) ELSE queue

FlushPidFile ==
    /\ cb = "flush"
    /\ \E f \in left : Flush(f) /\ left' = left \ {f}
    /\ UNCHANGED <<exit, diskVars, pos, stall, gateVars, pendingCtime, tamper, cb, loopVars, consumer,
                   delivered, fd3Vars>>

\* The events file's partial line; timer and watchers are closed; done = true; wake().
FinishTail ==
    /\ cb = "flush" /\ left = {}
    /\ Flush(Events)
    /\ cb' = "idle" /\ phase' = "done" /\ wake
    /\ UNCHANGED <<exit, diskVars, pos, stall, gateVars, pendingCtime, tamper, left, childExited,
                   quiet, prev, delivered, fd3Vars>>

-----------------------------------------------------------------------------
(* fd 3 and the consumer.                                                  *)

\* A line of fd 3: kept until the sink is set, queued from then on.
Fd3Line ==
    /\ cb = "idle" /\ ~fd3Closed /\ fd3n < MaxFd3
    /\ fd3n' = fd3n + 1
    /\ IF consumer = "unstarted"
       THEN fd3Pending' = fd3Pending + 1 /\ UNCHANGED <<queue, consumer>>
       ELSE /\ queue' = Append(queue, [file |-> Fd3, n |-> fd3n + 1])
            /\ wake
            /\ UNCHANGED fd3Pending
    /\ UNCHANGED <<exit, diskVars, pos, buf, stall, gateVars, pendingCtime, tamper, cb, left,
                   loopVars, delivered, fd3Closed>>

Mut_Fd3Close ==
    /\ cb = "idle" /\ ~fd3Closed
    /\ fd3Closed' = TRUE
    /\ UNCHANGED <<consumer, exit, diskVars, readVars, gateVars, pendingCtime, tamper, cb, left,
                   loopVars, delivered, fd3n, fd3Pending>>
Fd3Close ==
    /\ cb = "idle" /\ ~fd3Closed
    /\ fd3Closed' = TRUE /\ wake
    /\ UNCHANGED <<exit, diskVars, readVars, gateVars, pendingCtime, tamper, cb, left,
                   loopVars, delivered, fd3n, fd3Pending>>

\* The dispatcher asks for the first line: the generator's body runs up to its loop.
StartTailer ==
    /\ cb = "idle" /\ consumer = "unstarted"
    /\ consumer' = "ready"
    /\ queue' = queue \o LineItems(Fd3, 0, fd3Pending)
    /\ fd3Pending' = 0
    /\ UNCHANGED <<exit, diskVars, pos, buf, stall, gateVars, pendingCtime, tamper, cb, left,
                   loopVars, delivered, fd3n, fd3Closed>>

\* yield queue.shift().
Yield ==
    /\ cb = "idle" /\ consumer = "ready" /\ queue # <<>>
    /\ delivered' = [delivered EXCEPT ![Head(queue).file] = Head(queue).n]
    /\ queue' = Tail(queue)
    /\ UNCHANGED <<exit, diskVars, pos, buf, stall, gateVars, pendingCtime, tamper, cb, left,
                   loopVars, consumer, fd3Vars>>

\* The queue is empty: the generator returns, or sleeps until wake().
ParkOrReturn ==
    /\ cb = "idle" /\ consumer = "ready" /\ queue = <<>>
    /\ consumer' = IF phase = "done" /\ fd3Closed THEN "finished" ELSE "parked"
    /\ UNCHANGED <<exit, diskVars, readVars, gateVars, pendingCtime, tamper, cb, left, loopVars,
                   delivered, fd3Vars>>

-----------------------------------------------------------------------------
Traced ==
    \/ \E f \in PidFiles : StraceWrites(f)
    \/ ShimStamps \/ ShimWrites \/ CtimeSettles \/ EventsDisturbed \/ StraceExits

\* What a callback in progress does next.
InCallback == DrainPidFile \/ EndTick \/ EndSettlePass \/ FlushPidFile \/ FinishTail

Tailer ==
    \/ Tick \/ SettlePass \/ EventsChanged \/ EventsRenamed \/ ExitHandler \/ InCallback
    \/ Fd3Line \/ Fd3Close \/ StartTailer \/ Yield \/ ParkOrReturn

Returned == consumer = "finished" /\ UNCHANGED vars

Next == Traced \/ Tailer \/ Returned

\* End of fd 3: certain once the whole traced tree has exited.
Fd3Eof == exit = "clean" /\ Fd3Close

(***************************************************************************)
(* A callback in progress is never preempted by another, and the event     *)
(* loop serves due timers and ready promises in turn, so a poll timer that *)
(* keeps firing does not keep the settle loop, the exit handler or the     *)
(* consumer out.                                                           *)
(***************************************************************************)
Fairness ==
    /\ WF_vars(InCallback) /\ WF_vars(StartTailer)
    /\ SF_vars(SettlePass) /\ SF_vars(ExitHandler) /\ SF_vars(Yield) /\ SF_vars(ParkOrReturn)
    /\ SF_vars(Fd3Eof)

Spec == Init /\ [][Next]_vars /\ Fairness

-----------------------------------------------------------------------------
(* Properties.                                                             *)

\* Each line taken from the queue is the next one of its source: every line reaches the
\* dispatcher once and in the order it was written, whatever mix of polls, watchers and
\* settle passes read it (drainFile, drainEventsFile, setSink, the two flushes).
LinesOnceInOrder ==
    [][Yield \/ delivered' # delivered =>
         \E s \in Sources : delivered' = [delivered EXCEPT ![s] = @ + 1]]_vars

\* A consumer never sleeps on work: wake() follows every push, the end of the settle
\* loop and the end of fd 3.
NoLostWakeup ==
    consumer = "parked" /\ cb = "idle" => queue = <<>> /\ ~(phase = "done" /\ fd3Closed)

\* A capture that returns without a tamper reason was not cut off by a killed tracer, and
\* after a normal exit of the traced tree every file was read to its end, fd 3 too, and the
\* events path still names the file that was read.  Text of the events file can still be
\* missing: a suffix removed unread, or put where the tailer had read already, is not seen
\* by any gate once a clean exit voids the ctime strikes (the accepted residual beside the
\* exit handler).  Such a loss takes a writer other than the shim: the tailer's own reads,
\* polls and settle passes never lose any.
CaptureReadToEnd ==
    consumer = "finished" /\ tamper = "none" =>
        /\ exit # "signal"
        /\ exit = "clean" =>
             /\ \A f \in Files : delivered[f] = (size[f] + 1) \div 2
             /\ delivered[Fd3] = fd3n
             /\ evId = "same" /\ ~mtimeBack
             /\ lost => disturbed

\* An audit nothing interfered with is never refused for tampering: late times, the
\* settling ctime and slow polls can at most leave it unsettled.
NoFalseTamper ==
    exit \in {"alive", "clean"} /\ ~disturbed => tamper \in {"none", "unsettled"}

\* Once the whole traced tree has exited, the generator returns.
TailerReturns == exit = "clean" ~> consumer = "finished"
=============================================================================
