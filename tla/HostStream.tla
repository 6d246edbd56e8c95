----------------------------- MODULE HostStream -----------------------------
(***************************************************************************)
(* The host's install command with its output forwarded line by line:      *)
(* streamSpawn and makeLineSink of host-install.ts.                        *)
(*                                                                         *)
(* The job log is redacted one whole line at a time, so what matters is    *)
(* that a sink never hands over a piece of a line, whichever of the exit,  *)
(* the ends of the two pipes and the grace timer comes first, and however  *)
(* the pipe cuts the output into chunks.  A pipe's content is a sequence   *)
(* of tokens, some text or a newline; a line is named by the position it   *)
(* starts after.                                                           *)
(***************************************************************************)
EXTENDS Integers, Sequences

CONSTANTS
    Streams,        \* stdout and stderr
    MaxWritten,     \* bound: tokens written to one stream
    MaxLine         \* HOST_PART2_MAX_LINE_BYTES, in tokens

ASSUME StreamsAssumption == Streams # {}
ASSUME BoundsAssumption == MaxWritten \in Nat /\ MaxLine \in Nat

VARIABLES
    \* the child and whoever inherited its pipes
    child,      \* the direct child
    open,       \* streams whose write end somebody holds
    written,    \* what was written to each stream
    \* the sinks
    read,       \* tokens of each stream given to its sink
    start,      \* `pending` is the tokens start + 1 .. read
    poisoned,   \* streams whose current line is oversized
    out,        \* the lines handed to onLine
    chunk,      \* the data callback in progress: its stream and its last token
    \* streamSpawn
    ended,      \* streams that emitted 'end'
    exit,       \* the recorded disposition
    grace,      \* the grace timer is armed
    settled     \* what the promise resolved to

writerVars == <<child, open, written>>
sinkVars   == <<read, start, poisoned, out>>
spawnVars  == <<ended, exit, grace, settled>>
vars == <<writerVars, sinkVars, chunk, spawnVars>>

Kinds == {"line", "poison", "truncated"}
Entry == [kind : Kinds, from : Nat, to : Nat]
None == [stream |-> "none", upto |-> 0]

TypeOK ==
    /\ child \in {"starting", "running", "exited", "failed"}
    /\ open \subseteq Streams
    /\ written \in [Streams -> Seq({"text", "nl"})]
    /\ \A s \in Streams : Len(written[s]) <= MaxWritten
    /\ read \in [Streams -> 0..MaxWritten] /\ start \in [Streams -> 0..MaxWritten]
    /\ poisoned \subseteq Streams
    /\ out \in [Streams -> Seq(Entry)]
    /\ chunk = None \/ chunk \in [stream : Streams, upto : 0..MaxWritten]
    /\ ended \subseteq Streams
    /\ exit \in {"none", "exited", "error"}
    /\ grace \in BOOLEAN
    /\ settled \in {"no", "none", "exited", "error"}

Init ==
    /\ child = "starting" /\ open = {} /\ written = [s \in Streams |-> <<>>]
    /\ read = [s \in Streams |-> 0] /\ start = [s \in Streams |-> 0]
    /\ poisoned = {} /\ out = [s \in Streams |-> <<>>]
    /\ chunk = None
    /\ ended = {} /\ exit = "none" /\ grace = FALSE /\ settled = "no"

-----------------------------------------------------------------------------
(* The child and its descendants.                                          *)

\* spawn returns; an executable that cannot be run is reported later, by 'error'.
Spawn ==
    /\ child = "starting" /\ settled = "no"
    /\ \/ child' = "running" /\ open' = Streams
       \/ child' = "failed" /\ open' = {}
    /\ UNCHANGED <<written, sinkVars, chunk, spawnVars>>

\* spawn throws: the promise resolves at once.
SpawnThrows ==
    /\ child = "starting" /\ settled = "no"
    /\ settled' = "error"
    /\ UNCHANGED <<writerVars, sinkVars, chunk, ended, exit, grace>>

\* Whoever holds the write end writes; nobody reads what comes after the resolution.
Write(s) ==
    /\ s \in open /\ settled = "no" /\ Len(written[s]) < MaxWritten
    /\ \E t \in {"text", "nl"} : written' = [written EXCEPT ![s] = Append(@, t)]
    /\ UNCHANGED <<child, open, sinkVars, chunk, spawnVars>>

\* The child exits; descendants may keep some of the pipes.
ChildExits ==
    /\ child = "running"
    /\ child' = "exited" /\ open' \in SUBSET open
    /\ UNCHANGED <<written, sinkVars, chunk, spawnVars>>

CloseEnd(s) ==
    /\ s \in open
    /\ open' = open \ {s}
    /\ UNCHANGED <<child, written, sinkVars, chunk, spawnVars>>

-----------------------------------------------------------------------------
(* makeLineSink: onData, one newline of the chunk at a time.               *)

\* A callback may start: none is running and the streams are not destroyed.
Ready == chunk = None /\ settled = "no" /\ child # "starting"

\* 'data' with everything up to token n.
Data(s) ==
    /\ Ready
    /\ \E n \in (read[s] + 1)..Len(written[s]) : chunk' = [stream |-> s, upto |-> n]
    /\ UNCHANGED <<writerVars, sinkVars, spawnVars>>

\* No newline of w among the tokens a + 1 .. b.
NoNewline(w, a, b) == \A i \in (a + 1)..b : w[i] # "nl"

Emit(s, kind, to) ==
    out' = [out EXCEPT ![s] = Append(@, [kind |-> kind, from |-> start[s], to |-> to])]

\* The next newline of the chunk ends a line: it is handed over, unless it is the rest of
\* an oversized one.
NextLine(s) ==
    /\ chunk # None /\ s = chunk.stream
    /\ \E i \in (read[s] + 1)..chunk.upto :
         /\ written[s][i] = "nl" /\ NoNewline(written[s], read[s], i - 1)
         /\ read' = [read EXCEPT ![s] = i] /\ start' = [start EXCEPT ![s] = i]
         /\ IF s \in poisoned
            THEN poisoned' = poisoned \ {s} /\ UNCHANGED out
            ELSE Emit(s, "line", i - 1) /\ UNCHANGED poisoned
    /\ UNCHANGED <<writerVars, chunk, spawnVars>>

\* The rest of the chunk has no newline: it stays pending, unless the line is or becomes
\* oversized.
Mut_ChunkEnd(s) ==
    /\ chunk # None /\ s = chunk.stream /\ NoNewline(written[s], read[s], chunk.upto)
    /\ read' = [read EXCEPT ![s] = chunk.upto]
    /\ IF chunk.upto - start[s] > MaxLine
       THEN Emit(s, "poison", chunk.upto) /\ start' = [start EXCEPT ![s] = chunk.upto]
       ELSE UNCHANGED <<out, start>>
    /\ chunk' = None
    /\ UNCHANGED <<poisoned, writerVars, spawnVars>>
ChunkEnd(s) ==
    /\ chunk # None /\ s = chunk.stream /\ NoNewline(written[s], read[s], chunk.upto)
    /\ read' = [read EXCEPT ![s] = chunk.upto]
    /\ IF s \in poisoned
       THEN start' = [start EXCEPT ![s] = chunk.upto] /\ UNCHANGED <<poisoned, out>>
       ELSE IF chunk.upto - start[s] > MaxLine
       THEN /\ Emit(s, "poison", chunk.upto)
            /\ start' = [start EXCEPT ![s] = chunk.upto]
            /\ poisoned' = poisoned \cup {s}
       ELSE UNCHANGED <<start, poisoned, out>>
    /\ chunk' = None
    /\ UNCHANGED <<writerVars, spawnVars>>

-----------------------------------------------------------------------------
(* streamSpawn: the events of the child and of its streams.                *)

\* What finalize adds to the output of s, if it had ended or not.
Mut_Trailing(s, streamEnded) ==
    IF s \in poisoned \/ read[s] = start[s] THEN <<>>
    ELSE <<[kind |-> "line", from |-> start[s], to |-> read[s]]>>
Trailing(s, streamEnded) ==
    IF s \in poisoned \/ read[s] = start[s] THEN <<>>
    ELSE <<[kind |-> IF streamEnded THEN "line" ELSE "truncated",
            from |-> start[s], to |-> read[s]]>>

\* finish: both sinks are finalized, the streams destroyed, the promise resolved.
finish(endedNow, exitNow) ==
    /\ out' = [s \in Streams |-> out[s] \o Trailing(s, s \in endedNow)]
    /\ start' = read /\ poisoned' = {}
    /\ settled' = exitNow
    /\ grace' = FALSE
    /\ UNCHANGED read

\* 'end' of s: everything was read and the write end is closed.
EndEvent(s) ==
    /\ Ready /\ s \notin ended /\ s \notin open /\ read[s] = Len(written[s])
    /\ ended' = ended \cup {s}
    /\ IF ended' = Streams /\ exit # "none"
       THEN finish(ended', exit)
       ELSE UNCHANGED <<sinkVars, settled, grace>>
    /\ UNCHANGED <<writerVars, chunk, exit>>

\* 'exit' of the direct child: resolve now if both pipes ended, else arm the timer.
Mut_ExitEvent ==
    /\ Ready /\ child = "exited" /\ exit = "none"
    /\ exit' = "exited"
    /\ IF ended = Streams
       THEN finish(ended, exit')
       ELSE UNCHANGED <<sinkVars, settled, grace>>
    /\ UNCHANGED <<writerVars, chunk, ended>>
ExitEvent ==
    /\ Ready /\ child = "exited" /\ exit = "none"
    /\ exit' = "exited"
    /\ IF ended = Streams
       THEN finish(ended, exit')
       ELSE grace' = TRUE /\ UNCHANGED <<sinkVars, settled>>
    /\ UNCHANGED <<writerVars, chunk, ended>>

\* 'error': the executable could not be run.
ErrorEvent ==
    /\ Ready /\ child = "failed"
    /\ exit' = "error"
    /\ finish(ended, exit')
    /\ UNCHANGED <<writerVars, chunk, ended>>

\* The grace timer fires.
GraceExpires ==
    /\ Ready /\ grace
    /\ finish(ended, exit)
    /\ UNCHANGED <<writerVars, chunk, ended, exit>>

-----------------------------------------------------------------------------
Writers == Spawn \/ SpawnThrows \/ ChildExits \/ \E s \in Streams : Write(s) \/ CloseEnd(s)
InData == \E s \in Streams : NextLine(s) \/ ChunkEnd(s)
Settled == settled # "no" /\ UNCHANGED vars

Next ==
    \/ Writers \/ InData
    \/ \E s \in Streams : Data(s) \/ EndEvent(s)
    \/ ExitEvent \/ ErrorEvent \/ GraceExpires \/ Settled

(***************************************************************************)
(* A callback runs to its end, and the event loop serves due timers and    *)
(* child events in turn with the data of the pipes: output that never      *)
(* stops does not keep the exit or the timer out.  Nothing is assumed of   *)
(* the child or of who holds its pipes.                                    *)
(***************************************************************************)
Fairness == WF_vars(InData) /\ SF_vars(ExitEvent) /\ SF_vars(ErrorEvent) /\ SF_vars(GraceExpires)

Spec == Init /\ [][Next]_vars /\ Fairness

-----------------------------------------------------------------------------
(* Properties.                                                             *)

\* The lines begun in w, each named by the position before it.
Begun(w) == {p \in 0..(Len(w) - 1) : p = 0 \/ w[p] = "nl"}

\* A whole line of w: from a line's start to its newline, or to the end of a stream that
\* nobody can write to any more.
WholeLine(w, held, e) ==
    /\ e.from \in Begun(w) /\ e.from <= e.to /\ e.to <= Len(w)
    /\ NoNewline(w, e.from, e.to)
    /\ \/ e.to < Len(w) /\ w[e.to + 1] = "nl"
       \/ e.to = Len(w) /\ ~held

\* Only whole lines are forwarded as they are, so the redaction of a line always sees all
\* of it (onData, finalize, the grace path).
OnlyWholeLines ==
    \A s \in Streams : \A k \in 1..Len(out[s]) :
        out[s][k].kind = "line" => WholeLine(written[s], s \in open, out[s][k])

\* When the promise resolves, each line the sink was given has left exactly one trace, the
\* line or one marker, in the order of the stream; and a stream that ended was given
\* everything.
EveryLineOnce ==
    settled # "no" => \A s \in Streams :
        /\ \A k \in 1..Len(out[s]) : out[s][k].from \in Begun(written[s])
        /\ \A p \in Begun(written[s]) : p < read[s] => \E k \in 1..Len(out[s]) : out[s][k].from = p
        /\ \A j, k \in 1..Len(out[s]) : j < k => out[s][j].from < out[s][k].from
        /\ s \in ended => read[s] = Len(written[s])

\* The promise never resolves to the fallback { status: null, signal: null } without an
\* error: the caller would see neither a status nor a reason.
RealDisposition == settled # "none"

\* Once the direct child is gone the promise resolves, whoever holds its pipes.
Resolves == child \in {"exited", "failed"} ~> settled # "no"
=============================================================================
