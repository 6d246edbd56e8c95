------------------------------ MODULE LocalVm ------------------------------
(***************************************************************************)
(* An audit on a Mac: spawnVm of the CLI starts the helper                 *)
(* script-jail-vm, which boots the guest in a virtual machine, forwards    *)
(* the frames of the agent to its stdout and the CLI's "go" to the guest.  *)
(*                                                                         *)
(* A frame passes from the agent to socat, to the connection of its boot,  *)
(* to the reader thread of that connection, to the main loop of the helper *)
(* and to the CLI.  When the agent is gone, orchestrate.sh kills socat and *)
(* ends; the kernel panics and boots again.  The virtual machine, the      *)
(* kernel of the guest and the user are external.                          *)
(***************************************************************************)
EXTENDS Integers, Sequences, FiniteSets, Functions

CONSTANTS
    MaxBoots,   \* bound: boots of the guest
    MaxWarnings \* bound: warnings of one boot

ASSUME BoundsAssumption == MaxBoots \in Nat \ {0} /\ MaxWarnings \in Nat

VARIABLES
    \* the guest
    vm,         \* off, on, stopped by its own power-off or by an error
    boot,       \* the present boot; 0 before the first
    agent,
    tcp,        \* written by the agent, not yet taken by socat
    sent,       \* what the agent of each boot has written
    vsock,      \* passed on by socat, not yet read by the helper
    open,       \* the boots whose connection is up
    gos,        \* the boots whose agent can read a "go"
    \* script-jail-vm
    helper, code,
    frames,     \* frame_rx
    reasons,    \* shutdown_rx
    conn_writer,
    goLines,    \* "go" lines in its stdin
    posting,    \* the connection post_go is about to write to
    stdout,
    \* spawnVm
    cli, finalYaml, fatalError, warnings,
    outcome,
    tmpDir,     \* the directory of its config: "stuck" when its removal has failed
    signalled

guestVars == <<vm, boot, agent, tcp, sent, gos>>
lineVars == <<vsock, open>>
helperVars == <<helper, code, frames, reasons>>
goVars == <<conn_writer, goLines, posting>>
cliVars == <<cli, finalYaml, fatalError, warnings, outcome, tmpDir, signalled>>
vars == <<guestVars, lineVars, helperVars, goVars, stdout, cliVars>>

Boots == 1..MaxBoots
Kinds == {"fetch_done", "warning", "fatal", "final"}
\* A frame; `boot` and `n` say which agent wrote it, and as its how-manieth.
Frame == [kind : Kinds, boot : Boots, n : Nat \ {0}]
Terminal(f) == f.kind \in {"final", "fatal"}

TypeOK ==
    /\ vm \in {"off", "on", "powered off", "failed", "forced"} /\ boot \in 0..MaxBoots
    /\ agent \in {"none", "fetching", "waiting", "installing", "closing", "flushing",
                 "exited", "panic"}
    /\ tcp \in Seq(Frame) /\ sent \in [Boots -> Seq(Frame)] /\ vsock \in [Boots -> Seq(Frame)]
    /\ open \subseteq Boots /\ gos \subseteq Boots
    /\ helper \in {"none", "starting", "running", "stopping", "exited", "killed"}
    /\ code \in {"none", "ok", "vz", "usage"}
    /\ frames \in Seq(Frame) /\ reasons \in Seq({"GuestStopped", "VzError"})
    /\ conn_writer \in 0..MaxBoots /\ posting \in 0..MaxBoots /\ goLines \in Nat
    /\ stdout \in Seq(Frame)
    /\ cli \in {"start", "frames", "go", "exit", "settled", "died"}
    /\ finalYaml \in 0..MaxBoots /\ fatalError \in BOOLEAN /\ warnings \in Seq(Frame)
    /\ outcome \in {"none", "result", "fatal", "config", "runtime", "unknown", "write", "refused",
                   "unwritten", "spawn"}
    /\ tmpDir \in {"none", "there", "removed", "stuck"} /\ signalled \in BOOLEAN

Init ==
    /\ vm = "off" /\ boot = 0 /\ agent = "none" /\ tcp = <<>>
    /\ sent = [b \in Boots |-> <<>>] /\ vsock = [b \in Boots |-> <<>>] /\ open = {} /\ gos = {}
    /\ helper = "none" /\ code = "none" /\ frames = <<>> /\ reasons = <<>>
    /\ conn_writer = 0 /\ posting = 0 /\ goLines = 0 /\ stdout = <<>>
    /\ cli = "start" /\ finalYaml = 0 /\ fatalError = FALSE /\ warnings = <<>>
    /\ outcome = "none" /\ tmpDir = "none" /\ signalled = FALSE

-----------------------------------------------------------------------------
(* The guest.                                                              *)

Guest ==
    /\ vm = "on" /\ helper \in {"running", "stopping"}
    /\ UNCHANGED <<helper, code, frames, goLines, posting, stdout, cliVars>>

\* orchestrate.sh: the agent listens, then socat connects to it and to the host, whose
\* delegate accepts: `go` goes to the newest connection.
should_accept ==
    /\ Guest /\ agent = "none"
    /\ agent' = "fetching"
    /\ open' = open \cup {boot} /\ conn_writer' = boot
    /\ UNCHANGED <<vm, boot, tcp, sent, gos, vsock, reasons>>

sentBy(b, kind) == {f \in Range(sent[b]) : f.kind = kind}

\* The agent writes a frame and goes on in phase `next`.
Emit(kind, next) ==
    LET f == [kind |-> kind, boot |-> boot, n |-> Len(sent[boot]) + 1]
    IN /\ Guest
       /\ tcp' = Append(tcp, f) /\ sent' = [sent EXCEPT ![boot] = Append(@, f)]
       /\ agent' = next
       /\ UNCHANGED <<vm, boot, gos, lineVars, reasons, conn_writer>>

\* Event frames go the same way, but nobody keeps them.
EmitWarning ==
    /\ agent \in {"fetching", "installing"} /\ Cardinality(sentBy(boot, "warning")) < MaxWarnings
    /\ Emit("warning", agent)

EmitFetchDone == agent = "fetching" /\ Emit("fetch_done", "waiting")
EmitFatal == agent \in {"fetching", "installing"} /\ Emit("fatal", "flushing")
EmitFinal == agent = "installing" /\ Emit("final", "closing")
RenderFails == agent = "installing" /\ Emit("fatal", "closing")

ReadGo ==
    /\ Guest /\ agent = "waiting" /\ boot \in gos
    /\ agent' = "installing"
    /\ UNCHANGED <<vm, boot, tcp, sent, gos, lineVars, reasons, conn_writer>>

\* flushAndExit: all is in the send buffer of the agent's connection to socat.
flushAndExit ==
    /\ Guest /\ agent = "flushing" /\ agent' = "exited"
    /\ UNCHANGED <<vm, boot, tcp, sent, gos, lineVars, reasons, conn_writer>>

\* Connection.close: the agent ends when socat has read all and hung up.
close ==
    /\ Guest /\ agent = "closing" /\ tcp = <<>> /\ agent' = "exited"
    /\ UNCHANGED <<vm, boot, tcp, sent, gos, lineVars, reasons, conn_writer>>

AgentDies ==
    /\ Guest /\ agent \in {"fetching", "waiting", "installing"} /\ agent' = "exited"
    /\ UNCHANGED <<vm, boot, tcp, sent, gos, lineVars, reasons, conn_writer>>

Socat ==
    /\ Guest /\ boot \in open /\ tcp # <<>>
    /\ vsock' = [vsock EXCEPT ![boot] = Append(@, Head(tcp))] /\ tcp' = Tail(tcp)
    /\ UNCHANGED <<vm, boot, agent, sent, gos, open, reasons, conn_writer>>

\* orchestrate.sh returns from its wait for the agent and kills socat.
cleanup ==
    /\ Guest /\ agent = "exited"
    /\ agent' = "panic" /\ tcp' = <<>> /\ open' = open \ {boot}
    /\ UNCHANGED <<vm, boot, sent, gos, vsock, reasons, conn_writer>>

Reboot ==
    /\ Guest /\ agent = "panic" /\ boot < MaxBoots
    /\ boot' = boot + 1 /\ agent' = "none"
    /\ UNCHANGED <<vm, tcp, sent, gos, lineVars, reasons, conn_writer>>

\* The machine stops: init.sh powers it off before there is an agent, or the framework
\* reports an error; what was not read may be lost.  The delegate sends the reason.
GuestStops ==
    /\ Guest
    /\ \/ agent = "none" /\ vm' = "powered off" /\ reasons' = Append(reasons, "GuestStopped")
       \/ vm' = "failed" /\ reasons' = Append(reasons, "VzError")
    /\ \E n \in 0..Len(vsock[boot]) : vsock' = [vsock EXCEPT ![boot] = SubSeq(@, 1, n)]
    /\ tcp' = <<>> /\ open' = {}
    /\ UNCHANGED <<boot, agent, sent, gos, conn_writer>>

-----------------------------------------------------------------------------
(* script-jail-vm.                                                         *)

Alive == helper \in {"starting", "running", "stopping"}
Gone == helper \in {"exited", "killed"}

Helper == Alive /\ UNCHANGED <<cliVars, boot, agent, sent>>

\* The machine, the connections, the pipes and the queues end with the process.
ProcessEnds ==
    /\ vm' = IF vm = "on" THEN "forced" ELSE vm
    /\ tcp' = <<>> /\ vsock' = [b \in Boots |-> <<>>] /\ open' = {}
    /\ frames' = <<>> /\ reasons' = <<>>
    /\ conn_writer' = 0 /\ goLines' = 0 /\ posting' = 0

Ends(reason) == helper' = "exited" /\ code' = reason /\ ProcessEnds

ConfigRejected ==
    /\ Helper /\ helper = "starting" /\ Ends("usage")
    /\ UNCHANGED <<gos, stdout>>

\* A disk is missing, or the framework refuses one.
build_config ==
    /\ Helper /\ helper = "starting" /\ \E reason \in {"usage", "vz"} : Ends(reason)
    /\ UNCHANGED <<gos, stdout>>

\* The start fails or is not done in time: the helper ends without stop().
StartFails ==
    /\ Helper /\ helper = "starting" /\ Ends("vz")
    /\ UNCHANGED <<gos, stdout>>

Starts ==
    /\ helper = "starting" /\ helper' = "running"
    /\ vm' = "on" /\ boot' = 1
    /\ UNCHANGED <<agent, tcp, sent, gos, lineVars, code, frames, reasons, goVars, stdout, cliVars>>

\* reader_loop of one connection; it reads what is left when the connection is gone.
reader_loop(b) ==
    /\ Helper /\ vsock[b] # <<>>
    /\ frames' = Append(frames, Head(vsock[b])) /\ vsock' = [vsock EXCEPT ![b] = Tail(@)]
    /\ UNCHANGED <<vm, tcp, gos, open, helper, code, reasons, goVars, stdout>>

\* MUTANT of Forward: a terminal frame overtakes the frames before it.
Mut_Forward ==
    /\ \E i \in DOMAIN frames :
          /\ i = 1 \/ Terminal(frames[i])
          /\ stdout' = Append(stdout, frames[i])
          /\ helper' = IF Terminal(frames[i]) THEN "stopping" ELSE helper
          /\ code' = IF Terminal(frames[i]) THEN "ok" ELSE code
    /\ frames' = Tail(frames)

\* The main loop writes a frame; after a terminal one it ends.
Forward ==
    /\ stdout' = Append(stdout, Head(frames)) /\ frames' = Tail(frames)
    /\ helper' = IF Terminal(Head(frames)) THEN "stopping" ELSE helper
    /\ code' = IF Terminal(Head(frames)) THEN "ok" ELSE code

RelayFrame ==
    /\ Helper /\ helper = "running" /\ frames # <<>>
    /\ Forward
    /\ UNCHANGED <<vm, tcp, gos, lineVars, reasons, goVars>>

\* MUTANT of TakeReason: an error of the framework is taken for a stop of the guest.
Mut_TakeReason ==
    /\ Helper /\ helper = "running" /\ reasons # <<>>
    /\ helper' = "stopping" /\ code' = "ok"
    /\ reasons' = Tail(reasons)
    /\ UNCHANGED <<vm, tcp, gos, lineVars, frames, goVars, stdout>>

\* The main loop takes the reason of a stop, also while frames are waiting.
TakeReason ==
    /\ Helper /\ helper = "running" /\ reasons # <<>>
    /\ helper' = "stopping" /\ code' = IF Head(reasons) = "GuestStopped" THEN "ok" ELSE "vz"
    /\ reasons' = Tail(reasons)
    /\ UNCHANGED <<vm, tcp, gos, lineVars, frames, goVars, stdout>>

\* MUTANT of idle: only before the guest has connected.
Mut_idle == conn_writer = 0 /\ frames = <<>> /\ reasons = <<>>

\* Nothing to read for fifteen minutes.
idle == frames = <<>> /\ reasons = <<>> /\ \A b \in Boots : vsock[b] = <<>>

IdleTimeout ==
    /\ Helper /\ helper = "running" /\ idle
    /\ helper' = "stopping" /\ code' = "vz"
    /\ UNCHANGED <<vm, tcp, gos, lineVars, frames, reasons, goVars, stdout>>

\* VmHandle::stop, done or given up after ten seconds, and the end of the process.
stop ==
    /\ Helper /\ helper = "stopping" /\ Ends(code)
    /\ UNCHANGED <<gos, stdout>>

\* The stdin thread: post_go takes the newest connection and then writes to it.
TakeWriter ==
    /\ Helper /\ helper \in {"running", "stopping"} /\ goLines > 0 /\ posting = 0
    /\ posting' = conn_writer
    /\ UNCHANGED <<vm, tcp, gos, lineVars, helperVars, conn_writer, goLines, stdout>>

post_go ==
    /\ Helper /\ posting # 0
    /\ gos' = IF posting \in open THEN gos \cup {posting} ELSE gos
    /\ posting' = 0 /\ goLines' = goLines - 1
    /\ UNCHANGED <<vm, tcp, lineVars, helperVars, conn_writer, stdout>>

-----------------------------------------------------------------------------
(* spawnVm.                                                                *)

Cli == UNCHANGED <<boot, agent, sent, gos, code>>
\* What only the end of the helper changes.
Running == UNCHANGED <<vm, tcp, lineVars, frames, reasons, conn_writer, posting>>

\* The helper is there, its artifacts and its entitlement too, or nothing is done.
Refuses ==
    /\ Cli /\ cli = "start" /\ cli' = "settled" /\ outcome' = "refused"
    /\ Running /\ UNCHANGED <<helper, goLines, stdout, finalYaml, fatalError, warnings, tmpDir,
                   signalled>>

\* The directory is made, but its config cannot be written: that is before the try, so no
\* finally removes it.
ConfigUnwritten ==
    /\ Cli /\ cli = "start" /\ cli' = "settled" /\ outcome' = "unwritten" /\ tmpDir' = "there"
    /\ Running /\ UNCHANGED <<helper, goLines, stdout, finalYaml, fatalError, warnings, signalled>>

Spawns ==
    /\ Cli /\ cli = "start" /\ cli' = "frames" /\ tmpDir' = "there" /\ helper' = "starting"
    /\ Running /\ UNCHANGED <<goLines, stdout, finalYaml, fatalError, warnings, outcome, signalled>>

\* The error event of a helper that cannot be started has no listener.
SpawnFails ==
    /\ Cli /\ cli = "start" /\ cli' = "died" /\ tmpDir' = "there"
    /\ Running /\ UNCHANGED <<helper, goLines, stdout, finalYaml, fatalError, warnings, outcome,
                   signalled>>

NextFrame == Head(stdout)

ReadFrame ==
    /\ Cli /\ cli = "frames" /\ stdout # <<>>
    /\ stdout' = Tail(stdout)
    /\ cli' = CASE NextFrame.kind = "fetch_done" -> "go" [] Terminal(NextFrame) -> "exit" [] OTHER -> cli
    /\ finalYaml' = IF NextFrame.kind = "final" THEN NextFrame.boot ELSE finalYaml
    /\ fatalError' = (fatalError \/ NextFrame.kind = "fatal")
    /\ warnings' = IF NextFrame.kind = "warning" THEN Append(warnings, NextFrame) ELSE warnings
    /\ Running /\ UNCHANGED <<helper, goLines, outcome, tmpDir, signalled>>

WriteGo ==
    /\ Cli /\ cli = "go" /\ Alive
    /\ goLines' = goLines + 1 /\ cli' = "frames"
    /\ Running /\ UNCHANGED <<helper, stdout, finalYaml, fatalError, warnings, outcome, tmpDir,
                   signalled>>

EndOfFrames ==
    /\ Cli /\ cli = "frames" /\ stdout = <<>> /\ Gone /\ cli' = "exit"
    /\ Running /\ UNCHANGED <<helper, goLines, stdout, finalYaml, fatalError, warnings, outcome,
                   tmpDir, signalled>>

Kills == helper' = "killed" /\ ProcessEnds
Keeps == Running /\ UNCHANGED <<helper, goLines>>

\* MUTANT of Settles: a fatal error is thrown past the removal of the directory.
Mut_Settles(result) ==
    /\ cli' = "settled" /\ outcome' = result
    /\ tmpDir' = IF result = "fatal" THEN "there" ELSE "removed"
    /\ IF Alive THEN Kills ELSE Keeps

\* finally: a helper still there is killed and the directory removed; a failure to remove it
\* is swallowed.
Settles(result) ==
    /\ cli' = "settled" /\ outcome' = result /\ tmpDir' \in {"removed", "stuck"}
    /\ IF Alive THEN Kills ELSE Keeps

\* spawn() throws at once, inside the try.
SpawnThrows ==
    /\ Cli /\ cli = "start"
    /\ Settles("spawn")
    /\ UNCHANGED <<stdout, finalYaml, fatalError, warnings, signalled>>

\* The helper is gone when "go" is written: the write is rejected, or the error event of the
\* pipe, which has no listener, comes first.
WriteFails ==
    /\ Cli /\ cli = "go" /\ Gone
    /\ \/ Settles("write")
       \/ cli' = "died" /\ Keeps /\ UNCHANGED <<outcome, tmpDir>>
    /\ UNCHANGED <<stdout, finalYaml, fatalError, warnings, signalled>>

\* What the end of the helper means.
verdict ==
    CASE fatalError -> "fatal"
      [] finalYaml # 0 -> "result"
      [] helper = "exited" /\ code = "usage" -> "config"
      [] helper = "exited" /\ code = "vz" -> "runtime"
      [] OTHER -> "unknown"

HelperExit ==
    /\ Cli /\ cli = "exit" /\ Gone
    /\ Settles(verdict)
    /\ UNCHANGED <<stdout, finalYaml, fatalError, warnings, signalled>>

\* The user interrupts: onSignal passes it on.
onSignal ==
    /\ Cli /\ cli \in {"frames", "go", "exit"} /\ Alive
    /\ Kills /\ signalled' = TRUE
    /\ UNCHANGED <<stdout, cli, finalYaml, fatalError, warnings, outcome, tmpDir>>

Done == cli \in {"settled", "died"} /\ ~Alive /\ UNCHANGED vars

-----------------------------------------------------------------------------
GuestStep ==
    \/ should_accept \/ EmitWarning \/ EmitFetchDone \/ EmitFatal \/ EmitFinal
    \/ RenderFails \/ ReadGo \/ flushAndExit \/ close \/ AgentDies \/ Socat \/ cleanup \/ Reboot \/ GuestStops
HelperStep ==
    \/ ConfigRejected \/ build_config \/ StartFails \/ Starts \/ RelayFrame
    \/ TakeReason \/ IdleTimeout \/ stop
CliStep ==
    \/ Refuses \/ ConfigUnwritten \/ Spawns \/ SpawnFails \/ SpawnThrows
    \/ ReadFrame \/ WriteGo \/ WriteFails \/ EndOfFrames \/ HelperExit
StdinStep == TakeWriter \/ post_go

Next ==
    \/ GuestStep \/ HelperStep \/ (\E b \in Boots : reader_loop(b)) \/ StdinStep \/ CliStep \/ onSignal
    \/ Done

\* The guest may hang; the threads of the helper and the CLI go on.
Spec ==
    /\ Init /\ [][Next]_vars
    /\ WF_vars(HelperStep) /\ WF_vars(StdinStep) /\ WF_vars(CliStep)
    /\ \A b \in Boots : WF_vars(reader_loop(b))

-----------------------------------------------------------------------------
(* Properties.                                                             *)

\* A result is all that a boot of the guest said: its final frame was its last and only one,
\* each of its warnings has been collected, once and in order, and its agent had been told to
\* install.
ResultWhole ==
    outcome = "result" =>
        /\ sentBy(finalYaml, "final") = {sent[finalYaml][Len(sent[finalYaml])]}
        /\ sentBy(finalYaml, "warning") \subseteq Range(warnings)
        /\ \A i, j \in DOMAIN warnings :
              i < j /\ warnings[i].boot = warnings[j].boot => warnings[i].n < warnings[j].n
        /\ finalYaml \in gos

\* A helper that ends well without a final or fatal frame for the CLI was interrupted, or the
\* guest has powered itself off.
CleanExitExplained == outcome = "unknown" => signalled \/ vm = "powered off"

\* When spawnVm returns or throws, the helper and the guest are gone, and the removal of its
\* directory has been tried (it may fail, unreported) unless the config could not be written
\* there: no error of the frames, of "go" or of the helper leads past the finally.
SettledTidily ==
    cli = "settled" =>
        /\ ~Alive /\ vm # "on"
        /\ tmpDir = "there" => outcome = "unwritten"

\* Whatever the guest does, spawnVm comes to an end, and the helper with it, even if the CLI
\* has died.
AllEnds == <>(cli \in {"settled", "died"} /\ ~Alive)
=============================================================================
