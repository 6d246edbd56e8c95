---------------------------- MODULE AuditSession ----------------------------
(***************************************************************************)
(* One run of the script-jail Action: the host process (main.ts,           *)
(* run-audit.ts, the three backends) and the guest agent it starts,        *)
(* talking over two FIFO byte streams that either side may close.          *)
(*                                                                         *)
(* The host validates its inputs, tries the backends in order, serves the  *)
(* agent's frames, tears the backend down, compares the lock the agent     *)
(* rendered with the committed one and, for `install: true`, installs on   *)
(* the runner: part 1 without lifecycle scripts, part 2 with them.  The    *)
(* agent fetches online (Phase A), waits for the host's `go`, checks that  *)
(* it is offline, runs the lifecycle scripts under audit (Phase B), runs   *)
(* the root `prepare` in a second pass and emits the final lock.           *)
(*                                                                         *)
(* A lock document is abstracted to the set of scripts whose behaviour it  *)
(* records and a stamp standing for its two volatile fields.  Event frames *)
(* are left out: every host loop skips them.                               *)
(***************************************************************************)
EXTENDS Integers, Sequences, FiniteSets

CONSTANTS
    Scripts,        \* dependency lifecycle scripts a tree may contain
    Root,           \* the root project's `prepare` script
    BypassScripts,  \* scripts whose audit yields an audit_bypass entry
    QuietScripts,   \* scripts that leave no audit event
    Stamps,         \* values of generated_at / manager_lockfile_sha256
    DnsOnline,      \* what the DNS probe may see while the network is up
    NoLock,         \* what the host reads when no lock is committed
    NoDoc           \* no final frame was read

ASSUME ScriptsAssumption ==
    /\ Root \notin Scripts
    /\ BypassScripts \subseteq Scripts \cup {Root}
    /\ QuietScripts \subseteq Scripts \cup {Root}
    /\ BypassScripts \cap QuietScripts = {}
ASSUME StampsAssumption == Stamps # {}
ASSUME DnsAssumption == DnsOnline # {} /\ DnsOnline \subseteq {"resolve", "error", "hang"}

AllScripts == Scripts \cup {Root}
Backends == {"firecracker", "docker", "bare"}

\* A lock document.
Lock == [obs : SUBSET AllScripts, stamp : Stamps]

ASSUME AbsenceAssumption == NoLock \notin Lock /\ NoDoc \notin Lock

\* `auto` tries the backends by increasing rank.
AUTO_ORDER == [firecracker |-> 1, docker |-> 2, bare |-> 3]
Running == -1    \* no exit code yet
INSTALL_ALIGNED_BACKENDS == {"firecracker", "docker"}

(***************************************************************************)
(* The Action's inputs and the checked-out tree, fixed for the whole run.  *)
(* `gates` stands for the remaining install preconditions (spoof target,   *)
(* Node major, pre-trust config execution, work_dir, HOME, reserved paths, *)
(* subdirectory escape): TRUE when all of them hold.  `stuck` is what the  *)
(* host will turn out unable to remove.                                    *)
(***************************************************************************)
Holdable == {"scratch", "staged"}
Inputs == [mode : {"check", "update"}, install : BOOLEAN,
           requested : Backends \cup {"auto"}, bun : BOOLEAN, gates : BOOLEAN,
           scripts : SUBSET Scripts, prepare : BOOLEAN, stuck : SUBSET Holdable]

Frame == [kind : {"fetch_done", "install_done", "warn", "fatal"}]
           \cup [kind : {"final"}, doc : Lock]

VARIABLES
    \* host
    inp, lockFile,
    hpc,           \* where the host's main() is
    order,         \* the backends runSelectedBackend has not tried yet
    backend,       \* the candidate whose run() is in progress
    auditBackend,  \* the name onBackendSelected was last called with
    finalDoc,      \* finalYaml of the session
    fatalError,    \* a fatal frame was read, or the session or its cleanup threw
    held,          \* "scratch": runAudit's scratchDir; "staged": overlay or staged copy
    trusted, exitCode, hostTmpdir,
    hostRan,       \* scripts part 2 has started on the runner
    \* guest
    gpc, todo, ran, seen, passEvents, failed, tampered,
    \* the two streams, and which ends are still open
    toHost, toGuest, hostOpen, guestOpen,
    \* the network the traced command sees, and how the guest checked it
    net, dropped, probe

hostVars  == <<inp, lockFile, hpc, order, backend, auditBackend, finalDoc, fatalError, held,
               trusted, exitCode, hostTmpdir, hostRan>>
guestVars == <<gpc, todo, ran, seen, passEvents, failed, tampered>>
chanVars  == <<toHost, toGuest, hostOpen, guestOpen>>
netVars   == <<net, dropped, probe>>
vars == <<hostVars, guestVars, chanVars, netVars>>

HostPcs == {"start", "select", "launch", "dial", "serve", "await", "cleanup",
            "verdict", "part1", "part2", "done"}
GuestPcs == {"none", "boot", "fetch", "waitGo", "dropEth0", "verify", "install",
             "installed", "prepare", "judge", "exiting", "exited"}

HostTypeOK ==
    /\ inp \in Inputs
    /\ lockFile \in Lock \cup {NoLock}
    /\ hpc \in HostPcs
    /\ order \subseteq Backends
    /\ backend \in Backends \cup {"none"}
    /\ auditBackend \in Backends \cup {"none"}
    /\ finalDoc \in Lock \cup {NoDoc}
    /\ fatalError \in BOOLEAN
    /\ held \subseteq Holdable
    /\ trusted \in BOOLEAN
    /\ exitCode \in {Running, 0, 1}
    /\ hostTmpdir \in BOOLEAN
    /\ hostRan \subseteq Scripts

GuestTypeOK ==
    /\ gpc \in GuestPcs
    /\ todo \subseteq Scripts
    /\ ran \subseteq AllScripts
    /\ seen \subseteq AllScripts
    /\ passEvents \in BOOLEAN
    /\ failed \in BOOLEAN
    /\ tampered \in BOOLEAN

StreamTypeOK ==
    /\ toHost \in Seq(Frame)
    /\ toGuest \in Seq({"go"})
    /\ hostOpen \in BOOLEAN
    /\ guestOpen \in BOOLEAN

NetTypeOK ==
    /\ net \in {"up", "down"}
    /\ dropped \in BOOLEAN
    /\ probe \in {"none", "resolve", "error", "hang"}

TypeOK == HostTypeOK /\ GuestTypeOK /\ StreamTypeOK /\ NetTypeOK

Init ==
    /\ inp \in Inputs
    /\ lockFile \in Lock \cup {NoLock}
    /\ hpc = "start" /\ order = {} /\ backend = "none" /\ auditBackend = "none"
    /\ finalDoc = NoDoc /\ fatalError = FALSE /\ held = {}
    /\ trusted = FALSE /\ exitCode = Running /\ hostTmpdir = FALSE /\ hostRan = {}
    /\ gpc = "none" /\ todo = {} /\ ran = {} /\ seen = {}
    /\ passEvents = FALSE /\ failed = FALSE /\ tampered = FALSE
    /\ toHost = <<>> /\ toGuest = <<>> /\ hostOpen = FALSE /\ guestOpen = FALSE
    /\ net = "up" /\ dropped = FALSE /\ probe = "none"

-----------------------------------------------------------------------------
(* Host: main() and runAudit().  An operator Mut_X is a seeded bug in X: no *)
(* specification uses it, a mutation run puts it in X's place.              *)

\* main() ends: exitProcess(code), or an uncaught throw (code 1).
Finish(code) == hpc' = "done" /\ exitCode' = code

\* The install preconditions of main(): each failing one exits 1 before any audit.
installRefused ==
    /\ inp.install
    /\ \/ inp.mode = "update"
       \/ lockFile = NoLock
       \/ ~inp.gates
       \/ inp.requested \notin INSTALL_ALIGNED_BACKENDS \cup {"auto"}

\* detectPm found Bun: warn and exit 0, nothing audited.
SkipBun ==
    /\ hpc = "start" /\ inp.bun
    /\ Finish(0)
    /\ UNCHANGED <<inp, lockFile, order, backend, auditBackend, finalDoc, fatalError, held, trusted,
                   hostTmpdir, hostRan, guestVars, chanVars, netVars>>

RefuseInstall ==
    /\ hpc = "start" /\ ~inp.bun /\ installRefused
    /\ Finish(1)
    /\ UNCHANGED <<inp, lockFile, order, backend, auditBackend, finalDoc, fatalError, held, trusted,
                   hostTmpdir, hostRan, guestVars, chanVars, netVars>>

\* runSelectedBackend's candidates; install mode keeps the repoDir-aligned ones.
baseOrder == IF inp.requested = "auto" THEN Backends ELSE {inp.requested}
backendOrder == IF inp.install THEN baseOrder \cap INSTALL_ALIGNED_BACKENDS ELSE baseOrder

\* runAudit: scratchDir, effective config, then execute -> runSelectedBackend.
StartAudit ==
    /\ hpc = "start" /\ ~inp.bun /\ ~installRefused
    /\ held' = {"scratch"}
    /\ order' = backendOrder
    /\ hpc' = "select"
    /\ UNCHANGED <<inp, lockFile, backend, auditBackend, finalDoc, fatalError, trusted,
                   exitCode, hostTmpdir, hostRan, guestVars, chanVars, netVars>>

\* What the removals of the backend's finally and then of runAudit's leave of `made`.  Each
\* is attempted, also when the one before it has failed.  The overlay is a directory of its
\* own; Docker's and bare's copy is inside scratchDir and goes with it.  (A mutant lets the
\* first failure end the cleanup.)
Mut_heldAfterCleanup(made) ==
    IF "staged" \in made \cap inp.stuck THEN made ELSE made \cap inp.stuck
heldAfterCleanup(made) ==
    IF backend # "firecracker" /\ "scratch" \notin inp.stuck THEN {} ELSE made \cap inp.stuck

\* A throw out of `execute`: runAudit's finally removes scratchDir, main exits 1.
Abort(made) == held' = heldAfterCleanup(made) /\ Finish(1)

\* onBackendSelected is told of every candidate just before its run().
onBackendSelected(name) == auditBackend' = name

SelectBackend ==
    /\ hpc = "select"
    /\ \E name \in order :
         /\ \A other \in order : AUTO_ORDER[name] <= AUTO_ORDER[other]
         /\ onBackendSelected(name)
         /\ backend' = name
         /\ order' = order \ {name}
    /\ hpc' = "launch"
    /\ UNCHANGED <<inp, lockFile, finalDoc, fatalError, held, trusted, exitCode, hostTmpdir,
                   hostRan, guestVars, chanVars, netVars>>

NoBackendLeft ==
    /\ hpc = "select" /\ order = {}
    /\ Abort(held)
    /\ UNCHANGED <<inp, lockFile, order, backend, auditBackend, finalDoc, fatalError, trusted,
                   hostTmpdir, hostRan, guestVars, chanVars, netVars>>

\* BackendUnavailableError: an explicit request rethrows, `auto` tries the next one.
BackendUnavailable ==
    /\ hpc = "launch"
    /\ IF inp.requested # "auto"
       THEN Abort(held)
       ELSE hpc' = "select" /\ UNCHANGED <<held, exitCode>>
    /\ UNCHANGED <<inp, lockFile, order, backend, auditBackend, finalDoc, fatalError, trusted,
                   hostTmpdir, hostRan, guestVars, chanVars, netVars>>

\* Download, overlay, staging or VM launch failed: any other error leaves the loop,
\* after the backend's own cleanup of what it had made.
LaunchFails ==
    /\ hpc = "launch"
    /\ \E copy \in SUBSET {"staged"} : Abort(held \cup copy)
    /\ UNCHANGED <<inp, lockFile, order, backend, auditBackend, finalDoc, fatalError, trusted,
                   hostTmpdir, hostRan, guestVars, chanVars, netVars>>

\* launchVm: a machine that has yet to boot, and to be dialled.
VmBoots == backend = "firecracker" /\ hpc' = "dial" /\ gpc' = "boot"

\* The agent is the process in the container, ...
DockerRuns == backend = "docker" /\ hpc' = "serve" /\ gpc' = "fetch"

\* ... or a child of the Action; its stdin and stdout are the two streams.
BareRuns == backend = "bare" /\ hpc' = "serve" /\ gpc' = "fetch"

\* The overlay or staged copy exists and the VM / container / process is started.
LaunchBackend ==
    /\ hpc = "launch"
    /\ held' = held \cup {"staged"}
    /\ VmBoots \/ DockerRuns \/ BareRuns
    /\ hostOpen' = TRUE /\ guestOpen' = TRUE
    /\ UNCHANGED <<inp, lockFile, order, backend, auditBackend, finalDoc, fatalError, trusted,
                   exitCode, hostTmpdir, hostRan, todo, ran, seen, passEvents, failed,
                   tampered, toHost, toGuest, netVars>>

\* openVsockSession: connected (the agent enters main() with its first peer), or gave up
\* after its 30 s (the error is rethrown once teardown has run).
DialVsock ==
    /\ hpc = "dial"
    /\ \/ /\ gpc = "boot"
          /\ gpc' = "fetch"
          /\ hpc' = "serve"
          /\ UNCHANGED <<fatalError, hostOpen>>
       \/ /\ hpc' = "cleanup"
          /\ fatalError' = TRUE
          /\ hostOpen' = FALSE
          /\ UNCHANGED gpc
    /\ UNCHANGED <<inp, lockFile, order, backend, auditBackend, finalDoc, held, trusted,
                   exitCode, hostTmpdir, hostRan, todo, ran, seen, passEvents, failed,
                   tampered, toHost, toGuest, guestOpen, netVars>>

-----------------------------------------------------------------------------
(* Host: the frame loop of launchFirecracker and runAgentProcess.          *)

\* Leaving the loop: Firecracker tears the VM down at once, runAgentProcess
\* ends the child's stdin and awaits its exit.
LeaveLoop ==
    /\ hpc' = IF backend = "firecracker" THEN "cleanup" ELSE "await"
    /\ hostOpen' = FALSE

Receive(kind) ==
    /\ hpc = "serve" /\ toHost # <<>> /\ Head(toHost).kind = kind
    /\ toHost' = Tail(toHost)

\* fetch_done: Docker first disconnects the container's network, then `go` is sent.
RecvFetchDone ==
    /\ Receive("fetch_done")
    /\ toGuest' = Append(toGuest, "go")
    /\ net' = IF backend = "docker" THEN "down" ELSE net
    /\ UNCHANGED <<hostVars, guestVars, hostOpen, guestOpen, dropped, probe>>

\* `docker network disconnect` failed: onFetchDone throws out of the loop, stdin is
\* ended, the exit is not awaited and no `go` is written.
Mut_DisconnectFailsStdin ==
    /\ Receive("fetch_done") /\ backend = "docker"
    /\ hpc' = "cleanup" /\ fatalError' = TRUE
    /\ UNCHANGED <<inp, lockFile, order, backend, auditBackend, finalDoc, held, trusted,
                   exitCode, hostTmpdir, hostRan, guestVars, toGuest, hostOpen, guestOpen,
                   netVars>>
DisconnectFails ==
    /\ Receive("fetch_done") /\ backend = "docker"
    /\ hpc' = "cleanup" /\ fatalError' = TRUE /\ hostOpen' = FALSE
    /\ UNCHANGED <<inp, lockFile, order, backend, auditBackend, finalDoc, held, trusted, exitCode,
                   hostTmpdir, hostRan, guestVars, toGuest, guestOpen, netVars>>

\* install_done and non-fatal errors are logged and skipped.
RecvOther ==
    /\ Receive("install_done") \/ Receive("warn")
    /\ UNCHANGED <<hostVars, guestVars, toGuest, hostOpen, guestOpen, netVars>>

RecvFatal ==
    /\ Receive("fatal")
    /\ fatalError' = TRUE
    /\ LeaveLoop
    /\ UNCHANGED <<inp, lockFile, order, backend, auditBackend, finalDoc, held, trusted, exitCode,
                   hostTmpdir, hostRan, guestVars, toGuest, guestOpen, netVars>>

RecvFinal ==
    /\ Receive("final")
    /\ finalDoc' = Head(toHost).doc
    /\ LeaveLoop
    /\ UNCHANGED <<inp, lockFile, order, backend, auditBackend, fatalError, held, trusted, exitCode,
                   hostTmpdir, hostRan, guestVars, toGuest, guestOpen, netVars>>

\* The agent's stream has ended and everything it carried was read.
Mut_atEof == toHost = <<>> /\ ~guestOpen /\ backend = "firecracker"
atEof == toHost = <<>> /\ ~guestOpen

\* The stream ended: the for-await loop falls through without a final frame.
RecvEof ==
    /\ hpc = "serve" /\ atEof
    /\ LeaveLoop
    /\ UNCHANGED <<inp, lockFile, order, backend, auditBackend, finalDoc, fatalError, held, trusted,
                   exitCode, hostTmpdir, hostRan, guestVars, toHost, toGuest, guestOpen,
                   netVars>>

\* runAgentProcess: `await exitPromise`.
ChildExited ==
    /\ hpc = "await" /\ gpc = "exited"
    /\ hpc' = "cleanup"
    /\ UNCHANGED <<inp, lockFile, order, backend, auditBackend, finalDoc, fatalError, held, trusted,
                   exitCode, hostTmpdir, hostRan, guestVars, chanVars, netVars>>

\* A removal that fails is a warning with Firecracker's overlay and Docker's copy, and is
\* swallowed for scratchDir; bare's `staged.cleanup()` throws, whatever the session gave.
cleanupThrows == backend = "bare" /\ "staged" \in inp.stuck

\* The backend's finally and then runAudit's.  Firecracker's teardown kills the VM;
\* Docker's `rm -f` error is swallowed, so the container may outlive the cleanup.
Cleanup ==
    /\ hpc = "cleanup"
    /\ held' = heldAfterCleanup(held)
    /\ fatalError' = (fatalError \/ cleanupThrows)
    /\ \/ gpc' = "exited" /\ guestOpen' = FALSE
       \/ backend = "docker" /\ UNCHANGED <<gpc, guestOpen>>
    /\ hpc' = "verdict"
    /\ UNCHANGED <<inp, lockFile, order, backend, auditBackend, finalDoc, trusted,
                   exitCode, hostTmpdir, hostRan, todo, ran, seen, passEvents, failed,
                   tampered, toHost, toGuest, hostOpen, netVars>>

-----------------------------------------------------------------------------
(* Host: the verdict and the install on the runner.                        *)

\* canonicalizeVolatileFields / renderDiff: equal up to the volatile fields.
Mut_renderDiffMatch(committed, generated) ==
    committed = NoLock \/ committed.obs = generated.obs
renderDiffMatch(committed, generated) ==
    committed # NoLock /\ committed.obs = generated.obs

Mut_findAuditBypass(doc) == {}
findAuditBypass(doc) == doc.obs \cap BypassScripts

\* fatalError, or a session that ended without a final frame: the launcher throws.
SessionThrows ==
    /\ hpc = "verdict" /\ (fatalError \/ finalDoc = NoDoc)
    /\ Finish(1)
    /\ UNCHANGED <<inp, lockFile, order, backend, auditBackend, finalDoc, fatalError, held, trusted,
                   hostTmpdir, hostRan, guestVars, chanVars, netVars>>

\* update mode: the generated lock replaces the committed one.  (install was refused.)
WriteLock ==
    /\ hpc = "verdict" /\ ~fatalError /\ finalDoc # NoDoc /\ inp.mode = "update"
    /\ lockFile' = finalDoc
    /\ Finish(0)
    /\ UNCHANGED <<inp, order, backend, auditBackend, finalDoc, fatalError, held, trusted,
                   hostTmpdir, hostRan, guestVars, chanVars, netVars>>

\* check mode: diff, bypass scan, then either the end or the runner's install.
Judge ==
    /\ hpc = "verdict" /\ ~fatalError /\ finalDoc # NoDoc /\ inp.mode = "check"
    /\ LET clean == /\ findAuditBypass(finalDoc) = {}
                    /\ renderDiffMatch(lockFile, finalDoc)
       IN /\ trusted' = clean
          /\ exitCode' = IF clean THEN 0 ELSE 1
    /\ hpc' = IF inp.install THEN "part1" ELSE "done"
    /\ UNCHANGED <<inp, lockFile, order, backend, auditBackend, finalDoc, fatalError, held,
                   hostTmpdir, hostRan, guestVars, chanVars, netVars>>

\* `if (result.trusted)`.
Mut_afterPart1 == "part2"
afterPart1 == IF trusted THEN "part2" ELSE "done"

\* hostInstallNoScripts, on drift too, with the TMPDIR the auditing backend exported;
\* it may throw.
HostPart1 ==
    /\ hpc = "part1"
    /\ hostTmpdir' = (auditBackend = "firecracker")
    /\ \/ hpc' = afterPart1 /\ UNCHANGED exitCode
       \/ Finish(1)
    /\ UNCHANGED <<inp, lockFile, order, backend, auditBackend, finalDoc, fatalError, held, trusted,
                   hostRan, guestVars, chanVars, netVars>>

\* hostRunScripts: the deferred dependency scripts; a failing one throws.
HostPart2 ==
    /\ hpc = "part2"
    /\ hostRan' = inp.scripts
    /\ hpc' = "done"
    /\ exitCode' \in {exitCode, 1}
    /\ UNCHANGED <<inp, lockFile, order, backend, auditBackend, finalDoc, fatalError, held, trusted,
                   hostTmpdir, guestVars, chanVars, netVars>>

-----------------------------------------------------------------------------
(* Guest: the agent's main().                                              *)

frame(k) == [kind |-> k]
Emit(f) == toHost' = Append(toHost, f)

\* emitError(..., true) and flushAndExit.
Die ==
    /\ Emit(frame("fatal"))
    /\ gpc' = "exiting"

\* Setup (events file, root name) or Phase A failed.
FetchFails ==
    /\ gpc = "fetch"
    /\ Die
    /\ UNCHANGED <<hostVars, todo, ran, seen, passEvents, failed, tampered, toGuest,
                   hostOpen, guestOpen, netVars>>

FetchDone ==
    /\ gpc = "fetch"
    /\ Emit(frame("fetch_done"))
    /\ gpc' = "waitGo"
    /\ UNCHANGED <<hostVars, todo, ran, seen, passEvents, failed, tampered, toGuest,
                   hostOpen, guestOpen, netVars>>

\* waitForGo resolves.  Bare runs the traced command under `unshare -n` and skips
\* the guest's own offline enforcement.
StartPhaseB == gpc' = "install" /\ todo' = inp.scripts

WaitForGo ==
    /\ gpc = "waitGo" /\ toGuest # <<>>
    /\ toGuest' = Tail(toGuest)
    /\ IF backend = "bare"
       THEN StartPhaseB /\ net' = "down"
       ELSE gpc' = "dropEth0" /\ UNCHANGED <<todo, net>>
    /\ UNCHANGED <<hostVars, ran, seen, passEvents, failed, tampered, toHost, hostOpen,
                   guestOpen, dropped, probe>>

\* waitForGo rejects: the host closed its end first.
GoNeverCame ==
    /\ gpc = "waitGo" /\ toGuest = <<>> /\ ~hostOpen
    /\ Die
    /\ UNCHANGED <<hostVars, todo, ran, seen, passEvents, failed, tampered, toGuest,
                   hostOpen, guestOpen, netVars>>

\* defaultDropEth0: a failure is only a warning.
DropEth0 ==
    /\ gpc = "dropEth0"
    /\ gpc' = "verify"
    /\ \/ dropped' = TRUE /\ net' = "down" /\ UNCHANGED toHost
       \/ dropped' = FALSE /\ Emit(frame("warn")) /\ UNCHANGED net
    /\ UNCHANGED <<hostVars, todo, ran, seen, passEvents, failed, tampered, toGuest,
                   hostOpen, guestOpen, probe>>

\* verifyOfflineWithTimeout: an error or no answer within 2 s counts as offline.
Mut_verifyOfflineWithTimeout(answer) == TRUE
verifyOfflineWithTimeout(answer) == answer # "resolve"

VerifyOffline ==
    /\ gpc = "verify"
    /\ probe' \in IF net = "up" THEN DnsOnline ELSE {"error", "hang"}
    /\ IF verifyOfflineWithTimeout(probe')
       THEN StartPhaseB /\ UNCHANGED toHost
       ELSE Die /\ UNCHANGED todo
    /\ UNCHANGED <<hostVars, ran, seen, passEvents, failed, tampered, toGuest, hostOpen,
                   guestOpen, net, dropped>>

\* Without its runner, its environment or an events file of its own the prepare pass is not
\* made, and nothing is made in its place.
PrepareRefuses == gpc = "prepare"

\* So do the alternate-manifest check, the offline launch entry and normalize/render refuse.
AgentRefuses ==
    /\ PrepareRefuses \/ gpc = "judge" \/ (gpc = "install" /\ ran = {})
    /\ Die
    /\ UNCHANGED <<hostVars, todo, ran, seen, passEvents, failed, tampered, toGuest,
                   hostOpen, guestOpen, netVars>>

\* A traced script runs; its events reach the collecting emitter unless the script
\* (or its tracer's death) broke the audit channel, which the tailer reports.
Entry(s) == {s} \ QuietScripts

Mut_TraceScript(s) ==
    /\ ran' = ran \cup {s}
    /\ \/ seen' = seen \cup Entry(s) /\ passEvents' = (passEvents \/ Entry(s) # {})
       \/ UNCHANGED <<seen, passEvents>>
    /\ UNCHANGED tampered
TraceScript(s) ==
    /\ ran' = ran \cup {s}
    /\ \/ /\ seen' = seen \cup Entry(s)
          /\ passEvents' = (passEvents \/ Entry(s) # {})
          /\ UNCHANGED tampered
       \/ /\ tampered' = TRUE
          /\ UNCHANGED <<seen, passEvents>>

RunScript ==
    /\ gpc = "install"
    /\ \E s \in todo : TraceScript(s) /\ todo' = todo \ {s}
    /\ UNCHANGED <<hostVars, gpc, failed, chanVars, netVars>>

\* The install command exits zero once every script ran, or non-zero at any point
\* (a script failed offline, or the machinery broke before the first one).
InstallExits ==
    /\ gpc = "install"
    /\ \/ todo = {} /\ failed' = FALSE
       \/ failed' = TRUE
    /\ gpc' = "installed"
    /\ UNCHANGED <<hostVars, todo, ran, seen, passEvents, tampered, chanVars, netVars>>

\* What follows the install: a pass of its own for the root's prepare with npm and yarn;
\* pnpm has run it already.
resolvePrepareCommand == IF inp.prepare THEN "prepare" ELSE "judge"

\* Non-zero exit: fatal if nothing was observed, otherwise a warning.
AfterInstall ==
    /\ gpc = "installed"
    /\ IF failed /\ ~passEvents
       THEN Die /\ UNCHANGED passEvents
       ELSE /\ gpc' = resolvePrepareCommand
            /\ IF failed THEN Emit(frame("warn")) ELSE UNCHANGED toHost
            /\ passEvents' = FALSE
    /\ UNCHANGED <<hostVars, todo, ran, seen, failed, tampered, toGuest, hostOpen,
                   guestOpen, netVars>>

\* The root-prepare pass: one script, its own runner, its own tamper verdict, merged.
RunPrepare ==
    /\ gpc = "prepare"
    /\ TraceScript(Root)
    /\ \/ gpc' = "judge" /\ UNCHANGED toHost
       \/ IF ~passEvents'
          THEN Die
          ELSE gpc' = "judge" /\ Emit(frame("warn"))
    /\ UNCHANGED <<hostVars, todo, failed, toGuest, hostOpen, guestOpen, netVars>>

\* tamperReason refuses a lock; otherwise install_done and the rendered lock.
EmitFinal ==
    /\ gpc = "judge"
    /\ IF tampered
       THEN Die
       ELSE /\ \E st \in Stamps :
                 toHost' = Append(Append(toHost, frame("install_done")),
                                  [kind |-> "final", doc |-> [obs |-> seen, stamp |-> st]])
            /\ gpc' = "exiting"
    /\ UNCHANGED <<hostVars, todo, ran, seen, passEvents, failed, tampered, toGuest,
                   hostOpen, guestOpen, netVars>>

GuestExit ==
    /\ gpc = "exiting"
    /\ gpc' = "exited" /\ guestOpen' = FALSE
    /\ UNCHANGED <<hostVars, todo, ran, seen, passEvents, failed, tampered, toHost, toGuest,
                   hostOpen, netVars>>

\* The agent, its container or its VM dies, or flushAndExit's 1 s ceiling fires: the
\* stream ends and a suffix of what was written never reaches the host.
GuestCrash ==
    /\ gpc \notin {"none", "exited"}
    /\ gpc' = "exited" /\ guestOpen' = FALSE
    /\ \E n \in 0..Len(toHost) : toHost' = SubSeq(toHost, 1, n)
    /\ UNCHANGED <<hostVars, todo, ran, seen, passEvents, failed, tampered, toGuest,
                   hostOpen, netVars>>

-----------------------------------------------------------------------------
HostNext ==
    \/ SkipBun \/ RefuseInstall \/ StartAudit \/ SelectBackend \/ NoBackendLeft
    \/ BackendUnavailable \/ LaunchFails \/ LaunchBackend \/ DialVsock
    \/ RecvFetchDone \/ DisconnectFails \/ RecvOther \/ RecvFatal \/ RecvFinal \/ RecvEof
    \/ ChildExited \/ Cleanup
    \/ SessionThrows \/ WriteLock \/ Judge \/ HostPart1 \/ HostPart2

GuestNext ==
    \/ FetchFails \/ FetchDone \/ WaitForGo \/ GoNeverCame \/ DropEth0 \/ VerifyOffline
    \/ AgentRefuses \/ RunScript \/ InstallExits \/ AfterInstall \/ RunPrepare
    \/ EmitFinal \/ GuestExit

\* The host has returned and nothing it started is left running.
Terminated ==
    /\ hpc = "done" /\ gpc \in {"none", "exited"}
    /\ UNCHANGED vars

Next == HostNext \/ GuestNext \/ GuestCrash \/ Terminated

(***************************************************************************)
(* The host's event loop always runs a ready step and the agent's phases   *)
(* end (the package manager and the scripts terminate; a hung script is    *)
(* left to the job's own timeout).  A crash is never forced.               *)
(***************************************************************************)
Spec == Init /\ [][Next]_vars /\ WF_vars(HostNext) /\ WF_vars(GuestNext)

-----------------------------------------------------------------------------
(* Properties.                                                             *)

\* Part 2 runs third-party code on the runner only after a check-mode audit on a
\* repoDir-aligned backend whose untampered lock equals the committed one up to the
\* volatile fields and holds no audit_bypass entry (main.ts `if (result.trusted)`).
TrustGate ==
    hostRan # {} =>
        /\ inp.mode = "check" /\ inp.install /\ inp.gates
        /\ backend \in INSTALL_ALIGNED_BACKENDS
        /\ ~tampered
        /\ lockFile # NoLock /\ lockFile.obs = seen
        /\ seen \cap BypassScripts = {}

\* The lock the host judges records every script the agent ran that leaves events, and
\* comes from a session in which no audit channel was broken.
LockIsWhatRan ==
    finalDoc # NoDoc => ~tampered /\ finalDoc.obs = ran \ QuietScripts

\* A run that exits 0 in check mode was matched against the committed lock; a tampered,
\* crashed, refused or unreadable session never passes (Bun trees are skipped, not audited).
CheckPassIsMatch ==
    hpc = "done" /\ exitCode = 0 /\ inp.mode = "check" /\ ~inp.bun =>
        /\ finalDoc # NoDoc /\ ~fatalError /\ ~tampered
        /\ lockFile # NoLock /\ lockFile.obs = finalDoc.obs
        /\ finalDoc.obs \cap BypassScripts = {}

\* No lifecycle script runs under audit with the network up, except on Firecracker
\* when the eth0 drop failed and the DNS probe still got no positive answer.
PhaseBOfflineUnlessMasked ==
    ran # {} /\ net = "up" =>
        backend = "firecracker" /\ ~dropped /\ probe \in {"error", "hang"}

\* Whichever way the session ended, no removal was skipped because another failed: what main()
\* leaves at its verdict is only what could not be removed, Docker's and bare's copy only inside
\* a scratch directory that could not be removed either.  And bare never passes a session whose
\* copy its finally failed to remove.
LeftoversExplained ==
    hpc \in {"verdict", "part1", "part2", "done"} =>
        /\ held \subseteq inp.stuck
        /\ "staged" \in held /\ backend # "firecracker" => "scratch" \in held
        /\ exitCode = 0 /\ backend = "bare" => "staged" \notin inp.stuck

\* The committed lock changes only in update mode, and only to the complete lock of an
\* untampered session that reported no fatal error.
LockWrittenOnlyByUpdate ==
    [][lockFile' # lockFile =>
          /\ inp.mode = "update" /\ ~fatalError /\ ~tampered
          /\ lockFile' = finalDoc /\ lockFile'.obs = ran \ QuietScripts]_vars

\* Whatever fails, the Action terminates.
HostTerminates == <>(hpc = "done")

\* No agent is left behind: a container that survived `docker rm -f` still ends, because
\* the host ended its stdin.
GuestTerminates == hpc = "done" ~> gpc \in {"none", "exited"}

\* Claim: the host only runs lifecycle scripts the sandbox audited.
HostRunsOnlyAudited == hostRan \subseteq ran

(***************************************************************************)
(* The session implements the gate: guests, frames and backends are        *)
(* invisible, and so is everything before the verdict.                     *)
(***************************************************************************)
Gate == INSTANCE AuditGate WITH
    Report <- Lock,
    Missing <- NoLock,
    Deferrable <- Scripts,
    Acceptable <- {p \in Lock \X Lock :
                     renderDiffMatch(p[1], p[2]) /\ findAuditBypass(p[2]) = {}},
    mode <- IF inp.bun THEN "skip" ELSE inp.mode,
    lock <- lockFile,
    tree <- inp.scripts,
    stage <- CASE hpc = "done" -> "ended"
               [] hpc \in {"part1", "part2"} -> IF trusted THEN "accepted" ELSE "drifted"
               [] OTHER -> "auditing",
    code <- exitCode,
    executed <- hostRan

\* Every run of the Action is a run of the gate, and ends as the gate must.
ImplementsGate == Gate!GateSpec
=============================================================================
