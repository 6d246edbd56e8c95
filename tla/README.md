# script-jail: a TLA+ development

script-jail audits the lifecycle scripts of an npm-style install inside a
sandbox, renders what they did into a lock file and compares it with a
committed one. The modules here describe the code under `src/src/`: TLC checks
them on small instances, TLAPS proves the main results for every value of the
constants. Paths below are relative to `src/src/`.

## The system

Two programs and a pipeline of untrusted input. The **host** starts a sandbox;
the **guest agent** in it runs the package manager under strace and a preload
shim; what these write is tailed, attributed and rendered into the lock.

| Component | State it keeps | Operations | Talks to |
|---|---|---|---|
| Action entry (`main.ts`, `action/inputs.ts`) | inputs, selected backend, verdict | refuse, audit, part 1 install, part 2 scripts | orchestration, host installer |
| Audit orchestration (`shared/run-audit.ts`) | staged tree, scratch directory, committed lock | stage, execute, clean up, update or check | backends, diff |
| Backends (`action/backend/`, `action/firecracker/`) | child process or VM, streams | launch, dial, frame loop, disconnect, tear down | guest, over one frame stream and one `go` line |
| Guest phases (`guest/agent.ts` main) | phase, collected events, tamper flag | fetch, wait for `go`, drop the network, verify, install, prepare, final | host, strace runner |
| Audit channel (`guest/agent.ts` tailer) | read positions, buffers, queue, gates on the events file | poll, watchers, exit handler, settle loop, flush, yield | traced processes through files and fd 3; dispatcher |
| Dispatcher (`guest/phase-install.ts`, `attribution.ts`) | per-pid directories, descriptors, attribution, parked events | one handler per strace line and shim record, replay at the end | tailer, /proc, emitter |
| Rendering (`lock/`) | none | normalise, redact, render | agent, CLI |
| Shim (`shim/src/`) | log descriptor, per-thread recursion guard | hooks, emit | events file |
| Host installer (`action/host-install.ts`) | line buffers, child disposition | install without scripts, run scripts, forward output | main.ts |
| CLI and macOS VM (`cli/`, `host-mac/`) | helper process, VM, frame queue | boot, relay frames, post `go`, stop | guest |
| Runner (`guest/agent.ts`, `LinuxStraceRunner`) | poll streak, tail of stdout, exit promise | start strace, find the root pid, return | tailer, dispatcher |
| Artifacts (`action/firecracker/download.ts`, `cli/rootfs-cache.ts`) | files in a cache | verify, download, rename, extract | backends, other runs in the same directory |
| Build and release (`rootfs/`, `release/`) | none at run time | images, backfill | none |

What is hard in it, and what makes it correct:

* Host and guest each wait for the other (exit against `go`), either may die,
  frames may be cut, cleanup steps fail one by one. Whatever happens the Action
  returns, tries to remove everything it staged, and only a complete,
  untampered audit that equals the committed lock lets scripts run on the
  runner.
* The audit files are read while they are written, by five kinds of callbacks.
  Every line must arrive once and in order, a capture must not end early, and
  interference with the events file must be noticed as far as its size, times and
  identity can show it, without ever refusing an honest install.
* The lines of different processes arrive in any order, a child before the
  clone that made it. A relative path must be reported under the directory it
  was opened in, or as unresolved.
* A pid, a descriptor and the name of a file mean different things at different
  times, and the dispatcher may hear late. An event must not be charged to
  another package, a descriptor not be taken for an older one's directory, and a
  read not be dropped as start-up noise of Node because another process makes
  the same one.
* The virtual machine of the CLI can stop, hang or boot again at any point, and
  the helper between the two may be gone. A result must be that of one whole
  boot.
* A cached binary may be stale, cut off by a crash, or removed or replaced by
  another run while it is checked. Only the pinned one may be started.
* The exit of a host command, the ends of its pipes and a timer arrive in any
  order. Output is redacted line by line, so only whole lines may be forwarded.

What makes each part correct is stated by the properties of the run that checks
its module (below). `PROJECT.json` lists every part with its status, and under `hazards` every
place where the code is exposed to such behaviour, with the property that would
catch it or the reason there is none yet.

## Modules

Each component has its model (`X`), its proofs (`XProofs`) and its instances
for TLC (`MCX`).

### AuditSession, AuditGate

Host and guest as two processes with program counters `hpc`, `gpc`, over the
queues `toHost` (frames) and `toGuest` (`go`) and the two open flags. The host's
actions follow `main()`, `runAudit`, `runSelectedBackend` and the three frame
loops: `SkipBun`, `RefuseInstall`, `StartAudit`, `SelectBackend`,
`LaunchBackend` / `BackendUnavailable` / `LaunchFails`, `DialVsock`, one action
per frame kind, `RecvEof`, `ChildExited`, `Cleanup`, then `SessionThrows`,
`WriteLock` or `Judge`, and `HostPart1`, `HostPart2`. What a launch leaves behind
depends on the backend (`VmBoots`, `DockerRuns`, `BareRuns`). The host holds a
scratch directory and a staged tree, and may be unable to remove either
(`inp.stuck`). `heldAfterCleanup` is what the removals leave: the backend's
`finally` comes first, `runAudit`'s, which removes the scratch directory, is run
whatever became of it. A failure is a warning for Firecracker's overlay
(`action/firecracker/overlay.ts:281`) and Docker's copy
(`action/backend/docker.ts:223`), swallowed for the scratch directory
(`shared/run-audit.ts:406`), and thrown out of bare's `finally`
(`action/backend/bare.ts:133`, `cleanupThrows`), where it takes the place of the
session's result. The copy that Docker and bare make is inside the scratch
directory and goes with it. The guest's actions follow
`main()` of agent.ts from `FetchDone` to `GuestExit`; `resolvePrepareCommand`
says whether a prepare pass follows the install, `PrepareRefuses` is the pass
that lacks its runner, environment or events file, and a pass without a script
to run is left out. `GuestCrash` may happen at any point and cuts the stream. A
lock is the set of scripts it records (`obs`) and a `stamp` for its volatile
fields; the stamp plays no part in a comparison.

`AuditGate` is what the Action promises without any of that: an audit ends in a
refusal, a skip, a rewritten lock, acceptance or drift, and only acceptance lets
scripts run. `Gate` in `AuditSession` is the refinement mapping and
`ImplementsGate` the claim.

### StraceTailer

`runStraceTailer` and `attachFd3Reader`. Files are numbers of tokens, two per
line, so that a read can end inside a line. The traced processes write
(`StraceWrites`, `ShimStamps` and `ShimWrites`, whose two halves a stat may fall
between, `CtimeSettles`), disturb the events file once (`EventsDisturbed`) and
exit. `EventsRewritten` cuts the file back and may write it up to any size again,
its old one included, with its mtime put back: the tailer sees sizes and times,
never that the text is another, so `lost` remembers that unread text was removed
or new text put where it had read already. A callback is a first step that drains the events file (`Tick`,
`SettlePass`, `EventsChanged`, `EventsRenamed`, `ExitHandler`), one
`DrainPidFile` per file and an end (`EndTick`, `EndSettlePass`, `FinishTail`): no
callback preempts another, while the processes write between any two of the
steps. `EventsRefused` and `EventsAccepted` are the gates of
`drainEventsFile`; `Yield` and `ParkOrReturn` are the consumer.

### HostStream

`streamSpawn` and `makeLineSink`. A pipe holds a sequence of tokens, text or
newline; `Data` takes a chunk of any length, `NextLine` and `ChunkEnd` are the
loop of `onData`, `Trailing` is `finalize`. `EndEvent`, `ExitEvent`,
`ErrorEvent` and `GraceExpires` are the four ways towards `finish`. `out` keeps
one entry per trace of a line: the line, the cap marker or the grace marker.

### CwdTracker

How the dispatcher follows working directories. One half runs a tree of
processes with their true directories (`cwd`, `mates` share an `fs_struct`) and
writes their lines; the other takes the lines, file by file in any
interleaving. `TakeChdir`, `TakeRelative`, `TakeOpaque` (a change whose target is
not visible), `TakeClone`, `TakeUnshare`, `TakeOpen` and `TakeExec` are the
handlers, each with all the tables it writes: the union-find (`up`, `pidCwd`,
`pidCwdUnknown`, `unionCwd`, `detachCwdGroup`), the clone tables
(`childParent`, `pidCloneTimeCwd`, `childSeedCloneTs`), the times of the first
and last change, and the parked opens and execs. `Replay` is the end of the run,
with the gates on sharing, the climb over deep chains (`recoveredCwd`) and the
directory it settles on (`replayCwd`). `file[p][i].at` is the true directory at
each line, which only the properties read.

### FdTracker

The same two halves for descriptors. In the kernel half processes with a table
of their own or a shared one open, duplicate, close, mark and inherit
descriptors, unshare and execute programs. In the other half the dispatcher keeps
one table per group of a union-find (`rootedFd`, `unionFd`, `detachFdGroup`),
tombstones for what a child closed before its clone was seen, a snapshot with a
log for one that detached before, and the sets of descriptors it used anew;
`TakeClone` reconciles all of them with the parent's table.

### Attribution

Who an event belongs to. The kernel half forks, starts scripts through a shim or
past it, loses the variables, exits and reuses pids; it writes one strace file
per pid, shared by the generations of that pid, and the events file of the shim.
The dispatcher takes lines at any later moment and walks `/proc` as it is then
(`walk`, `attribute`): cached answers, snapshots (`snapshotAttribution`) and the
generation they are of, exit lines, records of the shim that seed an answer
(`npm`), the bypass count of `spawn` lines against `exec` records
(`execCount`), events parked until the end (`resolveDeferredAttribution`).
`isRepoRootAnchored` is the walk over clone edges that decides who speaks for
the repository itself. The loops up `/proc` and over the clone edges are given
by the least sets closed under their steps, which is what a loop visits when it
remembers where it was. `behind` and `late` are read by the properties only: a
pid was reused while something of its former owner was waiting; a record of a
process, or the line of its fork, was taken after its exit line.

### NodeBootstrap

Which reads are left out because Node makes them while it starts.
`beginNodeBootstrap`, `propagateNodeBootstrap` and `clearNodeBootstrap` with the
two markers that end a start-up (the file's own read and the record of the
shim), the reads of a program that may be a Node, held back until it tells, what
is suppressed by name afterwards, deferred relative reads and the replay of the
reads of processes already gone.

### StraceRun

The runner without the lines of the trace. `Poll` is a turn of
`readStraceChildPid` (one process is counted as long as it is the only child of
strace; enough polls in a row settle it), `GiveUp` its deadline and
maximum; `Data` and `End` are the collector of the tail of stdout, which decodes
characters cut in two, redacts whole lines and drops the front (a first byte and
what a mask has swallowed keep a place without width, so that every byte has its
place in the text); `Close` and
`SpawnError` settle the exit promise before, while or after anybody waits for
it.

### LocalVm

An audit on a Mac. Frames go from the agent through socat, the connection of its
boot, `reader_loop`, the main loop of the helper and its stdout to the CLI; `go`
goes back through the stdin thread, which takes the newest connection first and
writes to it later. `TakeReason`, `RelayFrame` and `IdleTimeout` are the branches
of the select, `verdict` what `spawnVm` makes of the exit, `Settles` its
`finally`, whose removal of the directory may fail unreported
(`cli/spawn-vm.ts:674`). `ConfigUnwritten` is the failure between the making of
the directory and the `try` (`cli/spawn-vm.ts:561`), `SpawnThrows` one inside it.
The guest is external: it may hang, die, panic and boot again on the
disks it has used.

### FirecrackerFetch

How the Firecracker backend gets its files and starts them. `maybeClearCache`,
then `preFetchArtifacts` (left out by a self-test run,
`action/backend/firecracker.ts:116`) and `ensureBinaries` go through the files,
which `Fetch` downloads and checks; `SeesBinary`, `Unlink`, `Extract`, `Rename` and
`Chmod` make the binary, where extraction is a tar reader driven by the events of
a stream, whose chunks end anywhere. `makeOverlay` copies the image that is there
by then, `launchVm` spawns the binary, and at `InstanceStart` Firecracker reads the
kernel. Another run in the same directory removes files, puts pinned ones in their
place, and removes, renames or marks the binary at any step; a corrupt file or a
stale binary is there from the start, and a crash restarts the process with what
is there.

## Runs

| Run | Question | Instance |
|---|---|---|
| `session_gate` | Do verdict, lock and host install follow only from a complete matching audit; does the Action return; does it refine the gate? | trees {a, b} and {a, c}, root prepare or not; b is flagged as a bypass, c leaves no events; all modes, backends, probe answers; four committed locks |
| `session_audited` | Does the host only run scripts the sandbox ran? (violated) | one tree |
| `tailer_capture` | Is a capture that is not refused read to its end, in order, never falsely refused, the consumer never asleep on work; does the generator return after a normal exit? | a strace file of 3 tokens, or 2 tokens over it and the events file; or a disturbed events file with 1; or a line on fd 3 beside 1; one stalled poll; two quiet passes |
| `host_stream_lines` | Is only whole output forwarded, each line once; does the promise resolve? | both pipes with 3 tokens each, lines capped at one token |
| `cwd_trees` | Is what is tracked of plain forks true in every order of the files; do deep chains resolve; do first execs keep their directory; do the gates on sharing hold at the replay? | three processes with every kind of change (4 calls), four with chdir (5), three with execs (4 or 5), three with CLONE_FS and unshare (4 or 5); two directories |
| `cwd_recovery` | Is a recovered path never wrong? (violated) | three processes, 5 calls |
| `fd_tables` | Is a directory found for a descriptor the true one? | two descriptors, two directories; two processes with 4 or 5 calls, three with 4, or 6 when taken in order; eight kinds of trees |
| `attribution` | Is an event charged to its own package or none, an exec past the shim counted once, a forged repository name never believed? | three pids, two packages; reuse of pids 6 steps, bypasses, reaped processes and forgery 5 |
| `local_vm` | Is a result that of one whole boot; is no process left behind and no removal skipped; does the CLI return? | two boots, one warning each |
| `firecracker_fetch` | Is an archive extracted exactly or refused; are only the pinned binary, kernel and image started? | three files (the image before, kernel and tarball in `ensureBinaries`), self-test or not, archives of 3 blocks, declared sizes 0, 1 and 3 halves; two runs, two interventions of another run |
| `strace_run` | Is the install command found, its output kept whole and masked; does the run return? | a wrapper, a daemon; three polls settle, the wrapper lives for two; 6 bytes of stdout, tail of 3 |
| `node_bootstrap` | Are the reads kept that matter, and exactly those when the lines come in order? | two processes, 5 calls; with two names or with environment reads 4 |

The passing runs have between 84 000 (`strace_run`) and 750 000
(`node_bootstrap`) distinct states and take up to a few minutes each.

The bounds are small but cross the limits that matter. Two dependency scripts
are needed for one to run and the next to fail; the committed locks include one
that matches, one that matches a partial run and one with the prepare script;
three tokens are a line and an unterminated one, so reads end inside, at and
after a line, and a line can exceed the cap and be followed by another. Two
quiet passes with one stall are the least instance of `MaxStall <
settleQuietPasses`, and the safety properties of the tailer are proved for all
others. Three processes make the chain in which a clone is seen before the one
above it; four make the chain in which the climb needs more than one hop. A
descriptor opened, closed and opened anew in a child read before its clone line
takes four calls and one more look-up. Two generations of a pid with an event
each, one of them parked, are six steps. A second boot is what makes a result of
mixed boots possible; a third adds nothing but another one like it. Half a block
is the smallest piece at which header, content and padding can be cut; sizes 1
and 3 need padding, size 0 has no content. The wrapper that lives for one poll
less than settles it is the last one that may, and six bytes hold a secret, an
accented character and a newline around the cap of three.

The runs of the dispatcher are unions of kinds of trees, each with its own bound
(`CONSTRAINT`), because all calls at once are out of reach: the kinds are listed
in the `MC` module with what each is for. Every mutant listed in `PROJECT.json`
is found within these bounds. The processes other than the root are
interchangeable, and no property names one, so permuting them is a sound
symmetry, and so it is for directories and names of files where no constant
singles one out; the runs with liveness use none.

Fairness is part of the specifications:

* `AuditSession`: weak fairness of host and guest. Event loops run what is
  ready; package manager and scripts end (a hung script is left to the job's
  own timeout). `GuestCrash` is never forced.
* `StraceTailer`: a callback in progress finishes (weak); settle passes, the
  exit handler, the consumer and the end of fd 3 after a normal exit get their
  turn although the poll timer keeps firing (strong): Node serves due timers and
  ready promises in turn. Nothing is assumed of the traced processes.
* `HostStream`: likewise, exit, error and grace timer get their turn however
  much output there is. Nothing is assumed of the child or of a descendant that
  holds a pipe.
* `LocalVm`: weak fairness of the helper's main loop, of its reader and stdin
  threads and of the CLI. The guest may hang, and the user need not interrupt.
* `FirecrackerFetch`: weak fairness of the stream and the reader once extraction
  has begun. Downloads have no time limit in the code, so nothing is said of them.
* `StraceRun`: weak fairness of the runner. No process has to end; the property
  is about what happens once the tree is gone.
* `CwdTracker`, `FdTracker`, `Attribution` and `NodeBootstrap` state safety only:
  a handler runs to its end, and whether a line comes is the tailer's concern.

## Disagreements between code and comments

Two are kept as runs:

* `session_audited`: `docs/divergence.md:85` says the host only runs scripts
  whose audit was clean. A sandbox install that fails half way is a warning, its
  shorter lock can equal the committed one, and part 2 then runs everything
  (`guest/agent.ts:4550`). Every script whose effects the lock records is still
  judged (`LockIsWhatRan`, `TrustGate`).
* `cwd_recovery`: the climb reads a directory without its unknown bit
  (`guest/phase-install.ts:7455`), so a parked open can resolve wrongly although
  the comment above it says never. `ReplayTrue` says when it does not.

Others were met while modelling. The models follow the code, and the properties
name the cases:

* An open resolved as its line is taken uses what is known of its CLONE_FS group
  so far; only parked opens are gated on sharing (`guest/phase-install.ts:2943`,
  against the comment at 4085).
* A parked exec gets the directory its process has when the clone is seen, not
  the one at the exec (`guest/phase-install.ts:4645`). `ExecTrue` states what
  does hold.
* A DNS timeout counts as offline, so after a failed eth0 drop Phase B may have a
  network (`PhaseBOfflineUnlessMasked` names exactly this case).
* Draining the events file before the strace files does not order an exec's
  record before its strace line when both are written between the two reads.
  `BypassExact` holds because the counts are compared at the end.
* For the same reason a shim record can be taken after the exit line of its
  process, although the comment at `guest/phase-install.ts:3741` counts on it
  coming first: what it says of the package then outlives the process
  (4046). `PromptTrue` excludes exactly that (`late`).
* The line of a fork can be taken after the child's exit line as well. It then
  records the parent's package anew (`guest/phase-install.ts:5505`), although the
  comment at 4033 says that an exit line makes what is recorded stale, and a later
  process with that number may get the dead one's package. This too is `late`.
* `guest/phase-install.ts:7103` and `docs/divergence.md:664` call a parked event
  of a reused pid safe, because a reuse shows in the lines. It does not always: a
  script of one package forks a child that reads, both end before their lines are
  taken, both numbers are used again, the parent's by a script of another package
  and the child's by a child of that one which executes nothing. None of the signs
  appears, and the first child's read goes to the second package. `ParkedTrue`
  therefore asks that the processes above the reader used their numbers once.
* `rootfs/orchestrate.sh:103` kills socat when the agent has exited, although
  `guest/agent.ts:192` counts on the last frame being passed on. A frame that is
  lost this way ends in another boot of the used disks (panic=1, reboot=k), whose
  result is whole (`ResultWhole`) but not that of the first boot.
* `cli/spawn-vm.ts:635` expects the helper to end when the guest hangs up. Its
  senders live on, so it waits for the idle timer of fifteen minutes.
* When the install ends before its pid has settled, a process it left behind can
  be settled on (`guest/agent.ts:1645`); `RootIsInstall` therefore speaks of an
  install that is alive.
* If the shim's marker is taken before strace's line of the same exec,
  `beginNodeBootstrap` (`guest/phase-install.ts:6370`) opens the start-up window
  again, and later reads of the environment are filtered, although the comments
  at 2584 and 3497 call this independent of the order. The same order loses a read
  made before a process became a Node, and a deferred relative one. The reads of
  threads are affected alike, and reads of a candidate that is already gone are
  emitted as noise. `FileReadsKept` and `PromptExact` state what is left.
* `clearNodeBootstrap` (`guest/phase-install.ts:3356`) also forgets that the
  children below have told that they started. When the parent of a Node executes
  something after the Node's strace lines were taken, the Node's shim marker makes
  it pending again, although `test/guest/phase-install.test.ts:5853` says that it
  "does not reopen the bootstrap read window when shim marker follows strace
  marker". `FileReadsKept` leaves out what such a process reads (`Reopens`).

## Proofs

All constants are arbitrary within the named assumptions of their module.

* `AuditSessionProofs`. `TypeCorrect`; `IInv` adds: frames in flight are genuine
  (`InFlightGenuine`) and so is the one kept (`FinalGenuine`); what the agent saw
  is what it ran unless it was tampered with (`SeenUnlessTampered`); part 1 and 2
  are only reached with an admitted install (`InstallAdmitted`) and part 2 only
  with a match (`TrustedMeansMatch`); the host's tables agree with its program
  counter (`HostOrder`); before the launch there is no agent (`NoAgentYet`). From
  it: `TrustGateHolds`, `LockIsWhatRanHolds`, `CheckPassIsMatchHolds`,
  `LockWrittenOnlyByUpdateHolds`, and `ImplementsGateSafely`, the safety half of
  the refinement. The first four are false as inductive invariants because a
  verdict depends on a frame sent long before: the genuineness of frames in
  flight carries the fact across.
  `LeftoversExplainedHolds` rests on `HeldOnlyInside` (before its end a session
  holds no more than it has made, and each of its exits goes through both
  `finally` blocks, so that what is held after them could not be removed), and `PhaseBOfflineHolds` on `OfflineInv`, which names what has cut the
  network on each backend before a script runs, and the one case on Firecracker
  where nothing has.
* `StraceTailerProofs`. `IInv` says that the queue is what lies between what was
  delivered and what was read (`QueueInv`, `BufferInv`, the counting argument for
  `LinesOnceInOrder`), that an unchanged pass means fewer stalls than quiet passes
  remain (`SettleInv`, where `MaxStall < settleQuietPasses` enters), that the end
  of the tail leaves nothing unread (`FinalInv`), that a parked consumer has
  nothing to do (`WakeInv`) and that strikes need something other than the shim
  (`BenignInv`), and so does a loss of text. From it: `NoLostWakeupHolds`,
  `CaptureReadToEndHolds`,
  `NoFalseTamperHolds`, `LinesOnceInOrderHolds`.
* `HostStreamProofs`. `IInv` places the sink between the last newline and what it
  has read (`PlaceInv`), relates its entries to the lines begun before
  (`TraceInv`) and the events that happened to what is closed and read
  (`EndInv`, `ControlInv`). From it: `OnlyWholeLinesHolds`, `EveryLineOnceHolds`,
  `RealDispositionHolds`.
* `CwdTrackerProofs`, in three parts. In a tree of plain forks `PlainInv` is
  inductive as it stands in the model: the lines tell the truth (`TreeInv`),
  nothing is known before the first line (`FreshInv`), and a tracked directory is
  the process's own, a change is noted before it matters, a clone line shows the
  directory of birth, opens are genuine (`CwdInv`, `MutInv`, `BirthInv`,
  `OpenInv`). The climb is then a walk over processes that did not move before
  the clone below them, so all of them were born in one directory. From it:
  `ResolvedTrueHolds`.
  Whoever lives was cloned, and among any processes one is cloned by none of them,
  so the climb ends; and the root keeps the directory it was started with
  (`BornInv`, `OldestInv`, `ClimbInv`). From it: `StampedResolvesHolds`.
  `ExecsInv` adds what is parked of a first exec: the directory it was made in, or
  nothing while the clone line is out. From it: `ExecTrueHolds`.
  With CLONE_FS none of this holds of a single process: a directory changes with
  the call of another, and the lines of the two come in any order. `SharedInv`
  speaks of sets of processes instead, those that are *still*: closed under
  parents and sharing, and no member that shares its directory ever moves. Of
  every such set, what the dispatcher tracks of its members is true, joined or
  detached. When the replay resolves an open, its gates on sharing and times
  imply that the reader's ancestors with all they share with are such a set
  (`LineageStill`), and the climb stays among processes born where the reader was
  (`ClimbTrue`). From it: `ReplayTrueHolds` for any tree without `unshare` or
  without hidden changes, and `TypeCorrect` for every tree.
* `AttributionProofs` has one inductive invariant per theorem, over common parts:
  `TreeInv` is about the processes and their lines alone (a generation's script is
  its own first exec's or its parent's; between the lines of two generations is an
  exit line), `LineInv` relates what is kept to the lines taken.
  `RootNeverForgedHolds` (`RootedInv`): a pid that is accepted is linked to the
  package manager by clone edges that no reuse has touched, so the first exec
  under it was the repository's own (`Anchored`, `OneScript`).
  `ParkedTrueHolds` (`ParkedInv`): whatever is cached, recorded or seeded of a pid
  whose forks all lie in a set of pids used once is a name of that one script
  (`NamedInv`). `PromptTrueHolds` (`PromptInv`): while the dispatcher keeps up,
  lines that wait are of the present generation (`WaitingInv`), nothing fresh is
  kept of what is gone (`GoneInv`), and what is kept of the others is what they
  run (`NowInv`); a walk up `/proc` ends at a name of that script (`WalkFact`).
  `BypassExactHolds` (`BypassInv`) is an argument of counting: as many records
  that were not taken back as lines of execs that were recorded, and the samples
  are in the order of the lines. `SeededReportedHolds` (`ReportInv`): what is
  taken is reported or parked, and a pid the shim has named resolves at the end.
* `VmHostProofs`, for `LocalVm` and `FirecrackerFetch`. `VmInv` says which processes there are at each step of
  `spawnVm` (`StageInv`), that a stop is only reported by a machine that has
  powered itself off (`ReasonInv`), and that a helper that ended well left a
  terminal frame in the pipe or with the CLI, or its machine had (`CodeInv`): the
  fact that makes the order of the select and the exit harmless. From it:
  `SettledTidilyHolds`, `CleanExitExplainedHolds`. `FlowInv` follows the frames,
  numbered within their boot, through the five queues: they are in order
  (`OrderInv`) and what is missing of a boot on the way is the end of what it said
  (`NoGapInv`), because a connection is only cut at the agent's side. From it:
  `ResultWholeHolds`.
  For `FirecrackerFetch` the reference for an archive is the least set of
  places where a header stands, so the reader's place can be compared with it
  without induction over blocks: between two steps it is at a header of that set
  or in the content of one behind it (`PlaceInv`), and it knows what the headers
  behind it say (`PassedInv`). A well-formed archive that ends in a zero block is
  refused only when a stream fails (`RejectInv`). From it: `ExtractExactHolds`,
  for every archive and every cut.
  `FetchStageInv` and `DirInv` say which file was checked at each step of a run, the
  image only when the run is no self-test, and give `StartsPinnedHolds`.
* `NodeBootstrapProofs`. `KernelInv` is about the lines of the tree alone: times
  grow in each file, a shim marker is a strace line as well, threads only read, and
  from a program called node to its marker every line is of the start-up
  (`StartInv`). `ReadInv` relates the dispatcher's tables to the lines taken, for
  any order of taking them. Whoever is pending starts, has told ahead, or is below
  somebody who does (`PendingInv`), because a clone line only spreads what the parent
  still is and a marker clears the whole subtree; whoever has told is known to,
  unless somebody it descends from executed something after (`CompletedInv`, which
  is where `Reopens` enters); what is held back is of a candidate and lies
  before its marker (`HeldInv`), and what is deferred will not be judged to lie in
  the window if it is kept (`DeferInv`, `NullInv`). So no kept name is ever
  suppressed (`BaselineInv`) and a kept read that was taken is in the audit, held
  back or waiting (`WhereInv`). Subtrees and descent are least closed sets, so both
  directions are shown by a closed set and not by induction over the tree. From it:
  `ReadsKept` and `TypeCorrect`, for any tree and any interleaving of the files.
  `PromptExactHolds` is about the runs in which each line is taken in the order of
  the calls. `HistoryInv` says more of the lines: a time is of one call
  (`NumberInv`), a process is born once and before it acts (`OriginInv`), a program
  starts from its first to its last call before it tells, or not at all (`StartupInv`,
  `SameInv`), and a thread that acts while its process starts was born in that start
  (`ThreadStartInv`). `PromptInv` says that the lines taken are those before some
  moment (`OrderInv`), except that of the two halves of a marker one may be taken
  (`FileFirst`, `ShimFirst`), and that the tables are then exact: whoever is pending
  is starting at that moment and the other way round (`FilePendingInv`,
  `EnvPendingInv`), with the threads of a program called node (`SpreadInv`) and
  nobody else below it (`BelowInv`); a candidate runs a program of unknown kind that
  has not told twice (`CandidateInv`), and what is held back it has read since it
  executed that (`HeldBackInv`), which is all of one start or none of it. So what is
  held back becomes noise only when its program tells. A name kept for later was
  read by somebody who starts (`UncleanInv`), hence no clean read is suppressed
  (`MeantInv`), and nothing in the audit is noise (`NoiseInv`).
* `StraceRunProofs`. `RootInv`: a living wrapper is strace's child, a living
  install is strace's child unless the wrapper is there (`TreeInv`); polls that
  saw only the wrapper are polls it lived to see (`StreakInv`), which are too few
  to settle (`LaunchInv` with `LauncherPolls < settlePolls`). From it:
  `RootIsInstallHolds`, for any finite number of daemons.
  `TailExact` rests on what the operators on text do for every text: bytes decode
  piece by piece as they would at once (`DecodedJoined`), no secret goes over the
  end of a line (`RedactJoined`), and cutting twice is cutting once (`CapTwice`,
  because of two ends of one text the shorter is an end of the longer). So what is
  kept is at every moment the cut, redacted lines of all that was read and the line
  that has not ended, or the same up to a line that was lost (`KeptInv`), and when
  `run` returns all was read (`ExitInv`). From it: `TailExactHolds`.

Type correctness is proved for `AuditSession`, `CwdTracker`, `Attribution`,
`NodeBootstrap` (`TypeCorrect`), `StraceTailer` (`TailerTyped`) and `HostStream`
(`StreamTyped`), and the invariants of the other proofs contain the types they use;
in `FdTracker` `TypeOK` documents the state. `LockWrittenOnlyByUpdate` and
`RealDisposition` are proved and not run.

Loops are treated by least arguments: what a loop visits is the least set closed
under its step, so a closed set that is easier to speak of bounds it, and a first
line or a shortest part with some property is a least number. In the same spirit
`decoded` and `redact` say what each place of a text shows and `capTail` which end
is the longest that fits, so that no theorem needs induction over data.

Model-checked only: all liveness (`HostTerminates`, `GuestTerminates`,
`TailerReturns`, `Resolves`, `AllEnds`, `ExtractSettles`, `RunReturns`) and the
liveness half of `ImplementsGate`, which are beyond the prover; everything about
`FdTracker`, whose clone lines fold a log of any length over two tables
(`shareFds`, `copyFds`), so that even `PrivateTrue` needs induction over data.

## Assumptions and limits

* The eleven install preconditions of `main()` other than mode, lock and backend
  are one Boolean (`gates`). REST calls, TAP and iptables of Firecracker and the
  image resolution of Docker are one step that succeeds or fails.
* Event frames, progress output, redaction and rendering carry no state that a
  property reads; event handling is one step per script in `AuditSession`.
* In `StraceTailer` a poll may miss written bytes on at most `MaxStall` polls in a
  row, fewer than the quiet passes that end the settle loop
  (`SettleAssumption`): a longer blindness would end any capture early. A
  mismatch of descriptor and path identity is folded into the first gate. A
  capture can be read to its end and yet lack text: what another writer of the
  events file removes before it is read, or rewrites where it was read already
  without the file ever being seen smaller, shows in the ctime alone, and a clean
  exit voids those strikes. The code accepts this (`guest/agent.ts:1258`), the
  model reaches it, and `CaptureReadToEnd` says that only such a writer loses text.
  Closing the generator early is not modelled. On macOS the exit is never known
  to be clean, so `NoFalseTamper` says nothing there.
* In `HostStream` the grace timer may fire at any time after the exit, and
  decoding of UTF-8 across chunks is left to Node.
* In `CwdTracker` pids are not reused, every process is attributed, an `fchdir`
  to a known descriptor is a `chdir`, and the lines are taken after the tree is
  done, which loses no interleaving because the handlers read nothing but the
  lines. The event time of a line is its position in its own file: the code
  compares times of one process only. The same holds for `FdTracker`, where a
  range of descriptors is a set and an `openat` names the directory itself.
* In `Attribution` a package stands for a package and its stage. Path markers,
  relative opens and the samples of forged records are left out, and so are
  processes of the package manager that never execute a script. Of two records
  the one dispatched later wins.
* In `NodeBootstrap` a name or path is an item; no pid is reused; hidden and
  protected reads, which bypass the filter, are left out; whoever reads has an
  attribution at once or at the end; a Node does not fork while it starts; the
  lines of one call have a fixed order; the shim names the process, not the
  thread.
* In `StraceRun` the mask and the marker have width one, there is one secret of
  two characters, invalid UTF-8 only comes as a last character cut off, a wrapper
  lives for fewer polls than settle (`PollsAssumption`), orphans become children
  of strace, as the code's comment says, and stderr is not modelled.
* In `LocalVm` malformed or cut lines are dropped as the code drops them and event
  frames are not kept; the retries of `post_go` and the ten seconds `stop` may take
  are one step; the router thread is part of the reader; a start that times out
  ends the process and with it the machine; the one-second ceiling of the agent's
  flush is not modelled. The helper cannot fail to write to a CLI that has died,
  since the CLI only dies when there is no helper: a helper that cannot be
  started or a broken pipe has no listener, so the CLI dies and leaves its
  directory, of which `SettledTidily` says nothing. A CLI that returns or throws
  leaves it in two cases: its config could not be written (`cli/spawn-vm.ts:563`
  is before the `try`), or it could not be removed, which is swallowed (674).
* In `AuditSession` what cannot be removed is chosen at the start and stays so;
  a removal fails whole or not at all.
* In `FirecrackerFetch` a self-test run may start on an image whose digest nobody
  compared, which `StartsPinned` names. The other disks of the overlay are a
  failure of `makeOverlay`, and its removal belongs to `AuditSession`. A file is absent, corrupt or pinned and the binary absent,
  stale, partial or whole, the fields of a header are right or not, an archive is chosen when its
  extraction starts and pieces end at half blocks. Whether an archive without the
  zero block at its end is accepted depends on how it is cut, so `ExtractExact`
  says nothing of it.

## Not modelled yet, in the order planned

1. `ShimEmit`: appends of several processes and threads to one events file, short
   writes continued in a second one (`shim/src/lib.rs:1181`), the per-thread guard
   and fork. To show: a record is whole or recognised as damaged.
2. `ArtifactCache`: the images of the CLI (`cli/rootfs-cache.ts:61`), with two
   runs in one directory and a crash between check and rename. To prove: a file
   under its final name is verified.
3. `HostInstall`: the command sequence per manager and the launcher resolution,
   composed with `HostStream`.
4. `VsockDial`: retries against the guest's one-shot listener and the relay.
5. `Normalize`: order independence, idempotence and deduplication of the rendered
   lists as operators over bounded inputs.
6. The macOS guest dispatcher, a variant of the Linux one without strace.
7. The rest of the dispatcher: path markers, forgery samples, descriptors passed
   over sockets, and pid reuse in the directory and descriptor tables.

Worth proving next: `PrivateTrue` of `FdTracker` along the lines of `PlainInv`, once
the replay of a log is stated descriptor by descriptor (what its last entry that
concerns one does to it) instead of as a fold.

Left aside: what the redaction patterns match and other text parsing (no state),
command tables, staging of files, image building and release tooling (build
time).
