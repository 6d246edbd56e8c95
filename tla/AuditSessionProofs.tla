------------------------- MODULE AuditSessionProofs -------------------------
(***************************************************************************)
(* Proofs about AuditSession, for every set of scripts, every lock and     *)
(* every tree: type correctness, the gate of part 2 and what a passing     *)
(* check means.                                                            *)
(***************************************************************************)
EXTENDS AuditSession, SequenceTheorems, TLAPS

\* The agent has rendered its lock, or died, and runs no script any more.
Rendered == gpc \in {"exiting", "exited"}

\* A lock travelling to the host or already read is the whole, untampered audit.
Genuine(doc) == Rendered /\ ~tampered /\ doc.obs = seen

InFlightGenuine ==
    \A i \in 1..Len(toHost) : toHost[i].kind = "final" => Genuine(toHost[i].doc)

FinalGenuine == finalDoc # NoDoc => Genuine(finalDoc)

\* Events are lost only by tampering.
SeenUnlessTampered == ~tampered => seen = ran \ QuietScripts

\* Past the input checks an install run is in check mode with a lock to compare against
\* and only aligned backends to run on.
InstallAdmitted ==
    inp.install /\ hpc # "start" /\ (hpc # "done" \/ trusted) =>
        /\ inp.mode = "check" /\ inp.gates
        /\ order \subseteq INSTALL_ALIGNED_BACKENDS
        /\ backend \in INSTALL_ALIGNED_BACKENDS \cup {"none"}

\* The verdict, once positive, describes the lock that was read.
TrustedMeansMatch ==
    trusted =>
        /\ hpc \in {"part1", "part2", "done"}
        /\ inp.mode = "check" /\ ~fatalError /\ ~inp.bun
        /\ finalDoc # NoDoc /\ lockFile # NoLock
        /\ lockFile.obs = finalDoc.obs /\ finalDoc.obs \cap BypassScripts = {}

\* Where the host can be with respect to the verdict, the exit code and the backend.
HostOrder ==
    /\ hpc \in {"part1", "part2"} => inp.install
    /\ hpc = "start" => backend = "none"
    /\ hpc = "part2" => trusted
    /\ hpc \notin {"start", "select", "done"} => backend # "none"
    /\ hostRan # {} => hpc = "done" /\ trusted /\ inp.install /\ backend # "none"
    /\ exitCode = 0 /\ inp.mode = "check" /\ ~inp.bun => trusted
    /\ hpc \notin {"start", "done"} => ~inp.bun
    /\ hpc \in {"part1", "part2"} /\ ~trusted => exitCode = 1

\* No agent exists while the host is still choosing a backend.
NoAgentYet == hpc \in {"start", "select", "launch"} => gpc = "none"

IInv ==
    /\ TypeOK
    /\ InFlightGenuine
    /\ FinalGenuine
    /\ SeenUnlessTampered
    /\ InstallAdmitted
    /\ TrustedMeansMatch
    /\ HostOrder
    /\ NoAgentYet

-----------------------------------------------------------------------------
(* Type correctness, one group of variables at a time.                     *)

\* The declared types hold initially.
LEMMA InitTypeOK == Init => TypeOK
  <1> SUFFICES ASSUME Init PROVE TypeOK
    OBVIOUS
  <1>1. HostTypeOK
    BY DEF Init, HostTypeOK, HostPcs
  <1>2. GuestTypeOK
    BY DEF Init, GuestTypeOK, GuestPcs
  <1>3. StreamTypeOK
    BY EmptySeq DEF Init, StreamTypeOK
  <1>4. NetTypeOK
    BY DEF Init, NetTypeOK
  <1> QED
    BY <1>1, <1>2, <1>3, <1>4 DEF TypeOK

\* The agent's steps and its death leave the host's variables alone.
LEMMA GuestLeavesHost == GuestNext \/ GuestCrash => UNCHANGED hostVars
  BY DEF GuestNext, GuestCrash, FetchFails, FetchDone, WaitForGo, GoNeverCame, DropEth0, VerifyOffline, AgentRefuses, PrepareRefuses, RunScript, InstallExits, AfterInstall, resolvePrepareCommand, RunPrepare, EmitFinal, GuestExit

\* So do the host's steps the agent's, but for starting and killing it.
LEMMA HostLeavesGuest ==
  ASSUME HostNext, ~LaunchBackend, ~DialVsock, ~Cleanup
  PROVE  UNCHANGED guestVars
  BY DEF HostNext, SkipBun, RefuseInstall, StartAudit, SelectBackend, NoBackendLeft, BackendUnavailable, LaunchFails, RecvFetchDone, DisconnectFails, RecvOther, RecvFatal, RecvFinal, RecvEof, ChildExited, SessionThrows, WriteLock, Judge, HostPart1, HostPart2

\* The host's variables keep their types; the lock it reads is one the agent rendered.
LEMMA HostTypeStep == TypeOK /\ [Next]_vars => HostTypeOK'
  <1> SUFFICES ASSUME HostTypeOK, StreamTypeOK, [Next]_vars PROVE HostTypeOK'
    BY DEF TypeOK
  <1>1. CASE SkipBun
    BY <1>1 DEF SkipBun, Finish, HostTypeOK, HostPcs, Running
  <1>2. CASE RefuseInstall
    BY <1>2 DEF RefuseInstall, Finish, HostTypeOK, HostPcs, Running
  <1>3. CASE StartAudit
    BY <1>3 DEF StartAudit, backendOrder, baseOrder, HostTypeOK, Holdable, HostPcs, Running, INSTALL_ALIGNED_BACKENDS, Backends, Inputs
  <1>4. CASE SelectBackend
    BY <1>4 DEF SelectBackend, onBackendSelected, HostTypeOK, HostPcs, Running
  <1>5. CASE NoBackendLeft
    BY <1>5 DEF NoBackendLeft, Abort, heldAfterCleanup, Finish, HostTypeOK, HostPcs, Running
  <1>6. CASE BackendUnavailable
    BY <1>6 DEF BackendUnavailable, Abort, heldAfterCleanup, Finish, HostTypeOK, HostPcs, Running
  <1>7. CASE LaunchFails
    BY <1>7 DEF LaunchFails, Abort, heldAfterCleanup, Finish, HostTypeOK, Holdable, HostPcs, Running
  <1>8. CASE LaunchBackend
    BY <1>8 DEF LaunchBackend, VmBoots, DockerRuns, BareRuns, HostTypeOK, Holdable, HostPcs, Running
  <1>9. CASE DialVsock
    BY <1>9 DEF DialVsock, HostTypeOK, HostPcs, Running
  <1>10. CASE RecvFetchDone
    BY <1>10 DEF RecvFetchDone, Receive, hostVars, HostTypeOK
  <1>11. CASE DisconnectFails
    BY <1>11 DEF DisconnectFails, Receive, HostTypeOK, HostPcs, Running
  <1>12. CASE RecvOther
    BY <1>12 DEF RecvOther, Receive, hostVars, HostTypeOK
  <1>13. CASE RecvFatal
    BY <1>13 DEF RecvFatal, Receive, LeaveLoop, HostTypeOK, HostPcs, Running
  <1>14. CASE RecvFinal
    BY <1>14, HeadTailProperties DEF RecvFinal, Receive, LeaveLoop, HostTypeOK, StreamTypeOK, Frame, HostPcs, Running
  <1>15. CASE RecvEof
    BY <1>15 DEF RecvEof, LeaveLoop, HostTypeOK, HostPcs, Running
  <1>16. CASE ChildExited
    BY <1>16 DEF ChildExited, HostTypeOK, HostPcs, Running
  <1>17. CASE Cleanup
    BY <1>17 DEF Cleanup, heldAfterCleanup, HostTypeOK, HostPcs, Running
  <1>18. CASE SessionThrows
    BY <1>18 DEF SessionThrows, Finish, HostTypeOK, HostPcs, Running
  <1>19. CASE WriteLock
    BY <1>19 DEF WriteLock, Finish, HostTypeOK, HostPcs, Running
  <1>20. CASE Judge
    BY <1>20 DEF Judge, HostTypeOK, HostPcs, Running
  <1>21. CASE HostPart1
    BY <1>21 DEF HostPart1, Finish, afterPart1, HostTypeOK, HostPcs, Running
  <1>22. CASE HostPart2
    BY <1>22 DEF HostPart2, HostTypeOK, Inputs, HostPcs, Running
  <1>23. CASE UNCHANGED hostVars
    BY <1>23 DEF hostVars, HostTypeOK
  <1> QED
    BY <1>1, <1>2, <1>3, <1>4, <1>5, <1>6, <1>7, <1>8, <1>9, <1>10, <1>11, <1>12, <1>13, <1>14, <1>15, <1>16, <1>17, <1>18, <1>19, <1>20, <1>21, <1>22, <1>23, GuestLeavesHost
    DEF Next, HostNext, Terminated, vars

\* The agent's variables keep their types.
LEMMA GuestTypeStep == TypeOK /\ [Next]_vars => GuestTypeOK'
  <1> SUFFICES ASSUME HostTypeOK, GuestTypeOK, [Next]_vars PROVE GuestTypeOK'
    BY DEF TypeOK
  <1>1. CASE LaunchBackend
    BY <1>1 DEF LaunchBackend, VmBoots, DockerRuns, BareRuns, GuestTypeOK, GuestPcs
  <1>2. CASE DialVsock
    BY <1>2 DEF DialVsock, GuestTypeOK, GuestPcs
  <1>3. CASE Cleanup
    BY <1>3 DEF Cleanup, heldAfterCleanup, GuestTypeOK, GuestPcs
  <1>4. CASE FetchFails
    BY <1>4 DEF FetchFails, Die, GuestTypeOK, GuestPcs
  <1>5. CASE FetchDone
    BY <1>5 DEF FetchDone, GuestTypeOK, GuestPcs
  <1>6. CASE WaitForGo
    BY <1>6 DEF HostTypeOK, Inputs, WaitForGo, StartPhaseB, GuestTypeOK, GuestPcs
  <1>7. CASE GoNeverCame
    BY <1>7 DEF GoNeverCame, Die, GuestTypeOK, GuestPcs
  <1>8. CASE DropEth0
    BY <1>8 DEF DropEth0, GuestTypeOK, GuestPcs
  <1>9. CASE VerifyOffline
    BY <1>9 DEF HostTypeOK, Inputs, VerifyOffline, Die, StartPhaseB, verifyOfflineWithTimeout, GuestTypeOK, GuestPcs
  <1>10. CASE AgentRefuses
    BY <1>10 DEF AgentRefuses, PrepareRefuses, Die, GuestTypeOK, GuestPcs
  <1>11. CASE RunScript
    BY <1>11 DEF Entry, AllScripts, RunScript, TraceScript, GuestTypeOK, GuestPcs
  <1>12. CASE InstallExits
    BY <1>12 DEF InstallExits, GuestTypeOK, GuestPcs
  <1>13. CASE AfterInstall
    BY <1>13 DEF AfterInstall, resolvePrepareCommand, Die, GuestTypeOK, GuestPcs
  <1>14. CASE RunPrepare
    BY <1>14 DEF Entry, AllScripts, RunPrepare, Die, TraceScript, GuestTypeOK, GuestPcs
  <1>15. CASE EmitFinal
    BY <1>15 DEF EmitFinal, Die, GuestTypeOK, GuestPcs
  <1>16. CASE GuestExit
    BY <1>16 DEF GuestExit, GuestTypeOK, GuestPcs
  <1>17. CASE GuestCrash
    BY <1>17 DEF GuestCrash, GuestTypeOK, GuestPcs
  <1>18. CASE UNCHANGED guestVars
    BY <1>18 DEF guestVars, GuestTypeOK
  <1> QED
    BY <1>1, <1>2, <1>3, <1>4, <1>5, <1>6, <1>7, <1>8, <1>9, <1>10, <1>11, <1>12, <1>13, <1>14, <1>15, <1>16, <1>17, <1>18, HostLeavesGuest
    DEF Next, GuestNext, Terminated, vars

\* Frames the agent writes.
LEMMA Frames ==
  /\ \A k \in {"fetch_done", "install_done", "warn", "fatal"} : frame(k) \in Frame
  /\ \A doc \in Lock : [kind |-> "final", doc |-> doc] \in Frame
  BY DEF Frame, frame

\* Writing one of the plain frames keeps the stream well-formed.
LEMMA EmitFrame ==
  ASSUME StreamTypeOK, NEW k \in {"fetch_done", "install_done", "warn", "fatal"}
  PROVE  Append(toHost, frame(k)) \in Seq(Frame)
  BY Frames, AppendProperties DEF StreamTypeOK

\* Both streams carry only well-formed frames and `go` lines.
LEMMA StreamTypeStep == TypeOK /\ [Next]_vars => StreamTypeOK'
  <1> SUFFICES ASSUME GuestTypeOK, StreamTypeOK, [Next]_vars PROVE StreamTypeOK'
    BY DEF TypeOK
  <1>1. CASE LaunchBackend
    BY <1>1 DEF LaunchBackend, VmBoots, DockerRuns, BareRuns, StreamTypeOK
  <1>2. CASE DialVsock
    BY <1>2 DEF DialVsock, StreamTypeOK
  <1>3. CASE RecvEof
    BY <1>3 DEF RecvEof, LeaveLoop, StreamTypeOK
  <1>4. CASE Cleanup
    BY <1>4 DEF Cleanup, heldAfterCleanup, StreamTypeOK
  <1>5. CASE GuestExit
    BY <1>5 DEF GuestExit, StreamTypeOK
  <1>6. CASE RecvFetchDone
    BY <1>6, HeadTailProperties, AppendProperties DEF RecvFetchDone, Receive, StreamTypeOK
  <1>7. CASE DisconnectFails
    BY <1>7, HeadTailProperties DEF DisconnectFails, Receive, StreamTypeOK
  <1>8. CASE RecvOther
    BY <1>8, HeadTailProperties DEF RecvOther, Receive, StreamTypeOK
  <1>9. CASE RecvFatal
    BY <1>9, HeadTailProperties DEF RecvFatal, Receive, LeaveLoop, StreamTypeOK
  <1>10. CASE RecvFinal
    BY <1>10, HeadTailProperties DEF RecvFinal, Receive, LeaveLoop, StreamTypeOK
  <1>11. CASE FetchFails
    BY <1>11, EmitFrame DEF FetchFails, Die, Emit, StreamTypeOK
  <1>12. CASE FetchDone
    BY <1>12, EmitFrame DEF FetchDone, Emit, StreamTypeOK
  <1>13. CASE GoNeverCame
    BY <1>13, EmitFrame DEF GoNeverCame, Die, Emit, StreamTypeOK
  <1>14. CASE DropEth0
    BY <1>14, EmitFrame DEF DropEth0, Emit, StreamTypeOK
  <1>15. CASE VerifyOffline
    <2>1. toHost' \in {toHost, Append(toHost, frame("warn")), Append(toHost, frame("fatal"))}
      BY <1>15 DEF VerifyOffline, Die, StartPhaseB, verifyOfflineWithTimeout, Emit
    <2>2. UNCHANGED <<toGuest, hostOpen, guestOpen>>
      BY <1>15 DEF VerifyOffline
    <2> QED
      BY <2>1, <2>2, EmitFrame DEF StreamTypeOK
  <1>16. CASE AgentRefuses
    BY <1>16, EmitFrame DEF AgentRefuses, PrepareRefuses, Die, Emit, StreamTypeOK
  <1>17. CASE AfterInstall
    BY <1>17, EmitFrame DEF AfterInstall, resolvePrepareCommand, Die, Emit, StreamTypeOK
  <1>18. CASE RunPrepare
    <2>1. toHost' \in {toHost, Append(toHost, frame("warn")), Append(toHost, frame("fatal"))}
      BY <1>18 DEF RunPrepare, Die, TraceScript, Emit
    <2>2. UNCHANGED <<toGuest, hostOpen, guestOpen>>
      BY <1>18 DEF RunPrepare
    <2> QED
      BY <2>1, <2>2, EmitFrame DEF StreamTypeOK
  <1>19. CASE WaitForGo
    BY <1>19, HeadTailProperties DEF WaitForGo, StreamTypeOK
  <1>20. CASE EmitFinal
    <2>1. PICK st \in Stamps :
            toHost' \in {Append(toHost, frame("fatal")),
                        Append(Append(toHost, frame("install_done")),
                               [kind |-> "final", doc |-> [obs |-> seen, stamp |-> st]])}
      BY <1>20, StampsAssumption DEF EmitFinal, Die, Emit
    <2>2. [obs |-> seen, stamp |-> st] \in Lock
      BY DEF GuestTypeOK, Lock
    <2>3. Append(Append(toHost, frame("install_done")),
                 [kind |-> "final", doc |-> [obs |-> seen, stamp |-> st]]) \in Seq(Frame)
      BY <2>2, Frames, EmitFrame, AppendProperties
    <2>4. toHost' \in Seq(Frame)
      BY <2>1, <2>3, EmitFrame
    <2> QED
      BY <1>20, <2>4 DEF EmitFinal, StreamTypeOK
  <1>21. CASE GuestCrash
    <2>1. PICK k \in 0..Len(toHost) : toHost' = SubSeq(toHost, 1, k)
      BY <1>21 DEF GuestCrash
    <2>2. \A i \in 1..k : toHost[i] \in Frame
      BY ElementOfSeq, LenProperties DEF StreamTypeOK
    <2>3. toHost' \in Seq(Frame)
      BY <2>1, <2>2, SubSeqProperties, LenProperties DEF StreamTypeOK
    <2> QED
      BY <1>21, <2>3 DEF GuestCrash, StreamTypeOK
  <1>22. CASE UNCHANGED chanVars
    BY <1>22 DEF chanVars, StreamTypeOK
  <1>23. CASE
         SkipBun \/ RefuseInstall \/ StartAudit \/ SelectBackend \/ NoBackendLeft
          \/ BackendUnavailable \/ LaunchFails \/ ChildExited \/ SessionThrows
          \/ WriteLock \/ Judge \/ HostPart1 \/ HostPart2 \/ RunScript \/ InstallExits
    BY <1>22, <1>23 DEF SkipBun, RefuseInstall, StartAudit, SelectBackend, NoBackendLeft, BackendUnavailable, LaunchFails, ChildExited, SessionThrows, WriteLock, Judge, HostPart1, HostPart2, RunScript, InstallExits
  <1> QED
    BY <1>1, <1>2, <1>3, <1>4, <1>5, <1>6, <1>7, <1>8, <1>9, <1>10, <1>11, <1>12, <1>13, <1>14, <1>15, <1>16, <1>17, <1>18, <1>19, <1>20, <1>21, <1>22, <1>23
    DEF Next, HostNext, GuestNext, Terminated, vars

\* Every other step leaves the network and what the agent knows of it alone.
LEMMA NetLeftAlone ==
  ASSUME Next, ~RecvFetchDone, ~WaitForGo, ~DropEth0, ~VerifyOffline
  PROVE  UNCHANGED netVars
  BY DEF Next, HostNext, GuestNext, Terminated, vars, SkipBun, RefuseInstall, StartAudit, SelectBackend, NoBackendLeft, BackendUnavailable,
         LaunchFails, LaunchBackend, VmBoots, DockerRuns, BareRuns, DialVsock, DisconnectFails, RecvOther, RecvFatal,
         RecvFinal, RecvEof, ChildExited, Cleanup, SessionThrows, WriteLock,
         Judge, HostPart1, HostPart2, FetchFails, FetchDone, GoNeverCame,
         AgentRefuses, PrepareRefuses, RunScript, InstallExits, AfterInstall, resolvePrepareCommand, RunPrepare, EmitFinal,
         GuestExit, GuestCrash

\* The network's variables keep their types.
LEMMA NetTypeStep == TypeOK /\ [Next]_vars => NetTypeOK'
  <1> SUFFICES ASSUME NetTypeOK, [Next]_vars PROVE NetTypeOK'
    BY DEF TypeOK
  <1>1. CASE RecvFetchDone
    BY <1>1 DEF RecvFetchDone, Receive, NetTypeOK
  <1>2. CASE WaitForGo
    BY <1>2 DEF WaitForGo, StartPhaseB, NetTypeOK
  <1>3. CASE DropEth0
    BY <1>3 DEF DropEth0, NetTypeOK
  <1>4. CASE VerifyOffline
    BY <1>4, DnsAssumption DEF VerifyOffline, Die, StartPhaseB, verifyOfflineWithTimeout, NetTypeOK
  <1>5. CASE UNCHANGED netVars
    BY <1>5 DEF netVars, NetTypeOK
  <1> QED
    BY <1>1, <1>2, <1>3, <1>4, <1>5, NetLeftAlone DEF vars

\* Type correctness of the composed session, streams included.
THEOREM TypeCorrect == Spec => []TypeOK
  <1>1. TypeOK /\ [Next]_vars => TypeOK'
    BY HostTypeStep, GuestTypeStep, StreamTypeStep, NetTypeStep DEF TypeOK
  <1> QED
    BY InitTypeOK, <1>1, PTL DEF Spec

-----------------------------------------------------------------------------
(* The strengthened invariant, one part at a time.                         *)

\* No agent runs before LaunchBackend, and the host never chooses again after it.
LEMMA NoAgentYetStep == NoAgentYet /\ [Next]_vars => NoAgentYet'
  <1> SUFFICES ASSUME NoAgentYet, [Next]_vars PROVE NoAgentYet'
    OBVIOUS
  <1>1. CASE HostNext
    BY <1>1 DEF HostNext, NoAgentYet, hostVars, guestVars,
         SkipBun, Finish, RefuseInstall, StartAudit, backendOrder, baseOrder,
         SelectBackend, onBackendSelected, NoBackendLeft, Abort, BackendUnavailable,
         LaunchFails, LaunchBackend, VmBoots, DockerRuns, BareRuns, DialVsock, RecvFetchDone, Receive,
         DisconnectFails, RecvOther, RecvFatal, LeaveLoop, RecvFinal, RecvEof,
         ChildExited, Cleanup, heldAfterCleanup, SessionThrows, WriteLock, Judge,
         HostPart1, afterPart1, HostPart2
  <1>2. CASE GuestNext \/ GuestCrash
    <2>1. gpc # "none"
      BY <1>2 DEF GuestNext, GuestCrash,
         FetchFails, FetchDone, WaitForGo, GoNeverCame, DropEth0, VerifyOffline,
         AgentRefuses, PrepareRefuses, RunScript, InstallExits, AfterInstall, resolvePrepareCommand, RunPrepare, EmitFinal,
         GuestExit
    <2> QED
      BY <1>2, <2>1, GuestLeavesHost DEF NoAgentYet, hostVars
  <1>3. CASE UNCHANGED vars
    BY <1>3 DEF vars, hostVars, guestVars, NoAgentYet
  <1> QED
    BY <1>1, <1>2, <1>3 DEF Next, Terminated

\* Once the agent has rendered its lock or died, no script runs and no verdict changes.
LEMMA RenderedIsFinal ==
  ASSUME Rendered, NoAgentYet, [Next]_vars
  PROVE  Rendered' /\ UNCHANGED <<seen, tampered>>
  <1>1. CASE LaunchBackend \/ DialVsock \/ Cleanup
    BY <1>1 DEF Rendered, NoAgentYet, LaunchBackend, VmBoots, DockerRuns, BareRuns, DialVsock, Cleanup
  <1>2. CASE UNCHANGED guestVars
    BY <1>2 DEF Rendered, guestVars
  <1>3. CASE GuestNext \/ GuestCrash
    BY <1>3 DEF Rendered, GuestNext, GuestCrash, StartPhaseB,
         FetchFails, FetchDone, WaitForGo, GoNeverCame, DropEth0, VerifyOffline,
         AgentRefuses, PrepareRefuses, RunScript, InstallExits, AfterInstall, resolvePrepareCommand, RunPrepare, EmitFinal,
         GuestExit
  <1> QED
    BY <1>1, <1>2, <1>3, HostLeavesGuest DEF Next, Terminated, vars

\* Every final frame in flight stays genuine: EmitFinal alone writes one, untampered.
LEMMA InFlightStep ==
  TypeOK /\ NoAgentYet /\ InFlightGenuine /\ [Next]_vars => InFlightGenuine'
  <1> SUFFICES ASSUME GuestTypeOK, StreamTypeOK, NoAgentYet, InFlightGenuine,
                      [Next]_vars
               PROVE  InFlightGenuine'
    BY DEF TypeOK
  <1> DEFINE Kept == \A i \in 1..Len(toHost') :
               toHost'[i].kind = "final" =>
                 \E j \in 1..Len(toHost) : toHost'[i] = toHost[j]
  <1>1. ASSUME Kept PROVE InFlightGenuine'
    BY <1>1, RenderedIsFinal DEF InFlightGenuine, Genuine
  <1>2. CASE EmitFinal
    <2>1. CASE tampered
      <3>1. toHost' = Append(toHost, frame("fatal")) /\ frame("fatal") \in Frame
        BY <1>2, <2>1, Frames DEF EmitFinal, Die, Emit
      <3>2. frame("fatal").kind # "final"
        BY DEF frame
      <3> QED
        BY <1>1, <3>1, <3>2, AppendProperties, LenProperties DEF StreamTypeOK
    <2>2. CASE ~tampered
      <3> DEFINE mid == Append(toHost, frame("install_done"))
      <3>1. PICK st \in Stamps :
              toHost' = Append(mid, [kind |-> "final", doc |-> [obs |-> seen, stamp |-> st]])
        BY <1>2, <2>2 DEF EmitFinal
      <3>2. Rendered' /\ ~tampered' /\ seen' = seen
        BY <1>2, <2>2 DEF EmitFinal, Rendered
      <3>3. /\ frame("install_done") \in Frame /\ frame("install_done").kind # "final"
            /\ [kind |-> "final", doc |-> [obs |-> seen, stamp |-> st]] \in Frame
        BY Frames DEF frame, GuestTypeOK, Lock
      <3>4. /\ mid \in Seq(Frame)
            /\ \A i \in 1..Len(mid) : mid[i].kind = "final" =>
                  \E j \in 1..Len(toHost) : mid[i] = toHost[j]
        BY <3>3, AppendProperties, LenProperties DEF StreamTypeOK
      <3> HIDE DEF mid
      <3>5. \A i \in 1..Len(toHost') : toHost'[i].kind = "final" =>
               \/ \E j \in 1..Len(mid) : toHost'[i] = mid[j]
               \/ toHost'[i].doc.obs = seen
        BY <3>1, <3>3, <3>4, AppendProperties, LenProperties
      <3> QED
        BY <3>2, <3>4, <3>5 DEF InFlightGenuine, Genuine
    <2> QED
      BY <2>1, <2>2
  <1>3. CASE \/ FetchFails \/ FetchDone \/ GoNeverCame \/ DropEth0 \/ VerifyOffline
             \/ AgentRefuses \/ AfterInstall \/ RunPrepare
    <2>1. \/ toHost' = toHost
          \/ \E k \in {"fetch_done", "warn", "fatal"} : toHost' = Append(toHost, frame(k))
      BY <1>3 DEF FetchFails, FetchDone, GoNeverCame, DropEth0, VerifyOffline, AgentRefuses, PrepareRefuses,
         AfterInstall, resolvePrepareCommand, RunPrepare, Die, Emit
    <2>2. \A k \in {"fetch_done", "warn", "fatal"} :
             frame(k) \in Frame /\ frame(k).kind # "final"
      BY Frames DEF frame
    <2>3. CASE toHost' = toHost
      BY <1>1, <2>3
    <2>4. ASSUME NEW k \in {"fetch_done", "warn", "fatal"},
                 toHost' = Append(toHost, frame(k))
          PROVE  Kept
      BY <2>2, <2>4, AppendProperties, LenProperties DEF StreamTypeOK
    <2> QED
      BY <1>1, <2>1, <2>3, <2>4
  <1>4. CASE RecvFetchDone \/ DisconnectFails \/ RecvOther \/ RecvFatal \/ RecvFinal
    <2>1. toHost # <<>> /\ toHost' = Tail(toHost)
      BY <1>4 DEF RecvFetchDone, DisconnectFails, RecvOther, RecvFatal, RecvFinal, Receive
    <2>2. Len(toHost') = Len(toHost) - 1 /\ Len(toHost) \in Nat
          /\ \A i \in 1..Len(toHost') : toHost'[i] = toHost[i + 1]
      BY <2>1, HeadTailProperties, LenProperties DEF StreamTypeOK
    <2>3. Kept
      BY <2>2
    <2> QED
      BY <1>1, <2>3
  <1>5. CASE GuestCrash
    <2>1. PICK k \in 0..Len(toHost) : toHost' = SubSeq(toHost, 1, k)
      BY <1>5 DEF GuestCrash
    <2>2. Len(toHost) \in Nat /\ \A i \in 1..k : toHost[i] \in Frame
      BY ElementOfSeq, LenProperties DEF StreamTypeOK
    <2>3. Len(toHost') = k /\ \A i \in 1..k : toHost'[i] = toHost[i]
      BY <2>1, <2>2, SubSeqProperties
    <2> QED
      BY <1>1, <2>2, <2>3
  <1>6. CASE UNCHANGED toHost
    BY <1>1, <1>6
  <1>7. ASSUME Next, ~EmitFinal, ~GuestCrash,
               ~(RecvFetchDone \/ DisconnectFails \/ RecvOther \/ RecvFatal \/ RecvFinal),
               ~(\/ FetchFails \/ FetchDone \/ GoNeverCame \/ DropEth0 \/ VerifyOffline
                 \/ AgentRefuses \/ AfterInstall \/ RunPrepare)
        PROVE  UNCHANGED toHost
    BY <1>7 DEF Next, HostNext, GuestNext, Terminated, vars, chanVars,
         SkipBun, RefuseInstall, StartAudit, SelectBackend, NoBackendLeft,
         BackendUnavailable, LaunchFails, LaunchBackend, VmBoots, DockerRuns, BareRuns, DialVsock, RecvEof,
         ChildExited, Cleanup, SessionThrows, WriteLock, Judge, HostPart1, HostPart2,
         WaitForGo, RunScript, InstallExits, GuestExit
  <1> QED
    BY <1>2, <1>3, <1>4, <1>5, <1>6, <1>7 DEF vars, chanVars

\* The lock the host has read stays genuine; it was a frame in flight when it was read.
LEMMA FinalStep ==
  TypeOK /\ NoAgentYet /\ InFlightGenuine /\ FinalGenuine /\ [Next]_vars => FinalGenuine'
  <1> SUFFICES ASSUME StreamTypeOK, NoAgentYet, InFlightGenuine, FinalGenuine, [Next]_vars
               PROVE  FinalGenuine'
    BY DEF TypeOK
  <1>1. CASE RecvFinal
    <2>1. toHost # <<>> /\ Head(toHost).kind = "final" /\ finalDoc' = Head(toHost).doc
      BY <1>1 DEF RecvFinal, Receive
    <2>2. Len(toHost) \in Nat \ {0} /\ Head(toHost) = toHost[1]
      BY <2>1, EmptySeq DEF StreamTypeOK
    <2>3. Genuine(finalDoc')
      BY <2>1, <2>2 DEF InFlightGenuine
    <2> QED
      BY <2>3, RenderedIsFinal DEF Genuine, FinalGenuine
  <1>2. CASE UNCHANGED finalDoc
    BY <1>2, RenderedIsFinal DEF Genuine, FinalGenuine
  <1>3. ASSUME Next, ~RecvFinal PROVE UNCHANGED finalDoc
    <2>1. CASE HostNext
      BY <1>3, <2>1 DEF HostNext, hostVars,
         SkipBun, RefuseInstall, StartAudit, SelectBackend, NoBackendLeft,
         BackendUnavailable, LaunchFails, LaunchBackend, VmBoots, DockerRuns, BareRuns, DialVsock, RecvFetchDone,
         DisconnectFails, RecvOther, RecvFatal, RecvEof, ChildExited, Cleanup,
         SessionThrows, WriteLock, Judge, HostPart1, HostPart2
    <2>2. CASE GuestNext \/ GuestCrash \/ Terminated
      BY <2>2, GuestLeavesHost DEF hostVars, Terminated, vars
    <2> QED
      BY <1>3, <2>1, <2>2 DEF Next
  <1> QED
    BY <1>1, <1>2, <1>3 DEF vars, hostVars

\* A traced script's events are collected, or its runner reports tampering.
LEMMA SeenStep == SeenUnlessTampered /\ [Next]_vars => SeenUnlessTampered'
  <1> SUFFICES ASSUME SeenUnlessTampered, [Next]_vars PROVE SeenUnlessTampered'
    OBVIOUS
  <1>1. ASSUME NEW s, TraceScript(s) PROVE SeenUnlessTampered'
    BY <1>1 DEF TraceScript, Entry, SeenUnlessTampered
  <1>2. CASE RunScript \/ RunPrepare
    BY <1>1, <1>2 DEF RunScript, RunPrepare
  <1>3. CASE UNCHANGED <<ran, seen, tampered>>
    BY <1>3 DEF SeenUnlessTampered
  <1>4. ASSUME Next, ~RunScript, ~RunPrepare PROVE UNCHANGED <<ran, seen, tampered>>
    BY <1>4, HostLeavesGuest DEF Next, GuestNext, Terminated, vars, guestVars,
         LaunchBackend, VmBoots, DockerRuns, BareRuns, DialVsock, Cleanup, FetchFails, FetchDone, WaitForGo,
         GoNeverCame, DropEth0, VerifyOffline, AgentRefuses, PrepareRefuses, InstallExits,
         AfterInstall, resolvePrepareCommand, EmitFinal, GuestExit, GuestCrash
  <1> QED
    BY <1>2, <1>3, <1>4 DEF vars, guestVars

\* The input checks hold from StartAudit on, and candidates only leave `order`.
LEMMA AdmittedStep ==
  TypeOK /\ HostOrder /\ TrustedMeansMatch /\ InstallAdmitted /\ [Next]_vars
    => InstallAdmitted'
  <1> SUFFICES ASSUME HostTypeOK, HostOrder, TrustedMeansMatch, InstallAdmitted, [Next]_vars
               PROVE  InstallAdmitted'
    BY DEF TypeOK
  <1>1. CASE HostNext
    <2>1. CASE SkipBun
      BY <2>1 DEF SkipBun, Finish, InstallAdmitted, HostOrder, TrustedMeansMatch, HostTypeOK,
           hostVars
    <2>2. CASE RefuseInstall
      BY <2>2 DEF RefuseInstall, Finish, installRefused, InstallAdmitted, HostOrder,
           TrustedMeansMatch, HostTypeOK, hostVars
    <2>3. CASE StartAudit
      BY <2>3 DEF StartAudit, backendOrder, baseOrder, installRefused,
           INSTALL_ALIGNED_BACKENDS, Inputs, InstallAdmitted, HostOrder,
           TrustedMeansMatch, HostTypeOK, hostVars
    <2>4. CASE SelectBackend
      BY <2>4 DEF SelectBackend, onBackendSelected, InstallAdmitted, HostOrder,
           TrustedMeansMatch, HostTypeOK, hostVars
    <2>5. CASE NoBackendLeft
      BY <2>5 DEF NoBackendLeft, Abort, Finish, InstallAdmitted, HostOrder, TrustedMeansMatch,
           HostTypeOK, hostVars
    <2>6. CASE BackendUnavailable
      BY <2>6 DEF BackendUnavailable, Abort, Finish, InstallAdmitted, HostOrder,
           TrustedMeansMatch, HostTypeOK, hostVars
    <2>7. CASE LaunchFails
      BY <2>7 DEF LaunchFails, Abort, Finish, InstallAdmitted, HostOrder, TrustedMeansMatch,
           HostTypeOK, hostVars
    <2>8. CASE LaunchBackend
      BY <2>8 DEF LaunchBackend, VmBoots, DockerRuns, BareRuns, InstallAdmitted, HostOrder, TrustedMeansMatch, HostTypeOK,
           hostVars
    <2>9. CASE DialVsock
      BY <2>9 DEF DialVsock, InstallAdmitted, HostOrder, TrustedMeansMatch, HostTypeOK,
           hostVars
    <2>10. CASE RecvFetchDone
      BY <2>10 DEF RecvFetchDone, Receive, InstallAdmitted, HostOrder, TrustedMeansMatch,
           HostTypeOK, hostVars
    <2>11. CASE DisconnectFails
      BY <2>11 DEF DisconnectFails, Receive, InstallAdmitted, HostOrder, TrustedMeansMatch,
           HostTypeOK, hostVars
    <2>12. CASE RecvOther
      BY <2>12 DEF RecvOther, Receive, InstallAdmitted, HostOrder, TrustedMeansMatch,
           HostTypeOK, hostVars
    <2>13. CASE RecvFatal
      BY <2>13 DEF RecvFatal, Receive, LeaveLoop, InstallAdmitted, HostOrder,
           TrustedMeansMatch, HostTypeOK, hostVars
    <2>14. CASE RecvFinal
      BY <2>14 DEF RecvFinal, Receive, LeaveLoop, InstallAdmitted, HostOrder,
           TrustedMeansMatch, HostTypeOK, hostVars
    <2>15. CASE RecvEof
      BY <2>15 DEF RecvEof, LeaveLoop, InstallAdmitted, HostOrder, TrustedMeansMatch,
           HostTypeOK, hostVars
    <2>16. CASE ChildExited
      BY <2>16 DEF ChildExited, InstallAdmitted, HostOrder, TrustedMeansMatch, HostTypeOK,
           hostVars
    <2>17. CASE Cleanup
      BY <2>17 DEF Cleanup, heldAfterCleanup, InstallAdmitted, HostOrder, TrustedMeansMatch,
           HostTypeOK, hostVars
    <2>18. CASE SessionThrows
      BY <2>18 DEF SessionThrows, Finish, InstallAdmitted, HostOrder, TrustedMeansMatch,
           HostTypeOK, hostVars
    <2>19. CASE WriteLock
      BY <2>19 DEF WriteLock, Finish, InstallAdmitted, HostOrder, TrustedMeansMatch,
           HostTypeOK, hostVars
    <2>20. CASE Judge
      BY <2>20 DEF Judge, InstallAdmitted, HostOrder, TrustedMeansMatch, HostTypeOK, hostVars
    <2>21. CASE HostPart1
      BY <2>21 DEF HostPart1, Finish, afterPart1, InstallAdmitted, HostOrder,
           TrustedMeansMatch, HostTypeOK, hostVars
    <2>22. CASE HostPart2
      BY <2>22 DEF HostPart2, InstallAdmitted, HostOrder, TrustedMeansMatch, HostTypeOK,
           hostVars
    <2> QED
      BY <1>1, <2>1, <2>2, <2>3, <2>4, <2>5, <2>6, <2>7, <2>8, <2>9, <2>10, <2>11,
         <2>12, <2>13, <2>14, <2>15, <2>16, <2>17, <2>18, <2>19, <2>20, <2>21, <2>22 DEF HostNext
  <1>2. CASE UNCHANGED hostVars
    BY <1>2 DEF hostVars, InstallAdmitted
  <1> QED
    BY <1>1, <1>2, GuestLeavesHost DEF Next, Terminated, vars

\* Judge alone grants trust, and no later step disturbs what it compared.
LEMMA TrustedStep ==
  TypeOK /\ HostOrder /\ TrustedMeansMatch /\ [Next]_vars => TrustedMeansMatch'
  <1> SUFFICES ASSUME HostTypeOK, HostOrder, TrustedMeansMatch, [Next]_vars
               PROVE  TrustedMeansMatch'
    BY DEF TypeOK
  <1>1. CASE HostNext
    BY <1>1 DEF HostNext, TrustedMeansMatch, HostOrder, HostTypeOK, hostVars,
         renderDiffMatch, findAuditBypass,
         SkipBun, Finish, RefuseInstall, StartAudit, backendOrder, baseOrder,
         SelectBackend, onBackendSelected, NoBackendLeft, Abort, BackendUnavailable,
         LaunchFails, LaunchBackend, VmBoots, DockerRuns, BareRuns, DialVsock, RecvFetchDone, Receive,
         DisconnectFails, RecvOther, RecvFatal, LeaveLoop, RecvFinal, RecvEof,
         ChildExited, Cleanup, heldAfterCleanup, SessionThrows, WriteLock, Judge,
         HostPart1, afterPart1, HostPart2
  <1>2. CASE UNCHANGED hostVars
    BY <1>2 DEF hostVars, TrustedMeansMatch
  <1> QED
    BY <1>1, <1>2, GuestLeavesHost DEF Next, Terminated, vars

\* The order of the host's phases.
LEMMA OrderStep ==
  TypeOK /\ TrustedMeansMatch /\ HostOrder /\ [Next]_vars => HostOrder'
  <1> SUFFICES ASSUME HostTypeOK, TrustedMeansMatch, HostOrder, [Next]_vars
               PROVE  HostOrder'
    BY DEF TypeOK
  <1>1. CASE HostNext
    <2>1. CASE SkipBun
      BY <2>1 DEF SkipBun, Finish, TrustedMeansMatch, HostOrder, hostVars
    <2>2. CASE RefuseInstall
      BY <2>2 DEF RefuseInstall, Finish, installRefused, TrustedMeansMatch, HostOrder,
           hostVars
    <2>3. CASE StartAudit
      BY <2>3 DEF StartAudit, backendOrder, baseOrder, installRefused, TrustedMeansMatch,
           HostOrder, hostVars
    <2>4. CASE SelectBackend
      BY <2>4 DEF SelectBackend, onBackendSelected, HostTypeOK, Backends, TrustedMeansMatch,
           HostOrder, hostVars
    <2>5. CASE NoBackendLeft
      BY <2>5 DEF NoBackendLeft, Abort, Finish, TrustedMeansMatch, HostOrder, hostVars
    <2>6. CASE BackendUnavailable
      BY <2>6 DEF BackendUnavailable, Abort, Finish, TrustedMeansMatch, HostOrder, hostVars
    <2>7. CASE LaunchFails
      BY <2>7 DEF LaunchFails, Abort, Finish, TrustedMeansMatch, HostOrder, hostVars
    <2>8. CASE LaunchBackend
      BY <2>8 DEF LaunchBackend, VmBoots, DockerRuns, BareRuns, TrustedMeansMatch, HostOrder, hostVars
    <2>9. CASE DialVsock
      BY <2>9 DEF DialVsock, TrustedMeansMatch, HostOrder, hostVars
    <2>10. CASE RecvFetchDone
      BY <2>10 DEF RecvFetchDone, Receive, TrustedMeansMatch, HostOrder, hostVars
    <2>11. CASE DisconnectFails
      BY <2>11 DEF DisconnectFails, Receive, TrustedMeansMatch, HostOrder, hostVars
    <2>12. CASE RecvOther
      BY <2>12 DEF RecvOther, Receive, TrustedMeansMatch, HostOrder, hostVars
    <2>13. CASE RecvFatal
      BY <2>13 DEF RecvFatal, Receive, LeaveLoop, TrustedMeansMatch, HostOrder, hostVars
    <2>14. CASE RecvFinal
      BY <2>14 DEF RecvFinal, Receive, LeaveLoop, TrustedMeansMatch, HostOrder, hostVars
    <2>15. CASE RecvEof
      BY <2>15 DEF RecvEof, LeaveLoop, TrustedMeansMatch, HostOrder, hostVars
    <2>16. CASE ChildExited
      BY <2>16 DEF ChildExited, TrustedMeansMatch, HostOrder, hostVars
    <2>17. CASE Cleanup
      BY <2>17 DEF Cleanup, heldAfterCleanup, TrustedMeansMatch, HostOrder, hostVars
    <2>18. CASE SessionThrows
      BY <2>18 DEF SessionThrows, Finish, TrustedMeansMatch, HostOrder, hostVars
    <2>19. CASE WriteLock
      BY <2>19 DEF WriteLock, Finish, TrustedMeansMatch, HostOrder, hostVars
    <2>20. CASE Judge
      BY <2>20 DEF Judge, TrustedMeansMatch, HostOrder, hostVars
    <2>21. CASE HostPart1
      BY <2>21 DEF HostPart1, Finish, afterPart1, TrustedMeansMatch, HostOrder, hostVars
    <2>22. CASE HostPart2
      BY <2>22 DEF HostPart2, TrustedMeansMatch, HostOrder, hostVars
    <2> QED
      BY <1>1, <2>1, <2>2, <2>3, <2>4, <2>5, <2>6, <2>7, <2>8, <2>9, <2>10, <2>11,
         <2>12, <2>13, <2>14, <2>15, <2>16, <2>17, <2>18, <2>19, <2>20, <2>21, <2>22 DEF HostNext
  <1>2. CASE UNCHANGED hostVars
    BY <1>2 DEF hostVars, HostOrder
  <1> QED
    BY <1>1, <1>2, GuestLeavesHost DEF Next, Terminated, vars

\* The strengthened invariant holds initially and is inductive.
LEMMA IInvInductive == Spec => []IInv
  <1>1. Init => IInv
    BY InitTypeOK DEF Init, IInv, InFlightGenuine, FinalGenuine, SeenUnlessTampered,
       InstallAdmitted, TrustedMeansMatch, HostOrder, NoAgentYet, Running
  <1>2. IInv /\ [Next]_vars => IInv'
    <2>1. TypeOK /\ [Next]_vars => TypeOK'
      BY HostTypeStep, GuestTypeStep, StreamTypeStep, NetTypeStep DEF TypeOK
    <2> QED
      BY <2>1, InFlightStep, FinalStep, SeenStep, AdmittedStep, TrustedStep, OrderStep,
         NoAgentYetStep DEF IInv
  <1> QED
    BY <1>1, <1>2, PTL DEF Spec

\* Part 2 of the install runs only behind a clean, matching, untampered check on an
\* aligned backend (main.ts gates hostRunScripts on runAudit's `trusted`).
THEOREM TrustGateHolds == Spec => []TrustGate
  <1>1. IInv => TrustGate
    BY DEF IInv, TypeOK, HostTypeOK, TrustGate, HostOrder, InstallAdmitted,
       TrustedMeansMatch, FinalGenuine, Genuine, INSTALL_ALIGNED_BACKENDS
  <1> QED
    BY <1>1, IInvInductive, PTL

\* The judged lock is everything the untampered audit ran.
THEOREM LockIsWhatRanHolds == Spec => []LockIsWhatRan
  <1>1. IInv => LockIsWhatRan
    BY DEF IInv, LockIsWhatRan, FinalGenuine, Genuine, SeenUnlessTampered
  <1> QED
    BY <1>1, IInvInductive, PTL

\* Exit code 0 of a check means the committed lock was matched and bypasses nothing.
THEOREM CheckPassIsMatchHolds == Spec => []CheckPassIsMatch
  <1>1. IInv => CheckPassIsMatch
    BY DEF IInv, CheckPassIsMatch, HostOrder, TrustedMeansMatch, FinalGenuine, Genuine
  <1> QED
    BY <1>1, IInvInductive, PTL

\* Only update mode rewrites the lock, with the complete lock of an untampered session.
THEOREM LockWrittenOnlyByUpdateHolds == Spec => LockWrittenOnlyByUpdate
  <1> DEFINE Written == lockFile' # lockFile =>
               /\ inp.mode = "update" /\ ~fatalError /\ ~tampered
               /\ lockFile' = finalDoc /\ lockFile'.obs = ran \ QuietScripts
  <1>1. IInv /\ [Next]_vars => Written
    <2> SUFFICES ASSUME IInv, [Next]_vars PROVE Written
      OBVIOUS
    <2>1. CASE WriteLock
      BY <2>1 DEF WriteLock, IInv, FinalGenuine, Genuine, SeenUnlessTampered
    <2>2. ASSUME HostNext, ~WriteLock PROVE lockFile' = lockFile
      BY <2>2 DEF HostNext, hostVars,
         SkipBun, Finish, RefuseInstall, StartAudit, backendOrder, baseOrder,
         SelectBackend, onBackendSelected, NoBackendLeft, Abort, BackendUnavailable,
         LaunchFails, LaunchBackend, VmBoots, DockerRuns, BareRuns, DialVsock, RecvFetchDone, Receive,
         DisconnectFails, RecvOther, RecvFatal, LeaveLoop, RecvFinal, RecvEof,
         ChildExited, Cleanup, heldAfterCleanup, SessionThrows, Judge, HostPart1,
         afterPart1, HostPart2
    <2>3. CASE GuestNext \/ GuestCrash \/ Terminated \/ UNCHANGED vars
      BY <2>3, GuestLeavesHost DEF hostVars, Terminated, vars
    <2> QED
      BY <2>1, <2>2, <2>3 DEF Next
  <1>2. IInv /\ [Next]_vars => [Written]_vars
    BY <1>1
  <1> QED
    BY <1>2, IInvInductive, PTL DEF Spec, LockWrittenOnlyByUpdate

-----------------------------------------------------------------------------
(* The session implements the gate.                                        *)

\* Steps the gate does not see: the host's position stays before the verdict, or moves
\* from part 1 to part 2, and nothing else the gate looks at changes.
Unseen ==
    /\ UNCHANGED <<inp, lockFile, exitCode, hostRan, trusted>>
    /\ hpc' = hpc \/ (hpc \in HostPcs \ {"part1", "part2", "done"}
                        /\ hpc' \in HostPcs \ {"part1", "part2", "done"})

LEMMA UnseenIsStutter == Unseen => UNCHANGED Gate!gateVars
  BY DEF Unseen, Gate!gateVars

\* The session's safety is the gate's: every step is one step of the gate or a stutter.
THEOREM ImplementsGateSafely == Spec => Gate!Init /\ [][Gate!GateNext]_Gate!gateVars
  <1>1. Init => Gate!Init
    BY DEF Init, Inputs, Gate!Init, Running
  <1>2. IInv /\ [Next]_vars => [Gate!GateNext]_Gate!gateVars
    <2> SUFFICES ASSUME IInv, [Next]_vars PROVE [Gate!GateNext]_Gate!gateVars
      OBVIOUS
    <2> USE DEF IInv, TypeOK
    <2>1. CASE SkipBun
      BY <2>1 DEF SkipBun, Finish, HostOrder, Gate!GateNext, Gate!Skip
    <2>2. CASE RefuseInstall \/ NoBackendLeft \/ LaunchFails \/ SessionThrows
      BY <2>2 DEF RefuseInstall, NoBackendLeft, LaunchFails, SessionThrows, Abort, Finish,
         Gate!GateNext, Gate!Refuse
    <2>3. CASE BackendUnavailable
      <3>1. CASE inp.requested # "auto"
        BY <2>3, <3>1 DEF BackendUnavailable, Abort, Finish, Gate!GateNext, Gate!Refuse
      <3>2. CASE inp.requested = "auto"
        BY <2>3, <3>2, UnseenIsStutter DEF BackendUnavailable, Unseen, HostPcs
      <3> QED
        BY <3>1, <3>2
    <2>4. CASE WriteLock
      BY <2>4 DEF WriteLock, Finish, HostOrder, HostTypeOK, Gate!GateNext, Gate!Rewrite
    <2>5. CASE Judge
      <3>1. ~inp.bun /\ finalDoc \in Lock
        BY <2>5 DEF Judge, HostOrder, HostTypeOK
      <3>2. CASE trusted'
        <4>1. /\ renderDiffMatch(lockFile, finalDoc) /\ findAuditBypass(finalDoc) = {}
              /\ lockFile \in Lock
          BY <2>5, <3>2 DEF Judge, renderDiffMatch, HostTypeOK
        <4>2. <<lockFile, finalDoc>> \in
                {p \in Lock \X Lock :
                   renderDiffMatch(p[1], p[2]) /\ findAuditBypass(p[2]) = {}}
          BY <3>1, <4>1
        <4>3. exitCode' = 0
          BY <2>5, <3>2 DEF Judge
        <4> QED
          BY <2>5, <3>1, <3>2, <4>2, <4>3 DEF Judge, Gate!GateNext, Gate!Accept
      <3>3. CASE ~trusted'
        <4>1. exitCode' = 1
          BY <2>5, <3>3 DEF Judge
        <4> QED
          BY <2>5, <3>1, <3>3, <4>1 DEF Judge, Gate!GateNext, Gate!Drift
      <3> QED
        BY <3>2, <3>3
    <2>6. CASE HostPart1
      BY <2>6 DEF HostPart1, afterPart1, Finish, HostOrder, Gate!GateNext, Gate!gateVars,
         Gate!EndWithoutScripts
    <2>7. CASE HostPart2
      BY <2>7 DEF HostPart2, HostOrder, Gate!GateNext, Gate!RunScripts
    <2>8. CASE \/ StartAudit \/ SelectBackend \/ LaunchBackend \/ DialVsock \/ RecvFetchDone
               \/ DisconnectFails \/ RecvOther \/ RecvFatal \/ RecvFinal \/ RecvEof
               \/ ChildExited \/ Cleanup
      <3>1. Unseen
        BY <2>8 DEF Unseen, HostPcs, hostVars, Receive, LeaveLoop, StartAudit, SelectBackend,
           LaunchBackend, VmBoots, DockerRuns, BareRuns, DialVsock, RecvFetchDone, DisconnectFails, RecvOther, RecvFatal,
           RecvFinal, RecvEof, ChildExited, Cleanup
      <3> QED
        BY <3>1, UnseenIsStutter
    <2>9. CASE GuestNext \/ GuestCrash \/ Terminated \/ UNCHANGED vars
      <3>1. Unseen
        BY <2>9, GuestLeavesHost DEF Terminated, vars, hostVars, Unseen
      <3> QED
        BY <3>1, UnseenIsStutter
    <2> QED
      BY <2>1, <2>2, <2>3, <2>4, <2>5, <2>6, <2>7, <2>8, <2>9 DEF Next, HostNext
  <1> QED
    BY <1>1, <1>2, IInvInductive, PTL DEF Spec

-----------------------------------------------------------------------------
(* What is held, and the network, neither of which the verdict depends on. *)

\* Nothing is made before the audit starts; the scratch directory is held all through it; and
\* from the verdict on, a copy bare could not remove has made the session throw.
HeldOnlyInside ==
    /\ hpc = "start" => held = {} /\ backend = "none"
    /\ hpc \notin {"start", "verdict", "part1", "part2", "done"} => "scratch" \in held
    /\ hpc \notin {"part1", "part2", "done"} => exitCode = Running
    /\ hpc = "verdict" /\ backend = "bare" /\ "staged" \in inp.stuck => fatalError
    /\ LeftoversExplained

\* Only the steps of an audit make and remove what is held.
LEMMA HeldStep == HeldOnlyInside /\ [Next]_vars => HeldOnlyInside'
  <1> SUFFICES ASSUME HeldOnlyInside, [Next]_vars PROVE HeldOnlyInside'
    OBVIOUS
  <1> USE DEF HeldOnlyInside, LeftoversExplained, Running
  <1>1. CASE HostNext
    <2>1. CASE SkipBun \/ RefuseInstall \/ StartAudit
      BY <2>1 DEF SkipBun, RefuseInstall, StartAudit, Finish
    <2>2. CASE SelectBackend
      BY <2>2 DEF SelectBackend, onBackendSelected
    <2>3. CASE NoBackendLeft
      BY <2>3 DEF NoBackendLeft, Abort, heldAfterCleanup, Finish
    <2>4. CASE BackendUnavailable
      BY <2>4 DEF BackendUnavailable, Abort, heldAfterCleanup, Finish
    <2>5. CASE LaunchFails
      BY <2>5 DEF LaunchFails, Abort, heldAfterCleanup, Finish
    <2>6. CASE LaunchBackend \/ DialVsock
      BY <2>6 DEF LaunchBackend, VmBoots, DockerRuns, BareRuns, DialVsock
    <2>7. CASE RecvFetchDone \/ DisconnectFails \/ RecvOther
      BY <2>7 DEF RecvFetchDone, DisconnectFails, RecvOther, Receive, hostVars
    <2>8. CASE RecvFatal \/ RecvFinal \/ RecvEof \/ ChildExited
      BY <2>8 DEF RecvFatal, RecvFinal, RecvEof, ChildExited, Receive, LeaveLoop
    <2>9. CASE Cleanup
      <3>1. /\ hpc' = "verdict" /\ exitCode' = -1 /\ "scratch" \in held
            /\ UNCHANGED <<inp, backend>>
        BY <2>9 DEF Cleanup
      <3>2. held' \subseteq inp.stuck
        BY <2>9, <3>1 DEF Cleanup, heldAfterCleanup
      <3>3. "staged" \in held' /\ backend # "firecracker" => "scratch" \in held'
        BY <2>9, <3>1 DEF Cleanup, heldAfterCleanup
      <3>4. backend = "bare" /\ "staged" \in inp.stuck => fatalError'
        BY <2>9, Zenon DEF Cleanup, cleanupThrows
      <3> QED
        BY <3>1, <3>2, <3>3, <3>4
    <2>10. CASE SessionThrows
      BY <2>10 DEF SessionThrows, Finish
    <2>12. CASE WriteLock
      <3>1. backend = "bare" => "staged" \notin inp.stuck
        BY <2>12, Zenon DEF WriteLock
      <3>2. /\ hpc = "verdict" /\ hpc' = "done" /\ UNCHANGED <<inp, backend, held>>
        BY <2>12 DEF WriteLock, Finish
      <3> QED
        BY <3>1, <3>2
    <2>13. CASE Judge
      <3>1. backend = "bare" => "staged" \notin inp.stuck
        BY <2>13, Zenon DEF Judge
      <3>2. /\ hpc = "verdict" /\ hpc' \in {"part1", "done"} /\ UNCHANGED <<inp, backend, held>>
        BY <2>13 DEF Judge
      <3> QED
        BY <3>1, <3>2
    <2>11. CASE HostPart1 \/ HostPart2
      BY <2>11 DEF HostPart1, afterPart1, HostPart2, Finish
    <2> QED
      BY <1>1, <2>1, <2>2, <2>3, <2>4, <2>5, <2>6, <2>7, <2>8, <2>9, <2>10, <2>11, <2>12,
         <2>13 DEF HostNext
  <1>2. CASE UNCHANGED hostVars
    BY <1>2 DEF hostVars, HeldOnlyInside, LeftoversExplained
  <1> QED
    BY <1>1, <1>2, GuestLeavesHost DEF Next, Terminated, vars

\* Whichever way the session ended, what runAudit's and the backend's finally leave at main()'s
\* verdict is only what could not be removed, and a copy bare could not remove is no pass.
THEOREM LeftoversExplainedHolds == Spec => []LeftoversExplained
  <1>1. Init => HeldOnlyInside
    BY DEF Init, HeldOnlyInside, LeftoversExplained, Running
  <1>2. HeldOnlyInside => LeftoversExplained
    BY DEF HeldOnlyInside
  <1> QED
    BY <1>1, <1>2, HeldStep, PTL DEF Spec

\* The agent may run scripts now, or has run some.
InPhaseB == gpc \in {"install", "installed", "prepare", "judge"} \/ ran # {}

\* What cuts the network on each backend: Docker's host before it writes `go`, bare's `unshare`
\* as it arrives, the dropped eth0 or the probe on Firecracker.
OfflineInv ==
    /\ gpc # "none" => backend # "none"
    /\ hpc \in {"start", "select", "launch"} => toGuest = <<>>
    /\ gpc \in {"none", "boot", "fetch", "waitGo", "dropEth0", "verify"} => ran = {}
    /\ dropped => net = "down"
    /\ backend = "docker" /\ toGuest # <<>> => net = "down"
    /\ (InPhaseB \/ gpc \in {"dropEth0", "verify"}) /\ backend # "firecracker" => net = "down"
    /\ InPhaseB /\ net = "up" => backend = "firecracker" /\ probe \in {"error", "hang"}

\* The host chooses its backend before there is an agent, and cuts Docker's network itself.
LEMMA OfflineHostStep == IInv /\ OfflineInv /\ HostNext => OfflineInv'
  <1> SUFFICES ASSUME IInv, OfflineInv, HostNext PROVE OfflineInv'
    OBVIOUS
  <1> USE DEF OfflineInv, InPhaseB
  <1>1. CASE SelectBackend
    <2>1. gpc = "none" /\ toGuest = <<>> /\ hpc' = "launch"
      BY <1>1 DEF SelectBackend, IInv, NoAgentYet
    <2>2. UNCHANGED <<gpc, ran, toGuest, net, dropped, probe>>
      BY <1>1 DEF SelectBackend, guestVars, chanVars, netVars
    <2> QED BY <2>1, <2>2
  <1>2. CASE LaunchBackend
    <2>1. gpc = "none" /\ backend # "none"
      BY <1>2 DEF LaunchBackend, VmBoots, DockerRuns, BareRuns, IInv, NoAgentYet, HostOrder
    <2> QED BY <1>2, <2>1 DEF LaunchBackend, VmBoots, DockerRuns, BareRuns, netVars
  <1>3. CASE DialVsock
    BY <1>3 DEF DialVsock, netVars
  <1>4. CASE RecvFetchDone
    BY <1>4 DEF RecvFetchDone, Receive, hostVars, guestVars, IInv, TypeOK, NetTypeOK
  <1>5. CASE Cleanup
    BY <1>5 DEF Cleanup, netVars, IInv, HostOrder
  <1>6. CASE BackendUnavailable
    BY <1>6 DEF BackendUnavailable, Abort, Finish, guestVars, chanVars, netVars
  <1>7. CASE StartAudit
    BY <1>7 DEF StartAudit, guestVars, chanVars, netVars
  <1>8. CASE SkipBun
    BY <1>8 DEF SkipBun, Finish, guestVars, chanVars, netVars
  <1>9. CASE RefuseInstall
    BY <1>9 DEF RefuseInstall, Finish, guestVars, chanVars, netVars
  <1>10. CASE NoBackendLeft
    BY <1>10 DEF NoBackendLeft, Abort, Finish, guestVars, chanVars, netVars
  <1>11. CASE LaunchFails
    BY <1>11 DEF LaunchFails, Abort, Finish, guestVars, chanVars, netVars
  <1>12. CASE RecvOther
    BY <1>12 DEF RecvOther, Receive, hostVars, guestVars, chanVars, netVars
  <1>13. CASE RecvFatal
    BY <1>13 DEF RecvFatal, Receive, LeaveLoop, guestVars, chanVars, netVars
  <1>14. CASE RecvFinal
    BY <1>14 DEF RecvFinal, Receive, LeaveLoop, guestVars, chanVars, netVars
  <1>15. CASE RecvEof
    BY <1>15 DEF RecvEof, LeaveLoop, guestVars, chanVars, netVars
  <1>16. CASE ChildExited
    BY <1>16 DEF ChildExited, guestVars, chanVars, netVars
  <1>17. CASE SessionThrows
    BY <1>17 DEF SessionThrows, Finish, guestVars, chanVars, netVars
  <1>18. CASE WriteLock
    BY <1>18 DEF WriteLock, Finish, guestVars, chanVars, netVars
  <1>19. CASE Judge
    BY <1>19 DEF Judge, guestVars, chanVars, netVars
  <1>20. CASE HostPart1
    BY <1>20 DEF HostPart1, afterPart1, Finish, guestVars, chanVars, netVars
  <1>21. CASE HostPart2
    BY <1>21 DEF HostPart2, guestVars, chanVars, netVars
  <1>22. CASE DisconnectFails
    BY <1>22 DEF DisconnectFails, Receive, guestVars, chanVars, netVars
  <1> QED
    BY <1>1, <1>2, <1>3, <1>4, <1>5, <1>6, <1>7, <1>8, <1>9, <1>10, <1>11, <1>12, <1>13, <1>14, <1>15, <1>16, <1>17, <1>18, <1>19, <1>20, <1>21, <1>22
       DEF HostNext

\* `go` has been written before the agent goes on, and a script only runs past the probe.
LEMMA OfflineGuestStep == IInv /\ OfflineInv /\ (GuestNext \/ GuestCrash) => OfflineInv'
  <1> SUFFICES ASSUME IInv, OfflineInv, GuestNext \/ GuestCrash PROVE OfflineInv'
    OBVIOUS
  <1>0. UNCHANGED <<hpc, backend>>
    BY GuestLeavesHost DEF hostVars
  <1> USE <1>0 DEF OfflineInv, InPhaseB
  <1>1. CASE WaitForGo
    <2>1. toGuest \in Seq({"go"}) /\ toGuest # <<>> /\ backend \in Backends
      BY <1>1 DEF WaitForGo, IInv, TypeOK, StreamTypeOK, HostTypeOK
    <2>2. hpc \notin {"start", "select", "launch"}
      BY <2>1
    <2> QED BY <1>1, <2>1, <2>2 DEF WaitForGo, StartPhaseB, Backends
  <1>2. CASE DropEth0
    BY <1>2 DEF DropEth0
  <1>3. CASE VerifyOffline
    <2>1. net = "up" /\ gpc' = "install" => backend = "firecracker" /\ probe' \in {"error", "hang"}
      BY <1>3, DnsAssumption DEF VerifyOffline, Die, verifyOfflineWithTimeout
    <2> QED BY <1>3, <2>1 DEF VerifyOffline, Die, StartPhaseB, IInv, TypeOK, NetTypeOK
  <1>4. CASE GuestCrash
    BY <1>4 DEF GuestCrash, netVars
  <1>5. CASE FetchFails
    BY <1>5 DEF FetchFails, Die, chanVars, netVars
  <1>6. CASE FetchDone
    BY <1>6 DEF FetchDone, chanVars, netVars
  <1>7. CASE GoNeverCame
    BY <1>7 DEF GoNeverCame, Die, chanVars, netVars
  <1>8. CASE AgentRefuses
    BY <1>8 DEF AgentRefuses, PrepareRefuses, Die, chanVars, netVars
  <1>9. CASE RunScript
    BY <1>9 DEF RunScript, TraceScript, chanVars, netVars
  <1>10. CASE InstallExits
    BY <1>10 DEF InstallExits, chanVars, netVars
  <1>11. CASE AfterInstall
    BY <1>11 DEF AfterInstall, resolvePrepareCommand, Die, chanVars, netVars
  <1>12. CASE RunPrepare
    BY <1>12 DEF RunPrepare, Die, TraceScript, chanVars, netVars
  <1>13. CASE EmitFinal
    BY <1>13 DEF EmitFinal, Die, chanVars, netVars
  <1>14. CASE GuestExit
    BY <1>14 DEF GuestExit, chanVars, netVars
  <1> QED
    BY <1>1, <1>2, <1>3, <1>4, <1>5, <1>6, <1>7, <1>8, <1>9, <1>10, <1>11, <1>12, <1>13, <1>14
       DEF GuestNext

\* No lifecycle script runs with the network up, but on Firecracker when eth0 could not be
\* dropped and the probe got no positive answer.
THEOREM PhaseBOfflineHolds == Spec => []PhaseBOfflineUnlessMasked
  <1>1. Init => OfflineInv
    BY DEF Init, OfflineInv, InPhaseB
  <1>2. IInv /\ OfflineInv /\ [Next]_vars => OfflineInv'
    <2> SUFFICES ASSUME IInv, OfflineInv, [Next]_vars PROVE OfflineInv'
      OBVIOUS
    <2>1. CASE UNCHANGED vars
      BY <2>1 DEF vars, hostVars, guestVars, chanVars, netVars, OfflineInv, InPhaseB
    <2> QED
      BY <2>1, OfflineHostStep, OfflineGuestStep DEF Next, Terminated
  <1>3. OfflineInv => PhaseBOfflineUnlessMasked
    BY DEF OfflineInv, InPhaseB, PhaseBOfflineUnlessMasked
  <1> QED
    BY <1>1, <1>2, <1>3, IInvInductive, PTL DEF Spec
=============================================================================
