---------------------------- MODULE VmHostProofs ----------------------------
(***************************************************************************)
(* Proofs about the two hosts of a VM.                                     *)
(*                                                                         *)
(* LocalVm: however often the guest boots and whatever it says, spawnVm    *)
(* leaves nothing behind, and a helper that ended well without an answer   *)
(* was interrupted or its guest had powered itself off.  A result is that  *)
(* of one whole boot.                                                      *)
(*                                                                         *)
(* FirecrackerFetch: however the tarball is cut into chunks, its entry is  *)
(* extracted whole or not at all, and whatever the directory holds and     *)
(* another run does to it, a run starts the pinned binary and kernel only, *)
(* and unless it is a self-test the pinned image.                          *)
(***************************************************************************)
EXTENDS LocalVm, FirecrackerFetch, FiniteSetTheorems, SequenceTheorems, TLAPS

-----------------------------------------------------------------------------
(* LocalVm.                                                                *)

\* A helper with nothing more to say: what it ended with is in the pipe, or it has stopped.
HasAnswer ==
    fatalError \/ finalYaml # 0 \/ \E i \in DOMAIN stdout : Terminal(stdout[i])

\* What is in the queues.
QueueInv ==
    /\ boot \in 0..MaxBoots /\ vm \in {"off", "on", "powered off", "failed", "forced"}
    /\ helper \in {"none", "starting", "running", "stopping", "exited", "killed"}
    /\ cli \in {"start", "frames", "go", "exit", "settled", "died"}
    /\ tcp \in Seq(Frame) /\ vsock \in [Boots -> Seq(Frame)]
    /\ frames \in Seq(Frame) /\ stdout \in Seq(Frame)
    /\ reasons \in Seq({"GuestStopped", "VzError"})

\* Which processes there are while spawnVm is at each of its steps.
StageInv ==
    /\ cli = "start" => helper = "none" /\ tmpDir = "none"
    /\ Alive => cli \in {"frames", "go", "exit", "died"}
    /\ cli = "settled" => ~Alive /\ (tmpDir = "there" => outcome = "unwritten")
    /\ helper \in {"none", "starting"} => vm = "off" /\ boot = 0 /\ agent = "none" /\ reasons = <<>>
    /\ vm = "on" => helper \in {"running", "stopping"} /\ boot # 0
    /\ cli = "exit" => fatalError \/ finalYaml # 0 \/ (stdout = <<>> /\ Gone)

\* A reason is sent for a stop that has happened.
ReasonInv == (\E i \in DOMAIN reasons : reasons[i] = "GuestStopped") => vm = "powered off"

\* Why a helper ends with what it ends with.
CodeInv ==
    /\ helper \in {"stopping", "exited"} => code \in {"ok", "vz", "usage"}
    /\ helper \in {"stopping", "exited"} /\ code = "ok" => HasAnswer \/ vm = "powered off"
    /\ helper = "killed" => signalled \/ cli = "settled"

\* The invariant.
VmInv == QueueInv /\ StageInv /\ ReasonInv /\ CodeInv /\ CleanExitExplained

\* The frames of one boot keep their order, within a queue and from one queue to the next.
Sorted(q) == \A i, j \in DOMAIN q : i < j /\ q[i].boot = q[j].boot => q[i].n < q[j].n
Precede(A, B) == \A f \in A, g \in B : f.boot = g.boot => f.n < g.n

InVsock == UNION {Range(vsock[b]) : b \in Boots}
\* What is on its way to the main loop of the helper, and to the CLI.
Upstream == InVsock \cup Range(tcp)
Queued == Range(stdout) \cup Range(frames) \cup Upstream

FlowType ==
    /\ sent \in [Boots -> Seq(Frame)] /\ warnings \in Seq(Frame) /\ finalYaml \in 0..MaxBoots
    /\ \A b \in Boots : \A f \in Range(vsock[b]) : f.boot = b
    /\ \A f \in Range(tcp) : f.boot = boot

\* A frame is one its agent has written, at its place.
GenuineInv ==
    /\ \A f \in Queued \cup Range(warnings) : f.n \in DOMAIN sent[f.boot] /\ sent[f.boot][f.n] = f
    /\ \A b \in Boots : \A i \in DOMAIN sent[b] : sent[b][i].boot = b /\ sent[b][i].n = i

OrderInv ==
    /\ Sorted(warnings) /\ Sorted(stdout) /\ Sorted(frames) /\ Sorted(tcp)
    /\ \A b \in Boots : Sorted(vsock[b])
    /\ Precede(Range(warnings), Queued)
    /\ Precede(Range(stdout), Range(frames) \cup Upstream)
    /\ Precede(Range(frames), Upstream)
    /\ Precede(InVsock, Range(tcp))

\* What is lost on the way is the end of what a boot has said: no warning before a frame that is
\* on its way is missing.
NoGapInv ==
    /\ \A g \in Queued : \A w \in sentBy(g.boot, "warning") :
          w.n < g.n => w \in Queued \cup Range(warnings)
    /\ vm = "on" /\ agent # "panic" => sentBy(boot, "warning") \subseteq Queued \cup Range(warnings)

\* A final frame is the last of an agent that was told to install.
AgentInv ==
    /\ \A b \in Boots : b > boot => sent[b] = <<>>
    /\ \A b \in Boots : \A i \in DOMAIN sent[b] : sent[b][i].kind = "final" =>
          /\ i = Len(sent[b]) /\ b \in gos
          /\ b = boot => agent \in {"closing", "exited", "panic"}
    /\ agent \in {"installing", "closing"} => boot \in gos
    /\ agent \in {"none", "panic"} => tcp = <<>>

\* The CLI stops reading at a final frame.
CollectedInv ==
    /\ cli \in {"start", "frames", "go"} => finalYaml = 0
    /\ outcome = "result" => finalYaml # 0
    /\ finalYaml # 0 =>
          /\ sentBy(finalYaml, "final") = {sent[finalYaml][Len(sent[finalYaml])]}
          /\ sentBy(finalYaml, "warning") \subseteq Range(warnings)

FlowInv == FlowType /\ GenuineInv /\ OrderInv /\ NoGapInv /\ AgentInv /\ CollectedInv

-----------------------------------------------------------------------------

\* A queue without its head: what is left moves up by one.
LEMMA TailFacts ==
    ASSUME NEW S, NEW s \in Seq(S), s # <<>>
    PROVE  /\ Head(s) \in S /\ Head(s) = s[1] /\ 1 \in DOMAIN s /\ Tail(s) \in Seq(S)
           /\ \A i \in DOMAIN s : i # 1 => i - 1 \in DOMAIN Tail(s) /\ Tail(s)[i - 1] = s[i]
           /\ \A i \in DOMAIN Tail(s) : i + 1 \in DOMAIN s /\ Tail(s)[i] = s[i + 1]
<1>1. /\ Tail(s) \in Seq(S) /\ Len(Tail(s)) = Len(s) - 1
      /\ \A i \in 1..Len(Tail(s)) : Tail(s)[i] = s[i + 1]
  BY HeadTailProperties
<1>2. DOMAIN Tail(s) = 1..Len(Tail(s))
  BY <1>1, LenProperties
<1>3. DOMAIN s = 1..Len(s) /\ Len(s) \in Nat \ {0}
  BY LenProperties, EmptySeq
<1>4. Head(s) \in S /\ Head(s) = s[1]
  BY HeadTailProperties
<1> QED BY <1>1, <1>2, <1>3, <1>4

\* A queue with one more at its end.
LEMMA AppendFacts ==
    ASSUME NEW S, NEW s \in Seq(S), NEW e \in S
    PROVE  /\ Append(s, e) \in Seq(S) /\ Len(s) + 1 \in DOMAIN Append(s, e)
           /\ Append(s, e)[Len(s) + 1] = e
           /\ \A i \in DOMAIN s : i \in DOMAIN Append(s, e) /\ Append(s, e)[i] = s[i]
           /\ \A i \in DOMAIN Append(s, e) : i \in DOMAIN s \/ i = Len(s) + 1
<1>1. /\ Append(s, e) \in Seq(S) /\ Len(Append(s, e)) = Len(s) + 1
      /\ \A i \in 1..Len(s) : Append(s, e)[i] = s[i]
      /\ Append(s, e)[Len(s) + 1] = e
  BY AppendProperties
<1>2. DOMAIN Append(s, e) = 1..Len(Append(s, e))
  BY <1>1, LenProperties
<1>3. DOMAIN s = 1..Len(s) /\ Len(s) \in Nat
  BY LenProperties
<1> QED BY <1>1, <1>2, <1>3

\* What a broken connection leaves of a queue.
LEMMA PrefixFacts ==
    ASSUME NEW S, NEW s \in Seq(S), NEW n \in 0..Len(s)
    PROVE  SubSeq(s, 1, n) \in Seq(S)
<1>1. DOMAIN s = 1..Len(s) /\ Len(s) \in Nat /\ s \in [1..Len(s) -> S]
  BY LenProperties
<1>2. \A i \in 1..n : s[i] \in S
  BY <1>1
<1> QED BY <1>1, <1>2, SubSeqProperties

\* An empty queue has no places.
LEMMA EmptyFacts == DOMAIN <<>> = {}
  OBVIOUS

\* A frame names a boot that was one.
LEMMA FrameBoot == \A f \in Frame : f.boot # 0
  BY DEF Frame, Boots

\* Nothing runs yet.
LEMMA InitVm == Init => VmInv
  BY BoundsAssumption DEF Init, VmInv, QueueInv, StageInv, ReasonInv, CodeInv, CleanExitExplained, HasAnswer, Alive, Gone, Terminal, Frame, Kinds, Boots

\* What a step that only moves frames has to show.
LEMMA FramesMove ==
    ASSUME VmInv, QueueInv', boot # 0 => boot' # 0,
           helper \in {"none", "starting"} => boot' = boot /\ agent' = agent,
           UNCHANGED <<vm, helper, code, reasons, stdout, cli, finalYaml, fatalError, outcome, tmpDir,
                         signalled>>
    PROVE  VmInv'
<1>1. StageInv'
  BY DEF VmInv, StageInv, Alive, Gone
<1>2. ReasonInv'
  BY DEF VmInv, ReasonInv
<1>3. CodeInv'
  BY DEF VmInv, CodeInv, HasAnswer, Terminal
<1>4. CleanExitExplained'
  BY DEF VmInv, CleanExitExplained
<1> QED BY <1>1, <1>2, <1>3, <1>4 DEF VmInv

\* A frame the agent has written.
LEMMA EmitKeepsVm ==
    ASSUME VmInv, FlowType, NEW kind \in Kinds, NEW next, Emit(kind, next)
    PROVE  VmInv'
<1> DEFINE f == [kind |-> kind, boot |-> boot, n |-> Len(sent[boot]) + 1]
<1>1. boot \in Boots
  BY BoundsAssumption DEF VmInv, QueueInv, StageInv, Emit, Guest, Boots
<1>6. Len(sent[boot]) \in Nat
  BY <1>1, LenProperties DEF FlowType
<1>2. f \in Frame
  BY <1>1, <1>6 DEF Frame
<1>3. tcp' \in Seq(Frame)
  <2>1. tcp \in Seq(Frame) /\ tcp' = Append(tcp, f)
    BY DEF VmInv, QueueInv, Emit
  <2> QED BY <1>2, <2>1, AppendProperties
<1>4. UNCHANGED <<vm, helper, code, reasons, stdout, cli, finalYaml, fatalError, outcome, tmpDir,
                         signalled>>
  BY DEF Emit, Guest, lineVars, cliVars
<1>5. QueueInv'
  BY <1>3, <1>4 DEF VmInv, QueueInv, Emit, Guest, lineVars
<1> QED BY <1>4, <1>5, FramesMove DEF Emit, Guest

\* The guest.
LEMMA GuestKeepsVm == VmInv /\ FlowType /\ GuestStep => VmInv'
<1> SUFFICES ASSUME VmInv, FlowType, GuestStep PROVE VmInv'
  OBVIOUS
<1> USE BoundsAssumption DEF VmInv, QueueInv, StageInv, ReasonInv, CodeInv, CleanExitExplained, HasAnswer, Alive, Gone, Terminal, Boots, Guest, Emit, lineVars, cliVars
<1>1. CASE should_accept
  BY <1>1 DEF should_accept
<1>2. CASE EmitWarning
  BY <1>2, EmitKeepsVm DEF EmitWarning, Kinds
<1>3. CASE EmitFetchDone
  BY <1>3, EmitKeepsVm DEF EmitFetchDone, Kinds
<1>4. CASE EmitFatal
  BY <1>4, EmitKeepsVm DEF EmitFatal, Kinds
<1>5. CASE EmitFinal
  BY <1>5, EmitKeepsVm DEF EmitFinal, Kinds
<1>6. CASE RenderFails
  BY <1>6, EmitKeepsVm DEF RenderFails, Kinds
<1>7. CASE ReadGo
  BY <1>7 DEF ReadGo
<1>8. CASE flushAndExit
  BY <1>8 DEF flushAndExit
<1>9. CASE close
  BY <1>9 DEF close
<1>10. CASE AgentDies
  BY <1>10 DEF AgentDies
<1>11. CASE Socat
  <2>1. boot \in Boots
    BY <1>11 DEF Socat
  <2>2. Head(tcp) \in Frame /\ Tail(tcp) \in Seq(Frame)
    <3>1. tcp \in Seq(Frame) /\ tcp # <<>>
      BY <1>11 DEF Socat
    <3> QED BY <3>1, HeadTailProperties
  <2>3. Append(vsock[boot], Head(tcp)) \in Seq(Frame)
    <3>1. vsock[boot] \in Seq(Frame)
      BY <2>1
    <3> QED BY <3>1, <2>2, AppendProperties
  <2>4. QueueInv'
    BY <1>11, <2>2, <2>3 DEF Socat
  <2> QED BY <1>11, <2>4, FramesMove DEF Socat
<1>12. CASE cleanup
  <2>1. QueueInv'
    BY <1>12 DEF cleanup
  <2> QED BY <1>12, <2>1, FramesMove DEF cleanup
<1>13. CASE Reboot
  <2>1. boot' \in 0..MaxBoots /\ boot' # 0
    BY <1>13 DEF Reboot
  <2>2. QueueInv'
    BY <1>13, <2>1 DEF Reboot
  <2> QED BY <1>13, <2>1, <2>2, FramesMove DEF Reboot
<1>14. CASE GuestStops
  <2>1. boot \in Boots /\ vm = "on" /\ boot' = boot /\ tcp' = <<>>
    <3>1. vm = "on" /\ boot' = boot /\ tcp' = <<>>
      BY <1>14 DEF GuestStops
    <3> QED BY <3>1
  <2>2. vsock' \in [Boots -> Seq(Frame)]
    <3>1. PICK n \in 0..Len(vsock[boot]) : vsock' = [vsock EXCEPT ![boot] = SubSeq(@, 1, n)]
      BY <1>14 DEF GuestStops
    <3>2. SubSeq(vsock[boot], 1, n) \in Seq(Frame)
      <4>1. vsock[boot] \in Seq(Frame)
        BY <2>1
      <4> QED BY <3>1, <4>1, PrefixFacts
    <3> QED BY <2>1, <3>1, <3>2
  <2>9. /\ reasons' \in Seq({"GuestStopped", "VzError"})
        /\ vm' \in {"powered off", "failed"}
        /\ \A i \in DOMAIN reasons' : reasons'[i] = "GuestStopped" => vm' = "powered off"
    <3>1. PICK why \in {"GuestStopped", "VzError"} :
            /\ reasons' = Append(reasons, why)
            /\ vm' = IF why = "GuestStopped" THEN "powered off" ELSE "failed"
      BY <1>14 DEF GuestStops
    <3>2. \A i \in DOMAIN reasons : reasons[i] # "GuestStopped"
      BY <2>1
    <3>3. reasons \in Seq({"GuestStopped", "VzError"})
      OBVIOUS
    <3>4. /\ reasons' \in Seq({"GuestStopped", "VzError"}) /\ reasons'[Len(reasons) + 1] = why
          /\ \A i \in DOMAIN reasons : reasons'[i] = reasons[i]
          /\ \A i \in DOMAIN reasons' : i \in DOMAIN reasons \/ i = Len(reasons) + 1
      <4> DEFINE more == Append(reasons, why)
      <4> DEFINE Why == {"GuestStopped", "VzError"}
      <4>2. reasons \in Seq(Why) /\ why \in Why
        BY <3>1, <3>3
      <4> HIDE DEF Why, VmInv, HasAnswer
      <4>1. /\ more \in Seq(Why) /\ more[Len(reasons) + 1] = why
            /\ \A i \in DOMAIN reasons : more[i] = reasons[i]
            /\ \A i \in DOMAIN more : i \in DOMAIN reasons \/ i = Len(reasons) + 1
        BY <4>2, AppendFacts
      <4> QED BY <3>1, <4>1 DEF Why
    <3> QED BY <3>1, <3>2, <3>4
  <2>3. QueueInv'
    <3>1. UNCHANGED <<helper, cli, frames, stdout>>
      BY <1>14 DEF GuestStops
    <3> QED BY <2>1, <2>2, <2>9, <3>1, EmptySeq
  <2>4. StageInv'
    BY <1>14 DEF GuestStops
  <2>5. ReasonInv'
    BY <2>9
  <2>6. CodeInv' /\ CleanExitExplained'
    BY <1>14 DEF GuestStops
  <2> QED BY <2>3, <2>4, <2>5, <2>6
<1> QED
  BY <1>1, <1>2, <1>3, <1>4, <1>5, <1>6, <1>7, <1>8, <1>9, <1>10, <1>11, <1>12, <1>13, <1>14 DEF GuestStep

\* The main loop of script-jail-vm.
LEMMA HelperKeepsVm == VmInv /\ HelperStep => VmInv'
<1> SUFFICES ASSUME VmInv, HelperStep PROVE VmInv'
  OBVIOUS
<1> USE BoundsAssumption DEF VmInv, QueueInv, StageInv, ReasonInv, CodeInv, CleanExitExplained, HasAnswer, Alive, Gone, Terminal, Boots, Helper, Ends, ProcessEnds, cliVars, lineVars, goVars
<1>1. CASE ConfigRejected
  BY <1>1 DEF ConfigRejected
<1>2. CASE build_config
  BY <1>2 DEF build_config
<1>3. CASE StartFails
  BY <1>3 DEF StartFails
<1>4. CASE Starts
  <2>1. QueueInv'
    BY <1>4 DEF Starts
  <2>2. StageInv'
    BY <1>4 DEF Starts
  <2>3. ReasonInv' /\ CodeInv' /\ CleanExitExplained'
    BY <1>4 DEF Starts
  <2> QED BY <2>1, <2>2, <2>3
<1>5. CASE RelayFrame
  <2>1. Head(frames) \in Frame /\ Tail(frames) \in Seq(Frame)
    <3>1. frames \in Seq(Frame) /\ frames # <<>>
      BY <1>5 DEF RelayFrame
    <3> QED BY <3>1, HeadTailProperties
  <2>2. stdout' = Append(stdout, Head(frames)) /\ frames' = Tail(frames)
    BY <1>5 DEF RelayFrame, Forward
  <2>0. stdout \in Seq(Frame)
    OBVIOUS
  <2>8. /\ stdout' \in Seq(Frame) /\ Len(stdout) + 1 \in DOMAIN stdout'
        /\ stdout'[Len(stdout) + 1] = Head(frames)
        /\ \A i \in DOMAIN stdout : i \in DOMAIN stdout' /\ stdout'[i] = stdout[i]
    <3> HIDE DEF VmInv, HasAnswer
    <3> DEFINE more == Append(stdout, Head(frames))
    <3>1. /\ more \in Seq(Frame) /\ Len(stdout) + 1 \in DOMAIN more
          /\ more[Len(stdout) + 1] = Head(frames)
          /\ \A i \in DOMAIN stdout : i \in DOMAIN more /\ more[i] = stdout[i]
      BY <2>0, <2>1, AppendFacts
    <3> QED BY <2>2, <3>1
  <2>3. QueueInv'
    BY <1>5, <2>1, <2>2, <2>8 DEF RelayFrame, Forward
  <2>4. StageInv'
    BY <1>5, <2>2 DEF RelayFrame, Forward
  <2>5. Terminal(Head(frames)) => HasAnswer'
    BY <2>8
  <2>6. CodeInv'
    BY <1>5, <2>5, <2>8 DEF RelayFrame, Forward
  <2>7. ReasonInv' /\ CleanExitExplained'
    BY <1>5 DEF RelayFrame, Forward
  <2> QED BY <2>3, <2>4, <2>6, <2>7
<1>6. CASE TakeReason
  <2>7. reasons \in Seq({"GuestStopped", "VzError"}) /\ reasons # <<>>
    BY <1>6 DEF TakeReason
  <2>1. /\ Tail(reasons) \in Seq({"GuestStopped", "VzError"})
        /\ Head(reasons) = reasons[1] /\ 1 \in DOMAIN reasons
        /\ \A i \in DOMAIN Tail(reasons) : i + 1 \in DOMAIN reasons /\ Tail(reasons)[i] = reasons[i + 1]
    BY <2>7, TailFacts
  <2>2. QueueInv'
    BY <1>6, <2>1 DEF TakeReason
  <2>3. StageInv'
    BY <1>6 DEF TakeReason
  <2>4. ReasonInv'
    BY <1>6, <2>1 DEF TakeReason
  <2>5. CodeInv'
    BY <1>6, <2>1 DEF TakeReason
  <2>6. CleanExitExplained'
    BY <1>6 DEF TakeReason
  <2> QED BY <2>2, <2>3, <2>4, <2>5, <2>6
<1>7. CASE IdleTimeout
  BY <1>7 DEF IdleTimeout
<1>8. CASE stop
  <2>4. /\ tcp' = <<>> /\ vsock' = [b \in Boots |-> <<>>] /\ frames' = <<>> /\ reasons' = <<>>
        /\ vm' = IF vm = "on" THEN "forced" ELSE vm
        /\ UNCHANGED <<boot, cli, stdout>> /\ helper' = "exited"
    BY <1>8 DEF stop
  <2>1. QueueInv'
    BY <2>4, EmptySeq
  <2>2. StageInv'
    BY <1>8, <2>4 DEF stop
  <2>5. ReasonInv'
    BY <2>4, EmptyFacts
  <2>3. CodeInv' /\ CleanExitExplained'
    BY <1>8 DEF stop
  <2> QED BY <2>1, <2>2, <2>3, <2>5
<1> QED
  BY <1>1, <1>2, <1>3, <1>4, <1>5, <1>6, <1>7, <1>8 DEF HelperStep

\* Its stdin thread.
LEMMA StdinKeepsVm == VmInv /\ StdinStep => VmInv'
<1> SUFFICES ASSUME VmInv, StdinStep PROVE VmInv'
  OBVIOUS
<1> USE BoundsAssumption DEF VmInv, QueueInv, StageInv, ReasonInv, CodeInv, CleanExitExplained, HasAnswer, Alive, Gone, Terminal, Boots, Helper, cliVars, lineVars, helperVars
<1>1. CASE TakeWriter
  BY <1>1 DEF TakeWriter
<1>2. CASE post_go
  BY <1>2 DEF post_go
<1> QED
  BY <1>1, <1>2 DEF StdinStep

\* spawnVm.
LEMMA CliKeepsVm == VmInv /\ CliStep => VmInv'
<1> SUFFICES ASSUME VmInv, CliStep PROVE VmInv'
  OBVIOUS
<1> USE BoundsAssumption DEF VmInv, QueueInv, StageInv, ReasonInv, CodeInv, CleanExitExplained, HasAnswer, Alive, Gone, Terminal, Boots, Cli, Running, Keeps, Kills, ProcessEnds, lineVars
<1>1. CASE Refuses
  BY <1>1 DEF Refuses
<1>2. CASE Spawns
  BY <1>2 DEF Spawns
<1>3. CASE SpawnFails
  BY <1>3 DEF SpawnFails
<1>9. CASE ConfigUnwritten
  BY <1>9 DEF ConfigUnwritten
<1>10. CASE SpawnThrows
  BY <1>10 DEF SpawnThrows, Settles
<1>4. CASE ReadFrame
  <2>9. stdout \in Seq(Frame) /\ stdout # <<>> /\ stdout' = Tail(stdout)
    BY <1>4 DEF ReadFrame
  <2>1. /\ stdout' = Tail(stdout) /\ Tail(stdout) \in Seq(Frame) /\ Head(stdout) \in Frame
        /\ Head(stdout) = stdout[1]
        /\ \A i \in DOMAIN stdout : i # 1 => i - 1 \in DOMAIN Tail(stdout) /\ Tail(stdout)[i - 1] = stdout[i]
    BY <2>9, TailFacts
  <2>0. Head(stdout).boot # 0
    BY <2>1, FrameBoot
  <2>2. Terminal(Head(stdout)) => fatalError' \/ finalYaml' # 0
    BY <1>4, <2>0 DEF ReadFrame, NextFrame
  <2>3. (fatalError => fatalError') /\ (finalYaml # 0 => finalYaml' # 0)
    BY <1>4, <2>0 DEF ReadFrame, NextFrame
  <2>4. HasAnswer => HasAnswer'
    BY <2>1, <2>2, <2>3
  <2>5. QueueInv'
    BY <1>4, <2>1 DEF ReadFrame
  <2>6. StageInv'
    BY <1>4, <2>2, <2>3 DEF ReadFrame, NextFrame
  <2>7. CodeInv'
    BY <1>4, <2>4 DEF ReadFrame
  <2>8. ReasonInv' /\ CleanExitExplained'
    BY <1>4 DEF ReadFrame
  <2> QED BY <2>5, <2>6, <2>7, <2>8
<1>5. CASE WriteGo
  BY <1>5 DEF WriteGo
<1>6. CASE WriteFails
  BY <1>6 DEF WriteFails, Settles
<1>7. CASE EndOfFrames
  BY <1>7 DEF EndOfFrames
<1>8. CASE HelperExit
  <2>1. ~Alive /\ Keeps /\ cli' = "settled" /\ outcome' = verdict /\ tmpDir' # "there"
    BY <1>8 DEF HelperExit, Settles
  <2>2. QueueInv'
    BY <1>8, <2>1 DEF HelperExit
  <2>3. StageInv' /\ ReasonInv'
    BY <1>8, <2>1 DEF HelperExit
  <2>4. CodeInv'
    BY <1>8, <2>1 DEF HelperExit
  <2>5. CleanExitExplained'
    <3> SUFFICES ASSUME outcome' = "unknown" PROVE signalled' \/ vm' = "powered off"
      OBVIOUS
    <3>1. ~fatalError /\ finalYaml = 0 /\ stdout = <<>>
      BY <1>8, <2>1 DEF HelperExit, verdict
    <3>2. ~HasAnswer
      <4>1. DOMAIN stdout = {}
        BY <3>1, EmptyFacts
      <4> QED BY <3>1, <4>1
    <3>3. helper = "killed" \/ (helper = "exited" /\ code = "ok")
      BY <1>8, <2>1, <3>1 DEF HelperExit, verdict
    <3> QED BY <1>8, <2>1, <3>2, <3>3 DEF HelperExit
  <2> QED BY <2>2, <2>3, <2>4, <2>5
<1> QED
  BY <1>1, <1>2, <1>3, <1>4, <1>5, <1>6, <1>7, <1>8, <1>9, <1>10 DEF CliStep

\* Every step keeps the invariant.
LEMMA NextKeepsVm == VmInv /\ FlowType /\ [Next]_vars => VmInv'
<1> SUFFICES ASSUME VmInv, FlowType, [Next]_vars PROVE VmInv'
  OBVIOUS
<1>1. CASE GuestStep
  BY <1>1, GuestKeepsVm
<1>2. CASE HelperStep
  BY <1>2, HelperKeepsVm
<1>3. ASSUME NEW b \in Boots, reader_loop(b) PROVE VmInv'
  <2> USE DEF reader_loop, Helper, cliVars, goVars
  <2>1. vsock[b] \in Seq(Frame) /\ vsock[b] # <<>> /\ frames \in Seq(Frame)
    BY <1>3 DEF VmInv, QueueInv
  <2>3. Head(vsock[b]) \in Frame /\ Tail(vsock[b]) \in Seq(Frame)
    BY <2>1, HeadTailProperties
  <2>4. Append(frames, Head(vsock[b])) \in Seq(Frame)
    BY <2>1, <2>3, AppendProperties
  <2>2. QueueInv'
    BY <1>3, <2>3, <2>4 DEF VmInv, QueueInv
  <2> QED BY <1>3, <2>2, FramesMove
<1>4. CASE StdinStep
  BY <1>4, StdinKeepsVm
<1>5. CASE CliStep
  BY <1>5, CliKeepsVm
<1>6. CASE onSignal
  <2> USE DEF VmInv, QueueInv, StageInv, ReasonInv, CodeInv, CleanExitExplained, HasAnswer, Alive, Gone, Terminal, Boots
  <2>4. /\ tcp' = <<>> /\ vsock' = [b \in Boots |-> <<>>] /\ frames' = <<>> /\ reasons' = <<>>
        /\ vm' = IF vm = "on" THEN "forced" ELSE vm
        /\ UNCHANGED <<boot, cli, stdout>> /\ helper' = "killed"
    BY <1>6 DEF onSignal, Cli, Kills, ProcessEnds
  <2>1. QueueInv'
    BY <2>4, EmptySeq
  <2>2. StageInv'
    BY <1>6, <2>4 DEF onSignal, Cli
  <2>5. ReasonInv'
    BY <2>4, EmptyFacts
  <2>3. CodeInv' /\ CleanExitExplained'
    BY <1>6 DEF onSignal, Cli, Kills, ProcessEnds
  <2> QED BY <2>1, <2>2, <2>3, <2>5
<1>7. CASE Done \/ UNCHANGED vars
  <2>1. UNCHANGED vars
    BY <1>7 DEF Done
  <2>2. QueueInv'
    BY <2>1 DEF vars, guestVars, lineVars, helperVars, cliVars, VmInv, QueueInv
  <2> QED BY <2>1, <2>2, FramesMove DEF vars, guestVars, helperVars, cliVars
<1> QED
  BY <1>1, <1>2, <1>3, <1>4, <1>5, <1>6, <1>7 DEF Next

-----------------------------------------------------------------------------
(* The way of the frames.                                                  *)

\* What is in a queue after one more, or one less.
LEMMA AppendRange ==
    ASSUME NEW S, NEW s \in Seq(S), NEW e \in S
    PROVE  Range(Append(s, e)) = Range(s) \cup {e}
<1>1. /\ \A i \in DOMAIN s : i \in DOMAIN Append(s, e) /\ Append(s, e)[i] = s[i]
      /\ \A i \in DOMAIN Append(s, e) : i \in DOMAIN s \/ i = Len(s) + 1
      /\ Len(s) + 1 \in DOMAIN Append(s, e) /\ Append(s, e)[Len(s) + 1] = e
  BY AppendFacts
<1> DEFINE more == Append(s, e)
<1> HIDE DEF more
<1>2. /\ \A i \in DOMAIN s : i \in DOMAIN more /\ more[i] = s[i]
      /\ \A i \in DOMAIN more : i \in DOMAIN s \/ i = Len(s) + 1
      /\ Len(s) + 1 \in DOMAIN more /\ more[Len(s) + 1] = e
  BY <1>1 DEF more
<1>3. Range(more) = Range(s) \cup {e}
  BY <1>2 DEF Range
<1> QED BY <1>3 DEF more

LEMMA TailRange ==
    ASSUME NEW S, NEW s \in Seq(S), s # <<>>
    PROVE  Range(s) = {Head(s)} \cup Range(Tail(s))
<1>1. /\ Head(s) = s[1] /\ 1 \in DOMAIN s
      /\ \A i \in DOMAIN s : i # 1 => i - 1 \in DOMAIN Tail(s) /\ Tail(s)[i - 1] = s[i]
      /\ \A i \in DOMAIN Tail(s) : i + 1 \in DOMAIN s /\ Tail(s)[i] = s[i + 1]
  BY TailFacts
<1> DEFINE less == Tail(s)
<1> HIDE DEF less
<1>2. /\ \A i \in DOMAIN s : i # 1 => i - 1 \in DOMAIN less /\ less[i - 1] = s[i]
      /\ \A i \in DOMAIN less : i + 1 \in DOMAIN s /\ less[i] = s[i + 1]
  BY <1>1 DEF less
<1>3. Range(s) = {s[1]} \cup Range(less)
  BY <1>1, <1>2 DEF Range
<1> QED BY <1>1, <1>3 DEF less

\* A frame that comes after all in a queue may be put at its end.
LEMMA AppendSorted ==
    ASSUME NEW s \in Seq(Frame), NEW e \in Frame, Sorted(s), Precede(Range(s), {e})
    PROVE  Sorted(Append(s, e))
<1>1. /\ \A i \in DOMAIN s : i \in DOMAIN Append(s, e) /\ Append(s, e)[i] = s[i]
      /\ \A i \in DOMAIN Append(s, e) : i \in DOMAIN s \/ i = Len(s) + 1
      /\ Append(s, e)[Len(s) + 1] = e
  BY AppendFacts
<1> DEFINE more == Append(s, e)
<1> HIDE DEF more
<1>2. /\ \A i \in DOMAIN s : more[i] = s[i]
      /\ \A i \in DOMAIN more : i \in DOMAIN s \/ i = Len(s) + 1
      /\ more[Len(s) + 1] = e
  BY <1>1 DEF more
<1>3. DOMAIN s = 1..Len(s) /\ Len(s) \in Nat
  BY LenProperties
<1>4. \A i \in DOMAIN s : s[i].boot = e.boot => s[i].n < e.n
  BY DEF Precede, Range
<1>5. ASSUME NEW i \in DOMAIN more, NEW j \in DOMAIN more, i < j, more[i].boot = more[j].boot
      PROVE  more[i].n < more[j].n
  <2>1. i \in DOMAIN s /\ more[i] = s[i]
    BY <1>2, <1>3, <1>5
  <2>2. CASE j \in DOMAIN s
    BY <1>2, <1>5, <2>1, <2>2 DEF Sorted
  <2>3. CASE j = Len(s) + 1
    BY <1>2, <1>4, <1>5, <2>1, <2>3
  <2> QED BY <1>2, <2>2, <2>3
<1>6. Sorted(more)
  BY <1>5 DEF Sorted
<1> QED BY <1>6 DEF more

\* The head of a queue comes before the rest.
LEMMA TailSorted ==
    ASSUME NEW s \in Seq(Frame), s # <<>>, Sorted(s)
    PROVE  Sorted(Tail(s)) /\ Precede({Head(s)}, Range(Tail(s)))
<1>1. /\ Head(s) = s[1] /\ 1 \in DOMAIN s /\ Tail(s) \in Seq(Frame)
      /\ \A i \in DOMAIN Tail(s) : i + 1 \in DOMAIN s /\ Tail(s)[i] = s[i + 1]
  BY TailFacts
<1>4. DOMAIN Tail(s) = 1..Len(Tail(s)) /\ Len(Tail(s)) \in Nat
  BY <1>1, LenProperties
<1> DEFINE less == Tail(s)
<1> HIDE DEF less
<1>2. \A i \in DOMAIN less : i \in Nat \ {0} /\ i + 1 \in DOMAIN s /\ less[i] = s[i + 1]
  BY <1>1, <1>4 DEF less
<1>3. Sorted(less) /\ Precede({s[1]}, Range(less))
  BY <1>1, <1>2 DEF Sorted, Precede, Range
<1> QED BY <1>1, <1>3 DEF less

\* A cut takes the end of a queue.
LEMMA PrefixSorted ==
    ASSUME NEW s \in Seq(Frame), NEW n \in 0..Len(s), Sorted(s)
    PROVE  /\ Sorted(SubSeq(s, 1, n)) /\ Range(SubSeq(s, 1, n)) \subseteq Range(s)
           /\ Precede(Range(SubSeq(s, 1, n)), Range(s) \ Range(SubSeq(s, 1, n)))
<1> DEFINE cut == SubSeq(s, 1, n)
<1>1. DOMAIN s = 1..Len(s) /\ Len(s) \in Nat /\ s \in [1..Len(s) -> Frame]
  BY LenProperties
<1>2. cut \in Seq(Frame) /\ Len(cut) = n /\ \A i \in 1..n : cut[i] = s[i]
  BY <1>1, SubSeqProperties
<1>3. DOMAIN cut = 1..n
  BY <1>2, LenProperties
<1> HIDE DEF cut
<1>4. Sorted(cut) /\ Range(cut) \subseteq Range(s)
  BY <1>1, <1>2, <1>3 DEF Sorted, Range
<1>5. ASSUME NEW f \in Range(cut), NEW g \in Range(s), g \notin Range(cut), f.boot = g.boot
      PROVE  f.n < g.n
  <2>1. PICK i \in DOMAIN cut : cut[i] = f
    BY DEF Range
  <2>2. PICK j \in DOMAIN s : s[j] = g
    BY DEF Range
  <2>3. j \notin DOMAIN cut
    BY <1>2, <1>3, <1>5, <2>2 DEF Range
  <2>4. i < j /\ i \in DOMAIN s /\ s[i] = f
    BY <1>1, <1>2, <1>3, <2>1, <2>2, <2>3
  <2> QED BY <1>5, <2>2, <2>4 DEF Sorted
<1>6. Precede(Range(cut), Range(s) \ Range(cut))
  BY <1>5 DEF Precede
<1> QED BY <1>4, <1>6 DEF cut

\* An empty queue.
LEMMA EmptyRange == Range(<<>>) = {} /\ Sorted(<<>>)
  BY EmptyFacts DEF Range, Sorted

\* The names of the queues.
LEMMA FlowFacts ==
    ASSUME VmInv, FlowInv
    PROVE  /\ tcp \in Seq(Frame) /\ frames \in Seq(Frame) /\ stdout \in Seq(Frame) /\ warnings \in Seq(Frame)
           /\ \A b \in Boots : vsock[b] \in Seq(Frame) /\ sent[b] \in Seq(Frame)
           /\ Queued \cup Range(warnings) \subseteq Frame
           /\ \A b \in Boots : sentBy(b, "warning") \subseteq Frame
<1>1. /\ tcp \in Seq(Frame) /\ frames \in Seq(Frame) /\ stdout \in Seq(Frame) /\ warnings \in Seq(Frame)
      /\ \A b \in Boots : vsock[b] \in Seq(Frame) /\ sent[b] \in Seq(Frame)
  BY DEF VmInv, QueueInv, FlowInv, FlowType
<1>2. /\ Range(tcp) \subseteq Frame /\ Range(frames) \subseteq Frame /\ Range(stdout) \subseteq Frame
      /\ Range(warnings) \subseteq Frame
      /\ \A b \in Boots : Range(vsock[b]) \subseteq Frame /\ Range(sent[b]) \subseteq Frame
  BY <1>1, RangeOfSeq
<1> QED BY <1>1, <1>2 DEF Queued, Upstream, InVsock, sentBy

\* A step that moves no frame and sends none.
LEMMA FlowStays ==
    ASSUME FlowInv, UNCHANGED <<tcp, vsock, frames, stdout, sent, warnings, finalYaml>>,
           boot' = boot \/ (boot \in Nat /\ boot' \in Nat /\ boot' > boot),
           gos \subseteq gos', agent' \in {"installing", "closing"} => boot' \in gos',
           boot # boot' => tcp = <<>> /\ agent' = "none",
           agent \in {"closing", "exited", "panic"} => agent' \in {"closing", "exited", "panic"} \/ boot # boot',
           agent' \in {"none", "panic"} => tcp = <<>>,
           vm' = "on" /\ agent' # "panic" =>
              sentBy(boot', "warning") \subseteq Queued \cup Range(warnings),
           cli' \in {"start", "frames", "go"} => cli \in {"start", "frames", "go"},
           outcome' = "result" => finalYaml # 0
    PROVE  FlowInv'
<1>1. FlowType'
  <2>1. \A f \in Range(tcp') : f.boot = boot'
    BY EmptyRange DEF FlowInv, FlowType
  <2> QED BY <2>1 DEF FlowInv, FlowType
<1>2. InVsock' = InVsock /\ Upstream' = Upstream /\ Queued' = Queued
  BY DEF InVsock, Upstream, Queued
<1>3. GenuineInv' /\ OrderInv'
  BY <1>2 DEF FlowInv, GenuineInv, OrderInv, Sorted, Precede
<1>4. \A b, k : sentBy(b, k)' = sentBy(b, k)
  BY DEF sentBy
<1>5. NoGapInv'
  BY <1>2, <1>4 DEF FlowInv, NoGapInv, sentBy
<1>6. AgentInv'
  <2>1. ASSUME NEW b \in Boots, NEW i \in DOMAIN sent[b], sent[b][i].kind = "final"
        PROVE  /\ i = Len(sent[b]) /\ b \in gos'
               /\ b = boot' => agent' \in {"closing", "exited", "panic"}
    <3>1. i = Len(sent[b]) /\ b \in gos'
      BY <2>1 DEF FlowInv, AgentInv
    <3>2. CASE boot' # boot
      <4>1. sent[b] # <<>>
        BY <2>1, EmptyFacts
      <4>2. ~(b > boot)
        BY <4>1 DEF FlowInv, AgentInv
      <4> QED BY <3>1, <3>2, <4>2 DEF Boots
    <3> QED BY <2>1, <3>1, <3>2 DEF FlowInv, AgentInv
  <2>2. \A b \in Boots : b > boot' => sent[b] = <<>>
    BY DEF FlowInv, AgentInv, Boots
  <2> QED BY <2>1, <2>2 DEF FlowInv, AgentInv
<1>7. CollectedInv'
  BY <1>4 DEF FlowInv, CollectedInv, sentBy
<1> QED BY <1>1, <1>3, <1>5, <1>6, <1>7 DEF FlowInv

\* A step that moves a frame to the next queue.
LEMMA FlowMoves ==
    ASSUME FlowInv, Queued' = Queued, FlowType', OrderInv', tcp = <<>> => tcp' = <<>>,
           UNCHANGED <<vm, boot, agent, sent, gos, warnings, finalYaml, cli, outcome>>
    PROVE  FlowInv'
<1>1. GenuineInv'
  BY DEF FlowInv, GenuineInv
<1>2. NoGapInv'
  BY DEF FlowInv, NoGapInv, sentBy
<1>3. AgentInv'
  BY DEF FlowInv, AgentInv
<1>4. CollectedInv'
  BY DEF FlowInv, CollectedInv, sentBy
<1> QED BY <1>1, <1>2, <1>3, <1>4 DEF FlowInv

\* Socat.
LEMMA SocatFlow == VmInv /\ FlowInv /\ Socat => FlowInv'
<1> SUFFICES ASSUME VmInv, FlowInv, Socat PROVE FlowInv'
  OBVIOUS
<1> DEFINE f == Head(tcp)
<1>1. /\ boot \in Boots /\ tcp \in Seq(Frame) /\ tcp # <<>> /\ vsock[boot] \in Seq(Frame)
      /\ tcp' = Tail(tcp) /\ vsock' = [vsock EXCEPT ![boot] = Append(@, f)]
      /\ vsock \in [Boots -> Seq(Frame)]
      /\ UNCHANGED <<vm, boot, agent, sent, gos, warnings, finalYaml, cli, outcome, frames, stdout>>
  <2>1. boot \in Boots
    BY DEF Socat, Guest, VmInv, QueueInv, StageInv, Boots
  <2> QED BY <2>1 DEF Socat, Guest, VmInv, QueueInv, cliVars
<1>2. f \in Frame
  BY <1>1, HeadTailProperties
<1>3. Range(tcp) = {f} \cup Range(tcp')
  BY <1>1, TailRange
<1>4. vsock'[boot] = Append(vsock[boot], f) /\ \A b \in Boots : b # boot => vsock'[b] = vsock[b]
  BY <1>1
<1>5. Range(vsock'[boot]) = Range(vsock[boot]) \cup {f}
  BY <1>1, <1>2, <1>4, AppendRange
<1>6. InVsock' = InVsock \cup {f}
  BY <1>1, <1>4, <1>5 DEF InVsock
<1>7. Upstream' = Upstream /\ Queued' = Queued
  BY <1>1, <1>3, <1>6 DEF Upstream, Queued
<1>8. Sorted(tcp') /\ Precede({f}, Range(tcp'))
  BY <1>1, TailSorted DEF FlowInv, OrderInv
<1>9. Sorted(vsock'[boot])
  <2>1. Precede(Range(vsock[boot]), {f})
    BY <1>1, <1>3 DEF FlowInv, OrderInv, Precede, InVsock
  <2> QED BY <1>1, <1>2, <1>4, <2>1, AppendSorted DEF FlowInv, OrderInv
<1>10. OrderInv'
  <2>1. Precede(InVsock', Range(tcp'))
    BY <1>3, <1>6, <1>8 DEF FlowInv, OrderInv, Precede
  <2>2. \A b \in Boots : Sorted(vsock'[b])
    BY <1>4, <1>9 DEF FlowInv, OrderInv
  <2> QED BY <1>1, <1>7, <1>8, <2>1, <2>2 DEF FlowInv, OrderInv
<1>11. FlowType'
  <2>1. \A g \in Range(tcp) : g.boot = boot
    BY DEF FlowInv, FlowType
  <2>2. \A b \in Boots : \A g \in Range(vsock'[b]) : g.boot = b
    BY <1>3, <1>4, <1>5, <2>1 DEF FlowInv, FlowType
  <2> QED BY <1>1, <1>3, <2>1, <2>2 DEF FlowInv, FlowType
<1> QED BY <1>1, <1>7, <1>10, <1>11, FlowMoves

\* The reader thread of a connection.
LEMMA ReaderFlow == ASSUME VmInv, FlowInv, NEW b \in Boots, reader_loop(b) PROVE FlowInv'
<1> DEFINE f == Head(vsock[b])
<1>1. /\ vsock[b] \in Seq(Frame) /\ vsock[b] # <<>> /\ frames \in Seq(Frame)
      /\ frames' = Append(frames, f) /\ vsock' = [vsock EXCEPT ![b] = Tail(@)]
      /\ vsock \in [Boots -> Seq(Frame)]
      /\ UNCHANGED <<vm, boot, agent, sent, gos, warnings, finalYaml, cli, outcome, tcp, stdout>>
  BY DEF reader_loop, Helper, VmInv, QueueInv, cliVars
<1>2. f \in Frame
  BY <1>1, HeadTailProperties
<1>3. vsock'[b] = Tail(vsock[b]) /\ \A c \in Boots : c # b => vsock'[c] = vsock[c]
  BY <1>1
<1>4. Range(vsock[b]) = {f} \cup Range(vsock'[b])
  BY <1>1, <1>3, TailRange
<1>5. Range(frames') = Range(frames) \cup {f}
  BY <1>1, <1>2, AppendRange
<1>6. InVsock = InVsock' \cup {f}
  BY <1>1, <1>3, <1>4 DEF InVsock
<1>7. Queued' = Queued /\ Upstream = Upstream' \cup {f}
  BY <1>1, <1>5, <1>6 DEF Upstream, Queued
<1>8. Sorted(vsock'[b]) /\ Precede({f}, Range(vsock'[b]))
  BY <1>1, <1>3, TailSorted DEF FlowInv, OrderInv
<1>9. \A c \in Boots : \A g \in Range(vsock[c]) : g.boot = c
  BY DEF FlowInv, FlowType
<1>10. Precede({f}, Upstream')
  <2>1. Precede({f}, InVsock')
    BY <1>3, <1>4, <1>8, <1>9 DEF Precede, InVsock
  <2>2. Precede({f}, Range(tcp))
    BY <1>6 DEF FlowInv, OrderInv, Precede
  <2> QED BY <1>1, <2>1, <2>2 DEF Precede, Upstream
<1>11. Sorted(frames')
  <2>1. Precede(Range(frames), {f})
    BY <1>7 DEF FlowInv, OrderInv, Precede
  <2> QED BY <1>1, <1>2, <2>1, AppendSorted DEF FlowInv, OrderInv
<1>12. OrderInv'
  <2>1. Precede(Range(frames'), Upstream')
    BY <1>5, <1>7, <1>10 DEF FlowInv, OrderInv, Precede
  <2>2. Precede(Range(stdout'), Range(frames') \cup Upstream')
    BY <1>1, <1>5, <1>7 DEF FlowInv, OrderInv, Precede
  <2>3. \A c \in Boots : Sorted(vsock'[c])
    BY <1>3, <1>8 DEF FlowInv, OrderInv
  <2>4. Precede(InVsock', Range(tcp'))
    BY <1>1, <1>6 DEF FlowInv, OrderInv, Precede
  <2> QED BY <1>1, <1>7, <1>11, <2>1, <2>2, <2>3, <2>4 DEF FlowInv, OrderInv
<1>13. FlowType'
  BY <1>1, <1>3, <1>4, <1>9 DEF FlowInv, FlowType
<1> QED BY <1>1, <1>7, <1>12, <1>13, FlowMoves

\* The main loop passes a frame on.
LEMMA RelayFlow == VmInv /\ FlowInv /\ RelayFrame => FlowInv'
<1> SUFFICES ASSUME VmInv, FlowInv, RelayFrame PROVE FlowInv'
  OBVIOUS
<1> DEFINE f == Head(frames)
<1>1. /\ frames \in Seq(Frame) /\ frames # <<>> /\ stdout \in Seq(Frame)
      /\ stdout' = Append(stdout, f) /\ frames' = Tail(frames)
      /\ UNCHANGED <<vm, boot, agent, sent, gos, warnings, finalYaml, cli, outcome, tcp, vsock>>
  BY DEF RelayFrame, Forward, Helper, VmInv, QueueInv, cliVars, lineVars
<1>2. f \in Frame
  BY <1>1, HeadTailProperties
<1>3. Range(frames) = {f} \cup Range(frames')
  BY <1>1, TailRange
<1>4. Range(stdout') = Range(stdout) \cup {f}
  BY <1>1, <1>2, AppendRange
<1>5. Upstream' = Upstream /\ InVsock' = InVsock
  BY <1>1 DEF Upstream, InVsock
<1>6. Queued' = Queued
  BY <1>3, <1>4, <1>5 DEF Queued
<1>7. Sorted(frames') /\ Precede({f}, Range(frames'))
  BY <1>1, TailSorted DEF FlowInv, OrderInv
<1>8. Sorted(stdout')
  <2>1. Precede(Range(stdout), {f})
    BY <1>3 DEF FlowInv, OrderInv, Precede
  <2> QED BY <1>1, <1>2, <2>1, AppendSorted DEF FlowInv, OrderInv
<1>9. OrderInv'
  <2>1. Precede(Range(stdout'), Range(frames') \cup Upstream')
    BY <1>3, <1>4, <1>5, <1>7 DEF FlowInv, OrderInv, Precede
  <2>2. Precede(Range(frames'), Upstream')
    BY <1>3, <1>5 DEF FlowInv, OrderInv, Precede
  <2> QED BY <1>1, <1>5, <1>6, <1>7, <1>8, <2>1, <2>2 DEF FlowInv, OrderInv
<1>10. FlowType'
  BY <1>1 DEF FlowInv, FlowType
<1> QED BY <1>1, <1>6, <1>9, <1>10, FlowMoves

\* A step that loses the end of what some boot has said.
LEMMA FlowLoses ==
    ASSUME VmInv, FlowInv, UNCHANGED <<boot, sent, gos, stdout, warnings, finalYaml>>,
           tcp' = <<>>, Range(frames') \subseteq Range(frames), Sorted(frames'),
           vsock' \in [Boots -> Seq(Frame)],
           \A b \in Boots : Sorted(vsock'[b]) /\ Range(vsock'[b]) \subseteq Range(vsock[b]),
           Precede(Queued', Queued \ Queued'),
           vm' # "on" \/ agent' = "panic",
           agent' = agent \/ (agent = "exited" /\ agent' = "panic"),
           cli' = cli /\ outcome' = outcome
    PROVE  FlowInv'
<1>1. InVsock' \subseteq InVsock /\ Range(tcp') = {}
  BY EmptyRange DEF InVsock
<1>2. Upstream' \subseteq Upstream /\ Queued' \subseteq Queued /\ Upstream' = InVsock'
  BY <1>1 DEF Upstream, Queued
<1>3. FlowType'
  BY <1>1 DEF FlowInv, FlowType
<1>4. GenuineInv'
  BY <1>2 DEF FlowInv, GenuineInv
<1>5. OrderInv'
  <2>1. Sorted(tcp')
    BY EmptyRange
  <2>2. /\ Precede(Range(warnings'), Queued')
        /\ Precede(Range(stdout'), Range(frames') \cup Upstream')
        /\ Precede(Range(frames'), Upstream')
        /\ Precede(InVsock', Range(tcp'))
    BY <1>1, <1>2 DEF FlowInv, OrderInv, Precede
  <2>3. Sorted(warnings') /\ Sorted(stdout')
    BY DEF FlowInv, OrderInv
  <2> QED BY <2>1, <2>2, <2>3 DEF OrderInv
<1>6. NoGapInv'
  <2>1. ASSUME NEW g \in Queued', NEW w \in sentBy(g.boot, "warning"), w.n < g.n,
               w.boot = g.boot, w \in Queued
        PROVE  w \in Queued'
    <3>1. SUFFICES ASSUME w \notin Queued' PROVE FALSE
      OBVIOUS
    <3>2. g.n < w.n
      BY <2>1, <3>1 DEF Precede
    <3>3. g \in Queued
      BY <1>2
    <3>4. g.n \in Int /\ w.n \in Int
      BY <2>1, <3>3, FlowFacts DEF Frame
    <3> QED BY <2>1, <3>2, <3>4
  <2>2. ASSUME NEW g \in Queued', NEW w \in sentBy(g.boot, "warning"), w.n < g.n
        PROVE  w \in Queued' \cup Range(warnings)
    <3>1. w \in Queued \cup Range(warnings)
      BY <1>2, <2>2 DEF FlowInv, NoGapInv
    <3>2. w.boot = g.boot
      <4>1. g.boot \in Boots
        BY <1>2, FlowFacts DEF Frame
      <4> QED BY <4>1 DEF sentBy, Range, FlowInv, GenuineInv
    <3> QED BY <2>1, <2>2, <3>1, <3>2
  <2> QED BY <2>2 DEF NoGapInv, sentBy
<1>7. AgentInv'
  BY DEF FlowInv, AgentInv
<1>8. CollectedInv'
  BY DEF FlowInv, CollectedInv, sentBy
<1> QED BY <1>3, <1>4, <1>5, <1>6, <1>7, <1>8 DEF FlowInv

\* The virtual machine stops, or the kernel panics.
LEMMA GuestLosesFlow == VmInv /\ FlowInv /\ (GuestStops \/ cleanup) => FlowInv'
<1> SUFFICES ASSUME VmInv, FlowInv, GuestStops \/ cleanup PROVE FlowInv'
  OBVIOUS
<1>1. /\ boot \in Boots /\ vsock \in [Boots -> Seq(Frame)]
      /\ UNCHANGED <<boot, sent, gos, stdout, frames, warnings, finalYaml, cli, outcome>> /\ tcp' = <<>>
      /\ vm' # "on" \/ agent' = "panic"
      /\ agent' = agent \/ (agent = "exited" /\ agent' = "panic")
  <2>1. boot \in Boots
    <3>1. vm = "on"
      BY DEF GuestStops, cleanup, Guest
    <3> QED BY <3>1, BoundsAssumption DEF VmInv, QueueInv, StageInv, Boots
  <2> QED BY <2>1 DEF GuestStops, cleanup, Guest, VmInv, QueueInv, cliVars
<1>2. PICK n \in 0..Len(vsock[boot]) :
          vsock' = vsock \/ vsock' = [vsock EXCEPT ![boot] = SubSeq(@, 1, n)]
  <2>1. CASE GuestStops
    BY <2>1 DEF GuestStops
  <2>2. CASE cleanup
    <3>1. 0 \in 0..Len(vsock[boot])
      BY <1>1, LenProperties
    <3> QED BY <2>2, <3>1 DEF cleanup
  <2> QED BY <2>1, <2>2
<1> DEFINE cut == SubSeq(vsock[boot], 1, n)
<1>3. /\ Sorted(cut) /\ Range(cut) \subseteq Range(vsock[boot]) /\ cut \in Seq(Frame)
      /\ Precede(Range(cut), Range(vsock[boot]) \ Range(cut))
  <2>1. vsock[boot] \in Seq(Frame) /\ Sorted(vsock[boot])
    BY <1>1 DEF FlowInv, OrderInv
  <2>2. Sorted(cut) /\ Range(cut) \subseteq Range(vsock[boot])
        /\ Precede(Range(cut), Range(vsock[boot]) \ Range(cut))
    BY <1>2, <2>1, PrefixSorted
  <2>3. cut \in Seq(Frame)
    BY <1>2, <2>1, PrefixFacts
  <2> QED BY <2>2, <2>3
<1> HIDE DEF cut
<1>4. /\ vsock' \in [Boots -> Seq(Frame)] /\ \A b \in Boots : b # boot => vsock'[b] = vsock[b]
      /\ vsock'[boot] = vsock[boot] \/ vsock'[boot] = cut
  BY <1>1, <1>2, <1>3 DEF cut
<1>5. \A b \in Boots : Sorted(vsock'[b]) /\ Range(vsock'[b]) \subseteq Range(vsock[b])
  BY <1>3, <1>4 DEF FlowInv, OrderInv
<1>6. Precede(Range(vsock'[boot]), Range(vsock[boot]) \ Range(vsock'[boot]))
  BY <1>3, <1>4 DEF Precede
<1>7. Precede(Queued', Queued \ Queued')
  <2>1. SUFFICES ASSUME NEW f \in Queued', NEW g \in Queued, g \notin Queued', f.boot = g.boot
                 PROVE  f.n < g.n
    BY DEF Precede
  <2>2. g \in Range(tcp) \/ \E b \in Boots : g \in Range(vsock[b])
    BY <1>1, <2>1 DEF Queued, Upstream, InVsock
  <2>3. Range(tcp') = {}
    BY <1>1, EmptyRange
  <2>4. f \in Range(stdout) \cup Range(frames) \cup InVsock
    BY <1>1, <1>5, <2>3 DEF Queued, Upstream, InVsock
  <2>5. CASE g \in Range(tcp)
    BY <2>1, <2>4, <2>5 DEF FlowInv, OrderInv, Precede, Upstream
  <2>6. ASSUME NEW b \in Boots, g \in Range(vsock[b]) PROVE f.n < g.n
    <3>1. b = boot
      BY <1>4, <2>1, <2>6 DEF Queued, Upstream, InVsock
    <3>2. g \in Range(vsock[boot]) \ Range(vsock'[boot])
      BY <1>1, <2>1, <2>6, <3>1 DEF Queued, Upstream, InVsock
    <3>3. CASE f \in Range(stdout) \cup Range(frames)
      BY <2>1, <2>6, <3>3 DEF FlowInv, OrderInv, Precede, Upstream, InVsock
    <3>4. CASE f \notin Range(stdout) \cup Range(frames)
      <4>1. PICK c \in Boots : f \in Range(vsock'[c])
        BY <1>1, <2>1, <2>3, <3>4 DEF Queued, Upstream, InVsock
      <4>2. f \in Range(vsock[c])
        BY <1>5, <4>1
      <4>3. f.boot = c /\ g.boot = boot
        BY <2>6, <3>1, <4>2 DEF FlowInv, FlowType
      <4>4. c = boot
        BY <2>1, <4>3
      <4>5. f \in Range(vsock'[boot])
        BY <4>1, <4>4
      <4> QED BY <1>6, <2>1, <3>2, <4>5 DEF Precede
    <3> QED BY <3>3, <3>4
  <2> QED BY <2>2, <2>5, <2>6
<1>8. Sorted(frames') /\ Range(frames') \subseteq Range(frames)
  BY <1>1 DEF FlowInv, OrderInv
<1> QED BY <1>1, <1>4, <1>5, <1>7, <1>8, FlowLoses

\* The helper ends, by itself or killed.
LEMMA EndsFlow ==
    ASSUME VmInv, FlowInv, ProcessEnds,
           UNCHANGED <<boot, agent, sent, gos, stdout, warnings, finalYaml, cli, outcome>>
    PROVE  FlowInv'
<1>1. tcp' = <<>> /\ frames' = <<>> /\ vsock' = [b \in Boots |-> <<>>] /\ vm' # "on"
  BY DEF ProcessEnds
<1>2. /\ Range(tcp') = {} /\ Range(frames') = {} /\ Sorted(frames')
      /\ \A b \in Boots : Range(vsock'[b]) = {} /\ Sorted(vsock'[b])
  BY <1>1, EmptyRange
<1>3. vsock' \in [Boots -> Seq(Frame)]
  BY <1>1, EmptySeq
<1>4. Queued' = Range(stdout)
  BY <1>2 DEF Queued, Upstream, InVsock
<1>5. Precede(Queued', Queued \ Queued')
  BY <1>4 DEF FlowInv, OrderInv, Precede, Queued
<1> QED BY <1>1, <1>2, <1>3, <1>5, FlowLoses

\* The CLI takes a frame.  A final one is the last of its boot, and no warning is behind it.
LEMMA ReadFlow == VmInv /\ FlowInv /\ ReadFrame => FlowInv'
<1> SUFFICES ASSUME VmInv, FlowInv, ReadFrame PROVE FlowInv'
  OBVIOUS
<1> DEFINE f == Head(stdout)
<1>1. /\ stdout \in Seq(Frame) /\ stdout # <<>> /\ stdout' = Tail(stdout) /\ cli = "frames"
      /\ UNCHANGED <<vm, boot, agent, sent, gos, outcome, tcp, vsock, frames>>
      /\ warnings \in Seq(Frame)
      /\ finalYaml' = IF f.kind = "final" THEN f.boot ELSE finalYaml
      /\ warnings' = IF f.kind = "warning" THEN Append(warnings, f) ELSE warnings
      /\ f.kind = "final" => cli' = "exit"
      /\ finalYaml = 0
  BY DEF ReadFrame, NextFrame, Terminal, Cli, Running, VmInv, QueueInv, FlowInv, FlowType, CollectedInv,
         lineVars
<1>2. f \in Frame
  BY <1>1, HeadTailProperties
<1>3. Range(stdout) = {f} \cup Range(stdout')
  BY <1>1, TailRange
<1>4. Range(warnings') = IF f.kind = "warning" THEN Range(warnings) \cup {f} ELSE Range(warnings)
  BY <1>1, <1>2, AppendRange
<1>5. Upstream' = Upstream /\ InVsock' = InVsock
  BY <1>1 DEF Upstream, InVsock
<1>6. Queued = Queued' \cup {f}
  BY <1>1, <1>3, <1>5 DEF Queued
<1>7. Sorted(stdout') /\ Precede({f}, Range(stdout'))
  BY <1>1, TailSorted DEF FlowInv, OrderInv
<1>8. Precede({f}, Queued')
  BY <1>1, <1>3, <1>5, <1>7 DEF FlowInv, OrderInv, Precede, Queued
<1>9. FlowType'
  <2>1. warnings' \in Seq(Frame)
    BY <1>1, <1>2, AppendProperties
  <2>2. finalYaml' \in 0..MaxBoots
    <3>1. f.boot \in 0..MaxBoots /\ 0 \in 0..MaxBoots
      BY <1>2, BoundsAssumption DEF Frame, Boots
    <3> QED BY <1>1, <3>1
  <2> QED BY <1>1, <2>1, <2>2 DEF FlowInv, FlowType
<1>10. GenuineInv'
  BY <1>1, <1>4, <1>6 DEF FlowInv, GenuineInv
<1>11. OrderInv'
  <2>1. Sorted(warnings')
    <3>1. Precede(Range(warnings), {f})
      BY <1>6 DEF FlowInv, OrderInv, Precede
    <3> QED BY <1>1, <1>2, <3>1, AppendSorted DEF FlowInv, OrderInv
  <2>2. Precede(Range(warnings'), Queued')
    BY <1>4, <1>6, <1>8 DEF FlowInv, OrderInv, Precede
  <2>3. Precede(Range(stdout'), Range(frames') \cup Upstream')
    BY <1>1, <1>3, <1>5 DEF FlowInv, OrderInv, Precede
  <2> QED BY <1>1, <1>5, <1>7, <2>1, <2>2, <2>3 DEF FlowInv, OrderInv
<1>12. \A b \in Boots : \A w \in sentBy(b, "warning") :
          w.boot = b /\ w.kind = "warning" /\ w.n \in Int
  BY FlowFacts DEF FlowInv, GenuineInv, sentBy, Range, Frame
<1>13. ASSUME NEW w, w.kind = "warning", w \in Queued \cup Range(warnings)
       PROVE  w \in Queued' \cup Range(warnings')
  BY <1>4, <1>6, <1>13
<1>14. NoGapInv'
  <2>1. ASSUME NEW g \in Queued', NEW w \in sentBy(g.boot, "warning"), w.n < g.n
        PROVE  w \in Queued' \cup Range(warnings')
    <3>1. w.kind = "warning"
      BY DEF sentBy
    <3>2. w \in Queued \cup Range(warnings)
      BY <1>6, <2>1 DEF FlowInv, NoGapInv
    <3> QED BY <1>13, <3>1, <3>2
  <2>2. vm = "on" /\ agent # "panic" => sentBy(boot, "warning") \subseteq Queued' \cup Range(warnings')
    BY <1>13 DEF FlowInv, NoGapInv, sentBy
  <2> QED BY <1>1, <2>1, <2>2 DEF NoGapInv, sentBy
<1>15. AgentInv'
  BY <1>1 DEF FlowInv, AgentInv
<1>16. CollectedInv'
  <2>1. CASE f.kind # "final"
    <3>1. cli' \in {"start", "frames", "go"} => finalYaml' = 0
      BY <1>1, <2>1
    <3>2. finalYaml' = 0 /\ (outcome' = "result" => finalYaml' # 0)
      BY <1>1, <2>1 DEF FlowInv, CollectedInv
    <3> QED BY <3>1, <3>2 DEF CollectedInv
  <2>2. CASE f.kind = "final"
    <3>1. f.boot \in Boots /\ f.n \in DOMAIN sent[f.boot] /\ sent[f.boot][f.n] = f
      BY <1>2, <1>6 DEF Frame, FlowInv, GenuineInv
    <3>2. f.n = Len(sent[f.boot])
      BY <2>2, <3>1 DEF FlowInv, AgentInv
    <3>3. sentBy(f.boot, "final") = {f}
      <4>1. f \in sentBy(f.boot, "final")
        BY <2>2, <3>1 DEF sentBy, Range
      <4>2. ASSUME NEW w \in sentBy(f.boot, "final") PROVE w = f
        <5>1. PICK i \in DOMAIN sent[f.boot] : sent[f.boot][i] = w
          BY DEF sentBy, Range
        <5>2. i = Len(sent[f.boot])
          BY <3>1, <5>1 DEF FlowInv, AgentInv, sentBy
        <5> QED BY <3>1, <3>2, <5>1, <5>2
      <4> QED BY <4>1, <4>2
    <3>4. ASSUME NEW w \in sentBy(f.boot, "warning") PROVE w \in Range(warnings)
      <4>1. PICK i \in DOMAIN sent[f.boot] : sent[f.boot][i] = w
        BY DEF sentBy, Range
      <4>2. w.kind = "warning" /\ w.boot = f.boot /\ w.n = i
        BY <3>1, <4>1 DEF sentBy, FlowInv, GenuineInv
      <4>3. i # f.n
        BY <2>2, <3>1, <4>1, <4>2
      <4>4. DOMAIN sent[f.boot] = 1..Len(sent[f.boot]) /\ Len(sent[f.boot]) \in Nat
        BY <3>1, FlowFacts, LenProperties
      <4>5. w.n < f.n
        BY <3>2, <4>2, <4>3, <4>4
      <4>6. w \in Queued \cup Range(warnings)
        BY <1>6, <4>5 DEF FlowInv, NoGapInv
      <4>7. w \notin Queued'
        <5>1. w \in Queued' => f.n < w.n
          BY <1>8, <4>2 DEF Precede
        <5> QED BY <3>2, <4>2, <4>4, <4>5, <5>1
      <4> QED BY <1>6, <2>2, <4>2, <4>6, <4>7
    <3>5. finalYaml' = f.boot /\ cli' = "exit" /\ sent' = sent /\ Range(warnings') = Range(warnings)
      BY <1>1, <1>4, <2>2
    <3>6. sentBy(finalYaml, "final")' = {sent'[finalYaml'][Len(sent'[finalYaml'])]}
      BY <3>1, <3>2, <3>3, <3>5 DEF sentBy
    <3>7. sentBy(finalYaml, "warning")' \subseteq Range(warnings')
      BY <3>4, <3>5 DEF sentBy
    <3>8. finalYaml' # 0
      BY <3>1, <3>5 DEF Boots
    <3> QED BY <3>5, <3>6, <3>7, <3>8 DEF CollectedInv
  <2> QED BY <2>1, <2>2
<1> QED BY <1>9, <1>10, <1>11, <1>14, <1>15, <1>16 DEF FlowInv

\* The agent writes a frame: the last of its boot so far.
LEMMA EmitFlow ==
    ASSUME VmInv, FlowInv, NEW kind \in Kinds, NEW next, Emit(kind, next),
           agent \in {"fetching", "installing"}, next \notin {"none", "panic"},
           next \in {"installing", "closing"} => agent = "installing",
           kind = "final" => agent = "installing" /\ next = "closing"
    PROVE  FlowInv'
<1> DEFINE f == [kind |-> kind, boot |-> boot, n |-> Len(sent[boot]) + 1]
<1>1. /\ boot \in Boots /\ tcp \in Seq(Frame) /\ sent[boot] \in Seq(Frame)
      /\ tcp' = Append(tcp, f) /\ sent' = [sent EXCEPT ![boot] = Append(@, f)] /\ agent' = next
      /\ sent \in [Boots -> Seq(Frame)]
      /\ UNCHANGED <<vm, boot, gos, vsock, frames, stdout, warnings, finalYaml, cli, outcome>>
  <2>1. boot \in Boots
    <3>1. vm = "on"
      BY DEF Emit, Guest
    <3> QED BY <3>1, BoundsAssumption DEF VmInv, QueueInv, StageInv, Boots
  <2> QED BY <2>1 DEF Emit, Guest, VmInv, QueueInv, FlowInv, FlowType, lineVars, cliVars
<1>2. Len(sent[boot]) \in Nat /\ DOMAIN sent[boot] = 1..Len(sent[boot])
  BY <1>1, LenProperties
<1>3. f \in Frame /\ f.n = Len(sent[boot]) + 1 /\ f.boot = boot /\ f.kind = kind
  BY <1>1, <1>2 DEF Frame
<1> HIDE DEF f
<1>4. /\ sent'[boot] = Append(sent[boot], f) /\ \A b \in Boots : b # boot => sent'[b] = sent[b]
      /\ sent' \in [Boots -> Seq(Frame)]
  <2>1. Append(sent[boot], f) \in Seq(Frame)
    BY <1>1, <1>3, AppendProperties
  <2> QED BY <1>1, <2>1
<1>5. /\ \A i \in DOMAIN sent[boot] : i \in DOMAIN sent'[boot] /\ sent'[boot][i] = sent[boot][i]
      /\ \A i \in DOMAIN sent'[boot] : i \in DOMAIN sent[boot] \/ i = f.n
      /\ f.n \in DOMAIN sent'[boot] /\ sent'[boot][f.n] = f
      /\ Len(sent'[boot]) = f.n
  <2>1. \A i \in DOMAIN sent[boot] : i \in DOMAIN Append(sent[boot], f) /\ Append(sent[boot], f)[i] = sent[boot][i]
    BY <1>1, <1>3, AppendFacts
  <2>2. \A i \in DOMAIN Append(sent[boot], f) : i \in DOMAIN sent[boot] \/ i = f.n
    BY <1>1, <1>3, AppendFacts
  <2>3. f.n \in DOMAIN Append(sent[boot], f) /\ Append(sent[boot], f)[f.n] = f
    BY <1>1, <1>3, AppendFacts
  <2>4. Len(Append(sent[boot], f)) = f.n
    BY <1>1, <1>3, AppendProperties
  <2> QED BY <1>4, <2>1, <2>2, <2>3, <2>4
<1>6. Range(tcp') = Range(tcp) \cup {f}
  BY <1>1, <1>3, AppendRange
<1>7. InVsock' = InVsock /\ Upstream' = Upstream \cup {f} /\ Queued' = Queued \cup {f}
  BY <1>1, <1>6 DEF InVsock, Upstream, Queued
<1>8. \A g \in Queued \cup Range(warnings) : g.boot \in Boots /\ (g.boot = boot => g.n < f.n)
  <2>1. ASSUME NEW g \in Queued \cup Range(warnings) PROVE g.boot \in Boots /\ g.n \in DOMAIN sent[g.boot]
    BY FlowFacts DEF Frame, FlowInv, GenuineInv
  <2> QED BY <1>2, <1>3, <2>1
<1>9. FlowType'
  BY <1>1, <1>3, <1>4, <1>6 DEF FlowInv, FlowType
<1>10. GenuineInv'
  <2>1. ASSUME NEW g \in Queued \cup Range(warnings)
        PROVE  g.n \in DOMAIN sent'[g.boot] /\ sent'[g.boot][g.n] = g
    <3>1. g.boot \in Boots /\ g.n \in DOMAIN sent[g.boot] /\ sent[g.boot][g.n] = g
      BY <1>8 DEF FlowInv, GenuineInv
    <3> QED BY <1>4, <1>5, <3>1
  <2>2. f.n \in DOMAIN sent'[f.boot] /\ sent'[f.boot][f.n] = f
    BY <1>3, <1>5
  <2>3. \A b \in Boots : \A i \in DOMAIN sent'[b] : sent'[b][i].boot = b /\ sent'[b][i].n = i
    <3>1. ASSUME NEW i \in DOMAIN sent'[boot] PROVE sent'[boot][i].boot = boot /\ sent'[boot][i].n = i
      BY <1>1, <1>3, <1>5, <3>1 DEF FlowInv, GenuineInv
    <3> QED BY <1>4, <3>1 DEF FlowInv, GenuineInv
  <2> QED BY <1>1, <1>7, <2>1, <2>2, <2>3 DEF GenuineInv
<1>11. OrderInv'
  <2>1. Precede(Queued \cup Range(warnings), {f})
    BY <1>3, <1>8 DEF Precede
  <2>2. Sorted(tcp')
    <3>1. Precede(Range(tcp), {f})
      BY <2>1 DEF Precede, Queued, Upstream
    <3> QED BY <1>1, <1>3, <3>1, AppendSorted DEF FlowInv, OrderInv
  <2>3. Precede(Range(warnings'), Queued')
    BY <1>1, <1>7, <2>1 DEF FlowInv, OrderInv, Precede
  <2>4. Precede(Range(stdout'), Range(frames') \cup Upstream')
    BY <1>1, <1>7, <2>1 DEF FlowInv, OrderInv, Precede, Queued
  <2>5. Precede(Range(frames'), Upstream')
    BY <1>1, <1>7, <2>1 DEF FlowInv, OrderInv, Precede, Queued
  <2>6. Precede(InVsock', Range(tcp'))
    BY <1>6, <1>7, <2>1 DEF FlowInv, OrderInv, Precede, Queued, Upstream
  <2> QED BY <1>1, <2>2, <2>3, <2>4, <2>5, <2>6 DEF FlowInv, OrderInv
<1>12. ASSUME NEW b \in Boots, NEW k, NEW w \in Range(sent'[b]), w.kind = k, w # f
       PROVE  w \in sentBy(b, k)
  BY <1>4, <1>5, <1>12 DEF sentBy, Range
<1>13. vm = "on" /\ agent # "panic"
  BY DEF Emit, Guest
<1>14. NoGapInv'
  <2>1. ASSUME NEW g \in Queued', NEW w \in Range(sent'[g.boot]), w.kind = "warning", w.n < g.n
        PROVE  w \in Queued' \cup Range(warnings)
    <3>1. g.boot \in Boots
      BY <1>1, <1>3, <1>7, <1>8
    <3>2. w # f => w \in sentBy(g.boot, "warning")
      BY <1>12, <2>1, <3>1
    <3>3. CASE g = f
      BY <1>3, <1>7, <1>13, <3>2, <3>3 DEF FlowInv, NoGapInv
    <3>4. CASE g \in Queued
      BY <1>7, <2>1, <3>2, <3>4 DEF FlowInv, NoGapInv
    <3> QED BY <1>7, <3>3, <3>4
  <2>2. ASSUME NEW w \in Range(sent'[boot]), w.kind = "warning"
        PROVE  w \in Queued' \cup Range(warnings)
    <3>1. w # f => w \in sentBy(boot, "warning")
      BY <1>1, <1>12, <2>2
    <3> QED BY <1>7, <1>13, <3>1 DEF FlowInv, NoGapInv
  <2> QED BY <1>1, <2>1, <2>2 DEF NoGapInv, sentBy
<1>15. AgentInv'
  <2>1. \A b \in Boots : b > boot' => sent'[b] = <<>>
    BY <1>1, <1>4 DEF FlowInv, AgentInv, Boots
  <2>2. ASSUME NEW b \in Boots, NEW i \in DOMAIN sent'[b], sent'[b][i].kind = "final"
        PROVE  /\ i = Len(sent'[b]) /\ b \in gos
               /\ b = boot => agent' \in {"closing", "exited", "panic"}
    <3>1. CASE b # boot
      BY <1>4, <2>2, <3>1 DEF FlowInv, AgentInv
    <3>2. CASE b = boot
      <4>1. i = f.n
        BY <1>5, <2>2, <3>2 DEF FlowInv, AgentInv
      <4>2. kind = "final"
        BY <1>3, <1>5, <2>2, <3>2, <4>1
      <4> QED BY <1>1, <1>5, <3>2, <4>1, <4>2 DEF FlowInv, AgentInv
    <3> QED BY <3>1, <3>2
  <2> QED BY <1>1, <2>1, <2>2 DEF FlowInv, AgentInv
<1>16. CollectedInv'
  <2>1. ASSUME finalYaml # 0
        PROVE  finalYaml \in Boots /\ finalYaml # boot
    <3>1. finalYaml \in Boots
      BY <2>1, BoundsAssumption DEF FlowInv, FlowType, Boots
    <3>2. sent[finalYaml] \in Seq(Frame)
      BY <3>1 DEF FlowInv, FlowType
    <3>3. PICK i \in DOMAIN sent[finalYaml] : sent[finalYaml][i].kind = "final"
      <4>1. sentBy(finalYaml, "final") # {}
        BY <2>1 DEF FlowInv, CollectedInv
      <4> QED BY <4>1 DEF sentBy, Range
    <3> QED BY <3>1, <3>3 DEF FlowInv, AgentInv
  <2>2. finalYaml # 0 => sent'[finalYaml] = sent[finalYaml]
    BY <1>4, <2>1
  <2> QED BY <1>1, <2>2 DEF FlowInv, CollectedInv, sentBy
<1> QED BY <1>9, <1>10, <1>11, <1>14, <1>15, <1>16 DEF FlowInv

\* A step of the helper or of the CLI, and a boot of the guest, that neither move a frame nor
\* read one.
LEMMA QuietFlow ==
    ASSUME FlowInv, UNCHANGED <<boot, agent, gos, tcp, vsock, frames, stdout, sent, warnings, finalYaml>>,
           vm' = "on" => vm = "on",
           cli' \in {"start", "frames", "go"} => cli \in {"start", "frames", "go"},
           outcome' = "result" => finalYaml # 0
    PROVE  FlowInv'
<1>1. agent \in {"none", "panic"} => tcp = <<>>
  BY DEF FlowInv, AgentInv
<1>2. agent \in {"installing", "closing"} => boot \in gos
  BY DEF FlowInv, AgentInv
<1>3. vm' = "on" /\ agent # "panic" => sentBy(boot, "warning") \subseteq Queued \cup Range(warnings)
  BY DEF FlowInv, NoGapInv
<1>4. vm' = "on" /\ agent' # "panic" => sentBy(boot', "warning") \subseteq Queued \cup Range(warnings)
  BY <1>3
<1> QED BY <1>1, <1>2, <1>4, FlowStays

\* The guest.
LEMMA GuestKeepsFlow == VmInv /\ FlowInv /\ GuestStep => FlowInv'
<1> SUFFICES ASSUME VmInv, FlowInv, GuestStep PROVE FlowInv'
  OBVIOUS
<1>0. /\ agent \in {"none", "panic"} => tcp = <<>>
      /\ agent \in {"installing", "closing"} => boot \in gos
      /\ vm = "on" /\ agent # "panic" => sentBy(boot, "warning") \subseteq Queued \cup Range(warnings)
      /\ outcome = "result" => finalYaml # 0
  BY DEF FlowInv, AgentInv, NoGapInv, CollectedInv
<1> USE DEF Guest, lineVars, cliVars
<1>1. CASE should_accept
  <2>1. UNCHANGED <<vm, boot, tcp, sent, gos, vsock, frames, stdout, warnings, finalYaml, cli, outcome>>
        /\ agent = "none" /\ agent' = "fetching" /\ vm = "on"
    BY <1>1 DEF should_accept
  <2>2. sentBy(boot', "warning") \subseteq Queued \cup Range(warnings)
    BY <1>0, <2>1
  <2> QED BY <1>0, <2>1, <2>2, FlowStays
<1>2. CASE EmitWarning
  BY <1>2, EmitFlow DEF EmitWarning, Kinds
<1>3. CASE EmitFetchDone
  BY <1>3, EmitFlow DEF EmitFetchDone, Kinds
<1>4. CASE EmitFatal
  BY <1>4, EmitFlow DEF EmitFatal, Kinds
<1>5. CASE EmitFinal
  BY <1>5, EmitFlow DEF EmitFinal, Kinds
<1>6. CASE RenderFails
  BY <1>6, EmitFlow DEF RenderFails, Kinds
<1>7. CASE ReadGo \/ flushAndExit \/ close \/ AgentDies
  <2>1. /\ UNCHANGED <<vm, boot, tcp, sent, gos, vsock, frames, stdout, warnings, finalYaml, cli, outcome>>
        /\ vm = "on" /\ agent \notin {"panic", "exited"} /\ (agent = "closing" => agent' = "exited")
        /\ agent' \in {"installing", "exited"} /\ (agent' = "installing" => boot \in gos)
    BY <1>7 DEF ReadGo, flushAndExit, close, AgentDies
  <2>2. sentBy(boot', "warning") \subseteq Queued \cup Range(warnings)
    BY <1>0, <2>1
  <2> QED BY <1>0, <2>1, <2>2, FlowStays
<1>8. CASE Socat
  BY <1>8, SocatFlow
<1>9. CASE cleanup \/ GuestStops
  BY <1>9, GuestLosesFlow
<1>10. CASE Reboot
  <2>1. /\ UNCHANGED <<vm, tcp, sent, gos, vsock, frames, stdout, warnings, finalYaml, cli, outcome>>
        /\ agent = "panic" /\ agent' = "none" /\ boot' = boot + 1 /\ boot < MaxBoots
    BY <1>10 DEF Reboot
  <2>5. boot \in 0..MaxBoots
    BY DEF VmInv, QueueInv
  <2>2. boot \in Nat /\ boot' \in Nat /\ boot' > boot /\ boot' \in Boots
    BY <2>1, <2>5, BoundsAssumption DEF Boots
  <2>3. sent[boot'] = <<>>
    BY <2>2 DEF FlowInv, AgentInv
  <2>4. sentBy(boot', "warning") = {}
    BY <2>3, EmptyRange DEF sentBy
  <2> QED BY <1>0, <2>1, <2>2, <2>4, FlowStays
<1> QED
  BY <1>1, <1>2, <1>3, <1>4, <1>5, <1>6, <1>7, <1>8, <1>9, <1>10 DEF GuestStep

\* The helper.
LEMMA HelperKeepsFlow == VmInv /\ FlowInv /\ (HelperStep \/ StdinStep \/ onSignal) => FlowInv'
<1> SUFFICES ASSUME VmInv, FlowInv, HelperStep \/ StdinStep \/ onSignal PROVE FlowInv'
  OBVIOUS
<1>0. outcome = "result" => finalYaml # 0
  BY DEF FlowInv, CollectedInv
<1> USE DEF Helper, lineVars, goVars, helperVars, cliVars
<1>1. CASE ConfigRejected \/ build_config \/ StartFails \/ stop
  <2>1. /\ ProcessEnds
        /\ UNCHANGED <<boot, agent, sent, gos, stdout, warnings, finalYaml, cli, outcome>>
    BY <1>1 DEF ConfigRejected, build_config, StartFails, stop, Ends
  <2> QED BY <2>1, EndsFlow
<1>2. CASE Starts
  <2>1. /\ UNCHANGED <<tcp, sent, gos, agent, vsock, frames, stdout, warnings, finalYaml, cli, outcome>>
        /\ boot' = 1 /\ helper = "starting"
    BY <1>2 DEF Starts
  <2>2. boot = 0 /\ agent = "none" /\ 1 \in Boots
    BY <2>1, BoundsAssumption DEF VmInv, StageInv, Boots
  <2>3. sent[1] = <<>> /\ tcp = <<>>
    BY <2>2 DEF FlowInv, AgentInv, Boots
  <2>4. sentBy(boot', "warning") = {}
    BY <2>1, <2>3, EmptyRange DEF sentBy
  <2>5. boot \in Nat /\ boot' \in Nat /\ boot' > boot
    BY <2>1, <2>2
  <2> QED BY <1>0, <2>1, <2>2, <2>3, <2>4, <2>5, FlowStays
<1>3. CASE RelayFrame
  BY <1>3, RelayFlow
<1>4. CASE TakeReason \/ IdleTimeout \/ TakeWriter
  <2>1. UNCHANGED <<vm, boot, agent, gos, tcp, vsock, frames, stdout, sent, warnings, finalYaml, cli, outcome>>
    BY <1>4 DEF TakeReason, IdleTimeout, TakeWriter
  <2> QED BY <1>0, <2>1, QuietFlow
<1>5. CASE post_go
  <2>1. /\ UNCHANGED <<vm, boot, agent, tcp, vsock, frames, stdout, sent, warnings, finalYaml, cli, outcome>>
        /\ gos \subseteq gos'
    BY <1>5 DEF post_go
  <2>2. /\ agent \in {"none", "panic"} => tcp = <<>>
        /\ agent' \in {"installing", "closing"} => boot' \in gos'
        /\ vm = "on" /\ agent # "panic" => sentBy(boot, "warning") \subseteq Queued \cup Range(warnings)
    BY <2>1 DEF FlowInv, AgentInv, NoGapInv
  <2>3. vm' = "on" /\ agent' # "panic" => sentBy(boot', "warning") \subseteq Queued \cup Range(warnings)
    BY <2>1, <2>2
  <2> QED BY <1>0, <2>1, <2>2, <2>3, FlowStays
<1>6. CASE onSignal
  <2>1. /\ ProcessEnds
        /\ UNCHANGED <<boot, agent, sent, gos, stdout, warnings, finalYaml, cli, outcome>>
    BY <1>6 DEF onSignal, Kills, Cli
  <2> QED BY <2>1, EndsFlow
<1> QED
  BY <1>1, <1>2, <1>3, <1>4, <1>5, <1>6 DEF HelperStep, StdinStep

\* spawnVm: a verdict needs the helper gone, and a result a final frame.
LEMMA CliKeepsFlow == VmInv /\ FlowInv /\ CliStep => FlowInv'
<1> SUFFICES ASSUME VmInv, FlowInv, CliStep PROVE FlowInv'
  OBVIOUS
<1>0. outcome = "result" => finalYaml # 0
  BY DEF FlowInv, CollectedInv
<1>1. CASE ReadFrame
  BY <1>1, ReadFlow
<1>2. CASE Refuses \/ ConfigUnwritten \/ Spawns \/ SpawnFails \/ WriteGo \/ EndOfFrames
  <2>1. /\ UNCHANGED <<boot, agent, gos, tcp, vsock, frames, stdout, sent, warnings, finalYaml, vm>>
        /\ cli' \in {"start", "frames", "go"} => cli \in {"start", "frames", "go"}
        /\ outcome' = "result" => outcome = "result"
    BY <1>2 DEF Refuses, ConfigUnwritten, Spawns, SpawnFails, WriteGo, EndOfFrames, Cli, Running,
       lineVars
  <2> QED BY <1>0, <2>1, QuietFlow
<1>3. CASE SpawnThrows \/ WriteFails \/ HelperExit
  <2>1. /\ UNCHANGED <<boot, agent, gos, tcp, vsock, frames, stdout, sent, warnings, finalYaml, vm>>
        /\ cli' \in {"settled", "died"}
        /\ outcome' = "result" => outcome = "result" \/ finalYaml # 0
    BY <1>3 DEF VmInv, StageInv, SpawnThrows, WriteFails, HelperExit, Settles, Keeps, Running, Cli,
       Gone, Alive, verdict, lineVars
  <2> QED BY <1>0, <2>1, QuietFlow
<1> QED
  BY <1>1, <1>2, <1>3 DEF CliStep

\* Nothing has been said.
LEMMA InitFlow == Init => FlowInv
<1> SUFFICES ASSUME Init PROVE FlowInv
  OBVIOUS
<1>1. /\ tcp = <<>> /\ frames = <<>> /\ stdout = <<>> /\ warnings = <<>> /\ finalYaml = 0
      /\ sent = [b \in Boots |-> <<>>] /\ vsock = [b \in Boots |-> <<>>]
      /\ vm = "off" /\ agent = "none" /\ outcome = "none"
  BY DEF Init
<1>2. /\ Range(tcp) = {} /\ Range(frames) = {} /\ Range(stdout) = {} /\ Range(warnings) = {}
      /\ Sorted(tcp) /\ Sorted(frames) /\ Sorted(stdout) /\ Sorted(warnings)
      /\ \A b \in Boots : Range(vsock[b]) = {} /\ Sorted(vsock[b]) /\ DOMAIN sent[b] = {}
  BY <1>1, EmptyRange, EmptyFacts
<1>3. InVsock = {} /\ Upstream = {} /\ Queued = {}
  BY <1>2 DEF InVsock, Upstream, Queued
<1>4. FlowType
  BY <1>1, <1>2, EmptySeq, BoundsAssumption DEF FlowType
<1>5. GenuineInv /\ OrderInv
  BY <1>2, <1>3 DEF GenuineInv, OrderInv, Precede
<1>6. NoGapInv /\ AgentInv /\ CollectedInv
  BY <1>1, <1>2, <1>3 DEF NoGapInv, AgentInv, CollectedInv
<1> QED BY <1>4, <1>5, <1>6 DEF FlowInv

\* Every step keeps what is known of the frames.
LEMMA NextKeepsFlow == VmInv /\ FlowInv /\ [Next]_vars => FlowInv'
<1> SUFFICES ASSUME VmInv, FlowInv, [Next]_vars PROVE FlowInv'
  OBVIOUS
<1>1. CASE UNCHANGED vars
  <2>1. UNCHANGED <<boot, agent, gos, tcp, vsock, frames, stdout, sent, warnings, finalYaml, vm, cli, outcome>>
    BY <1>1 DEF vars, guestVars, lineVars, helperVars, cliVars
  <2> QED BY <2>1, QuietFlow DEF FlowInv, CollectedInv
<1>2. CASE Done
  BY <1>1, <1>2 DEF Done
<1> QED
  BY <1>1, <1>2, GuestKeepsFlow, HelperKeepsFlow, CliKeepsFlow, ReaderFlow DEF Next

-----------------------------------------------------------------------------

\* Both invariants hold throughout.
LEMMA VmInvariant == Spec => [](VmInv /\ FlowInv)
<1>1. FlowInv => FlowType
  BY DEF FlowInv
<1>2. VmInv /\ FlowInv /\ [Next]_vars => (VmInv /\ FlowInv)'
  BY <1>1, NextKeepsVm, NextKeepsFlow
<1> QED
  BY <1>2, InitVm, InitFlow, PTL DEF Spec

\* When spawnVm returns or throws, whatever failed before, no helper and no guest is left, and
\* the removal of its directory was tried unless the config could not be written.
THEOREM SettledTidilyHolds == Spec => []SettledTidily
<1>1. VmInv => SettledTidily
  BY DEF VmInv, QueueInv, StageInv, SettledTidily, Alive
<1> QED
  BY <1>1, VmInvariant, PTL

\* A helper that ends with code 0 has written a terminal frame, which the CLI reads before it
\* looks at the exit, unless its guest has powered itself off.
THEOREM CleanExitExplainedHolds == Spec => []CleanExitExplained
<1>1. VmInv => CleanExitExplained
  BY DEF VmInv
<1> QED
  BY <1>1, VmInvariant, PTL
\* However often the guest boots and wherever its frames are cut off, a result is the last word
\* of one boot whose warnings have all been collected, in order.
THEOREM ResultWholeHolds == Spec => []ResultWhole
<1>1. VmInv /\ FlowInv => ResultWhole
  <2> SUFFICES ASSUME VmInv, FlowInv, outcome = "result" PROVE ResultWhole
    BY DEF ResultWhole
  <2>1. /\ finalYaml \in Boots
        /\ sentBy(finalYaml, "final") = {sent[finalYaml][Len(sent[finalYaml])]}
        /\ sentBy(finalYaml, "warning") \subseteq Range(warnings) /\ Sorted(warnings)
    BY BoundsAssumption DEF FlowInv, FlowType, CollectedInv, OrderInv, Boots
  <2>2. PICK i \in DOMAIN sent[finalYaml] : sent[finalYaml][i].kind = "final"
    <3>1. sentBy(finalYaml, "final") # {}
      BY <2>1
    <3> QED BY <3>1 DEF sentBy, Range
  <2>3. finalYaml \in gos
    BY <2>1, <2>2 DEF FlowInv, AgentInv
  <2> QED BY <2>1, <2>3 DEF Sorted, ResultWhole
<1> QED
  BY <1>1, VmInvariant, PTL

-----------------------------------------------------------------------------
(* FirecrackerFetch.                                                       *)

\* The headers the reader has left behind.
Passed == {i \in Headers : 2 * (i - 1) < at}

\* The variables of the reader and its archive.
ReaderType ==
    /\ archive \in Seq(Block) /\ stray \in {0, 1} /\ upto \in Nat /\ at \in Nat
    /\ at <= upto /\ upto <= total
    /\ state \in {"header", "data"} /\ paddedRemaining \in Nat /\ declaredRemaining \in Nat
    /\ {capturing, foundEntry, archiveEnded, gunzipEnded, targetClosed, ioError} \subseteq BOOLEAN
    /\ settled \in {"no", "resolved", "rejected"}
    /\ out \in {"none", "open", "ending", "closed", "destroyed"} /\ written \in Seq(Nat)

\* The reader is at a header of the reference, or in the content of the entry at j.
Reading(j) ==
    /\ j \in Headers /\ archive[j].k \in {"file", "dir"}
    /\ 2 * j <= at /\ at + paddedRemaining = 2 * (after(j) - 1)
    /\ capturing = archive[j].target
    /\ capturing =>
          /\ written = Halves(j, archive[j].size - declaredRemaining)
          /\ IF at - 2 * j < archive[j].size
             THEN declaredRemaining = archive[j].size - (at - 2 * j)
             ELSE declaredRemaining = 0
          /\ paddedRemaining > 0

PlaceInv ==
    /\ state = "header" => ~capturing /\ \E i \in HeaderStarts : at = 2 * (i - 1)
    /\ state = "data" => \E j \in Passed : Reading(j)

\* What the reader knows of the headers behind it.
PassedInv ==
    /\ \A i \in Passed : archive[i].k # "bad"
    /\ archiveEnded = (\E i \in Passed : archive[i].k = "zero")
    /\ \A i, j \in Passed : i < j /\ archive[i].k = "zero" => archive[j].k = "zero"
    /\ foundEntry = (\E i \in Passed : archive[i].target)
    /\ \A i, j \in Passed : archive[i].target /\ archive[j].target => i = j
    /\ \A i \in Passed : archive[i].target =>
          /\ archive[i].k = "file" /\ archive[i].size > 0
          /\ ~capturing => written = Halves(i, archive[i].size)

\* What has happened at the ends of the streams.
EndInv ==
    /\ settled = "no" => capturing = (out = "open")
    /\ targetClosed => out = "closed" /\ ~capturing
    /\ gunzipEnded => at = total /\ foundEntry /\ ~capturing /\ ~(state = "data" /\ paddedRemaining > 0)
    /\ settled = "resolved" => gunzipEnded /\ targetClosed
    /\ ~foundEntry => written = <<>> /\ ~capturing /\ out = "none"

\* A tar with a zero block at its end, as tar writes them.
Closing == Len(archive) \in Headers /\ archive[Len(archive)].k = "zero"
RejectInv == settled = "rejected" /\ ~ioError => ~(WellFormed /\ Closing)

ReaderInv == ReaderType /\ PlaceInv /\ PassedInv /\ EndInv /\ RejectInv

\* The reader starts afresh with each archive, and what is renamed was extracted to its end.
FetchStageInv ==
    /\ pc \in {"clear", "prefetch", "ensure", "unlink", "unlinking"} => ReaderInit
    /\ pc \in {"rename"} => settled = "resolved"

\* What another run may put in the place of a file is pinned, too, once this run has seen to it.
DirInv ==
    /\ dir \in [Assets -> {"absent", "corrupt", "pinned"}]
    /\ fetch \in [Assets -> {"idle", "hash", "download", "done", "failed"}]
    /\ \A f \in Assets : fetch[f] = "done" => dir[f] # "corrupt"
    /\ ~selfTest /\ pc \in {"ensure", "unlink", "unlinking", "extract", "rename", "chmod", "overlay"} =>
          \A f \in Early : fetch[f] = "done"
    /\ pc \in {"unlink", "unlinking", "extract", "rename", "chmod", "overlay", "launch", "configure"} =>
          \A f \in Late : fetch[f] = "done"
    /\ pc \in {"chmod", "overlay", "launch"} => bin \in {"absent", "whole"}
    /\ pc \in {"launch", "configure"} => copy = "pinned" \/ selfTest

FetchInv == ReaderInv /\ FetchStageInv /\ DirInv
-----------------------------------------------------------------------------
(* The headers of an archive.                                              *)

\* The blocks of an entry hold its content, with less than a block to spare.
LEMMA BlocksFacts ==
    ASSUME NEW size \in Nat
    PROVE  /\ blocks(size) \in Nat /\ size <= 2 * blocks(size) /\ 2 * blocks(size) <= size + 1
           /\ size > 0 => blocks(size) > 0
           /\ size = 0 => blocks(size) = 0
  BY DEF blocks

\* What a header says.
LEMMA BlockFacts ==
    ASSUME NEW b \in Block
    PROVE  /\ b.k \in {"file", "dir", "bad", "zero"} /\ b.target \in BOOLEAN /\ b.size \in Nat
           /\ b.k # "file" => b.size = 0
           /\ b.k \in {"bad", "zero"} => ~b.target
<1>1. Sizes \subseteq Nat /\ 0 \in Nat
  BY ConstantsAssumption
<1>2. CASE b \in [k : {"file"}, target : BOOLEAN, size : Sizes]
  BY <1>1, <1>2
<1>3. CASE b \in [k : {"dir"}, target : BOOLEAN, size : {0}]
  BY <1>1, <1>3
<1>4. CASE b \in [k : {"bad", "zero"}, target : {FALSE}, size : {0}]
  BY <1>1, <1>4
<1> QED BY <1>2, <1>3, <1>4 DEF Block

\* The place after an entry.
LEMMA AfterFacts ==
    ASSUME archive \in Seq(Block), NEW j \in DOMAIN archive
    PROVE  /\ archive[j] \in Block /\ j \in Nat /\ j > 0 /\ j <= Len(archive) /\ Len(archive) \in Nat
           /\ after(j) \in Nat /\ after(j) > j
           /\ archive[j].size = 0 => after(j) = j + 1
           /\ archive[j].size > 0 => after(j) > j + 1
<1>1. archive[j] \in Block /\ DOMAIN archive = 1..Len(archive) /\ Len(archive) \in Nat
  BY ElementOfSeq, LenProperties
<1>2. archive[j].size \in Nat
  BY <1>1, BlockFacts
<1>3. /\ blocks(archive[j].size) \in Nat
      /\ archive[j].size > 0 => blocks(archive[j].size) > 0
      /\ archive[j].size = 0 => blocks(archive[j].size) = 0
  BY <1>2, BlocksFacts
<1> QED BY <1>1, <1>2, <1>3 DEF after

\* The starts are the least chained set, and chained themselves.
LEMMA StartsLeast ==
    ASSUME NEW S \in SUBSET Places, Chained(S)
    PROVE  HeaderStarts \subseteq S
  BY DEF HeaderStarts

LEMMA StartsChained ==
    ASSUME archive \in Seq(Block)
    PROVE  HeaderStarts \subseteq Places /\ Chained(HeaderStarts) /\ Places \subseteq Nat
<1>1. Len(archive) \in Nat
  BY LenProperties
<1>2. 1 \in Places /\ Places \subseteq Nat
  BY <1>1 DEF Places
<1>3. 1 \in HeaderStarts
  BY <1>2 DEF HeaderStarts, Chained
<1>4. ASSUME NEW j \in HeaderStarts \cap DOMAIN archive, after(j) \in Places PROVE after(j) \in HeaderStarts
  BY <1>4 DEF HeaderStarts, Chained
<1> QED BY <1>2, <1>3, <1>4 DEF Chained, HeaderStarts

\* No header lies within an entry: neither does an entry begin before a start and end after it.
NoGap(i) ==
    /\ i \in DOMAIN archive => \A k \in HeaderStarts : k <= i \/ after(i) <= k
    /\ \A k \in Headers : k < i => after(k) <= i

LEMMA NoGapAnywhere ==
    ASSUME archive \in Seq(Block), NEW i \in HeaderStarts
    PROVE  NoGap(i)
<1> DEFINE S == {n \in HeaderStarts : NoGap(n)}
<1>0. HeaderStarts \subseteq Places /\ Chained(HeaderStarts) /\ Places \subseteq Nat
  BY StartsChained
<1>1. S \in SUBSET Places
  BY <1>0
<1>2. Headers \subseteq Nat /\ \A k \in Headers : k \in HeaderStarts /\ k \in DOMAIN archive /\ k > 0
  BY AfterFacts DEF Headers
<1>3. \A k \in DOMAIN archive : after(k) \in Nat /\ after(k) > k
  BY AfterFacts
<1>7. \A k \in HeaderStarts : k > 0 /\ k \in Nat
  BY <1>0, LenProperties DEF Places
<1>4. NoGap(1)
  <2>1. ASSUME 1 \in DOMAIN archive, NEW k \in HeaderStarts PROVE k <= 1 \/ after(1) <= k
    <3> DEFINE T == {n \in HeaderStarts : n <= 1 \/ after(1) <= n}
    <3>1. T \in SUBSET Places
      BY <1>0
    <3>2. 1 \in T
      BY <1>0 DEF Chained
    <3>3. ASSUME NEW n \in T \cap DOMAIN archive, after(n) \in Places PROVE after(n) \in T
      <4>1. after(n) \in HeaderStarts
        BY <1>0, <3>3 DEF Chained
      <4>2. n \in Nat /\ n > 0 /\ after(n) > n /\ after(n) \in Nat /\ after(1) \in Nat
        BY <1>3, <1>7, <2>1
      <4>3. n = 1 \/ after(1) <= n
        BY <4>2
      <4> QED BY <4>1, <4>2, <4>3
    <3>4. Chained(T)
      BY <3>2, <3>3 DEF Chained
    <3> QED BY <3>1, <3>4, StartsLeast
  <2>2. \A k \in Headers : ~(k < 1)
    BY <1>2
  <2> QED BY <2>1, <2>2 DEF NoGap
<1>5. ASSUME NEW n \in S \cap DOMAIN archive, after(n) \in Places PROVE after(n) \in S
  <2> DEFINE m == after(n)
  <2>1. m \in HeaderStarts /\ n \in Headers /\ m \in Nat /\ n \in Nat /\ m > n
    BY <1>0, <1>3, <1>5 DEF Chained, Headers, Places
  <2>2. ASSUME NEW k \in Headers, k < m PROVE after(k) <= m
    <3>1. k <= n
      BY <1>2, <2>1, <2>2, <1>5 DEF NoGap
    <3>2. CASE k = n
      BY <2>1, <3>2
    <3>3. CASE k < n
      <4>1. after(k) <= n
        BY <1>5, <3>3 DEF NoGap
      <4> QED BY <1>2, <1>3, <2>1, <4>1
    <3> QED BY <1>2, <2>1, <3>1, <3>2, <3>3
  <2>3. ASSUME m \in DOMAIN archive, NEW k \in HeaderStarts PROVE k <= m \/ after(m) <= k
    <3> DEFINE T == {h \in HeaderStarts : h <= m \/ after(m) <= h}
    <3>1. T \in SUBSET Places
      BY <1>0
    <3>2. 1 \in T
      BY <1>0, <1>7, <2>1 DEF Chained
    <3>3. ASSUME NEW h \in T \cap DOMAIN archive, after(h) \in Places PROVE after(h) \in T
      <4>1. after(h) \in HeaderStarts /\ h \in Headers
        BY <1>0, <3>3 DEF Chained, Headers
      <4>2. h \in Nat /\ after(h) > h /\ after(h) \in Nat /\ after(m) \in Nat
        BY <1>2, <1>3, <2>3, <4>1
      <4>3. CASE h < m
        BY <2>2, <4>1, <4>3
      <4>4. CASE h = m
        BY <4>1, <4>2, <4>4
      <4>5. CASE after(m) <= h
        BY <4>1, <4>2, <4>5
      <4> QED BY <2>1, <4>2, <4>3, <4>4, <4>5
    <3>4. Chained(T)
      BY <3>2, <3>3 DEF Chained
    <3> QED BY <3>1, <3>4, StartsLeast
  <2> QED BY <2>1, <2>2, <2>3 DEF NoGap
<1>6. Chained(S)
  BY <1>0, <1>4, <1>5 DEF Chained
<1> QED BY <1>1, <1>6, StartsLeast
-----------------------------------------------------------------------------
(* The reader.                                                             *)

\* The halves of an entry, piece by piece.
Piece(from, n) == [x \in 1..n |-> from + x]

LEMMA HalvesFacts ==
    ASSUME NEW j \in Nat, NEW a \in Nat, NEW n \in Nat
    PROVE  /\ Halves(j, 0) = <<>> /\ Halves(j, a) \in Seq(Nat)
           /\ Halves(j, a) \o Piece(2 * j + a, n) = Halves(j, a + n)
<1> DEFINE more == Piece(2 * j + a, n)
<1>1. Halves(j, a) \in Seq(Nat) /\ Len(Halves(j, a)) = a
  <2>1. Halves(j, a) \in [1..a -> Nat]
    BY DEF Halves
  <2> QED BY <2>1, LenProperties, SeqDef
<1>2. more \in Seq(Nat) /\ Len(more) = n
  <2>1. more \in [1..n -> Nat]
    BY DEF Piece
  <2> QED BY <2>1, LenProperties, SeqDef
<1>3. Halves(j, a + n) \in Seq(Nat) /\ Len(Halves(j, a + n)) = a + n
  <2>1. Halves(j, a + n) \in [1..(a + n) -> Nat]
    BY DEF Halves
  <2> QED BY <2>1, LenProperties, SeqDef
<1>4. /\ Halves(j, a) \o more \in Seq(Nat) /\ Len(Halves(j, a) \o more) = a + n
      /\ \A i \in 1..(a + n) : (Halves(j, a) \o more)[i] =
            IF i <= a THEN Halves(j, a)[i] ELSE more[i - a]
  <2> DEFINE h == Halves(j, a)
  <2>1. h \in Seq(Nat) /\ more \in Seq(Nat) /\ Len(h) = a /\ Len(more) = n
    BY <1>1, <1>2
  <2> HIDE DEF h, more
  <2>2. h \o more \in Seq(Nat) /\ Len(h \o more) = a + n
    BY <2>1, ConcatProperties
  <2>3. \A i \in 1..(a + n) : (h \o more)[i] = IF i <= a THEN h[i] ELSE more[i - a]
    BY <2>1, ConcatProperties
  <2> QED BY <2>2, <2>3 DEF h
<1>5. \A i \in 1..(a + n) : (Halves(j, a) \o more)[i] = Halves(j, a + n)[i]
  BY <1>4 DEF Halves, Piece
<1>6. Halves(j, a) \o more = Halves(j, a + n)
  BY <1>3, <1>4, <1>5, SeqEqual
<1>7. Halves(j, 0) = <<>>
  <2>1. Halves(j, 0) = [m \in {} |-> 2 * j + m]
    BY DEF Halves
  <2> QED BY <2>1
<1> QED BY <1>1, <1>6, <1>7

\* What is where, as long as the archive stays the same.
LEMMA ArchiveStays ==
    ASSUME UNCHANGED tarVars
    PROVE  /\ archive' = archive /\ stray' = stray /\ total' = total
           /\ HeaderStarts' = HeaderStarts /\ Headers' = Headers /\ Entries' = Entries
           /\ WellFormed' = WellFormed /\ Closing' = Closing
           /\ at' = at => Passed' = Passed
<1>1. archive' = archive /\ stray' = stray
  BY DEF tarVars
<1>2. HeaderStarts' = HeaderStarts
  BY <1>1 DEF HeaderStarts, Places, Chained, after
<1>3. Headers' = Headers
  BY <1>1, <1>2 DEF Headers
<1>4. Entries' = Entries
  BY <1>1, <1>3 DEF Entries
<1> QED BY <1>1, <1>2, <1>3, <1>4 DEF total, WellFormed, Closing, Passed

\* The header in the buffer.
LEMMA HeaderHere ==
    ASSUME ReaderInv, state = "header", ~Idle
    PROVE  \E i \in Headers :
              /\ Header = archive[i] /\ archive[i] \in Block /\ at = 2 * (i - 1)
              /\ i \notin Passed /\ \A k \in Passed : k < i
              /\ UNCHANGED tarVars /\ at' = at + BLOCK => Passed' = Passed \cup {i}
<1>1. PICK i \in HeaderStarts : at = 2 * (i - 1)
  BY DEF ReaderInv, PlaceInv
<1>2. archive \in Seq(Block) /\ at + 2 <= upto /\ upto <= total /\ stray \in {0, 1}
      /\ at \in Nat /\ upto \in Nat
  BY DEF ReaderInv, ReaderType, Idle, buffered, BLOCK
<1>3. Len(archive) \in Nat /\ DOMAIN archive = 1..Len(archive)
  BY <1>2, LenProperties
<1>4. i \in Nat /\ i > 0
  BY <1>1, <1>2, <1>3, StartsChained DEF Places
<1>5. i \in Headers
  BY <1>1, <1>2, <1>3, <1>4 DEF Headers, total
<1>6. (at \div BLOCK) + 1 = i
  BY <1>1, <1>4 DEF BLOCK
<1>7. Header = archive[i] /\ archive[i] \in Block
  BY <1>2, <1>3, <1>5, <1>6, AfterFacts DEF Header, Headers
<1>8. Headers \subseteq Nat
  BY <1>3 DEF Headers
<1>9. \A k \in Passed : k < i
  BY <1>1, <1>4, <1>8 DEF Passed
<1>10. ASSUME UNCHANGED tarVars, at' = at + BLOCK PROVE Passed' = Passed \cup {i}
  <2>1. Headers' = Headers /\ at' = 2 * i
    BY <1>1, <1>4, <1>10, ArchiveStays DEF BLOCK
  <2>2. \A k \in Headers : 2 * (k - 1) < 2 * i <=> 2 * (k - 1) < 2 * (i - 1) \/ k = i
    BY <1>4, <1>8
  <2> QED BY <1>1, <1>5, <2>1, <2>2 DEF Passed
<1> QED BY <1>1, <1>4, <1>5, <1>7, <1>9, <1>10

\* No header is passed within an entry.
LEMMA PassedStays ==
    ASSUME archive \in Seq(Block), at \in Nat, NEW j \in Headers, UNCHANGED tarVars,
           2 * j <= at, at' \in Nat, at <= at', at' <= 2 * (after(j) - 1)
    PROVE  Passed' = Passed
<1>1. Headers' = Headers
  BY ArchiveStays
<1>2. Headers \subseteq Nat /\ j \in DOMAIN archive /\ Headers \subseteq HeaderStarts
  BY LenProperties DEF Headers
<1>3. after(j) \in Nat
  BY <1>2, AfterFacts
<1>4. ASSUME NEW k \in Headers, 2 * (k - 1) < at' PROVE 2 * (k - 1) < at
  <2>1. k < after(j) /\ k \in Nat
    BY <1>2, <1>3, <1>4
  <2>2. k <= j
    BY <1>2, <1>3, <2>1, NoGapAnywhere DEF NoGap
  <2> QED BY <1>2, <2>1, <2>2
<1> QED BY <1>1, <1>2, <1>4 DEF Passed

\* When all is consumed the reader has seen every header.
LEMMA AllPassed ==
    ASSUME ReaderInv, at = total, ~(state = "data" /\ paddedRemaining > 0)
    PROVE  stray = 0 /\ Len(archive) + 1 \in HeaderStarts /\ Passed = Headers
<1>1. archive \in Seq(Block) /\ stray \in {0, 1} /\ paddedRemaining \in Nat /\ state \in {"header", "data"}
  BY DEF ReaderInv, ReaderType
<1>2. Len(archive) \in Nat /\ DOMAIN archive = 1..Len(archive)
  BY <1>1, LenProperties
<1>3. \E i \in Nat : at = 2 * (i - 1) /\ (i \in HeaderStarts \/ \E j \in Headers : i = after(j))
  <2>1. CASE state = "header"
    BY <1>1, <2>1, StartsChained DEF ReaderInv, PlaceInv
  <2>2. CASE state = "data"
    <3>1. PICK j \in Passed : Reading(j)
      BY <2>2 DEF ReaderInv, PlaceInv
    <3>2. j \in Headers /\ j \in DOMAIN archive /\ at + paddedRemaining = 2 * (after(j) - 1)
          /\ paddedRemaining = 0 /\ at \in Nat
      BY <1>1, <2>2, <3>1 DEF Reading, Headers, ReaderInv, ReaderType
    <3>3. after(j) \in Nat
      BY <1>1, <3>2, AfterFacts
    <3> QED BY <3>2, <3>3
  <2> QED BY <1>1, <2>1, <2>2
<1>4. PICK i \in Nat : at = 2 * (i - 1) /\ (i \in HeaderStarts \/ \E j \in Headers : i = after(j))
  BY <1>3
<1>5. stray = 0 /\ i = Len(archive) + 1
  BY <1>1, <1>2, <1>4 DEF total
<1>6. i \in HeaderStarts
  <2>1. i \in Places
    BY <1>2, <1>5 DEF Places
  <2> QED BY <1>1, <1>4, <2>1, StartsChained DEF Chained, Headers
<1>7. Passed = Headers
  BY <1>2, <1>5 DEF Passed, Headers, total
<1> QED BY <1>5, <1>6, <1>7

\* What the reader has seen of a whole archive makes it well-formed.
LEMMA EndIsExact ==
    ASSUME ReaderInv, gunzipEnded
    PROVE  WellFormed /\ written = content
<1>1. /\ foundEntry /\ ~capturing /\ stray = 0 /\ Len(archive) + 1 \in HeaderStarts /\ Passed = Headers
  BY AllPassed DEF ReaderInv, EndInv
<1>2. PICK e \in Headers : archive[e].target
  BY <1>1 DEF ReaderInv, PassedInv
<1>3. Entries = {e}
  BY <1>1, <1>2 DEF ReaderInv, PassedInv, Entries
<1>4. Cardinality(Entries) = 1
  BY <1>3, FS_Singleton
<1>5. WellFormed
  BY <1>1, <1>3, <1>4 DEF WellFormed, ReaderInv, PassedInv, Entries
<1>6. (CHOOSE i \in Entries : TRUE) = e
  BY <1>3
<1>7. written = content
  BY <1>1, <1>2, <1>6 DEF content, ReaderInv, PassedInv
<1> QED BY <1>5, <1>7-----------------------------------------------------------------------------
(* The steps of the reader.                                                *)

\* Nothing happens to the reader.
LEMMA ReaderStays ==
    ASSUME ReaderInv, UNCHANGED <<tarVars, reader>>
    PROVE  ReaderInv'
<1> USE DEF reader, readVars, endVars
<1>1. /\ archive' = archive /\ total' = total /\ HeaderStarts' = HeaderStarts /\ Headers' = Headers
      /\ WellFormed' = WellFormed /\ Closing' = Closing /\ Passed' = Passed /\ stray' = stray
  BY ArchiveStays
<1>2. ReaderType'
  BY <1>1 DEF ReaderInv, ReaderType
<1>3. PlaceInv'
  BY <1>1 DEF ReaderInv, PlaceInv, Reading, after
<1>4. PassedInv'
  BY <1>1 DEF ReaderInv, PassedInv
<1>5. EndInv'
  BY <1>1 DEF ReaderInv, EndInv
<1>6. RejectInv'
  BY <1>1 DEF ReaderInv, RejectInv
<1> QED BY <1>2, <1>3, <1>4, <1>5, <1>6 DEF ReaderInv

\* Before the end of the archive nothing is settled.
LEMMA EndNotSeen ==
    ASSUME ReaderInv, settled = "no", ~Idle
    PROVE  ~gunzipEnded
  BY DEF ReaderInv, ReaderType, EndInv, Idle, buffered, BLOCK, total

\* More of the archive arrives.
LEMMA DataKeeps ==
    ASSUME ReaderInv, Data
    PROVE  ReaderInv'
<1> USE DEF Data, Extracting, endVars
<1>1. /\ archive' = archive /\ total' = total /\ HeaderStarts' = HeaderStarts /\ Headers' = Headers
      /\ WellFormed' = WellFormed /\ Closing' = Closing /\ Passed' = Passed /\ stray' = stray
  BY ArchiveStays
<1>2. ReaderType'
  <2>1. PICK n \in (upto + 1)..total : upto' = n
    OBVIOUS
  <2>2. total \in Nat
    BY LenProperties DEF total, ReaderInv, ReaderType
  <2> QED BY <1>1, <2>1, <2>2 DEF ReaderInv, ReaderType
<1>3. PlaceInv'
  BY <1>1 DEF ReaderInv, PlaceInv, Reading, after
<1>4. PassedInv'
  BY <1>1 DEF ReaderInv, PassedInv
<1>5. EndInv'
  BY <1>1 DEF ReaderInv, EndInv
<1>6. RejectInv'
  BY <1>1 DEF ReaderInv, RejectInv
<1> QED BY <1>2, <1>3, <1>4, <1>5, <1>6 DEF ReaderInv

\* A zero block is passed.
LEMMA ZeroBlockKeeps ==
    ASSUME ReaderInv, ZeroBlock
    PROVE  ReaderInv'
<1> USE DEF ZeroBlock, header, Extracting, endVars
<1>1. /\ archive' = archive /\ total' = total /\ HeaderStarts' = HeaderStarts /\ Headers' = Headers
      /\ WellFormed' = WellFormed /\ Closing' = Closing /\ stray' = stray
  BY ArchiveStays
<1>2. PICK i \in Headers :
         /\ archive[i].k = "zero" /\ archive[i] \in Block /\ at = 2 * (i - 1)
         /\ i \notin Passed /\ (\A k \in Passed : k < i) /\ Passed' = Passed \cup {i}
  BY HeaderHere
<1>3. ~archive[i].target /\ archive[i].size = 0
  BY <1>2, BlockFacts
<1>4. archive \in Seq(Block) /\ i \in DOMAIN archive /\ i \in HeaderStarts /\ i \in Nat
  BY LenProperties DEF ReaderInv, ReaderType, Headers
<1>5. total \in Nat /\ at \in Nat /\ upto \in Nat /\ at + 2 <= upto /\ upto <= total /\ stray \in {0, 1}
  BY LenProperties DEF ReaderInv, ReaderType, Idle, buffered, BLOCK, total
<1>6. ReaderType'
  BY <1>1, <1>5 DEF ReaderInv, ReaderType, BLOCK
<1>7. PlaceInv'
  <2>1. after(i) = i + 1 /\ at' = 2 * ((i + 1) - 1)
    BY <1>2, <1>3, <1>4, AfterFacts DEF BLOCK
  <2>2. i + 1 \in Places
    BY <1>4, LenProperties DEF Places
  <2>3. i + 1 \in HeaderStarts
    BY <1>4, <2>1, <2>2, StartsChained DEF Chained
  <2> QED BY <1>1, <2>1, <2>3 DEF ReaderInv, PlaceInv
<1>8. PassedInv'
  <2>1. Passed \subseteq Nat
    BY <1>4, LenProperties DEF Passed, Headers
  <2>2. PassedInv
    BY DEF ReaderInv
  <2>3. ASSUME NEW k \in Passed', NEW l \in Passed', k < l, archive[k].k = "zero"
        PROVE  archive[l].k = "zero"
    <3>1. CASE l = i
      BY <1>2, <3>1
    <3>2. CASE l \in Passed
      <4>1. l < i /\ l \in Nat /\ k \in Nat
        BY <1>2, <1>4, <2>1, <3>2
      <4>2. k \in Passed
        BY <1>2, <1>4, <2>3, <4>1
      <4> QED BY <2>2, <2>3, <3>2, <4>2 DEF PassedInv
    <3> QED BY <1>2, <3>1, <3>2
  <2>4. /\ \A k \in Passed' : archive[k].k # "bad"
        /\ archiveEnded' = (\E k \in Passed' : archive[k].k = "zero")
        /\ foundEntry' = (\E k \in Passed' : archive[k].target)
        /\ \A k \in Passed' : archive[k].target => k \in Passed
    BY <1>2, <1>3, <2>2 DEF PassedInv
  <2> QED BY <1>1, <2>2, <2>3, <2>4 DEF PassedInv
<1>9. EndInv'
  BY <1>1, EndNotSeen DEF ReaderInv, EndInv
<1>10. RejectInv'
  BY <1>1 DEF ReaderInv, RejectInv
<1> QED BY <1>6, <1>7, <1>8, <1>9, <1>10 DEF ReaderInv

\* The header of an entry is passed.
LEMMA EntryHeaderKeeps ==
    ASSUME ReaderInv, EntryHeader
    PROVE  ReaderInv'
<1> USE DEF EntryHeader, header, Extracting
<1>1. /\ archive' = archive /\ total' = total /\ HeaderStarts' = HeaderStarts /\ Headers' = Headers
      /\ WellFormed' = WellFormed /\ Closing' = Closing /\ stray' = stray
  BY ArchiveStays
<1>2. PICK i \in Headers :
         /\ Header = archive[i] /\ archive[i] \in Block /\ at = 2 * (i - 1)
         /\ i \notin Passed /\ (\A k \in Passed : k < i) /\ Passed' = Passed \cup {i}
  BY HeaderHere
<1>3. /\ archive[i].k \in {"file", "dir"} /\ archive[i].target \in BOOLEAN /\ ~archiveEnded
      /\ archive[i].target => ~foundEntry /\ archive[i].k = "file" /\ archive[i].size > 0
      /\ archive[i].size \in Nat
  BY <1>2, BlockFacts DEF rejected
<1>4. archive \in Seq(Block) /\ i \in DOMAIN archive /\ i \in HeaderStarts /\ i \in Nat
  BY LenProperties DEF ReaderInv, ReaderType, Headers
<1>5. total \in Nat /\ at \in Nat /\ upto \in Nat /\ at + 2 <= upto /\ upto <= total /\ stray \in {0, 1}
  BY LenProperties DEF ReaderInv, ReaderType, Idle, buffered, BLOCK, total
<1> DEFINE size == archive[i].size
<1>6. blocks(size) \in Nat /\ (size > 0 => blocks(size) > 0)
  BY <1>3, BlocksFacts
<1>7. /\ at' = 2 * i /\ state' = "data" /\ paddedRemaining' = 2 * blocks(size)
      /\ declaredRemaining' = size /\ capturing' = archive[i].target
      /\ foundEntry' = (foundEntry \/ archive[i].target)
  BY <1>2, <1>4 DEF BLOCK
<1>8. ReaderType'
  BY <1>1, <1>2, <1>3, <1>5, <1>6, <1>7 DEF ReaderInv, ReaderType, BLOCK
<1>9. PlaceInv'
  <2>1. after(i)' = i + 1 + blocks(size)
    BY <1>1 DEF after
  <2>2. 2 * i <= at' /\ at' + paddedRemaining' = 2 * (after(i)' - 1)
    BY <1>4, <1>6, <1>7, <2>1
  <2>3. ASSUME archive[i].target
        PROVE  /\ written' = Halves(i, size - declaredRemaining') /\ at' - 2 * i < size
               /\ declaredRemaining' = size - (at' - 2 * i) /\ paddedRemaining' > 0
    <3>1. written' = <<>>
      BY <1>3, <2>3 DEF ReaderInv, EndInv
    <3>2. Halves(i, 0) = <<>>
      BY <1>4, HalvesFacts
    <3> QED BY <1>3, <1>4, <1>6, <1>7, <2>3, <3>1, <3>2
  <2>4. Reading(i)'
    BY <1>1, <1>3, <1>7, <2>2, <2>3 DEF Reading
  <2> QED BY <1>2, <1>7, <2>4 DEF PlaceInv
<1>10. PassedInv'
  <2>1. Passed \subseteq Nat
    BY <1>4, LenProperties DEF Passed, Headers
  <2>2. (\A k \in Passed : archive[k].k # "zero") /\ archiveEnded' = archiveEnded
    BY <1>3 DEF ReaderInv, PassedInv
  <2>3. foundEntry = \E k \in Passed : archive[k].target
    BY DEF ReaderInv, PassedInv
  <2>4. ASSUME NEW k \in Passed', archive[k].target, ~capturing'
        PROVE written' = Halves(k, archive[k].size)
    BY <1>2, <1>7, <2>4 DEF ReaderInv, PassedInv, PlaceInv
  <2> QED BY <1>1, <1>2, <1>3, <1>4, <1>7, <2>1, <2>2, <2>3, <2>4 DEF ReaderInv, PassedInv
<1>11. EndInv'
  <2>1. ~gunzipEnded /\ ~capturing
    BY EndNotSeen DEF ReaderInv, PlaceInv
  <2> QED BY <1>1, <1>2, <1>3, <2>1 DEF ReaderInv, EndInv
<1>12. RejectInv'
  BY <1>1 DEF ReaderInv, RejectInv
<1> QED BY <1>8, <1>9, <1>10, <1>11, <1>12 DEF ReaderInv
\* A well-formed archive has the one entry only.
LEMMA OneEntry ==
    ASSUME archive \in Seq(Block), WellFormed
    PROVE  \E e : Entries = {e}
<1>1. Len(archive) \in Nat /\ Entries \subseteq 1..Len(archive)
  BY LenProperties DEF Entries, Headers
<1>2. IsFiniteSet(1..Len(archive))
  BY <1>1, FS_Interval
<1>3. IsFiniteSet(Entries)
  BY <1>1, <1>2, FS_Subset
<1> QED BY <1>3, FS_Singleton DEF WellFormed

\* The reader gives up, for a reason.
LEMMA FailKeeps ==
    ASSUME ReaderInv, Extracting, fail, UNCHANGED <<readVars, written>>, ioError' \in BOOLEAN,
           ioError' \/ ~(WellFormed /\ Closing)
    PROVE  ReaderInv'
<1> USE DEF Extracting, readVars, fail
<1>1. /\ archive' = archive /\ total' = total /\ HeaderStarts' = HeaderStarts /\ Headers' = Headers
      /\ WellFormed' = WellFormed /\ Closing' = Closing /\ Passed' = Passed /\ stray' = stray
  BY ArchiveStays
<1>2. ReaderType'
  BY <1>1 DEF ReaderInv, ReaderType
<1>3. PlaceInv'
  BY <1>1 DEF ReaderInv, PlaceInv, Reading, after
<1>4. PassedInv'
  BY <1>1 DEF ReaderInv, PassedInv
<1>5. EndInv'
  BY <1>1 DEF ReaderInv, EndInv
<1>6. RejectInv'
  BY <1>1 DEF ReaderInv, RejectInv
<1> QED BY <1>2, <1>3, <1>4, <1>5, <1>6 DEF ReaderInv

\* No header of a well-formed archive is rejected.
LEMMA RejectedHeaderKeeps ==
    ASSUME ReaderInv, RejectedHeader
    PROVE  ReaderInv'
<1> USE DEF RejectedHeader, header
<1>1. PICK i \in Headers :
         Header = archive[i] /\ archive[i] \in Block /\ i \notin Passed /\ \A k \in Passed : k < i
  BY HeaderHere
<1>2. archive \in Seq(Block) /\ Passed \subseteq Headers
  BY DEF ReaderInv, ReaderType, Passed
<1>3. SUFFICES ASSUME WellFormed PROVE FALSE
  BY FailKeeps DEF ReaderInv, ReaderType
<1>4. archive[i].target => i \in Entries
  BY <1>1 DEF Entries
<1>5. CASE archiveEnded
  BY <1>1, <1>2, <1>3, <1>5 DEF WellFormed, ReaderInv, PassedInv
<1>6. CASE Header.k = "bad"
  BY <1>1, <1>3, <1>6 DEF WellFormed
<1>7. CASE Header.target /\ foundEntry
  <2>1. PICK k \in Passed : archive[k].target
    BY <1>7 DEF ReaderInv, PassedInv
  <2>2. k \in Entries /\ i \in Entries /\ k # i
    BY <1>1, <1>2, <1>4, <1>7, <2>1 DEF Entries
  <2> QED BY <1>2, <1>3, <2>2, OneEntry
<1>8. CASE Header.target /\ (Header.k = "dir" \/ Header.size = 0)
  <2>1. archive[i].k = "file" /\ archive[i].size > 0
    BY <1>1, <1>3, <1>4, <1>8 DEF WellFormed
  <2> QED BY <1>1, <1>8, <2>1, BlockFacts
<1> QED BY <1>5, <1>6, <1>7, <1>8 DEF rejected

\* The end of the archive.
LEMMA GunzipEndKeeps ==
    ASSUME ReaderInv, GunzipEnd
    PROVE  ReaderInv'
<1> USE DEF GunzipEnd
<1>1. /\ archive \in Seq(Block) /\ stray \in {0, 1} /\ at \in Nat /\ upto \in Nat /\ at <= upto
      /\ upto = total /\ upto < at + 2 /\ paddedRemaining \in Nat /\ state \in {"header", "data"}
  BY DEF ReaderInv, ReaderType, Idle, buffered, BLOCK
<1>2. Len(archive) \in Nat /\ DOMAIN archive = 1..Len(archive) /\ total = 2 * Len(archive) + stray
  BY <1>1, LenProperties DEF total
<1>3. CASE ~foundEntry \/ (state = "data" /\ paddedRemaining > 0) \/ buffered # 0
  <2>1. SUFFICES ASSUME WellFormed, Closing PROVE FALSE
    BY <1>3, FailKeeps DEF ReaderInv, ReaderType
  <2>2. total = 2 * Len(archive) /\ Len(archive) \in HeaderStarts
    BY <1>1, <1>2, <2>1 DEF WellFormed, Closing, Headers
  <2>3. CASE state = "data" /\ paddedRemaining > 0
    <3>1. PICK j \in Passed : Reading(j)
      BY <2>3 DEF ReaderInv, PlaceInv
    <3>2. /\ j \in Headers /\ j \in DOMAIN archive /\ archive[j].k # "zero"
          /\ at + paddedRemaining = 2 * (after(j) - 1)
      BY <3>1 DEF Reading, Headers
    <3>3. after(j) \in Nat /\ j \in Nat /\ j < Len(archive)
      BY <1>1, <1>2, <2>1, <3>2, AfterFacts DEF Closing
    <3>4. after(j) <= Len(archive)
      BY <1>1, <2>2, <3>2, <3>3, NoGapAnywhere DEF NoGap
    <3> QED BY <1>1, <1>2, <2>2, <2>3, <3>2, <3>3, <3>4
  <2>4. CASE ~(state = "data" /\ paddedRemaining > 0)
    <3>1. \E n \in Int : at = 2 * n
      <4>1. CASE state = "header"
        <5>1. PICK i \in HeaderStarts : at = 2 * (i - 1)
          BY <4>1 DEF ReaderInv, PlaceInv
        <5>2. i \in Nat
          BY <1>1, <5>1, StartsChained
        <5> QED BY <5>1, <5>2
      <4>2. CASE state = "data"
        <5>1. PICK j \in Passed : Reading(j)
          BY <4>2 DEF ReaderInv, PlaceInv
        <5>2. at = 2 * (after(j) - 1) /\ j \in DOMAIN archive
          BY <1>1, <2>4, <4>2, <5>1 DEF Reading, Headers
        <5>3. after(j) \in Nat
          BY <1>1, <5>2, AfterFacts
        <5> QED BY <5>2, <5>3
      <4> QED BY <1>1, <4>1, <4>2
    <3>2. at = total
      BY <1>1, <1>2, <2>2, <3>1
    <3>3. ~foundEntry
      BY <1>1, <1>3, <2>4, <3>2 DEF buffered
    <3>4. Passed = Headers
      BY <2>4, <3>2, AllPassed
    <3>5. Entries = {}
      BY <3>3, <3>4 DEF ReaderInv, PassedInv, Entries
    <3> QED BY <1>1, <2>1, <3>5, OneEntry
  <2> QED BY <2>3, <2>4
<1>4. CASE foundEntry /\ ~(state = "data" /\ paddedRemaining > 0) /\ buffered = 0
  <2> USE DEF Extracting, readVars
  <2>1. /\ archive' = archive /\ total' = total /\ HeaderStarts' = HeaderStarts /\ Headers' = Headers
        /\ WellFormed' = WellFormed /\ Closing' = Closing /\ Passed' = Passed /\ stray' = stray
    BY ArchiveStays
  <2>2. ~capturing
    BY <1>1, <1>4 DEF ReaderInv, PlaceInv, Reading
  <2>3. out' = out /\ out # "open"
    BY <1>3, <1>4, <2>2 DEF ReaderInv, EndInv
  <2>4. /\ gunzipEnded' = TRUE /\ targetClosed' = targetClosed
        /\ settled' = IF targetClosed THEN "resolved" ELSE "no"
    BY <1>4 DEF maybeSucceed
  <2>5. ReaderType'
    BY <2>1, <2>3, <2>4 DEF ReaderInv, ReaderType
  <2>6. PlaceInv'
    BY <2>1 DEF ReaderInv, PlaceInv, Reading, after
  <2>7. PassedInv'
    BY <2>1 DEF ReaderInv, PassedInv
  <2>8. EndInv'
    BY <1>1, <1>4, <2>1, <2>2, <2>3, <2>4 DEF ReaderInv, EndInv, buffered
  <2>9. RejectInv'
    BY <2>4 DEF RejectInv
  <2> QED BY <2>5, <2>6, <2>7, <2>8, <2>9 DEF ReaderInv
<1> QED BY <1>1, <1>3, <1>4

\* The temporary file is closed.
LEMMA OutCloseKeeps ==
    ASSUME ReaderInv, OutClose
    PROVE  ReaderInv'
<1> USE DEF OutClose, Extracting, readVars
<1>1. /\ archive' = archive /\ total' = total /\ HeaderStarts' = HeaderStarts /\ Headers' = Headers
      /\ WellFormed' = WellFormed /\ Closing' = Closing /\ Passed' = Passed /\ stray' = stray
  BY ArchiveStays
<1>2. ~capturing /\ foundEntry
  BY DEF ReaderInv, ReaderType, EndInv
<1>3. settled' = IF gunzipEnded THEN "resolved" ELSE "no"
  BY DEF maybeSucceed
<1>4. ReaderType'
  BY <1>1, <1>3 DEF ReaderInv, ReaderType
<1>5. PlaceInv'
  BY <1>1 DEF ReaderInv, PlaceInv, Reading, after
<1>6. PassedInv'
  BY <1>1 DEF ReaderInv, PassedInv
<1>7. EndInv'
  BY <1>1, <1>2, <1>3 DEF ReaderInv, EndInv, ReaderType
<1>8. RejectInv'
  BY <1>3 DEF RejectInv
<1> QED BY <1>4, <1>5, <1>6, <1>7, <1>8 DEF ReaderInv

\* A stream fails.
LEMMA StreamErrorKeeps ==
    ASSUME ReaderInv, StreamError
    PROVE  ReaderInv'
  BY FailKeeps DEF StreamError
\* What is left of an entry's size when some more of its blocks are consumed.
Left(size, left, off) == IF off < size THEN left = size - off ELSE left = 0

LEMMA LeftFacts ==
    ASSUME NEW size \in Nat, NEW left \in Nat, NEW off \in Nat, NEW take \in Nat, Left(size, left, off)
    PROVE  /\ left <= size
           /\ Smaller(take, left) > 0 => off = size - left
           /\ Left(size, left - Smaller(take, left), off + take)
  BY DEF Left, Smaller

\* Bytes of an entry are passed, and those of the one entry written.
LEMMA EntryDataKeeps ==
    ASSUME ReaderInv, EntryData
    PROVE  ReaderInv'
<1> DEFINE take == Smaller(paddedRemaining, buffered)
           n == writeBytes(take)
           piece == Piece(at, n)
<1>1. /\ archive' = archive /\ total' = total /\ HeaderStarts' = HeaderStarts /\ Headers' = Headers
      /\ WellFormed' = WellFormed /\ Closing' = Closing /\ stray' = stray
  BY ArchiveStays DEF EntryData, Extracting
<1>a. /\ declaredRemaining' = declaredRemaining - n /\ at' = at + take
      /\ paddedRemaining' = paddedRemaining - take
  BY DEF EntryData
<1>2. /\ settled = "no" /\ ~Idle /\ state = "data" /\ written' = written \o piece
      /\ paddedRemaining' = 0 => state' = "header" /\ capturing' = FALSE /\ out' = IF capturing THEN "ending" ELSE out
      /\ paddedRemaining' # 0 => state' = state /\ capturing' = capturing /\ out' = out
      /\ upto' = upto /\ foundEntry' = foundEntry /\ archiveEnded' = archiveEnded /\ ioError' = ioError
      /\ gunzipEnded' = gunzipEnded /\ targetClosed' = targetClosed /\ settled' = settled
  BY DEF EntryData, Extracting, Piece
<1>b. /\ at \in Nat /\ upto \in Nat /\ at + 2 <= upto /\ upto <= total
      /\ paddedRemaining \in Nat /\ declaredRemaining \in Nat /\ total \in Nat
  BY <1>2, LenProperties DEF ReaderInv, ReaderType, Idle, buffered, BLOCK, total
<1>3. archive \in Seq(Block) /\ stray \in {0, 1} /\ capturing \in BOOLEAN /\ written \in Seq(Nat)
  BY DEF ReaderInv, ReaderType
<1>4. /\ take \in Nat /\ take <= paddedRemaining /\ at + take <= upto
      /\ n \in Nat /\ n <= take /\ n <= declaredRemaining /\ (~capturing => n = 0)
      /\ capturing => n = Smaller(take, declaredRemaining)
  BY <1>b DEF Smaller, writeBytes, buffered
<1>5. PICK j \in Passed : Reading(j)
  BY <1>2 DEF ReaderInv, PlaceInv
<1>c. 2 * j <= at /\ at + paddedRemaining = 2 * (after(j) - 1)
  BY <1>5 DEF Reading
<1>6. /\ j \in Headers /\ j \in DOMAIN archive
      /\ archive[j].k \in {"file", "dir"} /\ capturing = archive[j].target
      /\ capturing =>
          /\ written = Halves(j, archive[j].size - declaredRemaining)
          /\ Left(archive[j].size, declaredRemaining, at - 2 * j)
  BY <1>5 DEF Reading, Headers, Left
<1>d. j \in Nat /\ after(j) \in Nat
  BY <1>3, <1>6, AfterFacts
<1>7. /\ archive[j].size \in Nat /\ after(j)' = after(j)
      /\ archive[j].size <= 2 * (after(j) - 1) - 2 * j
  <2>1. j \in Nat /\ after(j) \in Nat /\ archive[j].size \in Nat
    BY <1>3, <1>6, AfterFacts, BlockFacts
  <2>2. archive[j].size <= 2 * blocks(archive[j].size) /\ blocks(archive[j].size) \in Nat
    BY <2>1, BlocksFacts
  <2> QED BY <1>1, <2>1, <2>2 DEF after
<1> HIDE DEF take, n, piece
<1>8. at' \in Nat /\ paddedRemaining' \in Nat /\ declaredRemaining' \in Nat /\ at <= at'
      /\ at' + paddedRemaining' = 2 * (after(j) - 1)
  BY <1>a, <1>b, <1>4, <1>c, <1>d
<1>9. Passed' = Passed
  BY <1>1, <1>2, <1>3, <1>6, <1>b, <1>c, <1>d, <1>8, PassedStays DEF EntryData, Extracting
<1>10. ~capturing => written' = written
  <2>1. ASSUME ~capturing PROVE piece = <<>>
    <3>1. n = 0
      BY <1>4, <2>1
    <3>2. piece = [x \in {} |-> at + x]
      BY <3>1 DEF piece, Piece
    <3> QED BY <3>2
  <2> QED BY <1>2, <1>3, <2>1, ConcatEmptySeq
<1>11. ASSUME capturing
       PROVE  /\ declaredRemaining' <= archive[j].size
              /\ written' = Halves(j, archive[j].size - declaredRemaining')
              /\ Left(archive[j].size, declaredRemaining', at' - 2 * j)
  <2> DEFINE size == archive[j].size
             off == at - 2 * j
             a == size - declaredRemaining
  <2>0. Left(size, declaredRemaining, off) /\ n = Smaller(take, declaredRemaining)
        /\ written = Halves(j, a) /\ size \in Nat
    BY <1>4, <1>6, <1>7, <1>11
  <2>1. /\ off \in Nat /\ declaredRemaining \in Nat /\ take \in Nat
        /\ at = 2 * j + off /\ at' - 2 * j = off + take /\ declaredRemaining' = declaredRemaining - n
        /\ n \in Nat /\ n <= declaredRemaining
    BY <1>a, <1>b, <1>c, <1>d, <1>4
  <2> HIDE DEF size, off
  <2>2. /\ declaredRemaining <= size /\ (n > 0 => off = a)
        /\ Left(size, declaredRemaining', at' - 2 * j)
    BY <2>0, <2>1, LeftFacts
  <2>3. a \in Nat /\ a + n = size - declaredRemaining' /\ declaredRemaining' <= size
    BY <2>0, <2>1, <2>2
  <2> HIDE DEF a
  <2>4. piece = Piece(2 * j + a, n)
    <3>1. CASE n > 0
      BY <2>1, <2>2, <3>1 DEF piece
    <3>2. CASE n = 0
      BY <3>2 DEF piece, Piece
    <3> QED BY <2>1, <3>1, <3>2
  <2>5. written' = Halves(j, a + n)
    <3>1. Halves(j, a) \o Piece(2 * j + a, n) = Halves(j, a + n)
      BY <1>d, <2>1, <2>3, HalvesFacts
    <3> QED BY <1>2, <2>0, <2>4, <3>1
  <2> QED BY <2>2, <2>3, <2>5 DEF size
<1>12. written' \in Seq(Nat)
  <2>1. CASE capturing
    <3>1. archive[j].size - declaredRemaining' \in Nat
      BY <1>7, <1>8, <1>11, <2>1
    <3> QED BY <1>d, <1>11, <2>1, <3>1, HalvesFacts
  <2> QED BY <1>3, <1>10, <2>1
<1>13. ReaderType'
  <2>1. at' <= upto' /\ upto' <= total' /\ upto' \in Nat
    BY <1>a, <1>b, <1>1, <1>2, <1>4
  <2>2. state' \in {"header", "data"} /\ capturing' \in BOOLEAN
        /\ out' \in {"none", "open", "ending", "closed", "destroyed"}
    BY <1>2, <1>3 DEF ReaderInv, ReaderType
  <2> QED BY <1>1, <1>2, <1>3, <1>8, <1>12, <2>1, <2>2 DEF ReaderInv, ReaderType
<1>14. PlaceInv'
  <2>1. CASE paddedRemaining' = 0
    <3>1. after(j) \in Places
      <4>1. at' = 2 * (after(j) - 1) /\ at' <= total
        BY <1>a, <1>b, <1>d, <1>4, <1>8, <2>1
      <4>2. total <= 2 * Len(archive) + 1 /\ Len(archive) \in Nat /\ after(j) > j /\ j > 0
        BY <1>3, <1>6, AfterFacts DEF total
      <4> QED BY <1>b, <1>d, <4>1, <4>2 DEF Places
    <3>2. after(j) \in HeaderStarts
      BY <1>3, <1>6, <3>1, StartsChained DEF Chained, Headers
    <3>3. at' = 2 * (after(j) - 1)
      BY <1>d, <1>8, <2>1
    <3> QED BY <1>1, <1>2, <2>1, <3>2, <3>3 DEF PlaceInv
  <2>2. CASE paddedRemaining' # 0
    <3>1. /\ 2 * j <= at' /\ at' + paddedRemaining' = 2 * (after(j)' - 1)
          /\ paddedRemaining' > 0
      BY <1>b, <1>c, <1>d, <1>7, <1>8, <2>2
    <3>2. (capturing' => capturing) /\ capturing' = archive[j].target
      BY <1>2, <1>6, <2>2
    <3>3. Reading(j)'
      BY <1>1, <1>6, <1>11, <3>1, <3>2 DEF Reading, Left
    <3> QED BY <1>2, <1>5, <1>9, <2>2, <3>3 DEF PlaceInv
  <2> QED BY <2>1, <2>2
<1>15. PassedInv'
  <2>1. PassedInv
    BY DEF ReaderInv
  <2>2. ASSUME NEW i \in Passed, archive[i].target, ~capturing'
        PROVE  written' = Halves(i, archive[i].size)
    <3>1. CASE ~capturing
      BY <1>10, <2>1, <2>2, <3>1 DEF PassedInv
    <3>2. CASE capturing
      <4>1. i = j
        BY <1>5, <1>6, <2>1, <2>2, <3>2 DEF PassedInv
      <4>2. declaredRemaining' = 0
        <5>1. paddedRemaining' = 0
          BY <1>2, <2>2, <3>2
        <5>2. archive[j].size <= at' - 2 * j
          BY <1>d, <1>7, <1>8, <5>1
        <5> QED BY <1>d, <1>7, <1>8, <1>11, <3>2, <5>2 DEF Left
      <4> QED BY <1>7, <1>11, <3>2, <4>1, <4>2
    <3> QED BY <1>3, <3>1, <3>2
  <2> QED BY <1>1, <1>2, <1>9, <2>1, <2>2 DEF PassedInv
<1>16. EndInv'
  <2>1. EndInv /\ ~gunzipEnded /\ out \in {"none", "open", "ending", "closed", "destroyed"}
    BY <1>2, EndNotSeen DEF ReaderInv, ReaderType
  <2>2. ~capturing => ~capturing' /\ out' = out
    BY <1>2
  <2>3. capturing' = (out' = "open")
    BY <1>2, <1>3, <2>1 DEF EndInv
  <2> QED BY <1>2, <1>10, <2>1, <2>2, <2>3 DEF EndInv
<1>17. RejectInv'
  BY <1>2 DEF RejectInv
<1> QED BY <1>13, <1>14, <1>15, <1>16, <1>17 DEF ReaderInv-----------------------------------------------------------------------------
(* The runs.                                                               *)

\* A reader that has not begun.
Fresh == archive \in Seq(Block) /\ stray \in {0, 1} /\ ReaderInit

LEMMA FreshReader ==
    Fresh => ReaderInv
<1> SUFFICES ASSUME Fresh PROVE ReaderInv
  OBVIOUS
<1> USE DEF Fresh, ReaderInit
<1>1. Passed = {}
  <2>1. Headers \subseteq Nat /\ \A i \in Headers : i > 0
    BY LenProperties DEF Headers
  <2>2. ASSUME NEW i \in Headers PROVE ~(2 * (i - 1) < at)
    BY <2>1
  <2> QED BY <2>2 DEF Passed
<1>2. ReaderType
  <2>1. Len(archive) \in Nat
    BY LenProperties
  <2>2. total \in Nat /\ 0 <= total
    BY <2>1 DEF total
  <2>3. written \in Seq(Nat)
    BY EmptySeq
  <2>4. /\ archive \in Seq(Block) /\ stray \in {0, 1} /\ upto \in Nat /\ at \in Nat /\ at <= upto
        /\ upto <= total
    BY <2>2
  <2>5. /\ state \in {"header", "data"} /\ paddedRemaining \in Nat /\ declaredRemaining \in Nat
        /\ settled \in {"no", "resolved", "rejected"}
        /\ out \in {"none", "open", "ending", "closed", "destroyed"}
    OBVIOUS
  <2>6. {capturing, foundEntry, archiveEnded, gunzipEnded, targetClosed, ioError} \subseteq BOOLEAN
    OBVIOUS
  <2> QED BY <2>3, <2>4, <2>5, <2>6 DEF ReaderType
<1>3. PlaceInv
  <2>1. 1 \in HeaderStarts
    BY StartsChained DEF Chained
  <2> QED BY <2>1 DEF PlaceInv
<1>4. PassedInv
  BY <1>1 DEF PassedInv
<1>5. EndInv
  BY DEF EndInv
<1>6. RejectInv
  BY DEF RejectInv
<1> QED BY <1>2, <1>3, <1>4, <1>5, <1>6 DEF ReaderInv

LEMMA FetchInvInit ==
    FetchInit => FetchInv
<1> SUFFICES ASSUME FetchInit PROVE FetchInv
  OBVIOUS
<1>1. ReaderInv
  BY FreshReader, EmptySeq DEF FetchInit, Fresh
<1>2. FetchStageInv
  BY DEF FetchInit, FetchStageInv
<1>3. DirInv
  BY DEF FetchInit, DirInv
<1> QED BY <1>1, <1>2, <1>3 DEF FetchInv

\* Only while it extracts does a run move its reader.
ReaderSteps == Data \/ ZeroBlock \/ RejectedHeader \/ EntryHeader \/ EntryData \/ GunzipEnd \/ OutClose \/ StreamError

LEMMA ReaderStepKeeps ==
    ASSUME FetchInv, ReaderSteps
    PROVE  FetchInv'
<1>1. ReaderInv'
  BY DataKeeps, ZeroBlockKeeps, RejectedHeaderKeeps, EntryHeaderKeeps, EntryDataKeeps, GunzipEndKeeps,
     OutCloseKeeps, StreamErrorKeeps DEF FetchInv, ReaderSteps
<1>2. pc = "extract" /\ UNCHANGED <<dirVars, runVars>>
  BY DEF ReaderSteps, Data, ZeroBlock, RejectedHeader, EntryHeader, EntryData, GunzipEnd, OutClose,
         StreamError, header, Extracting
<1>3. FetchStageInv' /\ DirInv'
  BY <1>2 DEF FetchInv, FetchStageInv, DirInv, dirVars, runVars, inputs
<1> QED BY <1>1, <1>3 DEF FetchInv

\* An archive of the model is a sequence of blocks.
LEMMA ArchivesAreSequences ==
    ASSUME NEW a \in Archives
    PROVE  a \in Seq(Block)
  BY SeqDef DEF Archives

LEMMA NextReader ==
    ASSUME FetchInv, [FetchNext]_fetchVars, ~ReaderSteps
    PROVE  ReaderInv'
<1>1. CASE UNCHANGED <<tarVars, reader>>
  BY <1>1, ReaderStays DEF FetchInv
<1>2. CASE SeesBinary \/ Unlink
  <2>1. ReaderInit /\ UNCHANGED reader
    BY <1>2 DEF SeesBinary, Unlink, FetchInv, FetchStageInv
  <2>2. ReaderInit'
    BY <2>1 DEF ReaderInit, reader, readVars, endVars
  <2>3. archive' \in Seq(Block) /\ stray' \in {0, 1}
    BY <1>2, ArchivesAreSequences DEF SeesBinary, Unlink, tarVars, FetchInv, ReaderInv, ReaderType
  <2>4. Fresh' => ReaderInv'
    BY FreshReader, PTL
  <2> QED BY <2>2, <2>3, <2>4 DEF Fresh
<1>3. CASE Crash
  <2>1. archive' \in Seq(Block) /\ stray' \in {0, 1} /\ ReaderInit'
    BY <1>3, EmptySeq DEF Crash, ReaderInit
  <2>2. Fresh' => ReaderInv'
    BY FreshReader, PTL
  <2> QED BY <2>1, <2>2 DEF Fresh
<1>4. CASE maybeClearCache
  BY <1>1, <1>4 DEF maybeClearCache
<1>5. CASE Fetch \/ preFetchArtifacts \/ ensureBinaries
  BY <1>1, <1>5 DEF Fetch, preFetchArtifacts, ensureBinaries, StageEnds, ensureFile, Hash, download, Fetching
<1>6. CASE Rename \/ Chmod \/ makeOverlay \/ launchVm \/ InstanceStart \/ Extracted
  BY <1>1, <1>6 DEF Rename, Chmod, makeOverlay, launchVm, InstanceStart, Extracted
<1>7. CASE Other
  BY <1>1, <1>7 DEF Other, OtherClears, OtherFetches, OtherUnlinks, OtherRenames, OtherChmods, Meddles
<1>8. CASE UNCHANGED fetchVars
  BY <1>1, <1>8 DEF fetchVars
<1> QED BY <1>2, <1>3, <1>4, <1>5, <1>6, <1>7, <1>8 DEF FetchNext, Extract, ReaderSteps

LEMMA NextStage ==
    ASSUME FetchInv, [FetchNext]_fetchVars, ~ReaderSteps
    PROVE  FetchStageInv'
<1> DEFINE First == {"clear", "prefetch", "ensure", "unlink", "unlinking"}
<1>1. CASE UNCHANGED reader /\ (pc' \in First => pc \in First) /\ (pc' = "rename" => settled = "resolved")
  BY <1>1 DEF FetchInv, FetchStageInv, ReaderInit, reader, readVars, endVars
<1>2. CASE SeesBinary \/ Unlink
  BY <1>1, <1>2 DEF SeesBinary, Unlink
<1>3. CASE Crash
  BY <1>3 DEF Crash, FetchStageInv, ReaderInit
<1>4. CASE maybeClearCache
  BY <1>1, <1>4 DEF maybeClearCache
<1>5. CASE Fetch
  BY <1>1, <1>5 DEF Fetch, ensureFile, Hash, download, Fetching, FetchInv, FetchStageInv
<1>6. CASE preFetchArtifacts \/ ensureBinaries
  BY <1>1, <1>6 DEF preFetchArtifacts, ensureBinaries, StageEnds, Fetching
<1>7. CASE Rename \/ Chmod \/ makeOverlay \/ launchVm \/ InstanceStart \/ Extracted
  BY <1>1, <1>7 DEF Rename, Chmod, makeOverlay, launchVm, InstanceStart, Extracted
<1>8. CASE Other
  BY <1>1, <1>8 DEF Other, OtherClears, OtherFetches, OtherUnlinks, OtherRenames, OtherChmods, Meddles,
                    runVars, FetchInv, FetchStageInv
<1>9. CASE UNCHANGED fetchVars
  BY <1>1, <1>9 DEF fetchVars, runVars, FetchInv, FetchStageInv
<1> QED BY <1>2, <1>3, <1>4, <1>5, <1>6, <1>7, <1>8, <1>9 DEF FetchNext, Extract, ReaderSteps

LEMMA NextDir ==
    ASSUME FetchInv, [FetchNext]_fetchVars, ~ReaderSteps
    PROVE  DirInv'
<1>0. DirInv /\ FetchStageInv /\ ReaderInv
  BY DEF FetchInv
<1>1. CASE maybeClearCache
  BY <1>0, <1>1 DEF maybeClearCache, DirInv, dirVars, inputs
<1>2. ASSUME NEW f \in Assets, ensureFile(f) \/ Hash(f) \/ download(f)
      PROVE  DirInv'
  <2>1. fetch[f] # "done" /\ pc' = pc /\ bin' = bin
    BY <1>2 DEF ensureFile, Hash, download, Fetching
  <2>2. /\ fetch' \in [Assets -> {"idle", "hash", "download", "done", "failed"}]
        /\ dir' \in [Assets -> {"absent", "corrupt", "pinned"}]
        /\ \A g \in Assets : g # f => fetch'[g] = fetch[g] /\ dir'[g] = dir[g]
        /\ fetch'[f] = "done" => dir'[f] # "corrupt"
    BY <1>0, <1>2 DEF ensureFile, Hash, download, digested, DirInv
  <2>3. \A g \in Assets : fetch[g] = "done" => fetch'[g] = "done"
    BY <2>1, <2>2
  <2>4. UNCHANGED <<selfTest, copy>>
    BY <1>2 DEF ensureFile, Hash, download, Fetching, inputs
  <2> QED BY <1>0, <2>1, <2>2, <2>3, <2>4 DEF DirInv, Assets
<1>3. CASE preFetchArtifacts \/ ensureBinaries
  BY <1>0, <1>3 DEF preFetchArtifacts, ensureBinaries, StageEnds, Fetching, DirInv, inputs
<1>4. CASE SeesBinary \/ Unlink \/ Chmod \/ launchVm \/ InstanceStart
  BY <1>0, <1>4 DEF SeesBinary, Unlink, Chmod, launchVm, InstanceStart, Steps, DirInv, inputs
<1>10. CASE makeOverlay
  <2>1. copy' = dir[Image] /\ dir[Image] # "absent" /\ ~selfTest /\ pc' = "launch" => copy' = "pinned"
    BY <1>0, <1>10, ConstantsAssumption DEF makeOverlay, DirInv, Assets
  <2>2. pc' = "launch" => copy' = dir[Image] /\ dir[Image] # "absent"
    BY <1>10 DEF makeOverlay
  <2>3. pc = "overlay" /\ pc' \in {"launch", "failed"} /\ UNCHANGED <<dirVars, inputs, fetch>>
    BY <1>10 DEF makeOverlay
  <2> QED BY <1>0, <2>1, <2>2, <2>3 DEF DirInv, dirVars, inputs
<1>5. CASE Extracted
  BY <1>0, <1>5 DEF Extracted, DirInv, dirVars, inputs
<1>6. CASE Rename
  <2>1. WellFormed /\ written = content
    BY <1>0, <1>6, EndIsExact DEF Rename, FetchStageInv, ReaderInv, EndInv
  <2> QED BY <1>0, <1>6, <2>1 DEF Rename, Steps, DirInv, inputs
<1>7. CASE Other
  BY <1>0, <1>7 DEF Other, OtherClears, OtherFetches, OtherUnlinks, OtherRenames, OtherChmods, Meddles,
                    runVars, DirInv, inputs
<1>8. CASE Crash
  BY <1>0, <1>8 DEF Crash, DirInv, dirVars
<1>9. CASE UNCHANGED fetchVars
  BY <1>0, <1>9 DEF fetchVars, dirVars, runVars, DirInv, inputs
<1> QED
  BY <1>1, <1>2, <1>3, <1>4, <1>5, <1>6, <1>7, <1>8, <1>9, <1>10
     DEF FetchNext, Fetch, Extract, ReaderSteps

LEMMA FetchInvNext ==
    FetchInv /\ [FetchNext]_fetchVars => FetchInv'
  BY ReaderStepKeeps, NextReader, NextStage, NextDir DEF FetchInv

\* The inductive invariant of the fetch: where the reader is among the headers, what it knows of
\* those behind it, and which files the run has seen to.
THEOREM FetchInvariant == FetchSpec => []FetchInv
  BY FetchInvInit, FetchInvNext, PTL DEF FetchSpec

\* ExtractExact for every cutting of every archive: extraction resolves only with the whole entry
\* of a well-formed archive, and rejects a well-formed archive only when a stream fails.
THEOREM ExtractExactHolds == FetchSpec => []ExtractExact
<1>1. FetchInv => ExtractExact
  <2> SUFFICES ASSUME FetchInv PROVE ExtractExact
    OBVIOUS
  <2>1. ASSUME settled = "resolved" PROVE WellFormed /\ out = "closed" /\ written = content
    <3>1. gunzipEnded /\ out = "closed"
      BY <2>1 DEF FetchInv, ReaderInv, EndInv
    <3> QED BY <3>1, EndIsExact DEF FetchInv
  <2>2. settled = "rejected" /\ ~ioError => ~(WellFormed /\ Closing)
    BY DEF FetchInv, ReaderInv, RejectInv
  <2> QED BY <2>1, <2>2 DEF ExtractExact, Closing
<1> QED BY <1>1, FetchInvariant, PTL

\* StartsPinned for any assets, any number of runs and any meddling: launchVm spawns the pinned
\* binary, gives it the pinned kernel and, unless the run is a self-test, a copy of the pinned image.
THEOREM StartsPinnedHolds == FetchSpec => StartsPinned
<1> DEFINE Spawned == pc # "configure" /\ pc' = "configure"
           Started == pc # "started" /\ pc' = "started"
           Pinned == dir[Kernel] = "pinned" /\ (copy = "pinned" \/ selfTest)
<1>1. FetchInv /\ [FetchNext]_fetchVars =>
         [(Spawned => bin = "whole") /\ (Started => Pinned)]_fetchVars
  <2> SUFFICES ASSUME FetchInv, FetchNext, Spawned \/ Started
               PROVE  (Spawned => bin = "whole") /\ (Started => Pinned)
    OBVIOUS
  <2>1. launchVm \/ InstanceStart
    BY DEF FetchNext, maybeClearCache, Fetch, ensureFile, Hash, download, preFetchArtifacts, ensureBinaries,
           StageEnds, SeesBinary, Unlink, Extract, Data, ZeroBlock, RejectedHeader, EntryHeader, EntryData,
           GunzipEnd, OutClose, Extracted, StreamError, header, Extracting, runVars, Rename, Chmod,
           makeOverlay, Other, OtherClears, OtherFetches, OtherUnlinks, OtherRenames, OtherChmods,
           Meddles, Crash
  <2>2. CASE launchVm
    BY <2>2 DEF launchVm, FetchInv, DirInv
  <2>3. CASE InstanceStart
    BY <2>3, ConstantsAssumption DEF InstanceStart, FetchInv, DirInv, Assets
  <2> QED BY <2>1, <2>2, <2>3
<1> QED BY <1>1, FetchInvariant, PTL DEF FetchSpec, StartsPinned
=============================================================================
