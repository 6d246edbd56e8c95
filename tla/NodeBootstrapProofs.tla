------------------------- MODULE NodeBootstrapProofs -------------------------
(***************************************************************************)
(* Proofs about NodeBootstrap, for trees of any size and shape and any     *)
(* order in which the files are read.                                      *)
(***************************************************************************)
EXTENDS NodeBootstrap, WellFoundedInduction, TLAPS

\* The dispatcher before its first line.
Fresh ==
    /\ taken = [p \in Pids |-> 0] /\ shimTaken = 0 /\ prompt = TRUE /\ seen = {Root}
    /\ boot = [env |-> {}, file |-> {}, completed |-> {}, children |-> [p \in Pids |-> {}]]
    /\ cand = [pids |-> {}, events |-> [p \in Pids |-> {}], confirmed |-> {}, marked |-> {}]
    /\ envReads = {} /\ fileReads = {}
    /\ packageManagerClientPids = {} /\ completedPackageManagerClientPids = {}
    /\ envEndedTs = [p \in Pids |-> 0] /\ fileEndedTs = [p \in Pids |-> 0]
    /\ deferredRelOpens = <<>> /\ deferredNullAttribEvents = <<>>
    /\ emitted = {} /\ flushed = FALSE

\* A call of p: strace's line of it, and what it changes.
Writes(p, l) ==
    /\ running /\ running' = running /\ p \in live
    /\ l \in Line /\ l.pid = p /\ l.n = calls + 1 /\ calls' = calls + 1 /\ calls' \in 0..MaxCalls
    /\ l.image = image[p] /\ l.startup = (image[leader[p]] = "starting")
    /\ l.call \notin {"read", "thread"} => leader[p] = p
    /\ l.call \in {"exec", "clone", "thread", "read", "marker", "exit"}
    /\ l.call \in {"clone", "thread"} <=> l.child # None
    /\ l.call # "exec" => ~l.node /\ l.client = client[p]
    /\ l.call = "exec" => image[p] # "starting" /\ (l.node => image'[p] = "starting")
    /\ l.call = "clone" => image[p] # "starting"
    /\ l.call = "thread" => image[p] \in {"starting", "started"}
    /\ l.call = "marker" => image[p] = "starting" /\ image'[p] = "started"
    /\ l.call \notin {"exec", "marker"} => image'[p] = image[p]
    /\ l.call = "exec" => image'[p] \in {"starting", "other"}
    /\ l.call = "exit" => p \notin live'
    /\ l.call = "exec" => \A q \in Pids \ {p} : leader[q] = p => q \notin live'
    /\ l.child # None =>
           /\ l.child \in Pids \ {p, Root} /\ l.child \notin live /\ file[l.child] = <<>>
           /\ \A q \in Pids : \A i \in DOMAIN file[q] : file[q][i].child # l.child
    /\ file' = [file EXCEPT ![p] = Append(@, l)]
    /\ shim' = IF l.call = "marker" THEN Append(shim, l) ELSE shim
    /\ leader' = IF l.call = "thread" THEN [leader EXCEPT ![l.child] = p] ELSE leader
    /\ \A q \in Pids \ {p} :
           image'[q] = IF l.call = "thread" /\ q = l.child THEN "thread" ELSE image[q]
    /\ image' \in [Pids -> Images] /\ client' \in [Pids -> BOOLEAN]
    /\ \A q \in Pids \ {p} : client'[q] = IF q = l.child THEN client[p] ELSE client[q]
    /\ l.call # "exec" => client'[p] = client[p]
    /\ l.call = "exec" => (p = Root => client'[p]) /\ (l.client => client'[p])
    /\ live' \subseteq live \cup (Pids \cap {l.child})
    /\ UNCHANGED dispatchVars

\* A read of the environment, which only the shim sees.
Speaks(p, l) ==
    /\ running /\ running' = running /\ p \in live /\ leader[p] = p
    /\ l \in Line /\ l.pid = p /\ l.n = calls + 1 /\ calls' = calls + 1 /\ calls' \in 0..MaxCalls
    /\ l.call = "env_read" /\ l.image = image[p] /\ l.startup = (image[p] = "starting")
    /\ l.client = client[p] /\ ~l.node /\ l.child = None /\ l.item \in Items
    /\ shim' = Append(shim, l)
    /\ UNCHANGED <<file, live, image, leader, client, dispatchVars>>

-----------------------------------------------------------------------------
(* Types.                                                                  *)

LEMMA LineOf ==
    ASSUME TypeOK, NEW p \in Pids, NEW call \in Calls
    PROVE  /\ lineOf(p, call) \in Line
           /\ \A node \in BOOLEAN, known \in BOOLEAN :
                  [lineOf(p, call) EXCEPT !.node = node, !.client = known] \in Line
           /\ \A c \in Pids : [lineOf(p, call) EXCEPT !.child = c] \in Line
           /\ \A x \in Items, relative \in BOOLEAN :
                  [lineOf(p, call) EXCEPT !.item = x, !.relative = relative] \in Line
           /\ \A x \in Items : [lineOf(p, call) EXCEPT !.item = x] \in Line
<1>1. calls + 1 \in Nat /\ client[p] \in BOOLEAN /\ image[p] \in Images
      /\ (image[leader[p]] = "starting") \in BOOLEAN
  BY DEF TypeOK
<1> QED
  BY ZenonT(60), <1>1 DEF Line, lineOf

\* What one line and nothing of the shim's does.
LEMMA CallingOne ==
    ASSUME TypeOK, NEW p, NEW l \in Line, Calling(p, <<l>>, <<>>)
    PROVE  /\ running /\ running' = running /\ p \in live /\ p \in Pids
           /\ calls' = calls + 1 /\ calls' \in 0..MaxCalls
           /\ file' = [file EXCEPT ![p] = Append(@, l)] /\ shim' = shim
           /\ UNCHANGED dispatchVars
<1>1. shim \o <<>> = shim /\ p \in Pids /\ calls \in 0..MaxCalls
  BY DEF TypeOK, Calling
<1>2. file[p] \o <<l>> = Append(file[p], l)
  BY <1>1 DEF TypeOK
<1>3. [file EXCEPT ![p] = @ \o <<l>>] = [file EXCEPT ![p] = Append(@, l)]
  BY <1>2
<1> QED
  BY <1>1, <1>3, CallsAssumption DEF Calling

LEMMA ExecWrites ==
    ASSUME TypeOK, NEW p \in Pids, NEW node \in BOOLEAN, NEW isClient \in BOOLEAN,
           NEW known \in BOOLEAN, NEW becomes \in {"starting", "other"},
           ExecCall(p, node, becomes, isClient, known)
    PROVE  \E l : Writes(p, l)
<1> DEFINE l == [lineOf(p, "exec") EXCEPT !.node = node, !.client = known]
<1>1. l \in Line
  BY LineOf DEF Calls
<1>2. Calling(p, <<l>>, <<>>)
  BY DEF ExecCall
<1>3. /\ l.call = "exec" /\ l.pid = p /\ l.n = calls + 1 /\ l.image = image[p]
      /\ l.startup = (image[leader[p]] = "starting") /\ l.child = None /\ l.node = node
      /\ l.client = known
  BY DEF lineOf
<1> HIDE DEF l
<1>4. /\ leader[p] = p /\ image[p] # "starting" /\ (node => becomes = "starting")
      /\ (known => isClient) /\ (p = Root => isClient)
      /\ image' = [image EXCEPT ![p] = becomes] /\ client' = [client EXCEPT ![p] = isClient]
      /\ live' \subseteq live /\ leader' = leader
      /\ \A q \in Pids \ {p} : leader[q] = p => q \notin live'
  BY DEF ExecCall, IsThread
<1>5. /\ image' \in [Pids -> Images] /\ client' \in [Pids -> BOOLEAN]
      /\ image'[p] = becomes /\ client'[p] = isClient
      /\ \A q \in Pids \ {p} : image'[q] = image[q] /\ client'[q] = client[q]
  BY <1>4 DEF TypeOK, Images
<1>6. None \notin Pids
  BY RootAssumption
<1> QED
  BY <1>1, <1>2, <1>3, <1>4, <1>5, <1>6, CallingOne DEF Writes

LEMMA CloneWrites ==
    ASSUME TypeOK, NEW p \in Pids, NEW c \in Pids, CloneCall(p, c)
    PROVE  \E l : Writes(p, l)
<1> DEFINE l == [lineOf(p, "clone") EXCEPT !.child = c]
<1>1. l \in Line
  BY LineOf DEF Calls
<1>2. Calling(p, <<l>>, <<>>)
  BY DEF CloneCall
<1>3. /\ l.call = "clone" /\ l.pid = p /\ l.n = calls + 1 /\ l.image = image[p]
      /\ l.startup = (image[leader[p]] = "starting") /\ l.child = c /\ l.node = FALSE
      /\ l.client = client[p]
  BY DEF lineOf
<1> HIDE DEF l
<1>4. /\ leader[p] = p /\ image[p] # "starting" /\ c \notin live /\ file[c] = <<>> /\ c # Root
      /\ \A q \in Pids : c \notin {file[q][i].child : i \in DOMAIN file[q]}
      /\ image' = image /\ client' = [client EXCEPT ![c] = client[p]]
      /\ live' = live \cup {c} /\ leader' = leader
  BY DEF CloneCall, IsThread
<1>5. p \in live
  BY <1>1, <1>2, CallingOne
<1>6. c # p /\ c # None
  BY <1>4, <1>5, RootAssumption
<1>7. /\ image' \in [Pids -> Images] /\ client' \in [Pids -> BOOLEAN]
      /\ client'[p] = client[p]
      /\ \A q \in Pids \ {p} : client'[q] = IF q = c THEN client[p] ELSE client[q]
  BY <1>4, <1>6 DEF TypeOK
<1>8. \A q \in Pids : \A i \in DOMAIN file[q] : file[q][i].child # c
  BY <1>4
<1> QED
  BY <1>1, <1>2, <1>3, <1>4, <1>6, <1>7, <1>8, CallingOne DEF Writes

LEMMA ThreadWrites ==
    ASSUME TypeOK, NEW p \in Pids, NEW c \in Pids, ThreadCall(p, c)
    PROVE  \E l : Writes(p, l)
<1> DEFINE l == [lineOf(p, "thread") EXCEPT !.child = c]
<1>1. l \in Line
  BY LineOf DEF Calls
<1>2. Calling(p, <<l>>, <<>>)
  BY DEF ThreadCall
<1>3. /\ l.call = "thread" /\ l.pid = p /\ l.n = calls + 1 /\ l.image = image[p]
      /\ l.startup = (image[leader[p]] = "starting") /\ l.child = c /\ l.node = FALSE
      /\ l.client = client[p]
  BY DEF lineOf
<1> HIDE DEF l
<1>4. /\ image[p] \in {"starting", "started"} /\ c \notin live /\ file[c] = <<>> /\ c # Root
      /\ \A q \in Pids : c \notin {file[q][i].child : i \in DOMAIN file[q]}
      /\ image' = [image EXCEPT ![c] = "thread"] /\ client' = [client EXCEPT ![c] = client[p]]
      /\ live' = live \cup {c} /\ leader' = [leader EXCEPT ![c] = p]
  BY DEF ThreadCall
<1>5. p \in live
  BY <1>1, <1>2, CallingOne
<1>6. c # p /\ c # None
  BY <1>4, <1>5, RootAssumption
<1>7. /\ image' \in [Pids -> Images] /\ client' \in [Pids -> BOOLEAN]
      /\ client'[p] = client[p] /\ image'[p] = image[p]
      /\ \A q \in Pids \ {p} : /\ client'[q] = IF q = c THEN client[p] ELSE client[q]
                               /\ image'[q] = IF q = c THEN "thread" ELSE image[q]
  BY <1>4, <1>6 DEF TypeOK, Images
<1>8. \A q \in Pids : \A i \in DOMAIN file[q] : file[q][i].child # c
  BY <1>4
<1>9. /\ running /\ running' = running /\ calls' = calls + 1 /\ calls' \in 0..MaxCalls
      /\ file' = [file EXCEPT ![p] = Append(@, l)] /\ shim' = shim /\ UNCHANGED dispatchVars
  BY <1>1, <1>2, CallingOne
<1>10. live' \subseteq live \cup (Pids \cap {l.child})
  BY <1>3, <1>4
<1>11. \A q \in Pids : \A i \in DOMAIN file[q] : file[q][i].child # l.child
  BY <1>3, <1>8
<1>12. leader' = [leader EXCEPT ![l.child] = p]
  BY <1>3, <1>4
<1>13. \A q \in Pids \ {p} : /\ client'[q] = IF q = l.child THEN client[p] ELSE client[q]
                            /\ image'[q] = IF q = l.child THEN "thread" ELSE image[q]
  BY <1>3, <1>7
<1>14. l.child \in Pids \ {p, Root} /\ l.child # None /\ l.child \notin live
       /\ file[l.child] = <<>> /\ image[p] \in {"starting", "started"}
  BY <1>3, <1>4, <1>6
<1> QED
  BY ZenonT(60), <1>1, <1>3, <1>5, <1>7, <1>9, <1>10, <1>11, <1>12, <1>13, <1>14 DEF Writes

LEMMA ReadWrites ==
    ASSUME TypeOK, NEW p \in Pids, NEW x \in Items, NEW relative \in BOOLEAN,
           ReadCall(p, x, relative)
    PROVE  \E l : Writes(p, l)
<1> DEFINE l == [lineOf(p, "read") EXCEPT !.item = x, !.relative = relative]
<1>1. l \in Line
  BY LineOf DEF Calls
<1>2. Calling(p, <<l>>, <<>>)
  BY DEF ReadCall
<1>3. /\ l.call = "read" /\ l.pid = p /\ l.n = calls + 1 /\ l.image = image[p]
      /\ l.startup = (image[leader[p]] = "starting") /\ l.child = None /\ l.node = FALSE
      /\ l.client = client[p]
  BY DEF lineOf
<1> HIDE DEF l
<1>4. live' = live /\ image' = image /\ leader' = leader /\ client' = client
  BY DEF ReadCall
<1>5. None \notin Pids /\ image' \in [Pids -> Images] /\ client' \in [Pids -> BOOLEAN]
  BY <1>4, RootAssumption DEF TypeOK
<1> QED
  BY <1>1, <1>2, <1>3, <1>4, <1>5, CallingOne DEF Writes

LEMMA ExitWrites ==
    ASSUME TypeOK, NEW p \in Pids, ExitCall(p)
    PROVE  \E l : Writes(p, l)
<1> DEFINE l == lineOf(p, "exit")
<1>1. l \in Line
  BY LineOf DEF Calls
<1>2. Calling(p, <<l>>, <<>>)
  BY DEF ExitCall
<1>3. /\ l.call = "exit" /\ l.pid = p /\ l.n = calls + 1 /\ l.image = image[p]
      /\ l.startup = (image[leader[p]] = "starting") /\ l.child = None /\ l.node = FALSE
      /\ l.client = client[p]
  BY DEF lineOf
<1> HIDE DEF l
<1>4. /\ leader[p] = p /\ live' \subseteq live /\ p \notin live'
      /\ image' = image /\ leader' = leader /\ client' = client
  BY DEF ExitCall, IsThread
<1>5. None \notin Pids /\ image' \in [Pids -> Images] /\ client' \in [Pids -> BOOLEAN]
  BY <1>4, RootAssumption DEF TypeOK
<1> QED
  BY <1>1, <1>2, <1>3, <1>4, <1>5, CallingOne DEF Writes

LEMMA StartedWrites ==
    ASSUME TypeOK, NEW p \in Pids, StartedCall(p), leader[p] = p
    PROVE  \E l : Writes(p, l)
<1> DEFINE l == lineOf(p, "marker")
<1>1. l \in Line
  BY LineOf DEF Calls
<1>2. /\ running /\ p \in live /\ calls < MaxCalls /\ calls' = calls + 1
      /\ file' = [file EXCEPT ![p] = @ \o <<l>>] /\ shim' = shim \o <<l>>
      /\ running' = running /\ UNCHANGED dispatchVars
  BY DEF StartedCall, Calling
<1>3. /\ l.call = "marker" /\ l.pid = p /\ l.n = calls + 1 /\ l.image = image[p]
      /\ l.startup = (image[leader[p]] = "starting") /\ l.child = None /\ l.node = FALSE
      /\ l.client = client[p]
  BY DEF lineOf
<1> HIDE DEF l
<1>4. /\ image[p] = "starting" /\ image' = [image EXCEPT ![p] = "started"]
      /\ live' = live /\ leader' = leader /\ client' = client
  BY DEF StartedCall
<1>5. /\ None \notin Pids /\ image' \in [Pids -> Images] /\ client' \in [Pids -> BOOLEAN]
      /\ image'[p] = "started" /\ \A q \in Pids \ {p} : image'[q] = image[q]
  BY <1>4, RootAssumption DEF TypeOK, Images
<1>6. file[p] \o <<l>> = Append(file[p], l) /\ shim \o <<l>> = Append(shim, l)
  BY <1>1 DEF TypeOK
<1>7. file' = [file EXCEPT ![p] = Append(@, l)] /\ shim' = Append(shim, l)
  BY <1>2, <1>6
<1>8. calls' \in 0..MaxCalls
  BY <1>2, CallsAssumption DEF TypeOK
<1>9. /\ running /\ running' = running /\ p \in live /\ calls' = calls + 1
      /\ UNCHANGED dispatchVars /\ live' \subseteq live \cup (Pids \cap {l.child})
  BY <1>2, <1>4
<1>10. /\ image[p] = "starting" /\ leader' = leader
       /\ \A q \in Pids : client'[q] = client[q]
  BY <1>4
<1>11. \A q \in Pids \ {p} :
          /\ image'[q] = IF l.call = "thread" /\ q = l.child THEN "thread" ELSE image[q]
          /\ client'[q] = IF q = l.child THEN client[p] ELSE client[q]
  BY <1>3, <1>5, <1>10
<1>12. client'[p] = client[p]
  BY <1>10
<1>13. Writes(p, l)
  BY <1>1, <1>3, <1>5, <1>7, <1>8, <1>9, <1>10, <1>11, <1>12 DEF Writes
<1> QED
  BY <1>13

LEMMA EnvSpeaks ==
    ASSUME TypeOK, NEW p \in Pids, NEW x \in Items, EnvCall(p, x)
    PROVE  \E l : Speaks(p, l)
<1> DEFINE l == [lineOf(p, "env_read") EXCEPT !.item = x]
<1>1. l \in Line
  BY LineOf DEF Calls
<1>2. /\ running /\ p \in live /\ calls < MaxCalls /\ calls' = calls + 1
      /\ file' = [file EXCEPT ![p] = @ \o <<>>] /\ shim' = shim \o <<l>>
      /\ running' = running /\ UNCHANGED dispatchVars /\ leader[p] = p
      /\ live' = live /\ leader' = leader /\ client' = client /\ image' = image
  BY DEF EnvCall, Calling, IsThread
<1>3. /\ l.call = "env_read" /\ l.pid = p /\ l.n = calls + 1 /\ l.image = image[p]
      /\ l.startup = (image[leader[p]] = "starting") /\ l.child = None /\ l.node = FALSE
      /\ l.client = client[p] /\ l.item \in Items
  BY DEF lineOf
<1> HIDE DEF l
<1>4. file[p] \o <<>> = file[p] /\ shim \o <<l>> = Append(shim, l)
  BY <1>1 DEF TypeOK
<1>5. file' = file /\ shim' = Append(shim, l)
  BY <1>2, <1>4 DEF TypeOK
<1>6. calls' \in 0..MaxCalls
  BY <1>2, CallsAssumption DEF TypeOK
<1> QED
  BY <1>1, <1>2, <1>3, <1>5, <1>6 DEF Speaks

-----------------------------------------------------------------------------
(* What holds of the tree and its lines.                                   *)

\* A file is of one process, in the order of its calls.
FileInv ==
    \A p \in Pids : \A i \in 1..Len(file[p]) :
        /\ file[p][i].pid = p /\ file[p][i].n \in 1..calls
        /\ file[p][i].call \in {"exec", "clone", "thread", "read", "marker", "exit"}
        /\ \A j \in 1..Len(file[p]) : i < j => file[p][i].n < file[p][j].n

\* The shim's marker is strace's as well.
ShimInv ==
    \A k \in 1..Len(shim) :
        /\ shim[k].call \in {"env_read", "marker"} /\ shim[k].child = None /\ ~shim[k].node
        /\ shim[k].call = "marker" =>
               \E i \in 1..Len(file[shim[k].pid]) : file[shim[k].pid][i] = shim[k]

\* Threads only read.
ThreadInv ==
    \A p \in Pids : leader[p] # p =>
        /\ image[p] = "thread"
        /\ \A i \in 1..Len(file[p]) : file[p][i].call = "read" /\ file[p][i].image = "thread"

\* Who has left calls nothing more.
DeadInv ==
    \A p \in Pids : \A i \in 1..Len(file[p]) :
        file[p][i].call = "exit" => i = Len(file[p]) /\ p \notin live

BirthInv ==
    \A p \in Pids : \A i \in 1..Len(file[p]) :
        /\ file[p][i].call \in {"clone", "thread"} <=> file[p][i].child # None
        /\ file[p][i].call = "thread" => leader[file[p][i].child] # file[p][i].child

\* From a program called node on, until it tells or executes another, a process starts.
StartInv ==
    \A p \in Pids : \A k \in 1..Len(file[p]) :
        file[p][k].call = "exec" /\ file[p][k].node =>
            /\ \A i \in (k + 1)..Len(file[p]) :
                   (\A j \in (k + 1)..i : file[p][j].call \notin {"exec", "marker"})
                       => file[p][i].startup
            /\ (\A j \in (k + 1)..Len(file[p]) : file[p][j].call \notin {"exec", "marker"})
                   => image[p] = "starting"

CloneInv ==
    \A p \in Pids : \A i \in 1..Len(file[p]) :
        file[p][i].call = "clone" => ~file[p][i].startup

KernelInv ==
    FileInv /\ ShimInv /\ ThreadInv /\ DeadInv /\ BirthInv /\ StartInv /\ CloneInv

\* A file grows by the line.
LEMMA Grown ==
    ASSUME TypeOK, NEW p \in Pids, NEW l, Writes(p, l), NEW n, n = Len(file[p])
    PROVE  /\ n \in Nat /\ Len(file'[p]) = n + 1 /\ file'[p][n + 1] = l
           /\ \A i \in 1..n : file'[p][i] = file[p][i]
           /\ \A q \in Pids \ {p} : file'[q] = file[q]
           /\ \A q \in Pids : Len(file[q]) \in Nat /\ DOMAIN file[q] = 1..Len(file[q])
<1>1. file[p] \in Seq(Line) /\ l \in Line /\ file' = [file EXCEPT ![p] = Append(@, l)]
  BY DEF TypeOK, Writes
<1>2. file'[p] = Append(file[p], l) /\ \A q \in Pids \ {p} : file'[q] = file[q]
  BY <1>1 DEF TypeOK
<1>3. \A q \in Pids : file[q] \in Seq(Line)
  BY DEF TypeOK
<1> QED
  BY <1>1, <1>2, <1>3

LEMMA WritesType ==
    ASSUME TypeOK, NEW p \in Pids, NEW l, Writes(p, l)
    PROVE  TypeOK'
<1>1. file' \in [Pids -> Seq(Line)]
  <2>1. l \in Line /\ file' = [file EXCEPT ![p] = Append(@, l)]
    BY DEF Writes
  <2>2. Append(file[p], l) \in Seq(Line)
    BY <2>1 DEF TypeOK
  <2> QED BY <2>1, <2>2 DEF TypeOK
<1>2. shim' \in Seq(Line)
  BY DEF TypeOK, Writes
<1>3. leader' \in [Pids -> Pids]
  <2>1. CASE l.call = "thread"
    <3>1. leader' = [leader EXCEPT ![l.child] = p] /\ leader \in [Pids -> Pids]
      BY <2>1 DEF Writes, TypeOK
    <3> QED BY <3>1
  <2>2. CASE l.call # "thread"
    BY <2>2 DEF TypeOK, Writes
  <2> QED BY <2>1, <2>2
<1>4. /\ running' \in BOOLEAN /\ live' \subseteq Pids /\ image' \in [Pids -> Images]
      /\ client' \in [Pids -> BOOLEAN] /\ calls' \in 0..MaxCalls
  BY DEF TypeOK, Writes
<1>5. UNCHANGED dispatchVars
  BY DEF Writes
<1> QED
  BY <1>1, <1>2, <1>3, <1>4, <1>5
  DEF TypeOK, dispatchVars, takeVars, clientVars, endedVars, deferVars

LEMMA SpeaksType ==
    ASSUME TypeOK, NEW p \in Pids, NEW l, Speaks(p, l)
    PROVE  TypeOK'
<1>1. shim' \in Seq(Line)
  BY DEF TypeOK, Speaks
<1>2. /\ running' \in BOOLEAN /\ calls' \in 0..MaxCalls
      /\ UNCHANGED <<file, live, image, leader, client, dispatchVars>>
  BY DEF TypeOK, Speaks
<1> QED
  BY <1>1, <1>2 DEF TypeOK, dispatchVars, takeVars, clientVars, endedVars, deferVars

LEMMA WritesFile ==
    ASSUME TypeOK, FileInv, NEW p \in Pids, NEW l, Writes(p, l)
    PROVE  FileInv'
<1> DEFINE n == Len(file[p])
<1>1. /\ n \in Nat /\ Len(file'[p]) = n + 1 /\ file'[p][n + 1] = l
      /\ \A i \in 1..n : file'[p][i] = file[p][i]
      /\ \A q \in Pids \ {p} : file'[q] = file[q]
  BY Grown
<1>2. /\ l.pid = p /\ l.n = calls + 1 /\ calls' = calls + 1 /\ calls \in Nat
      /\ l.call \in {"exec", "clone", "thread", "read", "marker", "exit"}
  BY DEF Writes, TypeOK
<1> HIDE DEF n
<1>3. ASSUME NEW q \in Pids \ {p} PROVE \A i \in 1..Len(file[q]) :
        /\ file[q][i].n \in 1..calls'
  BY <1>2 DEF FileInv
<1>4. \A i \in 1..n : file[p][i].n \in 1..calls
  BY DEF FileInv, n
<1>5. \A i \in 1..(n + 1) :
        /\ file'[p][i].pid = p /\ file'[p][i].n \in 1..calls'
        /\ file'[p][i].call \in {"exec", "clone", "thread", "read", "marker", "exit"}
  <2> TAKE i \in 1..(n + 1)
  <2>1. CASE i \in 1..n
    <3>1. file'[p][i] = file[p][i] /\ file[p][i].n \in 1..calls
      BY <1>1, <1>4, <2>1
    <3>2. /\ file[p][i].pid = p
          /\ file[p][i].call \in {"exec", "clone", "thread", "read", "marker", "exit"}
      BY <2>1 DEF FileInv, n
    <3>3. file[p][i].n \in 1..calls'
      BY <1>2, <3>1
    <3> QED BY <3>1, <3>2, <3>3
  <2>2. CASE i = n + 1
    BY <1>1, <1>2, <2>2
  <2> QED BY <1>1, <2>1, <2>2
<1>6. \A i, j \in 1..(n + 1) : i < j => file'[p][i].n < file'[p][j].n
  <2> SUFFICES ASSUME NEW i \in 1..(n + 1), NEW j \in 1..(n + 1), i < j
               PROVE  file'[p][i].n < file'[p][j].n
    OBVIOUS
  <2>1. i \in 1..n /\ file'[p][i] = file[p][i]
    BY <1>1
  <2>2. CASE j \in 1..n
    BY <1>1, <2>1, <2>2 DEF FileInv, n
  <2>3. CASE j = n + 1
    BY <1>1, <1>2, <1>4, <2>1, <2>3
  <2> QED BY <1>1, <2>2, <2>3
<1>7. ASSUME NEW q \in Pids \ {p}, NEW i \in 1..Len(file'[q])
      PROVE  /\ file'[q][i].pid = q /\ file'[q][i].n \in 1..calls'
             /\ file'[q][i].call \in {"exec", "clone", "thread", "read", "marker", "exit"}
             /\ \A j \in 1..Len(file'[q]) : i < j => file'[q][i].n < file'[q][j].n
  BY <1>1, <1>3 DEF FileInv
<1> SUFFICES ASSUME NEW q \in Pids, NEW i \in 1..Len(file'[q])
             PROVE  /\ file'[q][i].pid = q /\ file'[q][i].n \in 1..calls'
                    /\ file'[q][i].call \in {"exec", "clone", "thread", "read", "marker", "exit"}
                    /\ \A j \in 1..Len(file'[q]) : i < j => file'[q][i].n < file'[q][j].n
  BY DEF FileInv
<1>8. CASE q # p
  BY <1>7, <1>8
<1>9. CASE q = p
  <2>1. i \in 1..(n + 1) /\ Len(file'[p]) = n + 1
    BY <1>1, <1>9
  <2> QED BY <1>5, <1>6, <1>9, <2>1
<1> QED
  BY <1>8, <1>9

LEMMA WritesShim ==
    ASSUME TypeOK, ShimInv, NEW p \in Pids, NEW l, Writes(p, l)
    PROVE  ShimInv'
<1> DEFINE n == Len(file[p])
<1>1. /\ n \in Nat /\ Len(file'[p]) = n + 1 /\ file'[p][n + 1] = l
      /\ \A i \in 1..n : file'[p][i] = file[p][i]
      /\ \A q \in Pids \ {p} : file'[q] = file[q]
  BY Grown
<1>2. /\ l.pid = p /\ l \in Line /\ shim \in Seq(Line)
      /\ shim' = IF l.call = "marker" THEN Append(shim, l) ELSE shim
      /\ l.call = "marker" => l.child = None /\ ~l.node
  BY DEF Writes, TypeOK
<1>3. ASSUME NEW m \in Line, NEW i \in 1..Len(file[m.pid]), file[m.pid][i] = m
      PROVE  \E j \in 1..Len(file'[m.pid]) : file'[m.pid][j] = m
  <2>1. m.pid \in Pids
    BY DEF Line
  <2>2. CASE m.pid = p
    <3>1. i \in 1..Len(file'[p]) /\ file'[p][i] = m
      BY <1>1, <1>3, <2>2
    <3> QED BY <3>1, <2>2
  <2>3. CASE m.pid # p
    BY <1>1, <1>3, <2>1, <2>3
  <2> QED BY <2>2, <2>3
<1>4. \A k \in 1..Len(shim) : shim[k] \in Line
  BY <1>2
<1>5. \A k \in 1..Len(shim) :
        /\ shim[k].call \in {"env_read", "marker"} /\ shim[k].child = None /\ ~shim[k].node
        /\ shim[k].call = "marker" =>
               \E i \in 1..Len(file'[shim[k].pid]) : file'[shim[k].pid][i] = shim[k]
  BY <1>3, <1>4 DEF ShimInv
<1>6. CASE l.call # "marker"
  BY <1>2, <1>5, <1>6 DEF ShimInv
<1>7. CASE l.call = "marker"
  <2>1. /\ Len(shim) \in Nat /\ Len(shim') = Len(shim) + 1 /\ shim'[Len(shim) + 1] = l
        /\ \A k \in 1..Len(shim) : shim'[k] = shim[k]
    BY <1>2, <1>7
  <2>2. n + 1 \in 1..Len(file'[l.pid]) /\ file'[l.pid][n + 1] = l
    BY <1>1, <1>2
  <2>3. ASSUME NEW k \in 1..Len(shim')
        PROVE  /\ shim'[k].call \in {"env_read", "marker"} /\ shim'[k].child = None
               /\ ~shim'[k].node
               /\ shim'[k].call = "marker" =>
                     \E i \in 1..Len(file'[shim'[k].pid]) : file'[shim'[k].pid][i] = shim'[k]
    <3>1. CASE k \in 1..Len(shim)
      BY <1>5, <2>1, <3>1
    <3>2. CASE k = Len(shim) + 1
      BY <1>2, <1>7, <2>1, <2>2, <3>2
    <3> QED BY <2>1, <3>1, <3>2
  <2> QED BY <2>3 DEF ShimInv
<1> QED
  BY <1>6, <1>7

LEMMA WritesThread ==
    ASSUME TypeOK, ThreadInv, NEW p \in Pids, NEW l, Writes(p, l)
    PROVE  ThreadInv'
<1> DEFINE n == Len(file[p])
<1>1. /\ n \in Nat /\ Len(file'[p]) = n + 1 /\ file'[p][n + 1] = l
      /\ \A i \in 1..n : file'[p][i] = file[p][i]
      /\ \A q \in Pids \ {p} : file'[q] = file[q]
  BY Grown
<1>2. /\ l.call \notin {"read", "thread"} => leader[p] = p
      /\ l.call \in {"exec", "clone", "thread", "read", "marker", "exit"}
      /\ l.call \notin {"exec", "marker"} => image'[p] = image[p]
      /\ l.call = "thread" => image[p] \in {"starting", "started"}
      /\ l.call = "thread" => l.child \in Pids \ {p} /\ file[l.child] = <<>>
      /\ leader' = IF l.call = "thread" THEN [leader EXCEPT ![l.child] = p] ELSE leader
      /\ \A q \in Pids \ {p} :
             image'[q] = IF l.call = "thread" /\ q = l.child THEN "thread" ELSE image[q]
      /\ l.image = image[p]
  BY DEF Writes
<1>3. leader \in [Pids -> Pids]
  BY DEF TypeOK
<1> HIDE DEF n
<1>4. leader'[p] = leader[p]
  BY <1>2, <1>3
<1>5. ASSUME leader[p] # p
      PROVE  image'[p] = "thread" /\ l.call = "read" /\ l.image = "thread"
  BY <1>2, <1>5 DEF ThreadInv
<1>6. ASSUME leader[p] # p, NEW i \in 1..(n + 1)
      PROVE  file'[p][i].call = "read" /\ file'[p][i].image = "thread"
  <2>1. CASE i \in 1..n
    BY <1>1, <1>6, <2>1 DEF ThreadInv, n
  <2>2. CASE i = n + 1
    BY <1>1, <1>5, <1>6, <2>2
  <2> QED BY <1>1, <2>1, <2>2
<1>7. ASSUME NEW q \in Pids \ {p}, leader'[q] # q
      PROVE  /\ image'[q] = "thread"
             /\ \A i \in 1..Len(file'[q]) : file'[q][i].call = "read" /\ file'[q][i].image = "thread"
  <2>1. CASE l.call = "thread" /\ q = l.child
    <3>1. Len(<<>>) = 0 /\ file'[q] = <<>> /\ 1..0 = {}
      BY <1>1, <1>2, <2>1
    <3> QED BY <1>2, <2>1, <3>1
  <2>2. CASE ~(l.call = "thread" /\ q = l.child)
    <3>1. leader'[q] = leader[q]
      BY <1>2, <1>3, <2>2
    <3> QED BY <1>1, <1>2, <1>7, <2>2, <3>1 DEF ThreadInv
  <2> QED BY <2>1, <2>2
<1> QED
  BY <1>1, <1>4, <1>5, <1>6, <1>7 DEF ThreadInv

LEMMA WritesDead ==
    ASSUME TypeOK, DeadInv, NEW p \in Pids, NEW l, Writes(p, l)
    PROVE  DeadInv'
<1> DEFINE n == Len(file[p])
<1>1. /\ n \in Nat /\ Len(file'[p]) = n + 1 /\ file'[p][n + 1] = l
      /\ \A i \in 1..n : file'[p][i] = file[p][i]
      /\ \A q \in Pids \ {p} : file'[q] = file[q]
  BY Grown
<1>2. /\ p \in live /\ live' \subseteq live \cup (Pids \cap {l.child})
      /\ l.child # None => file[l.child] = <<>>
      /\ l.call = "exit" => p \notin live'
  BY DEF Writes
<1>3. \A i \in 1..n : file[p][i].call # "exit"
  BY <1>2 DEF DeadInv
<1>4. \A i \in 1..(n + 1) : file'[p][i].call = "exit" => i = n + 1 /\ p \notin live'
  BY <1>1, <1>2, <1>3
<1>5. ASSUME NEW q \in Pids \ {p}, NEW i \in 1..Len(file[q]), file[q][i].call = "exit"
      PROVE  i = Len(file[q]) /\ q \notin live'
  <2>1. i = Len(file[q]) /\ q \notin live
    BY <1>5 DEF DeadInv
  <2>2. q # l.child
    <3>1. Len(<<>>) = 0 /\ 1..0 = {}
      OBVIOUS
    <3>2. file[q] # <<>>
      BY <1>5, <3>1
    <3>3. q # None
      BY RootAssumption
    <3> QED BY <1>2, <3>2, <3>3
  <2> QED BY <1>2, <2>1, <2>2
<1> QED
  BY <1>1, <1>4, <1>5 DEF DeadInv

LEMMA WritesBirth ==
    ASSUME TypeOK, BirthInv, NEW p \in Pids, NEW l, Writes(p, l)
    PROVE  BirthInv'
<1> DEFINE n == Len(file[p])
<1>1. /\ n \in Nat /\ Len(file'[p]) = n + 1 /\ file'[p][n + 1] = l
      /\ \A i \in 1..n : file'[p][i] = file[p][i]
      /\ \A q \in Pids \ {p} : file'[q] = file[q]
  BY Grown
<1>2. /\ l.call \in {"clone", "thread"} <=> l.child # None
      /\ l.call = "thread" => l.child \in Pids \ {p}
      /\ leader' = IF l.call = "thread" THEN [leader EXCEPT ![l.child] = p] ELSE leader
      /\ l.child # None =>
             \A q \in Pids : \A i \in DOMAIN file[q] : file[q][i].child # l.child
      /\ leader \in [Pids -> Pids]
  BY DEF Writes, TypeOK
<1>3. ASSUME NEW q \in Pids, leader[q] # q PROVE leader'[q] # q
  BY <1>2, <1>3
<1>4. \A q \in Pids : \A i \in 1..Len(file[q]) :
        /\ file[q][i].call \in {"clone", "thread"} <=> file[q][i].child # None
        /\ file[q][i].call = "thread" => leader'[file[q][i].child] # file[q][i].child
  <2> TAKE q \in Pids
  <2> TAKE i \in 1..Len(file[q])
  <2>1. file[q][i] \in Line
    BY DEF TypeOK
  <2>2. file[q][i].child \in Pids \cup {None}
    BY <2>1 DEF Line
  <2> QED BY <1>3, <2>2 DEF BirthInv
<1>5. /\ l.call \in {"clone", "thread"} <=> l.child # None
      /\ l.call = "thread" => leader'[l.child] # l.child
  <2>1. ASSUME l.call = "thread" PROVE leader'[l.child] = p /\ l.child # p
    BY <1>2, <2>1
  <2> QED BY <1>2, <2>1
<1>6. \A i \in 1..(n + 1) : i \in 1..n \/ i = n + 1
  BY <1>1
<1> SUFFICES ASSUME NEW q \in Pids, NEW i \in 1..Len(file'[q])
             PROVE  /\ file'[q][i].call \in {"clone", "thread"} <=> file'[q][i].child # None
                    /\ file'[q][i].call = "thread" => leader'[file'[q][i].child] # file'[q][i].child
  BY DEF BirthInv
<1>7. CASE q # p
  <2>1. file'[q] = file[q]
    BY <1>1, <1>7
  <2> QED BY <1>4, <2>1
<1>8. CASE q = p
  <2>1. i \in 1..(n + 1)
    BY <1>1, <1>8
  <2>2. CASE i = n + 1
    BY <1>1, <1>5, <1>8, <2>2
  <2>3. CASE i \in 1..n
    <3>1. file'[p][i] = file[p][i] /\ i \in 1..Len(file[p])
      BY <1>1, <2>3
    <3> QED BY <1>4, <1>8, <3>1
  <2> QED BY <1>6, <2>1, <2>2, <2>3
<1> QED
  BY <1>7, <1>8

LEMMA WritesStart ==
    ASSUME TypeOK, ThreadInv, StartInv, NEW p \in Pids, NEW l, Writes(p, l)
    PROVE  StartInv'
<1> DEFINE n == Len(file[p])
<1>1. /\ n \in Nat /\ Len(file'[p]) = n + 1 /\ file'[p][n + 1] = l
      /\ \A i \in 1..n : file'[p][i] = file[p][i]
      /\ \A q \in Pids \ {p} : file'[q] = file[q]
  BY Grown
<1>2. /\ l.startup = (image[leader[p]] = "starting")
      /\ l.call = "exec" => (l.node => image'[p] = "starting")
      /\ l.call \notin {"exec", "marker"} => image'[p] = image[p]
      /\ \A q \in Pids \ {p} :
             image'[q] = IF l.call = "thread" /\ q = l.child THEN "thread" ELSE image[q]
      /\ l.child # None => file[l.child] = <<>>
      /\ l.call = "thread" => l.child # None
  BY DEF Writes
<1> HIDE DEF n
<1>3. ASSUME NEW q \in Pids \ {p}, NEW k \in 1..Len(file[q]),
             file[q][k].call = "exec" /\ file[q][k].node,
             \A j \in (k + 1)..Len(file[q]) : file[q][j].call \notin {"exec", "marker"}
      PROVE  image'[q] = "starting"
  <2>1. image[q] = "starting"
    BY <1>3 DEF StartInv
  <2>2. Len(<<>>) = 0 /\ 1..0 = {}
    OBVIOUS
  <2>3. file[q] # <<>>
    BY <1>3, <2>2
  <2> QED BY <1>2, <2>1, <2>3
<1>4. ASSUME NEW q \in Pids \ {p}, NEW k \in 1..Len(file'[q]),
             file'[q][k].call = "exec" /\ file'[q][k].node
      PROVE  /\ \A i \in (k + 1)..Len(file'[q]) :
                   (\A j \in (k + 1)..i : file'[q][j].call \notin {"exec", "marker"})
                       => file'[q][i].startup
             /\ (\A j \in (k + 1)..Len(file'[q]) : file'[q][j].call \notin {"exec", "marker"})
                   => image'[q] = "starting"
  BY <1>1, <1>3, <1>4 DEF StartInv
<1>5. ASSUME NEW k \in 1..(n + 1), file'[p][k].call = "exec" /\ file'[p][k].node
      PROVE  /\ \A i \in (k + 1)..(n + 1) :
                   (\A j \in (k + 1)..i : file'[p][j].call \notin {"exec", "marker"})
                       => file'[p][i].startup
             /\ (\A j \in (k + 1)..(n + 1) : file'[p][j].call \notin {"exec", "marker"})
                   => image'[p] = "starting"
  <2>1. CASE k = n + 1
    <3>1. image'[p] = "starting"
      BY <1>1, <1>2, <1>5, <2>1
    <3>2. (k + 1)..(n + 1) = {}
      BY <1>1, <2>1
    <3> QED BY <3>1, <3>2
  <2>2. CASE k \in 1..n
    <3>1. file[p][k].call = "exec" /\ file[p][k].node
      BY <1>1, <1>5, <2>2
    <3>2. leader[p] = p
      BY <2>2, <3>1 DEF ThreadInv, n
    <3>3. ASSUME \A j \in (k + 1)..n : file'[p][j].call \notin {"exec", "marker"}
          PROVE  image[p] = "starting"
      <4>1. \A j \in (k + 1)..n : j \in 1..n /\ file'[p][j] = file[p][j]
        BY <1>1, <2>2
      <4>2. \A j \in (k + 1)..n : file[p][j].call \notin {"exec", "marker"}
        BY <3>3, <4>1
      <4> QED BY <2>2, <3>1, <4>2 DEF StartInv, n
    <3>4. ASSUME NEW i \in (k + 1)..(n + 1),
                 \A j \in (k + 1)..i : file'[p][j].call \notin {"exec", "marker"}
          PROVE  file'[p][i].startup
      <4>1. CASE i = n + 1
        <5>1. \A j \in (k + 1)..n : j \in (k + 1)..i
          BY <1>1, <2>2, <4>1
        <5>2. image[p] = "starting"
          BY <3>3, <3>4, <5>1
        <5> QED BY <1>1, <1>2, <3>2, <4>1, <5>2
      <4>2. CASE i \in (k + 1)..n
        <5>1. \A j \in (k + 1)..i : j \in 1..n /\ file'[p][j] = file[p][j]
          BY <1>1, <2>2, <4>2
        <5>2. \A j \in (k + 1)..i : file[p][j].call \notin {"exec", "marker"}
          BY <3>4, <5>1
        <5>3. file[p][i].startup
          BY <2>2, <3>1, <4>2, <5>2 DEF StartInv, n
        <5>4. i \in (k + 1)..i
          BY <2>2, <4>2
        <5> QED BY <5>1, <5>3, <5>4
      <4> QED BY <1>1, <2>2, <4>1, <4>2
    <3>5. ASSUME \A j \in (k + 1)..(n + 1) : file'[p][j].call \notin {"exec", "marker"}
          PROVE  image'[p] = "starting"
      <4>1. (k + 1)..n \subseteq (k + 1)..(n + 1) /\ n + 1 \in (k + 1)..(n + 1)
        BY <1>1, <2>2
      <4>2. l.call \notin {"exec", "marker"}
        BY <1>1, <3>5, <4>1
      <4>3. image[p] = "starting"
        BY <3>3, <3>5, <4>1
      <4> QED BY <1>2, <4>2, <4>3
    <3> QED BY <3>4, <3>5
  <2> QED BY <1>1, <2>1, <2>2
<1> SUFFICES ASSUME NEW q \in Pids, NEW k \in 1..Len(file'[q]),
                    file'[q][k].call = "exec", file'[q][k].node
             PROVE  /\ \A i \in (k + 1)..Len(file'[q]) :
                          (\A j \in (k + 1)..i : file'[q][j].call \notin {"exec", "marker"})
                              => file'[q][i].startup
                    /\ (\A j \in (k + 1)..Len(file'[q]) : file'[q][j].call \notin {"exec", "marker"})
                          => image'[q] = "starting"
  BY DEF StartInv
<1>6. CASE q # p
  BY <1>4, <1>6
<1>7. CASE q = p
  <2>1. k \in 1..(n + 1) /\ Len(file'[p]) = n + 1
    BY <1>1, <1>7
  <2> QED BY <1>5, <1>7, <2>1
<1> QED
  BY <1>6, <1>7

LEMMA WritesClone ==
    ASSUME TypeOK, CloneInv, NEW p \in Pids, NEW l, Writes(p, l)
    PROVE  CloneInv'
<1> DEFINE n == Len(file[p])
<1>1. /\ n \in Nat /\ Len(file'[p]) = n + 1 /\ file'[p][n + 1] = l
      /\ \A i \in 1..n : file'[p][i] = file[p][i]
      /\ \A q \in Pids \ {p} : file'[q] = file[q]
  BY Grown
<1>2. l.call = "clone" => ~l.startup
  BY DEF Writes
<1>3. \A i \in 1..(n + 1) : i \in 1..n \/ i = n + 1
  BY <1>1
<1> QED
  BY <1>1, <1>2, <1>3 DEF CloneInv

LEMMA WritesKernel ==
    ASSUME TypeOK, KernelInv, NEW p \in Pids, NEW l, Writes(p, l)
    PROVE  KernelInv'
  BY WritesFile, WritesShim, WritesThread, WritesDead, WritesBirth, WritesStart, WritesClone
  DEF KernelInv

LEMMA SpeaksKernel ==
    ASSUME TypeOK, KernelInv, NEW p \in Pids, NEW l, Speaks(p, l)
    PROVE  KernelInv'
<1>1. /\ file' = file /\ live' = live /\ image' = image /\ leader' = leader
      /\ calls' = calls + 1 /\ shim' = Append(shim, l) /\ l \in Line
      /\ l.call = "env_read" /\ l.child = None /\ ~l.node
  BY DEF Speaks
<1>2. calls \in Nat /\ shim \in Seq(Line)
  BY DEF TypeOK
<1>3. /\ Len(shim) \in Nat /\ Len(shim') = Len(shim) + 1 /\ shim'[Len(shim) + 1] = l
      /\ \A k \in 1..Len(shim) : shim'[k] = shim[k]
  BY <1>1, <1>2
<1>4. \A k \in 1..(Len(shim) + 1) : k \in 1..Len(shim) \/ k = Len(shim) + 1
  BY <1>3
<1>5. ShimInv'
  BY <1>1, <1>3, <1>4 DEF ShimInv, KernelInv
<1>6. FileInv'
  BY <1>1, <1>2 DEF FileInv, KernelInv
<1>7. ThreadInv' /\ DeadInv' /\ BirthInv' /\ StartInv' /\ CloneInv'
  BY <1>1 DEF ThreadInv, DeadInv, BirthInv, StartInv, CloneInv, KernelInv
<1> QED
  BY <1>5, <1>6, <1>7 DEF KernelInv

-----------------------------------------------------------------------------
(* The types of the dispatcher.                                            *)

LEMMA SubtreeType ==
    ASSUME NEW p PROVE nodeBootstrapSubtree(p) \subseteq Pids
  BY DEF nodeBootstrapSubtree

Boots == [env : SUBSET Pids, file : SUBSET Pids, completed : SUBSET Pids,
          children : [Pids -> SUBSET Pids]]

LEMMA BootTypes ==
    ASSUME TypeOK, NEW p \in Pids
    PROVE  /\ clearNodeBootstrap(p) \in Boots /\ clearNodeBootstrapEnv(p) \in Boots
           /\ clearNodeBootstrapFile(p) \in Boots /\ beginNodeBootstrap(p) \in Boots
           /\ \A c \in Pids : propagateNodeBootstrap(p, c) \in Boots
<1>1. boot \in Boots
  BY DEF TypeOK, Boots
<1>2. clearNodeBootstrap(p) \in Boots
  BY <1>1 DEF clearNodeBootstrap, Boots
<1>3. clearNodeBootstrapEnv(p) \in Boots
  BY <1>1 DEF clearNodeBootstrapEnv, Boots
<1>4. clearNodeBootstrapFile(p) \in Boots
  BY <1>1 DEF clearNodeBootstrapFile, Boots
<1>5. beginNodeBootstrap(p) \in Boots
  BY <1>2 DEF beginNodeBootstrap, Boots
<1>6. ASSUME NEW c \in Pids PROVE propagateNodeBootstrap(p, c) \in Boots
  BY <1>1 DEF propagateNodeBootstrap, Boots
<1> QED
  BY <1>2, <1>3, <1>4, <1>5, <1>6

Cands == [pids : SUBSET Pids, events : [Pids -> SUBSET Line],
          confirmed : SUBSET Pids, marked : SUBSET Pids]

LEMMA CandTypes ==
    ASSUME NEW c \in Cands, NEW p \in Pids
    PROVE  /\ candidateWithout(c, p) \in Cands
           /\ [c EXCEPT !.marked = @ \cup {p}] \in Cands
           /\ [c EXCEPT !.pids = @ \cup {p}] \in Cands
           /\ [c EXCEPT !.confirmed = @ \cup {p},
                        !.events[p] = {e \in @ : e.call # "env_read"}] \in Cands
           /\ \A l \in Line : l.pid = p => [c EXCEPT !.events[l.pid] = @ \cup {l}] \in Cands
           /\ \A call : itemsOf(c.events[p], call) \subseteq Items \cup {None}
<1>1. candidateWithout(c, p) \in Cands
  BY DEF Cands, candidateWithout
<1>2. [c EXCEPT !.marked = @ \cup {p}] \in Cands /\ [c EXCEPT !.pids = @ \cup {p}] \in Cands
  BY DEF Cands
<1>3. [c EXCEPT !.confirmed = @ \cup {p},
                !.events[p] = {e \in @ : e.call # "env_read"}] \in Cands
  BY DEF Cands
<1>4. ASSUME NEW l \in Line, l.pid = p PROVE [c EXCEPT !.events[l.pid] = @ \cup {l}] \in Cands
  BY <1>4 DEF Cands
<1>5. \A call : itemsOf(c.events[p], call) \subseteq Items \cup {None}
  BY DEF Cands, itemsOf, Line
<1> QED
  BY <1>1, <1>2, <1>3, <1>4, <1>5

\* The next line of a file.
LEMMA NextOf ==
    ASSUME TypeOK, NEW p, NEW call, TakeFile(p, call)
    PROVE  /\ p \in Pids /\ taken[p] \in Nat /\ Len(file[p]) \in Nat /\ taken[p] < Len(file[p])
           /\ NextLine(p) = file[p][taken[p] + 1] /\ NextLine(p) \in Line
           /\ NextLine(p).call = call /\ ~running
           /\ taken' = [taken EXCEPT ![p] = @ + 1] /\ taken' \in [Pids -> Nat]
           /\ UNCHANGED <<treeVars, shimTaken>>
<1>1. p \in Pids /\ taken[p] < Len(file[p])
  BY DEF TakeFile, Untaken
<1>2. taken[p] \in Nat /\ file[p] \in Seq(Line) /\ taken \in [Pids -> Nat]
  BY <1>1 DEF TypeOK
<1>3. taken[p] + 1 \in 1..Len(file[p])
  BY <1>1, <1>2
<1> QED
  BY <1>1, <1>2, <1>3 DEF TakeFile, NextLine

LEMMA NextShim ==
    ASSUME TypeOK, NEW call, TakeShim(call)
    PROVE  /\ shimTaken \in Nat /\ Len(shim) \in Nat /\ shimTaken < Len(shim)
           /\ shim[shimTaken + 1] \in Line /\ shim[shimTaken + 1].pid \in Pids
           /\ shim[shimTaken + 1].call = call /\ ~running
           /\ shimTaken' = shimTaken + 1 /\ prompt' \in BOOLEAN
           /\ UNCHANGED <<treeVars, taken, seen>>
<1>1. shimTaken \in Nat /\ shim \in Seq(Line) /\ shimTaken < Len(shim)
  BY DEF TypeOK, TakeShim
<1>2. shim[shimTaken + 1] \in Line /\ Len(shim) \in Nat
  BY <1>1
<1>3. shim[shimTaken + 1].pid \in Pids
  BY <1>2 DEF Line
<1>4. prompt' \in BOOLEAN
  BY DEF TakeShim, TypeOK
<1> QED
  BY <1>1, <1>2, <1>3, <1>4 DEF TakeShim

LEMMA TypeTree ==
    ASSUME TypeOK, UNCHANGED treeVars
    PROVE  /\ running' \in BOOLEAN /\ live' \subseteq Pids /\ image' \in [Pids -> Images]
           /\ leader' \in [Pids -> Pids] /\ client' \in [Pids -> BOOLEAN]
           /\ file' \in [Pids -> Seq(Line)] /\ shim' \in Seq(Line) /\ calls' \in 0..MaxCalls
  BY DEF TypeOK, treeVars

LEMMA PromptType ==
    ASSUME TypeOK, NEW p, NEW call, Take(p, call)
    PROVE  prompt' \in BOOLEAN /\ TakeFile(p, call)
  BY DEF TypeOK, Take

LEMMA DecideTypes ==
    ASSUME TypeOK, NEW p \in Pids, NEW c \in Cands, DecideCandidate(p, c)
    PROVE  cand' \in Cands /\ fileReads' \subseteq Items \cup {None}
<1>1. c.events[p] \subseteq Line
  BY DEF Cands
<1>2. candidateWithout(c, p) \in Cands /\ itemsOf(c.events[p], "read") \subseteq Items \cup {None}
  BY CandTypes
<1> QED
  BY <1>2 DEF DecideCandidate, TypeOK

LEMMA HoldTypes ==
    ASSUME TypeOK, NEW l \in Line
    PROVE  /\ HoldOrEmit(l) => cand' \in Cands /\ emitted' \subseteq Line
           /\ \A pending : FilterOrKeep(l, pending) =>
                 cand' \in Cands /\ emitted' \subseteq Line /\ fileReads' \subseteq Items \cup {None}
<1>1. cand \in Cands /\ l.pid \in Pids /\ l.item \in Items \cup {None}
  BY DEF TypeOK, Cands, Line
<1>2. [cand EXCEPT !.events[l.pid] = @ \cup {l}] \in Cands
  BY <1>1, CandTypes
<1>3. HoldOrEmit(l) => cand' \in Cands /\ emitted' \subseteq Line
  BY <1>1, <1>2 DEF HoldOrEmit, hold, TypeOK
<1>4. ASSUME NEW pending, FilterOrKeep(l, pending)
      PROVE cand' \in Cands /\ emitted' \subseteq Line /\ fileReads' \subseteq Items \cup {None}
  BY <1>1, <1>3, <1>4 DEF FilterOrKeep, TypeOK
<1> QED
  BY <1>3, <1>4

\* Sequences, of whatever kind.
LEMMA SeqFacts ==
    ASSUME NEW D, NEW s \in Seq(D)
    PROVE  /\ Len(s) \in Nat /\ DOMAIN s = 1..Len(s) /\ \A i \in 1..Len(s) : s[i] \in D
           /\ \A d \in D : Append(s, d) \in Seq(D)
           /\ s # <<>> => /\ Head(s) = s[1] /\ Head(s) \in D /\ Tail(s) \in Seq(D)
                          /\ 1 \in 1..Len(s) /\ Len(Tail(s)) = Len(s) - 1
                          /\ \A i \in 1..(Len(s) - 1) : Tail(s)[i] = s[i + 1]
           /\ \A f : f \in [1..Len(s) -> D] => f \in Seq(D)
  OBVIOUS

LEMMA TakeExecType ==
    ASSUME TypeOK, NEW p, TakeExec(p) PROVE TypeOK'
<1>1. Take(p, "exec") /\ p \in Pids
  BY PromptType, NextOf DEF TakeExec
<1>2. TakeFile(p, "exec") /\ prompt' \in BOOLEAN
  BY <1>1, PromptType
<1>3. taken' \in [Pids -> Nat] /\ UNCHANGED <<treeVars, shimTaken>>
  BY <1>2, NextOf
<1>4. boot' \in Boots
  BY <1>1, BootTypes DEF TakeExec
<1>5. cand \in Cands /\ emitted \subseteq Line
  BY DEF TypeOK, Cands
<1>6. cand' \in Cands
  BY <1>1, <1>5, CandTypes DEF TakeExec, beginCandidate
<1>7. emitted' \subseteq Line
  BY <1>1, <1>5 DEF TakeExec, heldBack, Cands
<1>8. packageManagerClientPids' \subseteq Pids /\ completedPackageManagerClientPids' \subseteq Pids
  BY <1>1 DEF TakeExec, TypeOK
<1>9. UNCHANGED <<seen, envReads, fileReads, endedVars, deferVars, flushed>>
  BY DEF TakeExec
<1> QED
  BY <1>2, <1>3, <1>4, <1>6, <1>7, <1>8, <1>9, TypeTree DEF TypeOK, Cands, Boots, endedVars, deferVars

LEMMA TakeCloneType ==
    ASSUME TypeOK, BirthInv, NEW p, NEW call \in {"clone", "thread"}, TakeClone(p, call)
    PROVE  TypeOK' /\ NextLine(p).child \in Pids
<1>1. Take(p, call)
  BY DEF TakeClone
<1>2. TakeFile(p, call) /\ prompt' \in BOOLEAN
  BY <1>1, PromptType
<1>3. /\ taken' \in [Pids -> Nat] /\ UNCHANGED <<treeVars, shimTaken>> /\ p \in Pids
      /\ NextLine(p) \in Line /\ NextLine(p).call = call
      /\ taken[p] \in Nat /\ taken[p] < Len(file[p]) /\ NextLine(p) = file[p][taken[p] + 1]
      /\ Len(file[p]) \in Nat
  BY <1>2, NextOf
<1> DEFINE c == NextLine(p).child
<1>4. c \in Pids
  <2>1. taken[p] + 1 \in 1..Len(file[p])
    BY <1>3
  <2>2. c # None
    BY <1>3, <2>1 DEF BirthInv
  <2> QED BY <1>3, <2>2 DEF Line
<1>5. boot' \in Boots
  BY <1>3, <1>4, BootTypes DEF TakeClone
<1>6. seen' \subseteq Pids
  BY <1>4 DEF TakeClone, TypeOK
<1>7. deferredRelOpens' \in Seq([line : Line, inherited : BOOLEAN])
  <2> DEFINE D == [line : Line, inherited : BOOLEAN]
  <2>1. deferredRelOpens \in Seq(D)
    BY DEF TypeOK
  <2> HIDE DEF D
  <2>2. \A i \in DOMAIN deferredRelOpens : deferredRelOpens[i] \in D
    BY <2>1, SeqFacts
  <2>3. (c \in boot'.file) \in BOOLEAN
    OBVIOUS
  <2>4. deferredRelOpens' = [i \in DOMAIN deferredRelOpens |->
                IF deferredRelOpens[i].line.pid = c
                THEN [deferredRelOpens[i] EXCEPT !.inherited = c \in boot'.file]
                ELSE deferredRelOpens[i]]
    BY DEF TakeClone
  <2>5. \A i \in DOMAIN deferredRelOpens : deferredRelOpens'[i] \in D
    BY <2>2, <2>3, <2>4 DEF D
  <2>6. DOMAIN deferredRelOpens = 1..Len(deferredRelOpens) /\ Len(deferredRelOpens) \in Nat
    BY <2>1, SeqFacts
  <2>7. DOMAIN deferredRelOpens' = 1..Len(deferredRelOpens)
    BY <2>4, <2>6
  <2>8. deferredRelOpens' \in [1..Len(deferredRelOpens) -> D]
    BY <2>4, <2>5, <2>6
  <2>9. deferredRelOpens' \in Seq(D)
    BY <2>1, <2>8, SeqFacts
  <2> QED BY <2>9 DEF D
<1>8. UNCHANGED <<cand, envReads, fileReads, clientVars, endedVars, deferredNullAttribEvents,
                  emitted, flushed>>
  BY DEF TakeClone
<1> QED
  BY <1>2, <1>3, <1>4, <1>5, <1>6, <1>7, <1>8, TypeTree DEF TypeOK, Boots, clientVars, endedVars

LEMMA TakeExitType ==
    ASSUME TypeOK, NEW p, TakeExit(p) PROVE TypeOK'
<1>1. Take(p, "exit")
  BY DEF TakeExit
<1>2. TakeFile(p, "exit") /\ prompt' \in BOOLEAN
  BY <1>1, PromptType
<1>3. taken' \in [Pids -> Nat] /\ UNCHANGED <<treeVars, shimTaken>> /\ p \in Pids
  BY <1>2, NextOf
<1>4. cand \in Cands /\ emitted \subseteq Line
  BY DEF TypeOK, Cands
<1>5. cand' \in Cands
  BY <1>3, <1>4, CandTypes DEF TakeExit
<1>6. emitted' \subseteq Line
  BY <1>3, <1>4 DEF TakeExit, heldBack, Cands
<1>7. packageManagerClientPids' \subseteq Pids /\ completedPackageManagerClientPids' \subseteq Pids
  BY <1>3 DEF TakeExit, TypeOK
<1>8. UNCHANGED <<seen, boot, envReads, fileReads, endedVars, deferVars, flushed>>
  BY DEF TakeExit
<1> QED
  BY <1>2, <1>3, <1>5, <1>6, <1>7, <1>8, TypeTree DEF TypeOK, Cands, Boots, endedVars, deferVars

LEMMA TakeMarkerType ==
    ASSUME TypeOK, NEW p, TakeMarker(p) PROVE TypeOK'
<1>1. Take(p, "marker")
  BY DEF TakeMarker
<1>2. TakeFile(p, "marker") /\ prompt' \in BOOLEAN
  BY <1>1, PromptType
<1>3. /\ taken' \in [Pids -> Nat] /\ UNCHANGED <<treeVars, shimTaken>> /\ p \in Pids
      /\ NextLine(p).n \in Nat
  BY <1>2, NextOf DEF Line
<1>4. cand \in Cands
  BY DEF TypeOK, Cands
<1>5. cand' \in Cands /\ fileReads' \subseteq Items \cup {None}
  <2> DEFINE c == IF IsCandidate(p) THEN [cand EXCEPT !.marked = @ \cup {p}] ELSE cand
  <2>1. c \in Cands
    BY <1>3, <1>4, CandTypes
  <2>2. DecideCandidate(p, c)
    BY DEF TakeMarker
  <2> QED BY <1>3, <2>1, <2>2, DecideTypes
<1>6. boot' \in Boots
  <2>1. boot' = [clearNodeBootstrapFile(p) EXCEPT !.completed = @ \cup {p}]
    BY DEF TakeMarker
  <2>2. clearNodeBootstrapFile(p) \in Boots
    BY <1>3, BootTypes
  <2> QED BY <1>3, <2>1, <2>2 DEF Boots
<1>7. fileEndedTs' \in [Pids -> Nat]
  BY <1>3 DEF TakeMarker, TypeOK
<1>8. UNCHANGED <<seen, envReads, clientVars, envEndedTs, deferVars, emitted, flushed>>
  BY DEF TakeMarker
<1> QED
  BY <1>2, <1>3, <1>5, <1>6, <1>7, <1>8, TypeTree DEF TypeOK, Cands, Boots, clientVars, deferVars

LEMMA TakeShimMarkerType ==
    ASSUME TypeOK, TakeShimMarker PROVE TypeOK'
<1> DEFINE l == shim[shimTaken + 1]
           p == l.pid
           c == IF IsCandidate(p)
                THEN [cand EXCEPT !.confirmed = @ \cup {p},
                                  !.events[p] = {e \in @ : e.call # "env_read"}]
                ELSE cand
<1>1. TakeShim("marker")
  BY DEF TakeShimMarker
<1>2. /\ p \in Pids /\ l \in Line /\ prompt' \in BOOLEAN /\ shimTaken' \in Nat
      /\ UNCHANGED <<treeVars, taken, seen>>
  BY <1>1, NextShim
<1>3. cand \in Cands
  BY DEF TypeOK, Cands
<1>4. c \in Cands
  BY <1>2, <1>3, CandTypes
<1>5. DecideCandidate(p, c)
  BY DEF TakeShimMarker
<1>6. cand' \in Cands /\ fileReads' \subseteq Items \cup {None}
  BY <1>2, <1>4, <1>5, DecideTypes
<1>7. envReads' \subseteq Items \cup {None}
  <2>1. itemsOf(heldBack(p), "env_read") \subseteq Items \cup {None}
    BY <1>2, <1>3, CandTypes DEF heldBack
  <2> QED BY <2>1 DEF TakeShimMarker, TypeOK
<1>8. boot' \in Boots
  <2>1. boot' = [clearNodeBootstrapEnv(p) EXCEPT !.file = @ \cup {q \in {p} : stillStarting(p)}]
    BY DEF TakeShimMarker
  <2>2. {q \in {p} : stillStarting(p)} \subseteq Pids
    BY <1>2
  <2>3. clearNodeBootstrapEnv(p) \in Boots
    BY <1>2, BootTypes
  <2> QED BY <2>1, <2>2, <2>3 DEF Boots
<1>9. /\ packageManagerClientPids' \subseteq Pids /\ completedPackageManagerClientPids' \subseteq Pids
      /\ envEndedTs' \in [Pids -> Nat]
  BY <1>2 DEF TakeShimMarker, TypeOK, Line
<1>10. UNCHANGED <<fileEndedTs, deferVars, emitted, flushed>>
  BY DEF TakeShimMarker
<1> QED
  BY <1>2, <1>6, <1>7, <1>8, <1>9, <1>10, TypeTree DEF TypeOK, Cands, Boots, deferVars

LEMMA TakeRelativeType ==
    ASSUME TypeOK, NEW p, TakeRelative(p) PROVE TypeOK'
<1>1. Take(p, "read")
  BY DEF TakeRelative
<1>2. TakeFile(p, "read") /\ prompt' \in BOOLEAN
  BY <1>1, PromptType
<1>3. taken' \in [Pids -> Nat] /\ UNCHANGED <<treeVars, shimTaken>> /\ NextLine(p) \in Line
  BY <1>2, NextOf
<1>4. deferredRelOpens' \in Seq([line : Line, inherited : BOOLEAN])
  BY <1>3 DEF TakeRelative, TypeOK
<1>5. UNCHANGED <<seen, boot, cand, envReads, fileReads, clientVars, endedVars,
                  deferredNullAttribEvents, emitted, flushed>>
  BY DEF TakeRelative
<1> QED
  BY <1>2, <1>3, <1>4, <1>5, TypeTree DEF TypeOK, clientVars, endedVars

LEMMA TakeReadType ==
    ASSUME TypeOK, NEW p, TakeRead(p) PROVE TypeOK'
<1>1. Take(p, "read")
  BY DEF TakeRead
<1>2. TakeFile(p, "read") /\ prompt' \in BOOLEAN
  BY <1>1, PromptType
<1>3. taken' \in [Pids -> Nat] /\ UNCHANGED <<treeVars, shimTaken>> /\ NextLine(p) \in Line
  BY <1>2, NextOf
<1>4. cand' \in Cands /\ emitted' \subseteq Line /\ fileReads' \subseteq Items \cup {None}
  BY <1>3, HoldTypes DEF TakeRead
<1>5. UNCHANGED <<seen, boot, envReads, clientVars, endedVars, deferVars, flushed>>
  BY DEF TakeRead
<1> QED
  BY <1>2, <1>3, <1>4, <1>5, TypeTree DEF TypeOK, Cands, Boots, clientVars, endedVars, deferVars

LEMMA TakeReapedReadType ==
    ASSUME TypeOK, NEW p, TakeReapedRead(p) PROVE TypeOK'
<1>1. TakeFile(p, "read") /\ prompt' = FALSE
  BY DEF TakeReapedRead
<1>2. taken' \in [Pids -> Nat] /\ UNCHANGED <<treeVars, shimTaken>> /\ NextLine(p) \in Line
  BY <1>1, NextOf
<1>3. deferredNullAttribEvents' \in Seq([line : Line, pending : BOOLEAN])
  BY <1>2 DEF TakeReapedRead, TypeOK
<1>4. UNCHANGED <<seen, boot, cand, envReads, fileReads, clientVars, endedVars, deferredRelOpens,
                  emitted, flushed>>
  BY DEF TakeReapedRead
<1> QED
  BY <1>1, <1>2, <1>3, <1>4, TypeTree DEF TypeOK, clientVars, endedVars

LEMMA TakeEnvType ==
    ASSUME TypeOK, TakeEnv PROVE TypeOK'
<1> DEFINE l == shim[shimTaken + 1]
<1>1. TakeShim("env_read")
  BY DEF TakeEnv
<1>2. /\ l \in Line /\ l.pid \in Pids /\ prompt' \in BOOLEAN /\ shimTaken' \in Nat
      /\ UNCHANGED <<treeVars, taken, seen>>
  BY <1>1, NextShim
<1>3. cand \in Cands
  BY DEF TypeOK, Cands
<1>4. [cand EXCEPT !.events[l.pid] = @ \cup {l}] \in Cands
  BY <1>2, <1>3, CandTypes
<1>5. cand' \in Cands
  BY <1>3, <1>4 DEF TakeEnv, hold
<1>6. envReads' \subseteq Items \cup {None} /\ emitted' \subseteq Line
  BY <1>2 DEF TakeEnv, TypeOK, Line
<1>7. UNCHANGED <<boot, fileReads, clientVars, endedVars, deferVars, flushed>>
  BY DEF TakeEnv
<1> QED
  BY <1>2, <1>5, <1>6, <1>7, TypeTree DEF TypeOK, Cands, Boots, clientVars, endedVars, deferVars

LEMMA ReplayRelOpenType ==
    ASSUME TypeOK, ReplayRelOpen PROVE TypeOK' /\ Head(deferredRelOpens).line \in Line
<1> DEFINE D == [line : Line, inherited : BOOLEAN]
           d == Head(deferredRelOpens)
<1>1. deferredRelOpens \in Seq(D) /\ deferredRelOpens # <<>>
  BY DEF ReplayRelOpen, TypeOK
<1>2. d \in D /\ Tail(deferredRelOpens) \in Seq(D)
  BY <1>1, SeqFacts
<1>3. d.line \in Line
  BY <1>2
<1>4. cand' \in Cands /\ emitted' \subseteq Line /\ fileReads' \subseteq Items \cup {None}
  BY <1>3, HoldTypes DEF ReplayRelOpen
<1>5. /\ UNCHANGED <<treeVars, takeVars, boot, envReads, clientVars, endedVars,
                     deferredNullAttribEvents, flushed>>
      /\ deferredRelOpens' = Tail(deferredRelOpens)
  BY DEF ReplayRelOpen
<1> QED
  BY <1>2, <1>3, <1>4, <1>5, TypeTree DEF TypeOK, Cands, Boots, takeVars, clientVars, endedVars

LEMMA ReplayReapedType ==
    ASSUME TypeOK, ReplayReaped PROVE TypeOK' /\ Head(deferredNullAttribEvents).line \in Line
<1> DEFINE D == [line : Line, pending : BOOLEAN]
           d == Head(deferredNullAttribEvents)
<1>1. deferredNullAttribEvents \in Seq(D) /\ deferredNullAttribEvents # <<>>
  BY DEF ReplayReaped, TypeOK
<1>2. d \in D /\ Tail(deferredNullAttribEvents) \in Seq(D)
  BY <1>1, SeqFacts
<1>3. d.line \in Line
  BY <1>2
<1>4. cand \in Cands /\ emitted \subseteq Line
  BY DEF TypeOK, Cands
<1>5. cand' \in Cands /\ emitted' \subseteq Line
  BY <1>3, <1>4, HoldTypes DEF ReplayReaped
<1>6. /\ UNCHANGED <<treeVars, takeVars, boot, envReads, fileReads, clientVars, endedVars,
                     deferredRelOpens, flushed>>
      /\ deferredNullAttribEvents' = Tail(deferredNullAttribEvents)
  BY DEF ReplayReaped
<1> QED
  BY <1>2, <1>3, <1>5, <1>6, TypeTree DEF TypeOK, Cands, Boots, takeVars, clientVars, endedVars

LEMMA FlushAllType ==
    ASSUME TypeOK, FlushAll PROVE TypeOK'
<1>1. cand \in Cands /\ emitted \subseteq Line
  BY DEF TypeOK, Cands
<1>2. emitted' \subseteq Line
  BY <1>1 DEF FlushAll, heldBack, Cands
<1>3. cand' \in Cands
  BY DEF FlushAll, Cands
<1>4. /\ UNCHANGED <<treeVars, takeVars, boot, envReads, fileReads, clientVars, endedVars, deferVars>>
      /\ flushed' = TRUE
  BY DEF FlushAll
<1> QED
  BY <1>2, <1>3, <1>4, TypeTree DEF TypeOK, Cands, Boots, takeVars, clientVars, endedVars, deferVars

-----------------------------------------------------------------------------
(* Numbers, descent and what the lines say of a file.                      *)

\* A set of numbers below a bound has a greatest.
LEMMA Greatest ==
    ASSUME NEW n \in Nat, NEW E \in SUBSET (1..n), E # {}
    PROVE  \E x \in E : \A y \in E : y <= x
<1> DEFINE R == OpToRel(<, Nat)
           T == {n - i : i \in E}
<1>1. R = {ss \in Nat \X Nat : ss[1] < ss[2]}
  BY DEF OpToRel
<1>2. IsWellFoundedOn(R, Nat)
  BY NatLessThanWellFounded
<1>3. T \subseteq Nat /\ T # {}
  <2>1. \A i \in E : n - i \in Nat
    OBVIOUS
  <2>2. PICK e \in E : TRUE
    OBVIOUS
  <2> QED BY <2>1, <2>2
<1>4. PICK t \in T : \A u \in T : <<u, t>> \notin R
  <2> HIDE DEF R, T
  <2> QED BY <1>2, <1>3, WFMin
<1>5. \A u \in T : ~(u < t)
  BY <1>1, <1>3, <1>4
<1>6. PICK x \in E : t = n - x
  OBVIOUS
<1>7. \A y \in E : ~(n - y < n - x)
  BY <1>5, <1>6
<1> QED
  BY <1>6, <1>7

\* Descent is closed.
LEMMA KinFacts ==
    /\ \A p \in Pids : p \in Kin(p)
    /\ \A p \in Pids : \A b \in Births : b.child \in Kin(p) /\ b.pid \in Pids => b.pid \in Kin(p)
    /\ \A p \in Pids : \A q \in Kin(p) : Kin(q) \subseteq Kin(p)
<1>1. \A p \in Pids : p \in Kin(p)
  BY DEF Kin
<1>2. ASSUME NEW p \in Pids, NEW b \in Births, b.child \in Kin(p), b.pid \in Pids
      PROVE  b.pid \in Kin(p)
  <2> SUFFICES ASSUME NEW S \in SUBSET Pids, p \in S,
                      \A d \in Births : d.child \in S => d.pid \in S
               PROVE  b.pid \in S
    BY <1>2 DEF Kin
  <2>1. b.child \in S
    BY <1>2 DEF Kin
  <2> QED BY <2>1
<1>3. ASSUME NEW p \in Pids, NEW q \in Kin(p), NEW r \in Kin(q)
      PROVE  r \in Kin(p)
  <2> SUFFICES ASSUME NEW S \in SUBSET Pids, p \in S,
                      \A d \in Births : d.child \in S => d.pid \in S
               PROVE  r \in S
    BY <1>3 DEF Kin
  <2>1. q \in S
    BY <1>3 DEF Kin
  <2> QED BY <1>3, <2>1 DEF Kin
<1> QED
  BY <1>1, <1>2, <1>3

LEMMA LinesAre ==
    \A l : l \in Lines <=> \/ \E p \in Pids : \E i \in DOMAIN file[p] : l = file[p][i]
                           \/ \E k \in DOMAIN shim : l = shim[k]
<1> DEFINE L(p) == {file[p][i] : i \in DOMAIN file[p]}
           F == {L(p) : p \in Pids}
<1> SUFFICES ASSUME NEW l
             PROVE  l \in Lines <=> \/ \E p \in Pids : \E i \in DOMAIN file[p] : l = file[p][i]
                                    \/ \E k \in DOMAIN shim : l = shim[k]
  OBVIOUS
<1>1. Lines = (UNION F) \cup {shim[k] : k \in DOMAIN shim}
  BY DEF Lines
<1>2. l \in UNION F <=> \E p \in Pids : l \in L(p)
  <2> HIDE DEF L
  <2> QED OBVIOUS
<1>3. \A p \in Pids : l \in L(p) <=> \E i \in DOMAIN file[p] : l = file[p][i]
  OBVIOUS
<1>4. l \in {shim[k] : k \in DOMAIN shim} <=> \E k \in DOMAIN shim : l = shim[k]
  OBVIOUS
<1>5. l \in Lines <=> l \in UNION F \/ l \in {shim[k] : k \in DOMAIN shim}
  <2> HIDE DEF F
  <2> QED BY <1>1
<1> QED
  BY <1>2, <1>3, <1>4, <1>5

LEMMA LineFacts ==
    ASSUME TypeOK, KernelInv
    PROVE  /\ \A p \in Pids : \A i \in 1..Len(file[p]) :
                 /\ file[p][i] \in Lines /\ file[p][i] \in Line /\ file[p][i].pid = p
                 /\ file[p][i].child # None => file[p][i] \in Births /\ file[p][i].child \in Pids
           /\ \A l \in Lines : /\ l.pid \in Pids
                               /\ l.call # "env_read" =>
                                     \E i \in 1..Len(file[l.pid]) : file[l.pid][i] = l
<1>1. \A p \in Pids : DOMAIN file[p] = 1..Len(file[p]) /\ file[p] \in Seq(Line)
  BY DEF TypeOK
<1>2. ASSUME NEW p \in Pids, NEW i \in 1..Len(file[p])
      PROVE  /\ file[p][i] \in Lines /\ file[p][i] \in Line /\ file[p][i].pid = p
             /\ file[p][i].child # None => file[p][i] \in Births /\ file[p][i].child \in Pids
  <2>1. file[p][i] \in Lines
    BY <1>1, LinesAre
  <2>2. file[p][i] \in Line
    BY <1>1
  <2> QED BY <2>1, <2>2 DEF Births, KernelInv, FileInv, Line
<1>3. ASSUME NEW l \in Lines
      PROVE  l.pid \in Pids /\ (l.call # "env_read" =>
                 \E i \in 1..Len(file[l.pid]) : file[l.pid][i] = l)
  <2>1. CASE \E p \in Pids : \E i \in DOMAIN file[p] : l = file[p][i]
    <3>1. PICK p \in Pids : \E i \in 1..Len(file[p]) : l = file[p][i]
      BY <1>1, <2>1
    <3>2. l.pid = p
      BY <1>2, <3>1
    <3> QED BY <3>1, <3>2
  <2>2. CASE \E k \in DOMAIN shim : l = shim[k]
    <3>1. shim \in Seq(Line) /\ DOMAIN shim = 1..Len(shim)
      BY DEF TypeOK
    <3>2. PICK k \in 1..Len(shim) : l = shim[k]
      BY <2>2, <3>1
    <3>3. l \in Line
      BY <3>1, <3>2
    <3> QED BY <3>2, <3>3 DEF KernelInv, ShimInv, Line
  <2> QED BY <2>1, <2>2, LinesAre
<1> QED
  BY <1>2, <1>3

\* One it descends from tells after the fork; or makes the dispatcher forget that it told.
KinTells(p) ==
    \E b \in Births, m \in Lines :
        b.child \in Kin(p) /\ m.call = "marker" /\ m.pid = b.pid /\ m.n > b.n

KinForgets(p) ==
    \E a \in Kin(p), m, e \in Lines, b \in Births :
        /\ m.call = "marker" /\ m.pid = a
        /\ b.child \in Kin(a) /\ e.call = "exec" /\ e.pid = b.pid /\ e.n > b.n

\* Who reads x is neither starting nor about to become a Node.
Kept(x) ==
    \A m \in Lines : m.call = "read" /\ m.item = x =>
        ~m.startup /\ m.image # "thread" /\ ~BecomesNode(m) /\ ~Reopens(m)

\* What else is in the file of a kept read.
LEMMA KeptRead ==
    ASSUME TypeOK, KernelInv, NEW p \in Pids, NEW i \in 1..Len(file[p]),
           file[p][i].call = "read", Kept(file[p][i].item)
    PROVE  /\ leader[p] = p /\ ~file[p][i].startup /\ ~KinTells(p) /\ ~KinForgets(p)
           /\ \A j \in (i + 1)..Len(file[p]) :
                 file[p][j].call # "marker" /\ ~(file[p][j].call = "exec" /\ file[p][j].node)
<1> DEFINE l == file[p][i]
<1>1. Len(file[p]) \in Nat
  BY DEF TypeOK
<1>2. l \in Lines /\ l.pid = p
  BY LineFacts
<1>3. ~l.startup /\ l.image # "thread" /\ ~BecomesNode(l) /\ ~Reopens(l)
  BY <1>2 DEF Kept
<1>4. leader[p] = p
  BY <1>3 DEF KernelInv, ThreadInv
<1>5. ~KinTells(p)
  BY <1>2, <1>3 DEF KinTells, BecomesNode
<1>6. ~KinForgets(p)
  BY <1>2, <1>3 DEF KinForgets, Reopens
<1>7. ASSUME NEW j \in (i + 1)..Len(file[p])
      PROVE  file[p][j].call # "marker" /\ ~(file[p][j].call = "exec" /\ file[p][j].node)
  <2>1. j \in 1..Len(file[p]) /\ i < j
    BY <1>1
  <2>2. file[p][j] \in Lines /\ file[p][j].pid = p /\ file[p][j] \in Line
    BY <2>1, LineFacts
  <2>3. l.n < file[p][j].n /\ l.n \in Nat /\ file[p][j].n \in Nat
    BY <2>1, <2>2, LineFacts DEF KernelInv, FileInv, Line
  <2>4. file[p][j].n > l.n
    BY <2>3
  <2>5. file[p][j].call # "marker"
    BY <1>2, <1>3, <1>4, <2>2, <2>4 DEF BecomesNode, TellsLater
  <2>6. ~file[p][j].node
    BY <1>2, <1>3, <2>2, <2>4 DEF BecomesNode
  <2> QED BY <2>5, <2>6
<1> QED
  BY <1>3, <1>4, <1>5, <1>6, <1>7

\* The lines stay as they are.
LEMMA StillLines ==
    ASSUME UNCHANGED treeVars
    PROVE  /\ Lines' = Lines /\ Births' = Births
           /\ \A p : KinTells(p)' = KinTells(p) /\ KinForgets(p)' = KinForgets(p)
           /\ \A x : Kept(x)' = Kept(x)
<1>1. file' = file /\ shim' = shim /\ leader' = leader
  BY DEF treeVars
<1>2. Lines' = Lines
  BY <1>1 DEF Lines
<1>3. Births' = Births
  BY <1>2 DEF Births
<1>4. \A p : Kin(p)' = Kin(p)
  BY <1>3 DEF Kin
<1>5. \A p : KinTells(p)' = KinTells(p) /\ KinForgets(p)' = KinForgets(p)
  BY <1>2, <1>3, <1>4 DEF KinTells, KinForgets
<1>6. \A l : BecomesNode(l)' = BecomesNode(l) /\ Reopens(l)' = Reopens(l)
  BY <1>1, <1>2, <1>3, <1>4 DEF BecomesNode, TellsLater, Reopens
<1>7. \A x : Kept(x)' = Kept(x)
  BY <1>2, <1>6 DEF Kept
<1> QED
  BY <1>2, <1>3, <1>5, <1>7

-----------------------------------------------------------------------------
(* What the dispatcher knows of a process.                                 *)

\* The last of p's lines taken that tell of its program: the marker, a program called node,
\* or another one.
Told(p) ==
    \E i \in 1..taken[p] : /\ file[p][i].call = "marker"
                           /\ \A j \in (i + 1)..taken[p] : file[p][j].call # "exec"
Starting(p) ==
    \E i \in 1..taken[p] :
        /\ file[p][i].call = "exec" /\ file[p][i].node
        /\ \A j \in (i + 1)..taken[p] : file[p][j].call \notin {"exec", "marker"}
Script(p) ==
    \E i \in 1..taken[p] :
        /\ file[p][i].call = "exec" /\ ~file[p][i].node
        /\ \A j \in (i + 1)..taken[p] : file[p][j].call \notin {"exec", "marker", "exit"}

\* A marker of p is still to be taken; or nothing of p is, and it told.
TellsAhead(p) == \E i \in (taken[p] + 1)..Len(file[p]) : file[p][i].call = "marker"
Over(p) == taken[p] = Len(file[p]) /\ fileEndedTs[p] # 0

Bounds ==
    /\ \A p \in Pids : taken[p] <= Len(file[p])
    /\ shimTaken <= Len(shim)

\* Why the reads of p may be left out.
Pending(p) == Starting(p) \/ TellsAhead(p) \/ KinTells(p) \/ KinForgets(p) \/ Over(p)

PendingInv == \A p \in boot.file : leader[p] = p => Pending(p)

\* Who has told is known to, unless one it descends from made the dispatcher forget.
CompletedInv == \A p \in Pids : Told(p) => p \in boot.completed \/ KinForgets(p)

\* A program not called node is a candidate until it is decided.
CandInv == ~flushed => \A p \in Pids : Script(p) => p \in cand.pids

MarkedInv == \A p \in cand.marked : Told(p)

ChildrenInv ==
    \A p \in Pids : \A c \in boot.children[p] : \E i \in 1..taken[p] : file[p][i].child = c

EndedInv ==
    \A p \in Pids :
        /\ fileEndedTs[p] # 0 =>
               \E i \in 1..taken[p] : file[p][i].call = "marker" /\ file[p][i].n = fileEndedTs[p]
        /\ \A i \in 1..taken[p] : file[p][i].call = "marker" => fileEndedTs[p] # 0

\* A read held back is of the process; once strace's marker is taken it lies before a marker.
HeldInv ==
    \A p \in Pids : \A e \in cand.events[p] : e.call = "read" =>
        \E i \in 1..taken[p] :
            /\ file[p][i] = e
            /\ p \in cand.marked => \E j \in (i + 1)..taken[p] : file[p][j].call = "marker"

\* A read that waits for the end was taken, and will not be left out if it is kept.
DeferInv ==
    \A k \in 1..Len(deferredRelOpens) : \A d \in {deferredRelOpens[k]} :
           /\ d.line.call = "read"
           /\ \E i \in 1..taken[d.line.pid] : file[d.line.pid][i] = d.line
           /\ Kept(d.line.item) /\ d.inherited => fileEndedTs[d.line.pid] # 0

NullInv ==
    \A k \in 1..Len(deferredNullAttribEvents) : \A d \in {deferredNullAttribEvents[k]} :
           /\ d.line.call = "read"
           /\ \E i \in 1..taken[d.line.pid] : file[d.line.pid][i] = d.line
           /\ Kept(d.line.item) => ~d.pending

BaselineInv == \A x \in fileReads : ~Kept(x)

\* A kept read that was taken is in the audit, held back or waiting.
Somewhere(l) ==
    \/ l \in emitted
    \/ l \in cand.events[l.pid]
    \/ \E k \in 1..Len(deferredRelOpens) : deferredRelOpens[k].line = l
    \/ \E k \in 1..Len(deferredNullAttribEvents) : deferredNullAttribEvents[k].line = l

WhereInv ==
    \A p \in Pids : \A i \in 1..taken[p] : \A l \in {file[p][i]} :
        l.call = "read" /\ Kept(l.item) => Somewhere(l)

FlushedInv ==
    flushed => /\ AllTaken /\ deferredRelOpens = <<>> /\ deferredNullAttribEvents = <<>>
               /\ \A p \in Pids : cand.events[p] = {}

ReadInv ==
    /\ Bounds /\ PendingInv /\ CompletedInv /\ CandInv /\ MarkedInv /\ ChildrenInv /\ EndedInv
    /\ HeldInv /\ DeferInv /\ NullInv /\ BaselineInv /\ WhereInv /\ FlushedInv

FreshWhileRunning == running => Fresh

Reading == TypeOK /\ KernelInv /\ FreshWhileRunning /\ (~running => ReadInv)

\* At the end every kept read is in the audit.
LEMMA ReadingKept == Reading => FileReadsKept
<1> SUFFICES ASSUME Reading, flushed, NEW l \in Lines, l.call = "read", Clean(l),
                    \A m \in Lines : m.call = "read" /\ m.item = l.item
                                       => ~BecomesNode(m) /\ ~Reopens(m)
             PROVE  l \in emitted
  BY DEF FileReadsKept
<1>1. TypeOK /\ KernelInv /\ ReadInv
  BY DEF Reading, FreshWhileRunning, Fresh
<1>2. PICK p \in Pids : p = l.pid
  BY <1>1, LineFacts
<1>3. PICK i \in 1..Len(file[p]) : file[p][i] = l
  BY <1>1, <1>2, LineFacts
<1>4. Kept(l.item)
  BY DEF Kept, Clean
<1>5. AllTaken /\ deferredRelOpens = <<>> /\ deferredNullAttribEvents = <<>>
      /\ cand.events[p] = {}
  BY <1>1 DEF ReadInv, FlushedInv
<1>6. i \in 1..taken[p]
  <2>1. ~(taken[p] < Len(file[p])) /\ taken[p] \in Nat /\ Len(file[p]) \in Nat
    BY <1>1, <1>5 DEF AllTaken, Untaken, TypeOK
  <2> QED BY <2>1
<1>7. Somewhere(l)
  BY <1>1, <1>3, <1>4, <1>6 DEF ReadInv, WhereInv
<1>8. Len(<<>>) = 0 /\ 1..0 = {}
  OBVIOUS
<1> QED
  BY <1>2, <1>5, <1>7, <1>8 DEF Somewhere

-----------------------------------------------------------------------------
(* A line of a file is taken.                                              *)

\* Whom the line is not of is known as before; of p, what the line tells.
LEMMA Advance ==
    ASSUME TypeOK, NEW p, NEW call, TakeFile(p, call)
    PROVE  /\ file' = file /\ leader' = leader /\ shim' = shim /\ shimTaken' = shimTaken
           /\ \A q \in Pids \ {p} :
                 /\ taken'[q] = taken[q] /\ Told(q)' = Told(q) /\ Starting(q)' = Starting(q)
                 /\ Script(q)' = Script(q) /\ TellsAhead(q)' = TellsAhead(q)
           /\ taken'[p] = taken[p] + 1 /\ taken[p] + 1 \in 1..Len(file[p])
           /\ file[p][taken[p] + 1] = NextLine(p) /\ NextLine(p).call = call
           /\ \A i \in 1..taken'[p] : i \in 1..taken[p] \/ i = taken[p] + 1
           /\ Told(p)' <=> (call = "marker" \/ (call # "exec" /\ Told(p)))
           /\ Starting(p)' <=> \/ call = "exec" /\ NextLine(p).node
                               \/ call \notin {"exec", "marker"} /\ Starting(p)
           /\ Script(p)' <=> \/ call = "exec" /\ ~NextLine(p).node
                             \/ call \notin {"exec", "marker", "exit"} /\ Script(p)
           /\ call # "marker" /\ TellsAhead(p) => TellsAhead(p)'
<1>1. /\ p \in Pids /\ taken[p] \in Nat /\ Len(file[p]) \in Nat /\ taken[p] < Len(file[p])
      /\ NextLine(p) = file[p][taken[p] + 1] /\ NextLine(p).call = call
      /\ taken' = [taken EXCEPT ![p] = @ + 1] /\ taken \in [Pids -> Nat]
      /\ file' = file /\ leader' = leader /\ shim' = shim /\ shimTaken' = shimTaken
  BY NextOf DEF treeVars, TypeOK
<1>2. ASSUME NEW q \in Pids \ {p}
      PROVE  /\ taken'[q] = taken[q] /\ Told(q)' = Told(q) /\ Starting(q)' = Starting(q)
             /\ Script(q)' = Script(q) /\ TellsAhead(q)' = TellsAhead(q)
  <2>1. taken'[q] = taken[q]
    BY <1>1
  <2> QED BY <1>1, <2>1 DEF Told, Starting, Script, TellsAhead
<1>3. PICK k \in Nat : k = taken[p]
  BY <1>1
<1>4. /\ taken'[p] = k + 1 /\ file[p][k + 1] = NextLine(p) /\ NextLine(p).call = call
      /\ \A i \in 1..(k + 1) : i \in 1..k \/ i = k + 1
      /\ \A i \in 1..k : i \in 1..(k + 1) /\ k + 1 \in (i + 1)..(k + 1)
      /\ \A i \in 1..k : \A j \in (i + 1)..(k + 1) : j \in (i + 1)..k \/ j = k + 1
      /\ \A i \in 1..k : \A j \in (i + 1)..k : j \in (i + 1)..(k + 1)
      /\ ((k + 1) + 1)..(k + 1) = {} /\ k + 1 \in 1..(k + 1)
  BY <1>1, <1>3
<1>5. Told(p)' <=> (call = "marker" \/ (call # "exec" /\ Told(p)))
  <2>1. Told(p)' <=> \E i \in 1..(k + 1) : /\ file[p][i].call = "marker"
                                           /\ \A j \in (i + 1)..(k + 1) : file[p][j].call # "exec"
    BY <1>1, <1>4 DEF Told
  <2>2. Told(p) <=> \E i \in 1..k : /\ file[p][i].call = "marker"
                                    /\ \A j \in (i + 1)..k : file[p][j].call # "exec"
    BY <1>3 DEF Told
  <2> QED BY <1>4, <2>1, <2>2
<1>6. Starting(p)' <=> \/ call = "exec" /\ NextLine(p).node
                       \/ call \notin {"exec", "marker"} /\ Starting(p)
  <2>1. Starting(p)' <=> \E i \in 1..(k + 1) :
            /\ file[p][i].call = "exec" /\ file[p][i].node
            /\ \A j \in (i + 1)..(k + 1) : file[p][j].call \notin {"exec", "marker"}
    BY <1>1, <1>4 DEF Starting
  <2>2. Starting(p) <=> \E i \in 1..k :
            /\ file[p][i].call = "exec" /\ file[p][i].node
            /\ \A j \in (i + 1)..k : file[p][j].call \notin {"exec", "marker"}
    BY <1>3 DEF Starting
  <2> QED BY <1>4, <2>1, <2>2
<1>7. Script(p)' <=> \/ call = "exec" /\ ~NextLine(p).node
                     \/ call \notin {"exec", "marker", "exit"} /\ Script(p)
  <2>1. Script(p)' <=> \E i \in 1..(k + 1) :
            /\ file[p][i].call = "exec" /\ ~file[p][i].node
            /\ \A j \in (i + 1)..(k + 1) : file[p][j].call \notin {"exec", "marker", "exit"}
    BY <1>1, <1>4 DEF Script
  <2>2. Script(p) <=> \E i \in 1..k :
            /\ file[p][i].call = "exec" /\ ~file[p][i].node
            /\ \A j \in (i + 1)..k : file[p][j].call \notin {"exec", "marker", "exit"}
    BY <1>3 DEF Script
  <2> QED BY <1>4, <2>1, <2>2
<1>8. ASSUME call # "marker", TellsAhead(p) PROVE TellsAhead(p)'
  <2>1. PICK i \in (k + 1)..Len(file[p]) : file[p][i].call = "marker"
    BY <1>3, <1>8 DEF TellsAhead
  <2>2. i # k + 1
    BY <1>4, <1>8, <2>1
  <2>3. i \in ((k + 1) + 1)..Len(file[p])
    BY <1>1, <2>2
  <2> QED BY <1>1, <1>4, <2>1, <2>3 DEF TellsAhead
<1> QED
  BY <1>1, <1>2, <1>3, <1>4, <1>5, <1>6, <1>7, <1>8

\* A read that is left out because its process may be starting is not kept.
LEMMA PendingRead ==
    ASSUME TypeOK, KernelInv, PendingInv, NEW p, TakeFile(p, "read"), p \in boot.file
    PROVE  ~Kept(NextLine(p).item)
<1> SUFFICES ASSUME Kept(NextLine(p).item) PROVE FALSE
  OBVIOUS
<1>1. PICK k \in Nat : k = taken[p]
  BY NextOf
<1>2. /\ p \in Pids /\ k + 1 \in 1..Len(file[p]) /\ file[p][k + 1] = NextLine(p)
      /\ NextLine(p).call = "read" /\ Len(file[p]) \in Nat
  BY <1>1, NextOf, Advance
<1>3. /\ leader[p] = p /\ ~NextLine(p).startup /\ ~KinTells(p) /\ ~KinForgets(p)
      /\ \A j \in ((k + 1) + 1)..Len(file[p]) : file[p][j].call # "marker"
  BY <1>2, KeptRead
<1>4. ~Starting(p)
  <2> SUFFICES ASSUME Starting(p) PROVE FALSE
    OBVIOUS
  <2>1. PICK i \in 1..k : /\ file[p][i].call = "exec" /\ file[p][i].node
                          /\ \A j \in (i + 1)..k : file[p][j].call \notin {"exec", "marker"}
    BY <1>1 DEF Starting
  <2>2. k + 1 \in (i + 1)..Len(file[p]) /\ i \in 1..Len(file[p])
        /\ \A j \in (i + 1)..(k + 1) : j \in (i + 1)..k \/ j = k + 1
    BY <1>2
  <2>3. \A j \in (i + 1)..(k + 1) : file[p][j].call \notin {"exec", "marker"}
    BY <1>2, <2>1, <2>2
  <2>4. file[p][k + 1].startup
    BY <2>1, <2>2, <2>3, <1>2 DEF KernelInv, StartInv
  <2> QED BY <1>2, <1>3, <2>4
<1>5. ~TellsAhead(p)
  <2>1. \A j \in (k + 1)..Len(file[p]) : j = k + 1 \/ j \in ((k + 1) + 1)..Len(file[p])
    BY <1>2
  <2> QED BY <1>1, <1>2, <1>3, <2>1 DEF TellsAhead
<1>6. ~Over(p)
  BY <1>1, <1>2 DEF Over
<1> QED
  BY <1>3, <1>4, <1>5, <1>6 DEF PendingInv, Pending

\* In the subtree of p are p and those that descend from it by forks taken before.
LEMMA SubtreeKin ==
    ASSUME TypeOK, KernelInv, Bounds, ChildrenInv, NEW p \in Pids, NEW q \in nodeBootstrapSubtree(p)
    PROVE  q = p \/ \E i \in 1..taken[p] : file[p][i].child \in Pids /\ file[p][i].child \in Kin(q)
<1> DEFINE S == {p} \cup {x \in Pids : \E i \in 1..taken[p] :
                                          file[p][i].child \in Pids /\ file[p][i].child \in Kin(x)}
<1>0. \A x \in Pids : boot.children[x] \subseteq Pids
  BY DEF TypeOK
<1>1. ASSUME NEW x \in Pids, NEW i \in 1..taken[x], file[x][i].child \in Pids
      PROVE  /\ i \in 1..Len(file[x]) /\ file[x][i] \in Births /\ file[x][i].pid = x
  <2>1. i \in 1..Len(file[x])
    BY DEF Bounds, TypeOK
  <2>2. file[x][i].child # None
    BY <1>1, RootAssumption
  <2> QED BY <2>1, <2>2, LineFacts
<1>2. ASSUME NEW x \in S, NEW y \in boot.children[x]
      PROVE  y \in S
  <2>1. x \in Pids /\ y \in Pids
    BY <1>0
  <2>2. PICK j \in 1..taken[x] : file[x][j].child = y
    BY <2>1, <1>2 DEF ChildrenInv
  <2>3. file[x][j] \in Births /\ file[x][j].pid = x
    BY <1>1, <2>1, <2>2
  <2>4. y \in Kin(y) /\ x \in Kin(y)
    BY <2>1, <2>2, <2>3, KinFacts
  <2>5. CASE x = p
    BY <2>1, <2>2, <2>4, <2>5
  <2>6. CASE x # p
    <3>1. PICK i \in 1..taken[p] : file[p][i].child \in Pids /\ file[p][i].child \in Kin(x)
      BY <1>2, <2>6
    <3>2. file[p][i].child \in Kin(y)
      BY <2>1, <2>4, <3>1, KinFacts
    <3> QED BY <2>1, <3>1, <3>2
  <2> QED BY <2>5, <2>6
<1>3. S \in SUBSET Pids /\ p \in S
  OBVIOUS
<1>4. q \in S
  <2> HIDE DEF S
  <2> QED BY <1>2, <1>3 DEF nodeBootstrapSubtree
<1> QED
  BY <1>4

-----------------------------------------------------------------------------
(* What a step of the dispatcher that does not concern it leaves alone.    *)

Grows == UNCHANGED treeVars /\ \A q \in Pids : taken'[q] \in Nat /\ taken[q] <= taken'[q]

LEMMA StillKernel ==
    ASSUME KernelInv, UNCHANGED treeVars PROVE KernelInv'
  BY DEF KernelInv, treeVars, FileInv, ShimInv, ThreadInv, DeadInv, BirthInv, StartInv, CloneInv

LEMMA GrowsTaken ==
    ASSUME TypeOK, Grows, NEW q \in Pids, NEW i \in 1..taken[q] PROVE i \in 1..taken'[q]
<1>1. taken[q] \in Nat
  BY DEF TypeOK
<1>2. taken'[q] \in Nat /\ taken[q] <= taken'[q]
  BY DEF Grows
<1> QED BY <1>1, <1>2

LEMMA TakeGrows ==
    ASSUME TypeOK, NEW p, NEW call, TakeFile(p, call) PROVE Grows
<1>1. /\ UNCHANGED treeVars /\ p \in Pids /\ taken' = [taken EXCEPT ![p] = @ + 1]
      /\ taken \in [Pids -> Nat]
  BY NextOf DEF TypeOK
<1>2. \A q \in Pids : taken'[q] = IF q = p THEN taken[q] + 1 ELSE taken[q]
  BY <1>1
<1> QED
  BY <1>1, <1>2 DEF Grows

LEMMA KeepChildren ==
    ASSUME TypeOK, ChildrenInv, Grows, \A q \in Pids : boot'.children[q] \subseteq boot.children[q]
    PROVE  ChildrenInv'
<1> SUFFICES ASSUME NEW q \in Pids, NEW c \in boot'.children[q]
             PROVE  \E i \in 1..taken'[q] : file'[q][i].child = c
  BY DEF ChildrenInv
<1>1. PICK i \in 1..taken[q] : file[q][i].child = c
  BY DEF ChildrenInv
<1>2. file' = file /\ i \in 1..taken'[q]
  BY DEF Grows, treeVars, TypeOK
<1> QED
  BY <1>1, <1>2

LEMMA KeepHeld ==
    ASSUME TypeOK, HeldInv, Grows, \A q \in Pids : cand'.events[q] \subseteq cand.events[q],
           cand'.marked \subseteq cand.marked
    PROVE  HeldInv'
<1> SUFFICES ASSUME NEW q \in Pids, NEW e \in cand'.events[q], e.call = "read"
             PROVE  \E i \in 1..taken'[q] :
                       /\ file'[q][i] = e
                       /\ q \in cand'.marked =>
                             \E j \in (i + 1)..taken'[q] : file'[q][j].call = "marker"
  BY DEF HeldInv
<1>1. PICK i \in 1..taken[q] :
         /\ file[q][i] = e
         /\ q \in cand.marked => \E j \in (i + 1)..taken[q] : file[q][j].call = "marker"
  BY DEF HeldInv
<1>2. file' = file /\ i \in 1..taken'[q] /\ (i + 1)..taken[q] \subseteq (i + 1)..taken'[q]
  BY DEF Grows, treeVars, TypeOK
<1> QED
  BY <1>1, <1>2

LEMMA DeferredPid ==
    ASSUME TypeOK
    PROVE  /\ \A k \in 1..Len(deferredRelOpens) :
                 deferredRelOpens[k].line \in Line /\ deferredRelOpens[k].line.pid \in Pids
           /\ \A k \in 1..Len(deferredNullAttribEvents) :
                 /\ deferredNullAttribEvents[k].line \in Line
                 /\ deferredNullAttribEvents[k].line.pid \in Pids
<1>1. \A k \in 1..Len(deferredRelOpens) : deferredRelOpens[k].line \in Line
  <2>1. \A k \in 1..Len(deferredRelOpens) :
           deferredRelOpens[k] \in [line : Line, inherited : BOOLEAN]
    BY SeqFacts DEF TypeOK
  <2> QED BY <2>1
<1>2. \A k \in 1..Len(deferredNullAttribEvents) : deferredNullAttribEvents[k].line \in Line
  <2>1. \A k \in 1..Len(deferredNullAttribEvents) :
           deferredNullAttribEvents[k] \in [line : Line, pending : BOOLEAN]
    BY SeqFacts DEF TypeOK
  <2> QED BY <2>1
<1> QED
  BY <1>1, <1>2 DEF Line

LEMMA KeepDefer ==
    ASSUME TypeOK, DeferInv, Grows, deferredRelOpens' = deferredRelOpens,
           \A q \in Pids : fileEndedTs[q] # 0 => fileEndedTs'[q] # 0
    PROVE  DeferInv'
<1> SUFFICES ASSUME NEW k \in 1..Len(deferredRelOpens), NEW d, d = deferredRelOpens[k]
             PROVE  /\ d.line.call = "read"
                    /\ \E i \in 1..taken'[d.line.pid] : file'[d.line.pid][i] = d.line
                    /\ Kept(d.line.item)' /\ d.inherited => fileEndedTs'[d.line.pid] # 0
  BY DEF DeferInv
<1>1. d.line.pid \in Pids
  BY DeferredPid
<1>2. /\ d.line.call = "read"
      /\ \E i \in 1..taken[d.line.pid] : file[d.line.pid][i] = d.line
      /\ Kept(d.line.item) /\ d.inherited => fileEndedTs[d.line.pid] # 0
  BY DEF DeferInv
<1>3. Kept(d.line.item)' = Kept(d.line.item)
  BY StillLines DEF Grows
<1>4. file' = file /\ 1..taken[d.line.pid] \subseteq 1..taken'[d.line.pid]
  BY <1>1 DEF Grows, treeVars, TypeOK
<1> QED
  BY <1>1, <1>2, <1>3, <1>4

LEMMA KeepNull ==
    ASSUME TypeOK, NullInv, Grows, deferredNullAttribEvents' = deferredNullAttribEvents
    PROVE  NullInv'
<1> SUFFICES ASSUME NEW k \in 1..Len(deferredNullAttribEvents), NEW d,
                    d = deferredNullAttribEvents[k]
             PROVE  /\ d.line.call = "read"
                    /\ \E i \in 1..taken'[d.line.pid] : file'[d.line.pid][i] = d.line
                    /\ Kept(d.line.item)' => ~d.pending
  BY DEF NullInv
<1>1. d.line.pid \in Pids
  BY DeferredPid
<1>2. /\ d.line.call = "read"
      /\ \E i \in 1..taken[d.line.pid] : file[d.line.pid][i] = d.line
      /\ Kept(d.line.item) => ~d.pending
  BY DEF NullInv
<1>3. Kept(d.line.item)' = Kept(d.line.item)
  BY StillLines DEF Grows
<1>4. file' = file /\ 1..taken[d.line.pid] \subseteq 1..taken'[d.line.pid]
  BY <1>1 DEF Grows, treeVars, TypeOK
<1> QED
  BY <1>1, <1>2, <1>3, <1>4

LEMMA KeepBaseline ==
    ASSUME BaselineInv, Grows, \A x \in fileReads' \ fileReads : ~Kept(x)
    PROVE  BaselineInv'
  BY StillLines DEF Grows, BaselineInv

\* Taking a file's line, other than a marker.
LEMMA KeepEnded ==
    ASSUME TypeOK, EndedInv, NEW p, NEW call, TakeFile(p, call), call # "marker",
           fileEndedTs' = fileEndedTs
    PROVE  EndedInv'
<1>1. /\ file' = file /\ \A q \in Pids \ {p} : taken'[q] = taken[q]
      /\ \A i \in 1..taken'[p] : i \in 1..taken[p] \/ i = taken[p] + 1
      /\ file[p][taken[p] + 1].call # "marker"
  BY Advance
<1>2. \A q \in Pids : 1..taken[q] \subseteq 1..taken'[q]
  BY TakeGrows, GrowsTaken
<1> QED
  BY <1>1, <1>2 DEF EndedInv

LEMMA KeepBounds ==
    ASSUME TypeOK, Bounds, NEW p, NEW call, TakeFile(p, call)
    PROVE  Bounds'
<1>1. /\ file' = file /\ shim' = shim /\ shimTaken' = shimTaken
      /\ \A q \in Pids \ {p} : taken'[q] = taken[q]
      /\ taken'[p] <= Len(file[p])
  BY NextOf, Advance
<1> QED
  BY <1>1 DEF Bounds

LEMMA KeepFlushed ==
    ASSUME TypeOK, FlushedInv, NEW p, NEW call, TakeFile(p, call)
    PROVE  ~flushed /\ (flushed' = flushed => FlushedInv')
<1>1. p \in Untaken
  BY DEF TakeFile
<1>2. ~flushed
  BY <1>1 DEF FlushedInv, AllTaken
<1> QED
  BY <1>2 DEF FlushedInv

\* The reasons to leave out the reads of q stay.
LEMMA KeepPending ==
    ASSUME TypeOK, NEW p, NEW call, TakeFile(p, call), NEW q \in Pids, Pending(q),
           q = p => call \notin {"exec", "marker"},
           fileEndedTs[q] # 0 => fileEndedTs'[q] # 0
    PROVE  Pending(q)'
<1>1. KinTells(q)' = KinTells(q) /\ KinForgets(q)' = KinForgets(q)
  BY StillLines, NextOf
<1>2. CASE q # p
  <2>1. /\ taken'[q] = taken[q] /\ Starting(q)' = Starting(q) /\ TellsAhead(q)' = TellsAhead(q)
        /\ file' = file
    BY <1>2, Advance
  <2>2. Over(q) => Over(q)'
    BY <2>1 DEF Over
  <2> QED BY <1>1, <2>1, <2>2 DEF Pending
<1>3. CASE q = p
  <2>1. Starting(q) => Starting(q)'
    BY <1>3, Advance
  <2>2. TellsAhead(q) => TellsAhead(q)'
    BY <1>3, Advance
  <2>3. ~Over(q)
    BY <1>3, NextOf DEF Over
  <2> QED BY <1>1, <2>1, <2>2, <2>3 DEF Pending
<1> QED
  BY <1>2, <1>3

\* Nothing of a kept read is lost, and it is somewhere when it is taken.
LEMMA KeepWhere ==
    ASSUME TypeOK, KernelInv, Bounds, WhereInv, NEW p, NEW call, TakeFile(p, call),
           \A l \in Lines : l.call = "read" /\ Kept(l.item) /\ Somewhere(l) => Somewhere(l)',
           \A l \in {NextLine(p)} : call = "read" /\ Kept(l.item) => Somewhere(l)'
    PROVE  WhereInv'
<1>1. file' = file /\ \A x : Kept(x)' = Kept(x)
  BY StillLines, NextOf, Advance
<1> SUFFICES ASSUME NEW q \in Pids, NEW i \in 1..taken'[q], NEW l, l = file[q][i],
                    l.call = "read", Kept(l.item)
             PROVE  Somewhere(l)'
  BY <1>1 DEF WhereInv
<1>2. CASE i \in 1..taken[q]
  <2>1. i \in 1..Len(file[q])
    BY <1>2 DEF Bounds, TypeOK
  <2>2. l \in Lines
    BY <2>1, LineFacts
  <2>3. Somewhere(l)
    BY <1>2 DEF WhereInv
  <2> QED BY <2>2, <2>3
<1>3. CASE i \notin 1..taken[q]
  <2>1. q = p /\ i = taken[p] + 1
    BY <1>3, Advance
  <2>2. l = NextLine(p) /\ NextLine(p).call = call
    BY <2>1, Advance
  <2> QED BY <2>2
<1> QED
  BY <1>2, <1>3

\* Who is known to have told is still, unless it is taken anew.
LEMMA KeepCompleted ==
    ASSUME TypeOK, CompletedInv, NEW p, NEW call, TakeFile(p, call), call \notin {"exec", "marker"},
           boot.completed \subseteq boot'.completed
    PROVE  CompletedInv'
<1> SUFFICES ASSUME NEW q \in Pids, Told(q)' PROVE q \in boot'.completed \/ KinForgets(q)'
  BY DEF CompletedInv
<1>1. Told(q)
  BY Advance
<1>2. KinForgets(q)' = KinForgets(q)
  BY StillLines, NextOf
<1> QED
  BY <1>1, <1>2 DEF CompletedInv

LEMMA KeepCand ==
    ASSUME TypeOK, CandInv, NEW p, NEW call, TakeFile(p, call), call # "exec",
           cand.pids \ cand'.pids \subseteq {q \in {p} : call \in {"marker", "exit"}},
           flushed' = flushed
    PROVE  CandInv'
<1> SUFFICES ASSUME ~flushed, NEW q \in Pids, Script(q)' PROVE q \in cand'.pids
  BY DEF CandInv
<1>1. Script(q) /\ (q = p => call \notin {"marker", "exit"})
  BY Advance
<1> QED
  BY <1>1 DEF CandInv

LEMMA KeepMarked ==
    ASSUME TypeOK, MarkedInv, NEW p, NEW call, TakeFile(p, call), cand'.marked \subseteq Pids,
           \A q \in cand'.marked : \/ q \in cand.marked /\ (q = p => call # "exec")
                                   \/ q = p /\ call = "marker"
    PROVE  MarkedInv'
<1> SUFFICES ASSUME NEW q \in cand'.marked PROVE Told(q)'
  BY DEF MarkedInv
<1> QED
  BY Advance DEF MarkedInv

-----------------------------------------------------------------------------
(* The lines that tell of a process.                                       *)

\* Nothing held back is lost.
LEMMA SomewhereEmitted ==
    ASSUME NEW p \in Pids, UNCHANGED deferVars, emitted \subseteq emitted',
           cand.events[p] \subseteq emitted' \cup cand'.events[p],
           \A q \in Pids \ {p} : cand.events[q] \subseteq cand'.events[q],
           NEW l, l.pid \in Pids, Somewhere(l)
    PROVE  Somewhere(l)'
  BY DEF Somewhere, deferVars

LEMMA WithoutFacts ==
    ASSUME NEW c \in Cands, NEW p \in Pids
    PROVE  /\ candidateWithout(c, p).pids = c.pids \ {p}
           /\ candidateWithout(c, p).marked = c.marked \ {p}
           /\ candidateWithout(c, p).confirmed = c.confirmed \ {p}
           /\ candidateWithout(c, p).events[p] = {}
           /\ \A q \in Pids \ {p} : candidateWithout(c, p).events[q] = c.events[q]
  BY DEF candidateWithout, Cands

LEMMA TakeExecReads ==
    ASSUME TypeOK, KernelInv, ReadInv, NEW p, TakeExec(p) PROVE ReadInv'
<1> DEFINE S == nodeBootstrapSubtree(p)
<1>1. TakeFile(p, "exec") /\ p \in Pids /\ Grows
  BY PromptType, NextOf, TakeGrows DEF TakeExec
<1>2. cand \in Cands /\ boot \in Boots
  BY DEF TypeOK, Cands, Boots
<1>3. /\ cand'.pids = (cand.pids \ {p}) \cup {q \in {p} : ~NextLine(p).node}
      /\ cand'.marked = cand.marked \ {p} /\ cand'.events[p] = {}
      /\ \A q \in Pids \ {p} : cand'.events[q] = cand.events[q]
  <2>1. candidateWithout(cand, p) \in Cands
    BY <1>1, <1>2, CandTypes
  <2>2. CASE NextLine(p).node
    <3>1. cand' = candidateWithout(cand, p)
      BY <2>2 DEF TakeExec
    <3> QED BY <1>1, <1>2, <2>2, <3>1, WithoutFacts
  <2>3. CASE ~NextLine(p).node
    <3>1. cand' = [candidateWithout(cand, p) EXCEPT !.pids = @ \cup {p}]
      BY <2>3 DEF TakeExec, beginCandidate
    <3>2. /\ cand'.pids = candidateWithout(cand, p).pids \cup {p}
          /\ cand'.marked = candidateWithout(cand, p).marked
          /\ cand'.events = candidateWithout(cand, p).events
      BY <2>1, <3>1 DEF Cands
    <3> QED BY <1>1, <1>2, <2>3, <3>2, WithoutFacts
  <2> QED BY <2>2, <2>3
<1>4. /\ p \in S
      /\ boot'.file = (boot.file \ S) \cup {q \in {p} : NextLine(p).node}
      /\ boot'.completed = boot.completed \ S
      /\ \A q \in Pids : boot'.children[q] \subseteq boot.children[q]
  <2>1. p \in S
    BY <1>1 DEF nodeBootstrapSubtree
  <2>2. boot' = IF NextLine(p).node THEN beginNodeBootstrap(p) ELSE clearNodeBootstrap(p)
    BY DEF TakeExec
  <2>3. /\ clearNodeBootstrap(p).file = boot.file \ S
        /\ clearNodeBootstrap(p).completed = boot.completed \ S
        /\ \A q \in Pids : clearNodeBootstrap(p).children[q] \subseteq boot.children[q]
    BY DEF clearNodeBootstrap
  <2>4. clearNodeBootstrap(p) \in Boots
    BY <1>1, BootTypes
  <2>5. /\ beginNodeBootstrap(p).file = clearNodeBootstrap(p).file \cup {p}
        /\ beginNodeBootstrap(p).completed = clearNodeBootstrap(p).completed
        /\ beginNodeBootstrap(p).children = clearNodeBootstrap(p).children
    BY <2>4 DEF beginNodeBootstrap, Boots
  <2> QED BY <2>1, <2>2, <2>3, <2>5
<1>5. /\ emitted' = emitted \cup cand.events[p]
      /\ UNCHANGED <<seen, envReads, fileReads, endedVars, deferVars, flushed>>
  BY DEF TakeExec, heldBack
<1> HIDE DEF S
<1>6. boot.file \subseteq Pids
  BY <1>2 DEF Boots
<1>7. Bounds'
  BY <1>1, KeepBounds DEF ReadInv
<1>8. PendingInv'
  <2> SUFFICES ASSUME NEW q \in boot'.file, leader'[q] = q PROVE Pending(q)'
    BY DEF PendingInv
  <2>1. leader'[q] = leader[q]
    BY <1>1, Advance
  <2>2. CASE q = p
    <3>1. NextLine(p).node
      BY <1>4, <2>2
    <3>2. Starting(p)'
      BY <1>1, <3>1, Advance
    <3> QED BY <2>2, <3>2 DEF Pending
  <2>3. CASE q # p
    <3>1. q \in boot.file
      BY <1>4, <2>3
    <3>2. Pending(q)
      BY <2>1, <3>1 DEF ReadInv, PendingInv
    <3>3. fileEndedTs' = fileEndedTs
      BY <1>5 DEF endedVars
    <3> QED BY <1>1, <1>6, <2>3, <3>1, <3>2, <3>3, KeepPending
  <2> QED BY <2>2, <2>3
<1>9. CompletedInv'
  <2> SUFFICES ASSUME NEW q \in Pids, Told(q)' PROVE q \in boot'.completed \/ KinForgets(q)'
    BY DEF CompletedInv
  <2>1. q # p /\ Told(q)
    BY <1>1, Advance
  <2>2. KinForgets(q)' = KinForgets(q)
    BY <1>1, StillLines DEF Grows
  <2>3. CASE q \notin S
    BY <1>4, <2>1, <2>2, <2>3 DEF ReadInv, CompletedInv
  <2>4. CASE q \in S
    <3>1. PICK i \in 1..taken[p] : file[p][i].child \in Pids /\ file[p][i].child \in Kin(q)
      BY <1>1, <2>1, <2>4, SubtreeKin DEF S, ReadInv
    <3>2. PICK k \in Nat : k = taken[p]
      BY <1>1, NextOf
    <3>3. /\ i \in 1..Len(file[p]) /\ k + 1 \in 1..Len(file[p]) /\ i < k + 1
          /\ file[p][k + 1].call = "exec"
      BY <1>1, <3>1, <3>2, NextOf, Advance
    <3>4. /\ file[p][i] \in Births /\ file[p][k + 1] \in Lines
          /\ file[p][i].pid = p /\ file[p][k + 1].pid = p
      BY <1>1, <3>1, <3>3, LineFacts, RootAssumption
    <3>5. file[p][k + 1].n > file[p][i].n
      <4>1. file[p][i].n < file[p][k + 1].n /\ file[p][i].n \in Nat /\ file[p][k + 1].n \in Nat
        BY <1>1, <3>3, LineFacts DEF KernelInv, FileInv, Line
      <4> QED BY <4>1
    <3>6. PICK m \in 1..taken[q] : file[q][m].call = "marker"
      BY <2>1 DEF Told
    <3>7. m \in 1..Len(file[q])
      BY <3>6 DEF ReadInv, Bounds, TypeOK
    <3>8. file[q][m] \in Lines /\ file[q][m].pid = q
      BY <3>7, LineFacts
    <3>9. q \in Kin(q)
      BY KinFacts
    <3>10. KinForgets(q)
      BY <3>1, <3>3, <3>4, <3>5, <3>6, <3>8, <3>9 DEF KinForgets
    <3> QED BY <2>2, <3>10
  <2> QED BY <2>3, <2>4
<1>10. CandInv'
  <2> SUFFICES ASSUME ~flushed, NEW q \in Pids, Script(q)' PROVE q \in cand'.pids
    BY <1>5 DEF CandInv
  <2>1. CASE q = p
    <3>1. ~NextLine(p).node
      BY <1>1, <2>1, Advance
    <3> QED BY <1>3, <2>1, <3>1
  <2>2. CASE q # p
    <3>1. Script(q)
      BY <1>1, <2>2, Advance
    <3> QED BY <1>3, <2>2, <3>1 DEF ReadInv, CandInv
  <2> QED BY <2>1, <2>2
<1>11. MarkedInv'
  <2>1. cand.marked \subseteq Pids
    BY <1>2 DEF Cands
  <2> QED BY <1>1, <1>3, <2>1, KeepMarked DEF ReadInv
<1>12. ChildrenInv'
  BY <1>1, <1>4, KeepChildren DEF ReadInv
<1>13. EndedInv'
  BY <1>1, <1>5, KeepEnded DEF ReadInv, endedVars
<1>14. HeldInv'
  <2>1. \A q \in Pids : cand'.events[q] \subseteq cand.events[q]
    BY <1>3
  <2> QED BY <1>1, <1>3, <2>1, KeepHeld DEF ReadInv
<1>15. DeferInv' /\ NullInv'
  BY <1>1, <1>5, KeepDefer, KeepNull DEF ReadInv, endedVars, deferVars
<1>16. BaselineInv'
  BY <1>1, <1>5, KeepBaseline DEF ReadInv
<1>17. WhereInv'
  <2>1. \A l \in Lines : l.call = "read" /\ Kept(l.item) /\ Somewhere(l) => Somewhere(l)'
    BY <1>1, <1>3, <1>5, SomewhereEmitted, LineFacts
  <2> QED BY <1>1, <2>1, KeepWhere DEF ReadInv
<1>18. FlushedInv'
  BY <1>1, <1>5, KeepFlushed DEF ReadInv
<1> QED
  BY <1>7, <1>8, <1>9, <1>10, <1>11, <1>12, <1>13, <1>14, <1>15, <1>16, <1>17, <1>18 DEF ReadInv

LEMMA SameLength ==
    ASSUME NEW m \in Nat, NEW n \in Nat, 1..m = 1..n PROVE m = n
<1>1. m \in 1..m \/ m = 0
  OBVIOUS
<1>2. n \in 1..n \/ n = 0
  OBVIOUS
<1>3. (m = 0 \/ m <= n) /\ (n = 0 \/ n <= m)
  BY <1>1, <1>2
<1> QED
  BY <1>3

LEMMA TakeCloneReads ==
    ASSUME TypeOK, KernelInv, ReadInv, NEW p, NEW call \in {"clone", "thread"}, TakeClone(p, call)
    PROVE  ReadInv'
<1>1. TakeFile(p, call) /\ p \in Pids /\ Grows
  BY PromptType, NextOf, TakeGrows DEF TakeClone
<1>2. boot \in Boots /\ cand \in Cands
  BY DEF TypeOK, Boots, Cands
<1>3. PICK c \in Pids : c = NextLine(p).child
  BY TakeCloneType DEF KernelInv
<1>4. PICK k \in Nat : k = taken[p]
  BY <1>1, NextOf
<1>5. /\ k + 1 \in 1..Len(file[p]) /\ file[p][k + 1] = NextLine(p) /\ NextLine(p).call = call
      /\ taken'[p] = k + 1 /\ file' = file /\ leader' = leader
  BY <1>1, <1>4, NextOf, Advance
<1>6. /\ boot'.file = boot.file \cup {q \in {c} : p \in boot.file}
      /\ boot'.completed = boot.completed
      /\ boot'.children = [boot.children EXCEPT ![p] = @ \cup {q \in {c} : p \in boot.env \cup boot.file}]
  BY <1>2, <1>3 DEF TakeClone, propagateNodeBootstrap, Boots
<1>7. /\ deferredRelOpens' = [i \in DOMAIN deferredRelOpens |->
                IF deferredRelOpens[i].line.pid = c
                THEN [deferredRelOpens[i] EXCEPT !.inherited = c \in boot'.file]
                ELSE deferredRelOpens[i]]
      /\ UNCHANGED <<cand, envReads, fileReads, clientVars, endedVars, deferredNullAttribEvents,
                     emitted, flushed>>
  BY <1>3 DEF TakeClone
<1>8. fileEndedTs' = fileEndedTs
  BY <1>7 DEF endedVars
<1>9. boot.file \subseteq Pids
  BY <1>2 DEF Boots
<1>10. Bounds'
  BY <1>1, KeepBounds DEF ReadInv
<1>11. PendingInv'
  <2> SUFFICES ASSUME NEW q \in boot'.file, leader[q] = q PROVE Pending(q)'
    BY <1>5 DEF PendingInv
  <2>1. CASE q \in boot.file
    <3>1. Pending(q)
      BY <2>1 DEF ReadInv, PendingInv
    <3> QED BY <1>1, <1>8, <1>9, <2>1, <3>1, KeepPending
  <2>2. CASE q = c /\ p \in boot.file
    <3>1. call = "clone"
      <4>1. file[p][k + 1].call = "thread" => leader[file[p][k + 1].child] # file[p][k + 1].child
        BY <1>1, <1>5 DEF KernelInv, BirthInv
      <4> QED BY <1>3, <1>5, <2>2, <4>1
    <3>2. leader[p] = p
      BY <1>1, <1>5, <3>1 DEF KernelInv, ThreadInv
    <3>3. Pending(p)
      BY <2>2, <3>2 DEF ReadInv, PendingInv
    <3>4. /\ NextLine(p) \in Births /\ NextLine(p).pid = p /\ c \in Kin(c) /\ p \in Kin(c)
          /\ Kin(p) \subseteq Kin(c)
      <4>1. NextLine(p) \in Births /\ NextLine(p).pid = p
        BY <1>1, <1>3, <1>5, LineFacts, RootAssumption
      <4>2. c \in Kin(c)
        BY KinFacts
      <4>3. p \in Kin(c)
        BY <1>1, <1>3, <4>1, <4>2, KinFacts
      <4> QED BY <4>1, <4>2, <4>3, KinFacts
    <3>5. ~Starting(p)
      <4> SUFFICES ASSUME Starting(p) PROVE FALSE
        OBVIOUS
      <4>1. PICK i \in 1..k : /\ file[p][i].call = "exec" /\ file[p][i].node
                              /\ \A j \in (i + 1)..k : file[p][j].call \notin {"exec", "marker"}
        BY <1>4 DEF Starting
      <4>2. k + 1 \in (i + 1)..Len(file[p]) /\ i \in 1..Len(file[p])
            /\ \A j \in (i + 1)..(k + 1) : j \in (i + 1)..k \/ j = k + 1
        BY <1>5
      <4>3. \A j \in (i + 1)..(k + 1) : file[p][j].call \notin {"exec", "marker"}
        BY <1>5, <3>1, <4>1, <4>2
      <4>4. file[p][k + 1].startup
        BY <1>1, <4>1, <4>2, <4>3 DEF KernelInv, StartInv
      <4> QED BY <1>1, <1>5, <3>1, <4>4 DEF KernelInv, CloneInv
    <3>6. ASSUME TellsAhead(p) PROVE KinTells(c)
      <4>1. PICK j \in (k + 1)..Len(file[p]) : file[p][j].call = "marker"
        BY <1>4, <3>6 DEF TellsAhead
      <4>2. j # k + 1
        BY <1>5, <4>1
      <4>3. j \in 1..Len(file[p]) /\ k + 1 < j
        BY <4>2
      <4>4. file[p][j] \in Lines /\ file[p][j].pid = p
        BY <1>1, <4>3, LineFacts
      <4>5. file[p][j].n > NextLine(p).n
        <5>1. /\ file[p][k + 1].n < file[p][j].n /\ file[p][k + 1].n \in Nat
              /\ file[p][j].n \in Nat
          BY <1>1, <1>5, <4>3, LineFacts DEF KernelInv, FileInv, Line
        <5> QED BY <1>5, <5>1
      <4> QED BY <1>3, <3>4, <4>1, <4>4, <4>5 DEF KinTells
    <3>7. KinTells(p) => KinTells(c)
      BY <3>4 DEF KinTells
    <3>8. KinForgets(p) => KinForgets(c)
      BY <3>4 DEF KinForgets
    <3>9. ~Over(p)
      BY <1>1, NextOf DEF Over
    <3>10. KinTells(c) \/ KinForgets(c)
      BY <3>3, <3>5, <3>6, <3>7, <3>8, <3>9 DEF Pending
    <3>11. KinTells(c)' \/ KinForgets(c)'
      BY <1>1, <3>10, StillLines DEF Grows
    <3> QED BY <2>2, <3>11 DEF Pending
  <2> QED BY <1>6, <2>1, <2>2
<1>12. CompletedInv'
  BY <1>1, <1>6, KeepCompleted DEF ReadInv
<1>13. CandInv'
  BY <1>1, <1>7, KeepCand DEF ReadInv
<1>14. MarkedInv'
  <2>1. cand.marked \subseteq Pids
    BY <1>2 DEF Cands
  <2> QED BY <1>1, <1>7, <2>1, KeepMarked DEF ReadInv
<1>15. ChildrenInv'
  <2> SUFFICES ASSUME NEW q \in Pids, NEW x \in boot'.children[q]
               PROVE  \E i \in 1..taken'[q] : file'[q][i].child = x
    BY DEF ChildrenInv
  <2>1. CASE x \in boot.children[q]
    <3>1. PICK i \in 1..taken[q] : file[q][i].child = x
      BY <2>1 DEF ReadInv, ChildrenInv
    <3>2. i \in 1..taken'[q]
      BY <1>1, <3>1, GrowsTaken
    <3> QED BY <1>5, <3>1, <3>2
  <2>2. CASE x \notin boot.children[q]
    <3>1. q = p /\ x = c
      BY <1>2, <1>6, <2>2 DEF Boots
    <3>2. k + 1 \in 1..taken'[q]
      BY <1>5, <3>1
    <3> QED BY <1>3, <1>5, <3>1, <3>2
  <2> QED BY <2>1, <2>2
<1>16. EndedInv'
  BY <1>1, <1>8, KeepEnded DEF ReadInv
<1>17. HeldInv'
  BY <1>1, <1>7, KeepHeld DEF ReadInv
<1>18. NullInv'
  BY <1>1, <1>7, KeepNull DEF ReadInv
<1>19. BaselineInv'
  BY <1>1, <1>7, KeepBaseline DEF ReadInv
<1>20. FlushedInv'
  BY <1>1, <1>7, KeepFlushed DEF ReadInv
<1>21. /\ Len(deferredRelOpens') = Len(deferredRelOpens) /\ Len(deferredRelOpens) \in Nat
       /\ \A i \in 1..Len(deferredRelOpens) :
             /\ deferredRelOpens'[i].line = deferredRelOpens[i].line
             /\ deferredRelOpens'[i].inherited =
                   IF deferredRelOpens[i].line.pid = c THEN c \in boot'.file
                   ELSE deferredRelOpens[i].inherited
  <2> DEFINE D == [line : Line, inherited : BOOLEAN]
  <2>1. deferredRelOpens \in Seq(D)
    BY DEF TypeOK
  <2>2. /\ DOMAIN deferredRelOpens = 1..Len(deferredRelOpens) /\ Len(deferredRelOpens) \in Nat
        /\ \A i \in 1..Len(deferredRelOpens) : deferredRelOpens[i] \in D
    <3> HIDE DEF D
    <3> QED BY <2>1, SeqFacts
  <2>3. deferredRelOpens' \in Seq(D)
    <3>1. TypeOK'
      BY TakeCloneType DEF KernelInv
    <3> QED BY <3>1 DEF TypeOK
  <2>4. DOMAIN deferredRelOpens' = 1..Len(deferredRelOpens') /\ Len(deferredRelOpens') \in Nat
    <3> HIDE DEF D
    <3> QED BY <2>3, SeqFacts
  <2>5. DOMAIN deferredRelOpens' = DOMAIN deferredRelOpens
    BY <1>7
  <2>6. Len(deferredRelOpens') = Len(deferredRelOpens)
    <3>1. 1..Len(deferredRelOpens') = 1..Len(deferredRelOpens)
      BY <2>2, <2>4, <2>5
    <3> HIDE DEF D
    <3> QED BY <2>2, <2>4, <3>1, SameLength
  <2>7. ASSUME NEW i \in 1..Len(deferredRelOpens)
        PROVE  /\ deferredRelOpens'[i].line = deferredRelOpens[i].line
               /\ deferredRelOpens'[i].inherited =
                   IF deferredRelOpens[i].line.pid = c THEN c \in boot'.file
                   ELSE deferredRelOpens[i].inherited
    <3>1. deferredRelOpens'[i] = IF deferredRelOpens[i].line.pid = c
                THEN [deferredRelOpens[i] EXCEPT !.inherited = c \in boot'.file]
                ELSE deferredRelOpens[i]
      BY <1>7, <2>2
    <3>2. deferredRelOpens[i] \in D
      BY <2>2
    <3> QED BY <3>1, <3>2
  <2> QED BY <2>2, <2>6, <2>7
<1>22. DeferInv'
  <2> SUFFICES ASSUME NEW i \in 1..Len(deferredRelOpens), NEW d, d = deferredRelOpens'[i]
               PROVE  /\ d.line.call = "read"
                      /\ \E j \in 1..taken'[d.line.pid] : file'[d.line.pid][j] = d.line
                      /\ Kept(d.line.item)' /\ d.inherited => fileEndedTs'[d.line.pid] # 0
    BY <1>21 DEF DeferInv
  <2>1. PICK l : l = d.line /\ l = deferredRelOpens[i].line /\ l \in Line /\ l.pid \in Pids
    BY <1>21, DeferredPid
  <2>2. /\ l.call = "read" /\ \E j \in 1..taken[l.pid] : file[l.pid][j] = l
        /\ Kept(l.item) /\ deferredRelOpens[i].inherited => fileEndedTs[l.pid] # 0
    BY <2>1 DEF ReadInv, DeferInv
  <2>3. PICK j \in 1..taken[l.pid] : file[l.pid][j] = l
    BY <2>2
  <2>4. j \in 1..taken'[l.pid] /\ j \in 1..Len(file[l.pid])
    <3>1. taken[l.pid] \in Nat /\ Len(file[l.pid]) \in Nat /\ taken[l.pid] <= Len(file[l.pid])
      <4>1. taken \in [Pids -> Nat] /\ file \in [Pids -> Seq(Line)]
        BY DEF TypeOK
      <4>2. taken[l.pid] <= Len(file[l.pid])
        BY <2>1 DEF ReadInv, Bounds
      <4> QED BY <2>1, <4>1, <4>2
    <3>2. taken'[l.pid] \in Nat /\ taken[l.pid] <= taken'[l.pid]
      BY <1>1, <2>1 DEF Grows
    <3> QED BY <2>3, <3>1, <3>2
  <2>5. Kept(l.item)' = Kept(l.item)
    BY <1>1, StillLines DEF Grows
  <2>6. ASSUME Kept(l.item), d.inherited PROVE fileEndedTs[l.pid] # 0
    <3>1. CASE l.pid # c
      BY <1>21, <2>1, <2>2, <2>6, <3>1
    <3>2. CASE l.pid = c
      <4>1. c \in boot'.file
        BY <1>21, <2>1, <2>6, <3>2
      <4>2. /\ leader[c] = c /\ ~l.startup /\ ~KinTells(c) /\ ~KinForgets(c)
            /\ \A m \in (j + 1)..Len(file[c]) :
                 file[c][m].call # "marker" /\ ~(file[c][m].call = "exec" /\ file[c][m].node)
        BY <2>2, <2>3, <2>4, <2>6, <3>2, KeptRead
      <4>3. Pending(c)'
        BY <1>5, <1>11, <4>1, <4>2 DEF PendingInv
      <4>4. ~KinTells(c)' /\ ~KinForgets(c)'
        BY <1>1, <4>2, StillLines DEF Grows
      <4>5. ~Starting(c)'
        <5> SUFFICES ASSUME Starting(c)' PROVE FALSE
          OBVIOUS
        <5>1. PICK t \in Nat : t = taken'[c] /\ t <= Len(file[c]) /\ Len(file[c]) \in Nat
          <6>1. Len(file[c]) \in Nat
            BY DEF TypeOK
          <6>2. taken'[c] \in Nat /\ taken'[c] <= Len(file[c])
            BY <1>1, <1>5, <1>10 DEF Bounds, Grows
          <6> QED BY <6>1, <6>2
        <5>2. PICK i1 \in 1..t :
                 /\ file[c][i1].call = "exec" /\ file[c][i1].node
                 /\ \A m \in (i1 + 1)..t : file[c][m].call \notin {"exec", "marker"}
          BY <1>5, <5>1 DEF Starting
        <5>3. i1 \in 1..Len(file[c]) /\ j \in 1..t
          BY <2>4, <3>2, <5>1, <5>2
        <5>4. ~(i1 \in (j + 1)..Len(file[c]))
          BY <4>2, <5>2
        <5>5. i1 # j
          BY <2>2, <2>3, <3>2, <5>2
        <5>6. j \in (i1 + 1)..Len(file[c])
          BY <2>4, <3>2, <5>1, <5>3, <5>4, <5>5
        <5>7. \A m \in (i1 + 1)..j : m \in (i1 + 1)..t
          BY <5>1, <5>3
        <5>8. file[c][j].startup
          BY <5>2, <5>3, <5>6, <5>7 DEF KernelInv, StartInv
        <5> QED BY <2>3, <3>2, <4>2, <5>8
      <4>6. ~TellsAhead(c)'
        <5>1. \A m \in (taken'[c] + 1)..Len(file[c]) : m \in (j + 1)..Len(file[c])
          BY <2>4, <3>2, <1>1 DEF Grows
        <5> QED BY <1>5, <4>2, <5>1 DEF TellsAhead
      <4>7. Over(c)'
        BY <4>3, <4>4, <4>5, <4>6 DEF Pending
      <4> QED BY <1>8, <3>2, <4>7 DEF Over
    <3> QED BY <3>1, <3>2
  <2> QED BY <1>5, <1>8, <2>1, <2>2, <2>3, <2>4, <2>5, <2>6
<1>23. WhereInv'
  <2>1. \A l \in Lines : l.call = "read" /\ Kept(l.item) /\ Somewhere(l) => Somewhere(l)'
    BY <1>7, <1>21 DEF Somewhere
  <2> QED BY <1>1, <2>1, KeepWhere DEF ReadInv
<1> QED
  BY <1>10, <1>11, <1>12, <1>13, <1>14, <1>15, <1>16, <1>17, <1>18, <1>19, <1>20, <1>22, <1>23
  DEF ReadInv

LEMMA TakeExitReads ==
    ASSUME TypeOK, KernelInv, ReadInv, NEW p, TakeExit(p) PROVE ReadInv'
<1>1. TakeFile(p, "exit") /\ p \in Pids /\ Grows
  BY PromptType, NextOf, TakeGrows DEF TakeExit
<1>2. cand \in Cands /\ boot.file \subseteq Pids
  BY DEF TypeOK, Cands
<1>3. /\ cand'.pids = cand.pids \ {p} /\ cand'.marked = cand.marked \ {p} /\ cand'.events[p] = {}
      /\ \A q \in Pids \ {p} : cand'.events[q] = cand.events[q]
  BY <1>1, <1>2, WithoutFacts DEF TakeExit
<1>4. /\ emitted' = emitted \cup cand.events[p]
      /\ UNCHANGED <<seen, boot, envReads, fileReads, endedVars, deferVars, flushed>>
  BY DEF TakeExit, heldBack
<1>5. fileEndedTs' = fileEndedTs
  BY <1>4 DEF endedVars
<1>6. Bounds'
  BY <1>1, KeepBounds DEF ReadInv
<1>7. PendingInv'
  <2> SUFFICES ASSUME NEW q \in boot.file, leader[q] = q PROVE Pending(q)'
    BY <1>1, <1>4, Advance DEF PendingInv
  <2>1. Pending(q)
    BY DEF ReadInv, PendingInv
  <2> QED BY <1>1, <1>2, <1>5, <2>1, KeepPending
<1>8. CompletedInv'
  BY <1>1, <1>4, KeepCompleted DEF ReadInv
<1>9. CandInv'
  BY <1>1, <1>3, <1>4, KeepCand DEF ReadInv
<1>10. MarkedInv'
  <2>1. cand.marked \subseteq Pids
    BY <1>2 DEF Cands
  <2> QED BY <1>1, <1>3, <2>1, KeepMarked DEF ReadInv
<1>11. ChildrenInv'
  BY <1>1, <1>4, KeepChildren DEF ReadInv
<1>12. EndedInv'
  BY <1>1, <1>5, KeepEnded DEF ReadInv
<1>13. HeldInv'
  <2>1. \A q \in Pids : cand'.events[q] \subseteq cand.events[q]
    BY <1>3
  <2> QED BY <1>1, <1>3, <2>1, KeepHeld DEF ReadInv
<1>14. DeferInv' /\ NullInv'
  BY <1>1, <1>4, <1>5, KeepDefer, KeepNull DEF ReadInv, deferVars
<1>15. BaselineInv'
  BY <1>1, <1>4, KeepBaseline DEF ReadInv
<1>16. WhereInv'
  <2>1. \A l \in Lines : l.call = "read" /\ Kept(l.item) /\ Somewhere(l) => Somewhere(l)'
    BY <1>1, <1>3, <1>4, SomewhereEmitted, LineFacts
  <2> QED BY <1>1, <2>1, KeepWhere DEF ReadInv
<1>17. FlushedInv'
  BY <1>1, <1>4, KeepFlushed DEF ReadInv
<1> QED
  BY <1>6, <1>7, <1>8, <1>9, <1>10, <1>11, <1>12, <1>13, <1>14, <1>15, <1>16, <1>17 DEF ReadInv

\* What a decision keeps, when the reads held back of p are not kept if p was a Node.
LEMMA Decided ==
    ASSUME TypeOK, NEW p \in Pids, NEW c \in Cands, DecideCandidate(p, c)
    PROVE  /\ cand'.pids = c.pids \/ (p \in c.marked /\ cand'.pids = c.pids \ {p})
           /\ cand'.marked \subseteq c.marked
           /\ \A q \in Pids : cand'.events[q] \subseteq c.events[q]
           /\ \A q \in Pids \ {p} : cand'.events[q] = c.events[q]
           /\ \/ fileReads' = fileReads /\ cand' = c
              \/ /\ p \in c.marked /\ fileReads' = fileReads \cup itemsOf(c.events[p], "read")
                 /\ cand'.events[p] = {}
<1>1. CASE p \in c.confirmed \cap c.marked
  <2>1. /\ cand' = candidateWithout(c, p)
        /\ fileReads' = fileReads \cup itemsOf(c.events[p], "read")
    BY <1>1 DEF DecideCandidate
  <2>2. \A q \in Pids : cand'.events[q] \subseteq c.events[q]
    BY <2>1, WithoutFacts
  <2> QED BY <1>1, <2>1, <2>2, WithoutFacts
<1>2. CASE p \notin c.confirmed \cap c.marked
  BY <1>2 DEF DecideCandidate
<1> QED
  BY <1>1, <1>2

LEMMA TakeMarkerReads ==
    ASSUME TypeOK, KernelInv, ReadInv, NEW p, TakeMarker(p) PROVE ReadInv'
<1> DEFINE S == nodeBootstrapSubtree(p)
           c == IF IsCandidate(p) THEN [cand EXCEPT !.marked = @ \cup {p}] ELSE cand
<1>1. TakeFile(p, "marker") /\ p \in Pids /\ Grows
  BY PromptType, NextOf, TakeGrows DEF TakeMarker
<1>2. cand \in Cands /\ boot \in Boots /\ boot.file \subseteq Pids
  BY DEF TypeOK, Cands, Boots
<1>3. /\ c \in Cands /\ c.events = cand.events /\ c.pids = cand.pids
      /\ c.marked \subseteq cand.marked \cup {p}
  BY ZenonT(60), <1>1, <1>2, CandTypes DEF Cands
<1>4. DecideCandidate(p, c)
  BY DEF TakeMarker
<1> HIDE DEF c
<1>5. /\ p \in S /\ boot'.file = boot.file \ S /\ boot'.completed = boot.completed \cup {p}
      /\ \A q \in Pids : boot'.children[q] \subseteq boot.children[q]
  <2>1. p \in S
    BY <1>1 DEF nodeBootstrapSubtree
  <2>2. boot' = [clearNodeBootstrapFile(p) EXCEPT !.completed = @ \cup {p}]
    BY DEF TakeMarker
  <2>3. clearNodeBootstrapFile(p) \in Boots
    BY <1>1, BootTypes
  <2>4. /\ clearNodeBootstrapFile(p).file = boot.file \ S
        /\ clearNodeBootstrapFile(p).completed = boot.completed
        /\ \A q \in Pids : clearNodeBootstrapFile(p).children[q] \subseteq boot.children[q]
    BY <1>2 DEF clearNodeBootstrapFile, Boots
  <2>5. /\ boot'.file = clearNodeBootstrapFile(p).file
        /\ boot'.completed = clearNodeBootstrapFile(p).completed \cup {p}
        /\ boot'.children = clearNodeBootstrapFile(p).children
    BY <2>2, <2>3 DEF Boots
  <2> QED BY <2>1, <2>4, <2>5
<1> HIDE DEF S
<1>6. PICK k \in Nat : k = taken[p]
  BY <1>1, NextOf
<1>7. /\ k + 1 \in 1..Len(file[p]) /\ file[p][k + 1] = NextLine(p) /\ NextLine(p).call = "marker"
      /\ taken'[p] = k + 1 /\ file' = file /\ leader' = leader /\ NextLine(p).n \in Nat \ {0}
      /\ \A q \in Pids \ {p} : taken'[q] = taken[q]
  <2>1. k + 1 \in 1..Len(file[p]) /\ file[p][k + 1] = NextLine(p)
    BY <1>1, <1>6, NextOf, Advance
  <2>2. NextLine(p).n \in 1..calls
    BY <1>1, <2>1 DEF KernelInv, FileInv
  <2>3. NextLine(p).n \in Nat \ {0}
    BY <2>2 DEF TypeOK
  <2> QED BY <1>1, <1>6, <2>1, <2>3, NextOf, Advance
<1>8. /\ fileEndedTs' = [fileEndedTs EXCEPT ![p] = IF @ = 0 THEN NextLine(p).n ELSE @]
      /\ UNCHANGED <<seen, envReads, clientVars, envEndedTs, deferVars, emitted, flushed>>
  BY DEF TakeMarker
<1>9. /\ \A q \in Pids : fileEndedTs[q] # 0 => fileEndedTs'[q] = fileEndedTs[q]
      /\ \A q \in Pids \ {p} : fileEndedTs'[q] = fileEndedTs[q]
      /\ fileEndedTs'[p] = IF fileEndedTs[p] = 0 THEN NextLine(p).n ELSE fileEndedTs[p]
  BY <1>1, <1>8 DEF TypeOK
\* The reads held back of p lie before the marker.
<1>10. ASSUME NEW e \in cand.events[p], e.call = "read"
       PROVE  /\ ~Kept(e.item)
              /\ \E i \in 1..taken'[p] : /\ file[p][i] = e
                                         /\ \E j \in (i + 1)..taken'[p] : file[p][j].call = "marker"
  <2>1. PICK i \in 1..k : file[p][i] = e
    BY <1>1, <1>6, <1>10 DEF ReadInv, HeldInv
  <2>2. i \in 1..(k + 1) /\ k + 1 \in (i + 1)..(k + 1) /\ i \in 1..Len(file[p])
        /\ k + 1 \in (i + 1)..Len(file[p])
    BY <1>7
  <2>3. ~Kept(e.item)
    BY <1>1, <1>7, <1>10, <2>1, <2>2, KeptRead
  <2> QED BY <1>7, <2>1, <2>2, <2>3
<1>11. \A x \in itemsOf(cand.events[p], "read") : ~Kept(x)
  BY <1>10 DEF itemsOf
<1>12. Bounds'
  BY <1>1, KeepBounds DEF ReadInv
<1>13. PendingInv'
  <2> SUFFICES ASSUME NEW q \in boot'.file, leader[q] = q PROVE Pending(q)'
    BY <1>7 DEF PendingInv
  <2>1. q \in boot.file /\ q # p
    BY <1>5
  <2>2. Pending(q)
    BY <2>1 DEF ReadInv, PendingInv
  <2> QED BY <1>1, <1>2, <1>9, <2>1, <2>2, KeepPending
<1>14. CompletedInv'
  <2> SUFFICES ASSUME NEW q \in Pids, Told(q)' PROVE q \in boot'.completed \/ KinForgets(q)'
    BY DEF CompletedInv
  <2>1. CASE q = p
    BY <1>5, <2>1
  <2>2. CASE q # p
    <3>1. Told(q) /\ KinForgets(q)' = KinForgets(q)
      BY <1>1, <2>2, Advance, StillLines DEF Grows
    <3> QED BY <1>5, <3>1 DEF ReadInv, CompletedInv
  <2> QED BY <2>1, <2>2
<1>15. CandInv'
  <2>1. cand.pids \ cand'.pids \subseteq {p}
    BY <1>1, <1>3, <1>4, Decided
  <2> QED BY <1>1, <1>8, <2>1, KeepCand DEF ReadInv
<1>16. MarkedInv'
  <2>1. cand.marked \subseteq Pids
    BY <1>2 DEF Cands
  <2>2. cand'.marked \subseteq cand.marked \cup {p}
    BY <1>1, <1>3, <1>4, Decided
  <2> QED BY <1>1, <2>1, <2>2, KeepMarked DEF ReadInv
<1>17. ChildrenInv'
  BY <1>1, <1>5, KeepChildren DEF ReadInv
<1>18. EndedInv'
  <2>1. ASSUME NEW q \in Pids, NEW i \in 1..taken'[q], file[q][i].call = "marker"
        PROVE  fileEndedTs'[q] # 0
    <3>1. CASE q = p
      BY <1>7, <1>9, <3>1
    <3>2. CASE q # p
      BY <1>7, <1>9, <2>1, <3>2 DEF ReadInv, EndedInv
    <3> QED BY <3>1, <3>2
  <2>2. ASSUME NEW q \in Pids, fileEndedTs'[q] # 0
        PROVE  \E i \in 1..taken'[q] : file[q][i].call = "marker" /\ file[q][i].n = fileEndedTs'[q]
    <3>1. CASE fileEndedTs[q] # 0
      <4>1. PICK i \in 1..taken[q] : file[q][i].call = "marker" /\ file[q][i].n = fileEndedTs[q]
        BY <3>1 DEF ReadInv, EndedInv
      <4>2. i \in 1..taken'[q]
        BY <1>1, <4>1, GrowsTaken
      <4> QED BY <1>9, <3>1, <4>1, <4>2
    <3>2. CASE fileEndedTs[q] = 0
      <4>1. q = p
        BY <1>9, <2>2, <3>2
      <4>2. k + 1 \in 1..taken'[q]
        BY <1>7, <4>1
      <4> QED BY <1>7, <1>9, <3>2, <4>1, <4>2
    <3> QED BY <3>1, <3>2
  <2> QED BY <1>7, <2>1, <2>2 DEF EndedInv
<1>19. HeldInv'
  <2> SUFFICES ASSUME NEW q \in Pids, NEW e \in cand'.events[q], e.call = "read"
               PROVE  \E i \in 1..taken'[q] :
                         /\ file[q][i] = e
                         /\ q \in cand'.marked =>
                               \E j \in (i + 1)..taken'[q] : file[q][j].call = "marker"
    BY <1>7 DEF HeldInv
  <2>1. e \in cand.events[q]
    BY <1>1, <1>3, <1>4, Decided
  <2>2. CASE q = p
    BY <1>10, <2>1, <2>2
  <2>3. CASE q # p
    <3>1. q \in cand'.marked => q \in cand.marked
      BY <1>1, <1>3, <1>4, <2>3, Decided
    <3> QED BY <1>7, <2>1, <2>3, <3>1 DEF ReadInv, HeldInv
  <2> QED BY <2>2, <2>3
<1>20. DeferInv' /\ NullInv'
  BY <1>1, <1>8, <1>9, KeepDefer, KeepNull DEF ReadInv, deferVars
<1>21. BaselineInv'
  <2>1. \A x \in fileReads' \ fileReads : ~Kept(x)
    BY <1>1, <1>3, <1>4, <1>11, Decided
  <2> QED BY <1>1, <2>1, KeepBaseline DEF ReadInv
<1>22. WhereInv'
  <2>1. ASSUME NEW l \in Lines, l.call = "read", Kept(l.item), Somewhere(l) PROVE Somewhere(l)'
    <3>1. l.pid \in Pids
      BY LineFacts
    <3>2. l \in cand.events[l.pid] => l \in cand'.events[l.pid]
      <4>1. CASE l.pid = p
        BY <1>10, <2>1, <4>1
      <4>2. CASE l.pid # p
        BY <1>1, <1>3, <1>4, <3>1, <4>2, Decided
      <4> QED BY <4>1, <4>2
    <3> QED BY <1>8, <2>1, <3>2 DEF Somewhere, deferVars
  <2> QED BY <1>1, <2>1, KeepWhere DEF ReadInv
<1>23. FlushedInv'
  BY <1>1, <1>8, KeepFlushed DEF ReadInv
<1> QED
  BY <1>12, <1>13, <1>14, <1>15, <1>16, <1>17, <1>18, <1>19, <1>20, <1>21, <1>22, <1>23
  DEF ReadInv

-----------------------------------------------------------------------------
(* The shim's lines.                                                       *)

\* Where no file's line is taken, what is known of the processes stays.
LEMMA Stays ==
    ASSUME TypeOK, UNCHANGED treeVars, taken' = taken
    PROVE  /\ Grows
           /\ \A q \in Pids : Told(q)' = Told(q) /\ Script(q)' = Script(q)
           /\ fileEndedTs' = fileEndedTs => \A q \in Pids : Pending(q) => Pending(q)'
<1>1. file' = file
  BY DEF treeVars
<1>2. Grows
  BY DEF Grows, TypeOK
<1>3. \A q \in Pids : /\ Told(q)' = Told(q) /\ Script(q)' = Script(q) /\ Starting(q)' = Starting(q)
                      /\ TellsAhead(q)' = TellsAhead(q)
  BY <1>1 DEF Told, Script, Starting, TellsAhead
<1>4. \A q \in Pids : KinTells(q)' = KinTells(q) /\ KinForgets(q)' = KinForgets(q)
  BY StillLines
<1>5. fileEndedTs' = fileEndedTs => \A q \in Pids : Over(q)' = Over(q)
  BY <1>1 DEF Over
<1> QED
  BY <1>2, <1>3, <1>4, <1>5 DEF Pending

LEMMA WhereStays ==
    ASSUME TypeOK, KernelInv, Bounds, WhereInv, UNCHANGED treeVars, taken' = taken,
           \A l \in Lines : l.call = "read" /\ Kept(l.item) /\ Somewhere(l) => Somewhere(l)'
    PROVE  WhereInv'
<1>1. file' = file /\ \A x : Kept(x)' = Kept(x)
  BY StillLines DEF treeVars
<1> SUFFICES ASSUME NEW q \in Pids, NEW i \in 1..taken[q], NEW l, l = file[q][i],
                    l.call = "read", Kept(l.item)
             PROVE  Somewhere(l)'
  BY <1>1 DEF WhereInv
<1>2. i \in 1..Len(file[q])
  BY DEF Bounds, TypeOK
<1>3. l \in Lines
  BY <1>2, LineFacts
<1>4. Somewhere(l)
  BY DEF WhereInv
<1> QED
  BY <1>3, <1>4

\* What was held back, and what the line taken now adds for a process without strace's marker.
LEMMA HeldAfter ==
    ASSUME TypeOK, HeldInv, Grows, cand'.marked \subseteq cand.marked,
           \A q \in Pids : \A e \in cand'.events[q] : e.call = "read" =>
               \/ e \in cand.events[q]
               \/ q \notin cand.marked /\ \E i \in 1..taken'[q] : file[q][i] = e
    PROVE  HeldInv'
<1> SUFFICES ASSUME NEW q \in Pids, NEW e \in cand'.events[q], e.call = "read"
             PROVE  \E i \in 1..taken'[q] :
                       /\ file[q][i] = e
                       /\ q \in cand'.marked =>
                             \E j \in (i + 1)..taken'[q] : file[q][j].call = "marker"
  BY DEF HeldInv, Grows, treeVars
<1>1. CASE e \in cand.events[q]
  <2>1. PICK i \in 1..taken[q] :
           /\ file[q][i] = e
           /\ q \in cand.marked => \E j \in (i + 1)..taken[q] : file[q][j].call = "marker"
    BY <1>1 DEF HeldInv
  <2>2. i \in 1..taken'[q] /\ (i + 1)..taken[q] \subseteq (i + 1)..taken'[q]
    BY DEF Grows, TypeOK
  <2> QED BY <2>1, <2>2
<1>2. CASE e \notin cand.events[q]
  BY <1>2
<1> QED
  BY <1>1, <1>2

LEMMA ToldNotScript ==
    ASSUME NEW p \in Pids, taken[p] \in Nat, Told(p) PROVE ~Script(p)
<1> SUFFICES ASSUME Script(p) PROVE FALSE
  OBVIOUS
<1>1. PICK n \in Nat : n = taken[p]
  OBVIOUS
<1>2. PICK i \in 1..n : /\ file[p][i].call = "marker"
                        /\ \A j \in (i + 1)..n : file[p][j].call # "exec"
  BY <1>1 DEF Told
<1>3. PICK j \in 1..n : /\ file[p][j].call = "exec"
                        /\ \A m \in (j + 1)..n : file[p][m].call \notin {"exec", "marker", "exit"}
  BY <1>1 DEF Script
<1>4. i # j /\ ~(j \in (i + 1)..n) /\ ~(i \in (j + 1)..n)
  BY <1>2, <1>3
<1> QED
  BY <1>4

LEMMA TakeShimMarkerReads ==
    ASSUME TypeOK, KernelInv, ReadInv, TakeShimMarker PROVE ReadInv'
<1>1. TakeShim("marker")
  BY DEF TakeShimMarker
<1>2. PICK l \in Line, p \in Pids : l = shim[shimTaken + 1] /\ p = l.pid
  BY <1>1, NextShim
<1>3. /\ l.call = "marker" /\ UNCHANGED <<treeVars, taken, seen>> /\ shimTaken \in Nat
      /\ Len(shim) \in Nat /\ shimTaken < Len(shim) /\ shimTaken' = shimTaken + 1
  BY <1>1, <1>2, NextShim
<1>4. file' = file /\ leader' = leader /\ shim' = shim /\ Grows
  BY <1>3, Stays DEF treeVars
<1> DEFINE c == IF IsCandidate(p)
                THEN [cand EXCEPT !.confirmed = @ \cup {p},
                                  !.events[p] = {e \in @ : e.call # "env_read"}]
                ELSE cand
<1>5. cand \in Cands /\ boot \in Boots /\ boot.file \subseteq Pids /\ cand.marked \subseteq Pids
  BY DEF TypeOK, Cands, Boots
<1>6. /\ c \in Cands /\ c.pids = cand.pids /\ c.marked = cand.marked
      /\ \A q \in Pids : c.events[q] \subseteq cand.events[q]
      /\ \A q \in Pids \ {p} : c.events[q] = cand.events[q]
      /\ \A e \in cand.events[p] : e.call = "read" => e \in c.events[p]
  <2>1. c \in Cands
    BY <1>5, CandTypes
  <2>2. CASE IsCandidate(p)
    <3>1. /\ c.pids = cand.pids /\ c.marked = cand.marked
          /\ c.events = [cand.events EXCEPT ![p] = {e \in @ : e.call # "env_read"}]
      BY <1>5, <2>2 DEF Cands
    <3> QED BY <1>5, <2>1, <3>1 DEF Cands
  <2>3. CASE ~IsCandidate(p)
    BY <2>1, <2>3
  <2> QED BY <2>2, <2>3
<1>7. DecideCandidate(p, c)
  BY <1>2 DEF TakeShimMarker
<1> HIDE DEF c
<1>8. /\ boot'.file \subseteq boot.file \cup {q \in {p} : ~IsCandidate(q) /\ q \notin boot.completed}
      /\ boot'.completed = boot.completed /\ boot'.children = boot.children
  <2>1. boot' = [clearNodeBootstrapEnv(p) EXCEPT !.file = @ \cup {q \in {p} : stillStarting(p)}]
    BY <1>2 DEF TakeShimMarker
  <2>2. clearNodeBootstrapEnv(p) \in Boots
    BY BootTypes
  <2>3. /\ clearNodeBootstrapEnv(p).file = boot.file
        /\ clearNodeBootstrapEnv(p).completed = boot.completed
        /\ clearNodeBootstrapEnv(p).children = boot.children
    BY <1>5 DEF clearNodeBootstrapEnv, Boots
  <2>4. /\ boot'.file = clearNodeBootstrapEnv(p).file \cup {q \in {p} : stillStarting(p)}
        /\ boot'.completed = clearNodeBootstrapEnv(p).completed
        /\ boot'.children = clearNodeBootstrapEnv(p).children
    BY <2>1, <2>2 DEF Boots
  <2> QED BY <2>3, <2>4 DEF stillStarting
<1>9. UNCHANGED <<fileEndedTs, deferVars, emitted, flushed>>
  BY DEF TakeShimMarker
<1>10. ~flushed
  BY <1>3 DEF ReadInv, FlushedInv, AllTaken
<1>11. Bounds'
  BY <1>3, <1>4 DEF ReadInv, Bounds
<1>12. PendingInv'
  <2> SUFFICES ASSUME NEW q \in boot'.file, leader[q] = q PROVE Pending(q)'
    BY <1>4 DEF PendingInv
  <2>1. CASE q \in boot.file
    <3>1. Pending(q)
      BY <2>1 DEF ReadInv, PendingInv
    <3> QED BY <1>3, <1>5, <1>9, <2>1, <3>1, Stays
  <2>2. CASE q \notin boot.file
    <3>1. q = p /\ p \notin cand.pids /\ p \notin boot.completed
      BY <1>8, <2>2 DEF IsCandidate
    <3>2. PICK n \in Nat : n = taken[p] /\ n <= Len(file[p]) /\ Len(file[p]) \in Nat
      BY DEF ReadInv, Bounds, TypeOK
    <3>3. PICK i \in 1..Len(file[p]) : file[p][i].call = "marker"
      <4>1. shimTaken + 1 \in 1..Len(shim)
        BY <1>3
      <4> QED BY <1>2, <1>3, <4>1 DEF KernelInv, ShimInv
    <3>4. Pending(p)
      <4>1. CASE i \notin 1..n
        <5>1. i \in (n + 1)..Len(file[p])
          BY <3>2, <4>1
        <5> QED BY <3>2, <3>3, <5>1 DEF Pending, TellsAhead
      <4>2. CASE i \in 1..n /\ Told(p)
        BY <3>1, <4>2 DEF ReadInv, CompletedInv, Pending
      <4>3. CASE i \in 1..n /\ ~Told(p)
        <5> DEFINE E == {j \in 1..n : file[p][j].call = "exec"}
        <5>1. E # {}
          BY <3>2, <3>3, <4>3 DEF Told
        <5>2. PICK x \in E : \A y \in E : y <= x
          BY <5>1, Greatest
        <5>3. /\ x \in 1..n /\ file[p][x].call = "exec"
              /\ \A j \in (x + 1)..n : j \in 1..n /\ file[p][j].call # "exec"
          BY <5>2
        <5>4. \A j \in (x + 1)..n : file[p][j].call # "marker"
          <6> SUFFICES ASSUME NEW j \in (x + 1)..n, file[p][j].call = "marker" PROVE FALSE
            OBVIOUS
          <6>1. j \in 1..n /\ \A m \in (j + 1)..n : m \in (x + 1)..n
            BY <5>3
          <6> QED BY <3>2, <4>3, <5>3, <6>1 DEF Told
        <5>5. CASE file[p][x].node
          BY <3>2, <5>3, <5>4, <5>5 DEF Pending, Starting
        <5>6. CASE ~file[p][x].node
          <6>1. ~Script(p)
            BY <1>10, <3>1 DEF ReadInv, CandInv
          <6>2. PICK j \in (x + 1)..n : file[p][j].call = "exit"
            BY <3>2, <5>3, <5>4, <5>6, <6>1 DEF Script
          <6>3. j \in 1..Len(file[p])
            BY <3>2, <5>3
          <6>4. j = Len(file[p])
            BY <6>2, <6>3 DEF KernelInv, DeadInv
          <6>5. n = Len(file[p])
            BY <3>2, <6>4
          <6>6. fileEndedTs[p] # 0
            BY <3>2, <3>3, <4>3 DEF ReadInv, EndedInv
          <6> QED BY <3>2, <6>5, <6>6 DEF Pending, Over
        <5> QED BY <5>5, <5>6
      <4> QED BY <4>1, <4>2, <4>3
    <3> QED BY <1>3, <1>9, <3>1, <3>4, Stays
  <2> QED BY <2>1, <2>2
<1>13. CompletedInv'
  <2>1. \A q \in Pids : KinForgets(q)' = KinForgets(q) /\ Told(q)' = Told(q)
    BY <1>3, Stays, StillLines
  <2> QED BY <1>8, <2>1 DEF ReadInv, CompletedInv
<1>14. CandInv'
  <2> SUFFICES ASSUME NEW q \in Pids, Script(q)' PROVE q \in cand'.pids
    BY DEF CandInv
  <2>1. Script(q)
    BY <1>3, Stays
  <2>2. q \in cand.pids
    BY <1>10, <2>1 DEF ReadInv, CandInv
  <2>3. p \in cand.marked => ~Script(p)
    BY ToldNotScript DEF ReadInv, MarkedInv, TypeOK
  <2> QED BY <1>6, <1>7, <2>1, <2>2, <2>3, Decided
<1>15. MarkedInv'
  <2> SUFFICES ASSUME NEW q \in cand'.marked PROVE Told(q)'
    BY DEF MarkedInv
  <2>1. q \in cand.marked
    BY <1>6, <1>7, Decided
  <2> QED BY <1>3, <1>5, <2>1, Stays DEF ReadInv, MarkedInv
<1>16. ChildrenInv'
  BY <1>4, <1>8, KeepChildren DEF ReadInv
<1>17. EndedInv'
  BY <1>3, <1>4, <1>9 DEF ReadInv, EndedInv
<1>18. HeldInv'
  <2>1. \A q \in Pids : cand'.events[q] \subseteq cand.events[q]
    <3> TAKE q \in Pids
    <3>1. cand'.events[q] \subseteq c.events[q]
      BY <1>6, <1>7, Decided
    <3> QED BY <1>6, <3>1
  <2>2. cand'.marked \subseteq cand.marked
    BY <1>6, <1>7, Decided
  <2> QED BY <1>4, <2>1, <2>2, KeepHeld DEF ReadInv
<1>19. DeferInv' /\ NullInv'
  BY <1>4, <1>9, KeepDefer, KeepNull DEF ReadInv, deferVars
\* Who has both markers holds back no kept read.
<1>20. ASSUME p \in cand.marked, NEW e \in cand.events[p], e.call = "read"
       PROVE  ~Kept(e.item)
  <2>1. PICK i \in 1..taken[p] :
           file[p][i] = e /\ \E j \in (i + 1)..taken[p] : file[p][j].call = "marker"
    BY <1>20 DEF ReadInv, HeldInv
  <2>2. i \in 1..Len(file[p]) /\ (i + 1)..taken[p] \subseteq (i + 1)..Len(file[p])
    BY DEF ReadInv, Bounds, TypeOK
  <2> QED BY <1>20, <2>1, <2>2, KeptRead
<1>21. BaselineInv'
  <2>1. \A x \in fileReads' \ fileReads : ~Kept(x)
    <3>1. ASSUME p \in cand.marked, NEW x \in itemsOf(c.events[p], "read") PROVE ~Kept(x)
      <4>1. PICK e \in c.events[p] : e.call = "read" /\ e.item = x
        BY <3>1 DEF itemsOf
      <4> QED BY <1>6, <1>20, <3>1, <4>1
    <3>2. fileReads' = fileReads \/ (p \in cand.marked
              /\ fileReads' = fileReads \cup itemsOf(c.events[p], "read"))
      BY <1>6, <1>7, Decided
    <3> QED BY <3>1, <3>2
  <2> QED BY <1>4, <2>1, KeepBaseline DEF ReadInv
<1>22. WhereInv'
  <2>1. ASSUME NEW m \in Lines, m.call = "read", Kept(m.item), Somewhere(m) PROVE Somewhere(m)'
    <3>1. m.pid \in Pids
      BY LineFacts
    <3>2. m \in cand.events[m.pid] => m \in cand'.events[m.pid]
      <4>1. CASE m.pid # p
        BY <1>6, <1>7, <3>1, <4>1, Decided
      <4>2. CASE m.pid = p
        <5>1. m \in cand.events[p] => m \in c.events[p]
          BY <1>6, <2>1
        <5>2. p \in cand.marked => m \notin cand.events[p]
          BY <1>20, <2>1
        <5>3. p \in cand.marked \/ cand' = c
          BY <1>6, <1>7, Decided
        <5> QED BY <4>2, <5>1, <5>2, <5>3
      <4> QED BY <4>1, <4>2
    <3> QED BY <1>9, <2>1, <3>2 DEF Somewhere, deferVars
  <2> QED BY <1>3, <2>1, WhereStays DEF ReadInv
<1>23. FlushedInv'
  BY <1>9, <1>10 DEF FlushedInv
<1> QED
  BY <1>11, <1>12, <1>13, <1>14, <1>15, <1>16, <1>17, <1>18, <1>19, <1>21, <1>22, <1>23
  DEF ReadInv

LEMMA TakeEnvReads ==
    ASSUME TypeOK, KernelInv, ReadInv, TakeEnv PROVE ReadInv'
<1>1. TakeShim("env_read")
  BY DEF TakeEnv
<1>2. PICK l \in Line : l = shim[shimTaken + 1] /\ l.pid \in Pids
  BY <1>1, NextShim
<1>3. /\ l.call = "env_read" /\ UNCHANGED <<treeVars, taken, seen>> /\ shimTaken \in Nat
      /\ Len(shim) \in Nat /\ shimTaken < Len(shim) /\ shimTaken' = shimTaken + 1
  BY <1>1, <1>2, NextShim
<1>4. file' = file /\ leader' = leader /\ shim' = shim /\ Grows
  BY <1>3, Stays DEF treeVars
<1>5. /\ emitted \subseteq emitted'
      /\ UNCHANGED <<boot, fileReads, clientVars, endedVars, deferVars, flushed>>
  BY <1>2 DEF TakeEnv
<1>6. cand \in Cands /\ boot.file \subseteq Pids /\ cand.marked \subseteq Pids
  BY DEF TypeOK, Cands
<1>7. /\ cand'.pids = cand.pids /\ cand'.marked = cand.marked
      /\ \A q \in Pids : /\ cand.events[q] \subseteq cand'.events[q]
                         /\ cand'.events[q] \subseteq cand.events[q] \cup {l}
  <2>1. cand' = cand \/ cand' = [cand EXCEPT !.events[l.pid] = @ \cup {l}]
    BY <1>2 DEF TakeEnv, hold
  <2>2. CASE cand' = [cand EXCEPT !.events[l.pid] = @ \cup {l}]
    <3>1. /\ cand'.pids = cand.pids /\ cand'.marked = cand.marked
          /\ cand'.events = [cand.events EXCEPT ![l.pid] = @ \cup {l}]
      BY <1>6, <2>2 DEF Cands
    <3> QED BY <1>6, <3>1 DEF Cands
  <2> QED BY <2>1, <2>2
<1>8. ~flushed
  BY <1>3 DEF ReadInv, FlushedInv, AllTaken
<1>9. Bounds'
  BY <1>3, <1>4 DEF ReadInv, Bounds
<1>10. PendingInv'
  BY <1>3, <1>4, <1>5, <1>6, Stays DEF ReadInv, PendingInv, endedVars
<1>11. CompletedInv'
  <2>1. \A q \in Pids : KinForgets(q)' = KinForgets(q) /\ Told(q)' = Told(q)
    BY <1>3, Stays, StillLines
  <2> QED BY <1>5, <2>1 DEF ReadInv, CompletedInv
<1>12. CandInv'
  BY <1>3, <1>5, <1>7, Stays DEF ReadInv, CandInv
<1>13. MarkedInv'
  BY <1>3, <1>6, <1>7, Stays DEF ReadInv, MarkedInv
<1>14. ChildrenInv'
  BY <1>4, <1>5, KeepChildren DEF ReadInv
<1>15. EndedInv'
  BY <1>3, <1>4, <1>5 DEF ReadInv, EndedInv, endedVars
<1>16. HeldInv'
  BY <1>3, <1>4, <1>7, HeldAfter DEF ReadInv
<1>17. DeferInv' /\ NullInv'
  BY <1>4, <1>5, KeepDefer, KeepNull DEF ReadInv, deferVars, endedVars
<1>18. BaselineInv'
  BY <1>4, <1>5, KeepBaseline DEF ReadInv
<1>19. WhereInv'
  <2>1. \A m \in Lines : Somewhere(m) => Somewhere(m)'
    <3>1. \A m \in Lines : m.pid \in Pids
      BY LineFacts
    <3> QED BY <1>5, <1>7, <3>1 DEF Somewhere, deferVars
  <2> QED BY <1>3, <2>1, WhereStays DEF ReadInv
<1>20. FlushedInv'
  BY <1>5, <1>8 DEF FlushedInv
<1> QED
  BY <1>9, <1>10, <1>11, <1>12, <1>13, <1>14, <1>15, <1>16, <1>17, <1>18, <1>19, <1>20 DEF ReadInv

-----------------------------------------------------------------------------
(* The reads.                                                              *)

LEMMA HoldFacts ==
    ASSUME TypeOK, NEW l \in Line, HoldOrEmit(l)
    PROVE  /\ cand'.pids = cand.pids /\ cand'.marked = cand.marked /\ emitted \subseteq emitted'
           /\ \A q \in Pids : cand.events[q] \subseteq cand'.events[q]
           /\ \A q \in Pids : \A e \in cand'.events[q] :
                 e \in cand.events[q] \/ (e = l /\ q = l.pid /\ q \notin cand.marked)
           /\ l \in emitted' \/ l \in cand'.events[l.pid]
<1>1. cand \in Cands /\ l.pid \in Pids
  BY DEF TypeOK, Cands, Line
<1>2. CASE /\ IsCandidate(l.pid) /\ l.pid \notin cand.marked /\ hold(l) /\ UNCHANGED emitted
  <2>1. cand' = [cand EXCEPT !.events[l.pid] = @ \cup {l}]
    BY <1>2 DEF hold
  <2>2. /\ cand'.pids = cand.pids /\ cand'.marked = cand.marked
        /\ cand'.events = [cand.events EXCEPT ![l.pid] = @ \cup {l}]
    BY <1>1, <2>1 DEF Cands
  <2>3. \A q \in Pids : cand'.events[q] =
            IF q = l.pid THEN cand.events[q] \cup {l} ELSE cand.events[q]
    BY <1>1, <2>2 DEF Cands
  <2> QED BY <1>1, <1>2, <2>2, <2>3
<1>3. CASE emitted' = emitted \cup {l} /\ UNCHANGED cand
  BY <1>3
<1> QED
  BY <1>2, <1>3 DEF HoldOrEmit

LEMMA FilterFacts ==
    ASSUME TypeOK, NEW l \in Line, NEW pending, FilterOrKeep(l, pending)
    PROVE  /\ cand'.pids = cand.pids /\ cand'.marked = cand.marked /\ emitted \subseteq emitted'
           /\ \A q \in Pids : cand.events[q] \subseteq cand'.events[q]
           /\ \A q \in Pids : \A e \in cand'.events[q] :
                 e \in cand.events[q] \/ (e = l /\ q = l.pid /\ q \notin cand.marked)
           /\ ~pending /\ l.item \notin fileReads => l \in emitted' \/ l \in cand'.events[l.pid]
           /\ \A x \in fileReads' : x \in fileReads \/ (pending /\ x = l.item)
<1>1. CASE pending /\ fileReads' = fileReads \cup {l.item} /\ UNCHANGED <<cand, emitted>>
  BY <1>1
<1>2. CASE ~pending /\ l.item \in fileReads /\ UNCHANGED <<fileReads, cand, emitted>>
  BY <1>2
<1>3. CASE ~pending /\ l.item \notin fileReads /\ HoldOrEmit(l) /\ UNCHANGED fileReads
  BY <1>3, HoldFacts
<1> QED
  BY <1>1, <1>2, <1>3 DEF FilterOrKeep

\* A read taken, whatever becomes of it, when nobody is decided.
LEMMA ReadTaken ==
    ASSUME TypeOK, KernelInv, ReadInv, NEW p, TakeFile(p, "read"),
           cand'.pids = cand.pids, cand'.marked = cand.marked,
           UNCHANGED <<seen, boot, envReads, clientVars, endedVars, flushed>>,
           \A q \in Pids : \A e \in cand'.events[q] :
               e \in cand.events[q] \/ (e = NextLine(p) /\ q = p /\ q \notin cand.marked),
           \A x \in fileReads' \ fileReads : ~Kept(x)
    PROVE  /\ Bounds' /\ PendingInv' /\ CompletedInv' /\ CandInv' /\ MarkedInv' /\ ChildrenInv'
           /\ EndedInv' /\ HeldInv' /\ BaselineInv' /\ FlushedInv' /\ Grows /\ fileEndedTs' = fileEndedTs
<1>1. Grows /\ p \in Pids /\ file' = file /\ leader' = leader
  BY TakeGrows, NextOf, Advance
<1>2. fileEndedTs' = fileEndedTs /\ boot' = boot
  BY DEF endedVars
<1>3. boot.file \subseteq Pids /\ cand.marked \subseteq Pids
  BY DEF TypeOK
<1>4. PendingInv'
  <2> SUFFICES ASSUME NEW q \in boot.file, leader[q] = q PROVE Pending(q)'
    BY <1>1, <1>2 DEF PendingInv
  <2>1. Pending(q)
    BY DEF ReadInv, PendingInv
  <2> QED BY <1>2, <1>3, <2>1, KeepPending
<1>5. HeldInv'
  <2>1. \A q \in Pids : \A e \in cand'.events[q] :
            \/ e \in cand.events[q]
            \/ q \notin cand.marked /\ \E i \in 1..taken'[q] : file[q][i] = e
    <3> TAKE q \in Pids
    <3> TAKE e \in cand'.events[q]
    <3>1. taken[p] + 1 \in 1..taken'[p] /\ file[p][taken[p] + 1] = NextLine(p)
      BY NextOf, Advance
    <3> QED BY <3>1
  <2> QED BY <1>1, <2>1, HeldAfter DEF ReadInv
<1>6. Bounds'
  BY KeepBounds DEF ReadInv
<1>7. CompletedInv'
  BY <1>2, KeepCompleted DEF ReadInv
<1>8. CandInv'
  BY KeepCand DEF ReadInv
<1>9. MarkedInv'
  BY <1>3, KeepMarked DEF ReadInv
<1>10. ChildrenInv'
  BY <1>1, <1>2, KeepChildren DEF ReadInv
<1>11. EndedInv'
  BY <1>2, KeepEnded DEF ReadInv
<1>12. BaselineInv'
  BY <1>1, KeepBaseline DEF ReadInv
<1>13. FlushedInv'
  BY KeepFlushed DEF ReadInv
<1> QED
  BY <1>1, <1>2, <1>4, <1>5, <1>6, <1>7, <1>8, <1>9, <1>10, <1>11, <1>12, <1>13

LEMMA TakeReadReads ==
    ASSUME TypeOK, KernelInv, ReadInv, NEW p, TakeRead(p) PROVE ReadInv'
<1>1. TakeFile(p, "read")
  BY PromptType DEF TakeRead
<1>2. PICK l \in Line : l = NextLine(p) /\ l.pid = p /\ l.call = "read" /\ p \in Pids
  <2>1. NextLine(p).pid = p
    BY <1>1, NextOf, Advance DEF KernelInv, FileInv
  <2> QED BY <1>1, <2>1, NextOf
<1> DEFINE pending == p \in boot.file
<1>3. FilterOrKeep(l, pending)
  BY <1>2 DEF TakeRead
<1>4. UNCHANGED <<seen, boot, envReads, clientVars, endedVars, deferVars, flushed>>
  BY DEF TakeRead
<1>5. pending => ~Kept(l.item)
  BY <1>1, <1>2, PendingRead DEF ReadInv
<1> HIDE DEF pending
<1>6. \A x \in fileReads' \ fileReads : ~Kept(x)
  BY <1>3, <1>5, FilterFacts
<1>7. /\ cand'.pids = cand.pids /\ cand'.marked = cand.marked /\ emitted \subseteq emitted'
      /\ \A q \in Pids : cand.events[q] \subseteq cand'.events[q]
      /\ \A q \in Pids : \A e \in cand'.events[q] :
            e \in cand.events[q] \/ (e = NextLine(p) /\ q = p /\ q \notin cand.marked)
  BY <1>2, <1>3, FilterFacts
<1>8. /\ Bounds' /\ PendingInv' /\ CompletedInv' /\ CandInv' /\ MarkedInv' /\ ChildrenInv'
      /\ EndedInv' /\ HeldInv' /\ BaselineInv' /\ FlushedInv' /\ Grows /\ fileEndedTs' = fileEndedTs
  BY <1>1, <1>4, <1>6, <1>7, ReadTaken
<1>9. DeferInv' /\ NullInv'
  BY <1>4, <1>8, KeepDefer, KeepNull DEF ReadInv, deferVars
<1>10. WhereInv'
  <2>1. \A m \in Lines : Somewhere(m) => Somewhere(m)'
    <3>1. \A m \in Lines : m.pid \in Pids
      BY LineFacts
    <3> QED BY <1>4, <1>7, <3>1 DEF Somewhere, deferVars
  <2>2. Kept(l.item) => Somewhere(l)'
    <3>1. Kept(l.item) => l.item \notin fileReads /\ ~pending
      BY <1>5 DEF ReadInv, BaselineInv
    <3>2. Kept(l.item) => l \in emitted' \/ l \in cand'.events[l.pid]
      BY <1>3, <3>1, FilterFacts
    <3> QED BY <3>2 DEF Somewhere
  <2> QED BY <1>1, <1>2, <2>1, <2>2, KeepWhere DEF ReadInv
<1> QED
  BY <1>8, <1>9, <1>10 DEF ReadInv

\* A queue and one more.
LEMMA Appended ==
    ASSUME NEW D, NEW s \in Seq(D), NEW d \in D
    PROVE  /\ Len(s) \in Nat /\ Len(Append(s, d)) = Len(s) + 1
           /\ \A k \in 1..Len(s) : Append(s, d)[k] = s[k]
           /\ Append(s, d)[Len(s) + 1] = d
           /\ \A k \in 1..(Len(s) + 1) : k \in 1..Len(s) \/ k = Len(s) + 1
  OBVIOUS

LEMMA TakeRelativeReads ==
    ASSUME TypeOK, KernelInv, ReadInv, NEW p, TakeRelative(p) PROVE ReadInv'
<1>1. TakeFile(p, "read")
  BY PromptType DEF TakeRelative
<1>2. PICK l \in Line : l = NextLine(p) /\ l.pid = p /\ l.call = "read" /\ p \in Pids
  <2>1. NextLine(p).pid = p
    BY <1>1, NextOf, Advance DEF KernelInv, FileInv
  <2> QED BY <1>1, <2>1, NextOf
<1> DEFINE d == [line |-> l, inherited |-> FALSE]
<1>3. /\ deferredRelOpens' = Append(deferredRelOpens, d)
      /\ UNCHANGED <<seen, boot, cand, envReads, fileReads, clientVars, endedVars,
                     deferredNullAttribEvents, emitted, flushed>>
  BY <1>2 DEF TakeRelative
<1>4. /\ Len(deferredRelOpens) \in Nat /\ Len(deferredRelOpens') = Len(deferredRelOpens) + 1
      /\ \A k \in 1..Len(deferredRelOpens) : deferredRelOpens'[k] = deferredRelOpens[k]
      /\ deferredRelOpens'[Len(deferredRelOpens) + 1] = d
      /\ \A k \in 1..(Len(deferredRelOpens) + 1) :
            k \in 1..Len(deferredRelOpens) \/ k = Len(deferredRelOpens) + 1
  <2> DEFINE D == [line : Line, inherited : BOOLEAN]
  <2>1. deferredRelOpens \in Seq(D) /\ d \in D
    BY DEF TypeOK
  <2> HIDE DEF D, d
  <2> QED BY <1>3, <2>1, Appended
<1>5. d.line = l /\ d.inherited = FALSE
  OBVIOUS
<1> HIDE DEF d
<1>6. /\ Bounds' /\ PendingInv' /\ CompletedInv' /\ CandInv' /\ MarkedInv' /\ ChildrenInv'
      /\ EndedInv' /\ HeldInv' /\ BaselineInv' /\ FlushedInv' /\ Grows /\ fileEndedTs' = fileEndedTs
  BY <1>1, <1>3, ReadTaken
<1>7. NullInv'
  BY <1>3, <1>6, KeepNull DEF ReadInv
<1>8. DeferInv'
  <2> SUFFICES ASSUME NEW k \in 1..Len(deferredRelOpens'), NEW e, e = deferredRelOpens'[k]
               PROVE  /\ e.line.call = "read"
                      /\ \E i \in 1..taken'[e.line.pid] : file'[e.line.pid][i] = e.line
                      /\ Kept(e.line.item)' /\ e.inherited => fileEndedTs'[e.line.pid] # 0
    BY DEF DeferInv
  <2>1. file' = file /\ \A x : Kept(x)' = Kept(x)
    BY <1>6, StillLines DEF Grows, treeVars
  <2>2. CASE k \in 1..Len(deferredRelOpens)
    <3>1. e = deferredRelOpens[k] /\ e.line.pid \in Pids
      BY <1>4, <2>2, DeferredPid
    <3>2. 1..taken[e.line.pid] \subseteq 1..taken'[e.line.pid]
      BY <1>6, <3>1, GrowsTaken
    <3> QED BY <1>6, <2>1, <2>2, <3>1, <3>2 DEF ReadInv, DeferInv
  <2>3. CASE k = Len(deferredRelOpens) + 1
    <3>1. taken[p] + 1 \in 1..taken'[p] /\ file[p][taken[p] + 1] = NextLine(p)
      BY <1>1, NextOf, Advance
    <3> QED BY <1>2, <1>4, <1>5, <2>1, <2>3, <3>1
  <2> QED BY <1>4, <2>2, <2>3
<1>9. WhereInv'
  <2>1. \A m \in Lines : Somewhere(m) => Somewhere(m)'
    <3> SUFFICES ASSUME NEW m \in Lines, NEW k \in 1..Len(deferredRelOpens),
                        deferredRelOpens[k].line = m
                 PROVE  \E j \in 1..Len(deferredRelOpens') : deferredRelOpens'[j].line = m
      BY <1>3 DEF Somewhere
    <3>1. k \in 1..Len(deferredRelOpens')
      BY <1>4
    <3> QED BY <1>4, <3>1
  <2>2. Somewhere(l)'
    <3>1. Len(deferredRelOpens) + 1 \in 1..Len(deferredRelOpens')
      BY <1>4
    <3> QED BY <1>4, <1>5, <3>1 DEF Somewhere
  <2> QED BY <1>1, <1>2, <2>1, <2>2, KeepWhere DEF ReadInv
<1> QED
  BY <1>6, <1>7, <1>8, <1>9 DEF ReadInv

LEMMA TakeReapedReadReads ==
    ASSUME TypeOK, KernelInv, ReadInv, NEW p, TakeReapedRead(p) PROVE ReadInv'
<1>1. TakeFile(p, "read")
  BY DEF TakeReapedRead
<1>2. PICK l \in Line : l = NextLine(p) /\ l.pid = p /\ l.call = "read" /\ p \in Pids
  <2>1. NextLine(p).pid = p
    BY <1>1, NextOf, Advance DEF KernelInv, FileInv
  <2> QED BY <1>1, <2>1, NextOf
<1> DEFINE d == [line |-> l, pending |-> p \in boot.file]
<1>3. /\ deferredNullAttribEvents' = Append(deferredNullAttribEvents, d)
      /\ UNCHANGED <<seen, boot, cand, envReads, fileReads, clientVars, endedVars,
                     deferredRelOpens, emitted, flushed>>
  BY <1>2 DEF TakeReapedRead
<1>4. /\ Len(deferredNullAttribEvents) \in Nat
      /\ Len(deferredNullAttribEvents') = Len(deferredNullAttribEvents) + 1
      /\ \A k \in 1..Len(deferredNullAttribEvents) :
            deferredNullAttribEvents'[k] = deferredNullAttribEvents[k]
      /\ deferredNullAttribEvents'[Len(deferredNullAttribEvents) + 1] = d
      /\ \A k \in 1..(Len(deferredNullAttribEvents) + 1) :
            k \in 1..Len(deferredNullAttribEvents) \/ k = Len(deferredNullAttribEvents) + 1
  <2> DEFINE D == [line : Line, pending : BOOLEAN]
  <2>1. deferredNullAttribEvents \in Seq(D) /\ d \in D
    BY DEF TypeOK
  <2> HIDE DEF D, d
  <2> QED BY <1>3, <2>1, Appended
<1>5. d.line = l /\ d.pending = (p \in boot.file)
  OBVIOUS
<1> HIDE DEF d
<1>6. /\ Bounds' /\ PendingInv' /\ CompletedInv' /\ CandInv' /\ MarkedInv' /\ ChildrenInv'
      /\ EndedInv' /\ HeldInv' /\ BaselineInv' /\ FlushedInv' /\ Grows /\ fileEndedTs' = fileEndedTs
  BY <1>1, <1>3, ReadTaken
<1>7. DeferInv'
  BY <1>3, <1>6, KeepDefer DEF ReadInv
<1>8. NullInv'
  <2> SUFFICES ASSUME NEW k \in 1..Len(deferredNullAttribEvents'), NEW e,
                      e = deferredNullAttribEvents'[k]
               PROVE  /\ e.line.call = "read"
                      /\ \E i \in 1..taken'[e.line.pid] : file'[e.line.pid][i] = e.line
                      /\ Kept(e.line.item)' => ~e.pending
    BY DEF NullInv
  <2>1. file' = file /\ \A x : Kept(x)' = Kept(x)
    BY <1>6, StillLines DEF Grows, treeVars
  <2>2. CASE k \in 1..Len(deferredNullAttribEvents)
    <3>1. e = deferredNullAttribEvents[k] /\ e.line.pid \in Pids
      BY <1>4, <2>2, DeferredPid
    <3>2. 1..taken[e.line.pid] \subseteq 1..taken'[e.line.pid]
      BY <1>6, <3>1, GrowsTaken
    <3> QED BY <2>1, <2>2, <3>1, <3>2 DEF ReadInv, NullInv
  <2>3. CASE k = Len(deferredNullAttribEvents) + 1
    <3>1. taken[p] + 1 \in 1..taken'[p] /\ file[p][taken[p] + 1] = NextLine(p)
      BY <1>1, NextOf, Advance
    <3>2. p \in boot.file => ~Kept(l.item)
      BY <1>1, <1>2, PendingRead DEF ReadInv
    <3> QED BY ZenonT(60), <1>2, <1>4, <1>5, <2>1, <2>3, <3>1, <3>2
  <2> QED BY <1>4, <2>2, <2>3
<1>9. WhereInv'
  <2>1. \A m \in Lines : Somewhere(m) => Somewhere(m)'
    <3> SUFFICES ASSUME NEW m \in Lines, NEW k \in 1..Len(deferredNullAttribEvents),
                        deferredNullAttribEvents[k].line = m
                 PROVE  \E j \in 1..Len(deferredNullAttribEvents') :
                            deferredNullAttribEvents'[j].line = m
      BY <1>3 DEF Somewhere
    <3>1. k \in 1..Len(deferredNullAttribEvents')
      BY <1>4
    <3> QED BY <1>4, <3>1
  <2>2. Somewhere(l)'
    <3>1. Len(deferredNullAttribEvents) + 1 \in 1..Len(deferredNullAttribEvents')
      BY <1>4
    <3> QED BY <1>4, <1>5, <3>1 DEF Somewhere
  <2> QED BY <1>1, <1>2, <2>1, <2>2, KeepWhere DEF ReadInv
<1> QED
  BY <1>6, <1>7, <1>8, <1>9 DEF ReadInv

-----------------------------------------------------------------------------
(* The replay and the end.                                                 *)

\* No marker of the process comes after a kept read.
LEMMA KeptNotInWindow ==
    ASSUME TypeOK, KernelInv, Bounds, EndedInv, NEW l \in Line, l.call = "read", Kept(l.item),
           NEW i \in 1..taken[l.pid], file[l.pid][i] = l
    PROVE  ~inWindow(l)
<1> SUFFICES ASSUME fileEndedTs[l.pid] # 0, l.n < fileEndedTs[l.pid] PROVE FALSE
  BY DEF inWindow
<1>1. PICK p \in Pids : p = l.pid
  BY DEF Line
<1>2. PICK j \in 1..taken[p] : file[p][j].call = "marker" /\ file[p][j].n = fileEndedTs[p]
  BY <1>1 DEF EndedInv
<1>3. i \in 1..Len(file[p]) /\ j \in 1..Len(file[p]) /\ Len(file[p]) \in Nat
  <2>1. taken \in [Pids -> Nat] /\ file \in [Pids -> Seq(Line)]
    BY DEF TypeOK
  <2>2. taken[p] \in Nat /\ Len(file[p]) \in Nat /\ taken[p] <= Len(file[p])
    BY <2>1 DEF Bounds
  <2> QED BY <1>1, <2>2
<1>4. /\ file[p][i].n \in Nat /\ file[p][j].n \in Nat /\ i # j
      /\ j < i => file[p][j].n < file[p][i].n
  BY <1>1, <1>2, <1>3, LineFacts DEF Line, KernelInv, FileInv
<1>5. j \in (i + 1)..Len(file[p])
  BY <1>1, <1>2, <1>3, <1>4
<1> QED
  BY <1>1, <1>2, <1>3, <1>5, KeptRead

\* A deferred read is replayed: what does not depend on which.
LEMMA Replayed ==
    ASSUME TypeOK, KernelInv, ReadInv, AllTaken, NEW l \in Line,
           \E i \in 1..taken[l.pid] : file[l.pid][i] = l,
           UNCHANGED <<treeVars, takeVars, boot, envReads, clientVars, endedVars, flushed>>,
           cand'.pids = cand.pids, cand'.marked = cand.marked, ~flushed,
           \A q \in Pids : \A e \in cand'.events[q] :
               e \in cand.events[q] \/ (e = l /\ q = l.pid /\ q \notin cand.marked),
           \A x \in fileReads' \ fileReads : ~Kept(x)
    PROVE  /\ Bounds' /\ PendingInv' /\ CompletedInv' /\ CandInv' /\ MarkedInv' /\ ChildrenInv'
           /\ EndedInv' /\ HeldInv' /\ BaselineInv' /\ FlushedInv' /\ Grows
           /\ fileEndedTs' = fileEndedTs /\ taken' = taken
<1>1. taken' = taken /\ shimTaken' = shimTaken /\ fileEndedTs' = fileEndedTs
      /\ file' = file /\ shim' = shim /\ leader' = leader
  BY DEF takeVars, endedVars, treeVars
<1>2. Grows /\ \A q \in Pids : Told(q)' = Told(q) /\ Script(q)' = Script(q)
                               /\ (Pending(q) => Pending(q)')
  BY <1>1, Stays
<1>3. \A q \in Pids : KinForgets(q)' = KinForgets(q)
  BY StillLines
<1>4. boot.file \subseteq Pids /\ cand.marked \subseteq Pids
  BY DEF TypeOK
<1>5. Bounds' /\ EndedInv'
  BY <1>1 DEF ReadInv, Bounds, EndedInv
<1>6. PendingInv'
  BY <1>1, <1>2, <1>4 DEF ReadInv, PendingInv
<1>7. CompletedInv'
  BY <1>2, <1>3 DEF ReadInv, CompletedInv
<1>8. CandInv' /\ MarkedInv'
  BY <1>2, <1>4 DEF ReadInv, CandInv, MarkedInv
<1>9. ChildrenInv'
  BY <1>2, KeepChildren DEF ReadInv
<1>10. HeldInv'
  <2>1. \A q \in Pids : \A e \in cand'.events[q] :
            \/ e \in cand.events[q]
            \/ q \notin cand.marked /\ \E i \in 1..taken'[q] : file[q][i] = e
    BY <1>1
  <2> QED BY <1>2, <2>1, HeldAfter DEF ReadInv
<1>11. BaselineInv'
  BY <1>2, KeepBaseline DEF ReadInv
<1>12. FlushedInv'
  BY DEF FlushedInv
<1> QED
  BY <1>1, <1>2, <1>5, <1>6, <1>7, <1>8, <1>9, <1>10, <1>11, <1>12

LEMMA ReplayRelOpenReads ==
    ASSUME TypeOK, KernelInv, ReadInv, ReplayRelOpen PROVE ReadInv'
<1>1. /\ AllTaken /\ deferredRelOpens # <<>> /\ deferredRelOpens' = Tail(deferredRelOpens)
      /\ UNCHANGED <<treeVars, takeVars, boot, envReads, clientVars, endedVars,
                     deferredNullAttribEvents, flushed>>
  BY DEF ReplayRelOpen
<1>2. ~flushed
  BY <1>1 DEF ReadInv, FlushedInv
<1>3. /\ Len(deferredRelOpens) \in Nat /\ 1 \in 1..Len(deferredRelOpens)
      /\ Head(deferredRelOpens) = deferredRelOpens[1]
      /\ Len(deferredRelOpens') = Len(deferredRelOpens) - 1
      /\ \A k \in 1..(Len(deferredRelOpens) - 1) : deferredRelOpens'[k] = deferredRelOpens[k + 1]
  <2> DEFINE D == [line : Line, inherited : BOOLEAN]
  <2>1. deferredRelOpens \in Seq(D)
    BY DEF TypeOK
  <2> HIDE DEF D
  <2> QED BY <1>1, <2>1, SeqFacts
<1>4. PICK d : d = deferredRelOpens[1]
  OBVIOUS
<1>5. PICK l \in Line : l = d.line /\ l.pid \in Pids
  BY <1>3, <1>4, DeferredPid
<1>6. /\ l.call = "read" /\ \E i \in 1..taken[l.pid] : file[l.pid][i] = l
      /\ Kept(l.item) /\ d.inherited => fileEndedTs[l.pid] # 0
  BY <1>3, <1>4, <1>5 DEF ReadInv, DeferInv
<1> DEFINE pending == inWindow(l) \/ (d.inherited /\ fileEndedTs[l.pid] = 0)
<1>7. FilterOrKeep(l, pending)
  BY <1>3, <1>4, <1>5 DEF ReplayRelOpen
<1>8. Kept(l.item) => ~pending
  BY <1>6, KeptNotInWindow DEF ReadInv
<1> HIDE DEF pending
<1>9. \A x \in fileReads' \ fileReads : ~Kept(x)
  BY <1>7, <1>8, FilterFacts
<1>10. /\ cand'.pids = cand.pids /\ cand'.marked = cand.marked /\ emitted \subseteq emitted'
       /\ \A q \in Pids : cand.events[q] \subseteq cand'.events[q]
       /\ \A q \in Pids : \A e \in cand'.events[q] :
             e \in cand.events[q] \/ (e = l /\ q = l.pid /\ q \notin cand.marked)
       /\ ~pending /\ l.item \notin fileReads => l \in emitted' \/ l \in cand'.events[l.pid]
  BY <1>7, FilterFacts
<1>11. /\ Bounds' /\ PendingInv' /\ CompletedInv' /\ CandInv' /\ MarkedInv' /\ ChildrenInv'
       /\ EndedInv' /\ HeldInv' /\ BaselineInv' /\ FlushedInv' /\ Grows
       /\ fileEndedTs' = fileEndedTs /\ taken' = taken
  BY <1>1, <1>2, <1>6, <1>9, <1>10, Replayed
<1>12. file' = file /\ \A x : Kept(x)' = Kept(x)
  BY <1>11, StillLines DEF Grows, treeVars
<1>13. NullInv'
  BY <1>1, <1>11, KeepNull DEF ReadInv
<1>14. DeferInv'
  <2> SUFFICES ASSUME NEW k \in 1..Len(deferredRelOpens'), NEW e, e = deferredRelOpens'[k]
               PROVE  /\ e.line.call = "read"
                      /\ \E i \in 1..taken'[e.line.pid] : file'[e.line.pid][i] = e.line
                      /\ Kept(e.line.item)' /\ e.inherited => fileEndedTs'[e.line.pid] # 0
    BY DEF DeferInv
  <2>1. k + 1 \in 1..Len(deferredRelOpens) /\ e = deferredRelOpens[k + 1]
    BY <1>3
  <2> QED BY <1>11, <1>12, <2>1 DEF ReadInv, DeferInv
<1>15. WhereInv'
  <2>1. ASSUME NEW m \in Lines, m.call = "read", Kept(m.item), Somewhere(m) PROVE Somewhere(m)'
    <3>1. CASE m = l
      <4>1. ~pending /\ l.item \notin fileReads
        BY <1>8, <2>1, <3>1 DEF ReadInv, BaselineInv
      <4> QED BY <1>10, <3>1, <4>1 DEF Somewhere
    <3>2. CASE m # l
      <4>1. m.pid \in Pids
        BY LineFacts
      <4>2. ASSUME NEW k \in 1..Len(deferredRelOpens), deferredRelOpens[k].line = m
            PROVE  \E j \in 1..Len(deferredRelOpens') : deferredRelOpens'[j].line = m
        <5>1. k # 1
          BY <1>4, <1>5, <3>2, <4>2
        <5>2. k - 1 \in 1..Len(deferredRelOpens') /\ (k - 1) + 1 = k
          BY <1>3, <5>1
        <5>3. deferredRelOpens'[k - 1] = deferredRelOpens[k]
          BY <1>3, <5>2
        <5> QED BY <4>2, <5>2, <5>3
      <4> QED BY <1>1, <1>10, <2>1, <4>1, <4>2 DEF Somewhere
    <3> QED BY <3>1, <3>2
  <2> QED BY <1>1, <1>11, <2>1, WhereStays DEF ReadInv
<1> QED
  BY <1>11, <1>13, <1>14, <1>15 DEF ReadInv

LEMMA ReplayReapedReads ==
    ASSUME TypeOK, KernelInv, ReadInv, ReplayReaped PROVE ReadInv'
<1>1. /\ AllTaken /\ deferredNullAttribEvents # <<>>
      /\ deferredNullAttribEvents' = Tail(deferredNullAttribEvents)
      /\ UNCHANGED <<treeVars, takeVars, boot, envReads, fileReads, clientVars, endedVars,
                     deferredRelOpens, flushed>>
  BY DEF ReplayReaped
<1>2. ~flushed
  BY <1>1 DEF ReadInv, FlushedInv
<1>3. /\ Len(deferredNullAttribEvents) \in Nat /\ 1 \in 1..Len(deferredNullAttribEvents)
      /\ Head(deferredNullAttribEvents) = deferredNullAttribEvents[1]
      /\ Len(deferredNullAttribEvents') = Len(deferredNullAttribEvents) - 1
      /\ \A k \in 1..(Len(deferredNullAttribEvents) - 1) :
            deferredNullAttribEvents'[k] = deferredNullAttribEvents[k + 1]
  <2> DEFINE D == [line : Line, pending : BOOLEAN]
  <2>1. deferredNullAttribEvents \in Seq(D)
    BY DEF TypeOK
  <2> HIDE DEF D
  <2> QED BY <1>1, <2>1, SeqFacts
<1>4. PICK d : d = deferredNullAttribEvents[1]
  OBVIOUS
<1>5. PICK l \in Line : l = d.line /\ l.pid \in Pids
  BY <1>3, <1>4, DeferredPid
<1>6. /\ l.call = "read" /\ \E i \in 1..taken[l.pid] : file[l.pid][i] = l
      /\ Kept(l.item) => ~d.pending
  BY <1>3, <1>4, <1>5 DEF ReadInv, NullInv
<1>7. \/ d.pending /\ UNCHANGED <<cand, emitted>>
      \/ HoldOrEmit(l)
  BY <1>3, <1>4, <1>5 DEF ReplayReaped
<1>8. /\ cand'.pids = cand.pids /\ cand'.marked = cand.marked /\ emitted \subseteq emitted'
      /\ \A q \in Pids : cand.events[q] \subseteq cand'.events[q]
      /\ \A q \in Pids : \A e \in cand'.events[q] :
            e \in cand.events[q] \/ (e = l /\ q = l.pid /\ q \notin cand.marked)
      /\ d.pending \/ l \in emitted' \/ l \in cand'.events[l.pid]
  BY <1>7, HoldFacts
<1>9. /\ Bounds' /\ PendingInv' /\ CompletedInv' /\ CandInv' /\ MarkedInv' /\ ChildrenInv'
      /\ EndedInv' /\ HeldInv' /\ BaselineInv' /\ FlushedInv' /\ Grows
      /\ fileEndedTs' = fileEndedTs /\ taken' = taken
  BY <1>1, <1>2, <1>6, <1>8, Replayed
<1>10. file' = file /\ \A x : Kept(x)' = Kept(x)
  BY <1>9, StillLines DEF Grows, treeVars
<1>11. DeferInv'
  BY <1>1, <1>9, KeepDefer DEF ReadInv
<1>12. NullInv'
  <2> SUFFICES ASSUME NEW k \in 1..Len(deferredNullAttribEvents'), NEW e,
                      e = deferredNullAttribEvents'[k]
               PROVE  /\ e.line.call = "read"
                      /\ \E i \in 1..taken'[e.line.pid] : file'[e.line.pid][i] = e.line
                      /\ Kept(e.line.item)' => ~e.pending
    BY DEF NullInv
  <2>1. k + 1 \in 1..Len(deferredNullAttribEvents) /\ e = deferredNullAttribEvents[k + 1]
    BY <1>3
  <2> QED BY <1>9, <1>10, <2>1 DEF ReadInv, NullInv
<1>13. WhereInv'
  <2>1. ASSUME NEW m \in Lines, m.call = "read", Kept(m.item), Somewhere(m) PROVE Somewhere(m)'
    <3>1. CASE m = l
      BY <1>6, <1>8, <2>1, <3>1 DEF Somewhere
    <3>2. CASE m # l
      <4>1. m.pid \in Pids
        BY LineFacts
      <4>2. ASSUME NEW k \in 1..Len(deferredNullAttribEvents), deferredNullAttribEvents[k].line = m
            PROVE  \E j \in 1..Len(deferredNullAttribEvents') : deferredNullAttribEvents'[j].line = m
        <5>1. k # 1
          BY <1>4, <1>5, <3>2, <4>2
        <5>2. k - 1 \in 1..Len(deferredNullAttribEvents') /\ (k - 1) + 1 = k
          BY <1>3, <5>1
        <5>3. deferredNullAttribEvents'[k - 1] = deferredNullAttribEvents[k]
          BY <1>3, <5>2
        <5> QED BY <4>2, <5>2, <5>3
      <4> QED BY <1>1, <1>8, <2>1, <4>1, <4>2 DEF Somewhere
    <3> QED BY <3>1, <3>2
  <2> QED BY <1>1, <1>9, <2>1, WhereStays DEF ReadInv
<1> QED
  BY <1>9, <1>11, <1>12, <1>13 DEF ReadInv

LEMMA FlushAllReads ==
    ASSUME TypeOK, KernelInv, ReadInv, FlushAll PROVE ReadInv'
<1>1. /\ AllTaken /\ deferredRelOpens = <<>> /\ deferredNullAttribEvents = <<>> /\ flushed' = TRUE
      /\ emitted' = emitted \cup UNION {heldBack(p) : p \in Pids}
      /\ cand' = [pids |-> {}, events |-> [p \in Pids |-> {}], confirmed |-> {}, marked |-> {}]
      /\ UNCHANGED <<treeVars, takeVars, boot, envReads, fileReads, clientVars, endedVars, deferVars>>
  BY DEF FlushAll
<1>2. /\ taken' = taken /\ shimTaken' = shimTaken /\ fileEndedTs' = fileEndedTs /\ running' = running
      /\ file' = file /\ shim' = shim /\ leader' = leader
      /\ deferredRelOpens' = deferredRelOpens
      /\ deferredNullAttribEvents' = deferredNullAttribEvents
  BY <1>1 DEF takeVars, endedVars, treeVars, deferVars
<1>3. Grows /\ \A q \in Pids : Told(q)' = Told(q) /\ (Pending(q) => Pending(q)')
  BY <1>1, <1>2, Stays
<1>4. \A q \in Pids : KinForgets(q)' = KinForgets(q)
  BY <1>1, StillLines
<1>5. boot.file \subseteq Pids
  BY DEF TypeOK
<1>6. cand'.marked = {} /\ \A q \in Pids : cand'.events[q] = {}
  BY <1>1
<1>7. Bounds' /\ EndedInv' /\ PendingInv' /\ CompletedInv'
  BY <1>1, <1>2, <1>3, <1>4, <1>5 DEF ReadInv, Bounds, EndedInv, PendingInv, CompletedInv
<1>8. CandInv' /\ MarkedInv' /\ HeldInv'
  BY <1>1, <1>6 DEF CandInv, MarkedInv, HeldInv
<1>9. ChildrenInv' /\ DeferInv' /\ NullInv' /\ BaselineInv'
  BY <1>1, <1>2, <1>3, KeepChildren, KeepDefer, KeepNull, KeepBaseline DEF ReadInv
<1>10. FlushedInv'
  <2>1. AllTaken'
    BY <1>1, <1>2 DEF AllTaken, Untaken
  <2> QED BY <1>1, <1>2, <1>6, <2>1 DEF FlushedInv
<1>11. WhereInv'
  <2>1. \A p \in Pids : cand.events[p] \subseteq emitted'
    BY <1>1 DEF heldBack
  <2>2. \A m \in Lines : Somewhere(m) => Somewhere(m)'
    <3>1. \A m \in Lines : m.pid \in Pids
      BY LineFacts
    <3> QED BY <1>1, <1>2, <2>1, <3>1 DEF Somewhere
  <2> QED BY <1>1, <1>2, <2>2, WhereStays DEF ReadInv
<1> QED
  BY <1>7, <1>8, <1>9, <1>10, <1>11 DEF ReadInv

-----------------------------------------------------------------------------
(* The invariant.                                                          *)

LEMMA FreshReads ==
    ASSUME TypeOK, Fresh PROVE ReadInv
<1>1. /\ \A p \in Pids : taken[p] = 0 /\ fileEndedTs[p] = 0 /\ boot.children[p] = {}
                         /\ cand.events[p] = {}
      /\ shimTaken = 0 /\ boot.file = {} /\ cand.marked = {} /\ fileReads = {} /\ ~flushed
      /\ deferredRelOpens = <<>> /\ deferredNullAttribEvents = <<>>
  BY DEF Fresh
<1>2. 1..0 = {} /\ Len(<<>>) = 0
  OBVIOUS
<1>3. Bounds
  BY <1>1 DEF Bounds, TypeOK
<1>4. \A p \in Pids : ~Told(p) /\ ~Script(p)
  BY <1>1, <1>2 DEF Told, Script
<1>5. PendingInv /\ CompletedInv /\ CandInv /\ MarkedInv /\ ChildrenInv /\ EndedInv
  BY <1>1, <1>2, <1>4 DEF PendingInv, CompletedInv, CandInv, MarkedInv, ChildrenInv, EndedInv
<1>6. HeldInv /\ DeferInv /\ NullInv /\ BaselineInv /\ WhereInv /\ FlushedInv
  BY <1>1, <1>2 DEF HeldInv, DeferInv, NullInv, BaselineInv, WhereInv, FlushedInv
<1> QED
  BY <1>3, <1>5, <1>6 DEF ReadInv

LEMMA InitReading == Init => Reading
<1> SUFFICES ASSUME Init PROVE Reading
  OBVIOUS
<1>1. Fresh /\ running
  BY DEF Init, Fresh
<1>2. TypeOK
  <2>1. /\ running \in BOOLEAN /\ live \subseteq Pids /\ image \in [Pids -> Images]
        /\ leader \in [Pids -> Pids] /\ client \in [Pids -> BOOLEAN] /\ calls \in 0..MaxCalls
    BY RootAssumption, CallsAssumption DEF Init, Images
  <2>2. /\ taken \in [Pids -> Nat] /\ shimTaken \in Nat /\ prompt \in BOOLEAN /\ seen \subseteq Pids
        /\ envReads \subseteq Items \cup {None} /\ fileReads \subseteq Items \cup {None}
        /\ packageManagerClientPids \subseteq Pids /\ completedPackageManagerClientPids \subseteq Pids
        /\ envEndedTs \in [Pids -> Nat] /\ fileEndedTs \in [Pids -> Nat]
        /\ emitted \subseteq Line /\ flushed \in BOOLEAN
    BY RootAssumption DEF Init
  <2>3. file \in [Pids -> Seq(Line)] /\ shim \in Seq(Line)
    <3> DEFINE D == Line
    <3>1. <<>> \in Seq(D)
      OBVIOUS
    <3> HIDE DEF D
    <3>2. file \in [Pids -> Seq(D)] /\ shim \in Seq(D)
      BY <3>1 DEF Init
    <3> QED BY <3>2 DEF D
  <2>4. boot \in [env : SUBSET Pids, file : SUBSET Pids, completed : SUBSET Pids,
                  children : [Pids -> SUBSET Pids]]
    BY DEF Init
  <2>5. cand \in [pids : SUBSET Pids, events : [Pids -> SUBSET Line],
                  confirmed : SUBSET Pids, marked : SUBSET Pids]
    BY DEF Init
  <2>6. <<>> \in Seq([line : Line, inherited : BOOLEAN]) /\ <<>> \in Seq([line : Line, pending : BOOLEAN])
    <3> DEFINE D == [line : Line, inherited : BOOLEAN]
    <3> DEFINE E == [line : Line, pending : BOOLEAN]
    <3> HIDE DEF D, E
    <3>1. <<>> \in Seq(D) /\ <<>> \in Seq(E)
      OBVIOUS
    <3> QED BY <3>1 DEF D, E
  <2>7. deferredRelOpens = <<>> /\ deferredNullAttribEvents = <<>>
    BY DEF Init
  <2> QED BY <2>1, <2>2, <2>3, <2>4, <2>5, <2>6, <2>7 DEF TypeOK
<1>3. \A p \in Pids : 1..Len(file[p]) = {} /\ leader[p] = p
  BY DEF Init
<1>4. 1..Len(shim) = {}
  BY DEF Init
<1>5. KernelInv
  BY <1>3, <1>4
  DEF KernelInv, FileInv, ShimInv, ThreadInv, DeadInv, BirthInv, StartInv, CloneInv
<1> QED
  BY <1>1, <1>2, <1>5 DEF Reading, FreshWhileRunning

LEMMA ProcessesReading ==
    ASSUME Reading, NEW p \in Pids, Processes(p) PROVE Reading'
<1>1. TypeOK /\ KernelInv
  BY DEF Reading
<1>2. \/ \E l : Writes(p, l)
      \/ \E l : Speaks(p, l)
  <2>1. ASSUME StartedCall(p) PROVE \E l : Writes(p, l)
    <3>1. leader[p] = p
      BY <1>1, <2>1 DEF StartedCall, KernelInv, ThreadInv
    <3> QED BY <1>1, <2>1, <3>1, StartedWrites
  <2> QED BY <1>1, <2>1, ExecWrites, CloneWrites, ThreadWrites, ReadWrites, EnvSpeaks, ExitWrites
          DEF Processes
<1>3. TypeOK' /\ KernelInv'
  BY <1>1, <1>2, WritesType, SpeaksType, WritesKernel, SpeaksKernel
<1>4. running /\ running' /\ UNCHANGED dispatchVars
  BY <1>2 DEF Writes, Speaks
<1>5. Fresh'
  BY <1>4 DEF Reading, FreshWhileRunning, Fresh, dispatchVars, takeVars, clientVars, endedVars, deferVars
<1> QED
  BY <1>3, <1>4, <1>5 DEF Reading, FreshWhileRunning

LEMMA DoneReading ==
    ASSUME Reading, TreeDone PROVE Reading'
<1>1. TypeOK /\ KernelInv /\ ReadInv
  BY FreshReads DEF Reading, FreshWhileRunning, TreeDone
<1>2. UNCHANGED <<live, image, leader, client, file, shim, calls, dispatchVars>> /\ running' = FALSE
  BY DEF TreeDone
<1>3. UNCHANGED dispatchVars
  BY <1>2
<1>4. TypeOK'
  BY <1>1, <1>2 DEF TypeOK, dispatchVars, takeVars, clientVars, endedVars, deferVars
<1>5. KernelInv'
  BY <1>1, <1>2 DEF KernelInv, FileInv, ShimInv, ThreadInv, DeadInv, BirthInv, StartInv, CloneInv
<1>6. /\ Lines' = Lines /\ Births' = Births /\ \A p : Kin(p)' = Kin(p)
  <2>1. Lines' = Lines
    BY <1>2 DEF Lines
  <2>2. Births' = Births
    BY <2>1 DEF Births
  <2> QED BY <2>1, <2>2 DEF Kin
<1>7. /\ \A p : KinTells(p)' = KinTells(p) /\ KinForgets(p)' = KinForgets(p)
      /\ \A x : Kept(x)' = Kept(x)
  <2>1. \A p : KinTells(p)' = KinTells(p) /\ KinForgets(p)' = KinForgets(p)
    BY <1>6 DEF KinTells, KinForgets
  <2>2. \A l : BecomesNode(l)' = BecomesNode(l) /\ Reopens(l)' = Reopens(l)
    BY <1>2, <1>6 DEF BecomesNode, TellsLater, Reopens
  <2> QED BY <1>6, <2>1, <2>2 DEF Kept
<1>8. /\ taken' = taken /\ shimTaken' = shimTaken /\ fileEndedTs' = fileEndedTs /\ boot' = boot
      /\ cand' = cand /\ flushed' = flushed /\ deferredRelOpens' = deferredRelOpens
      /\ deferredNullAttribEvents' = deferredNullAttribEvents /\ fileReads' = fileReads
      /\ emitted' = emitted
  BY <1>3 DEF dispatchVars, takeVars, endedVars, deferVars
<1>9. \A p : /\ Told(p)' = Told(p) /\ Script(p)' = Script(p) /\ Starting(p)' = Starting(p)
             /\ TellsAhead(p)' = TellsAhead(p) /\ Over(p)' = Over(p)
  BY <1>2, <1>8 DEF Told, Script, Starting, TellsAhead, Over
<1>10. Bounds' /\ PendingInv' /\ CompletedInv' /\ CandInv' /\ MarkedInv' /\ ChildrenInv' /\ EndedInv'
  BY <1>1, <1>2, <1>7, <1>8, <1>9
  DEF ReadInv, Bounds, PendingInv, Pending, CompletedInv, CandInv, MarkedInv, ChildrenInv, EndedInv
<1>11. HeldInv' /\ DeferInv' /\ NullInv' /\ BaselineInv'
  BY <1>1, <1>2, <1>7, <1>8 DEF ReadInv, HeldInv, DeferInv, NullInv, BaselineInv
<1>12. \A l : Somewhere(l)' = Somewhere(l)
  BY <1>8 DEF Somewhere
<1>13. WhereInv'
  BY <1>1, <1>2, <1>7, <1>8, <1>12 DEF ReadInv, WhereInv
<1>14. FlushedInv'
  BY <1>8 DEF FlushedInv, Reading, FreshWhileRunning, Fresh, TreeDone
<1> QED
  BY <1>2, <1>4, <1>5, <1>10, <1>11, <1>13, <1>14 DEF Reading, FreshWhileRunning, ReadInv

LEMMA DispatchReading ==
    ASSUME Reading, ~running,
           \/ \E p \in Pids : Dispatch(p)
           \/ TakeShimMarker \/ TakeEnv \/ ReplayRelOpen \/ ReplayReaped \/ FlushAll
    PROVE  Reading'
<1>1. TypeOK /\ KernelInv /\ ReadInv
  BY DEF Reading
<1>2. UNCHANGED treeVars
  BY <1>1, PromptType, NextOf, NextShim
  DEF Dispatch, TakeExec, TakeClone, TakeExit, TakeMarker, TakeRelative, TakeRead, TakeReapedRead,
      TakeShimMarker, TakeEnv, ReplayRelOpen, ReplayReaped, FlushAll
<1>3. running' = FALSE /\ KernelInv'
  BY <1>1, <1>2, StillKernel DEF treeVars, TypeOK
<1>4. TypeOK' /\ ReadInv'
  <2>1. ASSUME NEW p \in Pids, Dispatch(p) PROVE TypeOK' /\ ReadInv'
    <3>1. CASE TakeExec(p)
      BY <1>1, <3>1, TakeExecType, TakeExecReads
    <3>2. CASE TakeClone(p, "clone") \/ TakeClone(p, "thread")
      BY <1>1, <3>2, TakeCloneType, TakeCloneReads DEF KernelInv
    <3>3. CASE TakeExit(p)
      BY <1>1, <3>3, TakeExitType, TakeExitReads
    <3>4. CASE TakeMarker(p)
      BY <1>1, <3>4, TakeMarkerType, TakeMarkerReads
    <3>5. CASE TakeRelative(p)
      BY <1>1, <3>5, TakeRelativeType, TakeRelativeReads
    <3>6. CASE TakeRead(p)
      BY <1>1, <3>6, TakeReadType, TakeReadReads
    <3>7. CASE TakeReapedRead(p)
      BY <1>1, <3>7, TakeReapedReadType, TakeReapedReadReads
    <3> QED BY <2>1, <3>1, <3>2, <3>3, <3>4, <3>5, <3>6, <3>7 DEF Dispatch
  <2>2. CASE TakeShimMarker
    BY <1>1, <2>2, TakeShimMarkerType, TakeShimMarkerReads
  <2>3. CASE TakeEnv
    BY <1>1, <2>3, TakeEnvType, TakeEnvReads
  <2>4. CASE ReplayRelOpen
    BY <1>1, <2>4, ReplayRelOpenType, ReplayRelOpenReads
  <2>5. CASE ReplayReaped
    BY <1>1, <2>5, ReplayReapedType, ReplayReapedReads
  <2>6. CASE FlushAll
    BY <1>1, <2>6, FlushAllType, FlushAllReads
  <2> QED BY <2>1, <2>2, <2>3, <2>4, <2>5, <2>6
<1> QED
  BY <1>3, <1>4 DEF Reading, FreshWhileRunning

LEMMA StutterReading == Reading /\ UNCHANGED vars => Reading'
<1> SUFFICES ASSUME Reading, UNCHANGED vars PROVE Reading'
  OBVIOUS
<1>1. UNCHANGED treeVars /\ UNCHANGED dispatchVars
  BY DEF vars
<1>2. TypeOK'
  BY <1>1 DEF Reading, TypeOK, treeVars, dispatchVars, takeVars, clientVars, endedVars, deferVars
<1>3. KernelInv' /\ running' = running
  BY <1>1, StillKernel DEF Reading, treeVars
<1>4. FreshWhileRunning'
  BY <1>1, <1>3
  DEF Reading, FreshWhileRunning, Fresh, dispatchVars, takeVars, clientVars, endedVars, deferVars
<1>5. ASSUME ~running PROVE ReadInv'
  <2>1. ReadInv /\ TypeOK
    BY <1>5 DEF Reading
  <2>2. /\ taken' = taken /\ shimTaken' = shimTaken /\ fileEndedTs' = fileEndedTs /\ boot' = boot
        /\ cand' = cand /\ flushed' = flushed /\ deferredRelOpens' = deferredRelOpens
        /\ deferredNullAttribEvents' = deferredNullAttribEvents /\ fileReads' = fileReads
        /\ emitted' = emitted /\ file' = file /\ shim' = shim /\ leader' = leader
        /\ running' = running
    BY <1>1 DEF dispatchVars, takeVars, endedVars, deferVars, treeVars
  <2>3. Grows /\ \A q \in Pids : Told(q)' = Told(q) /\ Script(q)' = Script(q)
                                 /\ (Pending(q) => Pending(q)')
    BY <1>1, <2>1, <2>2, Stays
  <2>4. \A q \in Pids : KinForgets(q)' = KinForgets(q)
    BY <1>1, StillLines
  <2>5. boot.file \subseteq Pids /\ cand.marked \subseteq Pids
    BY <2>1 DEF TypeOK
  <2>6. Bounds' /\ EndedInv' /\ PendingInv' /\ CompletedInv' /\ CandInv' /\ MarkedInv'
    BY <2>1, <2>2, <2>3, <2>4, <2>5
    DEF ReadInv, Bounds, EndedInv, PendingInv, CompletedInv, CandInv, MarkedInv
  <2>7. ChildrenInv' /\ HeldInv' /\ DeferInv' /\ NullInv' /\ BaselineInv'
    BY <2>1, <2>2, <2>3, KeepChildren, KeepHeld, KeepDefer, KeepNull, KeepBaseline DEF ReadInv
  <2>8. WhereInv'
    <3>1. \A l : Somewhere(l)' = Somewhere(l)
      BY <2>2 DEF Somewhere
    <3> QED BY <1>1, <2>1, <2>2, <3>1, WhereStays DEF ReadInv, Reading
  <2>9. FlushedInv'
    BY <2>1, <2>2 DEF ReadInv, FlushedInv, AllTaken, Untaken
  <2> QED BY <2>6, <2>7, <2>8, <2>9 DEF ReadInv
<1> QED
  BY <1>2, <1>3, <1>4, <1>5 DEF Reading

LEMMA NextReading == Reading /\ [Next]_vars => Reading'
<1> SUFFICES ASSUME Reading, [Next]_vars PROVE Reading'
  OBVIOUS
<1>1. ASSUME \/ \E p \in Pids : Dispatch(p)
             \/ TakeShimMarker \/ TakeEnv \/ ReplayRelOpen \/ ReplayReaped \/ FlushAll
      PROVE  ~running
  BY <1>1
  DEF Dispatch, TakeExec, TakeClone, TakeExit, TakeMarker, TakeRelative, TakeRead, TakeReapedRead,
      TakeShimMarker, TakeEnv, ReplayRelOpen, ReplayReaped, FlushAll, AllTaken, Take, TakeFile, TakeShim
<1> QED
  BY <1>1, ProcessesReading, DoneReading, DispatchReading, StutterReading DEF Next, Done

\* The invariant holds in every run: the types, what the lines tell of their processes, and why
\* each read left out so far may be.
THEOREM ReadingAlways == Spec => []Reading
  BY InitReading, NextReading, PTL DEF Spec

THEOREM TypeCorrect == Spec => []TypeOK
<1>1. Reading => TypeOK
  BY DEF Reading
<1> QED
  BY <1>1, ReadingAlways, PTL

\* In whatever order the files are read, a read that nobody makes while starting, or about to
\* become a Node, is in the audit (the pending sets, the reads held back, the replay).
THEOREM ReadsKept == Spec => []FileReadsKept
  BY ReadingKept, ReadingAlways, PTL
-----------------------------------------------------------------------------
(* The lines as a history of the calls.                                    *)

\* The program that the i-th line of the file f executes has neither told nor executed another
\* at time t.
Since(f, i, t) ==
    /\ f[i].call = "exec" /\ f[i].n < t
    /\ \A j \in (i + 1)..Len(f) : f[j].call \in {"exec", "marker"} => t <= f[j].n

\* It has executed no other.
Within(f, i, t) ==
    /\ f[i].call = "exec" /\ f[i].n < t
    /\ \A j \in (i + 1)..Len(f) : f[j].call = "exec" => t <= f[j].n

\* The thread c was born, as the file f of its process says, while that started, and at time t
\* the process starts still.
BornIn(f, c, t) ==
    \E i \in 1..Len(f) :
        /\ f[i].call = "thread" /\ f[i].child = c /\ f[i].startup /\ f[i].n < t
        /\ \A j \in (i + 1)..Len(f) : f[j].call \in {"exec", "marker"} => t <= f[j].n

\* A time is of one call, whose line strace, the shim or both have.
NumberInv ==
    /\ \A l \in Lines : l.n \in 1..calls
    /\ \A l, m \in Lines : l.n = m.n => l = m
    /\ \A k, m \in 1..Len(shim) : k < m => shim[k].n < shim[m].n
    /\ \A p \in Pids : \A i \in 1..Len(file[p]) : file[p][i].call = "marker" =>
           \E k \in 1..Len(shim) : shim[k] = file[p][i]

\* Every process but the root is born once, before its first line.
OriginInv ==
    /\ \A p \in Pids : p \in live \/ leader[p] # p => p = Root \/ \E b \in Births : b.child = p
    /\ \A l \in Lines : l.pid = Root \/ \E b \in Births : b.child = l.pid /\ b.n < l.n
    /\ \A b, d \in Births : b.child = d.child => b = d

\* The shim only names processes.
NamedInv == \A k \in 1..Len(shim) : leader[shim[k].pid] = shim[k].pid

\* Who starts has executed something and not told since; a program called node starts.
StartupInv ==
    /\ \A l \in Lines : leader[l.pid] = l.pid =>
           /\ l.startup => \E i \in 1..Len(file[l.pid]) : Since(file[l.pid], i, l.n)
           /\ \A i \in 1..Len(file[l.pid]) :
                  Since(file[l.pid], i, l.n) /\ file[l.pid][i].node => l.startup
           /\ l.call = "marker" => l.startup
           /\ l.call \in {"exec", "clone"} => ~l.startup
    /\ \A p \in Pids : leader[p] = p =>
           /\ image[p] = "starting" => \E i \in 1..Len(file[p]) : Since(file[p], i, calls + 1)
           /\ \A i \in 1..Len(file[p]) :
                  Since(file[p], i, calls + 1) /\ file[p][i].node => image[p] = "starting"

\* A program starts from its first to its last call before it tells or executes another, or not
\* at all.
SameInv ==
    \A p \in Pids : leader[p] = p => \A i \in 1..Len(file[p]) :
        /\ \A l, m \in Lines : /\ l.pid = p /\ m.pid = p
                               /\ Since(file[p], i, l.n) /\ Since(file[p], i, m.n)
                               => l.startup = m.startup
        /\ \A l \in Lines : l.pid = p /\ Since(file[p], i, l.n) /\ Since(file[p], i, calls + 1)
                               => l.startup = (image[p] = "starting")

\* The root is a client, and so is whoever executes one.
ClientInv ==
    /\ client[Root]
    /\ \A p \in Pids : \A i \in 1..Len(file[p]) :
           Within(file[p], i, calls + 1) /\ file[p][i].client => client[p]
    /\ \A l \in Lines : l.call = "env_read" =>
           /\ l.pid = Root => l.client
           /\ \A i \in 1..Len(file[l.pid]) :
                  Within(file[l.pid], i, l.n) /\ file[l.pid][i].client => l.client

\* A thread that acts while its process starts was born since that began.
ThreadStartInv ==
    /\ \A c \in live : leader[c] # c /\ image[leader[c]] = "starting"
                           => BornIn(file[leader[c]], c, calls + 1)
    /\ \A l \in Lines : leader[l.pid] # l.pid /\ l.startup
                           => BornIn(file[leader[l.pid]], l.pid, l.n)

\* An exit is the last call.
ExitInv ==
    \A p \in Pids : \A j \in 1..Len(file[p]) : file[p][j].call = "exit" =>
        \A l \in Lines : l.pid = p => l.n <= file[p][j].n

HistoryInv ==
    /\ NumberInv /\ OriginInv /\ NamedInv /\ StartupInv /\ SameInv /\ ClientInv /\ ThreadStartInv
    /\ ExitInv

-----------------------------------------------------------------------------
(* The history grows by the call.                                          *)

\* What a call adds to the lines; those there were are earlier.
Adds(p, l) ==
    /\ p \in Pids /\ p \in live /\ l \in Line /\ l.pid = p /\ l.n = calls + 1 /\ calls' = calls + 1
    /\ calls \in Nat
    /\ Lines' = Lines \cup {l} /\ Births' = Births \cup {x \in {l} : l.child # None}
    /\ \A m \in Lines : m.n \in 1..calls
    /\ \A q \in Pids : \A i \in 1..Len(file[q]) : file[q][i] \in Lines /\ file[q][i].pid = q

LEMMA LinesOf ==
    ASSUME NEW f, NEW s
    PROVE  \A l : l \in (UNION {{f[p][i] : i \in DOMAIN f[p]} : p \in Pids}) \cup {s[k] : k \in DOMAIN s}
                  <=> \/ \E p \in Pids : \E i \in DOMAIN f[p] : l = f[p][i]
                      \/ \E k \in DOMAIN s : l = s[k]
<1> DEFINE L(p) == {f[p][i] : i \in DOMAIN f[p]}
           F == {L(p) : p \in Pids}
           T == {s[k] : k \in DOMAIN s}
<1> SUFFICES ASSUME NEW l
             PROVE  l \in (UNION F) \cup T <=> \/ \E p \in Pids : \E i \in DOMAIN f[p] : l = f[p][i]
                                               \/ \E k \in DOMAIN s : l = s[k]
  OBVIOUS
<1>1. l \in UNION F <=> \E p \in Pids : l \in L(p)
  <2> HIDE DEF L
  <2> QED OBVIOUS
<1>2. \A p \in Pids : l \in L(p) <=> \E i \in DOMAIN f[p] : l = f[p][i]
  OBVIOUS
<1>3. l \in T <=> \E k \in DOMAIN s : l = s[k]
  OBVIOUS
<1>4. l \in (UNION F) \cup T <=> l \in UNION F \/ l \in T
  <2> HIDE DEF F, T
  <2> QED OBVIOUS
<1> QED
  BY <1>1, <1>2, <1>3, <1>4

LEMMA WritesAdds ==
    ASSUME TypeOK, KernelInv, NumberInv, NEW p \in Pids, NEW l, Writes(p, l)
    PROVE  Adds(p, l)
<1>1. /\ l \in Line /\ l.pid = p /\ l.n = calls + 1 /\ calls' = calls + 1 /\ p \in live
      /\ file' = [file EXCEPT ![p] = Append(@, l)]
      /\ shim' = IF l.call = "marker" THEN Append(shim, l) ELSE shim
  BY DEF Writes
<1>2. /\ \A q \in Pids : file[q] \in Seq(Line) /\ DOMAIN file[q] = 1..Len(file[q])
      /\ shim \in Seq(Line) /\ DOMAIN shim = 1..Len(shim) /\ Len(shim) \in Nat /\ Len(file[p]) \in Nat
  BY DEF TypeOK
<1>3. /\ \A q \in Pids \ {p} : file'[q] = file[q]
      /\ DOMAIN file'[p] = 1..(Len(file[p]) + 1)
      /\ \A i \in 1..Len(file[p]) : file'[p][i] = file[p][i]
      /\ file'[p][Len(file[p]) + 1] = l
  <2>1. file'[p] = Append(file[p], l) /\ \A q \in Pids \ {p} : file'[q] = file[q]
    BY <1>1 DEF TypeOK
  <2> QED BY <1>1, <1>2, <2>1
<1>4. \A m : (\E q \in Pids : \E i \in DOMAIN file'[q] : m = file'[q][i])
             <=> (\E q \in Pids : \E i \in DOMAIN file[q] : m = file[q][i]) \/ m = l
  <2> SUFFICES ASSUME NEW m
               PROVE  (\E q \in Pids : \E i \in DOMAIN file'[q] : m = file'[q][i])
                      <=> (\E q \in Pids : \E i \in DOMAIN file[q] : m = file[q][i]) \/ m = l
    OBVIOUS
  <2>1. ASSUME NEW q \in Pids, NEW i \in DOMAIN file'[q], m = file'[q][i]
        PROVE  (\E r \in Pids : \E j \in DOMAIN file[r] : m = file[r][j]) \/ m = l
    <3>1. CASE q # p
      BY <1>3, <2>1, <3>1
    <3>2. CASE q = p
      <4>1. i \in 1..Len(file[p]) \/ i = Len(file[p]) + 1
        BY <1>2, <1>3, <2>1, <3>2
      <4> QED BY <1>2, <1>3, <2>1, <3>2, <4>1
    <3> QED BY <3>1, <3>2
  <2>2. ASSUME NEW q \in Pids, NEW i \in DOMAIN file[q], m = file[q][i]
        PROVE  \E r \in Pids : \E j \in DOMAIN file'[r] : m = file'[r][j]
    <3>1. CASE q # p
      BY <1>3, <2>2, <3>1
    <3>2. CASE q = p
      <4>1. i \in 1..Len(file[p]) /\ i \in DOMAIN file'[p]
        BY <1>2, <1>3, <2>2, <3>2
      <4> QED BY <1>3, <2>2, <3>2, <4>1
    <3> QED BY <3>1, <3>2
  <2>3. Len(file[p]) + 1 \in DOMAIN file'[p]
    BY <1>2, <1>3
  <2> QED BY <1>3, <2>1, <2>2, <2>3
<1>5. \A m : (\E k \in DOMAIN shim' : m = shim'[k]) => (\E k \in DOMAIN shim : m = shim[k]) \/ m = l
  BY <1>1, <1>2
<1>6. \A m : (\E k \in DOMAIN shim : m = shim[k]) => \E k \in DOMAIN shim' : m = shim'[k]
  BY <1>1, <1>2
<1>7. \A m : m \in Lines' <=> m \in Lines \/ m = l
  <2>1. \A m : m \in Lines' <=> \/ \E q \in Pids : \E i \in DOMAIN file'[q] : m = file'[q][i]
                                \/ \E k \in DOMAIN shim' : m = shim'[k]
    BY LinesOf DEF Lines
  <2>2. \A m : m \in Lines <=> \/ \E q \in Pids : \E i \in DOMAIN file[q] : m = file[q][i]
                               \/ \E k \in DOMAIN shim : m = shim[k]
    BY LinesOf DEF Lines
  <2> QED BY <1>4, <1>5, <1>6, <2>1, <2>2
<1>8. Births' = Births \cup {x \in {l} : l.child # None}
  BY <1>7 DEF Births
<1>9. \A q \in Pids : \A i \in 1..Len(file[q]) : file[q][i] \in Lines /\ file[q][i].pid = q
  BY LineFacts
<1> QED
  BY <1>1, <1>7, <1>8, <1>9 DEF Adds, NumberInv, TypeOK

LEMMA SpeaksAdds ==
    ASSUME TypeOK, KernelInv, NumberInv, NEW p \in Pids, NEW l, Speaks(p, l)
    PROVE  Adds(p, l)
<1>1. /\ l \in Line /\ l.pid = p /\ l.n = calls + 1 /\ calls' = calls + 1 /\ p \in live
      /\ file' = file /\ shim' = Append(shim, l) /\ l.child = None
  BY DEF Speaks
<1>2. shim \in Seq(Line) /\ DOMAIN shim = 1..Len(shim) /\ Len(shim) \in Nat
  BY DEF TypeOK
<1>3. /\ DOMAIN shim' = 1..(Len(shim) + 1) /\ shim'[Len(shim) + 1] = l
      /\ \A k \in 1..Len(shim) : shim'[k] = shim[k]
  BY <1>1, <1>2
<1>4. \A k \in 1..(Len(shim) + 1) : k \in 1..Len(shim) \/ k = Len(shim) + 1
  BY <1>2
<1>5. \A m : (\E k \in DOMAIN shim' : m = shim'[k]) <=> (\E k \in DOMAIN shim : m = shim[k]) \/ m = l
  BY <1>2, <1>3, <1>4
<1>6. \A m : m \in Lines' <=> m \in Lines \/ m = l
  BY <1>1, <1>5, LinesOf DEF Lines
<1>7. Births' = Births \cup {x \in {l} : l.child # None}
  BY <1>6 DEF Births
<1>8. \A q \in Pids : \A i \in 1..Len(file[q]) : file[q][i] \in Lines /\ file[q][i].pid = q
  BY LineFacts
<1>9. Lines' = Lines \cup {l}
  BY <1>6
<1>10. calls \in Nat
  BY DEF TypeOK
<1>11. \A m \in Lines : m.n \in 1..calls
  BY DEF NumberInv
<1> QED
  BY <1>1, <1>7, <1>8, <1>9, <1>10, <1>11 DEF Adds

\* A sequence of lines and one more, later than all others.
LEMMA SinceAppended ==
    ASSUME NEW f \in Seq(Line), NEW l \in Line, NEW n \in Nat, l.n = n + 1,
           \A i \in 1..Len(f) : f[i].n \in 1..n
    PROVE  LET g == Append(f, l)
           IN /\ \A t \in 1..(n + 1) : /\ ~Since(g, Len(f) + 1, t) /\ ~Within(g, Len(f) + 1, t)
                                       /\ \A i \in 1..Len(f) : /\ Since(g, i, t) <=> Since(f, i, t)
                                                               /\ Within(g, i, t) <=> Within(f, i, t)
              /\ \A i \in 1..Len(f) :
                    /\ Since(g, i, n + 2) <=> Since(f, i, n + 1) /\ l.call \notin {"exec", "marker"}
                    /\ Within(g, i, n + 2) <=> Within(f, i, n + 1) /\ l.call # "exec"
              /\ Since(g, Len(f) + 1, n + 2) <=> l.call = "exec"
              /\ Within(g, Len(f) + 1, n + 2) <=> l.call = "exec"
              /\ \A c, t : t \in 1..(n + 1) /\ BornIn(f, c, t) => BornIn(g, c, t)
              /\ \A c : l.call \notin {"exec", "marker"} /\ BornIn(f, c, n + 1) => BornIn(g, c, n + 2)
              /\ l.call = "thread" /\ l.startup => BornIn(g, l.child, n + 2)
<1> DEFINE g == Append(f, l)
           k == Len(f)
<1>1. /\ k \in Nat /\ Len(g) = k + 1 /\ g[k + 1] = l /\ \A i \in 1..k : g[i] = f[i]
  OBVIOUS
<1>2. \A i \in 1..k : \A j \in (i + 1)..(k + 1) : j \in (i + 1)..k \/ j = k + 1
  BY <1>1
<1>3. \A i \in 1..k : /\ \A j \in (i + 1)..k : j \in (i + 1)..(k + 1) /\ j \in 1..k
                      /\ k + 1 \in (i + 1)..(k + 1)
  BY <1>1
<1>4. ((k + 1) + 1)..(k + 1) = {}
  BY <1>1
<1> HIDE DEF g, k
<1>5. ASSUME NEW t \in 1..(n + 1)
      PROVE  /\ ~Since(g, k + 1, t) /\ ~Within(g, k + 1, t)
             /\ \A i \in 1..k : /\ Since(g, i, t) <=> Since(f, i, t)
                                /\ Within(g, i, t) <=> Within(f, i, t)
  <2>1. ~Since(g, k + 1, t) /\ ~Within(g, k + 1, t)
    BY <1>1 DEF Since, Within
  <2>2. t \in Nat /\ t <= n + 1 /\ g[k + 1].n = n + 1
    BY <1>1
  <2>3. ASSUME NEW i \in 1..k
        PROVE  Since(g, i, t) <=> Since(f, i, t)
    <3>1. g[i] = f[i] /\ \A j \in (i + 1)..k : g[j] = f[j]
      BY <1>1, <1>3
    <3>2. (\A j \in (i + 1)..(k + 1) : g[j].call \in {"exec", "marker"} => t <= g[j].n)
          <=> (\A j \in (i + 1)..k : f[j].call \in {"exec", "marker"} => t <= f[j].n)
      BY <1>2, <1>3, <2>2, <3>1
    <3> QED BY <1>1, <3>1, <3>2 DEF Since, k
  <2>4. ASSUME NEW i \in 1..k
        PROVE  Within(g, i, t) <=> Within(f, i, t)
    <3>1. g[i] = f[i] /\ \A j \in (i + 1)..k : g[j] = f[j]
      BY <1>1, <1>3
    <3>2. (\A j \in (i + 1)..(k + 1) : g[j].call = "exec" => t <= g[j].n)
          <=> (\A j \in (i + 1)..k : f[j].call = "exec" => t <= f[j].n)
      BY <1>2, <1>3, <2>2, <3>1
    <3> QED BY <1>1, <3>1, <3>2 DEF Within, k
  <2> QED BY <2>1, <2>3, <2>4
<1>6. ASSUME NEW i \in 1..k
      PROVE  /\ Since(g, i, n + 2) <=> Since(f, i, n + 1) /\ l.call \notin {"exec", "marker"}
             /\ Within(g, i, n + 2) <=> Within(f, i, n + 1) /\ l.call # "exec"
  <2>0. \A j \in (i + 1)..k : f[j].n < n + 1 /\ f[j].n < n + 2
    BY <1>3 DEF k
  <2>1. f[i].n < n + 1 /\ f[i].n < n + 2 /\ g[i] = f[i] /\ g[k + 1].n < n + 2
    BY <1>1 DEF k
  <2>2. Since(g, i, n + 2) => Since(f, i, n + 1) /\ l.call \notin {"exec", "marker"}
    <3> SUFFICES ASSUME Since(g, i, n + 2)
                 PROVE  Since(f, i, n + 1) /\ l.call \notin {"exec", "marker"}
      OBVIOUS
    <3>1. \A j \in (i + 1)..(k + 1) : g[j].call \in {"exec", "marker"} => n + 2 <= g[j].n
      BY <1>1 DEF Since
    <3>2. l.call \notin {"exec", "marker"}
      BY <1>1, <1>3, <3>1
    <3>3. \A j \in (i + 1)..k : f[j].call \notin {"exec", "marker"}
      <4> TAKE j \in (i + 1)..k
      <4>1. g[j] = f[j] /\ j \in (i + 1)..(k + 1) /\ f[j].n \in 1..n
        BY <1>1, <1>3 DEF k
      <4> QED BY <3>1, <4>1
    <3> QED BY <2>1, <3>2, <3>3 DEF Since, k
  <2>3. Since(f, i, n + 1) /\ l.call \notin {"exec", "marker"} => Since(g, i, n + 2)
    <3> SUFFICES ASSUME Since(f, i, n + 1), l.call \notin {"exec", "marker"}
                 PROVE  Since(g, i, n + 2)
      OBVIOUS
    <3>1. \A j \in (i + 1)..k : f[j].call \notin {"exec", "marker"}
      <4> TAKE j \in (i + 1)..k
      <4>1. f[j].n \in 1..n
        BY <1>3 DEF k
      <4> QED BY <4>1 DEF Since, k
    <3> QED BY <1>1, <1>2, <1>3, <2>1, <3>1 DEF Since
  <2>4. Within(g, i, n + 2) => Within(f, i, n + 1) /\ l.call # "exec"
    <3> SUFFICES ASSUME Within(g, i, n + 2)
                 PROVE  Within(f, i, n + 1) /\ l.call # "exec"
      OBVIOUS
    <3>1. \A j \in (i + 1)..(k + 1) : g[j].call = "exec" => n + 2 <= g[j].n
      BY <1>1 DEF Within
    <3>2. l.call # "exec"
      BY <1>1, <1>3, <3>1
    <3>3. \A j \in (i + 1)..k : f[j].call # "exec"
      <4> TAKE j \in (i + 1)..k
      <4>1. g[j] = f[j] /\ j \in (i + 1)..(k + 1) /\ f[j].n \in 1..n
        BY <1>1, <1>3 DEF k
      <4> QED BY <3>1, <4>1
    <3> QED BY <2>1, <3>2, <3>3 DEF Within, k
  <2>5. Within(f, i, n + 1) /\ l.call # "exec" => Within(g, i, n + 2)
    <3> SUFFICES ASSUME Within(f, i, n + 1), l.call # "exec"
                 PROVE  Within(g, i, n + 2)
      OBVIOUS
    <3>1. \A j \in (i + 1)..k : f[j].call # "exec"
      <4> TAKE j \in (i + 1)..k
      <4>1. f[j].n \in 1..n
        BY <1>3 DEF k
      <4> QED BY <4>1 DEF Within, k
    <3> QED BY <1>1, <1>2, <1>3, <2>1, <3>1 DEF Within
  <2> QED BY <2>2, <2>3, <2>4, <2>5
<1>7. /\ Since(g, k + 1, n + 2) <=> l.call = "exec"
      /\ Within(g, k + 1, n + 2) <=> l.call = "exec"
  BY <1>1, <1>4 DEF Since, Within
<1>8. ASSUME NEW c, NEW t, t \in 1..(n + 1), BornIn(f, c, t) PROVE BornIn(g, c, t)
  <2>1. PICK i \in 1..k : /\ f[i].call = "thread" /\ f[i].child = c /\ f[i].startup /\ f[i].n < t
                          /\ \A j \in (i + 1)..k : f[j].call \in {"exec", "marker"} => t <= f[j].n
    BY <1>8 DEF BornIn, k
  <2>2. i \in 1..(k + 1) /\ g[i] = f[i] /\ \A j \in (i + 1)..k : g[j] = f[j]
    BY <1>1, <1>3
  <2>3. t <= g[k + 1].n
    BY <1>1, <1>8
  <2>4. \A j \in (i + 1)..(k + 1) : g[j].call \in {"exec", "marker"} => t <= g[j].n
    BY <1>2, <2>1, <2>2, <2>3
  <2> QED BY <1>1, <2>1, <2>2, <2>4 DEF BornIn
<1>9. ASSUME NEW c, l.call \notin {"exec", "marker"}, BornIn(f, c, n + 1) PROVE BornIn(g, c, n + 2)
  <2>1. PICK i \in 1..k : /\ f[i].call = "thread" /\ f[i].child = c /\ f[i].startup /\ f[i].n < n + 1
                          /\ \A j \in (i + 1)..k : f[j].call \in {"exec", "marker"} => n + 1 <= f[j].n
    BY <1>9 DEF BornIn, k
  <2>2. i \in 1..(k + 1) /\ f[i].n < n + 2
    BY <1>1, <2>1 DEF k
  <2>3. \A j \in (i + 1)..k : f[j].call \notin {"exec", "marker"}
    <3> TAKE j \in (i + 1)..k
    <3>1. f[j].n \in 1..n
      BY <1>3 DEF k
    <3> QED BY <2>1, <3>1
  <2>4. g[i] = f[i] /\ \A j \in (i + 1)..(k + 1) : g[j].call \notin {"exec", "marker"}
    <3>1. \A j \in (i + 1)..k : g[j] = f[j]
      BY <1>1, <1>3
    <3> QED BY <1>1, <1>2, <1>9, <2>3, <3>1
  <2> QED BY <1>1, <2>1, <2>2, <2>4 DEF BornIn
<1>10. ASSUME l.call = "thread", l.startup PROVE BornIn(g, l.child, n + 2)
  <2>1. k + 1 \in 1..(k + 1)
    BY <1>1
  <2> QED BY <1>1, <1>4, <1>10, <2>1 DEF BornIn
<1> QED
  BY <1>5, <1>6, <1>7, <1>8, <1>9, <1>10 DEF g, k

LEMMA SinceLater ==
    ASSUME NEW f \in Seq(Line), NEW n \in Nat, \A i \in 1..Len(f) : f[i].n \in 1..n
    PROVE  /\ \A i \in 1..Len(f) : /\ Since(f, i, n + 2) <=> Since(f, i, n + 1)
                                   /\ Within(f, i, n + 2) <=> Within(f, i, n + 1)
           /\ \A c : BornIn(f, c, n + 1) => BornIn(f, c, n + 2)
<1>1. Len(f) \in Nat
  OBVIOUS
<1>2. \A i \in 1..Len(f) : /\ f[i].n < n + 1 /\ f[i].n < n + 2
                           /\ ~(n + 1 <= f[i].n) /\ ~(n + 2 <= f[i].n)
  OBVIOUS
<1>3. \A i \in 1..Len(f) : \A j \in (i + 1)..Len(f) : j \in 1..Len(f)
  BY <1>1
<1> QED
  BY <1>2, <1>3 DEF Since, Within, BornIn

\* Who is born has no line and no earlier birth.
LEMMA ChildNew ==
    ASSUME TypeOK, KernelInv, OriginInv, NEW p \in Pids, NEW l, Writes(p, l), l.child # None
    PROVE  /\ l.child \in Pids \ {p, Root} /\ l.child \notin live /\ file[l.child] = <<>>
           /\ \A b \in Births : b.child # l.child
           /\ \A m \in Lines : m.pid # l.child
<1>1. /\ l.child \in Pids \ {p, Root} /\ l.child \notin live /\ file[l.child] = <<>>
      /\ \A q \in Pids : \A i \in DOMAIN file[q] : file[q][i].child # l.child
  BY DEF Writes
<1>2. ASSUME NEW b \in Births PROVE b.child # l.child
  <2>1. b \in Lines /\ b.child # None
    BY DEF Births
  <2>2. ~\E k \in DOMAIN shim : b = shim[k]
    <3>1. DOMAIN shim = 1..Len(shim)
      BY DEF TypeOK
    <3> QED BY <2>1, <3>1 DEF KernelInv, ShimInv
  <2>3. \E q \in Pids : \E i \in DOMAIN file[q] : b = file[q][i]
    BY <2>1, <2>2, LinesAre
  <2> QED BY <1>1, <2>3
<1>3. ASSUME NEW m \in Lines PROVE m.pid # l.child
  BY <1>1, <1>2 DEF OriginInv
<1> QED
  BY <1>1, <1>2, <1>3

LEMMA WritesNumber ==
    ASSUME TypeOK, KernelInv, HistoryInv, NEW p \in Pids, NEW l, Writes(p, l)
    PROVE  NumberInv'
<1>1. Adds(p, l) /\ NumberInv
  BY WritesAdds DEF HistoryInv
<1>2. /\ \A m \in Lines' : m.n \in 1..calls'
      /\ \A k, m \in Lines' : k.n = m.n => k = m
  BY <1>1 DEF Adds, NumberInv
<1>3. /\ shim \in Seq(Line) /\ Len(shim) \in Nat /\ l \in Line
      /\ shim' = IF l.call = "marker" THEN Append(shim, l) ELSE shim
      /\ l.n = calls + 1 /\ calls \in Nat
  BY DEF TypeOK, Writes
<1>4. \A k \in 1..Len(shim) : shim[k].n \in 1..calls
  <2>1. \A k \in 1..Len(shim) : shim[k] \in Lines
    BY <1>3, LinesAre
  <2> QED BY <1>1, <2>1 DEF NumberInv
<1>5. \A k, m \in 1..Len(shim') : k < m => shim'[k].n < shim'[m].n
  <2>1. CASE l.call # "marker"
    BY <1>1, <1>3, <2>1 DEF NumberInv
  <2>2. CASE l.call = "marker"
    <3>1. /\ Len(shim') = Len(shim) + 1 /\ shim'[Len(shim) + 1] = l
          /\ \A k \in 1..Len(shim) : shim'[k] = shim[k]
      BY <1>3, <2>2
    <3>2. \A k, m \in 1..(Len(shim) + 1) : k < m => /\ k \in 1..Len(shim)
                                                   /\ (m \in 1..Len(shim) \/ m = Len(shim) + 1)
      BY <1>3
    <3>3. \A k \in 1..Len(shim) : shim[k].n < l.n
      BY <1>3, <1>4
    <3> QED BY <1>1, <3>1, <3>2, <3>3 DEF NumberInv
  <2> QED BY <2>1, <2>2
<1>6. ASSUME NEW q \in Pids, NEW i \in 1..Len(file'[q]), file'[q][i].call = "marker"
      PROVE  \E k \in 1..Len(shim') : shim'[k] = file'[q][i]
  <2>1. \A m : (\E k \in 1..Len(shim) : shim[k] = m) => \E k \in 1..Len(shim') : shim'[k] = m
    <3>1. CASE l.call # "marker"
      BY <1>3, <3>1
    <3>2. CASE l.call = "marker"
      <4>1. Len(shim') = Len(shim) + 1 /\ \A k \in 1..Len(shim) : shim'[k] = shim[k]
        BY <1>3, <3>2
      <4>2. \A k \in 1..Len(shim) : k \in 1..(Len(shim) + 1)
        BY <1>3
      <4> QED BY <4>1, <4>2
    <3> QED BY <3>1, <3>2
  <2>2. l.call = "marker" => \E k \in 1..Len(shim') : shim'[k] = l
    <3> SUFFICES ASSUME l.call = "marker" PROVE \E k \in 1..Len(shim') : shim'[k] = l
      OBVIOUS
    <3>1. Len(shim') = Len(shim) + 1 /\ shim'[Len(shim) + 1] = l
      BY <1>3
    <3>2. Len(shim) + 1 \in 1..(Len(shim) + 1)
      BY <1>3
    <3> QED BY <3>1, <3>2
  <2>3. (\E j \in 1..Len(file[q]) : file'[q][i] = file[q][j]) \/ file'[q][i] = l
    <3>1. CASE q # p
      BY <1>6, <3>1, Grown
    <3>2. CASE q = p
      <4>1. PICK n \in Nat : n = Len(file[p])
        BY Grown
      <4>2. i \in 1..n \/ i = n + 1
        BY <1>6, <3>2, <4>1, Grown
      <4> QED BY <3>2, <4>1, <4>2, Grown
    <3> QED BY <3>1, <3>2
  <2> QED BY ZenonT(60), <1>1, <1>6, <2>1, <2>2, <2>3 DEF NumberInv
<1> QED
  BY <1>2, <1>5, <1>6 DEF NumberInv

LEMMA WritesOrigin ==
    ASSUME TypeOK, KernelInv, HistoryInv, NEW p \in Pids, NEW l, Writes(p, l)
    PROVE  OriginInv' /\ NamedInv'
<1>1. Adds(p, l) /\ NumberInv /\ OriginInv /\ NamedInv
  BY WritesAdds DEF HistoryInv
<1>2. /\ live' \subseteq live \cup (Pids \cap {l.child})
      /\ leader' = IF l.call = "thread" THEN [leader EXCEPT ![l.child] = p] ELSE leader
      /\ l.call = "thread" => l.child # None
      /\ l.call = "marker" => leader[p] = p
      /\ shim' = IF l.call = "marker" THEN Append(shim, l) ELSE shim
      /\ l.pid = p /\ l.n = calls + 1
  BY DEF Writes
<1>3. None \notin Pids
  BY RootAssumption
<1>4. ASSUME NEW q \in Pids, q \in live' \/ leader'[q] # q
      PROVE  q = Root \/ \E b \in Births' : b.child = q
  <2>1. CASE q = l.child
    BY <1>1, <1>3, <2>1 DEF Adds
  <2>2. CASE q # l.child
    <3>1. q \in live \/ leader[q] # q
      BY <1>2, <1>4, <2>2 DEF TypeOK
    <3> QED BY <1>1, <3>1 DEF Adds, OriginInv
  <2> QED BY <2>1, <2>2
<1>5. \A m \in Lines' : m.pid = Root \/ \E b \in Births' : b.child = m.pid /\ b.n < m.n
  <2>1. p = Root \/ \E b \in Births : b.child = p /\ b.n < l.n
    <3>1. \A b \in Births : b.n < l.n
      BY <1>1 DEF Adds, Births
    <3> QED BY <1>1, <3>1 DEF Adds, OriginInv
  <2> QED BY <1>1, <1>2, <2>1 DEF Adds, OriginInv
<1>6. \A b, d \in Births' : b.child = d.child => b = d
  BY <1>1, ChildNew DEF Adds, OriginInv
<1>7. ASSUME NEW q \in Pids, q = p \/ \E m \in Lines : m.pid = q
      PROVE  leader'[q] = leader[q]
  <2>1. l.call = "thread" => q # l.child
    BY <1>1, <1>2, <1>7, ChildNew
  <2> QED BY <1>2, <2>1 DEF TypeOK
<1>8. NamedInv'
  <2>1. shim \in Seq(Line) /\ DOMAIN shim = 1..Len(shim) /\ Len(shim) \in Nat /\ l \in Line
    BY <1>1 DEF TypeOK, Adds
  <2>2. \A k \in 1..Len(shim) : /\ shim[k] \in Lines /\ shim[k].pid \in Pids
                                /\ leader'[shim[k].pid] = shim[k].pid
    <3>1. \A k \in 1..Len(shim) : shim[k] \in Lines
      BY <2>1, LinesAre
    <3> QED BY <1>1, <1>7, <3>1, LineFacts DEF NamedInv
  <2>3. CASE l.call # "marker"
    BY <1>2, <2>2, <2>3 DEF NamedInv
  <2>4. CASE l.call = "marker"
    <3>1. /\ Len(shim') = Len(shim) + 1 /\ shim'[Len(shim) + 1] = l
          /\ \A k \in 1..Len(shim) : shim'[k] = shim[k]
          /\ \A k \in 1..(Len(shim) + 1) : k \in 1..Len(shim) \/ k = Len(shim) + 1
      BY <1>2, <2>1, <2>4
    <3> QED BY <1>2, <1>7, <2>2, <2>4, <3>1 DEF NamedInv
  <2> QED BY <2>3, <2>4
<1> QED
  BY <1>4, <1>5, <1>6, <1>8 DEF OriginInv

\* What the file of a process says of its programs when p has called.
LEMMA SinceWrites ==
    ASSUME TypeOK, KernelInv, HistoryInv, NEW p \in Pids, NEW l, Writes(p, l)
    PROVE  /\ \A q \in Pids : \A t \in 1..(calls + 1) : \A i \in 1..Len(file'[q]) :
                 /\ Since(file'[q], i, t) <=> i \in 1..Len(file[q]) /\ Since(file[q], i, t)
                 /\ Within(file'[q], i, t) <=> i \in 1..Len(file[q]) /\ Within(file[q], i, t)
           /\ \A q \in Pids \ {p} : /\ file'[q] = file[q]
                 /\ \A i \in 1..Len(file[q]) :
                       /\ Since(file[q], i, calls + 2) <=> Since(file[q], i, calls + 1)
                       /\ Within(file[q], i, calls + 2) <=> Within(file[q], i, calls + 1)
                 /\ \A c : BornIn(file[q], c, calls + 1) => BornIn(file[q], c, calls + 2)
           /\ \A i \in 1..Len(file'[p]) :
                 /\ Since(file'[p], i, calls + 2) <=>
                       \/ i = Len(file'[p]) /\ l.call = "exec"
                       \/ /\ i \in 1..Len(file[p]) /\ Since(file[p], i, calls + 1)
                          /\ l.call \notin {"exec", "marker"}
                 /\ Within(file'[p], i, calls + 2) <=>
                       \/ i = Len(file'[p]) /\ l.call = "exec"
                       \/ i \in 1..Len(file[p]) /\ Within(file[p], i, calls + 1) /\ l.call # "exec"
           /\ Len(file'[p]) \in 1..Len(file'[p]) /\ file'[p][Len(file'[p])] = l
           /\ \A q \in Pids : \A i \in 1..Len(file[q]) :
                 i \in 1..Len(file'[q]) /\ file'[q][i] = file[q][i]
           /\ \A q \in Pids : \A c : \A t \in 1..(calls + 1) :
                 BornIn(file[q], c, t) => BornIn(file'[q], c, t)
           /\ \A c : l.call \notin {"exec", "marker"} /\ BornIn(file[p], c, calls + 1)
                        => BornIn(file'[p], c, calls + 2)
           /\ l.call = "thread" /\ l.startup => BornIn(file'[p], l.child, calls + 2)
<1>1. /\ l \in Line /\ l.n = calls + 1 /\ calls \in Nat
      /\ \A q \in Pids : file[q] \in Seq(Line) /\ \A i \in 1..Len(file[q]) : file[q][i].n \in 1..calls
  <2>1. l \in Line /\ l.n = calls + 1
    BY DEF Writes
  <2>2. calls \in Nat /\ \A q \in Pids : file[q] \in Seq(Line)
    BY DEF TypeOK
  <2>3. \A q \in Pids : \A i \in 1..Len(file[q]) : file[q][i].n \in 1..calls
    BY DEF KernelInv, FileInv
  <2> QED BY <2>1, <2>2, <2>3
<1>2. /\ file'[p] = Append(file[p], l) /\ \A q \in Pids \ {p} : file'[q] = file[q]
  <2>1. file' = [file EXCEPT ![p] = Append(@, l)]
    BY DEF Writes
  <2> QED BY <2>1 DEF TypeOK
<1>3. PICK n \in Nat : n = Len(file[p])
  BY <1>1
<1>4. /\ Len(file'[p]) = n + 1 /\ file'[p][n + 1] = l /\ \A i \in 1..n : file'[p][i] = file[p][i]
  BY <1>1, <1>2, <1>3
<1>5. n + 1 \in 1..(n + 1) /\ \A i \in 1..(n + 1) : (i \in 1..n \/ i = n + 1) /\ (i \in 1..n => i # n + 1)
  OBVIOUS
<1>6. \A i \in 1..n : i \in 1..(n + 1)
  OBVIOUS
<1>7. \A q \in Pids : /\ \A i \in 1..Len(file[q]) :
                            /\ Since(file[q], i, calls + 2) <=> Since(file[q], i, calls + 1)
                            /\ Within(file[q], i, calls + 2) <=> Within(file[q], i, calls + 1)
                      /\ \A c : BornIn(file[q], c, calls + 1) => BornIn(file[q], c, calls + 2)
  BY <1>1, SinceLater
<1>8. PICK f \in Seq(Line) : f = file[p]
  BY <1>1
<1>9. PICK g : g = Append(f, l)
  OBVIOUS
<1>10. \A i \in 1..Len(f) : f[i].n \in 1..calls
  BY <1>1, <1>8
<1>11. /\ \A t \in 1..(calls + 1) : /\ ~Since(g, Len(f) + 1, t) /\ ~Within(g, Len(f) + 1, t)
                                    /\ \A i \in 1..Len(f) : /\ Since(g, i, t) <=> Since(f, i, t)
                                                            /\ Within(g, i, t) <=> Within(f, i, t)
       /\ \A i \in 1..Len(f) :
             /\ Since(g, i, calls + 2) <=> Since(f, i, calls + 1) /\ l.call \notin {"exec", "marker"}
             /\ Within(g, i, calls + 2) <=> Within(f, i, calls + 1) /\ l.call # "exec"
       /\ Since(g, Len(f) + 1, calls + 2) <=> l.call = "exec"
       /\ Within(g, Len(f) + 1, calls + 2) <=> l.call = "exec"
       /\ \A c, t : t \in 1..(calls + 1) /\ BornIn(f, c, t) => BornIn(g, c, t)
       /\ \A c : l.call \notin {"exec", "marker"} /\ BornIn(f, c, calls + 1) => BornIn(g, c, calls + 2)
       /\ l.call = "thread" /\ l.startup => BornIn(g, l.child, calls + 2)
  BY <1>1, <1>9, <1>10, SinceAppended
<1>12. file'[p] = g /\ file[p] = f /\ Len(f) = n
  BY <1>2, <1>3, <1>8, <1>9
<1> QED
  <2>1. \A q \in Pids : \A t \in 1..(calls + 1) : \A i \in 1..Len(file'[q]) :
                 /\ Since(file'[q], i, t) <=> i \in 1..Len(file[q]) /\ Since(file[q], i, t)
                 /\ Within(file'[q], i, t) <=> i \in 1..Len(file[q]) /\ Within(file[q], i, t)
    BY <1>2, <1>4, <1>5, <1>11, <1>12
  <2>2. \A i \in 1..Len(file'[p]) :
                 /\ Since(file'[p], i, calls + 2) <=>
                       \/ i = Len(file'[p]) /\ l.call = "exec"
                       \/ /\ i \in 1..Len(file[p]) /\ Since(file[p], i, calls + 1)
                          /\ l.call \notin {"exec", "marker"}
                 /\ Within(file'[p], i, calls + 2) <=>
                       \/ i = Len(file'[p]) /\ l.call = "exec"
                       \/ i \in 1..Len(file[p]) /\ Within(file[p], i, calls + 1) /\ l.call # "exec"
    BY <1>4, <1>5, <1>11, <1>12
  <2>3. \A q \in Pids : \A i \in 1..Len(file[q]) : i \in 1..Len(file'[q]) /\ file'[q][i] = file[q][i]
    BY <1>2, <1>4, <1>6, <1>12
  <2>4. \A q \in Pids : \A c : \A t \in 1..(calls + 1) : BornIn(file[q], c, t) => BornIn(file'[q], c, t)
    BY <1>2, <1>11, <1>12
  <2> QED BY <1>2, <1>4, <1>5, <1>7, <1>11, <1>12, <2>1, <2>2, <2>3, <2>4

-----------------------------------------------------------------------------
(* A call, whether strace or only the shim tells of it.                    *)

Acts(p, l) ==
    /\ Adds(p, l)
    /\ l.image = image[p] /\ l.startup = (image[leader[p]] = "starting")
    /\ l.call \notin {"read", "thread"} => leader[p] = p
    /\ l.call # "exec" => ~l.node /\ l.client = client[p]
    /\ l.call = "exec" => image[p] # "starting" /\ (l.node => image'[p] = "starting")
    /\ l.call = "clone" => image[p] # "starting"
    /\ l.call = "thread" => leader[p] = p /\ l.child # None
    /\ l.call = "marker" => image[p] = "starting" /\ image'[p] = "started"
    /\ l.call \notin {"exec", "marker"} => image'[p] = image[p]
    /\ l.call = "exec" => \A q \in Pids \ {p} : leader[q] = p => q \notin live'
    /\ l.child # None =>
           /\ l.child \in Pids \ {p, Root} /\ l.child \notin live /\ file[l.child] = <<>>
           /\ \A m \in Lines : m.pid # l.child
           /\ leader[l.child] = l.child
    /\ leader' = IF l.call = "thread" THEN [leader EXCEPT ![l.child] = p] ELSE leader
    /\ \A q \in Pids \ {p} :
           image'[q] = IF l.call = "thread" /\ q = l.child THEN "thread" ELSE image[q]
    /\ \A q \in Pids \ {p} : client'[q] = IF q = l.child THEN client[p] ELSE client[q]
    /\ l.call # "exec" => client'[p] = client[p]
    /\ l.call = "exec" => (p = Root => client'[p]) /\ (l.client => client'[p])
    /\ live' \subseteq live \cup (Pids \cap {l.child})

\* What the files say of the programs, and of the threads born while they start.
Tells(p, l) ==
    /\ \A q \in Pids : \A t \in 1..(calls + 1) : \A i \in 1..Len(file'[q]) :
          /\ Since(file'[q], i, t) <=> i \in 1..Len(file[q]) /\ Since(file[q], i, t)
          /\ Within(file'[q], i, t) <=> i \in 1..Len(file[q]) /\ Within(file[q], i, t)
    /\ \A q \in Pids : \A i \in 1..Len(file'[q]) :
          /\ Since(file'[q], i, calls' + 1) =>
                \/ q = p /\ l.call = "exec" /\ file'[q][i] = l
                \/ /\ i \in 1..Len(file[q]) /\ Since(file[q], i, calls + 1)
                   /\ q = p => l.call \notin {"exec", "marker"}
          /\ Within(file'[q], i, calls' + 1) =>
                \/ q = p /\ l.call = "exec" /\ file'[q][i] = l
                \/ /\ i \in 1..Len(file[q]) /\ Within(file[q], i, calls + 1)
                   /\ q = p => l.call # "exec"
    /\ \A q \in Pids : \A i \in 1..Len(file[q]) :
          /\ i \in 1..Len(file'[q]) /\ file'[q][i] = file[q][i]
          /\ Since(file[q], i, calls + 1) /\ (q = p => l.call \notin {"exec", "marker"})
                => Since(file'[q], i, calls' + 1)
    /\ l.call = "exec" => \E i \in 1..Len(file'[p]) : Since(file'[p], i, calls' + 1)
    /\ \A q \in Pids : \A i \in 1..Len(file'[q]) :
          i \notin 1..Len(file[q]) => q = p /\ file'[q][i] = l
    /\ \A q \in Pids : \A c : \A t \in 1..(calls + 1) :
          BornIn(file[q], c, t) => BornIn(file'[q], c, t)
    /\ \A q \in Pids : \A c : BornIn(file[q], c, calls + 1) /\ (q = p => l.call \notin {"exec", "marker"})
          => BornIn(file'[q], c, calls' + 1)
    /\ l.call = "thread" /\ l.startup => BornIn(file'[p], l.child, calls' + 1)

LEMMA WritesActs ==
    ASSUME TypeOK, KernelInv, HistoryInv, NEW p \in Pids, NEW l, Writes(p, l)
    PROVE  Acts(p, l)
<1>1. Adds(p, l) /\ OriginInv
  BY WritesAdds DEF HistoryInv
<1>2. l.child # None => /\ l.child \in Pids \ {p, Root} /\ l.child \notin live /\ file[l.child] = <<>>
                        /\ \A m \in Lines : m.pid # l.child
                        /\ leader[l.child] = l.child
  <2> SUFFICES ASSUME l.child # None
               PROVE  /\ l.child \in Pids \ {p, Root} /\ l.child \notin live /\ file[l.child] = <<>>
                      /\ \A m \in Lines : m.pid # l.child
                      /\ leader[l.child] = l.child
    OBVIOUS
  <2>1. /\ l.child \in Pids \ {p, Root} /\ l.child \notin live /\ file[l.child] = <<>>
        /\ \A b \in Births : b.child # l.child
        /\ \A m \in Lines : m.pid # l.child
    BY <1>1, ChildNew
  <2> QED BY <1>1, <2>1 DEF OriginInv
<1>3. l.call = "thread" => leader[p] = p /\ l.child # None
  BY DEF Writes, KernelInv, ThreadInv
<1> QED
  BY <1>1, <1>2, <1>3 DEF Writes, Acts

LEMMA WritesTells ==
    ASSUME TypeOK, KernelInv, HistoryInv, NEW p \in Pids, NEW l, Writes(p, l)
    PROVE  Tells(p, l)
<1>1. /\ \A q \in Pids : \A t \in 1..(calls + 1) : \A i \in 1..Len(file'[q]) :
            /\ Since(file'[q], i, t) <=> i \in 1..Len(file[q]) /\ Since(file[q], i, t)
            /\ Within(file'[q], i, t) <=> i \in 1..Len(file[q]) /\ Within(file[q], i, t)
      /\ \A q \in Pids \ {p} : /\ file'[q] = file[q]
            /\ \A i \in 1..Len(file[q]) :
                  /\ Since(file[q], i, calls + 2) <=> Since(file[q], i, calls + 1)
                  /\ Within(file[q], i, calls + 2) <=> Within(file[q], i, calls + 1)
            /\ \A c : BornIn(file[q], c, calls + 1) => BornIn(file[q], c, calls + 2)
      /\ \A i \in 1..Len(file'[p]) :
            /\ Since(file'[p], i, calls + 2) <=>
                  \/ i = Len(file'[p]) /\ l.call = "exec"
                  \/ /\ i \in 1..Len(file[p]) /\ Since(file[p], i, calls + 1)
                     /\ l.call \notin {"exec", "marker"}
            /\ Within(file'[p], i, calls + 2) <=>
                  \/ i = Len(file'[p]) /\ l.call = "exec"
                  \/ i \in 1..Len(file[p]) /\ Within(file[p], i, calls + 1) /\ l.call # "exec"
      /\ Len(file'[p]) \in 1..Len(file'[p]) /\ file'[p][Len(file'[p])] = l
      /\ \A q \in Pids : \A i \in 1..Len(file[q]) :
            i \in 1..Len(file'[q]) /\ file'[q][i] = file[q][i]
      /\ \A q \in Pids : \A c : \A t \in 1..(calls + 1) :
            BornIn(file[q], c, t) => BornIn(file'[q], c, t)
      /\ \A c : l.call \notin {"exec", "marker"} /\ BornIn(file[p], c, calls + 1)
                   => BornIn(file'[p], c, calls + 2)
      /\ l.call = "thread" /\ l.startup => BornIn(file'[p], l.child, calls + 2)
  BY SinceWrites
<1>2. calls' + 1 = calls + 2
  BY DEF Writes, TypeOK
<1>3. \A q \in Pids : \A i \in 1..Len(file'[q]) : i \notin 1..Len(file[q]) => q = p /\ file'[q][i] = l
  <2> SUFFICES ASSUME NEW q \in Pids, NEW i \in 1..Len(file'[q]), i \notin 1..Len(file[q])
               PROVE  q = p /\ file'[q][i] = l
    OBVIOUS
  <2>1. q = p
    BY <1>1
  <2>2. PICK n \in Nat : n = Len(file[p])
    BY Grown
  <2> QED BY <2>1, <2>2, Grown
<1>4. \A q \in Pids : \A i \in 1..Len(file'[q]) :
        /\ Since(file'[q], i, calls' + 1) =>
              \/ q = p /\ l.call = "exec" /\ file'[q][i] = l
              \/ /\ i \in 1..Len(file[q]) /\ Since(file[q], i, calls + 1)
                 /\ q = p => l.call \notin {"exec", "marker"}
        /\ Within(file'[q], i, calls' + 1) =>
              \/ q = p /\ l.call = "exec" /\ file'[q][i] = l
              \/ /\ i \in 1..Len(file[q]) /\ Within(file[q], i, calls + 1)
                 /\ q = p => l.call # "exec"
  <2> SUFFICES ASSUME NEW q \in Pids, NEW i \in 1..Len(file'[q])
               PROVE  /\ Since(file'[q], i, calls' + 1) =>
                            \/ q = p /\ l.call = "exec" /\ file'[q][i] = l
                            \/ /\ i \in 1..Len(file[q]) /\ Since(file[q], i, calls + 1)
                               /\ q = p => l.call \notin {"exec", "marker"}
                      /\ Within(file'[q], i, calls' + 1) =>
                            \/ q = p /\ l.call = "exec" /\ file'[q][i] = l
                            \/ /\ i \in 1..Len(file[q]) /\ Within(file[q], i, calls + 1)
                               /\ q = p => l.call # "exec"
    OBVIOUS
  <2>1. CASE q = p
    BY <1>1, <1>2, <2>1
  <2>2. CASE q # p
    BY <1>1, <1>2, <2>2
  <2> QED BY <2>1, <2>2
<1>5. \A q \in Pids : \A i \in 1..Len(file[q]) :
        Since(file[q], i, calls + 1) /\ (q = p => l.call \notin {"exec", "marker"})
           => Since(file'[q], i, calls' + 1)
  <2> SUFFICES ASSUME NEW q \in Pids, NEW i \in 1..Len(file[q]), Since(file[q], i, calls + 1),
                      q = p => l.call \notin {"exec", "marker"}
               PROVE  Since(file'[q], i, calls' + 1)
    OBVIOUS
  <2>1. CASE q = p
    BY <1>1, <1>2, <2>1
  <2>2. CASE q # p
    BY <1>1, <1>2, <2>2
  <2> QED BY <2>1, <2>2
<1>6. \A q \in Pids : \A c : BornIn(file[q], c, calls + 1) /\ (q = p => l.call \notin {"exec", "marker"})
        => BornIn(file'[q], c, calls' + 1)
  <2> SUFFICES ASSUME NEW q \in Pids, NEW c, BornIn(file[q], c, calls + 1),
                      q = p => l.call \notin {"exec", "marker"}
               PROVE  BornIn(file'[q], c, calls' + 1)
    OBVIOUS
  <2>1. CASE q = p
    BY <1>1, <1>2, <2>1
  <2>2. CASE q # p
    <3>1. q \in Pids \ {p}
      BY <2>2
    <3>2. file'[q] = file[q]
      BY <1>1, <3>1
    <3>3. calls \in Nat /\ file[q] \in Seq(Line) /\ \A i \in 1..Len(file[q]) : file[q][i].n \in 1..calls
      BY DEF TypeOK, KernelInv, FileInv
    <3>4. BornIn(file[q], c, calls + 2)
      BY <3>3, SinceLater
    <3> QED BY <1>2, <3>2, <3>4
  <2> QED BY <2>1, <2>2
<1>7. l.call = "exec" => \E i \in 1..Len(file'[p]) : Since(file'[p], i, calls' + 1)
  BY <1>1, <1>2
<1>8. l.call = "thread" /\ l.startup => BornIn(file'[p], l.child, calls' + 1)
  BY <1>1, <1>2
<1> QED
  BY <1>1, <1>3, <1>4, <1>5, <1>6, <1>7, <1>8 DEF Tells

LEMMA SpeaksActs ==
    ASSUME TypeOK, KernelInv, HistoryInv, NEW p \in Pids, NEW l, Speaks(p, l)
    PROVE  Acts(p, l) /\ Tells(p, l)
<1>1. Adds(p, l)
  BY SpeaksAdds DEF HistoryInv
<1>2. /\ l.image = image[p] /\ l.startup = (image[p] = "starting") /\ leader[p] = p
      /\ l.call = "env_read" /\ l.client = client[p] /\ ~l.node /\ l.child = None
      /\ UNCHANGED <<file, live, image, leader, client>> /\ calls' = calls + 1
  BY DEF Speaks
<1>3. None \notin Pids
  BY RootAssumption
<1>4. Acts(p, l)
  BY <1>1, <1>2, <1>3 DEF Acts
<1>5. calls \in Nat /\ calls' + 1 = calls + 2 /\ \A q \in Pids : file[q] \in Seq(Line)
  BY <1>2 DEF TypeOK
<1>6. \A q \in Pids : \A i \in 1..Len(file[q]) : file[q][i].n \in 1..calls
  BY DEF KernelInv, FileInv
<1>7. \A q \in Pids : /\ \A i \in 1..Len(file[q]) :
                            /\ Since(file[q], i, calls + 2) <=> Since(file[q], i, calls + 1)
                            /\ Within(file[q], i, calls + 2) <=> Within(file[q], i, calls + 1)
                      /\ \A c : BornIn(file[q], c, calls + 1) => BornIn(file[q], c, calls + 2)
  BY <1>5, <1>6, SinceLater
<1>8. Tells(p, l)
  BY <1>2, <1>5, <1>7 DEF Tells
<1> QED
  BY <1>4, <1>8

LEMMA ActsStartup ==
    ASSUME TypeOK, KernelInv, HistoryInv, NEW p \in Pids, NEW l, Acts(p, l), Tells(p, l)
    PROVE  StartupInv'
<1>1. /\ Lines' = Lines \cup {l} /\ l.pid = p /\ l.n = calls + 1 /\ calls \in Nat
      /\ \A m \in Lines : m.n \in 1..calls /\ m.pid \in Pids
  BY LineFacts DEF Acts, Adds
<1>2. \A q \in Pids : leader'[q] = q => leader[q] = q
  BY DEF Acts, TypeOK
<1>3. ASSUME NEW m \in Lines', leader'[m.pid] = m.pid, m.pid \in Pids
      PROVE  /\ m.startup => \E i \in 1..Len(file[m.pid]) : Since(file[m.pid], i, m.n)
             /\ \A i \in 1..Len(file[m.pid]) :
                    Since(file[m.pid], i, m.n) /\ file[m.pid][i].node => m.startup
             /\ m.call = "marker" => m.startup
             /\ m.call \in {"exec", "clone"} => ~m.startup
  <2>1. leader[m.pid] = m.pid
    BY <1>2, <1>3
  <2>2. CASE m \in Lines
    BY <2>1, <2>2 DEF HistoryInv, StartupInv
  <2>3. CASE m = l
    <3>1. leader[p] = p /\ m.pid = p /\ m.n = calls + 1
      BY <1>1, <2>1, <2>3
    <3>2. /\ m.startup = (image[p] = "starting")
          /\ m.call = "marker" => image[p] = "starting"
          /\ m.call \in {"exec", "clone"} => image[p] # "starting"
      BY <2>3, <3>1 DEF Acts
    <3> QED BY <3>1, <3>2 DEF HistoryInv, StartupInv
  <2> QED BY <1>1, <1>3, <2>2, <2>3
<1>4. ASSUME NEW m \in Lines', leader'[m.pid] = m.pid
      PROVE  /\ m.startup => \E i \in 1..Len(file'[m.pid]) : Since(file'[m.pid], i, m.n)
             /\ \A i \in 1..Len(file'[m.pid]) :
                    Since(file'[m.pid], i, m.n) /\ file'[m.pid][i].node => m.startup
             /\ m.call = "marker" => m.startup
             /\ m.call \in {"exec", "clone"} => ~m.startup
  <2>1. m.n \in 1..(calls + 1)
    BY <1>1, <1>4
  <2>2. m.pid \in Pids
    BY <1>1, <1>4
  <2>3. \A i \in 1..Len(file'[m.pid]) :
            Since(file'[m.pid], i, m.n) <=> i \in 1..Len(file[m.pid]) /\ Since(file[m.pid], i, m.n)
    BY <2>1, <2>2 DEF Tells
  <2>4. \A i \in 1..Len(file[m.pid]) : i \in 1..Len(file'[m.pid]) /\ file'[m.pid][i] = file[m.pid][i]
    BY <2>2 DEF Tells
  <2> QED BY <1>3, <1>4, <2>2, <2>3, <2>4
<1>5. ASSUME NEW q \in Pids, leader'[q] = q
      PROVE  /\ image'[q] = "starting" => \E i \in 1..Len(file'[q]) : Since(file'[q], i, calls' + 1)
             /\ \A i \in 1..Len(file'[q]) :
                    Since(file'[q], i, calls' + 1) /\ file'[q][i].node => image'[q] = "starting"
  <2>1. leader[q] = q
    BY <1>2, <1>5
  <2>2. /\ image[q] = "starting" => \E i \in 1..Len(file[q]) : Since(file[q], i, calls + 1)
        /\ \A i \in 1..Len(file[q]) :
               Since(file[q], i, calls + 1) /\ file[q][i].node => image[q] = "starting"
    BY <2>1 DEF HistoryInv, StartupInv
  <2>3. CASE q = p /\ l.call = "exec"
    <3>1. \E i \in 1..Len(file'[p]) : Since(file'[p], i, calls' + 1)
      BY <2>3 DEF Tells
    <3>2. \A i \in 1..Len(file'[p]) : Since(file'[p], i, calls' + 1) => file'[p][i] = l
      BY <2>3 DEF Tells
    <3>3. l.node => image'[p] = "starting"
      BY <2>3 DEF Acts
    <3> QED BY <2>3, <3>1, <3>2, <3>3
  <2>4. CASE q = p /\ l.call = "marker"
    <3>1. image'[p] = "started"
      BY <2>4 DEF Acts
    <3>2. \A i \in 1..Len(file'[p]) : ~Since(file'[p], i, calls' + 1)
      BY <2>4 DEF Tells
    <3> QED BY <2>4, <3>1, <3>2
  <2>5. CASE q = p => l.call \notin {"exec", "marker"}
    <3>1. image'[q] = image[q]
      <4>1. l.call = "thread" => q # l.child
        BY <1>5 DEF Acts, TypeOK
      <4> QED BY <2>5, <4>1 DEF Acts
    <3>2. \A i \in 1..Len(file[q]) : /\ i \in 1..Len(file'[q]) /\ file'[q][i] = file[q][i]
                                     /\ Since(file[q], i, calls + 1) => Since(file'[q], i, calls' + 1)
      BY <2>5 DEF Tells
    <3>3. \A i \in 1..Len(file'[q]) : Since(file'[q], i, calls' + 1) =>
              i \in 1..Len(file[q]) /\ Since(file[q], i, calls + 1)
      BY <2>5 DEF Tells
    <3> QED BY <2>2, <3>1, <3>2, <3>3
  <2> QED BY <2>3, <2>4, <2>5
<1> QED
  BY <1>4, <1>5 DEF StartupInv

LEMMA ActsSame ==
    ASSUME TypeOK, HistoryInv, NEW p \in Pids, NEW l, Acts(p, l), Tells(p, l)
    PROVE  SameInv'
<1>1. /\ Lines' = Lines \cup {l} /\ l.pid = p /\ l.n = calls + 1 /\ calls \in Nat
      /\ \A m \in Lines : m.n \in 1..calls
  BY DEF Acts, Adds
<1> SUFFICES ASSUME NEW q \in Pids, leader'[q] = q, NEW i \in 1..Len(file'[q])
             PROVE  /\ \A a, b \in Lines' : /\ a.pid = q /\ b.pid = q
                                            /\ Since(file'[q], i, a.n) /\ Since(file'[q], i, b.n)
                                            => a.startup = b.startup
                    /\ \A a \in Lines' : /\ a.pid = q /\ Since(file'[q], i, a.n)
                                         /\ Since(file'[q], i, calls' + 1)
                                         => a.startup = (image'[q] = "starting")
  BY DEF SameInv
<1>2. leader[q] = q
  BY DEF Acts, TypeOK
<1>3. \A a \in Lines' : a.pid = q /\ Since(file'[q], i, a.n)
                           => i \in 1..Len(file[q]) /\ Since(file[q], i, a.n)
  <2>1. \A a \in Lines' : a.n \in 1..(calls + 1)
    BY <1>1
  <2> QED BY <2>1 DEF Tells
<1>4. i \in 1..Len(file[q]) =>
        /\ \A a, b \in Lines : /\ a.pid = q /\ b.pid = q
                               /\ Since(file[q], i, a.n) /\ Since(file[q], i, b.n)
                               => a.startup = b.startup
        /\ \A a \in Lines : a.pid = q /\ Since(file[q], i, a.n) /\ Since(file[q], i, calls + 1)
                               => a.startup = (image[q] = "starting")
  BY <1>2 DEF HistoryInv, SameInv
<1>5. q = p => l.startup = (image[q] = "starting")
  BY <1>2 DEF Acts
<1>6. \A a \in Lines' : a.pid = q /\ Since(file[q], i, a.n) /\ Since(file[q], i, calls + 1)
                           /\ i \in 1..Len(file[q]) => a.startup = (image[q] = "starting")
  BY <1>1, <1>4, <1>5
<1>7. ASSUME NEW a \in Lines', NEW b \in Lines', a.pid = q, b.pid = q,
             Since(file'[q], i, a.n), Since(file'[q], i, b.n)
      PROVE  a.startup = b.startup
  <2>1. i \in 1..Len(file[q]) /\ Since(file[q], i, a.n) /\ Since(file[q], i, b.n)
    BY <1>3, <1>7
  <2>2. CASE a \in Lines /\ b \in Lines
    BY <1>4, <1>7, <2>1, <2>2
  <2>3. CASE a = l \/ b = l
    <3>1. Since(file[q], i, calls + 1)
      BY <1>1, <2>1, <2>3
    <3> QED BY <1>6, <1>7, <2>1, <3>1
  <2> QED BY <1>1, <2>2, <2>3
<1>8. ASSUME NEW a \in Lines', a.pid = q, Since(file'[q], i, a.n), Since(file'[q], i, calls' + 1)
      PROVE  a.startup = (image'[q] = "starting")
  <2>1. i \in 1..Len(file[q]) /\ Since(file[q], i, a.n)
    BY <1>3, <1>8
  <2>2. Since(file[q], i, calls + 1) /\ (q = p => l.call \notin {"exec", "marker"})
    <3>1. file'[q][i] = file[q][i] /\ file[q][i] \in Lines
      BY <2>1 DEF Tells, Acts, Adds
    <3>2. l \notin Lines
      BY <1>1
    <3> QED BY <1>8, <3>1, <3>2 DEF Tells
  <2>3. image'[q] = image[q]
    <3>1. l.call = "thread" => q # l.child
      BY DEF Acts, TypeOK
    <3> QED BY <2>2, <3>1 DEF Acts
  <2> QED BY <1>6, <1>8, <2>1, <2>2, <2>3
<1> QED
  BY <1>7, <1>8

LEMMA ActsClient ==
    ASSUME TypeOK, KernelInv, HistoryInv, NEW p \in Pids, NEW l, Acts(p, l), Tells(p, l)
    PROVE  ClientInv'
<1>1. /\ Lines' = Lines \cup {l} /\ l.pid = p /\ l.n = calls + 1 /\ calls \in Nat
      /\ \A m \in Lines : m.n \in 1..calls /\ m.pid \in Pids
  BY LineFacts DEF Acts, Adds
<1>2. Root \in Pids /\ None \notin Pids
  BY RootAssumption
<1>3. client'[Root]
  <2>1. Root # l.child
    BY <1>2 DEF Acts
  <2> QED BY <1>2, <2>1 DEF Acts, HistoryInv, ClientInv
<1>4. ASSUME NEW q \in Pids, NEW i \in 1..Len(file'[q]), Within(file'[q], i, calls' + 1),
             file'[q][i].client
      PROVE  client'[q]
  <2>1. CASE q = p /\ l.call = "exec" /\ file'[q][i] = l
    BY <1>4, <2>1 DEF Acts
  <2>2. CASE i \in 1..Len(file[q]) /\ Within(file[q], i, calls + 1) /\ (q = p => l.call # "exec")
    <3>1. file'[q][i] = file[q][i]
      BY <2>2 DEF Tells
    <3>2. client[q]
      BY <1>4, <2>2, <3>1 DEF HistoryInv, ClientInv
    <3>3. q # l.child
      <4>1. Len(<<>>) = 0 /\ 1..0 = {}
        OBVIOUS
      <4>2. file[q] # <<>>
        BY <2>2, <4>1
      <4> QED BY <1>2, <4>2 DEF Acts
    <3> QED BY <2>2, <3>2, <3>3 DEF Acts
  <2> QED BY <1>4, <2>1, <2>2 DEF Tells
<1>5. ASSUME NEW m \in Lines', m.call = "env_read"
      PROVE  /\ m.pid = Root => m.client
             /\ \A i \in 1..Len(file'[m.pid]) :
                    Within(file'[m.pid], i, m.n) /\ file'[m.pid][i].client => m.client
  <2>1. m.n \in 1..(calls + 1) /\ m.pid \in Pids
    BY <1>1
  <2>2. ASSUME NEW i \in 1..Len(file'[m.pid]), Within(file'[m.pid], i, m.n), file'[m.pid][i].client
        PROVE  i \in 1..Len(file[m.pid]) /\ Within(file[m.pid], i, m.n) /\ file[m.pid][i].client
    <3>1. i \in 1..Len(file[m.pid]) /\ Within(file[m.pid], i, m.n)
      BY <2>1, <2>2 DEF Tells
    <3>2. file'[m.pid][i] = file[m.pid][i]
      BY <2>1, <3>1 DEF Tells
    <3> QED BY <2>2, <3>1, <3>2
  <2>3. CASE m \in Lines
    BY <1>5, <2>2, <2>3 DEF HistoryInv, ClientInv
  <2>4. CASE m = l
    <3>1. m.client = client[p] /\ m.pid = p /\ m.n = calls + 1
      BY <1>1, <1>5, <2>4 DEF Acts
    <3> QED BY <2>2, <3>1 DEF HistoryInv, ClientInv
  <2> QED BY <1>1, <2>3, <2>4
<1> QED
  BY <1>3, <1>4, <1>5 DEF ClientInv

LEMMA ActsThread ==
    ASSUME TypeOK, KernelInv, HistoryInv, NEW p \in Pids, NEW l, Acts(p, l), Tells(p, l)
    PROVE  ThreadStartInv'
<1>1. /\ Lines' = Lines \cup {l} /\ l.pid = p /\ p \in live /\ l.n = calls + 1 /\ calls \in Nat
      /\ \A m \in Lines : m.n \in 1..calls
  BY DEF Acts, Adds
<1>2. /\ leader' = IF l.call = "thread" THEN [leader EXCEPT ![l.child] = p] ELSE leader
      /\ leader \in [Pids -> Pids]
      /\ l.child # None =>
           /\ l.child \in Pids \ {p, Root} /\ l.child \notin live /\ file[l.child] = <<>>
           /\ \A m \in Lines : m.pid # l.child
           /\ leader[l.child] = l.child
      /\ l.call = "thread" => leader[p] = p /\ l.child # None
      /\ live' \subseteq live \cup (Pids \cap {l.child})
      /\ None \notin Pids
  BY RootAssumption DEF Acts, TypeOK
<1>3. \A q \in Pids : q # l.child => leader'[q] = leader[q]
  BY <1>2
<1>4. ASSUME NEW c \in live', leader'[c] # c, image'[leader'[c]] = "starting"
      PROVE  BornIn(file'[leader'[c]], c, calls' + 1)
  <2>1. c \in Pids
    BY <1>2, <1>4 DEF TypeOK
  <2>2. CASE c = l.child
    <3>1. l.call = "thread" /\ leader'[c] = p
      BY <1>2, <1>4, <2>1, <2>2
    <3>2. image'[p] = image[p] /\ l.startup
      BY <1>2, <1>4, <3>1 DEF Acts
    <3> QED BY <2>2, <3>1, <3>2 DEF Tells
  <2>3. CASE c # l.child
    <3>1. leader'[c] = leader[c] /\ c \in live /\ leader[c] \in Pids
      BY <1>2, <1>3, <1>4, <2>1, <2>3
    <3>2. image[leader[c]] = "starting" /\ (leader[c] = p => l.call \notin {"exec", "marker"})
      <4>1. CASE leader[c] = p
        <5>1. l.call # "exec"
          BY <1>4, <2>1, <3>1, <4>1 DEF Acts
        <5>2. l.call # "marker"
          BY <1>4, <3>1, <4>1 DEF Acts
        <5> QED BY <1>4, <3>1, <4>1, <5>1, <5>2 DEF Acts
      <4>2. CASE leader[c] # p
        BY <1>4, <3>1, <4>2 DEF Acts
      <4> QED BY <4>1, <4>2
    <3>3. BornIn(file[leader[c]], c, calls + 1)
      BY <1>4, <3>1, <3>2 DEF HistoryInv, ThreadStartInv
    <3> QED BY <3>1, <3>2, <3>3 DEF Tells
  <2> QED BY <2>2, <2>3
<1>5. ASSUME NEW m \in Lines', leader'[m.pid] # m.pid, m.startup
      PROVE  BornIn(file'[leader'[m.pid]], m.pid, m.n)
  <2>1. m.pid \in Pids /\ m.pid # l.child /\ m.n \in 1..(calls + 1)
    BY <1>1, <1>2, LineFacts
  <2>2. leader'[m.pid] = leader[m.pid] /\ leader[m.pid] \in Pids
    BY <1>2, <1>3, <2>1
  <2>3. CASE m \in Lines
    <3>1. BornIn(file[leader[m.pid]], m.pid, m.n)
      BY <1>5, <2>2, <2>3 DEF HistoryInv, ThreadStartInv
    <3> QED BY <2>1, <2>2, <3>1 DEF Tells
  <2>4. CASE m = l
    <3>1. image[leader[p]] = "starting"
      BY <1>5, <2>4 DEF Acts
    <3>2. BornIn(file[leader[p]], p, calls + 1)
      BY <1>1, <1>5, <2>2, <2>4, <3>1 DEF HistoryInv, ThreadStartInv
    <3> QED BY <1>1, <2>1, <2>2, <2>4, <3>2 DEF Tells
  <2> QED BY <1>1, <2>3, <2>4
<1> QED
  BY <1>4, <1>5 DEF ThreadStartInv

LEMMA ActsExit ==
    ASSUME TypeOK, KernelInv, HistoryInv, NEW p \in Pids, NEW l, Acts(p, l), Tells(p, l)
    PROVE  ExitInv'
<1>1. /\ Lines' = Lines \cup {l} /\ l.pid = p /\ p \in live /\ l.n = calls + 1 /\ calls \in Nat
      /\ \A m \in Lines : m.n \in 1..calls
  BY DEF Acts, Adds
<1> SUFFICES ASSUME NEW q \in Pids, NEW j \in 1..Len(file'[q]), file'[q][j].call = "exit",
                    NEW m \in Lines', m.pid = q
             PROVE  m.n <= file'[q][j].n
  BY DEF ExitInv
<1>2. CASE j \in 1..Len(file[q])
  <2>1. file'[q][j] = file[q][j]
    BY <1>2 DEF Tells
  <2>2. q \notin live
    BY <1>2, <2>1 DEF KernelInv, DeadInv
  <2>3. m \in Lines
    BY <1>1, <2>2
  <2> QED BY <1>2, <2>1, <2>3 DEF HistoryInv, ExitInv
<1>3. CASE j \notin 1..Len(file[q])
  <2>1. file'[q][j] = l
    BY <1>3 DEF Tells
  <2> QED BY <1>1, <2>1
<1> QED
  BY <1>2, <1>3

LEMMA WritesHistory ==
    ASSUME TypeOK, KernelInv, HistoryInv, NEW p \in Pids, NEW l, Writes(p, l)
    PROVE  HistoryInv'
<1>1. Acts(p, l) /\ Tells(p, l)
  BY WritesActs, WritesTells
<1> QED
  BY <1>1, WritesNumber, WritesOrigin, ActsStartup, ActsSame, ActsClient, ActsThread, ActsExit
  DEF HistoryInv

LEMMA SpeaksHistory ==
    ASSUME TypeOK, KernelInv, HistoryInv, NEW p \in Pids, NEW l, Speaks(p, l)
    PROVE  HistoryInv'
<1>1. Acts(p, l) /\ Tells(p, l)
  BY SpeaksActs
<1>2. /\ Lines' = Lines \cup {l} /\ l.pid = p /\ p \in live /\ l.n = calls + 1 /\ calls \in Nat
      /\ calls' = calls + 1 /\ Births' = Births \cup {x \in {l} : l.child # None}
      /\ \A m \in Lines : m.n \in 1..calls
      /\ l.child = None /\ leader[p] = p
      /\ UNCHANGED <<file, live, leader>> /\ shim' = Append(shim, l)
  BY <1>1 DEF Acts, Adds, Speaks
<1>3. Births' = Births
  BY <1>2
<1>4. shim \in Seq(Line) /\ Len(shim) \in Nat /\ \A k \in 1..Len(shim) : shim[k] \in Lines
  <2>1. shim \in Seq(Line)
    BY DEF TypeOK
  <2> QED BY <2>1, LinesAre
<1>5. /\ Len(shim') = Len(shim) + 1 /\ shim'[Len(shim) + 1] = l
      /\ \A k \in 1..Len(shim) : shim'[k] = shim[k] /\ k \in 1..Len(shim')
      /\ \A k \in 1..(Len(shim) + 1) : k \in 1..Len(shim) \/ k = Len(shim) + 1
  <2>1. l \in Line
    BY <1>1 DEF Acts, Adds
  <2> QED BY <1>2, <1>4, <2>1
<1>6. NumberInv'
  <2>1. \A k, m \in 1..Len(shim') : k < m => shim'[k].n < shim'[m].n
    <3>1. \A k \in 1..Len(shim) : shim[k].n < l.n
      BY <1>2, <1>4
    <3>2. \A k, m \in 1..(Len(shim) + 1) : k < m => /\ k \in 1..Len(shim)
                                                   /\ (m \in 1..Len(shim) \/ m = Len(shim) + 1)
      BY <1>4
    <3> QED BY <1>5, <3>1, <3>2 DEF HistoryInv, NumberInv
  <2>2. /\ \A m \in Lines' : m.n \in 1..calls'
        /\ \A k, m \in Lines' : k.n = m.n => k = m
    BY <1>2 DEF HistoryInv, NumberInv
  <2>3. \A q \in Pids : \A i \in 1..Len(file'[q]) : file'[q][i].call = "marker" =>
           \E k \in 1..Len(shim') : shim'[k] = file'[q][i]
    BY <1>2, <1>5 DEF HistoryInv, NumberInv
  <2> QED BY <2>1, <2>2, <2>3 DEF NumberInv
<1>7. OriginInv'
  <2>1. p = Root \/ \E b \in Births : b.child = p /\ b.n < l.n
    <3>1. \A b \in Births : b.n < l.n
      BY <1>2 DEF Births
    <3> QED BY <1>2, <3>1 DEF HistoryInv, OriginInv
  <2> QED BY <1>2, <1>3, <2>1 DEF HistoryInv, OriginInv
<1>8. NamedInv'
  BY <1>2, <1>5 DEF HistoryInv, NamedInv
<1> QED
  BY <1>1, <1>6, <1>7, <1>8, ActsStartup, ActsSame, ActsClient, ActsThread, ActsExit DEF HistoryInv

-----------------------------------------------------------------------------
(* What the dispatcher knows when it has taken the lines in their order.   *)

WasTaken(l) ==
    (\E i \in 1..taken[l.pid] : file[l.pid][i] = l) \/ \E k \in 1..shimTaken : shim[k] = l
IsLeft(l) ==
    \/ \E i \in (taken[l.pid] + 1)..Len(file[l.pid]) : file[l.pid][i] = l
    \/ \E k \in (shimTaken + 1)..Len(shim) : shim[k] = l

OrderInv == \A l, m \in Lines : WasTaken(l) /\ IsLeft(m) => l.n <= m.n

\* Of the marker of p the line of strace was taken and that of the shim is next; or the other
\* way round.
FileFirst(p) ==
    /\ taken[p] > 0 /\ file[p][taken[p]].call = "marker"
    /\ shimTaken < Len(shim) /\ shim[shimTaken + 1] = file[p][taken[p]]
ShimFirst(p) ==
    /\ shimTaken > 0 /\ shim[shimTaken].call = "marker"
    /\ taken[p] < Len(file[p]) /\ NextLine(p) = shim[shimTaken]

SeenInv ==
    /\ deferredRelOpens = <<>> /\ deferredNullAttribEvents = <<>> /\ Root \in seen
    /\ \A p \in Pids : \A i \in 1..taken[p] : file[p][i].child # None => file[p][i].child \in seen

\* Who is pending starts, and the other way round.
FilePendingInv ==
    \A p \in Pids : leader[p] = p =>
        /\ Starting(p) => p \in boot.file
        /\ p \in boot.file => Starting(p) \/ ShimFirst(p)
EnvPendingInv ==
    \A p \in Pids : leader[p] = p =>
        /\ p \in boot.env => Starting(p) \/ FileFirst(p)
        /\ ShimFirst(p) => p \notin boot.env

\* The threads of a Node that starts are pending; only threads are below a process.
SpreadInv ==
    \A p \in Pids : \A i \in 1..taken[p] :
        /\ file[p][i].call = "exec" /\ file[p][i].node
        /\ \A j \in (i + 1)..taken[p] : file[p][j].call \notin {"exec", "marker"}
        => \A j \in (i + 1)..taken[p] : file[p][j].call = "thread" => file[p][j].child \in boot.file
BelowInv ==
    \A p \in Pids : \A c \in boot.children[p] :
        \E i \in 1..taken[p] : file[p][i].call = "thread" /\ file[p][i].child = c

ToldInv == \A p \in Pids : FileFirst(p) => p \in boot.completed

\* A candidate runs a program not called node, and is decided when it has told twice.
CandidateInv ==
    /\ \A p \in cand.pids : Script(p) \/ FileFirst(p)
    /\ cand.marked \cup cand.confirmed \subseteq cand.pids
    /\ \A p \in cand.pids : /\ p \in cand.marked <=> FileFirst(p)
                            /\ p \in cand.confirmed <=> ShimFirst(p)

\* What is held back of a candidate it has read since it executed its program.
HeldSince(p, e) ==
    /\ leader[p] = p /\ e \in Lines /\ e.pid = p /\ WasTaken(e)
    /\ e.call \in {"read", "env_read"}
    /\ e.call = "env_read" => ~ShimFirst(p)
    /\ \E i \in 1..taken[p] :
           /\ file[p][i].call = "exec" /\ ~file[p][i].node /\ file[p][i].n < e.n
           /\ \A j \in (i + 1)..taken[p] :
                 /\ file[p][j].call \notin {"exec", "exit"}
                 /\ file[p][j].call = "marker" => j = taken[p] /\ FileFirst(p)
HeldBackInv == \A p \in Pids : \A e \in cand.events[p] : p \in cand.pids /\ HeldSince(p, e)

\* A name kept for later was read by somebody who starts.
UncleanInv ==
    /\ \A z \in fileReads : \E m \in Lines :
           m.call = "read" /\ m.item = z /\ (m.startup \/ m.image = "thread")
    /\ \A z \in envReads : \E m \in Lines : m.call = "env_read" /\ m.item = z /\ m.startup

ClientPidsInv ==
    /\ \A p \in packageManagerClientPids : p = Root \/ \E i \in 1..taken[p] :
           /\ file[p][i].call = "exec" /\ file[p][i].client
           /\ \A j \in (i + 1)..taken[p] : file[p][j].call # "exec"
    /\ \A p \in completedPackageManagerClientPids :
           p = Root \/ \E i \in 1..taken[p] : file[p][i].call = "exit"

EnvEndedInv == \A p \in Pids : envEndedTs[p] # 0 => \E k \in 1..shimTaken : shim[k].n = envEndedTs[p]

Meant(l) == l.call \in {"read", "env_read"} /\ Clean(l) /\ (l.call = "env_read" => ~l.client)
Noise(l) == l.call = "read" /\ l.startup /\ TellsLater(l) /\ (l.image = "thread" => CalledNode(l))

MeantInv == \A l \in Lines : WasTaken(l) /\ Meant(l) => l \in emitted \/ l \in cand.events[l.pid]
NoiseInv == \A l \in emitted : ~Noise(l)

PromptInv ==
    /\ OrderInv /\ SeenInv /\ FilePendingInv /\ EnvPendingInv /\ SpreadInv /\ BelowInv /\ ToldInv
    /\ HeldBackInv /\ UncleanInv /\ ClientPidsInv /\ EnvEndedInv
    /\ (~flushed => CandidateInv) /\ MeantInv /\ NoiseInv

-----------------------------------------------------------------------------
(* Lines taken in the order of the calls.                                  *)

\* The line l is not taken, those taken are not later, and the others not earlier.
InTurn(l) ==
    /\ l \in Lines /\ ~running
    /\ \A q \in Pids : /\ \A j \in 1..taken[q] : file[q][j].n <= l.n
                       /\ \A j \in (taken[q] + 1)..Len(file[q]) : l.n <= file[q][j].n
    /\ \A k \in 1..shimTaken : shim[k].n <= l.n
    /\ \A k \in (shimTaken + 1)..Len(shim) : l.n <= shim[k].n

Whole == \A q \in Pids : ~FileFirst(q) /\ ~ShimFirst(q)

\* The places of the lines and their times.
LEMMA Times ==
    ASSUME TypeOK, KernelInv, NumberInv, Bounds
    PROVE  /\ \A q \in Pids : /\ taken[q] \in Nat /\ Len(file[q]) \in Nat /\ taken[q] <= Len(file[q])
                              /\ \A i \in 1..taken[q] : i \in 1..Len(file[q])
                              /\ \A i \in (taken[q] + 1)..Len(file[q]) : i \in 1..Len(file[q])
           /\ \A q \in Pids : \A i \in 1..Len(file[q]) :
                 /\ file[q][i] \in Lines /\ file[q][i].n \in Nat /\ file[q][i].pid = q
                 /\ \A j \in 1..Len(file[q]) : i < j => file[q][i].n < file[q][j].n
           /\ shimTaken \in Nat /\ Len(shim) \in Nat /\ shimTaken <= Len(shim)
           /\ \A k \in 1..shimTaken : k \in 1..Len(shim)
           /\ \A k \in (shimTaken + 1)..Len(shim) : k \in 1..Len(shim)
           /\ \A k \in 1..Len(shim) :
                 /\ shim[k] \in Lines /\ shim[k].n \in Nat /\ shim[k].pid \in Pids
                 /\ \A m \in 1..Len(shim) : k < m => shim[k].n < shim[m].n
           /\ \A l \in Lines : l.n \in Nat /\ l.pid \in Pids
           /\ \A l, m \in Lines : l.n = m.n => l = m
<1>1. calls \in Nat /\ taken \in [Pids -> Nat] /\ shimTaken \in Nat /\ shim \in Seq(Line)
      /\ \A q \in Pids : file[q] \in Seq(Line)
  BY DEF TypeOK
<1>2. \A l \in Lines : l.n \in Nat /\ l.pid \in Pids
  BY <1>1, LineFacts DEF NumberInv
<1>3. ASSUME NEW q \in Pids
      PROVE  /\ taken[q] \in Nat /\ Len(file[q]) \in Nat /\ taken[q] <= Len(file[q])
             /\ \A i \in 1..taken[q] : i \in 1..Len(file[q])
             /\ \A i \in (taken[q] + 1)..Len(file[q]) : i \in 1..Len(file[q])
  BY <1>1 DEF Bounds
<1>4. ASSUME NEW q \in Pids, NEW i \in 1..Len(file[q])
      PROVE  /\ file[q][i] \in Lines /\ file[q][i].n \in Nat /\ file[q][i].pid = q
             /\ \A j \in 1..Len(file[q]) : i < j => file[q][i].n < file[q][j].n
  <2>1. file[q][i] \in Lines /\ file[q][i].pid = q
    BY LineFacts
  <2> QED BY <1>2, <2>1 DEF KernelInv, FileInv
<1>5. Len(shim) \in Nat /\ shimTaken <= Len(shim) /\ DOMAIN shim = 1..Len(shim)
  BY <1>1 DEF Bounds
<1>6. \A k \in 1..Len(shim) : shim[k] \in Lines
  BY <1>5, LinesAre
<1>7. /\ \A k \in 1..shimTaken : k \in 1..Len(shim)
      /\ \A k \in (shimTaken + 1)..Len(shim) : k \in 1..Len(shim)
  BY <1>1, <1>5
<1> QED
  BY <1>1, <1>2, <1>3, <1>4, <1>5, <1>6, <1>7 DEF NumberInv

LEMMA LeftLater ==
    ASSUME TypeOK, KernelInv, NumberInv, Bounds, NEW l, l.n \in Nat, isFirst(l)
    PROVE  /\ \A q \in Pids : \A j \in (taken[q] + 1)..Len(file[q]) : l.n <= file[q][j].n
           /\ \A k \in (shimTaken + 1)..Len(shim) : l.n <= shim[k].n
<1>1. ASSUME NEW q \in Pids, NEW j \in (taken[q] + 1)..Len(file[q])
      PROVE  l.n <= file[q][j].n
  <2>1. /\ taken[q] \in Nat /\ Len(file[q]) \in Nat /\ j \in 1..Len(file[q])
        /\ taken[q] + 1 \in 1..Len(file[q]) /\ q \in Untaken
    BY <1>1, Times DEF Untaken
  <2>2. NextLine(q) \in Heads
    BY <2>1 DEF Heads
  <2>3. l.n <= file[q][taken[q] + 1].n
    BY <2>2 DEF isFirst, NextLine
  <2>4. /\ file[q][j].n \in Nat /\ file[q][taken[q] + 1].n \in Nat
        /\ taken[q] + 1 < j => file[q][taken[q] + 1].n < file[q][j].n
    BY <2>1, Times
  <2>5. taken[q] + 1 = j \/ taken[q] + 1 < j
    BY <1>1, <2>1
  <2> QED BY <2>3, <2>4, <2>5
<1>2. ASSUME NEW k \in (shimTaken + 1)..Len(shim)
      PROVE  l.n <= shim[k].n
  <2>1. /\ shimTaken \in Nat /\ Len(shim) \in Nat /\ k \in 1..Len(shim)
        /\ shimTaken + 1 \in 1..Len(shim)
    BY <1>2, Times
  <2>2. shimTaken + 1 \in DOMAIN shim
    BY <2>1 DEF TypeOK
  <2>3. shim[shimTaken + 1] \in Heads
    BY <2>2 DEF Heads
  <2>4. l.n <= shim[shimTaken + 1].n
    BY <2>3 DEF isFirst
  <2>5. /\ shim[k].n \in Nat /\ shim[shimTaken + 1].n \in Nat
        /\ shimTaken + 1 < k => shim[shimTaken + 1].n < shim[k].n
    BY <2>1, Times
  <2>6. shimTaken + 1 = k \/ shimTaken + 1 < k
    BY <1>2, <2>1
  <2> QED BY <2>4, <2>5, <2>6
<1> QED
  BY <1>1, <1>2

LEMMA TakenEarlier ==
    ASSUME TypeOK, KernelInv, NumberInv, Bounds, OrderInv, NEW l \in Lines, IsLeft(l)
    PROVE  /\ \A q \in Pids : \A j \in 1..taken[q] : file[q][j].n <= l.n
           /\ \A k \in 1..shimTaken : shim[k].n <= l.n
<1>1. ASSUME NEW q \in Pids, NEW j \in 1..taken[q] PROVE file[q][j].n <= l.n
  <2>1. file[q][j] \in Lines /\ file[q][j].pid = q
    BY Times
  <2>2. WasTaken(file[q][j])
    BY <2>1 DEF WasTaken
  <2> QED BY <2>1, <2>2 DEF OrderInv
<1>2. ASSUME NEW k \in 1..shimTaken PROVE shim[k].n <= l.n
  <2>1. shim[k] \in Lines
    BY Times
  <2>2. WasTaken(shim[k])
    BY DEF WasTaken
  <2> QED BY <2>1, <2>2 DEF OrderInv
<1> QED
  BY <1>1, <1>2

LEMMA FileTurn ==
    ASSUME TypeOK, KernelInv, NumberInv, Bounds, OrderInv, NEW p, NEW call, TakeFile(p, call),
           isFirst(NextLine(p))
    PROVE  InTurn(NextLine(p))
<1>1. /\ p \in Pids /\ taken[p] + 1 \in (taken[p] + 1)..Len(file[p]) /\ ~running
      /\ NextLine(p) = file[p][taken[p] + 1]
  <2>1. /\ p \in Pids /\ taken[p] \in Nat /\ Len(file[p]) \in Nat /\ taken[p] < Len(file[p])
        /\ NextLine(p) = file[p][taken[p] + 1] /\ ~running
    BY NextOf
  <2> QED BY <2>1
<1>2. NextLine(p) \in Lines /\ NextLine(p).pid = p /\ NextLine(p).n \in Nat
  BY <1>1, Times
<1>3. IsLeft(NextLine(p))
  BY <1>1, <1>2 DEF IsLeft
<1> QED
  BY <1>1, <1>2, <1>3, LeftLater, TakenEarlier DEF InTurn

LEMMA ShimTurn ==
    ASSUME TypeOK, KernelInv, NumberInv, Bounds, OrderInv, NEW call, TakeShim(call),
           isFirst(shim[shimTaken + 1])
    PROVE  InTurn(shim[shimTaken + 1])
<1>1. shimTaken + 1 \in (shimTaken + 1)..Len(shim) /\ ~running
  <2>1. shimTaken \in Nat /\ Len(shim) \in Nat /\ shimTaken < Len(shim) /\ ~running
    BY NextShim
  <2> QED BY <2>1
<1>2. shim[shimTaken + 1] \in Lines /\ shim[shimTaken + 1].n \in Nat
  BY <1>1, Times
<1>3. IsLeft(shim[shimTaken + 1])
  BY <1>1 DEF IsLeft
<1> QED
  BY <1>1, <1>2, <1>3, LeftLater, TakenEarlier DEF InTurn

\* When half of a marker is taken, the other half comes next.
LEMMA HalfTurn ==
    ASSUME TypeOK, KernelInv, NumberInv, Bounds, NEW l, InTurn(l), NEW q \in Pids
    PROVE  /\ FileFirst(q) => l = file[q][taken[q]] /\ l = shim[shimTaken + 1]
           /\ ShimFirst(q) => l = shim[shimTaken] /\ l = NextLine(q)
<1>1. l \in Lines
  BY DEF InTurn
<1>2. ASSUME FileFirst(q)
      PROVE  l = file[q][taken[q]] /\ l = shim[shimTaken + 1]
  <2>1. /\ taken[q] \in 1..taken[q] /\ shimTaken + 1 \in (shimTaken + 1)..Len(shim)
        /\ file[q][taken[q]] = shim[shimTaken + 1]
    BY <1>2, Times DEF FileFirst
  <2>2. shim[shimTaken + 1].n <= l.n /\ l.n <= shim[shimTaken + 1].n
    BY <2>1 DEF InTurn
  <2>3. shim[shimTaken + 1] \in Lines
    BY <2>1, Times
  <2>4. l.n \in Nat /\ shim[shimTaken + 1].n \in Nat
    BY <1>1, <2>3, Times
  <2>5. l.n = shim[shimTaken + 1].n
    BY <2>2, <2>4
  <2>6. l = shim[shimTaken + 1]
    BY <1>1, <2>3, <2>5, Times
  <2> QED BY <2>1, <2>6
<1>3. ASSUME ShimFirst(q)
      PROVE  l = shim[shimTaken] /\ l = NextLine(q)
  <2>1. /\ shimTaken \in 1..shimTaken /\ taken[q] + 1 \in (taken[q] + 1)..Len(file[q])
        /\ file[q][taken[q] + 1] = shim[shimTaken] /\ NextLine(q) = file[q][taken[q] + 1]
    BY <1>3, Times DEF ShimFirst, NextLine
  <2>2. shim[shimTaken].n <= l.n /\ l.n <= shim[shimTaken].n
    BY <2>1 DEF InTurn
  <2>3. shim[shimTaken] \in Lines
    BY <2>1, Times
  <2>4. l.n \in Nat /\ shim[shimTaken].n \in Nat
    BY <1>1, <2>3, Times
  <2>5. l.n = shim[shimTaken].n
    BY <2>2, <2>4
  <2>6. l = shim[shimTaken]
    BY <1>1, <2>3, <2>5, Times
  <2> QED BY <2>1, <2>6
<1> QED
  BY <1>2, <1>3

\* What is taken with l, and what is left then.
LEMMA FileTaken ==
    ASSUME TypeOK, KernelInv, NumberInv, Bounds, NEW p, NEW call, TakeFile(p, call)
    PROVE  /\ \A m \in Lines : WasTaken(m)' <=> WasTaken(m) \/ m = NextLine(p)
           /\ \A m \in Lines : IsLeft(m)' => IsLeft(m)
           /\ Lines' = Lines
<1>1. /\ p \in Pids /\ file' = file /\ shim' = shim /\ shimTaken' = shimTaken
      /\ taken'[p] = taken[p] + 1 /\ \A q \in Pids \ {p} : taken'[q] = taken[q]
      /\ file[p][taken[p] + 1] = NextLine(p) /\ taken[p] + 1 \in 1..Len(file[p])
      /\ \A i \in 1..taken'[p] : i \in 1..taken[p] \/ i = taken[p] + 1
  BY Advance, NextOf
<1>2. Lines' = Lines
  BY <1>1 DEF Lines
<1>3. taken[p] \in Nat /\ Len(file[p]) \in Nat /\ NextLine(p).pid = p
  BY <1>1, Times
<1>4. /\ \A i \in 1..taken[p] : i \in 1..(taken[p] + 1)
      /\ taken[p] + 1 \in 1..(taken[p] + 1)
      /\ \A i \in (taken[p] + 1 + 1)..Len(file[p]) : i \in (taken[p] + 1)..Len(file[p])
  BY <1>3
<1>5. ASSUME NEW m \in Lines
      PROVE  /\ WasTaken(m)' <=> WasTaken(m) \/ m = NextLine(p)
             /\ IsLeft(m)' => IsLeft(m)
  <2>0. m.pid \in Pids
    BY Times
  <2>1. CASE m.pid = p
    <3>1. (\E i \in 1..taken'[p] : file[p][i] = m)
             <=> (\E i \in 1..taken[p] : file[p][i] = m) \/ m = NextLine(p)
      BY <1>1, <1>4
    <3>2. (\E i \in (taken'[p] + 1)..Len(file[p]) : file[p][i] = m)
             => \E i \in (taken[p] + 1)..Len(file[p]) : file[p][i] = m
      BY <1>1, <1>4
    <3> QED BY <1>1, <2>1, <3>1, <3>2 DEF WasTaken, IsLeft
  <2>2. CASE m.pid # p
    <3>1. taken'[m.pid] = taken[m.pid] /\ m # NextLine(p)
      BY <1>1, <1>3, <2>0, <2>2
    <3> QED BY <1>1, <3>1 DEF WasTaken, IsLeft
  <2> QED BY <2>1, <2>2
<1> QED
  BY <1>2, <1>5

LEMMA ShimIsTaken ==
    ASSUME TypeOK, KernelInv, NumberInv, Bounds, NEW call, TakeShim(call)
    PROVE  /\ \A m \in Lines : WasTaken(m)' <=> WasTaken(m) \/ m = shim[shimTaken + 1]
           /\ \A m \in Lines : IsLeft(m)' => IsLeft(m)
           /\ Lines' = Lines
<1>1. /\ shimTaken \in Nat /\ Len(shim) \in Nat /\ shimTaken < Len(shim) /\ shimTaken' = shimTaken + 1
      /\ taken' = taken /\ file' = file /\ shim' = shim
  BY NextShim DEF treeVars
<1>2. Lines' = Lines
  BY <1>1 DEF Lines
<1>3. /\ \A i \in 1..shimTaken : i \in 1..(shimTaken + 1)
      /\ \A i \in 1..(shimTaken + 1) : i \in 1..shimTaken \/ i = shimTaken + 1
      /\ shimTaken + 1 \in 1..(shimTaken + 1)
      /\ \A i \in (shimTaken + 1 + 1)..Len(shim) : i \in (shimTaken + 1)..Len(shim)
  BY <1>1
<1>4. \A m : (\E k \in 1..shimTaken' : shim[k] = m)
             <=> (\E k \in 1..shimTaken : shim[k] = m) \/ m = shim[shimTaken + 1]
  BY <1>1, <1>3
<1>5. \A m : (\E k \in (shimTaken' + 1)..Len(shim) : shim[k] = m)
             => \E k \in (shimTaken + 1)..Len(shim) : shim[k] = m
  BY <1>1, <1>3
<1> QED
  BY <1>1, <1>2, <1>4, <1>5 DEF WasTaken, IsLeft

LEMMA OrderKept ==
    ASSUME TypeOK, KernelInv, NumberInv, Bounds, OrderInv, NEW l, InTurn(l),
           \A m \in Lines : WasTaken(m)' => WasTaken(m) \/ m = l,
           \A m \in Lines : IsLeft(m)' => IsLeft(m), Lines' = Lines
    PROVE  OrderInv'
<1> SUFFICES ASSUME NEW a \in Lines, NEW m \in Lines, WasTaken(a)', IsLeft(m)'
             PROVE  a.n <= m.n
  BY DEF OrderInv
<1>1. IsLeft(m) /\ (WasTaken(a) \/ a = l)
  OBVIOUS
<1>2. CASE WasTaken(a)
  BY <1>1, <1>2 DEF OrderInv
<1>3. CASE a = l
  <2>1. CASE \E i \in (taken[m.pid] + 1)..Len(file[m.pid]) : file[m.pid][i] = m
    <3>1. m.pid \in Pids
      BY Times
    <3> QED BY <1>3, <2>1, <3>1 DEF InTurn
  <2>2. CASE \E k \in (shimTaken + 1)..Len(shim) : shim[k] = m
    BY <1>3, <2>2 DEF InTurn
  <2> QED BY <1>1, <2>1, <2>2 DEF IsLeft
<1> QED
  BY <1>1, <1>2, <1>3

\* Any line but a marker is taken between two calls.
LEMMA FileWhole ==
    ASSUME TypeOK, KernelInv, NumberInv, Bounds, OrderInv, NEW p, NEW call, call # "marker",
           TakeFile(p, call), isFirst(NextLine(p))
    PROVE  Whole /\ Whole'
<1> DEFINE l == NextLine(p)
<1>1. /\ p \in Pids /\ file' = file /\ shim' = shim /\ shimTaken' = shimTaken
      /\ taken'[p] = taken[p] + 1 /\ \A q \in Pids \ {p} : taken'[q] = taken[q]
      /\ file[p][taken[p] + 1] = l /\ taken[p] + 1 \in 1..Len(file[p]) /\ l.call = call
  BY Advance, NextOf
<1>2. InTurn(l)
  BY FileTurn
<1>3. /\ taken[p] \in Nat /\ Len(file[p]) \in Nat /\ l.pid = p /\ l \in Lines /\ l.n \in Nat
      /\ taken[p] \in 1..Len(file[p]) => file[p][taken[p]].n < l.n
  <2>1. /\ taken[p] \in Nat /\ Len(file[p]) \in Nat
        /\ file[p][taken[p] + 1].pid = p /\ file[p][taken[p] + 1] \in Lines
        /\ file[p][taken[p] + 1].n \in Nat
    BY <1>1, Times
  <2>2. ASSUME taken[p] \in 1..Len(file[p])
        PROVE  file[p][taken[p]].n < file[p][taken[p] + 1].n
    <3>1. taken[p] < taken[p] + 1
      BY <2>1
    <3> QED BY <1>1, <2>2, <3>1, Times
  <2> QED BY <1>1, <2>1, <2>2
<1> HIDE DEF l
<1>4. ASSUME NEW q \in Pids, FileFirst(q) PROVE FALSE
  <2>1. l = file[q][taken[q]] /\ taken[q] > 0
    BY <1>2, <1>4, HalfTurn DEF FileFirst
  <2>2. taken[q] \in 1..Len(file[q])
    BY <2>1, Times
  <2>3. q = p
    BY <1>3, <2>1, <2>2, Times
  <2> QED BY <1>3, <2>1, <2>2, <2>3
<1>5. ASSUME NEW q \in Pids, ShimFirst(q) PROVE FALSE
  BY <1>1, <1>2, <1>5, HalfTurn DEF ShimFirst
<1>6. ASSUME NEW q \in Pids, FileFirst(q)' PROVE FALSE
  <2>1. CASE q = p
    BY <1>1, <1>6, <2>1 DEF FileFirst
  <2>2. CASE q # p
    <3>1. FileFirst(q)
      BY <1>1, <1>6, <2>2 DEF FileFirst
    <3> QED BY <1>4, <3>1
  <2> QED BY <2>1, <2>2
<1>7. ASSUME NEW q \in Pids, ShimFirst(q)' PROVE FALSE
  <2>1. CASE q = p
    <3>1. /\ shimTaken > 0 /\ taken[p] + 1 < Len(file[p])
          /\ file[p][taken[p] + 1 + 1] = shim[shimTaken]
      BY <1>1, <1>7, <2>1 DEF ShimFirst, NextLine
    <3>2. shimTaken \in 1..shimTaken
      BY <3>1, Times
    <3>3. shim[shimTaken].n <= l.n
      BY <1>2, <3>2 DEF InTurn
    <3>4. taken[p] + 2 \in 1..Len(file[p]) /\ taken[p] + 1 < taken[p] + 2 /\ taken[p] + 1 + 1 = taken[p] + 2
      BY <1>3, <3>1
    <3>5. l.n < file[p][taken[p] + 2].n /\ file[p][taken[p] + 2].n \in Nat
      BY <1>1, <3>4, Times
    <3>6. file[p][taken[p] + 2].n <= l.n
      BY <3>1, <3>3, <3>4
    <3> QED BY <1>3, <3>5, <3>6
  <2>2. CASE q # p
    <3>1. ShimFirst(q)
      BY <1>1, <1>7, <2>2 DEF ShimFirst, NextLine
    <3> QED BY <1>5, <3>1
  <2> QED BY <2>1, <2>2
<1> QED
  BY <1>4, <1>5, <1>6, <1>7 DEF Whole

LEMMA EnvWhole ==
    ASSUME TypeOK, KernelInv, NumberInv, Bounds, OrderInv, TakeShim("env_read"),
           isFirst(shim[shimTaken + 1])
    PROVE  Whole /\ Whole'
<1> DEFINE l == shim[shimTaken + 1]
<1>1. /\ shimTaken \in Nat /\ Len(shim) \in Nat /\ shimTaken < Len(shim) /\ shimTaken' = shimTaken + 1
      /\ taken' = taken /\ file' = file /\ shim' = shim /\ l.call = "env_read"
  BY NextShim DEF treeVars
<1>2. InTurn(l)
  BY ShimTurn
<1>3. /\ l \in Lines /\ l.n \in Nat
      /\ shimTaken + 1 \in 1..Len(shim)
  BY <1>1, Times
<1>4. ASSUME NEW q \in Pids, FileFirst(q) PROVE FALSE
  BY <1>1, <1>2, <1>4, HalfTurn DEF FileFirst
<1>5. ASSUME NEW q \in Pids, ShimFirst(q) PROVE FALSE
  BY <1>1, <1>2, <1>5, HalfTurn DEF ShimFirst
<1>6. ASSUME NEW q \in Pids, FileFirst(q)' PROVE FALSE
  <2>1. /\ taken[q] > 0 /\ shimTaken + 1 < Len(shim)
        /\ shim[shimTaken + 1 + 1] = file[q][taken[q]]
    BY <1>1, <1>6 DEF FileFirst
  <2>2. taken[q] \in 1..taken[q]
    BY <2>1, Times
  <2>3. file[q][taken[q]].n <= l.n
    BY <1>2, <2>2 DEF InTurn
  <2>4. shimTaken + 2 \in 1..Len(shim) /\ shimTaken + 1 < shimTaken + 2 /\ shimTaken + 1 + 1 = shimTaken + 2
    BY <1>1, <2>1
  <2>5. l.n < shim[shimTaken + 2].n /\ shim[shimTaken + 2].n \in Nat
    BY <1>3, <2>4, Times
  <2> QED BY <1>3, <2>1, <2>3, <2>4, <2>5
<1>7. ASSUME NEW q \in Pids, ShimFirst(q)' PROVE FALSE
  BY <1>1, <1>7 DEF ShimFirst
<1> QED
  BY <1>4, <1>5, <1>6, <1>7 DEF Whole

\* The marker of p in its file is the first half of it or the second.
LEMMA MarkerHalf ==
    ASSUME TypeOK, KernelInv, NumberInv, Bounds, OrderInv, NEW p, TakeFile(p, "marker"),
           isFirst(NextLine(p))
    PROVE  /\ \A q \in Pids : ~FileFirst(q) /\ ~ShimFirst(q)'
           /\ \A q \in Pids \ {p} : ~ShimFirst(q) /\ ~FileFirst(q)'
           /\ FileFirst(p)' <=> ~ShimFirst(p)
<1> DEFINE l == NextLine(p)
<1>1. /\ p \in Pids /\ file' = file /\ shim' = shim /\ shimTaken' = shimTaken
      /\ taken'[p] = taken[p] + 1 /\ \A q \in Pids \ {p} : taken'[q] = taken[q]
      /\ file[p][taken[p] + 1] = l /\ taken[p] + 1 \in 1..Len(file[p]) /\ l.call = "marker"
  BY Advance, NextOf
<1>2. InTurn(l)
  BY FileTurn
<1>3. /\ taken[p] \in Nat /\ Len(file[p]) \in Nat /\ l.pid = p /\ l \in Lines /\ l.n \in Nat
      /\ taken[p] \in 1..Len(file[p]) => file[p][taken[p]].n < l.n
      /\ shimTaken \in Nat /\ Len(shim) \in Nat
  BY <1>1, Times
<1> HIDE DEF l
<1>4. ASSUME NEW q \in Pids, FileFirst(q) PROVE FALSE
  <2>1. l = file[q][taken[q]] /\ taken[q] > 0
    BY <1>2, <1>4, HalfTurn DEF FileFirst
  <2>2. taken[q] \in 1..Len(file[q])
    BY <2>1, Times
  <2>3. q = p
    BY <1>3, <2>1, <2>2, Times
  <2> QED BY <1>3, <2>1, <2>2, <2>3
<1>5. ASSUME NEW q \in Pids \ {p}, ShimFirst(q) PROVE FALSE
  <2>1. l = NextLine(q) /\ taken[q] < Len(file[q])
    BY <1>2, <1>5, HalfTurn DEF ShimFirst
  <2>2. taken[q] + 1 \in 1..Len(file[q])
    BY <2>1, Times
  <2>3. l.pid = q
    BY <2>1, <2>2, Times DEF NextLine
  <2> QED BY <1>3, <2>3
<1>6. ASSUME NEW q \in Pids \ {p}, FileFirst(q)' PROVE FALSE
  <2>1. FileFirst(q)
    BY <1>1, <1>6 DEF FileFirst
  <2> QED BY <1>4, <2>1
<1>7. ASSUME NEW q \in Pids, ShimFirst(q)' PROVE FALSE
  <2>1. CASE q = p
    <3>1. /\ shimTaken > 0 /\ taken[p] + 1 < Len(file[p])
          /\ file[p][taken[p] + 1 + 1] = shim[shimTaken]
      BY <1>1, <1>7, <2>1 DEF ShimFirst, NextLine
    <3>2. shimTaken \in 1..shimTaken
      BY <3>1, Times
    <3>3. shim[shimTaken].n <= l.n
      BY <1>2, <3>2 DEF InTurn
    <3>4. taken[p] + 2 \in 1..Len(file[p]) /\ taken[p] + 1 < taken[p] + 2 /\ taken[p] + 1 + 1 = taken[p] + 2
      BY <1>3, <3>1
    <3>5. l.n < file[p][taken[p] + 2].n /\ file[p][taken[p] + 2].n \in Nat
      BY <1>1, <3>4, Times
    <3>6. shim[shimTaken].n = file[p][taken[p] + 2].n
      BY <3>1, <3>4
    <3> QED BY <1>3, <3>3, <3>5, <3>6
  <2>2. CASE q # p
    <3>1. ShimFirst(q)
      BY <1>1, <1>7, <2>2 DEF ShimFirst, NextLine
    <3> QED BY <1>5, <2>2, <3>1
  <2> QED BY <2>1, <2>2
<1>8. ASSUME ~ShimFirst(p) PROVE FileFirst(p)'
  <2>1. PICK k \in 1..Len(shim) : shim[k] = l
    BY <1>1 DEF NumberInv
  <2>2. k \notin 1..shimTaken
    <3> SUFFICES ASSUME k \in 1..shimTaken PROVE FALSE
      OBVIOUS
    <3>1. shimTaken \in 1..shimTaken /\ shimTaken \in 1..Len(shim)
      BY <1>3, Times
    <3>2. shim[shimTaken].n <= l.n
      BY <1>2, <3>1 DEF InTurn
    <3>3. ~(k < shimTaken)
      BY <1>3, <2>1, <3>1, <3>2, Times
    <3>4. k = shimTaken
      BY <1>3, <3>3
    <3>5. ShimFirst(p)
      BY <1>1, <1>3, <2>1, <3>1, <3>4 DEF ShimFirst, NextLine
    <3> QED BY <1>8, <3>5
  <2>3. shimTaken + 1 \in 1..Len(shim) /\ (k = shimTaken + 1 \/ shimTaken + 1 < k) /\ shimTaken < Len(shim)
        /\ shimTaken + 1 \in (shimTaken + 1)..Len(shim)
    BY <1>3, <2>1, <2>2
  <2>4. l.n <= shim[shimTaken + 1].n
    BY <1>2, <2>3 DEF InTurn
  <2>5. ~(shimTaken + 1 < k)
    BY <1>3, <2>1, <2>3, <2>4, Times
  <2>6. shim[shimTaken + 1] = l
    BY <2>1, <2>3, <2>5
  <2> QED BY <1>1, <1>3, <2>3, <2>6 DEF FileFirst
<1>9. ASSUME ShimFirst(p), FileFirst(p)' PROVE FALSE
  <2>1. l = shim[shimTaken] /\ l = shim[shimTaken + 1] /\ shimTaken > 0 /\ shimTaken < Len(shim)
    BY <1>1, <1>2, <1>9, HalfTurn DEF ShimFirst, FileFirst
  <2>2. shimTaken \in 1..Len(shim) /\ shimTaken + 1 \in 1..Len(shim) /\ shimTaken < shimTaken + 1
    BY <1>3, <2>1
  <2>3. l.n < l.n
    BY <2>1, <2>2, Times
  <2> QED BY <1>3, <2>3
<1> QED
  BY <1>4, <1>5, <1>6, <1>7, <1>8, <1>9

\* And so is that of the shim.
LEMMA ShimHalf ==
    ASSUME TypeOK, KernelInv, NumberInv, Bounds, OrderInv, TakeShim("marker"),
           isFirst(shim[shimTaken + 1]), NEW p, p = shim[shimTaken + 1].pid
    PROVE  /\ \A q \in Pids : ~ShimFirst(q) /\ ~FileFirst(q)'
           /\ \A q \in Pids \ {p} : ~FileFirst(q) /\ ~ShimFirst(q)'
           /\ ShimFirst(p)' <=> ~FileFirst(p)
           /\ ~FileFirst(p) => taken[p] < Len(file[p]) /\ NextLine(p) = shim[shimTaken + 1]
<1> DEFINE l == shim[shimTaken + 1]
<1>1. /\ shimTaken \in Nat /\ Len(shim) \in Nat /\ shimTaken < Len(shim) /\ shimTaken' = shimTaken + 1
      /\ taken' = taken /\ file' = file /\ shim' = shim /\ l.call = "marker" /\ p \in Pids
  BY NextShim DEF treeVars
<1>2. InTurn(l)
  BY ShimTurn
<1>3. /\ l \in Lines /\ l.n \in Nat /\ shimTaken + 1 \in 1..Len(shim)
      /\ shimTaken \in 1..Len(shim) => shim[shimTaken].n < l.n
      /\ taken[p] \in Nat /\ Len(file[p]) \in Nat
  BY <1>1, Times
<1>4. p = l.pid
  OBVIOUS
<1>5. l = shim[shimTaken + 1]
  OBVIOUS
<1> HIDE DEF l
<1>6. ASSUME NEW q \in Pids, ShimFirst(q) PROVE FALSE
  <2>1. l = shim[shimTaken] /\ shimTaken > 0
    BY <1>2, <1>6, HalfTurn DEF ShimFirst
  <2> QED BY <1>1, <1>3, <2>1
<1>7. ASSUME NEW q \in Pids \ {p}, FileFirst(q) PROVE FALSE
  <2>1. l = file[q][taken[q]] /\ taken[q] > 0
    BY <1>2, <1>7, HalfTurn DEF FileFirst
  <2>2. taken[q] \in 1..Len(file[q])
    BY <2>1, Times
  <2>3. l.pid = q
    BY <2>1, <2>2, Times
  <2> QED BY <1>4, <2>3
<1>8. ASSUME NEW q \in Pids, FileFirst(q)' PROVE FALSE
  <2>1. /\ taken[q] > 0 /\ shimTaken + 1 < Len(shim)
        /\ shim[shimTaken + 1 + 1] = file[q][taken[q]]
    BY <1>1, <1>8 DEF FileFirst
  <2>2. taken[q] \in 1..taken[q]
    BY <2>1, Times
  <2>3. file[q][taken[q]].n <= l.n
    BY <1>2, <2>2 DEF InTurn
  <2>4. shimTaken + 2 \in 1..Len(shim) /\ shimTaken + 1 < shimTaken + 2 /\ shimTaken + 1 + 1 = shimTaken + 2
    BY <1>1, <2>1
  <2>5. l.n < shim[shimTaken + 2].n /\ shim[shimTaken + 2].n \in Nat
    BY <1>3, <1>5, <2>4, Times
  <2> QED BY <1>3, <2>1, <2>3, <2>4, <2>5
<1>9. ASSUME NEW q \in Pids \ {p}, ShimFirst(q)' PROVE FALSE
  <2>1. taken[q] < Len(file[q]) /\ file[q][taken[q] + 1] = l
    BY <1>1, <1>5, <1>9 DEF ShimFirst, NextLine
  <2>2. taken[q] + 1 \in 1..Len(file[q])
    BY <2>1, Times
  <2>3. l.pid = q
    BY <2>1, <2>2, Times
  <2> QED BY <1>4, <2>3
<1>10. ASSUME ~FileFirst(p) PROVE taken[p] < Len(file[p]) /\ file[p][taken[p] + 1] = l
  <2>1. PICK i \in 1..Len(file[p]) : file[p][i] = l
    BY <1>1, <1>3, <1>4, <1>5 DEF KernelInv, ShimInv
  <2>2. i \notin 1..taken[p]
    <3> SUFFICES ASSUME i \in 1..taken[p] PROVE FALSE
      OBVIOUS
    <3>1. taken[p] \in 1..taken[p] /\ taken[p] \in 1..Len(file[p])
      BY <1>3, Times
    <3>2. file[p][taken[p]].n <= l.n
      BY <1>1, <1>2, <3>1 DEF InTurn
    <3>3. ~(i < taken[p])
      <4> SUFFICES ASSUME i < taken[p] PROVE FALSE
        OBVIOUS
      <4>1. file[p][i].n < file[p][taken[p]].n /\ file[p][taken[p]].n \in Nat
        BY <1>1, <3>1, Times
      <4> QED BY <1>3, <2>1, <3>2, <4>1
    <3>4. i = taken[p]
      BY <1>3, <3>3
    <3>5. FileFirst(p)
      BY <1>1, <1>3, <1>5, <2>1, <3>1, <3>4 DEF FileFirst
    <3> QED BY <1>10, <3>5
  <2>3. taken[p] + 1 \in 1..Len(file[p]) /\ (i = taken[p] + 1 \/ taken[p] + 1 < i) /\ taken[p] < Len(file[p])
        /\ taken[p] + 1 \in (taken[p] + 1)..Len(file[p])
    BY <1>3, <2>1, <2>2
  <2>4. l.n <= file[p][taken[p] + 1].n
    BY <1>1, <1>2, <2>3 DEF InTurn
  <2>5. ~(taken[p] + 1 < i)
    <3> SUFFICES ASSUME taken[p] + 1 < i PROVE FALSE
      OBVIOUS
    <3>1. file[p][taken[p] + 1].n < file[p][i].n /\ file[p][taken[p] + 1].n \in Nat
      BY <1>1, <2>3, Times
    <3>2. file[p][taken[p] + 1].n < l.n
      BY <2>1, <3>1
    <3> QED BY <1>3, <2>4, <3>1, <3>2
  <2> QED BY <2>1, <2>3, <2>5
<1>11. ~FileFirst(p) => ShimFirst(p)'
  BY <1>1, <1>5, <1>10 DEF ShimFirst, NextLine
<1>12. ASSUME FileFirst(p), ShimFirst(p)' PROVE FALSE
  <2>1. /\ l = file[p][taken[p]] /\ taken[p] > 0 /\ taken[p] < Len(file[p])
        /\ file[p][taken[p] + 1] = l
    BY <1>1, <1>2, <1>5, <1>12, HalfTurn DEF ShimFirst, FileFirst, NextLine
  <2>2. taken[p] \in 1..Len(file[p]) /\ taken[p] + 1 \in 1..Len(file[p]) /\ taken[p] < taken[p] + 1
    BY <1>3, <2>1
  <2>3. l.n < l.n
    BY <1>1, <2>1, <2>2, Times
  <2> QED BY <1>3, <2>3
<1> QED
  BY <1>5, <1>6, <1>7, <1>8, <1>9, <1>10, <1>11, <1>12 DEF NextLine

\* What the lines taken say of the program of a process when l is next, and the other way round.
LEMMA TakenSince ==
    ASSUME TypeOK, KernelInv, NumberInv, Bounds, NEW l, InTurn(l), NEW q \in Pids,
           NEW i \in 1..taken[q], file[q][i].call = "exec", file[q][i] # l
    PROVE  /\ (\A j \in (i + 1)..taken[q] : file[q][j].call \notin {"exec", "marker"})
                 => Since(file[q], i, l.n)
           /\ (\A j \in (i + 1)..taken[q] : file[q][j].call # "exec") => Within(file[q], i, l.n)
<1>1. /\ i \in 1..Len(file[q]) /\ file[q][i] \in Lines /\ file[q][i].n \in Nat /\ l \in Lines /\ l.n \in Nat
      /\ taken[q] \in Nat /\ Len(file[q]) \in Nat
  <2>1. i \in 1..Len(file[q]) /\ l \in Lines
    BY Times DEF InTurn
  <2> QED BY <2>1, Times
<1>2. file[q][i].n < l.n
  <2>1. file[q][i].n <= l.n
    BY DEF InTurn
  <2>2. file[q][i].n # l.n
    BY <1>1, Times
  <2> QED BY <1>1, <2>1, <2>2
<1>3. \A j \in (i + 1)..Len(file[q]) : j \in (i + 1)..taken[q] \/ l.n <= file[q][j].n
  <2> SUFFICES ASSUME NEW j \in (i + 1)..Len(file[q]), j \notin (i + 1)..taken[q]
               PROVE  l.n <= file[q][j].n
    OBVIOUS
  <2>1. j \in (taken[q] + 1)..Len(file[q])
    BY <1>1
  <2> QED BY <2>1 DEF InTurn
<1> QED
  BY <1>2, <1>3 DEF Since, Within

LEMMA SinceTaken ==
    ASSUME TypeOK, KernelInv, NumberInv, Bounds, NEW l, InTurn(l), l.call \notin {"exec", "marker"},
           NEW q \in Pids, NEW i \in 1..Len(file[q]), Since(file[q], i, l.n)
    PROVE  /\ i \in 1..taken[q]
           /\ \A j \in (i + 1)..taken[q] : file[q][j].call \notin {"exec", "marker"}
<1>1. /\ file[q][i].n \in Nat /\ l \in Lines /\ l.n \in Nat
      /\ taken[q] \in Nat /\ Len(file[q]) \in Nat /\ taken[q] <= Len(file[q])
  <2>1. l \in Lines
    BY DEF InTurn
  <2> QED BY <2>1, Times
<1>2. i \in 1..taken[q]
  <2> SUFFICES ASSUME i \in (taken[q] + 1)..Len(file[q]) PROVE FALSE
    BY <1>1
  <2>1. l.n <= file[q][i].n
    BY DEF InTurn
  <2> QED BY <1>1, <2>1 DEF Since
<1>3. ASSUME NEW j \in (i + 1)..taken[q], file[q][j].call \in {"exec", "marker"} PROVE FALSE
  <2>1. j \in (i + 1)..Len(file[q]) /\ j \in 1..taken[q] /\ j \in 1..Len(file[q])
    BY <1>1, <1>2
  <2>2. l.n <= file[q][j].n
    BY <1>3, <2>1 DEF Since
  <2>3. file[q][j].n <= l.n
    BY <2>1 DEF InTurn
  <2>4. file[q][j].n \in Nat /\ file[q][j] \in Lines
    BY <2>1, Times
  <2>5. file[q][j] = l
    <3>1. file[q][j].n = l.n
      BY <1>1, <2>2, <2>3, <2>4
    <3> QED BY <1>1, <2>4, <3>1, Times
  <2> QED BY <1>3, <2>5
<1> QED
  BY <1>2, <1>3

-----------------------------------------------------------------------------
(* Who starts, when the lines are taken in order.                          *)

\* Below a process are only its threads.
LEMMA SubtreeBelow ==
    ASSUME TypeOK, KernelInv, NumberInv, Bounds, BelowInv, NEW p \in Pids
    PROVE  /\ p \in nodeBootstrapSubtree(p)
           /\ \A c \in nodeBootstrapSubtree(p) :
                 c = p \/ \E i \in 1..taken[p] : file[p][i].call = "thread" /\ file[p][i].child = c
<1> DEFINE S == {c \in Pids : c = p \/ \E i \in 1..taken[p] : /\ file[p][i].call = "thread"
                                                            /\ file[p][i].child = c}
<1>1. boot.children \in [Pids -> SUBSET Pids]
  BY DEF TypeOK
<1>2. ASSUME NEW x \in S, NEW c \in boot.children[x] PROVE c \in S
  <2>1. PICK i \in 1..taken[x] : file[x][i].call = "thread" /\ file[x][i].child = c
    BY DEF BelowInv
  <2>2. c \in Pids
    BY <1>1
  <2>3. x = p
    <3> SUFFICES ASSUME NEW j \in 1..taken[p], file[p][j].call = "thread", file[p][j].child = x
                 PROVE  FALSE
      OBVIOUS
    <3>1. j \in 1..Len(file[p]) /\ i \in 1..Len(file[x])
      BY <2>1, Times
    <3>2. leader[x] # x
      BY <3>1 DEF KernelInv, BirthInv
    <3>3. file[x][i].call = "read"
      BY <3>1, <3>2 DEF KernelInv, ThreadInv
    <3> QED BY <2>1, <3>3
  <2> QED BY <2>1, <2>2, <2>3
<1>3. p \in S /\ S \in SUBSET Pids
  OBVIOUS
<1>4. \A x \in S : boot.children[x] \subseteq S
  BY <1>2
<1> HIDE DEF S
<1>5. nodeBootstrapSubtree(p) \subseteq S
  BY <1>3, <1>4 DEF nodeBootstrapSubtree
<1>6. p \in nodeBootstrapSubtree(p)
  BY DEF nodeBootstrapSubtree
<1> QED
  BY <1>5, <1>6 DEF S

LEMMA SubtreeOf ==
    ASSUME TypeOK, KernelInv, NumberInv, OriginInv, Bounds, BelowInv, NEW p \in Pids, leader[p] = p
    PROVE  /\ \A q \in Pids \ {p} : leader[q] = q => q \notin nodeBootstrapSubtree(p)
           /\ \A q \in Pids \ {p} : \A j \in 1..taken[q] :
                 file[q][j].call = "thread" => file[q][j].child \notin nodeBootstrapSubtree(p)
<1>1. \A q \in Pids : \A i \in 1..taken[q] : file[q][i].call = "thread" =>
          /\ leader[file[q][i].child] # file[q][i].child
          /\ file[q][i] \in Births /\ file[q][i].pid = q
  <2> SUFFICES ASSUME NEW q \in Pids, NEW i \in 1..taken[q], file[q][i].call = "thread"
               PROVE  /\ leader[file[q][i].child] # file[q][i].child
                      /\ file[q][i] \in Births /\ file[q][i].pid = q
    OBVIOUS
  <2>1. i \in 1..Len(file[q])
    BY Times
  <2>2. file[q][i].child # None /\ leader[file[q][i].child] # file[q][i].child
    BY <2>1 DEF KernelInv, BirthInv
  <2> QED BY <2>1, <2>2, LineFacts
<1>2. ASSUME NEW q \in Pids \ {p}, leader[q] = q, q \in nodeBootstrapSubtree(p) PROVE FALSE
  BY <1>1, <1>2, SubtreeBelow
<1>3. ASSUME NEW q \in Pids \ {p}, NEW j \in 1..taken[q], file[q][j].call = "thread",
             file[q][j].child \in nodeBootstrapSubtree(p)
      PROVE  FALSE
  <2>1. file[q][j].child # p
    BY <1>1, <1>3
  <2>2. PICK i \in 1..taken[p] : file[p][i].call = "thread" /\ file[p][i].child = file[q][j].child
    BY <1>3, <2>1, SubtreeBelow
  <2>3. file[p][i] = file[q][j]
    BY <1>1, <1>3, <2>2 DEF OriginInv
  <2> QED BY <1>1, <1>3, <2>2, <2>3
<1> QED
  BY <1>2, <1>3

TableInv == FilePendingInv /\ EnvPendingInv /\ SpreadInv /\ BelowInv /\ ToldInv

\* A program is executed or has told: nothing is below its process.
LEMMA Cleared ==
    ASSUME TypeOK, KernelInv, NumberInv, OriginInv, Bounds, SpreadInv, BelowInv,
           NEW p, NEW call \in {"exec", "marker"}, TakeFile(p, call),
           \A q \in Pids \ {p} : q \notin nodeBootstrapSubtree(p) => (q \in boot'.file <=> q \in boot.file),
           \A q \in Pids : boot'.children[q] \subseteq boot.children[q]
    PROVE  /\ SpreadInv' /\ BelowInv' /\ leader[p] = p
           /\ \A q \in Pids \ {p} : leader[q] = q => (q \in boot'.file <=> q \in boot.file)
<1>1. /\ p \in Pids /\ file' = file /\ leader' = leader
      /\ taken'[p] = taken[p] + 1 /\ \A q \in Pids \ {p} : taken'[q] = taken[q]
      /\ file[p][taken[p] + 1] = NextLine(p) /\ taken[p] + 1 \in 1..Len(file[p])
      /\ NextLine(p).call = call
      /\ taken[p] \in Nat
  BY Advance, NextOf
<1>2. leader[p] = p
  BY <1>1 DEF KernelInv, ThreadInv
<1>3. BelowInv'
  <2> SUFFICES ASSUME NEW q \in Pids, NEW c \in boot'.children[q]
               PROVE  \E i \in 1..taken'[q] : file[q][i].call = "thread" /\ file[q][i].child = c
    BY <1>1 DEF BelowInv
  <2>1. PICK i \in 1..taken[q] : file[q][i].call = "thread" /\ file[q][i].child = c
    BY DEF BelowInv
  <2>2. i \in 1..taken'[q]
    BY <1>1
  <2> QED BY <2>1, <2>2
<1>4. SpreadInv'
  <2> SUFFICES ASSUME NEW q \in Pids, NEW i \in 1..taken'[q],
                      file[q][i].call = "exec" /\ file[q][i].node,
                      \A j \in (i + 1)..taken'[q] : file[q][j].call \notin {"exec", "marker"},
                      NEW j \in (i + 1)..taken'[q], file[q][j].call = "thread"
               PROVE  file[q][j].child \in boot'.file
    BY <1>1 DEF SpreadInv
  <2>1. q # p
    <3> SUFFICES ASSUME q = p PROVE FALSE
      OBVIOUS
    <3>1. i \in 1..(taken[p] + 1) /\ j \in (i + 1)..(taken[p] + 1)
      BY <1>1
    <3>2. taken[p] + 1 \in (i + 1)..(taken[p] + 1)
      BY <1>1, <3>1
    <3> QED BY <1>1, <3>2
  <2>2. i \in 1..taken[q] /\ taken'[q] = taken[q] /\ j \in 1..taken[q]
    BY <1>1, <2>1, Times
  <2>3. file[q][j].child \in boot.file
    BY <2>2 DEF SpreadInv
  <2>4. file[q][j].child \notin nodeBootstrapSubtree(p)
    BY <1>1, <1>2, <2>1, <2>2, SubtreeOf
  <2>5. file[q][j].child \in Pids /\ file[q][j].child # p
    <3>1. j \in 1..Len(file[q])
      BY <2>2, Times
    <3>2. leader[file[q][j].child] # file[q][j].child
      BY <3>1 DEF KernelInv, BirthInv
    <3> QED BY <1>2, <2>3, <3>2 DEF TypeOK
  <2> QED BY <2>3, <2>4, <2>5
<1>5. ASSUME NEW q \in Pids \ {p}, leader[q] = q PROVE q \in boot'.file <=> q \in boot.file
  BY <1>1, <1>2, <1>5, SubtreeOf
<1> QED
  BY <1>2, <1>3, <1>4, <1>5

\* What the clearing of p leaves.
LEMMA ClearFacts ==
    ASSUME TypeOK, NEW p \in Pids
    PROVE  /\ p \in nodeBootstrapSubtree(p)
           /\ clearNodeBootstrap(p).file = boot.file \ nodeBootstrapSubtree(p)
           /\ clearNodeBootstrap(p).env = boot.env \ nodeBootstrapSubtree(p)
           /\ beginNodeBootstrap(p).file = (boot.file \ nodeBootstrapSubtree(p)) \cup {p}
           /\ beginNodeBootstrap(p).env = (boot.env \ nodeBootstrapSubtree(p)) \cup {p}
           /\ clearNodeBootstrapFile(p).file = boot.file \ nodeBootstrapSubtree(p)
           /\ clearNodeBootstrapFile(p).env = boot.env
           /\ clearNodeBootstrapEnv(p).file = boot.file
           /\ clearNodeBootstrapEnv(p).env = boot.env \ nodeBootstrapSubtree(p)
           /\ clearNodeBootstrapEnv(p).children = boot.children
           /\ clearNodeBootstrapEnv(p).completed = boot.completed
           /\ \A q \in Pids : /\ clearNodeBootstrap(p).children[q] \subseteq boot.children[q]
                              /\ beginNodeBootstrap(p).children[q] \subseteq boot.children[q]
                              /\ clearNodeBootstrapFile(p).children[q] \subseteq boot.children[q]
<1>1. p \in nodeBootstrapSubtree(p)
  BY DEF nodeBootstrapSubtree
<1>2. boot \in Boots
  BY DEF TypeOK, Boots
<1> QED
  BY <1>1, <1>2 DEF clearNodeBootstrap, beginNodeBootstrap, clearNodeBootstrapFile,
      clearNodeBootstrapEnv, Boots

LEMMA TableExec ==
    ASSUME TypeOK, KernelInv, HistoryInv, Bounds, OrderInv, TableInv, NEW p, TakeExec(p),
           isFirst(NextLine(p))
    PROVE  TableInv'
<1>1. TakeFile(p, "exec")
  BY DEF TakeExec, Take
<1>2. /\ p \in Pids /\ leader' = leader
      /\ \A q \in Pids \ {p} : Starting(q)' = Starting(q)
      /\ Starting(p)' <=> NextLine(p).node
  BY <1>1, Advance, NextOf
<1>3. Whole /\ Whole'
  BY <1>1, FileWhole DEF HistoryInv
<1>4. boot' = IF NextLine(p).node THEN beginNodeBootstrap(p) ELSE clearNodeBootstrap(p)
  BY DEF TakeExec
<1>5. /\ p \in boot'.file <=> NextLine(p).node
      /\ p \in boot'.env <=> NextLine(p).node
      /\ \A q \in Pids \ {p} : q \in boot'.env => q \in boot.env
      /\ \A q \in Pids \ {p} : q \notin nodeBootstrapSubtree(p) => (q \in boot'.file <=> q \in boot.file)
      /\ \A q \in Pids : boot'.children[q] \subseteq boot.children[q]
  BY <1>2, <1>4, ClearFacts
<1>6. /\ SpreadInv' /\ BelowInv' /\ leader[p] = p
      /\ \A q \in Pids \ {p} : leader[q] = q => (q \in boot'.file <=> q \in boot.file)
  BY <1>1, <1>5, Cleared DEF TableInv, HistoryInv
<1>7. FilePendingInv'
  <2> SUFFICES ASSUME NEW q \in Pids, leader[q] = q
               PROVE  /\ Starting(q)' => q \in boot'.file
                      /\ q \in boot'.file => Starting(q)'
    BY <1>2 DEF FilePendingInv
  <2>1. CASE q = p
    BY <1>2, <1>5, <2>1
  <2>2. CASE q # p
    BY <1>2, <1>3, <1>6, <2>2 DEF TableInv, FilePendingInv, Whole
  <2> QED BY <2>1, <2>2
<1>8. EnvPendingInv'
  <2> SUFFICES ASSUME NEW q \in Pids, leader[q] = q
               PROVE  q \in boot'.env => Starting(q)'
    BY <1>2, <1>3 DEF EnvPendingInv, Whole
  <2>1. CASE q = p
    BY <1>2, <1>5, <2>1
  <2>2. CASE q # p
    BY <1>2, <1>3, <1>5, <2>2 DEF TableInv, EnvPendingInv, Whole
  <2> QED BY <2>1, <2>2
<1>9. ToldInv'
  BY <1>3 DEF ToldInv, Whole
<1> QED
  BY <1>6, <1>7, <1>8, <1>9 DEF TableInv

\* A fork of a Node that starts is none: it forks when it has started.
LEMMA CloneStarted ==
    ASSUME TypeOK, KernelInv, NumberInv, Bounds, NEW p, TakeFile(p, "clone")
    PROVE  ~Starting(p)
<1> SUFFICES ASSUME Starting(p) PROVE FALSE
  OBVIOUS
<1>1. /\ p \in Pids /\ taken[p] \in Nat /\ Len(file[p]) \in Nat /\ taken[p] < Len(file[p])
      /\ file[p][taken[p] + 1].call = "clone"
  BY NextOf
<1>2. PICK i \in 1..taken[p] :
          /\ file[p][i].call = "exec" /\ file[p][i].node
          /\ \A j \in (i + 1)..taken[p] : file[p][j].call \notin {"exec", "marker"}
  BY DEF Starting
<1>3. i \in 1..Len(file[p]) /\ taken[p] + 1 \in (i + 1)..Len(file[p]) /\ taken[p] + 1 \in 1..Len(file[p])
  BY <1>1
<1>4. \A j \in (i + 1)..(taken[p] + 1) : j \in (i + 1)..taken[p] \/ j = taken[p] + 1
  BY <1>1
<1>5. \A j \in (i + 1)..(taken[p] + 1) : file[p][j].call \notin {"exec", "marker"}
  BY <1>1, <1>2, <1>4
<1>6. file[p][taken[p] + 1].startup
  BY <1>1, <1>2, <1>3, <1>5 DEF KernelInv, StartInv
<1> QED
  BY <1>1, <1>3, <1>6 DEF KernelInv, CloneInv

LEMMA TableClone ==
    ASSUME TypeOK, KernelInv, HistoryInv, Bounds, OrderInv, TableInv, NEW p,
           NEW call \in {"clone", "thread"}, TakeClone(p, call), isFirst(NextLine(p))
    PROVE  TableInv'
<1> DEFINE c == NextLine(p).child
<1>1. TakeFile(p, call)
  BY DEF TakeClone, Take
<1>20. \A q \in Pids : Starting(q)' <=> Starting(q)
  <2>1. Starting(p)' <=> Starting(p)
    BY <1>1, Advance
  <2> QED BY <1>1, <2>1, Advance
<1>2. /\ p \in Pids /\ leader' = leader /\ file' = file
      /\ \A q \in Pids : Starting(q)' <=> Starting(q)
      /\ \A q \in Pids \ {p} : taken'[q] = taken[q]
      /\ taken'[p] = taken[p] + 1 /\ taken[p] \in Nat /\ taken[p] + 1 \in 1..Len(file[p])
      /\ file[p][taken[p] + 1] = NextLine(p) /\ NextLine(p).call = call
  BY <1>1, <1>20, Advance, NextOf
<1>3. Whole /\ Whole'
  BY <1>1, FileWhole DEF HistoryInv
<1>4. boot' = propagateNodeBootstrap(p, c) /\ c \in Pids /\ boot \in Boots
  <2>1. BirthInv
    BY DEF KernelInv
  <2>2. c \in Pids
    BY <2>1, TakeCloneType
  <2> QED BY <2>2 DEF TakeClone, TypeOK, Boots
<1>5. leader[p] = p
  BY <1>2 DEF KernelInv, ThreadInv
<1>6. /\ boot'.env = boot.env \cup {q \in {c} : p \in boot.env}
      /\ boot'.file = boot.file \cup {q \in {c} : p \in boot.file}
      /\ \A q \in Pids \ {p} : boot'.children[q] = boot.children[q]
      /\ boot'.children[p] = boot.children[p] \cup {q \in {c} : p \in boot.env \cup boot.file}
  BY <1>2, <1>4 DEF propagateNodeBootstrap, Boots
<1>7. call = "clone" => p \notin boot.file /\ p \notin boot.env
  BY <1>1, <1>2, <1>3, <1>5, CloneStarted
     DEF TableInv, FilePendingInv, EnvPendingInv, Whole, HistoryInv
<1>8. call = "thread" => leader[c] # c
  BY <1>2 DEF KernelInv, BirthInv
<1> HIDE DEF c
<1>9. \A q \in Pids : leader[q] = q => (q \in boot'.file <=> q \in boot.file)
                                       /\ (q \in boot'.env <=> q \in boot.env)
  BY <1>6, <1>7, <1>8
<1>10. FilePendingInv'
  BY <1>2, <1>3, <1>9 DEF TableInv, FilePendingInv, Whole
<1>11. EnvPendingInv'
  BY <1>2, <1>3, <1>9 DEF TableInv, EnvPendingInv, Whole
<1>12. ToldInv'
  BY <1>3 DEF ToldInv, Whole
<1>13. BelowInv'
  <2> SUFFICES ASSUME NEW q \in Pids, NEW d \in boot'.children[q]
               PROVE  \E i \in 1..taken'[q] : file[q][i].call = "thread" /\ file[q][i].child = d
    BY <1>2 DEF BelowInv
  <2>1. CASE d \in boot.children[q]
    <3>1. PICK i \in 1..taken[q] : file[q][i].call = "thread" /\ file[q][i].child = d
      BY <2>1 DEF TableInv, BelowInv
    <3>2. i \in 1..taken'[q]
      BY <1>2
    <3> QED BY <3>1, <3>2
  <2>2. CASE d \notin boot.children[q]
    <3>1. q = p /\ d = c /\ call = "thread"
      BY <1>6, <1>7, <2>2
    <3>2. taken[p] + 1 \in 1..taken'[p]
      BY <1>2
    <3> QED BY <1>2, <3>1, <3>2 DEF c
  <2> QED BY <2>1, <2>2
<1>14. SpreadInv'
  <2> SUFFICES ASSUME NEW q \in Pids, NEW i \in 1..taken'[q],
                      file[q][i].call = "exec" /\ file[q][i].node,
                      \A j \in (i + 1)..taken'[q] : file[q][j].call \notin {"exec", "marker"},
                      NEW j \in (i + 1)..taken'[q], file[q][j].call = "thread"
               PROVE  file[q][j].child \in boot'.file
    BY <1>2 DEF SpreadInv
  <2>1. i \in 1..taken[q] /\ \A k \in (i + 1)..taken[q] : k \in (i + 1)..taken'[q]
    <3>1. CASE q = p
      <4>1. i # taken[p] + 1
        BY <1>2, <3>1
      <4> QED BY <1>2, <3>1, <4>1
    <3>2. CASE q # p
      BY <1>2, <3>2
    <3> QED BY <3>1, <3>2
  <2>2. \A k \in (i + 1)..taken[q] : file[q][k].call \notin {"exec", "marker"}
    BY <2>1
  <2>3. CASE j \in (i + 1)..taken[q]
    <3>1. file[q][j].child \in boot.file
      BY <2>1, <2>2, <2>3 DEF TableInv, SpreadInv
    <3> QED BY <1>6, <3>1
  <2>4. CASE j \notin (i + 1)..taken[q]
    <3>1. q = p /\ j = taken[p] + 1
      BY <1>2, <2>4
    <3>2. Starting(p)
      BY <2>1, <2>2, <3>1 DEF Starting
    <3>3. p \in boot.file
      BY <1>2, <1>5, <3>2 DEF TableInv, FilePendingInv
    <3> QED BY <1>2, <1>6, <3>1, <3>3 DEF c
  <2> QED BY <2>3, <2>4
<1> QED
  BY <1>10, <1>11, <1>12, <1>13, <1>14 DEF TableInv

LEMMA TableMarker ==
    ASSUME TypeOK, KernelInv, HistoryInv, Bounds, OrderInv, TableInv, NEW p, TakeMarker(p),
           isFirst(NextLine(p))
    PROVE  TableInv'
<1>1. TakeFile(p, "marker")
  BY DEF TakeMarker, Take
<1>2. /\ p \in Pids /\ leader' = leader
      /\ \A q \in Pids \ {p} : Starting(q)' = Starting(q)
      /\ ~Starting(p)'
  BY <1>1, Advance, NextOf
<1>3. /\ \A q \in Pids : ~FileFirst(q) /\ ~ShimFirst(q)'
      /\ \A q \in Pids \ {p} : ~ShimFirst(q) /\ ~FileFirst(q)'
      /\ FileFirst(p)' <=> ~ShimFirst(p)
  BY <1>1, MarkerHalf DEF HistoryInv
<1>4. /\ boot'.file = boot.file \ nodeBootstrapSubtree(p) /\ boot'.env = boot.env
      /\ boot'.completed = clearNodeBootstrapFile(p).completed \cup {p}
      /\ \A q \in Pids : boot'.children[q] \subseteq boot.children[q]
      /\ p \in nodeBootstrapSubtree(p)
  <2>1. boot' = [clearNodeBootstrapFile(p) EXCEPT !.completed = @ \cup {p}]
    BY DEF TakeMarker
  <2>2. clearNodeBootstrapFile(p) \in Boots
    BY <1>2, BootTypes
  <2>3. /\ boot'.file = clearNodeBootstrapFile(p).file /\ boot'.env = clearNodeBootstrapFile(p).env
        /\ boot'.completed = clearNodeBootstrapFile(p).completed \cup {p}
        /\ boot'.children = clearNodeBootstrapFile(p).children
    BY <2>1, <2>2 DEF Boots
  <2> QED BY <1>2, <2>3, ClearFacts
<1>5. /\ SpreadInv' /\ BelowInv' /\ leader[p] = p
      /\ \A q \in Pids \ {p} : leader[q] = q => (q \in boot'.file <=> q \in boot.file)
  BY <1>1, <1>4, Cleared DEF TableInv, HistoryInv
<1>6. FilePendingInv'
  <2> SUFFICES ASSUME NEW q \in Pids, leader[q] = q
               PROVE  /\ Starting(q)' => q \in boot'.file
                      /\ q \in boot'.file => Starting(q)'
    BY <1>2 DEF FilePendingInv
  <2>1. CASE q = p
    BY <1>2, <1>4, <2>1
  <2>2. CASE q # p
    BY <1>2, <1>3, <1>5, <2>2 DEF TableInv, FilePendingInv
  <2> QED BY <2>1, <2>2
<1>7. EnvPendingInv'
  <2> SUFFICES ASSUME NEW q \in Pids, leader[q] = q, q \in boot.env
               PROVE  Starting(q)' \/ FileFirst(q)'
    BY <1>2, <1>3, <1>4 DEF EnvPendingInv
  <2>1. CASE q = p
    BY <1>2, <1>3, <1>5, <2>1 DEF TableInv, EnvPendingInv
  <2>2. CASE q # p
    BY <1>2, <1>3, <2>2 DEF TableInv, EnvPendingInv
  <2> QED BY <2>1, <2>2
<1>8. ToldInv'
  BY <1>3, <1>4 DEF ToldInv
<1> QED
  BY <1>5, <1>6, <1>7, <1>8 DEF TableInv

LEMMA TableShimMarker ==
    ASSUME TypeOK, KernelInv, HistoryInv, Bounds, OrderInv, TableInv, TakeShimMarker,
           isFirst(shim[shimTaken + 1])
    PROVE  TableInv'
<1>0. PICK p : p = shim[shimTaken + 1].pid
  OBVIOUS
<1>1. TakeShim("marker")
  BY DEF TakeShimMarker
<1>2. /\ p \in Pids /\ leader' = leader /\ taken' = taken /\ file' = file
      /\ \A q \in Pids : Starting(q)' <=> Starting(q)
      /\ shimTaken + 1 \in 1..Len(shim)
  <2>1. /\ p \in Pids /\ leader' = leader /\ taken' = taken /\ file' = file
        /\ shimTaken + 1 \in 1..Len(shim)
    BY <1>0, <1>1, NextShim DEF treeVars
  <2> QED BY <2>1 DEF Starting
<1>3. leader[p] = p
  BY <1>0, <1>2 DEF HistoryInv, NamedInv
<1>4. /\ boot'.env = boot.env \ nodeBootstrapSubtree(p) /\ boot'.completed = boot.completed
      /\ boot'.file = boot.file \cup {q \in {p} : stillStarting(p)}
      /\ boot'.children = boot.children /\ p \in nodeBootstrapSubtree(p)
  <2>1. boot' = [clearNodeBootstrapEnv(p) EXCEPT !.file = @ \cup {q \in {p} : stillStarting(p)}]
    BY <1>0 DEF TakeShimMarker
  <2>2. clearNodeBootstrapEnv(p) \in Boots
    BY <1>2, BootTypes
  <2>3. /\ boot'.file = clearNodeBootstrapEnv(p).file \cup {q \in {p} : stillStarting(p)}
        /\ boot'.env = clearNodeBootstrapEnv(p).env
        /\ boot'.completed = clearNodeBootstrapEnv(p).completed
        /\ boot'.children = clearNodeBootstrapEnv(p).children
    BY <2>1, <2>2 DEF Boots
  <2> QED BY <1>2, <2>3, ClearFacts
<1>5. /\ \A q \in Pids : ~ShimFirst(q) /\ ~FileFirst(q)'
      /\ \A q \in Pids \ {p} : ~FileFirst(q) /\ ~ShimFirst(q)'
      /\ ShimFirst(p)' <=> ~FileFirst(p)
  <2>1. NumberInv
    BY DEF HistoryInv
  <2> QED BY <1>0, <1>1, <2>1, ShimHalf
<1>6. FilePendingInv'
  <2> SUFFICES ASSUME NEW q \in Pids, leader[q] = q
               PROVE  /\ Starting(q) => q \in boot'.file
                      /\ q \in boot'.file => Starting(q) \/ ShimFirst(q)'
    BY <1>2 DEF FilePendingInv
  <2>1. Starting(q) <=> q \in boot.file
    BY <1>5 DEF TableInv, FilePendingInv
  <2>2. q \in boot'.file /\ q \notin boot.file => q = p /\ p \notin boot.completed
    BY <1>4 DEF stillStarting
  <2>4. ToldInv
    BY DEF TableInv
  <2>3. p \notin boot.completed => ~FileFirst(p)
    BY <1>2, <2>4 DEF ToldInv
  <2> QED BY <1>4, <1>5, <2>1, <2>2, <2>3
<1>7. EnvPendingInv'
  <2> SUFFICES ASSUME NEW q \in Pids, leader[q] = q
               PROVE  /\ q \in boot'.env => Starting(q)
                      /\ ShimFirst(q)' => q \notin boot'.env
    BY <1>2 DEF EnvPendingInv
  <2>1. p \notin boot'.env
    BY <1>4
  <2>2. q # p /\ q \in boot.env => Starting(q)
    BY <1>5 DEF TableInv, EnvPendingInv
  <2> QED BY <1>4, <1>5, <2>1, <2>2
<1>8. ToldInv'
  BY <1>5 DEF ToldInv
<1>9. SpreadInv'
  <2> SUFFICES ASSUME NEW q \in Pids, NEW i \in 1..taken[q],
                      file[q][i].call = "exec" /\ file[q][i].node,
                      \A j \in (i + 1)..taken[q] : file[q][j].call \notin {"exec", "marker"},
                      NEW j \in (i + 1)..taken[q], file[q][j].call = "thread"
               PROVE  file[q][j].child \in boot'.file
    BY <1>2 DEF SpreadInv
  <2>1. file[q][j].child \in boot.file
    BY DEF TableInv, SpreadInv
  <2> QED BY <1>4, <2>1
<1>10. BelowInv'
  BY <1>2, <1>4 DEF TableInv, BelowInv
<1> QED
  BY <1>6, <1>7, <1>8, <1>9, <1>10 DEF TableInv

\* Where nothing of the bootstrap changes: neither a program nor a thread is told of.
LEMMA TableStays ==
    ASSUME TypeOK, TableInv, UNCHANGED treeVars, boot' = boot, Whole, Whole',
           \A q \in Pids : Starting(q)' <=> Starting(q),
           \A q \in Pids : taken'[q] \in Nat /\ taken[q] <= taken'[q],
           \A q \in Pids : \A i \in (taken[q] + 1)..taken'[q] : file[q][i].call \in {"read", "exit"}
    PROVE  TableInv'
<1>1. file' = file /\ leader' = leader /\ \A q \in Pids : taken[q] \in Nat
  BY DEF treeVars, TypeOK
<1>0. \A q \in Pids : taken'[q] \in Nat /\ taken[q] <= taken'[q]
  OBVIOUS
<1>5. \A q \in Pids : Starting(q)' <=> Starting(q)
  OBVIOUS
<1>6. \A q \in Pids : ~FileFirst(q) /\ ~ShimFirst(q) /\ ~FileFirst(q)' /\ ~ShimFirst(q)'
  BY DEF Whole
<1>2. FilePendingInv' /\ EnvPendingInv' /\ ToldInv'
  <2>1. FilePendingInv'
    BY <1>1, <1>5, <1>6 DEF TableInv, FilePendingInv
  <2>2. EnvPendingInv'
    BY <1>1, <1>5, <1>6 DEF TableInv, EnvPendingInv
  <2>3. ToldInv'
    BY <1>6 DEF ToldInv
  <2> QED BY <2>1, <2>2, <2>3
<1>3. BelowInv'
  <2> SUFFICES ASSUME NEW q \in Pids, NEW d \in boot.children[q]
               PROVE  \E i \in 1..taken'[q] : file[q][i].call = "thread" /\ file[q][i].child = d
    BY <1>1 DEF BelowInv
  <2>1. PICK i \in 1..taken[q] : file[q][i].call = "thread" /\ file[q][i].child = d
    BY DEF TableInv, BelowInv
  <2>2. i \in 1..taken'[q]
    BY <1>0, <1>1
  <2> QED BY <2>1, <2>2
<1>4. SpreadInv'
  <2> SUFFICES ASSUME NEW q \in Pids, NEW i \in 1..taken'[q],
                      file[q][i].call = "exec" /\ file[q][i].node,
                      \A j \in (i + 1)..taken'[q] : file[q][j].call \notin {"exec", "marker"},
                      NEW j \in (i + 1)..taken'[q], file[q][j].call = "thread"
               PROVE  file[q][j].child \in boot.file
    BY <1>1 DEF SpreadInv
  <2>1. \A k \in 1..taken'[q] : k \in 1..taken[q] \/ k \in (taken[q] + 1)..taken'[q]
    BY <1>1
  <2>2. i \in 1..taken[q]
    BY <2>1
  <2>3. j \in 1..taken'[q]
    BY <1>1, <2>2
  <2>4. j \in (i + 1)..taken[q]
    BY <1>1, <2>1, <2>2, <2>3
  <2>5. \A k \in (i + 1)..taken[q] : k \in (i + 1)..taken'[q]
    BY <1>0, <1>1, <2>2
  <2> QED BY <2>2, <2>4, <2>5 DEF TableInv, SpreadInv
<1> QED
  BY <1>2, <1>3, <1>4 DEF TableInv

-----------------------------------------------------------------------------
(* Births, clients and markers that were taken.                            *)

\* Who has a line to be taken was born in a line taken before.
LEMMA BornBefore ==
    ASSUME TypeOK, KernelInv, HistoryInv, Bounds, SeenInv, NEW l, InTurn(l)
    PROVE  l.pid \in seen
<1>1. l \in Lines /\ l.n \in Nat /\ l.pid \in Pids
  <2>1. l \in Lines
    BY DEF InTurn
  <2> QED BY <2>1, Times DEF HistoryInv
<1>2. CASE l.pid = Root
  BY <1>2 DEF SeenInv
<1>3. CASE l.pid # Root
  <2>1. PICK b \in Births : b.child = l.pid /\ b.n < l.n
    BY <1>1, <1>3 DEF HistoryInv, OriginInv
  <2>2. b \in Lines /\ b.child # None /\ b.pid \in Pids /\ b.n \in Nat
    <3>1. b \in Lines /\ b.child # None
      BY DEF Births
    <3> QED BY <3>1, Times DEF HistoryInv
  <2>3. b.call # "env_read"
    <3> SUFFICES ASSUME b.call = "env_read" PROVE FALSE
      OBVIOUS
    <3>1. \/ \E p \in Pids : \E i \in DOMAIN file[p] : b = file[p][i]
          \/ \E k \in DOMAIN shim : b = shim[k]
      BY <2>2, LinesAre
    <3>2. \A p \in Pids : DOMAIN file[p] = 1..Len(file[p])
      BY DEF TypeOK
    <3>3. DOMAIN shim = 1..Len(shim)
      BY DEF TypeOK
    <3>4. ASSUME NEW p \in Pids, NEW i \in DOMAIN file[p], b = file[p][i] PROVE FALSE
      BY <3>2, <3>4 DEF KernelInv, FileInv
    <3>5. ASSUME NEW k \in DOMAIN shim, b = shim[k] PROVE FALSE
      BY <2>2, <3>3, <3>5 DEF KernelInv, ShimInv
    <3> QED BY <3>1, <3>4, <3>5
  <2>4. PICK i \in 1..Len(file[b.pid]) : file[b.pid][i] = b
    BY <2>2, <2>3, LineFacts
  <2>5. i \in 1..taken[b.pid]
    <3> SUFFICES ASSUME i \notin 1..taken[b.pid] PROVE FALSE
      OBVIOUS
    <3>1. taken[b.pid] \in Nat /\ Len(file[b.pid]) \in Nat
      BY <2>2 DEF TypeOK
    <3>2. i \in (taken[b.pid] + 1)..Len(file[b.pid])
      BY <3>1
    <3>3. l.n <= b.n
      BY <2>2, <2>4, <3>2 DEF InTurn
    <3> QED BY <1>1, <2>1, <2>2, <3>3
  <2> QED BY <2>1, <2>2, <2>4, <2>5 DEF SeenInv
<1> QED
  BY <1>2, <1>3

\* The lines taken now tell of no birth that is not seen.
LEMMA SeenKept ==
    ASSUME TypeOK, SeenInv, UNCHANGED treeVars, UNCHANGED deferVars, seen \subseteq seen',
           \A q \in Pids : taken'[q] \in Nat /\ taken[q] <= taken'[q],
           \A q \in Pids : \A i \in (taken[q] + 1)..taken'[q] :
               file[q][i].child # None => file[q][i].child \in seen'
    PROVE  SeenInv'
<1>1. file' = file /\ deferredRelOpens' = deferredRelOpens
      /\ deferredNullAttribEvents' = deferredNullAttribEvents /\ \A q \in Pids : taken[q] \in Nat
  BY DEF treeVars, deferVars, TypeOK
<1>2. ASSUME NEW q \in Pids, NEW i \in 1..taken'[q], file[q][i].child # None
      PROVE  file[q][i].child \in seen'
  <2>1. CASE i \in 1..taken[q]
    BY <1>2, <2>1 DEF SeenInv
  <2>2. CASE i \notin 1..taken[q]
    <3>1. i \in (taken[q] + 1)..taken'[q]
      BY <1>1, <2>2
    <3> QED BY <1>2, <3>1
  <2> QED BY <2>1, <2>2
<1>3. Root \in seen'
  BY DEF SeenInv
<1> QED
  BY <1>1, <1>2, <1>3 DEF SeenInv

\* Nobody has executed anything or exited in the lines taken now, nor is known as a client.
LEMMA ClientsKept ==
    ASSUME TypeOK, ClientPidsInv, UNCHANGED treeVars,
           packageManagerClientPids' \subseteq packageManagerClientPids \cup {Root},
           completedPackageManagerClientPids' \subseteq completedPackageManagerClientPids,
           \A q \in Pids : taken'[q] \in Nat /\ taken[q] <= taken'[q],
           \A q \in Pids : \A i \in (taken[q] + 1)..taken'[q] :
               q \in packageManagerClientPids' => file[q][i].call # "exec"
    PROVE  ClientPidsInv'
<1>1. file' = file /\ \A q \in Pids : taken[q] \in Nat
  BY DEF treeVars, TypeOK
<1>2. ASSUME NEW q \in packageManagerClientPids', q # Root
      PROVE  \E i \in 1..taken'[q] :
                /\ file[q][i].call = "exec" /\ file[q][i].client
                /\ \A j \in (i + 1)..taken'[q] : file[q][j].call # "exec"
  <2>1. q \in packageManagerClientPids /\ q \in Pids
    BY <1>2 DEF TypeOK
  <2>2. PICK i \in 1..taken[q] :
            /\ file[q][i].call = "exec" /\ file[q][i].client
            /\ \A j \in (i + 1)..taken[q] : file[q][j].call # "exec"
    BY <1>2, <2>1 DEF ClientPidsInv
  <2>3. taken[q] \in Nat /\ taken'[q] \in Nat /\ taken[q] <= taken'[q]
    BY <1>1, <2>1
  <2>4. i \in 1..taken'[q]
    BY <2>3
  <2>5. \A j \in (i + 1)..taken'[q] : j \in (i + 1)..taken[q] \/ j \in (taken[q] + 1)..taken'[q]
    BY <2>3
  <2>6. \A j \in (i + 1)..taken'[q] : file[q][j].call # "exec"
    BY <2>1, <2>2, <2>5
  <2> QED BY <2>2, <2>4, <2>6
<1>3. ASSUME NEW q \in completedPackageManagerClientPids', q # Root
      PROVE  \E i \in 1..taken'[q] : file[q][i].call = "exit"
  <2>1. q \in completedPackageManagerClientPids /\ q \in Pids
    BY <1>3 DEF TypeOK
  <2>2. PICK i \in 1..taken[q] : file[q][i].call = "exit"
    BY <1>3, <2>1 DEF ClientPidsInv
  <2>3. i \in 1..taken'[q]
    BY <1>1, <2>1
  <2> QED BY <2>2, <2>3
<1> QED
  BY <1>1, <1>2, <1>3 DEF ClientPidsInv

LEMMA ClientsExec ==
    ASSUME TypeOK, KernelInv, ClientPidsInv, NEW p, TakeExec(p) PROVE ClientPidsInv'
<1>1. TakeFile(p, "exec")
  BY DEF TakeExec, Take
<1>2. /\ p \in Pids /\ file' = file /\ taken'[p] = taken[p] + 1 /\ taken[p] \in Nat
      /\ \A q \in Pids \ {p} : taken'[q] = taken[q]
      /\ file[p][taken[p] + 1] = NextLine(p) /\ NextLine(p).call = "exec"
  BY <1>1, Advance, NextOf
<1>3. /\ packageManagerClientPids' = (packageManagerClientPids \ {p}) \cup {q \in {p} : NextLine(p).client}
      /\ completedPackageManagerClientPids' = completedPackageManagerClientPids \ {p}
      /\ packageManagerClientPids \subseteq Pids /\ completedPackageManagerClientPids \subseteq Pids
  BY DEF TakeExec, TypeOK
<1>4. ASSUME NEW q \in packageManagerClientPids', q # Root
      PROVE  \E i \in 1..taken'[q] :
                /\ file[q][i].call = "exec" /\ file[q][i].client
                /\ \A j \in (i + 1)..taken'[q] : file[q][j].call # "exec"
  <2>1. CASE q = p
    <3>1. NextLine(p).client /\ taken[p] + 1 \in 1..taken'[p]
          /\ \A j \in (taken[p] + 1 + 1)..taken'[p] : FALSE
      BY <1>2, <1>3, <1>4, <2>1
    <3> QED BY <1>2, <2>1, <3>1
  <2>2. CASE q # p
    BY <1>2, <1>3, <1>4, <2>2 DEF ClientPidsInv
  <2> QED BY <2>1, <2>2
<1>5. ASSUME NEW q \in completedPackageManagerClientPids', q # Root
      PROVE  \E i \in 1..taken'[q] : file[q][i].call = "exit"
  BY <1>2, <1>3, <1>5 DEF ClientPidsInv
<1> QED
  BY <1>2, <1>4, <1>5 DEF ClientPidsInv

LEMMA ClientsExit ==
    ASSUME TypeOK, KernelInv, ClientPidsInv, NEW p, TakeExit(p) PROVE ClientPidsInv'
<1>1. TakeFile(p, "exit")
  BY DEF TakeExit, Take
<1>2. /\ p \in Pids /\ file' = file /\ taken'[p] = taken[p] + 1 /\ taken[p] \in Nat
      /\ \A q \in Pids \ {p} : taken'[q] = taken[q]
      /\ file[p][taken[p] + 1] = NextLine(p) /\ NextLine(p).call = "exit"
  BY <1>1, Advance, NextOf
<1>3. /\ packageManagerClientPids' = packageManagerClientPids \ {p}
      /\ completedPackageManagerClientPids' =
             completedPackageManagerClientPids \cup (packageManagerClientPids \cap {p})
      /\ packageManagerClientPids \subseteq Pids /\ completedPackageManagerClientPids \subseteq Pids
  BY DEF TakeExit, TypeOK
<1>4. ASSUME NEW q \in packageManagerClientPids', q # Root
      PROVE  \E i \in 1..taken'[q] :
                /\ file[q][i].call = "exec" /\ file[q][i].client
                /\ \A j \in (i + 1)..taken'[q] : file[q][j].call # "exec"
  BY <1>2, <1>3, <1>4 DEF ClientPidsInv
<1>5. ASSUME NEW q \in completedPackageManagerClientPids', q # Root
      PROVE  \E i \in 1..taken'[q] : file[q][i].call = "exit"
  <2>1. CASE q = p
    <3>1. taken[p] + 1 \in 1..taken'[p]
      BY <1>2
    <3> QED BY <1>2, <2>1, <3>1
  <2>2. CASE q # p
    BY <1>2, <1>3, <1>5, <2>2 DEF ClientPidsInv
  <2> QED BY <2>1, <2>2
<1> QED
  BY <1>2, <1>4, <1>5 DEF ClientPidsInv

\* An end of the reads of the environment is the time of a line of the shim that was taken.
LEMMA EnvEndedKept ==
    ASSUME TypeOK, EnvEndedInv, shim' = shim, shimTaken' \in Nat, shimTaken <= shimTaken',
           envEndedTs' = envEndedTs
    PROVE  EnvEndedInv'
<1>1. shimTaken \in Nat
  BY DEF TypeOK
<1>2. \A k \in 1..shimTaken : k \in 1..shimTaken'
  BY <1>1
<1> QED
  BY <1>2 DEF EnvEndedInv

LEMMA EnvEndedMarker ==
    ASSUME TypeOK, EnvEndedInv, TakeShimMarker PROVE EnvEndedInv'
<1>1. PICK p : p = shim[shimTaken + 1].pid
  OBVIOUS
<1>2. /\ shimTaken \in Nat /\ shimTaken' = shimTaken + 1 /\ shim' = shim /\ p \in Pids
  BY <1>1, NextShim DEF TakeShimMarker, treeVars
<1>3. /\ envEndedTs' = [envEndedTs EXCEPT ![p] = IF @ = 0 THEN shim[shimTaken + 1].n ELSE @]
      /\ envEndedTs \in [Pids -> Nat]
  BY <1>1 DEF TakeShimMarker, TypeOK
<1>4. ASSUME NEW q \in Pids, envEndedTs'[q] # 0
      PROVE  \E k \in 1..(shimTaken + 1) : shim[k].n = envEndedTs'[q]
  <2>1. CASE envEndedTs[q] # 0
    <3>1. PICK k \in 1..shimTaken : shim[k].n = envEndedTs[q]
      BY <2>1 DEF EnvEndedInv
    <3>2. k \in 1..(shimTaken + 1) /\ envEndedTs'[q] = envEndedTs[q]
      BY <1>2, <1>3, <2>1
    <3> QED BY <3>1, <3>2
  <2>2. CASE envEndedTs[q] = 0
    <3>1. envEndedTs'[q] = shim[shimTaken + 1].n
      BY <1>3, <1>4, <2>2
    <3>2. shimTaken + 1 \in 1..(shimTaken + 1)
      BY <1>2
    <3> QED BY <3>1, <3>2
  <2> QED BY <2>1, <2>2
<1> QED
  BY <1>2, <1>4 DEF EnvEndedInv

-----------------------------------------------------------------------------
(* The candidates and what is held back of them.                           *)

\* Of a candidate that has not told yet it stays held back, whatever is taken but the end of
\* its program.
LEMMA HeldKept ==
    ASSUME TypeOK, UNCHANGED treeVars, NEW q \in Pids, NEW e, HeldSince(q, e), ~FileFirst(q),
           WasTaken(e)', e.call = "env_read" => ~ShimFirst(q)',
           \/ taken'[q] = taken[q]
           \/ /\ taken'[q] = taken[q] + 1 /\ file[q][taken[q] + 1].call \notin {"exec", "exit"}
              /\ file[q][taken[q] + 1].call = "marker" => FileFirst(q)'
    PROVE  HeldSince(q, e)'
<1>1. /\ file' = file /\ leader' = leader /\ Lines' = Lines /\ taken[q] \in Nat
  BY StillLines DEF treeVars, TypeOK
<1>2. PICK i \in 1..taken[q] :
          /\ file[q][i].call = "exec" /\ ~file[q][i].node /\ file[q][i].n < e.n
          /\ \A j \in (i + 1)..taken[q] : file[q][j].call \notin {"exec", "exit", "marker"}
  BY DEF HeldSince
<1>3. i \in 1..taken'[q]
  BY <1>1
<1>4. ASSUME NEW j \in (i + 1)..taken'[q]
      PROVE  /\ file[q][j].call \notin {"exec", "exit"}
             /\ file[q][j].call = "marker" => j = taken'[q] /\ FileFirst(q)'
  <2>1. CASE j \in (i + 1)..taken[q]
    BY <1>2, <2>1
  <2>2. CASE j \notin (i + 1)..taken[q]
    <3>1. j = taken[q] + 1 /\ taken'[q] = taken[q] + 1
      BY <1>1, <2>2
    <3> QED BY <3>1, <1>1
  <2> QED BY <2>1, <2>2
<1> QED
  BY <1>1, <1>2, <1>3, <1>4 DEF HeldSince

\* When the program tells, what it read before is seen to be of its start.
LEMMA HeldStartup ==
    ASSUME TypeOK, KernelInv, HistoryInv, Bounds, NEW m, InTurn(m), m.call \in {"marker", "exec"},
           NEW p \in Pids, m.pid = p, leader[p] = p, NEW e, HeldSince(p, e),
           \A i \in 1..taken[p] : file[p][i] = m => m.call = "marker"
    PROVE  e.startup = m.startup /\ (m.call = "marker" => m.startup) /\ (m.call = "exec" => ~m.startup)
<1>1. m \in Lines /\ m.n \in Nat /\ e \in Lines /\ e.n \in Nat /\ e.pid = p /\ NumberInv
  <2>1. m \in Lines /\ e \in Lines /\ e.pid = p /\ NumberInv
    BY DEF InTurn, HeldSince, HistoryInv
  <2> QED BY <2>1, Times
<1>2. PICK i \in 1..taken[p] :
          /\ file[p][i].call = "exec" /\ ~file[p][i].node /\ file[p][i].n < e.n
          /\ \A j \in (i + 1)..taken[p] :
                /\ file[p][j].call \notin {"exec", "exit"}
                /\ file[p][j].call = "marker" => j = taken[p] /\ FileFirst(p)
  BY DEF HeldSince
<1>3. /\ taken[p] \in Nat /\ Len(file[p]) \in Nat /\ taken[p] <= Len(file[p]) /\ i \in 1..Len(file[p])
      /\ file[p][i] \in Lines /\ file[p][i].n \in Nat
  BY <1>1, Times
<1>4. e.n <= m.n
  <2>1. WasTaken(e)
    BY DEF HeldSince
  <2>2. CASE \E j \in 1..taken[p] : file[p][j] = e
    BY <2>2 DEF InTurn
  <2>3. CASE \E k \in 1..shimTaken : shim[k] = e
    BY <2>3 DEF InTurn
  <2> QED BY <1>1, <2>1, <2>2, <2>3 DEF WasTaken
<1>5. file[p][i].n < m.n
  BY <1>1, <1>2, <1>3, <1>4
<1>6. ASSUME NEW j \in (i + 1)..Len(file[p]), file[p][j].call \in {"exec", "marker"}
      PROVE  m.n <= file[p][j].n
  <2>1. CASE j \in (i + 1)..taken[p]
    <3>1. j = taken[p] /\ FileFirst(p)
      BY <1>2, <1>6, <2>1
    <3>2. m = file[p][taken[p]]
      BY <1>1, <3>1, HalfTurn
    <3> QED BY <1>1, <3>1, <3>2
  <2>2. CASE j \notin (i + 1)..taken[p]
    <3>1. j \in (taken[p] + 1)..Len(file[p])
      BY <1>3, <2>2
    <3> QED BY <3>1 DEF InTurn
  <2> QED BY <2>1, <2>2
<1>7. Since(file[p], i, m.n)
  BY <1>2, <1>5, <1>6 DEF Since
<1>8. Since(file[p], i, e.n)
  <2> SUFFICES ASSUME NEW j \in (i + 1)..Len(file[p]), file[p][j].call \in {"exec", "marker"}
               PROVE  e.n <= file[p][j].n
    BY <1>2 DEF Since
  <2>1. m.n <= file[p][j].n
    BY <1>6
  <2>2. file[p][j].n \in Nat
    <3>1. j \in 1..Len(file[p])
      BY <1>3
    <3> QED BY <1>1, <3>1, Times
  <2> QED BY <1>1, <1>4, <2>1, <2>2
<1>9. e.startup = m.startup
  BY <1>1, <1>3, <1>7, <1>8 DEF HistoryInv, SameInv
<1>10. (m.call = "marker" => m.startup) /\ (m.call = "exec" => ~m.startup)
  BY <1>1 DEF HistoryInv, StartupInv
<1> QED
  BY <1>9, <1>10

\* Taking a line in its turn.
LEMMA FileStep ==
    ASSUME TypeOK, KernelInv, HistoryInv, Bounds, OrderInv, NEW p, NEW call, TakeFile(p, call),
           isFirst(NextLine(p))
    PROVE  /\ p \in Pids /\ NumberInv /\ InTurn(NextLine(p)) /\ NextLine(p).pid = p
           /\ NextLine(p).call = call /\ NextLine(p) \in Lines
           /\ \E i \in 1..Len(file[p]) : file[p][i] = NextLine(p)
           /\ file[p][taken[p] + 1] = NextLine(p) /\ taken[p] \in Nat
           /\ taken'[p] = taken[p] + 1 /\ \A q \in Pids \ {p} : taken'[q] = taken[q]
           /\ call # "read" => leader[p] = p
           /\ UNCHANGED treeVars /\ Lines' = Lines /\ leader' = leader /\ file' = file
           /\ \A m \in Lines : WasTaken(m)' <=> WasTaken(m) \/ m = NextLine(p)
<1>1. NumberInv
  BY DEF HistoryInv
<1>2. /\ p \in Pids /\ file[p][taken[p] + 1] = NextLine(p) /\ NextLine(p).call = call
      /\ taken[p] \in Nat /\ taken[p] + 1 \in 1..Len(file[p]) /\ UNCHANGED treeVars
      /\ taken'[p] = taken[p] + 1 /\ \A q \in Pids \ {p} : taken'[q] = taken[q]
      /\ leader' = leader /\ file' = file
  BY Advance, NextOf DEF treeVars
<1>3. NextLine(p).pid = p /\ NextLine(p) \in Lines
  BY <1>1, <1>2, Times
<1>4. call # "read" => leader[p] = p
  BY <1>2 DEF KernelInv, ThreadInv
<1>5. InTurn(NextLine(p))
  BY <1>1, FileTurn
<1>6. Lines' = Lines /\ \A m \in Lines : WasTaken(m)' <=> WasTaken(m) \/ m = NextLine(p)
  BY <1>1, FileTaken
<1> QED
  BY <1>1, <1>2, <1>3, <1>4, <1>5, <1>6

LEMMA ShimStep ==
    ASSUME TypeOK, KernelInv, HistoryInv, Bounds, OrderInv, NEW call, TakeShim(call),
           isFirst(shim[shimTaken + 1]), NEW l, l = shim[shimTaken + 1]
    PROVE  /\ NumberInv /\ InTurn(l) /\ l \in Lines /\ l.pid \in Pids /\ leader[l.pid] = l.pid
           /\ l.call = call /\ taken' = taken /\ shimTaken \in Nat /\ shimTaken' = shimTaken + 1
           /\ UNCHANGED treeVars /\ Lines' = Lines /\ leader' = leader /\ file' = file /\ shim' = shim
           /\ \A m \in Lines : WasTaken(m)' <=> WasTaken(m) \/ m = l
<1>1. NumberInv
  BY DEF HistoryInv
<1>2. /\ shimTaken \in Nat /\ shimTaken' = shimTaken + 1 /\ shimTaken + 1 \in 1..Len(shim)
      /\ UNCHANGED treeVars /\ taken' = taken /\ l.call = call
      /\ leader' = leader /\ file' = file /\ shim' = shim
  BY NextShim DEF treeVars
<1>3. l \in Lines /\ l.pid \in Pids
  BY <1>1, <1>2, Times
<1>4. leader[l.pid] = l.pid
  BY <1>2 DEF HistoryInv, NamedInv
<1>5. InTurn(l)
  BY <1>1, ShimTurn
<1>6. Lines' = Lines /\ \A m \in Lines : WasTaken(m)' <=> WasTaken(m) \/ m = l
  BY <1>1, ShimIsTaken
<1> QED
  BY <1>1, <1>2, <1>3, <1>4, <1>5, <1>6

CandsInv == CandidateInv /\ HeldBackInv

LEMMA CandsExec ==
    ASSUME TypeOK, KernelInv, HistoryInv, Bounds, OrderInv, CandsInv, NEW p, TakeExec(p),
           isFirst(NextLine(p))
    PROVE  CandsInv'
<1>1. TakeFile(p, "exec")
  BY DEF TakeExec, Take
<1>2. /\ p \in Pids /\ UNCHANGED treeVars
      /\ \A q \in Pids \ {p} : taken'[q] = taken[q]
      /\ \A m \in Lines : WasTaken(m)' <=> WasTaken(m) \/ m = NextLine(p)
  BY <1>1, FileStep
<1>3. Whole /\ Whole'
  BY <1>1, FileWhole DEF HistoryInv
<1>4. /\ \A q \in Pids \ {p} : Script(q)' = Script(q)
      /\ Script(p)' <=> ~NextLine(p).node
  BY <1>1, Advance
<1>5. /\ cand'.pids = (cand.pids \ {p}) \cup {q \in {p} : ~NextLine(p).node}
      /\ cand'.marked = cand.marked \ {p} /\ cand'.confirmed = cand.confirmed \ {p}
      /\ cand'.events[p] = {} /\ \A q \in Pids \ {p} : cand'.events[q] = cand.events[q]
  <2>1. cand \in Cands /\ candidateWithout(cand, p) \in Cands
    BY <1>2, CandTypes DEF TypeOK, Cands
  <2>2. cand' = IF NextLine(p).node THEN candidateWithout(cand, p) ELSE beginCandidate(p)
    BY DEF TakeExec
  <2>3. beginCandidate(p) = [candidateWithout(cand, p) EXCEPT !.pids = @ \cup {p}]
    BY DEF beginCandidate
  <2>4. /\ beginCandidate(p).pids = candidateWithout(cand, p).pids \cup {p}
        /\ beginCandidate(p).marked = candidateWithout(cand, p).marked
        /\ beginCandidate(p).confirmed = candidateWithout(cand, p).confirmed
        /\ beginCandidate(p).events = candidateWithout(cand, p).events
    BY <2>1, <2>3 DEF Cands
  <2>5. /\ candidateWithout(cand, p).pids = cand.pids \ {p}
        /\ candidateWithout(cand, p).marked = cand.marked \ {p}
        /\ candidateWithout(cand, p).confirmed = cand.confirmed \ {p}
        /\ candidateWithout(cand, p).events[p] = {}
        /\ \A q \in Pids \ {p} : candidateWithout(cand, p).events[q] = cand.events[q]
    BY <1>2, <2>1, WithoutFacts
  <2> QED BY <2>2, <2>4, <2>5
<1>6. cand.pids \subseteq Pids /\ \A q \in Pids : ~FileFirst(q) /\ ~ShimFirst(q) /\ ~FileFirst(q)' /\ ~ShimFirst(q)'
  BY <1>3 DEF Whole, TypeOK
<1>7. CandidateInv'
  <2>1. ASSUME NEW q \in cand'.pids PROVE Script(q)' /\ q \notin cand'.marked /\ q \notin cand'.confirmed
                                                     /\ ~FileFirst(q)' /\ ~ShimFirst(q)'
    <3>1. CASE q = p
      BY <1>2, <1>4, <1>5, <1>6, <2>1, <3>1
    <3>2. CASE q # p
      BY <1>4, <1>5, <1>6, <2>1, <3>2 DEF CandsInv, CandidateInv
    <3> QED BY <3>1, <3>2
  <2>2. cand'.marked \cup cand'.confirmed \subseteq cand'.pids
    BY <1>5 DEF CandsInv, CandidateInv
  <2> QED BY <2>1, <2>2 DEF CandidateInv
<1>8. HeldBackInv'
  <2> SUFFICES ASSUME NEW q \in Pids, NEW e \in cand'.events[q]
               PROVE  q \in cand'.pids /\ HeldSince(q, e)'
    BY DEF HeldBackInv
  <2>1. q # p /\ e \in cand.events[q]
    BY <1>5
  <2>2. q \in cand.pids /\ HeldSince(q, e)
    BY <2>1 DEF CandsInv, HeldBackInv
  <2>3. WasTaken(e)'
    BY <1>2, <2>2 DEF HeldSince
  <2>4. HeldSince(q, e)'
    BY <1>2, <1>6, <2>1, <2>2, <2>3, HeldKept
  <2> QED BY <1>5, <2>1, <2>2, <2>4
<1> QED
  BY <1>7, <1>8 DEF CandsInv

LEMMA CandsClone ==
    ASSUME TypeOK, KernelInv, HistoryInv, Bounds, OrderInv, CandsInv, NEW p,
           NEW call \in {"clone", "thread"}, TakeFile(p, call), isFirst(NextLine(p)), cand' = cand
    PROVE  CandsInv'
<1>1. call \notin {"exec", "exit", "marker"}
  OBVIOUS
<1>2. /\ p \in Pids /\ UNCHANGED treeVars /\ taken'[p] = taken[p] + 1
      /\ file[p][taken[p] + 1].call = call
      /\ \A q \in Pids \ {p} : taken'[q] = taken[q]
      /\ \A m \in Lines : WasTaken(m)' <=> WasTaken(m) \/ m = NextLine(p)
  BY FileStep
<1>3. Whole /\ Whole'
  BY <1>1, FileWhole DEF HistoryInv
<1>4. /\ \A q \in Pids \ {p} : Script(q)' = Script(q)
      /\ Script(p)' <=> Script(p)
  BY <1>1, Advance
<1>6. cand.pids \subseteq Pids /\ \A q \in Pids : ~FileFirst(q) /\ ~ShimFirst(q) /\ ~FileFirst(q)' /\ ~ShimFirst(q)'
  BY <1>3 DEF Whole, TypeOK
<1>7. CandidateInv'
  <2>1. ASSUME NEW q \in cand.pids PROVE Script(q)' /\ q \notin cand.marked /\ q \notin cand.confirmed
                                                     /\ ~FileFirst(q)' /\ ~ShimFirst(q)'
    <3>1. CASE q = p
      BY <1>2, <1>4, <1>6, <2>1, <3>1 DEF CandsInv, CandidateInv
    <3>2. CASE q # p
      BY <1>4, <1>6, <2>1, <3>2 DEF CandsInv, CandidateInv
    <3> QED BY <3>1, <3>2
  <2>2. cand.marked \cup cand.confirmed \subseteq cand.pids
    BY DEF CandsInv, CandidateInv
  <2> QED BY <2>1, <2>2 DEF CandidateInv
<1>8. HeldBackInv'
  <2> SUFFICES ASSUME NEW q \in Pids, NEW e \in cand.events[q]
               PROVE  q \in cand.pids /\ HeldSince(q, e)'
    BY DEF HeldBackInv
  <2>2. q \in cand.pids /\ HeldSince(q, e)
    BY DEF CandsInv, HeldBackInv
  <2>3. WasTaken(e)'
    BY <1>2, <2>2 DEF HeldSince
  <2>4. taken'[q] = taken[q] \/ (taken'[q] = taken[q] + 1
                                 /\ file[q][taken[q] + 1].call \notin {"exec", "exit", "marker"})
    BY <1>1, <1>2
  <2>5. HeldSince(q, e)'
    BY <1>2, <1>6, <2>2, <2>3, <2>4, HeldKept
  <2> QED BY <2>2, <2>5
<1> QED
  BY <1>7, <1>8 DEF CandsInv

LEMMA CandsExit ==
    ASSUME TypeOK, KernelInv, HistoryInv, Bounds, OrderInv, CandsInv, NEW p, TakeExit(p),
           isFirst(NextLine(p))
    PROVE  CandsInv'
<1>1. TakeFile(p, "exit")
  BY DEF TakeExit, Take
<1>2. /\ p \in Pids /\ UNCHANGED treeVars
      /\ \A q \in Pids \ {p} : taken'[q] = taken[q]
      /\ \A m \in Lines : WasTaken(m)' <=> WasTaken(m) \/ m = NextLine(p)
  BY <1>1, FileStep
<1>3. Whole /\ Whole'
  BY <1>1, FileWhole DEF HistoryInv
<1>4. \A q \in Pids \ {p} : Script(q)' = Script(q)
  BY <1>1, Advance
<1>5. /\ cand'.pids = cand.pids \ {p}
      /\ cand'.marked = cand.marked \ {p} /\ cand'.confirmed = cand.confirmed \ {p}
      /\ cand'.events[p] = {} /\ \A q \in Pids \ {p} : cand'.events[q] = cand.events[q]
  <2>1. cand \in Cands
    BY DEF TypeOK, Cands
  <2>2. cand' = candidateWithout(cand, p)
    BY DEF TakeExit
  <2> QED BY <1>2, <2>1, <2>2, WithoutFacts
<1>6. cand.pids \subseteq Pids /\ \A q \in Pids : ~FileFirst(q) /\ ~ShimFirst(q) /\ ~FileFirst(q)' /\ ~ShimFirst(q)'
  BY <1>3 DEF Whole, TypeOK
<1>7. CandidateInv'
  <2>1. ASSUME NEW q \in cand'.pids PROVE Script(q)' /\ q \notin cand'.marked /\ q \notin cand'.confirmed
                                                     /\ ~FileFirst(q)' /\ ~ShimFirst(q)'
    BY <1>4, <1>5, <1>6, <2>1 DEF CandsInv, CandidateInv
  <2>2. cand'.marked \cup cand'.confirmed \subseteq cand'.pids
    BY <1>5 DEF CandsInv, CandidateInv
  <2> QED BY <2>1, <2>2 DEF CandidateInv
<1>8. HeldBackInv'
  <2> SUFFICES ASSUME NEW q \in Pids, NEW e \in cand'.events[q]
               PROVE  q \in cand'.pids /\ HeldSince(q, e)'
    BY DEF HeldBackInv
  <2>1. q # p /\ e \in cand.events[q]
    BY <1>5
  <2>2. q \in cand.pids /\ HeldSince(q, e)
    BY <2>1 DEF CandsInv, HeldBackInv
  <2>3. WasTaken(e)'
    BY <1>2, <2>2 DEF HeldSince
  <2>4. HeldSince(q, e)'
    BY <1>2, <1>6, <2>1, <2>2, <2>3, HeldKept
  <2> QED BY <1>5, <2>1, <2>2, <2>4
<1> QED
  BY <1>7, <1>8 DEF CandsInv

\* What becomes of a candidate that has told once, or twice.
LEMMA DecideFacts ==
    ASSUME TypeOK, NEW p \in Pids, NEW c \in Cands, DecideCandidate(p, c)
    PROVE  /\ p \in c.confirmed /\ p \in c.marked =>
                 /\ cand'.pids = c.pids \ {p} /\ cand'.marked = c.marked \ {p}
                 /\ cand'.confirmed = c.confirmed \ {p} /\ cand'.events[p] = {}
                 /\ \A q \in Pids \ {p} : cand'.events[q] = c.events[q]
           /\ ~(p \in c.confirmed /\ p \in c.marked) => cand' = c /\ fileReads' = fileReads
           /\ \A z \in fileReads' : z \in fileReads \/ \E e \in c.events[p] : e.call = "read" /\ e.item = z
<1>1. CASE p \in c.confirmed \cap c.marked
  <2>1. cand' = candidateWithout(c, p) /\ fileReads' = fileReads \cup itemsOf(c.events[p], "read")
    BY <1>1 DEF DecideCandidate
  <2>2. \A z \in itemsOf(c.events[p], "read") : \E e \in c.events[p] : e.call = "read" /\ e.item = z
    BY DEF itemsOf
  <2>3. /\ cand'.pids = c.pids \ {p} /\ cand'.marked = c.marked \ {p}
        /\ cand'.confirmed = c.confirmed \ {p} /\ cand'.events[p] = {}
        /\ \A q \in Pids \ {p} : cand'.events[q] = c.events[q]
    BY <2>1, WithoutFacts
  <2> QED BY <1>1, <2>1, <2>2, <2>3
<1>2. CASE p \notin c.confirmed \cap c.marked
  <2>1. cand' = c /\ fileReads' = fileReads
    BY <1>2 DEF DecideCandidate
  <2> QED BY <1>2, <2>1
<1> QED
  BY <1>1, <1>2

LEMMA MarkerCand ==
    ASSUME TypeOK, CandsInv, NEW p, TakeMarker(p)
    PROVE  /\ p \notin cand.pids => cand' = cand /\ fileReads' = fileReads
           /\ p \in cand.pids /\ ~ShimFirst(p) =>
                 /\ cand'.pids = cand.pids /\ cand'.marked = cand.marked \cup {p}
                 /\ cand'.confirmed = cand.confirmed /\ cand'.events = cand.events
                 /\ fileReads' = fileReads
           /\ p \in cand.pids /\ ShimFirst(p) =>
                 /\ cand'.pids = cand.pids \ {p} /\ cand'.marked = cand.marked \ {p}
                 /\ cand'.confirmed = cand.confirmed \ {p} /\ cand'.events[p] = {}
                 /\ \A q \in Pids \ {p} : cand'.events[q] = cand.events[q]
           /\ \A z \in fileReads' : z \in fileReads \/ \E e \in cand.events[p] : e.call = "read" /\ e.item = z
<1>1. p \in Pids /\ cand \in Cands
  <2>1. TakeFile(p, "marker")
    BY DEF TakeMarker, Take
  <2> QED BY <2>1, NextOf DEF TypeOK, Cands
<1>2. /\ cand.marked \cup cand.confirmed \subseteq cand.pids
      /\ p \in cand.pids => (p \in cand.confirmed <=> ShimFirst(p))
  BY DEF CandsInv, CandidateInv
<1>3. CASE p \notin cand.pids
  <2>1. DecideCandidate(p, cand)
    BY <1>3 DEF TakeMarker, IsCandidate
  <2>2. cand' = cand /\ fileReads' = fileReads
    BY <1>1, <1>2, <1>3, <2>1, DecideFacts
  <2> QED BY <1>3, <2>2
<1>4. CASE p \in cand.pids
  <2> DEFINE c == [cand EXCEPT !.marked = @ \cup {p}]
  <2>1. DecideCandidate(p, c)
    BY <1>4 DEF TakeMarker, IsCandidate
  <2>2. /\ c \in Cands /\ c.pids = cand.pids /\ c.marked = cand.marked \cup {p}
        /\ c.confirmed = cand.confirmed /\ c.events = cand.events
    BY ZenonT(60), <1>1, CandTypes DEF Cands
  <2> HIDE DEF c
  <2>3. CASE ShimFirst(p)
    <3>1. p \in c.confirmed /\ p \in c.marked
      BY <1>2, <1>4, <2>2, <2>3
    <3>2. /\ cand'.pids = c.pids \ {p} /\ cand'.marked = c.marked \ {p}
          /\ cand'.confirmed = c.confirmed \ {p} /\ cand'.events[p] = {}
          /\ \A q \in Pids \ {p} : cand'.events[q] = c.events[q]
          /\ \A z \in fileReads' : z \in fileReads \/ \E e \in c.events[p] : e.call = "read" /\ e.item = z
      BY <1>1, <2>1, <2>2, <3>1, DecideFacts
    <3> QED BY <1>4, <2>2, <2>3, <3>2
  <2>4. CASE ~ShimFirst(p)
    <3>1. cand' = c /\ fileReads' = fileReads
      BY <1>1, <1>2, <1>4, <2>1, <2>2, <2>4, DecideFacts
    <3> QED BY <1>4, <2>2, <2>4, <3>1
  <2> QED BY <2>3, <2>4
<1> QED
  BY <1>3, <1>4

LEMMA ShimMarkerCand ==
    ASSUME TypeOK, CandsInv, TakeShimMarker, NEW p, p = shim[shimTaken + 1].pid
    PROVE  /\ p \notin cand.pids => cand' = cand /\ fileReads' = fileReads
           /\ p \in cand.pids /\ ~FileFirst(p) =>
                 /\ cand'.pids = cand.pids /\ cand'.marked = cand.marked
                 /\ cand'.confirmed = cand.confirmed \cup {p}
                 /\ cand'.events[p] = {e \in cand.events[p] : e.call # "env_read"}
                 /\ \A q \in Pids \ {p} : cand'.events[q] = cand.events[q]
                 /\ fileReads' = fileReads
           /\ p \in cand.pids /\ FileFirst(p) =>
                 /\ cand'.pids = cand.pids \ {p} /\ cand'.marked = cand.marked \ {p}
                 /\ cand'.confirmed = cand.confirmed \ {p} /\ cand'.events[p] = {}
                 /\ \A q \in Pids \ {p} : cand'.events[q] = cand.events[q]
           /\ \A z \in fileReads' : z \in fileReads \/ \E e \in cand.events[p] : e.call = "read" /\ e.item = z
<1>1. p \in Pids /\ cand \in Cands
  <2>1. TakeShim("marker")
    BY DEF TakeShimMarker
  <2> QED BY <2>1, NextShim DEF TypeOK, Cands
<1>2. /\ cand.marked \cup cand.confirmed \subseteq cand.pids
      /\ p \in cand.pids => (p \in cand.marked <=> FileFirst(p))
  BY DEF CandsInv, CandidateInv
<1>3. CASE p \notin cand.pids
  <2>1. DecideCandidate(p, cand)
    BY <1>3 DEF TakeShimMarker, IsCandidate
  <2>2. cand' = cand /\ fileReads' = fileReads
    BY <1>1, <1>2, <1>3, <2>1, DecideFacts
  <2> QED BY <1>3, <2>2
<1>4. CASE p \in cand.pids
  <2> DEFINE c == [cand EXCEPT !.confirmed = @ \cup {p},
                               !.events[p] = {e \in @ : e.call # "env_read"}]
  <2>1. DecideCandidate(p, c)
    BY <1>4 DEF TakeShimMarker, IsCandidate
  <2>2. /\ c.pids = cand.pids /\ c.marked = cand.marked
        /\ c.confirmed = cand.confirmed \cup {p}
        /\ c.events[p] = {e \in cand.events[p] : e.call # "env_read"}
        /\ \A q \in Pids \ {p} : c.events[q] = cand.events[q]
    BY <1>1 DEF Cands
  <2>3. c \in Cands
    BY <1>1, CandTypes
  <2> HIDE DEF c
  <2>4. CASE FileFirst(p)
    <3>1. p \in c.confirmed /\ p \in c.marked
      BY <1>2, <1>4, <2>2, <2>4
    <3>2. /\ cand'.pids = c.pids \ {p} /\ cand'.marked = c.marked \ {p}
          /\ cand'.confirmed = c.confirmed \ {p} /\ cand'.events[p] = {}
          /\ \A q \in Pids \ {p} : cand'.events[q] = c.events[q]
          /\ \A z \in fileReads' : z \in fileReads \/ \E e \in c.events[p] : e.call = "read" /\ e.item = z
      BY <1>1, <2>1, <2>3, <3>1, DecideFacts
    <3>3. cand'.confirmed = cand.confirmed \ {p}
      BY <2>2, <3>2
    <3> QED BY <1>4, <2>2, <2>4, <3>2, <3>3
  <2>5. CASE ~FileFirst(p)
    <3>1. cand' = c /\ fileReads' = fileReads
      BY <1>1, <1>2, <1>4, <2>1, <2>2, <2>3, <2>5, DecideFacts
    <3> QED BY <1>4, <2>2, <2>5, <3>1
  <2> QED BY <2>4, <2>5
<1> QED
  BY <1>3, <1>4

LEMMA CandsMarker ==
    ASSUME TypeOK, KernelInv, HistoryInv, Bounds, OrderInv, CandsInv, NEW p, TakeMarker(p),
           isFirst(NextLine(p))
    PROVE  CandsInv'
<1>1. TakeFile(p, "marker")
  BY DEF TakeMarker, Take
<1>2. /\ p \in Pids /\ UNCHANGED treeVars
      /\ file[p][taken[p] + 1].call = "marker" /\ taken'[p] = taken[p] + 1
      /\ \A q \in Pids \ {p} : taken'[q] = taken[q]
      /\ \A m \in Lines : WasTaken(m)' <=> WasTaken(m) \/ m = NextLine(p)
  BY <1>1, FileStep
<1>3. /\ \A q \in Pids : ~FileFirst(q) /\ ~ShimFirst(q)'
      /\ \A q \in Pids \ {p} : ~ShimFirst(q) /\ ~FileFirst(q)'
      /\ FileFirst(p)' <=> ~ShimFirst(p)
  BY <1>1, MarkerHalf DEF HistoryInv
<1>4. \A q \in Pids \ {p} : Script(q)' = Script(q)
  BY <1>1, Advance
<1>5. /\ cand'.pids = {q \in cand.pids : q = p => FileFirst(p)'}
      /\ cand'.marked = {q \in cand.pids : q = p /\ FileFirst(p)'}
      /\ cand'.confirmed = {}
      /\ \A q \in Pids : cand'.events[q] \subseteq cand.events[q]
      /\ p \notin cand'.pids => cand'.events[p] = {}
  <2>1. cand.marked = {} /\ cand.confirmed = {q \in cand.pids : q = p /\ ShimFirst(p)}
        /\ cand.pids \subseteq Pids
    BY <1>3 DEF CandsInv, CandidateInv, TypeOK
  <2>2. p \notin cand.pids => cand.events[p] = {}
    BY <1>2 DEF CandsInv, HeldBackInv
  <2>3. CASE p \notin cand.pids
    BY <2>1, <2>2, <2>3, MarkerCand
  <2>4. CASE p \in cand.pids /\ ~ShimFirst(p)
    BY <1>3, <2>1, <2>4, MarkerCand
  <2>5. CASE p \in cand.pids /\ ShimFirst(p)
    BY <1>3, <2>1, <2>5, MarkerCand
  <2> QED BY <2>3, <2>4, <2>5
<1>6. CandidateInv'
  <2>1. ASSUME NEW q \in cand'.pids
        PROVE  /\ Script(q)' \/ FileFirst(q)'
               /\ q \in cand'.marked <=> FileFirst(q)'
               /\ q \in cand'.confirmed <=> ShimFirst(q)'
    <3>1. q \in Pids /\ q \in cand.pids
      BY <1>5, <2>1 DEF TypeOK
    <3>2. CASE q = p
      BY <1>3, <1>5, <2>1, <3>1, <3>2
    <3>3. CASE q # p
      BY <1>3, <1>4, <1>5, <3>1, <3>3 DEF CandsInv, CandidateInv
    <3> QED BY <3>2, <3>3
  <2>2. cand'.marked \cup cand'.confirmed \subseteq cand'.pids
    BY <1>5
  <2> QED BY <2>1, <2>2 DEF CandidateInv
<1>7. HeldBackInv'
  <2> SUFFICES ASSUME NEW q \in Pids, NEW e \in cand'.events[q]
               PROVE  q \in cand'.pids /\ HeldSince(q, e)'
    BY DEF HeldBackInv
  <2>1. e \in cand.events[q]
    BY <1>5
  <2>2. q \in cand.pids /\ HeldSince(q, e)
    BY <2>1 DEF CandsInv, HeldBackInv
  <2>3. WasTaken(e)'
    BY <1>2, <2>2 DEF HeldSince
  <2>4. q \in cand'.pids
    BY <1>5, <2>2
  <2>5. \/ taken'[q] = taken[q]
        \/ /\ taken'[q] = taken[q] + 1 /\ file[q][taken[q] + 1].call \notin {"exec", "exit"}
           /\ file[q][taken[q] + 1].call = "marker" => FileFirst(q)'
    BY <1>2, <1>5, <2>4
  <2>6. HeldSince(q, e)'
    BY <1>2, <1>3, <2>2, <2>3, <2>5, HeldKept
  <2> QED BY <2>4, <2>6
<1> QED
  BY <1>6, <1>7 DEF CandsInv

LEMMA CandsShimMarker ==
    ASSUME TypeOK, KernelInv, HistoryInv, Bounds, OrderInv, CandsInv, TakeShimMarker,
           isFirst(shim[shimTaken + 1])
    PROVE  CandsInv'
<1>0. PICK l, p : l = shim[shimTaken + 1] /\ p = l.pid
  OBVIOUS
<1>1. TakeShim("marker")
  BY DEF TakeShimMarker
<1>2. /\ p \in Pids /\ UNCHANGED treeVars /\ taken' = taken /\ file' = file
      /\ \A m \in Lines : WasTaken(m)' <=> WasTaken(m) \/ m = l
  BY <1>0, <1>1, ShimStep
<1>3. /\ \A q \in Pids : ~ShimFirst(q) /\ ~FileFirst(q)'
      /\ \A q \in Pids \ {p} : ~FileFirst(q) /\ ~ShimFirst(q)'
      /\ ShimFirst(p)' <=> ~FileFirst(p)
  <2>1. NumberInv
    BY DEF HistoryInv
  <2> QED BY <1>0, <1>1, <2>1, ShimHalf
<1>4. \A q \in Pids : Script(q)' <=> Script(q)
  BY <1>2 DEF Script
<1>5. /\ cand'.pids = {q \in cand.pids : q = p => ShimFirst(p)'}
      /\ cand'.confirmed = {q \in cand.pids : q = p /\ ShimFirst(p)'}
      /\ cand'.marked = {}
      /\ \A q \in Pids : cand'.events[q] \subseteq cand.events[q]
      /\ \A e \in cand'.events[p] : e.call # "env_read"
      /\ p \notin cand'.pids => cand'.events[p] = {}
  <2>1. cand.confirmed = {} /\ cand.marked = {q \in cand.pids : q = p /\ FileFirst(p)}
        /\ cand.pids \subseteq Pids
    BY <1>3 DEF CandsInv, CandidateInv, TypeOK
  <2>2. p \notin cand.pids => cand.events[p] = {}
    BY <1>2 DEF CandsInv, HeldBackInv
  <2>3. CASE p \notin cand.pids
    BY <1>0, <2>1, <2>2, <2>3, ShimMarkerCand
  <2>4. CASE p \in cand.pids /\ ~FileFirst(p)
    BY <1>0, <1>3, <2>1, <2>4, ShimMarkerCand
  <2>5. CASE p \in cand.pids /\ FileFirst(p)
    BY <1>0, <1>3, <2>1, <2>5, ShimMarkerCand
  <2> QED BY <2>3, <2>4, <2>5
<1>6. CandidateInv'
  <2>1. ASSUME NEW q \in cand'.pids
        PROVE  /\ Script(q)' \/ FileFirst(q)'
               /\ q \in cand'.marked <=> FileFirst(q)'
               /\ q \in cand'.confirmed <=> ShimFirst(q)'
    <3>1. q \in Pids /\ q \in cand.pids
      BY <1>5, <2>1 DEF TypeOK
    <3>2. ~FileFirst(q) => Script(q)
      BY <3>1 DEF CandsInv, CandidateInv
    <3>3. q = p => ShimFirst(p)'
      BY <1>5
    <3>4. ~FileFirst(q)
      BY <1>3, <3>1, <3>3
    <3> QED BY <1>3, <1>4, <1>5, <3>1, <3>2, <3>3, <3>4
  <2>2. cand'.marked \cup cand'.confirmed \subseteq cand'.pids
    BY <1>5
  <2> QED BY <2>1, <2>2 DEF CandidateInv
<1>7. HeldBackInv'
  <2> SUFFICES ASSUME NEW q \in Pids, NEW e \in cand'.events[q]
               PROVE  q \in cand'.pids /\ HeldSince(q, e)'
    BY DEF HeldBackInv
  <2>1. e \in cand.events[q]
    BY <1>5
  <2>2. q \in cand.pids /\ HeldSince(q, e)
    BY <2>1 DEF CandsInv, HeldBackInv
  <2>3. WasTaken(e)'
    BY <1>2, <2>2 DEF HeldSince
  <2>4. q \in cand'.pids
    BY <1>5, <2>2
  <2>5. ~FileFirst(q) /\ (e.call = "env_read" => ~ShimFirst(q)')
    BY <1>3, <1>5, <2>4
  <2>6. HeldSince(q, e)'
    BY <1>2, <2>2, <2>3, <2>5, HeldKept
  <2> QED BY <2>4, <2>6
<1> QED
  BY <1>6, <1>7 DEF CandsInv

\* A read of a candidate is held back: its program has read it.
LEMMA HeldNew ==
    ASSUME TypeOK, KernelInv, HistoryInv, Bounds, UNCHANGED treeVars, NEW l, InTurn(l),
           l.call \in {"read", "env_read"}, NEW p \in Pids, l.pid = p, Script(p),
           WasTaken(l)', ~ShimFirst(p)',
           taken'[p] = taken[p] \/ (taken'[p] = taken[p] + 1 /\ file[p][taken[p] + 1] = l)
    PROVE  HeldSince(p, l)'
<1>1. /\ file' = file /\ leader' = leader /\ Lines' = Lines /\ taken[p] \in Nat /\ l \in Lines
      /\ NumberInv
  BY StillLines DEF treeVars, TypeOK, InTurn, HistoryInv
<1>2. PICK i \in 1..taken[p] :
          /\ file[p][i].call = "exec" /\ ~file[p][i].node
          /\ \A j \in (i + 1)..taken[p] : file[p][j].call \notin {"exec", "marker", "exit"}
  BY DEF Script
<1>3. i \in 1..Len(file[p]) /\ file[p][i] \in Lines /\ file[p][i].n \in Nat /\ l.n \in Nat
  BY <1>1, Times
<1>4. file[p][i].n < l.n
  <2>1. file[p][i].n <= l.n
    BY DEF InTurn
  <2>2. file[p][i].n # l.n
    BY <1>1, <1>2, <1>3, Times
  <2> QED BY <1>3, <2>1, <2>2
<1>5. leader[p] = p
  BY <1>2, <1>3 DEF KernelInv, ThreadInv
<1>6. i \in 1..taken'[p]
  BY <1>1
<1>7. \A j \in (i + 1)..taken'[p] : file[p][j].call \notin {"exec", "marker", "exit"}
  <2> SUFFICES ASSUME NEW j \in (i + 1)..taken'[p]
               PROVE  file[p][j].call \notin {"exec", "marker", "exit"}
    OBVIOUS
  <2>1. CASE j \in (i + 1)..taken[p]
    BY <1>2, <2>1
  <2>2. CASE j \notin (i + 1)..taken[p]
    <3>1. file[p][j] = l
      BY <1>1, <2>2
    <3> QED BY <3>1
  <2> QED BY <2>1, <2>2
<1> QED
  BY <1>1, <1>2, <1>4, <1>5, <1>6, <1>7 DEF HeldSince

\* Where nobody tells and only the read l of p may be held back.
LEMMA CandsHeld ==
    ASSUME TypeOK, KernelInv, HistoryInv, Bounds, CandsInv, UNCHANGED treeVars, Whole, Whole',
           NEW l, InTurn(l), l.call \in {"read", "env_read"}, NEW p \in Pids, l.pid = p,
           \A m \in Lines : WasTaken(m) => WasTaken(m)', WasTaken(l)',
           taken'[p] = taken[p] \/ (taken'[p] = taken[p] + 1 /\ file[p][taken[p] + 1] = l),
           \A q \in Pids \ {p} : taken'[q] = taken[q],
           \A q \in Pids : Script(q) => Script(q)',
           cand'.pids = cand.pids, cand'.marked = cand.marked, cand'.confirmed = cand.confirmed,
           \A q \in Pids : \A e \in cand'.events[q] :
               e \in cand.events[q] \/ (q = p /\ e = l /\ p \in cand.pids)
    PROVE  CandsInv'
<1>1. cand.pids \subseteq Pids /\ \A q \in Pids : ~FileFirst(q) /\ ~ShimFirst(q) /\ ~FileFirst(q)' /\ ~ShimFirst(q)'
  BY DEF Whole, TypeOK
<1>2. \A q \in cand.pids : Script(q) /\ q \notin cand.marked /\ q \notin cand.confirmed
  BY <1>1 DEF CandsInv, CandidateInv
<1>3. CandidateInv'
  <2>1. \A q \in cand.pids : Script(q)'
    BY <1>1, <1>2
  <2>2. cand.marked \cup cand.confirmed \subseteq cand.pids
    BY DEF CandsInv, CandidateInv
  <2> QED BY <1>1, <1>2, <2>1, <2>2 DEF CandidateInv
<1>4. ASSUME NEW q \in Pids, NEW e \in cand'.events[q]
      PROVE  q \in cand.pids /\ HeldSince(q, e)'
  <2>1. CASE e \in cand.events[q]
    <3>1. q \in cand.pids /\ HeldSince(q, e)
      BY <2>1 DEF CandsInv, HeldBackInv
    <3>2. WasTaken(e)'
      BY <3>1 DEF HeldSince
    <3>3. taken'[q] = taken[q] \/ (taken'[q] = taken[q] + 1
                                   /\ file[q][taken[q] + 1].call \in {"read", "env_read"})
      OBVIOUS
    <3>4. HeldSince(q, e)'
      BY <1>1, <3>1, <3>2, <3>3, HeldKept
    <3> QED BY <3>1, <3>4
  <2>2. CASE q = p /\ e = l /\ p \in cand.pids
    <3>1. HeldSince(p, l)'
      BY <1>1, <1>2, <2>2, HeldNew
    <3> QED BY <2>2, <3>1
  <2> QED BY <2>1, <2>2
<1>5. HeldBackInv'
  BY <1>4 DEF HeldBackInv
<1> QED
  BY <1>3, <1>5 DEF CandsInv

\* What a read does to the candidates and the audit.
LEMMA ReadCand ==
    ASSUME TypeOK, NEW l \in Line, NEW pending, FilterOrKeep(l, pending)
    PROVE  /\ cand'.pids = cand.pids /\ cand'.marked = cand.marked /\ cand'.confirmed = cand.confirmed
           /\ \A q \in Pids : cand.events[q] \subseteq cand'.events[q]
           /\ \A q \in Pids : \A e \in cand'.events[q] :
                 e \in cand.events[q] \/ (e = l /\ q = l.pid /\ q \in cand.pids)
           /\ emitted \subseteq emitted'
           /\ \A e \in emitted' : \/ e \in emitted
                                  \/ /\ e = l /\ ~pending
                                     /\ l.pid \notin cand.pids \/ l.pid \in cand.marked
           /\ ~pending /\ l.item \notin fileReads => l \in emitted' \/ l \in cand'.events[l.pid]
           /\ \A x \in fileReads' : x \in fileReads \/ (pending /\ x = l.item)
<1>1. cand \in Cands /\ l.pid \in Pids
  BY DEF TypeOK, Cands, Line
<1>2. CASE ~pending /\ l.item \notin fileReads /\ l.pid \in cand.pids /\ l.pid \notin cand.marked
  <2>1. cand' = [cand EXCEPT !.events[l.pid] = @ \cup {l}] /\ emitted' = emitted /\ fileReads' = fileReads
    BY <1>2 DEF FilterOrKeep, HoldOrEmit, hold, IsCandidate
  <2>2. /\ cand'.pids = cand.pids /\ cand'.marked = cand.marked /\ cand'.confirmed = cand.confirmed
        /\ cand'.events = [cand.events EXCEPT ![l.pid] = @ \cup {l}]
    BY <1>1, <2>1 DEF Cands
  <2>3. cand.events \in [Pids -> SUBSET Line]
    BY <1>1 DEF Cands
  <2> QED BY <1>1, <1>2, <2>1, <2>2, <2>3
<1>3. CASE ~pending /\ l.item \notin fileReads /\ ~(l.pid \in cand.pids /\ l.pid \notin cand.marked)
  <2>1. cand' = cand /\ emitted' = emitted \cup {l} /\ fileReads' = fileReads
    BY <1>3 DEF FilterOrKeep, HoldOrEmit, IsCandidate
  <2> QED BY <1>1, <1>3, <2>1
<1>4. CASE pending \/ l.item \in fileReads
  <2>1. /\ cand' = cand /\ emitted' = emitted
        /\ fileReads' = fileReads \/ (pending /\ fileReads' = fileReads \cup {l.item})
    BY <1>4 DEF FilterOrKeep
  <2> QED BY <1>1, <1>4, <2>1
<1> QED
  BY <1>2, <1>3, <1>4

LEMMA CandsRead ==
    ASSUME TypeOK, KernelInv, HistoryInv, Bounds, OrderInv, CandsInv, NEW p, TakeFile(p, "read"),
           isFirst(NextLine(p)), NEW pending, FilterOrKeep(NextLine(p), pending)
    PROVE  CandsInv'
<1>0. PICK l : l = NextLine(p)
  OBVIOUS
<1>1. /\ p \in Pids /\ l.pid = p /\ l.call = "read" /\ InTurn(l) /\ l \in Lines
      /\ UNCHANGED treeVars /\ taken'[p] = taken[p] + 1 /\ file[p][taken[p] + 1] = l
      /\ \A q \in Pids \ {p} : taken'[q] = taken[q]
      /\ \A m \in Lines : WasTaken(m)' <=> WasTaken(m) \/ m = l
  BY <1>0, FileStep
<1>2. l \in Line
  BY <1>0, NextOf
<1>3. Whole /\ Whole'
  BY FileWhole DEF HistoryInv
<1>4. \A q \in Pids : Script(q) => Script(q)'
  <2>1. Script(p) => Script(p)'
    BY Advance
  <2>2. \A q \in Pids \ {p} : Script(q)' = Script(q)
    BY Advance
  <2> QED BY <2>1, <2>2
<1>5. FilterOrKeep(l, pending)
  BY <1>0
<1>6. /\ cand'.pids = cand.pids /\ cand'.marked = cand.marked /\ cand'.confirmed = cand.confirmed
      /\ \A q \in Pids : \A e \in cand'.events[q] :
            e \in cand.events[q] \/ (q = p /\ e = l /\ p \in cand.pids)
  BY <1>1, <1>2, <1>5, ReadCand
<1>7. WasTaken(l)' /\ \A m \in Lines : WasTaken(m) => WasTaken(m)'
  BY <1>1
<1> QED
  BY <1>1, <1>3, <1>4, <1>6, <1>7, CandsHeld

\* And a read of the environment.
LEMMA EnvCand ==
    ASSUME TypeOK, TakeEnv, NEW l, l = shim[shimTaken + 1]
    PROVE  /\ cand'.pids = cand.pids /\ cand'.marked = cand.marked /\ cand'.confirmed = cand.confirmed
           /\ \A q \in Pids : cand.events[q] \subseteq cand'.events[q]
           /\ \A q \in Pids : \A e \in cand'.events[q] :
                 e \in cand.events[q] \/ (e = l /\ q = l.pid /\ q \in cand.pids)
           /\ emitted \subseteq emitted' /\ \A e \in emitted' : e \in emitted \/ e = l
           /\ \/ l \in emitted' \/ l \in cand'.events[l.pid]
              \/ filteredEnv(l)
              \/ l.pid \in packageManagerClientPids \cup completedPackageManagerClientPids
           /\ \A x \in envReads' : x \in envReads \/ (x = l.item /\ l.pid \in boot.env)
<1>1. cand \in Cands /\ l.pid \in Pids /\ l \in Line
  <2>1. TakeShim("env_read")
    BY DEF TakeEnv
  <2> QED BY <2>1, NextShim DEF TypeOK, Cands
<1> DEFINE held == ~filteredEnv(l) /\ IsCandidate(l.pid) /\ l.pid \notin cand.confirmed
           ofClient == l.pid \in packageManagerClientPids \cup completedPackageManagerClientPids
<1>2. /\ IF held THEN hold(l) ELSE UNCHANGED cand
      /\ emitted' = emitted \cup {e \in {l} : ~filteredEnv(l) /\ ~held /\ ~ofClient}
      /\ envReads' = envReads \cup
             {x \in {l.item} : l.pid \in boot.env /\ l.pid \notin packageManagerClientPids}
  BY DEF TakeEnv
<1>3. held => l.pid \in cand.pids
  BY DEF IsCandidate
<1>4. ~held /\ ~filteredEnv(l) /\ ~ofClient => l \in emitted'
  BY <1>2
<1> HIDE DEF held
<1>5. CASE held
  <2>1. cand' = [cand EXCEPT !.events[l.pid] = @ \cup {l}]
    BY <1>2, <1>5 DEF hold
  <2>2. /\ cand'.pids = cand.pids /\ cand'.marked = cand.marked /\ cand'.confirmed = cand.confirmed
        /\ cand'.events = [cand.events EXCEPT ![l.pid] = @ \cup {l}]
    BY <1>1, <2>1 DEF Cands
  <2>3. cand.events \in [Pids -> SUBSET Line]
    BY <1>1 DEF Cands
  <2>4. emitted \subseteq emitted' /\ \A e \in emitted' : e \in emitted \/ e = l
    BY <1>2
  <2>5. \A x \in envReads' : x \in envReads \/ (x = l.item /\ l.pid \in boot.env)
    BY <1>2
  <2> QED BY <1>1, <1>3, <1>5, <2>2, <2>3, <2>4, <2>5
<1>6. CASE ~held
  <2>1. cand' = cand
    BY <1>2, <1>6
  <2>4. emitted \subseteq emitted' /\ \A e \in emitted' : e \in emitted \/ e = l
    BY <1>2
  <2>5. \A x \in envReads' : x \in envReads \/ (x = l.item /\ l.pid \in boot.env)
    BY <1>2
  <2> QED BY <1>4, <1>6, <2>1, <2>4, <2>5
<1> QED
  BY <1>5, <1>6

LEMMA CandsEnv ==
    ASSUME TypeOK, KernelInv, HistoryInv, Bounds, OrderInv, CandsInv, TakeEnv,
           isFirst(shim[shimTaken + 1])
    PROVE  CandsInv'
<1>0. PICK l, p : l = shim[shimTaken + 1] /\ p = l.pid
  OBVIOUS
<1>1. TakeShim("env_read")
  BY DEF TakeEnv
<1>2. /\ p \in Pids /\ UNCHANGED treeVars /\ taken' = taken /\ file' = file /\ InTurn(l)
      /\ l.call = "env_read" /\ l \in Lines
      /\ \A m \in Lines : WasTaken(m)' <=> WasTaken(m) \/ m = l
  BY <1>0, <1>1, ShimStep
<1>3. Whole /\ Whole'
  BY <1>1, EnvWhole DEF HistoryInv
<1>4. \A q \in Pids : Script(q) => Script(q)'
  BY <1>2 DEF Script
<1>5. /\ cand'.pids = cand.pids /\ cand'.marked = cand.marked /\ cand'.confirmed = cand.confirmed
      /\ \A q \in Pids : \A e \in cand'.events[q] :
            e \in cand.events[q] \/ (q = p /\ e = l /\ p \in cand.pids)
  BY <1>0, EnvCand
<1>6. WasTaken(l)' /\ \A m \in Lines : WasTaken(m) => WasTaken(m)'
  BY <1>2
<1> QED
  BY <1>0, <1>2, <1>3, <1>4, <1>5, <1>6, CandsHeld

-----------------------------------------------------------------------------
(* What is left out was read by somebody who starts.                       *)

LEMMA StartingReads ==
    ASSUME TypeOK, KernelInv, HistoryInv, Bounds, NEW l, InTurn(l), l.call \in {"read", "env_read"},
           NEW p \in Pids, l.pid = p, leader[p] = p, Starting(p)
    PROVE  l.startup
<1>1. NumberInv /\ l \in Lines
  BY DEF HistoryInv, InTurn
<1>2. PICK i \in 1..taken[p] :
          /\ file[p][i].call = "exec" /\ file[p][i].node
          /\ \A j \in (i + 1)..taken[p] : file[p][j].call \notin {"exec", "marker"}
  BY DEF Starting
<1>3. file[p][i] # l /\ i \in 1..Len(file[p])
  BY <1>1, <1>2, Times
<1>4. Since(file[p], i, l.n)
  BY <1>1, <1>2, <1>3, TakenSince
<1> QED
  BY <1>1, <1>2, <1>3, <1>4 DEF HistoryInv, StartupInv

LEMMA PendingStartup ==
    ASSUME TypeOK, KernelInv, HistoryInv, Bounds, TableInv, Whole, NEW l, InTurn(l), l.call = "read",
           l.pid \in boot.file
    PROVE  l.startup \/ l.image = "thread"
<1>1. l \in Lines /\ l.pid \in Pids
  BY DEF InTurn, TypeOK
<1>2. CASE leader[l.pid] = l.pid
  <2>1. Starting(l.pid)
    BY <1>1, <1>2 DEF TableInv, FilePendingInv, Whole
  <2> QED BY <1>1, <1>2, <2>1, StartingReads
<1>3. CASE leader[l.pid] # l.pid
  <2>1. PICK i \in 1..Len(file[l.pid]) : file[l.pid][i] = l
    BY <1>1, LineFacts
  <2> QED BY <1>1, <1>3, <2>1 DEF KernelInv, ThreadInv
<1> QED
  BY <1>2, <1>3

LEMMA EnvStartup ==
    ASSUME TypeOK, KernelInv, HistoryInv, Bounds, TableInv, Whole, NEW l, InTurn(l),
           l.call = "env_read", l.pid \in boot.env, leader[l.pid] = l.pid
    PROVE  l.startup
<1>1. l.pid \in Pids
  BY DEF TypeOK
<1>2. Starting(l.pid)
  BY <1>1 DEF TableInv, EnvPendingInv, Whole
<1> QED
  BY <1>1, <1>2, StartingReads

LEMMA UncleanKept ==
    ASSUME UncleanInv, Lines' = Lines,
           \A z \in fileReads' : z \in fileReads \/ \E m \in Lines :
               m.call = "read" /\ m.item = z /\ (m.startup \/ m.image = "thread"),
           \A z \in envReads' : z \in envReads \/ \E m \in Lines :
               m.call = "env_read" /\ m.item = z /\ m.startup
    PROVE  UncleanInv'
BY DEF UncleanInv

LEMMA UncleanRead ==
    ASSUME TypeOK, KernelInv, HistoryInv, Bounds, OrderInv, TableInv, UncleanInv, NEW p,
           TakeFile(p, "read"), isFirst(NextLine(p)), FilterOrKeep(NextLine(p), p \in boot.file),
           envReads' = envReads
    PROVE  UncleanInv'
<1>0. PICK l : l = NextLine(p)
  OBVIOUS
<1>1. l.pid = p /\ l.call = "read" /\ InTurn(l) /\ l \in Lines /\ Lines' = Lines
  BY <1>0, FileStep
<1>2. l \in Line
  BY <1>0, NextOf
<1>3. Whole
  BY FileWhole DEF HistoryInv
<1>4. FilterOrKeep(l, p \in boot.file)
  BY <1>0
<1>5. \A z \in fileReads' : z \in fileReads \/ (p \in boot.file /\ z = l.item)
  BY <1>2, <1>4, ReadCand
<1>6. p \in boot.file => l.startup \/ l.image = "thread"
  BY <1>1, <1>3, PendingStartup
<1> QED
  BY <1>1, <1>5, <1>6, UncleanKept

LEMMA UncleanEnv ==
    ASSUME TypeOK, KernelInv, HistoryInv, Bounds, OrderInv, TableInv, UncleanInv, TakeEnv,
           isFirst(shim[shimTaken + 1])
    PROVE  UncleanInv'
<1>0. PICK l : l = shim[shimTaken + 1]
  OBVIOUS
<1>1. TakeShim("env_read") /\ fileReads' = fileReads
  BY DEF TakeEnv
<1>2. InTurn(l) /\ l.call = "env_read" /\ l \in Lines /\ Lines' = Lines /\ leader[l.pid] = l.pid
  BY <1>0, <1>1, ShimStep
<1>3. Whole
  BY <1>1, EnvWhole DEF HistoryInv
<1>4. \A x \in envReads' : x \in envReads \/ (x = l.item /\ l.pid \in boot.env)
  BY <1>0, EnvCand
<1>5. l.pid \in boot.env => l.startup
  BY <1>2, <1>3, EnvStartup
<1> QED
  BY <1>1, <1>2, <1>4, <1>5, UncleanKept

\* What was held back of p was read by a Node that started, when p tells.
LEMMA HeldTells ==
    ASSUME TypeOK, KernelInv, HistoryInv, Bounds, HeldBackInv, NEW m, InTurn(m), m.call = "marker",
           NEW p \in Pids, m.pid = p, leader[p] = p, NEW e \in cand.events[p]
    PROVE  e \in Lines /\ e.pid = p /\ e.startup
<1>1. HeldSince(p, e)
  BY DEF HeldBackInv
<1>2. e \in Lines /\ e.pid = p
  BY <1>1 DEF HeldSince
<1>3. e.startup = m.startup /\ m.startup
  BY <1>1, HeldStartup
<1> QED
  BY <1>2, <1>3

LEMMA UncleanMarker ==
    ASSUME TypeOK, KernelInv, HistoryInv, Bounds, OrderInv, CandsInv, UncleanInv, NEW p,
           TakeMarker(p), isFirst(NextLine(p))
    PROVE  UncleanInv'
<1>0. PICK l : l = NextLine(p)
  OBVIOUS
<1>1. TakeFile(p, "marker") /\ envReads' = envReads
  BY DEF TakeMarker, Take
<1>2. /\ p \in Pids /\ l.pid = p /\ l.call = "marker" /\ InTurn(l) /\ Lines' = Lines /\ leader[p] = p
  BY <1>0, <1>1, FileStep
<1>3. \A e \in cand.events[p] : e \in Lines /\ e.startup
  BY <1>2, HeldTells DEF CandsInv
<1>4. \A z \in fileReads' : z \in fileReads \/ \E e \in cand.events[p] : e.call = "read" /\ e.item = z
  BY MarkerCand
<1> QED
  BY <1>1, <1>2, <1>3, <1>4, UncleanKept

LEMMA UncleanShimMarker ==
    ASSUME TypeOK, KernelInv, HistoryInv, Bounds, OrderInv, CandsInv, UncleanInv, TakeShimMarker,
           isFirst(shim[shimTaken + 1])
    PROVE  UncleanInv'
<1>0. PICK l, p : l = shim[shimTaken + 1] /\ p = l.pid
  OBVIOUS
<1>1. TakeShim("marker")
  BY DEF TakeShimMarker
<1>2. /\ p \in Pids /\ l.pid = p /\ l.call = "marker" /\ InTurn(l) /\ Lines' = Lines /\ leader[p] = p
  BY <1>0, <1>1, ShimStep
<1>3. \A e \in cand.events[p] : e \in Lines /\ e.startup
  BY <1>2, HeldTells DEF CandsInv
<1>4. \A z \in fileReads' : z \in fileReads \/ \E e \in cand.events[p] : e.call = "read" /\ e.item = z
  BY <1>0, ShimMarkerCand
<1>5. \A z \in envReads' : z \in envReads \/ \E e \in cand.events[p] : e.call = "env_read" /\ e.item = z
  BY <1>0 DEF TakeShimMarker, heldBack, itemsOf
<1> QED
  BY <1>2, <1>3, <1>4, <1>5, UncleanKept

-----------------------------------------------------------------------------
(* What is meant is in the audit or held back.                             *)

LEMMA MeantKept ==
    ASSUME MeantInv, Lines' = Lines, NEW l, \A m \in Lines : WasTaken(m)' => WasTaken(m) \/ m = l,
           emitted \subseteq emitted',
           \A m \in Lines : Meant(m) /\ m \in cand.events[m.pid]
                               => m \in emitted' \/ m \in cand'.events[m.pid],
           l \in Lines /\ Meant(l) => l \in emitted' \/ l \in cand'.events[l.pid]
    PROVE  MeantInv'
<1>1. \A m : Meant(m)' <=> Meant(m)
  BY DEF Meant, Clean
<1>2. ASSUME NEW m \in Lines, WasTaken(m)', Meant(m)
      PROVE  m \in emitted' \/ m \in cand'.events[m.pid]
  <2>1. CASE m = l
    BY <1>2, <2>1
  <2>2. CASE m # l
    <3>1. m \in emitted \/ m \in cand.events[m.pid]
      BY <1>2, <2>2 DEF MeantInv
    <3> QED BY <1>2, <3>1
  <2> QED BY <2>1, <2>2
<1> QED
  BY <1>1, <1>2 DEF MeantInv

\* What is read while starting, or by a thread, is not.
LEMMA NotMeant ==
    ASSUME NEW l \in Lines
    PROVE  /\ l.startup \/ l.image = "thread" => ~Meant(l)
           /\ l.call \notin {"read", "env_read"} => ~Meant(l)
           /\ \A m \in Lines : m.call = l.call /\ m.item = l.item /\ (m.startup \/ m.image = "thread")
                                  => ~Meant(l)
BY DEF Meant, Clean

LEMMA MeantExec ==
    ASSUME TypeOK, KernelInv, HistoryInv, Bounds, OrderInv, MeantInv, NEW p, TakeExec(p),
           isFirst(NextLine(p))
    PROVE  MeantInv'
<1>0. PICK l : l = NextLine(p)
  OBVIOUS
<1>1. TakeFile(p, "exec")
  BY DEF TakeExec, Take
<1>2. /\ p \in Pids /\ Lines' = Lines /\ l \in Lines /\ l.call = "exec"
      /\ \A m \in Lines : WasTaken(m)' <=> WasTaken(m) \/ m = l
  BY <1>0, <1>1, FileStep
<1>3. emitted' = emitted \cup cand.events[p]
  BY DEF TakeExec, heldBack
<1>4. \A q \in Pids \ {p} : cand'.events[q] = cand.events[q]
  <2>1. cand \in Cands /\ candidateWithout(cand, p) \in Cands
    BY <1>2, CandTypes DEF TypeOK, Cands
  <2>2. cand' = IF NextLine(p).node THEN candidateWithout(cand, p) ELSE beginCandidate(p)
    BY DEF TakeExec
  <2>3. beginCandidate(p) = [candidateWithout(cand, p) EXCEPT !.pids = @ \cup {p}]
    BY DEF beginCandidate
  <2>4. beginCandidate(p).events = candidateWithout(cand, p).events
    BY <2>1, <2>3 DEF Cands
  <2>5. \A q \in Pids \ {p} : candidateWithout(cand, p).events[q] = cand.events[q]
    BY <1>2, <2>1, WithoutFacts
  <2> QED BY <2>2, <2>4, <2>5
<1>5. \A m \in Lines : m.pid \in Pids
  BY LineFacts
<1>6. ~Meant(l)
  BY <1>2, NotMeant
<1>7. \A m \in Lines : m \in cand.events[m.pid] => m \in emitted' \/ m \in cand'.events[m.pid]
  BY <1>3, <1>4, <1>5
<1> QED
  BY <1>2, <1>3, <1>6, <1>7, MeantKept

LEMMA MeantExit ==
    ASSUME TypeOK, KernelInv, HistoryInv, Bounds, OrderInv, MeantInv, NEW p, TakeExit(p),
           isFirst(NextLine(p))
    PROVE  MeantInv'
<1>0. PICK l : l = NextLine(p)
  OBVIOUS
<1>1. TakeFile(p, "exit")
  BY DEF TakeExit, Take
<1>2. /\ p \in Pids /\ Lines' = Lines /\ l \in Lines /\ l.call = "exit"
      /\ \A m \in Lines : WasTaken(m)' <=> WasTaken(m) \/ m = l
  BY <1>0, <1>1, FileStep
<1>3. emitted' = emitted \cup cand.events[p]
  BY DEF TakeExit, heldBack
<1>4. \A q \in Pids \ {p} : cand'.events[q] = cand.events[q]
  <2>1. cand \in Cands
    BY DEF TypeOK, Cands
  <2>2. cand' = candidateWithout(cand, p)
    BY DEF TakeExit
  <2> QED BY <1>2, <2>1, <2>2, WithoutFacts
<1>5. \A m \in Lines : m.pid \in Pids
  BY LineFacts
<1>6. ~Meant(l)
  BY <1>2, NotMeant
<1>7. \A m \in Lines : m \in cand.events[m.pid] => m \in emitted' \/ m \in cand'.events[m.pid]
  BY <1>3, <1>4, <1>5
<1> QED
  BY <1>2, <1>3, <1>6, <1>7, MeantKept

LEMMA MeantClone ==
    ASSUME TypeOK, KernelInv, HistoryInv, Bounds, OrderInv, MeantInv, NEW p,
           NEW call \in {"clone", "thread"}, TakeFile(p, call), isFirst(NextLine(p)),
           cand' = cand, emitted' = emitted
    PROVE  MeantInv'
<1>0. PICK l : l = NextLine(p)
  OBVIOUS
<1>2. /\ Lines' = Lines /\ l \in Lines /\ l.call = call
      /\ \A m \in Lines : WasTaken(m)' <=> WasTaken(m) \/ m = l
  BY <1>0, FileStep
<1>6. ~Meant(l)
  BY <1>2, NotMeant
<1>7. \A m \in Lines : m \in cand.events[m.pid] => m \in cand'.events[m.pid]
  OBVIOUS
<1> QED
  BY <1>2, <1>6, <1>7, MeantKept

\* What is no longer held back of p when it tells was read while it started.
LEMMA MeantTold ==
    ASSUME TypeOK, KernelInv, HistoryInv, Bounds, HeldBackInv, MeantInv, Lines' = Lines,
           NEW l, InTurn(l), l.call = "marker", NEW p \in Pids, l.pid = p, leader[p] = p,
           \A m \in Lines : WasTaken(m)' => WasTaken(m) \/ m = l, emitted' = emitted,
           \A q \in Pids \ {p} : cand'.events[q] = cand.events[q]
    PROVE  MeantInv'
<1>1. l \in Lines
  BY DEF InTurn
<1>2. ~Meant(l)
  BY <1>1, NotMeant
<1>3. ASSUME NEW m \in Lines, Meant(m), m \in cand.events[m.pid] PROVE m \in cand'.events[m.pid]
  <2>1. m.pid \in Pids
    BY LineFacts
  <2>2. m.pid # p
    <3> SUFFICES ASSUME m.pid = p PROVE FALSE
      OBVIOUS
    <3>1. m \in cand.events[p]
      BY <1>3
    <3>2. m.startup
      BY <3>1, HeldTells
    <3> QED BY <1>3, <3>2, NotMeant
  <2> QED BY <1>3, <2>1, <2>2
<1> QED
  BY <1>2, <1>3, MeantKept

LEMMA MeantMarker ==
    ASSUME TypeOK, KernelInv, HistoryInv, Bounds, OrderInv, CandsInv, MeantInv, NEW p, TakeMarker(p),
           isFirst(NextLine(p))
    PROVE  MeantInv'
<1>0. PICK l : l = NextLine(p)
  OBVIOUS
<1>1. TakeFile(p, "marker") /\ emitted' = emitted
  BY DEF TakeMarker, Take
<1>2. /\ p \in Pids /\ l.pid = p /\ l.call = "marker" /\ InTurn(l) /\ Lines' = Lines /\ leader[p] = p
      /\ \A m \in Lines : WasTaken(m)' <=> WasTaken(m) \/ m = l
  BY <1>0, <1>1, FileStep
<1>3. \A q \in Pids \ {p} : cand'.events[q] = cand.events[q]
  BY MarkerCand
<1> QED
  BY <1>1, <1>2, <1>3, MeantTold DEF CandsInv

LEMMA MeantShimMarker ==
    ASSUME TypeOK, KernelInv, HistoryInv, Bounds, OrderInv, CandsInv, MeantInv, TakeShimMarker,
           isFirst(shim[shimTaken + 1])
    PROVE  MeantInv'
<1>0. PICK l, p : l = shim[shimTaken + 1] /\ p = l.pid
  OBVIOUS
<1>1. TakeShim("marker") /\ emitted' = emitted
  BY DEF TakeShimMarker
<1>2. /\ p \in Pids /\ l.pid = p /\ l.call = "marker" /\ InTurn(l) /\ Lines' = Lines /\ leader[p] = p
      /\ \A m \in Lines : WasTaken(m)' <=> WasTaken(m) \/ m = l
  BY <1>0, <1>1, ShimStep
<1>3. \A q \in Pids \ {p} : cand'.events[q] = cand.events[q]
  BY <1>0, ShimMarkerCand
<1> QED
  BY <1>1, <1>2, <1>3, MeantTold DEF CandsInv

LEMMA MeantRead ==
    ASSUME TypeOK, KernelInv, HistoryInv, Bounds, OrderInv, TableInv, UncleanInv, MeantInv, NEW p,
           TakeFile(p, "read"), isFirst(NextLine(p)), FilterOrKeep(NextLine(p), p \in boot.file)
    PROVE  MeantInv'
<1>0. PICK l : l = NextLine(p)
  OBVIOUS
<1>1. /\ l.pid = p /\ l.call = "read" /\ InTurn(l) /\ l \in Lines /\ Lines' = Lines
      /\ \A m \in Lines : WasTaken(m)' <=> WasTaken(m) \/ m = l
  BY <1>0, FileStep
<1>2. l \in Line
  BY <1>0, NextOf
<1>3. Whole
  BY FileWhole DEF HistoryInv
<1>4. FilterOrKeep(l, p \in boot.file)
  BY <1>0
<1>5. /\ \A q \in Pids : cand.events[q] \subseteq cand'.events[q]
      /\ emitted \subseteq emitted'
      /\ p \notin boot.file /\ l.item \notin fileReads => l \in emitted' \/ l \in cand'.events[l.pid]
  <2>1. PICK pending : pending = (p \in boot.file)
    OBVIOUS
  <2>2. FilterOrKeep(l, pending)
    BY <1>4, <2>1
  <2>3. ~pending /\ l.item \notin fileReads => l \in emitted' \/ l \in cand'.events[l.pid]
    BY <1>2, <2>2, ReadCand
  <2>4. (\A q \in Pids : cand.events[q] \subseteq cand'.events[q]) /\ emitted \subseteq emitted'
    BY <1>2, <2>2, ReadCand
  <2> QED BY <2>1, <2>3, <2>4
<1>6. p \in boot.file => ~Meant(l)
  BY <1>1, <1>3, PendingStartup, NotMeant
<1>7. l.item \in fileReads => ~Meant(l)
  BY <1>1, NotMeant DEF UncleanInv
<1>8. \A m \in Lines : m \in cand.events[m.pid] => m \in cand'.events[m.pid]
  BY <1>5, LineFacts
<1> QED
  BY <1>1, <1>5, <1>6, <1>7, <1>8, MeantKept

\* A client's reads of the environment are not meant.
LEMMA ClientNotMeant ==
    ASSUME TypeOK, KernelInv, HistoryInv, Bounds, ClientPidsInv, NEW l, InTurn(l),
           l.call = "env_read",
           l.pid \in packageManagerClientPids \cup completedPackageManagerClientPids
    PROVE  ~Meant(l)
<1>1. NumberInv /\ l \in Lines /\ l.pid \in Pids /\ l.n \in Nat
  <2>1. NumberInv /\ l \in Lines
    BY DEF HistoryInv, InTurn
  <2> QED BY <2>1, Times
<1>2. CASE l.pid = Root
  BY <1>1, <1>2 DEF HistoryInv, ClientInv, Meant
<1>3. CASE l.pid # Root /\ l.pid \in packageManagerClientPids
  <2>1. PICK i \in 1..taken[l.pid] :
            /\ file[l.pid][i].call = "exec" /\ file[l.pid][i].client
            /\ \A j \in (i + 1)..taken[l.pid] : file[l.pid][j].call # "exec"
    BY <1>3 DEF ClientPidsInv
  <2>2. file[l.pid][i] # l /\ i \in 1..Len(file[l.pid])
    BY <1>1, <2>1, Times
  <2>3. Within(file[l.pid], i, l.n)
    BY <1>1, <2>1, <2>2, TakenSince
  <2> QED BY <1>1, <2>1, <2>2, <2>3 DEF HistoryInv, ClientInv, Meant
<1>4. CASE l.pid # Root /\ l.pid \in completedPackageManagerClientPids
  <2>1. PICK i \in 1..taken[l.pid] : file[l.pid][i].call = "exit"
    BY <1>4 DEF ClientPidsInv
  <2>2. i \in 1..Len(file[l.pid]) /\ file[l.pid][i] \in Lines /\ file[l.pid][i].n \in Nat
    BY <1>1, <2>1, Times
  <2>3. l.n <= file[l.pid][i].n
    BY <1>1, <2>1, <2>2 DEF HistoryInv, ExitInv
  <2>4. file[l.pid][i].n <= l.n
    BY <1>1 DEF InTurn
  <2>5. file[l.pid][i] = l
    BY <1>1, <2>2, <2>3, <2>4, Times
  <2> QED BY <2>1, <2>5
<1> QED
  BY <1>2, <1>3, <1>4

LEMMA MeantEnv ==
    ASSUME TypeOK, KernelInv, HistoryInv, Bounds, OrderInv, TableInv, UncleanInv, ClientPidsInv,
           EnvEndedInv, MeantInv, TakeEnv, isFirst(shim[shimTaken + 1])
    PROVE  MeantInv'
<1>0. PICK l : l = shim[shimTaken + 1]
  OBVIOUS
<1>1. TakeShim("env_read")
  BY DEF TakeEnv
<1>2. /\ InTurn(l) /\ l.call = "env_read" /\ l \in Lines /\ Lines' = Lines /\ leader[l.pid] = l.pid
      /\ l.pid \in Pids /\ NumberInv
      /\ \A m \in Lines : WasTaken(m)' <=> WasTaken(m) \/ m = l
  BY <1>0, <1>1, ShimStep
<1>3. Whole
  BY <1>1, EnvWhole DEF HistoryInv
<1>4. /\ \A q \in Pids : cand.events[q] \subseteq cand'.events[q]
      /\ emitted \subseteq emitted'
      /\ \/ l \in emitted' \/ l \in cand'.events[l.pid]
         \/ filteredEnv(l)
         \/ l.pid \in packageManagerClientPids \cup completedPackageManagerClientPids
  BY <1>0, EnvCand
<1>5. filteredEnv(l) => ~Meant(l)
  <2>1. CASE l.pid \in boot.env
    BY <1>2, <1>3, <2>1, EnvStartup, NotMeant
  <2>2. CASE l.pid \notin boot.env /\ envEndedTs[l.pid] # 0
    <3>1. PICK k \in 1..shimTaken : shim[k].n = envEndedTs[l.pid]
      BY <1>2, <2>2 DEF EnvEndedInv
    <3>2. shim[k].n <= l.n
      BY <1>2 DEF InTurn
    <3>3. l.n \in Nat /\ shim[k].n \in Nat
      BY <1>2, Times
    <3>4. ~(l.n < envEndedTs[l.pid])
      BY <3>1, <3>2, <3>3
    <3> QED BY <2>2, <3>4 DEF filteredEnv
  <2>3. CASE l.pid \notin boot.env /\ envEndedTs[l.pid] = 0
    <3>1. l.item \in envReads => ~Meant(l)
      BY <1>2, NotMeant DEF UncleanInv
    <3> QED BY <2>3, <3>1 DEF filteredEnv
  <2> QED BY <2>1, <2>2, <2>3
<1>6. l.pid \in packageManagerClientPids \cup completedPackageManagerClientPids => ~Meant(l)
  BY <1>2, ClientNotMeant
<1>7. \A m \in Lines : m \in cand.events[m.pid] => m \in cand'.events[m.pid]
  BY <1>4, LineFacts
<1> QED
  BY <1>2, <1>4, <1>5, <1>6, <1>7, MeantKept

-----------------------------------------------------------------------------
(* No noise is in the audit.                                               *)

LEMMA NoiseKept ==
    ASSUME NoiseInv, Lines' = Lines, leader' = leader,
           \A e \in emitted' : e \in emitted \/ ~Noise(e)
    PROVE  NoiseInv'
<1>1. \A e : Noise(e)' <=> Noise(e)
  BY DEF Noise, TellsLater, CalledNode
<1> QED
  BY <1>1 DEF NoiseInv

LEMMA NoiseExec ==
    ASSUME TypeOK, KernelInv, HistoryInv, Bounds, OrderInv, HeldBackInv, NoiseInv, NEW p,
           TakeExec(p), isFirst(NextLine(p))
    PROVE  NoiseInv'
<1>0. PICK l : l = NextLine(p)
  OBVIOUS
<1>1. TakeFile(p, "exec")
  BY DEF TakeExec, Take
<1>2. /\ p \in Pids /\ Lines' = Lines /\ l \in Lines /\ l.call = "exec" /\ InTurn(l) /\ l.pid = p
      /\ leader[p] = p /\ leader' = leader /\ file[p][taken[p] + 1] = l /\ NumberInv
      /\ taken[p] \in Nat
  BY <1>0, <1>1, FileStep
<1>3. taken[p] + 1 \in 1..Len(file[p])
  BY <1>1, NextOf
<1>4. emitted' = emitted \cup cand.events[p]
  BY DEF TakeExec, heldBack
<1>5. \A i \in 1..taken[p] : file[p][i] # l
  <2> SUFFICES ASSUME NEW i \in 1..taken[p], file[p][i] = l PROVE FALSE
    OBVIOUS
  <2>1. i \in 1..Len(file[p]) /\ i < taken[p] + 1
    BY <1>2, Times
  <2>2. file[p][i].n < file[p][taken[p] + 1].n /\ l.n \in Nat
    BY <1>2, <1>3, <2>1, Times
  <2> QED BY <1>2, <2>2
<1>6. ASSUME NEW e \in cand.events[p] PROVE ~Noise(e)
  <2>1. HeldSince(p, e)
    BY <1>2 DEF HeldBackInv
  <2>2. e.startup = l.startup /\ ~l.startup
    BY <1>2, <1>5, <2>1, HeldStartup
  <2> QED BY <2>2 DEF Noise
<1> QED
  BY <1>2, <1>4, <1>6, NoiseKept

\* Of who holds something back no marker after it was taken.
LEMMA TellsTaken ==
    ASSUME TypeOK, KernelInv, NumberInv, Bounds, NEW p \in Pids, NEW e, HeldSince(p, e),
           ~FileFirst(p), NEW m \in Lines, m.call = "marker", m.pid = p, m.n > e.n
    PROVE  \E j \in (taken[p] + 1)..Len(file[p]) : file[p][j] = m
<1>1. PICK j \in 1..Len(file[p]) : file[p][j] = m
  BY LineFacts
<1>2. PICK i \in 1..taken[p] :
          /\ file[p][i].n < e.n
          /\ \A k \in (i + 1)..taken[p] : file[p][k].call = "marker" => FileFirst(p)
  BY DEF HeldSince
<1>3. e \in Lines
  BY DEF HeldSince
<1>4. /\ taken[p] \in Nat /\ Len(file[p]) \in Nat /\ i \in 1..Len(file[p])
      /\ file[p][i].n \in Nat /\ m.n \in Nat /\ e.n \in Nat
  BY <1>3, Times
<1>5. ~(j < i) /\ j # i
  <2>1. j < i => m.n < file[p][i].n
    BY <1>1, <1>4, Times
  <2> QED BY <1>1, <1>2, <1>4, <2>1
<1>6. j \notin (i + 1)..taken[p]
  BY <1>1, <1>2
<1>7. j \in (taken[p] + 1)..Len(file[p])
  BY <1>4, <1>5, <1>6
<1> QED
  BY <1>1, <1>7

LEMMA NoiseExit ==
    ASSUME TypeOK, KernelInv, HistoryInv, Bounds, OrderInv, HeldBackInv, NoiseInv, NEW p,
           TakeExit(p), isFirst(NextLine(p))
    PROVE  NoiseInv'
<1>0. PICK l : l = NextLine(p)
  OBVIOUS
<1>1. TakeFile(p, "exit")
  BY DEF TakeExit, Take
<1>2. /\ p \in Pids /\ Lines' = Lines /\ l \in Lines /\ l.call = "exit" /\ InTurn(l) /\ l.pid = p
      /\ leader' = leader /\ leader[p] = p /\ file[p][taken[p] + 1] = l /\ NumberInv
      /\ taken[p] + 1 \in 1..Len(file[p])
  BY <1>0, <1>1, FileStep, NextOf
<1>3. Whole
  BY <1>1, FileWhole DEF HistoryInv
<1>4. emitted' = emitted \cup cand.events[p]
  BY DEF TakeExit, heldBack
<1>5. ASSUME NEW e \in cand.events[p], Noise(e) PROVE FALSE
  <2>1. HeldSince(p, e) /\ e.pid = p
    BY <1>2 DEF HeldBackInv, HeldSince
  <2>2. PICK m \in Lines : m.call = "marker" /\ m.pid = p /\ m.n > e.n
    BY <1>2, <1>5, <2>1 DEF Noise, TellsLater
  <2>3. ~FileFirst(p)
    BY <1>2, <1>3 DEF Whole
  <2>4. PICK j \in (taken[p] + 1)..Len(file[p]) : file[p][j] = m
    BY <1>2, <2>1, <2>2, <2>3, TellsTaken
  <2>5. l.n <= m.n
    BY <1>2, <2>4 DEF InTurn
  <2>6. m.n <= l.n
    BY <1>2, <2>2 DEF HistoryInv, ExitInv
  <2>7. m = l
    <3>1. m.n \in Nat /\ l.n \in Nat
      BY <1>2, Times
    <3> QED BY <1>2, <2>5, <2>6, <3>1, Times
  <2> QED BY <1>2, <2>2, <2>7
<1> QED
  BY <1>2, <1>4, <1>5, NoiseKept

\* At the end nobody who holds something back tells after it.
LEMMA NoiseFlush ==
    ASSUME TypeOK, KernelInv, HistoryInv, Bounds, HeldBackInv, NoiseInv, AllTaken,
           UNCHANGED treeVars, emitted' = emitted \cup UNION {heldBack(p) : p \in Pids}
    PROVE  NoiseInv'
<1>1. Lines' = Lines /\ leader' = leader /\ NumberInv
  BY StillLines DEF treeVars, HistoryInv
<1>2. ASSUME NEW p \in Pids, NEW e \in cand.events[p], Noise(e) PROVE FALSE
  <2>1. HeldSince(p, e) /\ e.pid = p /\ leader[p] = p
    BY DEF HeldBackInv, HeldSince
  <2>2. PICK m \in Lines : m.call = "marker" /\ m.pid = p /\ m.n > e.n
    BY <1>2, <2>1 DEF Noise, TellsLater
  <2>3. ~FileFirst(p)
    BY DEF AllTaken, FileFirst
  <2>4. PICK j \in (taken[p] + 1)..Len(file[p]) : file[p][j] = m
    BY <1>1, <2>1, <2>2, <2>3, TellsTaken
  <2>5. ~(taken[p] < Len(file[p])) /\ taken[p] \in Nat /\ Len(file[p]) \in Nat
    BY <1>1, Times DEF AllTaken, Untaken
  <2> QED BY <2>4, <2>5
<1>3. \A e \in emitted' : e \in emitted \/ ~Noise(e)
  BY <1>2 DEF heldBack
<1> QED
  BY <1>1, <1>3, NoiseKept

\* A thread of a program called node that starts is pending.
LEMMA ThreadPending ==
    ASSUME TypeOK, KernelInv, HistoryInv, Bounds, SpreadInv, NEW l, InTurn(l), l.call = "read",
           NEW p \in Pids, l.pid = p, leader[p] # p, l.startup, CalledNode(l)
    PROVE  p \in boot.file
<1>1. NumberInv /\ l \in Lines /\ l.n \in Nat /\ leader[p] \in Pids
  <2>1. NumberInv /\ l \in Lines
    BY DEF HistoryInv, InTurn
  <2> QED BY <2>1, Times DEF TypeOK
<1>2. PICK q \in Pids : q = leader[p]
  BY <1>1
<1>3. BornIn(file[q], p, l.n)
  BY <1>1, <1>2 DEF HistoryInv, ThreadStartInv
<1>4. PICK i \in 1..Len(file[q]) :
          /\ file[q][i].call = "thread" /\ file[q][i].child = p /\ file[q][i].startup
          /\ file[q][i].n < l.n
          /\ \A j \in (i + 1)..Len(file[q]) : file[q][j].call \in {"exec", "marker"} => l.n <= file[q][j].n
  BY <1>3 DEF BornIn
<1>5. PICK b : b = file[q][i]
  OBVIOUS
<1>6. b \in Lines /\ b.pid = q /\ leader[q] = q
  <2>1. leader[q] = q
    BY <1>4 DEF KernelInv, ThreadInv
  <2> QED BY <1>1, <1>5, <2>1, Times
<1>7. PICK k \in 1..Len(file[q]) : Since(file[q], k, b.n)
  BY <1>4, <1>5, <1>6 DEF HistoryInv, StartupInv
<1>8. /\ taken[q] \in Nat /\ Len(file[q]) \in Nat /\ taken[q] <= Len(file[q])
      /\ file[q][k].n \in Nat /\ b.n \in Nat /\ file[q][k] \in Lines /\ file[q][k].pid = q
  BY <1>1, <1>6, Times
<1>9. file[q][k].call = "exec" /\ file[q][k].node /\ file[q][k].n < b.n
  BY <1>2, <1>7, <1>8 DEF Since, CalledNode
<1>10. i \in 1..taken[q]
  <2> SUFFICES ASSUME i \notin 1..taken[q] PROVE FALSE
    OBVIOUS
  <2>1. i \in (taken[q] + 1)..Len(file[q])
    BY <1>8
  <2>2. l.n <= file[q][i].n
    BY <2>1 DEF InTurn
  <2> QED BY <1>1, <1>4, <1>5, <1>8, <2>2
<1>11. k < i
  <2>1. i < k => b.n < file[q][k].n
    BY <1>1, <1>5, Times
  <2>2. i # k
    BY <1>4, <1>9
  <2> QED BY <1>8, <1>9, <2>1, <2>2
<1>12. ASSUME NEW j \in (k + 1)..taken[q], file[q][j].call \in {"exec", "marker"} PROVE FALSE
  <2>1. j \in (k + 1)..Len(file[q]) /\ j \in 1..Len(file[q]) /\ j \in 1..taken[q]
    BY <1>8
  <2>2. b.n <= file[q][j].n /\ file[q][j].n \in Nat /\ file[q][j] \in Lines /\ file[q][j].pid = q
    BY <1>1, <1>7, <1>12, <2>1, Times DEF Since
  <2>3. j < i => file[q][j].n < b.n
    BY <1>1, <1>5, <2>1, Times
  <2>4. j # i
    BY <1>4, <1>12
  <2>5. j \in (i + 1)..Len(file[q])
    BY <1>8, <2>1, <2>2, <2>3, <2>4
  <2>6. l.n <= file[q][j].n
    BY <1>4, <1>12, <2>5
  <2>7. file[q][j].n <= l.n
    BY <2>1 DEF InTurn
  <2>8. file[q][j] = l
    BY <1>1, <2>2, <2>6, <2>7, Times
  <2> QED BY <1>12, <2>8
<1>13. k \in 1..taken[q] /\ i \in (k + 1)..taken[q]
  BY <1>8, <1>10, <1>11
<1> QED
  BY <1>4, <1>9, <1>12, <1>13 DEF SpreadInv

\* A process that starts and is not pending is a candidate.
LEMMA StartingHeld ==
    ASSUME TypeOK, KernelInv, HistoryInv, Bounds, FilePendingInv, CandInv, ~flushed,
           NEW l, InTurn(l), l.call = "read", NEW p \in Pids, l.pid = p, leader[p] = p, l.startup,
           p \notin boot.file
    PROVE  p \in cand.pids
<1>1. NumberInv /\ l \in Lines /\ l.n \in Nat
  <2>1. NumberInv /\ l \in Lines
    BY DEF HistoryInv, InTurn
  <2> QED BY <2>1, Times
<1>2. PICK i \in 1..Len(file[p]) : Since(file[p], i, l.n)
  BY <1>1 DEF HistoryInv, StartupInv
<1>3. /\ i \in 1..taken[p] /\ file[p][i].call = "exec"
      /\ \A j \in (i + 1)..taken[p] : file[p][j].call \notin {"exec", "marker"}
  BY <1>1, <1>2, SinceTaken DEF Since
<1>4. ~file[p][i].node
  <2>1. ~Starting(p)
    BY DEF FilePendingInv
  <2> QED BY <1>3, <2>1 DEF Starting
<1>5. ASSUME NEW j \in (i + 1)..taken[p], file[p][j].call = "exit" PROVE FALSE
  <2>1. j \in 1..taken[p] /\ j \in 1..Len(file[p]) /\ file[p][j] \in Lines /\ file[p][j].n \in Nat
    <3>1. j \in 1..taken[p]
      BY <1>3
    <3> QED BY <1>1, <3>1, Times
  <2>2. l.n <= file[p][j].n
    BY <1>1, <1>5, <2>1 DEF HistoryInv, ExitInv
  <2>3. file[p][j].n <= l.n
    BY <2>1 DEF InTurn
  <2>4. file[p][j] = l
    BY <1>1, <2>1, <2>2, <2>3, Times
  <2> QED BY <1>5, <2>4
<1>6. Script(p)
  BY <1>3, <1>4, <1>5 DEF Script
<1> QED
  BY <1>6 DEF CandInv

LEMMA NoiseRead ==
    ASSUME TypeOK, KernelInv, HistoryInv, Bounds, OrderInv, TableInv, CandsInv, CandInv, ~flushed,
           NoiseInv, NEW p, TakeFile(p, "read"), isFirst(NextLine(p)),
           FilterOrKeep(NextLine(p), p \in boot.file)
    PROVE  NoiseInv'
<1>0. PICK l : l = NextLine(p)
  OBVIOUS
<1>1. /\ p \in Pids /\ l.pid = p /\ l.call = "read" /\ InTurn(l) /\ l \in Lines /\ Lines' = Lines
      /\ leader' = leader /\ \E i \in 1..Len(file[p]) : file[p][i] = l
  BY <1>0, FileStep
<1>2. l \in Line
  BY <1>0, NextOf
<1>3. Whole
  BY FileWhole DEF HistoryInv
<1>4. PICK pending : pending = (p \in boot.file)
  OBVIOUS
<1>5. FilterOrKeep(l, pending)
  BY <1>0, <1>4
<1>6. \A e \in emitted' : \/ e \in emitted
                          \/ e = l /\ ~pending /\ (p \notin cand.pids \/ p \in cand.marked)
  BY <1>1, <1>2, <1>5, ReadCand
<1>7. ASSUME p \notin boot.file, p \notin cand.pids \/ p \in cand.marked, Noise(l) PROVE FALSE
  <2>1. p \notin cand.pids
    <3>1. ~FileFirst(p)
      BY <1>1, <1>3 DEF Whole
    <3> QED BY <1>7, <3>1 DEF CandsInv, CandidateInv
  <2>2. CASE leader[p] = p
    BY <1>1, <1>7, <2>1, <2>2, StartingHeld DEF TableInv, Noise
  <2>3. CASE leader[p] # p
    <3>1. l.image = "thread"
      BY <1>1, <2>3 DEF KernelInv, ThreadInv
    <3> QED BY <1>1, <1>7, <2>3, <3>1, ThreadPending DEF TableInv, Noise
  <2> QED BY <2>2, <2>3
<1> QED
  BY <1>1, <1>4, <1>6, <1>7, NoiseKept

LEMMA NoiseEnv ==
    ASSUME TypeOK, KernelInv, HistoryInv, Bounds, OrderInv, NoiseInv, TakeEnv,
           isFirst(shim[shimTaken + 1])
    PROVE  NoiseInv'
<1>0. PICK l : l = shim[shimTaken + 1]
  OBVIOUS
<1>1. TakeShim("env_read")
  BY DEF TakeEnv
<1>2. l.call = "env_read" /\ Lines' = Lines /\ leader' = leader
  BY <1>0, <1>1, ShimStep
<1>3. \A e \in emitted' : e \in emitted \/ e = l
  BY <1>0, EnvCand
<1> QED
  BY <1>2, <1>3, NoiseKept DEF Noise

-----------------------------------------------------------------------------
(* The step of the dispatcher that takes the earliest line.                *)

Ordered == TypeOK /\ KernelInv /\ HistoryInv /\ ReadInv /\ PromptInv

LEMMA OrderedParts ==
    ASSUME Ordered, ~flushed
    PROVE  /\ TypeOK /\ KernelInv /\ HistoryInv /\ NumberInv /\ Bounds /\ CandInv
           /\ OrderInv /\ SeenInv /\ TableInv /\ CandsInv /\ HeldBackInv /\ UncleanInv
           /\ ClientPidsInv /\ EnvEndedInv /\ MeantInv /\ NoiseInv
BY DEF Ordered, ReadInv, PromptInv, TableInv, CandsInv, HistoryInv

LEMMA PromptParts ==
    ASSUME OrderInv', SeenInv', TableInv', CandsInv', UncleanInv', ClientPidsInv', EnvEndedInv',
           MeantInv', NoiseInv'
    PROVE  PromptInv'
BY DEF PromptInv, TableInv, CandsInv

\* A file's line is taken in its turn.
LEMMA FileOrdered ==
    ASSUME Ordered, NEW p, NEW call, TakeFile(p, call), isFirst(NextLine(p))
    PROVE  /\ ~flushed /\ OrderInv' /\ UNCHANGED treeVars /\ shim' = shim /\ shimTaken' = shimTaken
           /\ shimTaken \in Nat /\ Lines' = Lines /\ leader' = leader /\ p \in Pids
           /\ \A q \in Pids : taken'[q] \in Nat /\ taken[q] <= taken'[q]
           /\ \A q \in Pids : \A i \in (taken[q] + 1)..taken'[q] :
                 q = p /\ file[q][i] = NextLine(p) /\ file[q][i].call = call
<1>1. ~flushed
  BY KeepFlushed DEF Ordered, ReadInv
<1>2. TypeOK /\ KernelInv /\ HistoryInv /\ NumberInv /\ Bounds /\ OrderInv
  BY <1>1, OrderedParts
<1>3. PICK l : l = NextLine(p)
  OBVIOUS
<1>4. /\ p \in Pids /\ InTurn(l) /\ l.call = call
      /\ file[p][taken[p] + 1] = l /\ taken[p] \in Nat
      /\ taken'[p] = taken[p] + 1 /\ \A q \in Pids \ {p} : taken'[q] = taken[q]
      /\ UNCHANGED treeVars /\ Lines' = Lines /\ leader' = leader
      /\ \A m \in Lines : WasTaken(m)' <=> WasTaken(m) \/ m = l
  BY <1>2, <1>3, FileStep
<1>5. (\A m \in Lines : IsLeft(m)' => IsLeft(m)) /\ shimTaken' = shimTaken
  BY <1>2, FileTaken, NextOf
<1>6. OrderInv'
  BY <1>2, <1>4, <1>5, OrderKept
<1>7. shim' = shim /\ shimTaken \in Nat /\ \A q \in Pids : taken[q] \in Nat
  BY <1>2, <1>4 DEF treeVars, TypeOK
<1>8. \A q \in Pids : taken'[q] \in Nat /\ taken[q] <= taken'[q]
  BY <1>4, <1>7
<1>9. ASSUME NEW q \in Pids, NEW i \in (taken[q] + 1)..taken'[q]
      PROVE  q = p /\ file[q][i] = l /\ file[q][i].call = call
  <2>1. q = p
    BY <1>4, <1>7
  <2>2. i = taken[p] + 1
    BY <1>4, <2>1
  <2> QED BY <1>4, <2>1, <2>2
<1> QED
  BY <1>1, <1>3, <1>4, <1>5, <1>6, <1>7, <1>8, <1>9

LEMMA ShimOrdered ==
    ASSUME Ordered, NEW call, TakeShim(call), isFirst(shim[shimTaken + 1])
    PROVE  /\ ~flushed /\ OrderInv' /\ UNCHANGED treeVars /\ shim' = shim /\ taken' = taken
           /\ shimTaken \in Nat /\ shimTaken' \in Nat /\ shimTaken <= shimTaken'
           /\ Lines' = Lines /\ leader' = leader /\ seen' = seen
           /\ \A q \in Pids : taken'[q] \in Nat /\ taken[q] <= taken'[q]
           /\ \A q \in Pids : \A i \in (taken[q] + 1)..taken'[q] : FALSE
<1>1. ~flushed
  <2>1. shimTaken # Len(shim) /\ FlushedInv
    BY NextShim DEF Ordered, ReadInv
  <2> QED BY <2>1 DEF FlushedInv, AllTaken
<1>2. TypeOK /\ KernelInv /\ HistoryInv /\ NumberInv /\ Bounds /\ OrderInv
  BY <1>1, OrderedParts
<1>3. PICK l : l = shim[shimTaken + 1]
  OBVIOUS
<1>4. /\ InTurn(l) /\ taken' = taken /\ shimTaken \in Nat /\ shimTaken' = shimTaken + 1
      /\ UNCHANGED treeVars /\ Lines' = Lines /\ leader' = leader /\ shim' = shim
      /\ \A m \in Lines : WasTaken(m)' <=> WasTaken(m) \/ m = l
  BY <1>2, <1>3, ShimStep
<1>5. (\A m \in Lines : IsLeft(m)' => IsLeft(m)) /\ seen' = seen
  BY <1>2, ShimIsTaken, NextShim
<1>6. OrderInv'
  BY <1>2, <1>4, <1>5, OrderKept
<1>7. \A q \in Pids : taken[q] \in Nat
  BY <1>2 DEF TypeOK
<1>8. shimTaken' \in Nat /\ shimTaken <= shimTaken'
  BY <1>4
<1>9. \A q \in Pids : taken'[q] \in Nat /\ taken[q] <= taken'[q]
  BY <1>4, <1>7
<1>10. \A q \in Pids : \A i \in (taken[q] + 1)..taken'[q] : FALSE
  BY <1>4, <1>7
<1> QED
  BY <1>1, <1>4, <1>5, <1>6, <1>8, <1>9, <1>10

LEMMA ExecPrompt ==
    ASSUME Ordered, NEW p, TakeExec(p), isFirst(NextLine(p)) PROVE PromptInv'
<1>1. /\ TakeFile(p, "exec")
      /\ UNCHANGED <<seen, envReads, fileReads, endedVars, deferVars, flushed>>
  BY DEF TakeExec, Take
<1>2. /\ ~flushed /\ OrderInv' /\ UNCHANGED treeVars /\ shim' = shim /\ shimTaken' = shimTaken
      /\ shimTaken \in Nat /\ Lines' = Lines
      /\ \A q \in Pids : taken'[q] \in Nat /\ taken[q] <= taken'[q]
      /\ \A q \in Pids : \A i \in (taken[q] + 1)..taken'[q] :
            q = p /\ file[q][i] = NextLine(p) /\ file[q][i].call = "exec"
  BY <1>1, FileOrdered
<1>3. /\ TypeOK /\ KernelInv /\ HistoryInv /\ NumberInv /\ Bounds
      /\ OrderInv /\ SeenInv /\ TableInv /\ CandsInv /\ HeldBackInv /\ UncleanInv
      /\ ClientPidsInv /\ EnvEndedInv /\ MeantInv /\ NoiseInv
  BY <1>2, OrderedParts
<1>4. \A q \in Pids : \A i \in (taken[q] + 1)..taken'[q] : file[q][i].child = None
  <2> SUFFICES ASSUME NEW q \in Pids, NEW i \in (taken[q] + 1)..taken'[q]
               PROVE  file[q][i].child = None
    OBVIOUS
  <2>1. p \in Pids /\ taken[p] + 1 \in 1..Len(file[p]) /\ NextLine(p) = file[p][taken[p] + 1]
        /\ file[q][i] = NextLine(p) /\ file[q][i].call = "exec"
    BY <1>1, <1>2, <1>3, NextOf
  <2> QED BY <1>3, <2>1 DEF KernelInv, BirthInv
<1>5. SeenInv'
  BY <1>1, <1>2, <1>3, <1>4, SeenKept
<1>6. TableInv' /\ CandsInv'
  BY <1>3, TableExec, CandsExec
<1>7. UncleanInv'
  BY <1>1, <1>2, <1>3, UncleanKept
<1>8. ClientPidsInv' /\ EnvEndedInv'
  BY <1>1, <1>2, <1>3, ClientsExec, EnvEndedKept DEF endedVars
<1>9. MeantInv' /\ NoiseInv'
  BY <1>3, MeantExec, NoiseExec
<1> QED
  BY <1>2, <1>5, <1>6, <1>7, <1>8, <1>9, PromptParts

LEMMA ClonePrompt ==
    ASSUME Ordered, NEW p, NEW call \in {"clone", "thread"}, TakeClone(p, call),
           isFirst(NextLine(p))
    PROVE  PromptInv'
<1>1. /\ TakeFile(p, call) /\ seen' = seen \cup {NextLine(p).child}
      /\ UNCHANGED <<cand, envReads, fileReads, clientVars, endedVars, deferredNullAttribEvents,
                     emitted, flushed>>
      /\ DOMAIN deferredRelOpens' = DOMAIN deferredRelOpens
  BY DEF TakeClone, Take
<1>2. /\ ~flushed /\ OrderInv' /\ UNCHANGED treeVars /\ shim' = shim /\ shimTaken' = shimTaken
      /\ shimTaken \in Nat /\ Lines' = Lines /\ leader' = leader
      /\ \A q \in Pids : taken'[q] \in Nat /\ taken[q] <= taken'[q]
      /\ \A q \in Pids : \A i \in (taken[q] + 1)..taken'[q] :
            q = p /\ file[q][i] = NextLine(p) /\ file[q][i].call = call
  BY <1>1, FileOrdered
<1>3. /\ TypeOK /\ KernelInv /\ HistoryInv /\ NumberInv /\ Bounds
      /\ OrderInv /\ SeenInv /\ TableInv /\ CandsInv /\ HeldBackInv /\ UncleanInv
      /\ ClientPidsInv /\ EnvEndedInv /\ MeantInv /\ NoiseInv
  BY <1>2, OrderedParts
<1>4. \A q \in Pids : \A i \in (taken[q] + 1)..taken'[q] : file[q][i].child \in seen'
  BY <1>1, <1>2
<1>5. SeenInv'
  <2>1. deferredRelOpens' = <<>>
    <3>1. deferredRelOpens = <<>> /\ TypeOK'
      BY <1>3, TakeCloneType DEF SeenInv, KernelInv
    <3>2. deferredRelOpens' = [i \in DOMAIN deferredRelOpens |->
                IF deferredRelOpens[i].line.pid = NextLine(p).child
                THEN [deferredRelOpens[i] EXCEPT !.inherited = NextLine(p).child \in boot'.file]
                ELSE deferredRelOpens[i]]
      BY DEF TakeClone
    <3> QED BY <3>1, <3>2
  <2>2. UNCHANGED deferVars
    BY <1>1, <1>3, <2>1 DEF deferVars, SeenInv
  <2> QED BY <1>1, <1>2, <1>3, <1>4, <2>2, SeenKept
<1>6. TableInv' /\ CandsInv'
  BY <1>1, <1>3, TableClone, CandsClone
<1>7. UncleanInv'
  BY <1>1, <1>2, <1>3, UncleanKept
<1>8. ClientPidsInv' /\ EnvEndedInv'
  BY <1>1, <1>2, <1>3, ClientsKept, EnvEndedKept DEF endedVars, clientVars
<1>9. MeantInv' /\ NoiseInv'
  BY <1>1, <1>2, <1>3, MeantClone, NoiseKept
<1> QED
  BY <1>2, <1>5, <1>6, <1>7, <1>8, <1>9, PromptParts

LEMMA TableFile ==
    ASSUME TypeOK, KernelInv, HistoryInv, Bounds, OrderInv, TableInv, NEW p,
           NEW call \in {"exit", "read"}, TakeFile(p, call), isFirst(NextLine(p)), boot' = boot,
           \A q \in Pids : taken'[q] \in Nat /\ taken[q] <= taken'[q],
           \A q \in Pids : \A i \in (taken[q] + 1)..taken'[q] : file[q][i].call = call
    PROVE  TableInv'
<1>1. Whole /\ Whole' /\ UNCHANGED treeVars
  BY FileWhole, NextOf DEF HistoryInv
<1>2. \A q \in Pids : Starting(q)' <=> Starting(q)
  <2>1. Starting(p)' <=> Starting(p)
    BY Advance
  <2>2. \A q \in Pids \ {p} : Starting(q)' = Starting(q)
    BY Advance
  <2> QED BY <2>1, <2>2
<1>3. \A q \in Pids : \A i \in (taken[q] + 1)..taken'[q] : file[q][i].call \in {"read", "exit"}
  OBVIOUS
<1> QED
  BY <1>1, <1>2, <1>3, TableStays

LEMMA ExitPrompt ==
    ASSUME Ordered, NEW p, TakeExit(p), isFirst(NextLine(p)) PROVE PromptInv'
<1>1. /\ TakeFile(p, "exit") /\ boot' = boot
      /\ UNCHANGED <<seen, envReads, fileReads, endedVars, deferVars, flushed>>
  BY DEF TakeExit, Take
<1>2. /\ ~flushed /\ OrderInv' /\ UNCHANGED treeVars /\ shim' = shim /\ shimTaken' = shimTaken
      /\ shimTaken \in Nat /\ Lines' = Lines
      /\ \A q \in Pids : taken'[q] \in Nat /\ taken[q] <= taken'[q]
      /\ \A q \in Pids : \A i \in (taken[q] + 1)..taken'[q] :
            q = p /\ file[q][i] = NextLine(p) /\ file[q][i].call = "exit"
  BY <1>1, FileOrdered
<1>3. /\ TypeOK /\ KernelInv /\ HistoryInv /\ NumberInv /\ Bounds
      /\ OrderInv /\ SeenInv /\ TableInv /\ CandsInv /\ HeldBackInv /\ UncleanInv
      /\ ClientPidsInv /\ EnvEndedInv /\ MeantInv /\ NoiseInv
  BY <1>2, OrderedParts
<1>4. \A q \in Pids : \A i \in (taken[q] + 1)..taken'[q] : file[q][i].child = None
  <2> SUFFICES ASSUME NEW q \in Pids, NEW i \in (taken[q] + 1)..taken'[q]
               PROVE  file[q][i].child = None
    OBVIOUS
  <2>1. p \in Pids /\ taken[p] + 1 \in 1..Len(file[p]) /\ NextLine(p) = file[p][taken[p] + 1]
        /\ file[q][i] = NextLine(p) /\ file[q][i].call = "exit"
    BY <1>1, <1>2, <1>3, NextOf
  <2> QED BY <1>3, <2>1 DEF KernelInv, BirthInv
<1>5. SeenInv'
  BY <1>1, <1>2, <1>3, <1>4, SeenKept
<1>6. TableInv' /\ CandsInv'
  BY <1>1, <1>2, <1>3, TableFile, CandsExit
<1>7. UncleanInv'
  BY <1>1, <1>2, <1>3, UncleanKept
<1>8. ClientPidsInv' /\ EnvEndedInv'
  BY <1>1, <1>2, <1>3, ClientsExit, EnvEndedKept DEF endedVars
<1>9. MeantInv' /\ NoiseInv'
  BY <1>3, MeantExit, NoiseExit
<1> QED
  BY <1>2, <1>5, <1>6, <1>7, <1>8, <1>9, PromptParts

LEMMA MarkerPrompt ==
    ASSUME Ordered, NEW p, TakeMarker(p), isFirst(NextLine(p)) PROVE PromptInv'
<1>1. /\ TakeFile(p, "marker")
      /\ UNCHANGED <<seen, envReads, clientVars, envEndedTs, deferVars, emitted, flushed>>
  BY DEF TakeMarker, Take
<1>2. /\ ~flushed /\ OrderInv' /\ UNCHANGED treeVars /\ shim' = shim /\ shimTaken' = shimTaken
      /\ shimTaken \in Nat /\ Lines' = Lines /\ leader' = leader
      /\ \A q \in Pids : taken'[q] \in Nat /\ taken[q] <= taken'[q]
      /\ \A q \in Pids : \A i \in (taken[q] + 1)..taken'[q] :
            q = p /\ file[q][i] = NextLine(p) /\ file[q][i].call = "marker"
  BY <1>1, FileOrdered
<1>3. /\ TypeOK /\ KernelInv /\ HistoryInv /\ NumberInv /\ Bounds
      /\ OrderInv /\ SeenInv /\ TableInv /\ CandsInv /\ HeldBackInv /\ UncleanInv
      /\ ClientPidsInv /\ EnvEndedInv /\ MeantInv /\ NoiseInv
  BY <1>2, OrderedParts
<1>4. \A q \in Pids : \A i \in (taken[q] + 1)..taken'[q] : file[q][i].child = None
  <2> SUFFICES ASSUME NEW q \in Pids, NEW i \in (taken[q] + 1)..taken'[q]
               PROVE  file[q][i].child = None
    OBVIOUS
  <2>1. p \in Pids /\ taken[p] + 1 \in 1..Len(file[p]) /\ NextLine(p) = file[p][taken[p] + 1]
        /\ file[q][i] = NextLine(p) /\ file[q][i].call = "marker"
    BY <1>1, <1>2, <1>3, NextOf
  <2> QED BY <1>3, <2>1 DEF KernelInv, BirthInv
<1>5. SeenInv'
  BY <1>1, <1>2, <1>3, <1>4, SeenKept
<1>6. TableInv' /\ CandsInv'
  BY <1>3, TableMarker, CandsMarker
<1>7. UncleanInv'
  BY <1>3, UncleanMarker
<1>8. ClientPidsInv' /\ EnvEndedInv'
  BY <1>1, <1>2, <1>3, ClientsKept, EnvEndedKept DEF clientVars
<1>9. MeantInv' /\ NoiseInv'
  BY <1>1, <1>2, <1>3, MeantMarker, NoiseKept
<1> QED
  BY <1>2, <1>5, <1>6, <1>7, <1>8, <1>9, PromptParts

LEMMA ShimMarkerPrompt ==
    ASSUME Ordered, TakeShimMarker, isFirst(shim[shimTaken + 1]) PROVE PromptInv'
<1>1. TakeShim("marker") /\ UNCHANGED <<fileEndedTs, deferVars, emitted, flushed>>
  BY DEF TakeShimMarker
<1>2. /\ ~flushed /\ OrderInv' /\ UNCHANGED treeVars /\ shim' = shim /\ taken' = taken
      /\ Lines' = Lines /\ leader' = leader /\ seen' = seen
      /\ \A q \in Pids : taken'[q] \in Nat /\ taken[q] <= taken'[q]
      /\ \A q \in Pids : \A i \in (taken[q] + 1)..taken'[q] : FALSE
  BY <1>1, ShimOrdered
<1>3. /\ TypeOK /\ KernelInv /\ HistoryInv /\ NumberInv /\ Bounds
      /\ OrderInv /\ SeenInv /\ TableInv /\ CandsInv /\ HeldBackInv /\ UncleanInv
      /\ ClientPidsInv /\ EnvEndedInv /\ MeantInv /\ NoiseInv
  BY <1>2, OrderedParts
<1>5. SeenInv'
  BY <1>1, <1>2, <1>3, SeenKept
<1>6. TableInv' /\ CandsInv'
  BY <1>3, TableShimMarker, CandsShimMarker
<1>7. UncleanInv'
  BY <1>3, UncleanShimMarker
<1>8. ClientPidsInv'
  <2>1. /\ packageManagerClientPids' \subseteq packageManagerClientPids \cup {Root}
        /\ completedPackageManagerClientPids' \subseteq completedPackageManagerClientPids
    BY DEF TakeShimMarker
  <2> QED BY <1>2, <1>3, <2>1, ClientsKept
<1>9. EnvEndedInv'
  BY <1>3, EnvEndedMarker
<1>10. MeantInv' /\ NoiseInv'
  BY <1>1, <1>2, <1>3, MeantShimMarker, NoiseKept
<1> QED
  BY <1>2, <1>5, <1>6, <1>7, <1>8, <1>9, <1>10, PromptParts

LEMMA ReadPrompt ==
    ASSUME Ordered, NEW p, TakeRead(p), isFirst(NextLine(p)) PROVE PromptInv'
<1>1. /\ TakeFile(p, "read") /\ FilterOrKeep(NextLine(p), p \in boot.file)
      /\ UNCHANGED <<seen, boot, envReads, clientVars, endedVars, deferVars, flushed>>
  BY DEF TakeRead, Take
<1>2. /\ ~flushed /\ OrderInv' /\ UNCHANGED treeVars /\ shim' = shim /\ shimTaken' = shimTaken
      /\ shimTaken \in Nat /\ Lines' = Lines
      /\ \A q \in Pids : taken'[q] \in Nat /\ taken[q] <= taken'[q]
      /\ \A q \in Pids : \A i \in (taken[q] + 1)..taken'[q] :
            q = p /\ file[q][i] = NextLine(p) /\ file[q][i].call = "read"
  BY <1>1, FileOrdered
<1>3. /\ TypeOK /\ KernelInv /\ HistoryInv /\ NumberInv /\ Bounds /\ CandInv
      /\ OrderInv /\ SeenInv /\ TableInv /\ CandsInv /\ HeldBackInv /\ UncleanInv
      /\ ClientPidsInv /\ EnvEndedInv /\ MeantInv /\ NoiseInv
  BY <1>2, OrderedParts
<1>4. \A q \in Pids : \A i \in (taken[q] + 1)..taken'[q] : file[q][i].child = None
  <2> SUFFICES ASSUME NEW q \in Pids, NEW i \in (taken[q] + 1)..taken'[q]
               PROVE  file[q][i].child = None
    OBVIOUS
  <2>1. p \in Pids /\ taken[p] + 1 \in 1..Len(file[p]) /\ NextLine(p) = file[p][taken[p] + 1]
        /\ file[q][i] = NextLine(p) /\ file[q][i].call = "read"
    BY <1>1, <1>2, <1>3, NextOf
  <2> QED BY <1>3, <2>1 DEF KernelInv, BirthInv
<1>5. SeenInv'
  BY <1>1, <1>2, <1>3, <1>4, SeenKept
<1>6. TableInv' /\ CandsInv'
  BY <1>1, <1>2, <1>3, TableFile, CandsRead
<1>7. UncleanInv'
  BY <1>1, <1>3, UncleanRead
<1>8. ClientPidsInv' /\ EnvEndedInv'
  BY <1>1, <1>2, <1>3, ClientsKept, EnvEndedKept DEF clientVars, endedVars
<1>9. MeantInv' /\ NoiseInv'
  BY <1>1, <1>2, <1>3, MeantRead, NoiseRead
<1> QED
  BY <1>2, <1>5, <1>6, <1>7, <1>8, <1>9, PromptParts

LEMMA EnvPrompt ==
    ASSUME Ordered, TakeEnv, isFirst(shim[shimTaken + 1]) PROVE PromptInv'
<1>1. /\ TakeShim("env_read")
      /\ UNCHANGED <<boot, fileReads, clientVars, endedVars, deferVars, flushed>>
  BY DEF TakeEnv
<1>2. /\ ~flushed /\ OrderInv' /\ UNCHANGED treeVars /\ shim' = shim /\ taken' = taken
      /\ Lines' = Lines /\ leader' = leader /\ seen' = seen
      /\ shimTaken' \in Nat /\ shimTaken <= shimTaken'
      /\ \A q \in Pids : taken'[q] \in Nat /\ taken[q] <= taken'[q]
      /\ \A q \in Pids : \A i \in (taken[q] + 1)..taken'[q] : FALSE
  BY <1>1, ShimOrdered
<1>3. /\ TypeOK /\ KernelInv /\ HistoryInv /\ NumberInv /\ Bounds
      /\ OrderInv /\ SeenInv /\ TableInv /\ CandsInv /\ HeldBackInv /\ UncleanInv
      /\ ClientPidsInv /\ EnvEndedInv /\ MeantInv /\ NoiseInv
  BY <1>2, OrderedParts
<1>5. SeenInv'
  BY <1>1, <1>2, <1>3, SeenKept
<1>6. TableInv'
  <2>1. Whole /\ Whole'
    BY <1>1, <1>3, EnvWhole
  <2>2. \A q \in Pids : Starting(q)' <=> Starting(q)
    BY <1>2 DEF Starting, treeVars
  <2> QED BY <1>1, <1>2, <1>3, <2>1, <2>2, TableStays
<1>7. CandsInv' /\ UncleanInv'
  BY <1>3, CandsEnv, UncleanEnv
<1>8. ClientPidsInv' /\ EnvEndedInv'
  BY <1>1, <1>2, <1>3, ClientsKept, EnvEndedKept DEF clientVars, endedVars
<1>9. MeantInv' /\ NoiseInv'
  BY <1>3, MeantEnv, NoiseEnv
<1> QED
  BY <1>2, <1>5, <1>6, <1>7, <1>8, <1>9, PromptParts

-----------------------------------------------------------------------------
(* The end, and the invariant of the runs that take the lines in order.    *)

\* A relative read waits only if a line was taken before an earlier one.
LEMMA NoRelative ==
    ASSUME Ordered, NEW p, TakeRelative(p), isFirst(NextLine(p)) PROVE FALSE
<1>1. TakeFile(p, "read") /\ p \notin seen
  BY DEF TakeRelative, Take
<1>2. ~flushed
  BY <1>1, FileOrdered
<1>3. TypeOK /\ KernelInv /\ HistoryInv /\ Bounds /\ OrderInv /\ SeenInv
  BY <1>2, OrderedParts
<1>4. InTurn(NextLine(p)) /\ NextLine(p).pid = p
  BY <1>1, <1>3, FileStep
<1> QED
  BY <1>1, <1>3, <1>4, BornBefore

\* What of the order depends on the lines and how many of them were taken only.
LEMMA SameTaken ==
    ASSUME UNCHANGED <<file, shim, leader, taken, shimTaken>>
    PROVE  /\ Lines' = Lines /\ \A l : (WasTaken(l)' <=> WasTaken(l)) /\ (IsLeft(l)' <=> IsLeft(l))
           /\ \A p : /\ FileFirst(p)' <=> FileFirst(p)
                     /\ ShimFirst(p)' <=> ShimFirst(p)
                     /\ Starting(p)' <=> Starting(p)
                     /\ Script(p)' <=> Script(p)
           /\ \A l : (Meant(l)' <=> Meant(l)) /\ (Noise(l)' <=> Noise(l))
           /\ \A p, e : HeldSince(p, e)' <=> HeldSince(p, e)
<1>1. Lines' = Lines
  BY DEF Lines
<1>2. \A l : (WasTaken(l)' <=> WasTaken(l)) /\ (IsLeft(l)' <=> IsLeft(l))
  BY DEF WasTaken, IsLeft
<1>3. \A p : /\ FileFirst(p)' <=> FileFirst(p)
             /\ ShimFirst(p)' <=> ShimFirst(p)
             /\ Starting(p)' <=> Starting(p)
             /\ Script(p)' <=> Script(p)
  BY DEF FileFirst, ShimFirst, Starting, Script, NextLine
<1>4. \A l : (Meant(l)' <=> Meant(l)) /\ (Noise(l)' <=> Noise(l))
  BY <1>1 DEF Meant, Noise, Clean, TellsLater, CalledNode
<1>5. \A p, e : HeldSince(p, e)' <=> HeldSince(p, e)
  BY <1>1, <1>2, <1>3 DEF HeldSince
<1> QED
  BY <1>1, <1>2, <1>3, <1>4, <1>5

\* When nothing is taken and no table changes only what is held back and in the audit matters.
LEMMA TablesStay ==
    ASSUME UNCHANGED <<file, shim, leader, taken, shimTaken, seen, boot, envReads, fileReads>>,
           UNCHANGED clientVars, UNCHANGED endedVars, UNCHANGED deferVars
    PROVE  /\ OrderInv => OrderInv'
           /\ SeenInv => SeenInv'
           /\ TableInv => TableInv'
           /\ UncleanInv => UncleanInv'
           /\ ClientPidsInv => ClientPidsInv'
           /\ EnvEndedInv => EnvEndedInv'
<1>1. UNCHANGED <<file, shim, leader, taken, shimTaken>>
  OBVIOUS
<1>2. Lines' = Lines /\ \A l : (WasTaken(l)' <=> WasTaken(l)) /\ (IsLeft(l)' <=> IsLeft(l))
  BY <1>1, SameTaken
<1>3. \A p : /\ FileFirst(p)' <=> FileFirst(p)
             /\ ShimFirst(p)' <=> ShimFirst(p)
             /\ Starting(p)' <=> Starting(p)
  BY <1>1, SameTaken
<1>4. OrderInv => OrderInv'
  BY <1>2 DEF OrderInv
<1>5. SeenInv => SeenInv'
  BY DEF SeenInv, deferVars
<1>6. TableInv => TableInv'
  BY <1>3 DEF TableInv, FilePendingInv, EnvPendingInv, SpreadInv, BelowInv, ToldInv
<1>7. UncleanInv => UncleanInv'
  BY <1>2 DEF UncleanInv
<1>8. (ClientPidsInv => ClientPidsInv') /\ (EnvEndedInv => EnvEndedInv')
  BY DEF ClientPidsInv, EnvEndedInv, clientVars, endedVars
<1> QED
  BY <1>4, <1>5, <1>6, <1>7, <1>8

\* What is held back at the end is in the audit then.
LEMMA FlushPrompt ==
    ASSUME Ordered, FlushAll PROVE PromptInv'
<1>1. /\ AllTaken /\ ~flushed /\ flushed'
      /\ emitted' = emitted \cup UNION {heldBack(p) : p \in Pids}
      /\ cand' = [pids |-> {}, events |-> [p \in Pids |-> {}], confirmed |-> {}, marked |-> {}]
      /\ UNCHANGED <<treeVars, takeVars, boot, envReads, fileReads, clientVars, endedVars, deferVars>>
  BY DEF FlushAll
<1>2. /\ TypeOK /\ KernelInv /\ HistoryInv /\ Bounds /\ OrderInv /\ SeenInv /\ TableInv
      /\ HeldBackInv /\ UncleanInv /\ ClientPidsInv /\ EnvEndedInv /\ MeantInv /\ NoiseInv
  BY <1>1, OrderedParts
<1>3. /\ UNCHANGED <<file, shim, leader, taken, shimTaken, seen, boot, envReads, fileReads>>
      /\ UNCHANGED clientVars /\ UNCHANGED endedVars /\ UNCHANGED deferVars /\ UNCHANGED treeVars
  BY <1>1 DEF treeVars, takeVars
<1>4. OrderInv' /\ SeenInv' /\ TableInv' /\ UncleanInv' /\ ClientPidsInv' /\ EnvEndedInv'
  BY <1>2, <1>3, TablesStay
<1>5. HeldBackInv'
  <2>1. \A p \in Pids : cand'.events[p] = {}
    BY <1>1
  <2> QED BY <2>1 DEF HeldBackInv
<1>6. MeantInv'
  <2> SUFFICES ASSUME NEW l \in Lines', WasTaken(l)', Meant(l)' PROVE l \in emitted'
    BY DEF MeantInv
  <2>1. l \in Lines /\ WasTaken(l) /\ Meant(l)
    BY <1>3, SameTaken
  <2>2. l.pid \in Pids
    BY <1>2, <2>1, LineFacts
  <2>3. l \in emitted \/ l \in cand.events[l.pid]
    BY <1>2, <2>1 DEF MeantInv
  <2> QED BY <1>1, <2>2, <2>3 DEF heldBack
<1>7. NoiseInv'
  BY <1>1, <1>2, <1>3, NoiseFlush
<1> QED
  BY <1>1, <1>4, <1>5, <1>6, <1>7 DEF PromptInv, TableInv

\* Nothing but the end of the tree, or nothing.
LEMMA PromptStays ==
    ASSUME PromptInv, UNCHANGED <<file, shim, leader>>, UNCHANGED dispatchVars PROVE PromptInv'
<1>1. /\ UNCHANGED <<file, shim, leader, taken, shimTaken, seen, boot, envReads, fileReads>>
      /\ UNCHANGED clientVars /\ UNCHANGED endedVars /\ UNCHANGED deferVars
      /\ UNCHANGED <<cand, emitted, flushed>>
  BY DEF dispatchVars, takeVars
<1>2. /\ OrderInv /\ SeenInv /\ TableInv /\ UncleanInv /\ ClientPidsInv /\ EnvEndedInv
      /\ HeldBackInv /\ (~flushed => CandidateInv) /\ MeantInv /\ NoiseInv
  BY DEF PromptInv, TableInv
<1>3. OrderInv' /\ SeenInv' /\ TableInv' /\ UncleanInv' /\ ClientPidsInv' /\ EnvEndedInv'
  BY <1>1, <1>2, TablesStay
<1>4. UNCHANGED <<file, shim, leader, taken, shimTaken>>
  BY <1>1
<1>5. HeldBackInv' /\ (~flushed' => CandidateInv')
  <2>1. /\ \A p : /\ FileFirst(p)' <=> FileFirst(p)
                  /\ ShimFirst(p)' <=> ShimFirst(p)
                  /\ Script(p)' <=> Script(p)
        /\ \A p, e : HeldSince(p, e)' <=> HeldSince(p, e)
    BY <1>4, SameTaken
  <2>2. HeldBackInv'
    BY <1>1, <1>2, <2>1 DEF HeldBackInv
  <2>3. ~flushed' => CandidateInv'
    BY <1>1, <1>2, <2>1 DEF CandidateInv
  <2> QED BY <2>2, <2>3
<1>6. MeantInv' /\ NoiseInv'
  <2>1. /\ Lines' = Lines /\ \A l : WasTaken(l)' <=> WasTaken(l)
        /\ \A l : (Meant(l)' <=> Meant(l)) /\ (Noise(l)' <=> Noise(l))
    BY <1>4, SameTaken
  <2>2. MeantInv'
    BY <1>1, <1>2, <2>1 DEF MeantInv
  <2>3. NoiseInv'
    BY <1>1, <1>2, <2>1 DEF NoiseInv
  <2> QED BY <2>2, <2>3
<1> QED
  BY <1>3, <1>5, <1>6 DEF PromptInv, TableInv

\* Before the first line.
LEMMA FreshPrompt ==
    ASSUME TypeOK, KernelInv, Fresh PROVE PromptInv
<1>1. /\ \A p \in Pids : taken[p] = 0 /\ envEndedTs[p] = 0 /\ boot.children[p] = {}
                         /\ cand.events[p] = {}
      /\ shimTaken = 0 /\ boot.file = {} /\ boot.env = {} /\ cand.pids = {} /\ cand.marked = {}
      /\ cand.confirmed = {} /\ fileReads = {} /\ envReads = {} /\ emitted = {} /\ seen = {Root}
      /\ packageManagerClientPids = {} /\ completedPackageManagerClientPids = {}
      /\ deferredRelOpens = <<>> /\ deferredNullAttribEvents = <<>>
  BY DEF Fresh
<1>2. 1..0 = {} /\ ~(0 > 0)
  OBVIOUS
<1>3. \A p \in Pids : ~FileFirst(p) /\ ~ShimFirst(p) /\ ~Starting(p)
  BY <1>1, <1>2 DEF FileFirst, ShimFirst, Starting
<1>4. \A l \in Lines : l.pid \in Pids
  BY LineFacts
<1>5. \A l \in Lines : ~WasTaken(l)
  BY <1>1, <1>2, <1>4 DEF WasTaken
<1>6. OrderInv /\ SeenInv /\ MeantInv
  BY <1>1, <1>2, <1>5 DEF OrderInv, SeenInv, MeantInv
<1>7. FilePendingInv /\ EnvPendingInv /\ SpreadInv /\ BelowInv /\ ToldInv
  BY <1>1, <1>2, <1>3 DEF FilePendingInv, EnvPendingInv, SpreadInv, BelowInv, ToldInv
<1>8. HeldBackInv /\ CandidateInv
  BY <1>1 DEF HeldBackInv, CandidateInv
<1>9. UncleanInv /\ ClientPidsInv /\ EnvEndedInv /\ NoiseInv
  BY <1>1 DEF UncleanInv, ClientPidsInv, EnvEndedInv, NoiseInv
<1> QED
  BY <1>6, <1>7, <1>8, <1>9 DEF PromptInv

LEMMA InitHistory ==
    ASSUME Init PROVE HistoryInv
<1>1. /\ live = {Root} /\ Root \in Pids /\ client[Root] /\ shim = <<>>
      /\ \A p \in Pids : leader[p] = p /\ image[p] = "other" /\ file[p] = <<>>
  BY RootAssumption DEF Init
<1>2. /\ Lines = {}
      /\ 1..Len(shim) = {} /\ \A p \in Pids : 1..Len(file[p]) = {}
  <2>1. DOMAIN <<>> = {} /\ 1..Len(<<>>) = {}
    OBVIOUS
  <2>2. \A l : l \notin Lines
    BY <1>1, <2>1, LinesAre
  <2> QED BY <1>1, <2>1, <2>2
<1>3. NumberInv /\ NamedInv /\ SameInv
  BY <1>2 DEF NumberInv, NamedInv, SameInv
<1>4. OriginInv
  BY <1>1, <1>2 DEF OriginInv, Births
<1>5. StartupInv
  BY <1>1, <1>2 DEF StartupInv
<1>6. ClientInv
  BY <1>1, <1>2 DEF ClientInv
<1>7. ThreadStartInv /\ ExitInv
  BY <1>1, <1>2 DEF ThreadStartInv, ExitInv
<1> QED
  BY <1>3, <1>4, <1>5, <1>6, <1>7 DEF HistoryInv

LEMMA HistoryStays ==
    ASSUME HistoryInv, UNCHANGED <<live, image, leader, client, file, shim, calls>>
    PROVE  HistoryInv'
<1>1. Lines' = Lines
  BY DEF Lines
<1>2. Births' = Births
  BY <1>1 DEF Births
<1>3. NumberInv' /\ OriginInv' /\ NamedInv'
  BY <1>1, <1>2 DEF HistoryInv, NumberInv, OriginInv, NamedInv
<1>4. StartupInv'
  BY <1>1 DEF HistoryInv, StartupInv, Since
<1>5. SameInv'
  BY <1>1 DEF HistoryInv, SameInv, Since
<1>6. ClientInv' /\ ThreadStartInv' /\ ExitInv'
  BY <1>1 DEF HistoryInv, ClientInv, Within, ThreadStartInv, BornIn, ExitInv
<1> QED
  BY <1>3, <1>4, <1>5, <1>6 DEF HistoryInv

Prompting ==
    Reading /\ HistoryInv /\ (~running /\ prompt => PromptInv)

\* At the end, what was taken in order is in the audit if it is meant and not if it is noise.
LEMMA PromptingExact == Prompting => PromptExact
<1> SUFFICES ASSUME Prompting, flushed, prompt PROVE PromptExact
  BY DEF PromptExact
<1>1. ~running
  BY DEF Prompting, Reading, FreshWhileRunning, Fresh
<1>2. TypeOK /\ KernelInv /\ Bounds /\ AllTaken /\ (\A p \in Pids : cand.events[p] = {}) /\ PromptInv
  BY <1>1 DEF Prompting, Reading, ReadInv, FlushedInv
<1>3. /\ \A p \in Pids : taken[p] \in Nat /\ Len(file[p]) \in Nat /\ DOMAIN file[p] = 1..Len(file[p])
      /\ DOMAIN shim = 1..Len(shim)
  BY <1>2 DEF TypeOK
<1>4. shimTaken = Len(shim) /\ \A p \in Pids : taken[p] = Len(file[p])
  BY <1>2, <1>3 DEF AllTaken, Untaken, Bounds
<1> SUFFICES ASSUME NEW l \in Lines
             PROVE  /\ Meant(l) => l \in emitted
                    /\ Noise(l) => l \notin emitted
  BY DEF PromptExact, Meant, Noise
<1>5. WasTaken(l) /\ l.pid \in Pids
  <2>1. l.pid \in Pids
    BY <1>2, LineFacts
  <2>2. ASSUME NEW p \in Pids, NEW i \in DOMAIN file[p], l = file[p][i] PROVE WasTaken(l)
    <3>1. l.pid = p /\ i \in 1..taken[p]
      BY <1>2, <1>3, <1>4, <2>2, LineFacts
    <3> QED BY <2>2, <3>1 DEF WasTaken
  <2>3. ASSUME NEW k \in DOMAIN shim, l = shim[k] PROVE WasTaken(l)
    BY <1>3, <1>4, <2>3 DEF WasTaken
  <2> QED BY <2>1, <2>2, <2>3, LinesAre
<1>6. Meant(l) => l \in emitted
  BY <1>2, <1>5 DEF PromptInv, MeantInv
<1>7. Noise(l) => l \notin emitted
  BY <1>2 DEF PromptInv, NoiseInv
<1> QED
  BY <1>6, <1>7

LEMMA InitPrompting == Init => Prompting
<1> SUFFICES ASSUME Init PROVE Prompting
  OBVIOUS
<1>1. running
  BY DEF Init
<1> QED
  BY <1>1, InitReading, InitHistory DEF Prompting

LEMMA ProcessesPrompting ==
    ASSUME Prompting, NEW p \in Pids, Processes(p) PROVE Prompting'
<1>1. TypeOK /\ KernelInv /\ Reading /\ HistoryInv
  BY DEF Reading, Prompting
<1>2. \/ \E l : Writes(p, l)
      \/ \E l : Speaks(p, l)
  <2>1. ASSUME StartedCall(p) PROVE \E l : Writes(p, l)
    <3>1. leader[p] = p
      BY <1>1, <2>1 DEF StartedCall, KernelInv, ThreadInv
    <3> QED BY <1>1, <2>1, <3>1, StartedWrites
  <2> QED BY <1>1, <2>1, ExecWrites, CloneWrites, ThreadWrites, ReadWrites, EnvSpeaks, ExitWrites
          DEF Processes
<1>3. HistoryInv'
  BY <1>1, <1>2, WritesHistory, SpeaksHistory
<1>4. running'
  BY <1>2 DEF Writes, Speaks
<1>5. Reading'
  BY <1>1, ProcessesReading
<1> QED
  BY <1>3, <1>4, <1>5 DEF Prompting

LEMMA DonePrompting ==
    ASSUME Prompting, TreeDone PROVE Prompting'
<1>1. Reading' /\ UNCHANGED <<live, image, leader, client, file, shim, calls>>
      /\ UNCHANGED dispatchVars
  BY DoneReading DEF Prompting, TreeDone
<1>2. HistoryInv'
  BY <1>1, HistoryStays DEF Prompting
<1>3. PromptInv
  BY FreshPrompt DEF Prompting, Reading, FreshWhileRunning, TreeDone
<1>4. PromptInv'
  BY <1>1, <1>3, PromptStays
<1> QED
  BY <1>1, <1>2, <1>4 DEF Prompting

\* A line is only taken in order when it is the earliest and those before were.
LEMMA PromptBefore ==
    ASSUME prompt',
           \/ \E p \in Pids : Dispatch(p)
           \/ TakeShimMarker \/ TakeEnv \/ ReplayRelOpen \/ ReplayReaped \/ FlushAll
    PROVE  /\ prompt
           /\ \A p \in Pids : Dispatch(p) => isFirst(NextLine(p)) /\ ~TakeReapedRead(p)
           /\ TakeShimMarker \/ TakeEnv => isFirst(shim[shimTaken + 1])
<1>1. \A p \in Pids : Dispatch(p) => prompt /\ isFirst(NextLine(p)) /\ ~TakeReapedRead(p)
  BY DEF Dispatch, TakeExec, TakeClone, TakeExit, TakeMarker, TakeRelative, TakeRead, TakeReapedRead, Take
<1>2. TakeShimMarker \/ TakeEnv => prompt /\ isFirst(shim[shimTaken + 1])
  BY DEF TakeShimMarker, TakeEnv, TakeShim
<1>3. ReplayRelOpen \/ ReplayReaped \/ FlushAll => prompt
  BY DEF ReplayRelOpen, ReplayReaped, FlushAll, takeVars
<1> QED
  BY <1>1, <1>2, <1>3

LEMMA DispatchPrompting ==
    ASSUME Prompting, ~running,
           \/ \E p \in Pids : Dispatch(p)
           \/ TakeShimMarker \/ TakeEnv \/ ReplayRelOpen \/ ReplayReaped \/ FlushAll
    PROVE  Prompting'
<1>1. TypeOK /\ KernelInv /\ ReadInv /\ HistoryInv /\ Reading
  BY DEF Prompting, Reading
<1>2. UNCHANGED treeVars
  BY <1>1, PromptType, NextOf, NextShim
  DEF Dispatch, TakeExec, TakeClone, TakeExit, TakeMarker, TakeRelative, TakeRead, TakeReapedRead,
      TakeShimMarker, TakeEnv, ReplayRelOpen, ReplayReaped, FlushAll
<1>3. HistoryInv'
  BY <1>1, <1>2, HistoryStays DEF treeVars
<1>4. Reading'
  BY <1>1, DispatchReading
<1>5. ASSUME prompt' PROVE PromptInv'
  <2>1. /\ prompt
        /\ \A p \in Pids : Dispatch(p) => isFirst(NextLine(p)) /\ ~TakeReapedRead(p)
        /\ TakeShimMarker \/ TakeEnv => isFirst(shim[shimTaken + 1])
    BY <1>5, PromptBefore
  <2>2. Ordered
    BY <1>1, <2>1 DEF Prompting, Ordered
  <2>3. ASSUME NEW p \in Pids, Dispatch(p) PROVE PromptInv'
    <3>1. isFirst(NextLine(p)) /\ ~TakeReapedRead(p)
      BY <2>1, <2>3
    <3>2. CASE TakeExec(p)
      BY <2>2, <3>1, <3>2, ExecPrompt
    <3>3. CASE TakeClone(p, "clone") \/ TakeClone(p, "thread")
      BY <2>2, <3>1, <3>3, ClonePrompt
    <3>4. CASE TakeExit(p)
      BY <2>2, <3>1, <3>4, ExitPrompt
    <3>5. CASE TakeMarker(p)
      BY <2>2, <3>1, <3>5, MarkerPrompt
    <3>6. ~TakeRelative(p)
      BY <2>2, <3>1, NoRelative
    <3>7. CASE TakeRead(p)
      BY <2>2, <3>1, <3>7, ReadPrompt
    <3> QED BY <2>3, <3>1, <3>2, <3>3, <3>4, <3>5, <3>6, <3>7 DEF Dispatch
  <2>4. CASE TakeShimMarker
    BY <2>1, <2>2, <2>4, ShimMarkerPrompt
  <2>5. CASE TakeEnv
    BY <2>1, <2>2, <2>5, EnvPrompt
  <2>6. ~ReplayRelOpen /\ ~ReplayReaped
    BY <2>2 DEF Ordered, PromptInv, SeenInv, ReplayRelOpen, ReplayReaped
  <2>7. CASE FlushAll
    BY <2>2, <2>7, FlushPrompt
  <2> QED BY <2>3, <2>4, <2>5, <2>6, <2>7
<1> QED
  BY <1>3, <1>4, <1>5 DEF Prompting

LEMMA StutterPrompting == Prompting /\ UNCHANGED vars => Prompting'
<1> SUFFICES ASSUME Prompting, UNCHANGED vars PROVE Prompting'
  OBVIOUS
<1>1. UNCHANGED treeVars /\ UNCHANGED dispatchVars
  BY DEF vars
<1>2. Reading'
  BY StutterReading DEF Prompting
<1>3. HistoryInv'
  BY <1>1, HistoryStays DEF treeVars, Prompting
<1>4. running' = running /\ prompt' = prompt /\ UNCHANGED <<file, shim, leader>>
  BY <1>1 DEF treeVars, dispatchVars, takeVars
<1>5. ~running /\ prompt => PromptInv'
  BY <1>1, <1>4, PromptStays DEF Prompting
<1> QED
  BY <1>2, <1>3, <1>4, <1>5 DEF Prompting

LEMMA NextPrompting == Prompting /\ [Next]_vars => Prompting'
<1> SUFFICES ASSUME Prompting, [Next]_vars PROVE Prompting'
  OBVIOUS
<1>1. ASSUME \/ \E p \in Pids : Dispatch(p)
             \/ TakeShimMarker \/ TakeEnv \/ ReplayRelOpen \/ ReplayReaped \/ FlushAll
      PROVE  ~running
  BY <1>1
  DEF Dispatch, TakeExec, TakeClone, TakeExit, TakeMarker, TakeRelative, TakeRead, TakeReapedRead,
      TakeShimMarker, TakeEnv, ReplayRelOpen, ReplayReaped, FlushAll, AllTaken, Take, TakeFile, TakeShim
<1> QED
  BY <1>1, ProcessesPrompting, DonePrompting, DispatchPrompting, StutterPrompting DEF Next, Done

\* Lines taken in the order in which they were written, before their processes are gone, leave
\* out exactly the noise (the begin, spread and end of the bootstrap, the reads held back): what
\* is read of clean items is in the audit, what a Node reads before it tells is not.
THEOREM PromptExactHolds == Spec => []PromptExact
<1>1. Spec => []Prompting
  BY InitPrompting, NextPrompting, PTL DEF Spec
<1> QED
  BY <1>1, PromptingExact, PTL

=============================================================================
