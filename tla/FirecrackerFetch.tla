-------------------------- MODULE FirecrackerFetch --------------------------
(***************************************************************************)
(* How a run of the Firecracker backend comes by its files: the image and  *)
(* library of the release (preFetchArtifacts), the pinned tarball and      *)
(* kernel (ensureBinaries), and the binary, extracted from the tarball by  *)
(* a tar reader fed by a stream; and how it uses them: the image is copied *)
(* (makeOverlay), the binary started and given its kernel (launchVm).  A   *)
(* self-test run fetches no image and takes the one that is there.  The    *)
(* directory is kept between runs and may be shared with another run,      *)
(* which clears it, renames files of its own into it and replaces the      *)
(* binary at any moment.                                                   *)
(*                                                                         *)
(* A tar block is 512 bytes; a stream delivers any number of halves of     *)
(* one.  The content of an archive is not known to the reader beforehand.  *)
(***************************************************************************)
EXTENDS Integers, Sequences, FiniteSets

CONSTANTS
    Early, Late,    \* the files fetched by preFetchArtifacts and by ensureBinaries
    Tgz,            \* the tarball, one of Late
    Image, Kernel,  \* the image, one of Early, and the kernel, another of Late
    Sizes,          \* declared sizes of entries, in halves
    MaxBlocks,      \* bound: blocks of the archive
    MaxRuns,        \* bound: runs of the process
    MaxMeddling     \* bound: steps of the other run

Assets == Early \cup Late

ASSUME ConstantsAssumption ==
    /\ Early \cap Late = {} /\ Tgz \in Late /\ Sizes \subseteq Nat
    /\ Image \in Early /\ Kernel \in Late \ {Tgz}
    /\ {MaxBlocks, MaxRuns, MaxMeddling} \subseteq Nat

VARIABLES
    \* the images directory
    dir,        \* of each asset: absent, corrupt or pinned
    bin,        \* absent, stale, partial, or whole
    execBit,
    meddled,
    \* the run
    run, pc,
    cacheFirecracker, selfTest,
    fetch,      \* of each asset
    copy,       \* the image of its overlay
    \* the tarball behind the pinned digest, and its reader
    archive, stray,
    upto, at,   \* halves delivered and consumed
    state, paddedRemaining, declaredRemaining, capturing,
    foundEntry, archiveEnded, gunzipEnded, targetClosed,
    settled,
    out,        \* the stream to tmpOut: none, open, ending, closed, destroyed
    written,    \* the halves written to it
    ioError     \* a stream has failed

dirVars == <<dir, bin, execBit>>
inputs == <<cacheFirecracker, selfTest>>
runVars == <<run, pc, inputs, fetch, copy>>
tarVars == <<archive, stray>>
readVars == <<upto, at, state, paddedRemaining, declaredRemaining, capturing, foundEntry, archiveEnded>>
endVars == <<gunzipEnded, targetClosed, settled, out, ioError>>
reader == <<readVars, endVars, written>>
fetchVars == <<dirVars, meddled, runVars, tarVars, reader>>

\* A header with a bad checksum, size or type stands for data read as a header, too.
Block ==
    [k : {"file"}, target : BOOLEAN, size : Sizes] \cup [k : {"dir"}, target : BOOLEAN, size : {0}]
        \cup [k : {"bad", "zero"}, target : {FALSE}, size : {0}]
Archives == UNION {[1..n -> Block] : n \in 0..MaxBlocks}

blocks(size) == (size + 1) \div 2
total == 2 * Len(archive) + stray

FetchTypeOK ==
    /\ dir \in [Assets -> {"absent", "corrupt", "pinned"}]
    /\ bin \in {"absent", "stale", "partial", "whole"} /\ execBit \in BOOLEAN
    /\ meddled \in 0..MaxMeddling /\ run \in 1..MaxRuns
    /\ cacheFirecracker \in BOOLEAN /\ selfTest \in BOOLEAN /\ copy \in {"none", "corrupt", "pinned"}
    /\ pc \in {"clear", "prefetch", "ensure", "unlink", "unlinking", "extract", "rename", "chmod",
               "overlay", "launch", "configure", "started", "failed"}
    /\ fetch \in [Assets -> {"idle", "hash", "download", "done", "failed"}]
    /\ archive \in Seq(Block) /\ stray \in {0, 1} /\ upto \in 0..total /\ at \in 0..upto
    /\ state \in {"header", "data"} /\ paddedRemaining \in Nat /\ declaredRemaining \in Nat
    /\ {capturing, foundEntry, archiveEnded, gunzipEnded, targetClosed, ioError} \subseteq BOOLEAN
    /\ settled \in {"no", "resolved", "rejected"}
    /\ out \in {"none", "open", "ending", "closed", "destroyed"} /\ written \in Seq(Nat)

ReaderInit ==
    /\ upto = 0 /\ at = 0 /\ state = "header" /\ paddedRemaining = 0 /\ declaredRemaining = 0
    /\ capturing = FALSE /\ foundEntry = FALSE /\ archiveEnded = FALSE
    /\ gunzipEnded = FALSE /\ targetClosed = FALSE /\ settled = "no" /\ out = "none"
    /\ ioError = FALSE /\ written = <<>>

\* A cache restored from elsewhere may hold anything under these names.
FetchInit ==
    /\ dir \in [Assets -> {"absent", "corrupt", "pinned"}]
    /\ bin \in {"absent", "stale"} /\ execBit = (bin = "stale")
    /\ meddled = 0 /\ run = 1 /\ pc = "clear" /\ cacheFirecracker \in BOOLEAN /\ selfTest \in BOOLEAN
    /\ fetch = [f \in Assets |-> "idle"] /\ copy = "none"
    /\ archive = <<>> /\ stray = 0
    /\ ReaderInit

-----------------------------------------------------------------------------
(* Fetching.                                                               *)

Fetching == UNCHANGED <<bin, execBit, meddled, run, inputs, copy, tarVars, reader>>

\* A self-test run goes on without preFetchArtifacts.
maybeClearCache ==
    /\ pc = "clear" /\ pc' = IF selfTest THEN "ensure" ELSE "prefetch"
    /\ IF cacheFirecracker
       THEN UNCHANGED dirVars
       ELSE /\ dir' = [f \in Assets |-> IF f \in Late THEN "absent" ELSE dir[f]]
            /\ bin' = "absent" /\ execBit' = FALSE
    /\ UNCHANGED <<meddled, run, inputs, fetch, copy, tarVars, reader>>

Stage(f) == IF f \in Early THEN "prefetch" ELSE "ensure"

\* The fetches of a stage run side by side and go on when one of them has failed the run.
ensureFile(f) ==
    /\ Fetching /\ fetch[f] = "idle" /\ pc = Stage(f)
    /\ fetch' = [fetch EXCEPT ![f] = IF dir[f] = "absent" THEN "download" ELSE "hash"]
    /\ UNCHANGED <<dir, pc>>

\* The file is read after it was seen to exist.
digested(f) == CASE dir[f] = "pinned" -> "done" [] dir[f] = "corrupt" -> "download" [] OTHER -> "failed"

Hash(f) ==
    /\ Fetching /\ fetch[f] = "hash"
    /\ fetch' = [fetch EXCEPT ![f] = digested(f)]
    /\ UNCHANGED <<dir, pc>>

\* To a temporary name; the digest is compared before the rename.
download(f) ==
    /\ Fetching /\ fetch[f] = "download"
    /\ \/ fetch' = [fetch EXCEPT ![f] = "done"] /\ dir' = [dir EXCEPT ![f] = "pinned"]
       \/ fetch' = [fetch EXCEPT ![f] = "failed"] /\ UNCHANGED dir
    /\ UNCHANGED pc

StageEnds(files, stage, next) ==
    /\ Fetching /\ pc = stage
    /\ \/ \E f \in files : fetch[f] = "failed" /\ pc' = "failed"
       \/ (\A f \in files : fetch[f] = "done") /\ pc' = next
    /\ UNCHANGED <<dir, fetch>>

preFetchArtifacts == StageEnds(Early, "prefetch", "ensure")
ensureBinaries == StageEnds(Late, "ensure", "unlink")

Fetch == \E f \in Assets : ensureFile(f) \/ Hash(f) \/ download(f)

-----------------------------------------------------------------------------
(* The binary.                                                             *)

Steps == UNCHANGED <<dir, meddled, run, inputs, fetch, copy>>

\* MUTANT of SeesBinary: a binary that is there is kept.
Mut_SeesBinary ==
    /\ Steps /\ pc = "unlink"
    /\ pc' = IF bin = "absent" THEN "extract" ELSE "chmod"
    /\ archive' \in Archives /\ stray' \in {0, 1}
    /\ UNCHANGED <<bin, execBit, reader>>

SeesBinary ==
    /\ Steps /\ pc = "unlink"
    /\ \/ bin # "absent" /\ pc' = "unlinking" /\ UNCHANGED tarVars
       \/ bin = "absent" /\ pc' = "extract" /\ archive' \in Archives /\ stray' \in {0, 1}
    /\ UNCHANGED <<bin, execBit, reader>>

Unlink ==
    /\ Steps /\ pc = "unlinking"
    /\ \/ bin # "absent" /\ pc' = "extract" /\ archive' \in Archives /\ stray' \in {0, 1}
       \/ bin = "absent" /\ pc' = "failed" /\ UNCHANGED tarVars
    /\ bin' = "absent" /\ execBit' = FALSE
    /\ UNCHANGED reader

\* Where the reference finds a header: at the first block, and after each entry; the least set
\* of places closed under this.  The place after the archive stands for its end.
Places == 1..(Len(archive) + 1)
after(j) == j + 1 + blocks(archive[j].size)
Chained(S) == 1 \in S /\ \A j \in S \cap DOMAIN archive : after(j) \in Places => after(j) \in S
HeaderStarts == {i \in Places : \A S \in SUBSET Places : Chained(S) => i \in S}
Headers == HeaderStarts \cap DOMAIN archive

\* The one entry looked for, and its halves.
Entries == {i \in Headers : archive[i].target}
Halves(i, n) == [m \in 1..n |-> 2 * i + m]
content == LET i == CHOOSE i \in Entries : TRUE IN Halves(i, archive[i].size)

WellFormed ==
    /\ stray = 0 /\ Len(archive) + 1 \in HeaderStarts
    /\ \A i \in Headers : archive[i].k # "bad"
    /\ \A i, j \in Headers : i < j /\ archive[i].k = "zero" => archive[j].k = "zero"
    /\ Cardinality(Entries) = 1 /\ \A i \in Entries : archive[i].k = "file" /\ archive[i].size > 0

\* The rename of the temporary file, in two awaited steps; it may fail.
Rename ==
    /\ Steps /\ pc = "rename"
    /\ \/ pc' = "chmod" /\ bin' = (IF WellFormed /\ written = content THEN "whole" ELSE "partial")
          /\ execBit' = FALSE
       \/ pc' = "failed" /\ UNCHANGED <<bin, execBit>>
    /\ UNCHANGED <<tarVars, reader>>

Chmod ==
    /\ Steps /\ pc = "chmod"
    /\ pc' = (IF bin = "absent" THEN "failed" ELSE "overlay") /\ execBit' = (bin # "absent")
    /\ UNCHANGED <<bin, tarVars, reader>>

\* copyRootfs takes the image that is there by then; it or a disk of the overlay may fail.
makeOverlay ==
    /\ pc = "overlay"
    /\ \/ dir[Image] # "absent" /\ copy' = dir[Image] /\ pc' = "launch"
       \/ pc' = "failed" /\ UNCHANGED copy
    /\ UNCHANGED <<dirVars, meddled, run, inputs, fetch, tarVars, reader>>

\* launchVm spawns the binary and waits for its socket ...
launchVm ==
    /\ Steps /\ pc = "launch"
    /\ \/ bin # "absent" /\ execBit /\ pc' = "configure"
       \/ pc' = "failed"
    /\ UNCHANGED <<bin, execBit, tarVars, reader>>

\* ... and configures it; Firecracker reads the kernel before the machine runs.  A request that
\* fails has the process killed.
InstanceStart ==
    /\ Steps /\ pc = "configure"
    /\ \/ dir[Kernel] # "absent" /\ pc' = "started"
       \/ pc' = "failed"
    /\ UNCHANGED <<bin, execBit, tarVars, reader>>

-----------------------------------------------------------------------------
(* extractFirecrackerBinary: one conjunct per event of its streams.        *)

Extracting == pc = "extract" /\ settled = "no" /\ UNCHANGED <<dirVars, meddled, runVars, tarVars>>

BLOCK == 2
buffered == upto - at
\* processBuffer has run to its end.
Idle == buffered < BLOCK

fail ==
    /\ settled' = "rejected" /\ out' = (IF out = "open" THEN "destroyed" ELSE out)
    /\ UNCHANGED <<gunzipEnded, targetClosed>>

\* Its arguments are the values after the event.
maybeSucceed(ended, closed) ==
    settled' = IF ended /\ (foundEntry => closed) THEN "resolved" ELSE settled

Data ==
    /\ Extracting /\ Idle /\ ~gunzipEnded
    /\ \E n \in (upto + 1)..total : upto' = n
    /\ UNCHANGED <<at, state, paddedRemaining, declaredRemaining, capturing, foundEntry, archiveEnded,
                   endVars, written>>

Header == archive[(at \div BLOCK) + 1]
header == Extracting /\ ~Idle /\ state = "header"

ZeroBlock ==
    /\ header /\ Header.k = "zero"
    /\ archiveEnded' = TRUE /\ at' = at + BLOCK
    /\ UNCHANGED <<upto, state, paddedRemaining, declaredRemaining, capturing, foundEntry, endVars, written>>

\* What the reader rejects at a header.
rejected ==
    \/ archiveEnded \/ Header.k = "bad"
    \/ Header.target /\ (foundEntry \/ Header.k = "dir" \/ Header.size = 0)

RejectedHeader ==
    /\ header /\ Header.k # "zero" /\ rejected
    /\ fail /\ UNCHANGED <<readVars, ioError, written>>

EntryHeader ==
    /\ header /\ Header.k # "zero" /\ ~rejected
    /\ at' = at + BLOCK /\ state' = "data"
    /\ paddedRemaining' = BLOCK * blocks(Header.size) /\ declaredRemaining' = Header.size
    /\ capturing' = Header.target /\ foundEntry' = (foundEntry \/ Header.target)
    /\ out' = IF Header.target THEN "open" ELSE out
    /\ UNCHANGED <<upto, archiveEnded, gunzipEnded, targetClosed, settled, ioError, written>>

Smaller(m, n) == IF m < n THEN m ELSE n

\* MUTANT of writeBytes: the padding is written too.
Mut_writeBytes(take) == IF capturing THEN take ELSE 0
writeBytes(take) == IF capturing THEN Smaller(take, declaredRemaining) ELSE 0

EntryData ==
    LET take == Smaller(paddedRemaining, buffered)
        n == writeBytes(take)
    IN /\ Extracting /\ ~Idle /\ state = "data"
       /\ written' = written \o [i \in 1..n |-> at + i]
       /\ declaredRemaining' = declaredRemaining - n
       /\ at' = at + take /\ paddedRemaining' = paddedRemaining - take
       /\ IF paddedRemaining' = 0
          THEN /\ state' = "header" /\ capturing' = FALSE
               /\ out' = IF capturing THEN "ending" ELSE out
          ELSE UNCHANGED <<state, capturing, out>>
       /\ UNCHANGED <<upto, foundEntry, archiveEnded, gunzipEnded, targetClosed, settled, ioError>>

GunzipEnd ==
    /\ Extracting /\ Idle /\ ~gunzipEnded /\ upto = total
    /\ UNCHANGED <<readVars, ioError, written>>
    /\ IF ~foundEntry \/ (state = "data" /\ paddedRemaining > 0) \/ buffered # 0
       THEN /\ fail
       ELSE /\ gunzipEnded' = TRUE /\ maybeSucceed(TRUE, targetClosed)
            /\ out' = (IF out = "open" THEN "ending" ELSE out) /\ UNCHANGED targetClosed

\* MUTANT of OutClose: the close is noted, but the outcome was left to the end of the archive.
Mut_OutClose ==
    /\ Extracting /\ Idle /\ out = "ending"
    /\ out' = "closed" /\ targetClosed' = TRUE
    /\ UNCHANGED <<readVars, gunzipEnded, settled, ioError, written>>

OutClose ==
    /\ Extracting /\ Idle /\ out = "ending"
    /\ out' = "closed" /\ targetClosed' = TRUE /\ maybeSucceed(gunzipEnded, TRUE)
    /\ UNCHANGED <<readVars, gunzipEnded, ioError, written>>

\* The tarball cannot be opened or read, or is no gzip; or tmpOut cannot be written.
StreamError ==
    /\ Extracting /\ Idle /\ (~gunzipEnded \/ out \in {"open", "ending"})
    /\ fail /\ ioError' = TRUE
    /\ UNCHANGED <<readVars, written>>

Extracted ==
    /\ pc = "extract" /\ settled # "no"
    /\ pc' = IF settled = "resolved" THEN "rename" ELSE "failed"
    /\ UNCHANGED <<dirVars, meddled, run, inputs, fetch, copy, tarVars, reader>>

Extract ==
    \/ Data \/ ZeroBlock \/ RejectedHeader \/ EntryHeader \/ EntryData \/ GunzipEnd \/ OutClose
    \/ Extracted

-----------------------------------------------------------------------------
(* The other run, and a crash.                                             *)

\* Until this run has started its machine.
Meddles == pc # "started" /\ meddled < MaxMeddling /\ meddled' = meddled + 1 /\ UNCHANGED <<runVars, tarVars, reader>>

OtherClears ==
    /\ Meddles /\ dir' = [f \in Assets |-> IF f \in Late THEN "absent" ELSE dir[f]]
    /\ bin' = "absent" /\ execBit' = FALSE
OtherFetches == Meddles /\ (\E f \in Assets : dir' = [dir EXCEPT ![f] = "pinned"]) /\ UNCHANGED <<bin, execBit>>
OtherUnlinks == Meddles /\ bin # "absent" /\ bin' = "absent" /\ execBit' = FALSE /\ UNCHANGED dir
OtherRenames == Meddles /\ bin' = "whole" /\ execBit' = FALSE /\ UNCHANGED dir
OtherChmods == Meddles /\ bin # "absent" /\ execBit' = TRUE /\ UNCHANGED <<bin, dir>>

Other == OtherClears \/ OtherFetches \/ OtherUnlinks \/ OtherRenames \/ OtherChmods

\* The process dies, or has failed; the next run finds the directory as it is.
Crash ==
    /\ run < MaxRuns /\ run' = run + 1 /\ pc # "started"
    /\ pc' = "clear" /\ cacheFirecracker' \in BOOLEAN /\ selfTest' \in BOOLEAN
    /\ fetch' = [f \in Assets |-> "idle"] /\ copy' = "none"
    /\ archive' = <<>> /\ stray' = 0
    /\ upto' = 0 /\ at' = 0 /\ state' = "header" /\ paddedRemaining' = 0 /\ declaredRemaining' = 0
    /\ capturing' = FALSE /\ foundEntry' = FALSE /\ archiveEnded' = FALSE
    /\ gunzipEnded' = FALSE /\ targetClosed' = FALSE /\ settled' = "no" /\ out' = "none"
    /\ ioError' = FALSE /\ written' = <<>>
    /\ UNCHANGED <<dirVars, meddled>>

-----------------------------------------------------------------------------
FetchNext ==
    \/ maybeClearCache \/ Fetch \/ preFetchArtifacts \/ ensureBinaries
    \/ SeesBinary \/ Unlink \/ Extract \/ StreamError \/ Rename \/ Chmod
    \/ makeOverlay \/ launchVm \/ InstanceStart
    \/ Other \/ Crash

\* The tarball is a local file: its stream and the stream to tmpOut go on.  A download has
\* no time limit.
FetchSpec == FetchInit /\ [][FetchNext]_fetchVars /\ WF_fetchVars(Extract)

-----------------------------------------------------------------------------
(* Properties.                                                             *)

\* Extraction resolves only when the whole archive is well-formed and the closed temporary file
\* holds just the declared bytes of the one entry, and rejects a well-formed archive that ends
\* with its zero block only when a stream fails, however the archive was cut into chunks.
ExtractExact ==
    /\ settled = "resolved" => WellFormed /\ out = "closed" /\ written = content
    /\ settled = "rejected" /\ ~ioError =>
          ~(WellFormed /\ Len(archive) \in Headers /\ archive[Len(archive)].k = "zero")

\* Whatever was in the directory, whatever another run does to it and wherever an earlier run
\* was cut off, launchVm spawns no binary but the pinned one, and a machine starts with the
\* pinned kernel and on a copy of the pinned image; only a self-test run, which skips
\* preFetchArtifacts, may start on an image no digest was compared for.
StartsPinned ==
    [][/\ pc # "configure" /\ pc' = "configure" => bin = "whole"
       /\ pc # "started" /\ pc' = "started" =>
             dir[Kernel] = "pinned" /\ (copy = "pinned" \/ selfTest)]_fetchVars

\* Extraction never waits for an event that does not come.
ExtractSettles == pc = "extract" ~> pc # "extract"
=============================================================================
