------------------------- MODULE MCFirecrackerFetch -------------------------
(* Either every archive of MaxBlocks blocks is read in a first, undisturbed *)
(* run, or the other run and a crash come in and the archive is one with    *)
(* one entry.                                                               *)
EXTENDS FirecrackerFetch

CONSTANTS rootfs, tgz, vmlinux

Small == archive = <<[k |-> "file", target |-> TRUE, size |-> 1],
                    [k |-> "bad", target |-> FALSE, size |-> 0],
                    [k |-> "zero", target |-> FALSE, size |-> 0]>>
Quiet == meddled = 0 /\ run = 1 /\ \A f \in Assets : dir[f] # "corrupt"
Bounded == archive = <<>> \/ Quiet \/ Small
=============================================================================
