---------------------------- MODULE MCCwdTracker ----------------------------
(* Two directories and a relative path that leads from each to the other.  *)
EXTENDS CwdTracker, TLC

CONSTANTS w, d

MCDirs == {w, d}
MCBelow == (w :> d) @@ (d :> w)
Symm == Permutations(Pids \ {Root})

\* The calls of a run.
Groups == {"chdir", "unshare", "clone", "clone_fs", "open"}
Execs == {"chdir", "opaque", "clone", "exec"}
Unshares == {"relative", "clone", "unshare", "open"}

\* Trees, each kind with its own bound: plain forks with every way to move, deep ones, ones
\* with execs, and directories that are shared and left again.
Within(set, number, max) == Only(set) /\ Cardinality(live) <= number /\ calls <= max
Moving == Within({"chdir", "relative", "opaque", "clone", "open"}, 3, 4)
Deep == Within({"chdir", "clone", "open"}, 4, 5)
Execing == Within(Execs, 3, 4) \/ Within(Execs \ {"opaque"}, 3, 5)
Sharing == Within(Groups, 3, 4) \/ Within({"chdir", "clone_fs", "open"}, 3, 5)

Trees == Moving \/ Deep \/ Execing \/ Sharing
=============================================================================
