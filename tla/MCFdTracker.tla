---------------------------- MODULE MCFdTracker ----------------------------
(* Two descriptors, two directories.                                       *)
EXTENDS FdTracker, TLC

CONSTANTS x, y

MCFds == {3, 4}
MCDirs == {x, y}
MCRanges == {{3, 4}, {4}}
Symm == Permutations(Pids \ {Root}) \cup Permutations(MCDirs)

\* Kinds of trees, each with its own bound: copies and what is replayed on them, shared
\* tables, detaches from them, descriptors that survive an exec or do not.
Within(set, number, max) ==
    /\ \A l \in AllLines : l.call \in set
    /\ Cardinality(live) <= number /\ calls <= max
Plain == \A l \in AllLines : ~l.cloexec
Once == \A l, m \in AllLines : l.call = m.call => l = m
Copies == Within({"open", "opaque", "openat", "fchdir", "dup", "dup2", "close", "clone"}, 2, 4) /\ Plain
Shares ==
    /\ Within({"open", "fchdir", "close", "close_range", "clone_files"}, 2, 5) /\ Plain
    /\ Cardinality({l \in AllLines : l.call \in {"close", "close_range"}}) <= 1
Leaves == Within({"open", "openat", "close", "clone", "clone_files", "unshare", "range_unshare"}, 2, 4) /\ Plain
OneMark ==
    Cardinality({l \in AllLines : \/ l.call \in {"setfd", "close_range", "range_unshare"}
                                  \/ l.call = "open" /\ l.cloexec}) <= 1
Execs ==
    /\ Within({"open", "fchdir", "setfd", "close_range", "range_unshare", "exec", "clone"}, 2, 5)
    /\ Once /\ OneMark
SharedExecs == Within({"open", "fchdir", "close", "exec", "clone_files"}, 2, 5) /\ Once
Reuses ==
    /\ Within({"open", "opaque", "fchdir", "close", "clone"}, 2, 5)
    /\ Once /\ Plain
Deep == Within({"open", "fchdir", "close", "clone", "clone_files", "unshare"}, 3, 4) /\ Plain
Groups ==
    /\ inOrder /\ Within({"open", "fchdir", "clone_files", "unshare"}, 3, 6) /\ Plain
    /\ \A call \in {"fchdir", "unshare"} : Cardinality({l \in AllLines : l.call = call}) <= 1
    /\ Cardinality({l \in AllLines : l.call = "open"}) <= 2

Tables == Copies \/ Shares \/ Leaves \/ Execs \/ SharedExecs \/ Reuses \/ Deep \/ Groups
=============================================================================
