--------------------------- MODULE MCAttribution ---------------------------
(* Two packages, one of them the repository's own.                         *)
EXTENDS Attribution, TLC

Symm == Permutations(Pids \ {Root})

\* Kinds of trees, each with its own bound: pids that are used again, execs past the shim,
\* dead processes that only the shim names, dependencies that call themselves the repository.
Within(set, max) == used \subseteq set /\ steps <= max
OneChild == \A p \in Pids \ {Root} : ppid[p] \in {Root, None}
Reads(p) == {i \in DOMAIN file[p] : file[p][i].kind = "read"}
Reuse ==
    /\ Within({"fork", "start", "read", "exit"}, 6)
    /\ \A p \in Pids : Cardinality(Reads(p)) <= IF p = Root THEN 0 ELSE 1
Bypass == Within({"fork", "start", "exec", "raw", "rawscrub", "fail"}, 5) /\ Cardinality(live) <= 2
Reaped == Within({"fork", "start", "scrub", "read", "other", "startup", "exit"}, 5) /\ OneChild
Forging == Within({"fork", "start", "exec", "forge", "exit"}, 5)

Trees == Reuse \/ Bypass \/ Reaped \/ Forging
=============================================================================
