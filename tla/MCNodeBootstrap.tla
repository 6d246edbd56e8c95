--------------------------- MODULE MCNodeBootstrap ---------------------------
(* Instances of NodeBootstrap for TLC. *)
EXTENDS NodeBootstrap, TLC

CONSTANTS r, a, x, y

MCCalls == Calls

made(call) == {l \in Lines : l.call = call}

Names == {l.item : l \in Lines} \ {None}

\* The processes read files, two of them in short runs, or their environment.
Files ==
    /\ made("env_read") = {}
    /\ calls > 4 => Cardinality(Names) <= 1
    /\ \A l \in made("exec") : ~l.client /\ (l.pid = Root \/ ~client[l.pid])
Environment == calls <= 4 /\ Cardinality(Names) <= 1 /\ made("read") = {} /\ made("thread") = {}

Reads == Files \/ Environment
Symm == Permutations(Items)
=============================================================================
