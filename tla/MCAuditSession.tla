--------------------------- MODULE MCAuditSession ---------------------------
(***************************************************************************)
(* Finite instances of AuditSession.  The inputs are cut to the            *)
(* combinations that differ for the properties of a run.                   *)
(***************************************************************************)
EXTENDS AuditSessionProofs

CONSTANTS a, b, c, root
CONSTANTS MCModes, MCInstall, MCRequested, MCBun, MCGates, MCPrepare, MCTrees, MCLocks

\* Committed locks carry an old stamp; with one the agent may also produce.
SomeLocks == [obs : {{a}, {a, b}, {a, root}}, stamp : {"old"}] \cup {NoLock}
OneTree == {{a, b}}
TwoTrees == {{a, b}, {a, c}}

MCInit ==
    /\ Init
    /\ inp.mode \in MCModes /\ inp.install \in MCInstall
    /\ inp.requested \in MCRequested /\ inp.bun \in MCBun /\ inp.gates \in MCGates
    /\ inp.prepare \in MCPrepare
    /\ inp.scripts \in MCTrees
    /\ lockFile \in MCLocks
    \* Removals fail in sessions that could otherwise pass.
    /\ inp.stuck # {} =>
          /\ ~inp.prepare /\ inp.gates /\ ~inp.bun
          /\ b \notin inp.scripts /\ lockFile # NoLock /\ lockFile.obs = {a}

MCSpec == MCInit /\ [][Next]_vars /\ WF_vars(HostNext) /\ WF_vars(GuestNext)
=============================================================================
