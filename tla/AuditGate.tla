------------------------------ MODULE AuditGate ------------------------------
(***************************************************************************)
(* What the Action promises its user, without backends, guests or frames:  *)
(* an audit either yields a report or does not; a report may replace the   *)
(* lock (update mode) or be accepted against it (check mode); only an      *)
(* accepted report lets the deferred scripts run, and only once; whatever  *)
(* happens the run ends with one exit code, 0 only for an accepted report, *)
(* a rewritten lock or a tree that cannot be audited at all.               *)
(***************************************************************************)
EXTENDS Integers

CONSTANTS
    Report,            \* what an audit may report
    Missing,           \* the committed lock is absent
    Deferrable,        \* every script a tree may hold
    Acceptable         \* pairs <<lock, report>> that agree, the report bypassing nothing

VARIABLES
    mode, lock,
    tree,              \* scripts the second half of an install may run
    stage,             \* "auditing", "accepted", "drifted", "ended"
    code,              \* -1 until the run has ended or decided
    executed           \* scripts started on the runner

gateVars == <<mode, lock, tree, stage, code, executed>>

Init ==
    /\ mode \in {"check", "update", "skip"}
    /\ lock \in Report \cup {Missing}
    /\ tree \in SUBSET Deferrable
    /\ stage = "auditing" /\ code = -1 /\ executed = {}

\* No report came out of the audit, or the run was refused.
Refuse ==
    /\ stage = "auditing"
    /\ stage' = "ended" /\ code' = 1
    /\ UNCHANGED <<mode, lock, tree, executed>>

Skip ==
    /\ stage = "auditing" /\ mode = "skip"
    /\ stage' = "ended" /\ code' = 0
    /\ UNCHANGED <<mode, lock, tree, executed>>

Rewrite ==
    /\ stage = "auditing" /\ mode = "update"
    /\ lock' \in Report
    /\ stage' = "ended" /\ code' = 0
    /\ UNCHANGED <<mode, tree, executed>>

\* Some report agrees with the lock and bypasses nothing.
Accept ==
    /\ stage = "auditing" /\ mode = "check"
    /\ \E r \in Report : <<lock, r>> \in Acceptable
    /\ code' = 0
    /\ stage' \in {"accepted", "ended"}
    /\ UNCHANGED <<mode, lock, tree, executed>>

Drift ==
    /\ stage = "auditing" /\ mode = "check"
    /\ code' = 1
    /\ stage' \in {"drifted", "ended"}
    /\ UNCHANGED <<mode, lock, tree, executed>>

\* The runner's install: the scripts start only for an accepted report.
RunScripts ==
    /\ stage = "accepted"
    /\ executed' \in SUBSET tree
    /\ code' \in {code, 1}
    /\ stage' = "ended"
    /\ UNCHANGED <<mode, lock, tree>>

EndWithoutScripts ==
    /\ stage \in {"accepted", "drifted"}
    /\ stage' = "ended" /\ code' = 1
    /\ UNCHANGED <<mode, lock, tree, executed>>

GateNext ==
    \/ Refuse \/ Skip \/ Rewrite \/ Accept \/ Drift \/ RunScripts \/ EndWithoutScripts

GateSpec == Init /\ [][GateNext]_gateVars /\ WF_gateVars(GateNext)
=============================================================================
