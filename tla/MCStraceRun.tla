---------------------------- MODULE MCStraceRun ----------------------------
(* Instances of StraceRun for TLC. *)
EXTENDS StraceRun

CONSTANT d

MCDelays == {0, 1, 2}

\* Either trees of every kind whose stdout is quiet, or an install that writes.
Silent == stdout = <<>>
Plain == Launcher \notin alive /\ d \notin alive /\ elapsed = iter /\ streak \in {iter, iter + 1}

Shapes == Silent \/ Plain
=============================================================================
