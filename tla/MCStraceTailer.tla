--------------------------- MODULE MCStraceTailer ---------------------------
(* Instances of StraceTailer for TLC. *)
EXTENDS StraceTailerProofs

CONSTANTS p, events, fd3

\* What the processes do: write to a strace file, or a little to it and the events file,
\* interfere with a shorter events file that no poll misses, or write to fd 3 too.
Plain == ~disturbed /\ fd3n = 0 /\ (size[p] + size[Events] <= 2 \/ size[Events] = 0)
Disturbed ==
    /\ fd3n = 0 /\ size[p] = 0 /\ size[Events] <= 1 /\ stall[Events] = 0
    /\ exit \in {"alive", "clean"}
Piped == ~disturbed /\ size[p] = 0 /\ size[Events] <= 1

Capture == Plain \/ Disturbed \/ Piped
=============================================================================
