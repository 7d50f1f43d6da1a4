--------------------------- MODULE MCAutoPipeline ---------------------------
(* TLC instances of AutoPipeline. *)
EXTENDS AutoPipeline, TLC

CONSTANTS p1, r1, r2, d1, d2, bootPass

OnePlan     == {p1}
OneRequest  == {r1}
TwoRequests == {r1, r2}
OneDrainer  == {d1}
TwoDrainers == {d1, d2}

\* Drainers are interchangeable, and so are requests (safety runs).
Interchangeable == Permutations(TwoDrainers) \cup Permutations(TwoRequests)

\* What a thread remembers while it uses it: an idle thread's plan and the
\* status of a write already made decide nothing.
LiveView ==
  <<docs, worker, locks, pc, bootv, owed, budget,
    [t \in {u \in Threads : pc[u] \notin {"idle", "list", "next", "over"}} |-> arg[t]],
    [t \in {u \in Threads : pc[u] = "put"} |-> want[t]]>>
=============================================================================
