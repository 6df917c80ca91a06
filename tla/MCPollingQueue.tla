--------------------------- MODULE MCPollingQueue ---------------------------
(***************************************************************************)
(* Small instances of PollingQueue: slots are pairs of a worker and a      *)
(* number, so that two workers and two slots of one worker both compete.   *)
(***************************************************************************)
EXTENDS PollingQueue, TLC

CONSTANTS w1, w2, r1, r2

TwoWorkers == {w1, w2}
OneWorker == {w1}

SlotPerWorker == {<<w1, 1>>, <<w2, 1>>}
TwoSlots == {<<w1, 1>>, <<w1, 2>>}
ThreeSlots == {<<w1, 1>>, <<w1, 2>>, <<w2, 1>>}

SlotWorker == [e \in Execs |-> e[1]]

\* Every status in which a client that keeps the discipline enqueues again.
Quiet == {"pending", "completed", "failed"}
Always == Quiet \union {"running", "suspended"}

\* Sound for safety: one slot per worker, and no definition chooses a worker.
WorkerSymmetry == Permutations(TwoWorkers)
=============================================================================
