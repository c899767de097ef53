---------------------------- MODULE MCQueueGauge ----------------------------
(* Instances of QueueGauge for TLC: one process, two workers. *)
EXTENDS QueueGauge, TLC

CONSTANTS j1, j2, w1, w2, k1

TwoWorkers == {w1, w2}

(* A submission and its retry. *)
RetryKeys == [j \in {j1, j2} |-> k1]

NoProcess == {}

WorkerSymmetry == Permutations({w1, w2})
=============================================================================
