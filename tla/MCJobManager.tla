---------------------------- MODULE MCJobManager ----------------------------
(* Instances of JobManager for TLC. *)
EXTENDS JobManager, TLC

CONSTANTS j1, j2, j3, w1, w2, k1

TwoWorkers == {w1, w2}

(* Three submissions: two retries under one key and one without a key. *)
RetryKeys == [j \in {j1, j2, j3} |-> IF j = j3 THEN NoKey ELSE k1]

OneNoKey == [j \in {j1} |-> NoKey]

NoKeys == [j \in {j1, j2} |-> NoKey]

(* Two processes of one worker each. *)
EachAlone == {{w1}, {w2}}

(* One process that may end, beside one that stays. *)
OnlyFirst == {{w1}}

NoProcess == {}

WorkerSymmetry == Permutations({w1, w2})
=============================================================================
