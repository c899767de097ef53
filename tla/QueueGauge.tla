----------------------------- MODULE QueueGauge -----------------------------
(***************************************************************************)
(* The Prometheus gauge QueueDepth kept by internal/jobs/manager.go beside *)
(* the jobs table: incremented by EnqueueWithKey after CreateJobBounded    *)
(* returned without an error, decremented by execute after FinishJob.      *)
(* One process holds every worker and every submitter here (Crashable is   *)
(* empty), so "in this process" is the whole table.                        *)
(***************************************************************************)
EXTENDS JobManager, Integers

VARIABLES depth,  \* telemetry.QueueDepth
          owed    \* submissions accepted whose Inc has not run yet

gaugeVars == <<vars, depth, owed>>

GaugeTypeOK == TypeOK /\ depth \in Int /\ owed \subseteq Jobs

GaugeInit == Init /\ depth = 0 /\ owed = {}

(* CreateJobBounded returns: with a job, its own or an earlier one, the    *)
(* gauge will be incremented.                                              *)
GaugedEnqueue(r) ==
    /\ Enqueue(r)
    /\ owed' = IF phase'[r] = "accepted" THEN owed \cup {r} ELSE owed
    /\ UNCHANGED depth

Increment(r) ==
    /\ r \in owed
    /\ owed' = owed \ {r}
    /\ depth' = depth + 1
    /\ UNCHANGED vars

(* Both ends of execute, FinishJob written or failed, decrement. *)
Decrements(w) == pc[w] = "finish"

GaugedExecute(w) ==
    /\ Execute(w)
    /\ depth' = IF Decrements(w) THEN depth - 1 ELSE depth
    /\ UNCHANGED owed

GaugeNext ==
    \/ \E j \in Jobs : GaugedEnqueue(j) \/ Increment(j)
    \/ \E j \in Jobs : (Cancel(j) \/ LeaseExpires(j)) /\ UNCHANGED <<depth, owed>>
    \/ \E w \in Workers : GaugedExecute(w)

GaugeSpec == GaugeInit /\ [][GaugeNext]_gaugeVars

(* The Help text: "Jobs accepted and not terminal in this process."  Taken *)
(* at rest, when no increment is owed and no worker executes.              *)
GaugeMatchesHelp ==
    owed = {} /\ (\A w \in Workers : pc[w] = "idle") => depth = Cardinality(Active)
=============================================================================
