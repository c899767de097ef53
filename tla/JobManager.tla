----------------------------- MODULE JobManager -----------------------------
(***************************************************************************)
(* The leased worker pool of internal/jobs/manager.go over the table of    *)
(* JobStore.  A worker goroutine polls for a claim (loop), runs the        *)
(* handler beside a heartbeat goroutine and writes the outcome (execute).  *)
(* Processes (`serve', `mcp', `scan') share the database file; a process   *)
(* is the set of its workers and may end at any point, taking them all.  A *)
(* restarted process has fresh owner uuids, so it is another set of        *)
(* workers.  Start is always given context.Background() (main.go), so the  *)
(* parent context never ends by itself.                                    *)
(*                                                                         *)
(* A definition under the heading "a slip" is what a plausible mistake in  *)
(* the code would be; no specification uses one.                           *)
(***************************************************************************)
EXTENDS JobStore

CONSTANTS Crashable,   \* sets of workers that may end together: processes
          MaxFaults    \* bound on FinishJob calls that fail

ASSUME JobManagerAssumption ==
    /\ IsFiniteSet(Workers)
    /\ Crashable \subseteq SUBSET Workers
    /\ MaxFaults \in Nat

VARIABLES
    pc,        \* worker: idle, handler, join, recheck, finish, dead
    work,      \* the job a worker executes
    ctx,       \* its execution context: "live" or "done"
    heartbeat, \* heartbeat goroutine: "wait", "renew" or "off"
    outcome,   \* what the handler returned, then the state to be written
    faults     \* FinishJob calls that failed so far

workerVars == <<pc, work, ctx, heartbeat, outcome>>
vars == <<storeVars, workerVars, faults>>

Busy(w) == pc[w] \in {"handler", "join", "recheck", "finish"}
Outcomes == {"none", "ctxErr"} \cup Terminal

TypeOK ==
    /\ StoreTypeOK
    /\ pc \in [Workers -> {"idle", "handler", "join", "recheck", "finish", "dead"}]
    /\ work \in [Workers -> Jobs \cup {None}]
    /\ ctx \in [Workers -> {"live", "done"}]
    /\ heartbeat \in [Workers -> {"wait", "renew", "off"}]
    /\ outcome \in [Workers -> Outcomes]
    /\ faults \in Nat

Init ==
    /\ StoreInit
    /\ pc = [w \in Workers |-> "idle"]
    /\ work = [w \in Workers |-> None]
    /\ ctx = [w \in Workers |-> "done"]
    /\ heartbeat = [w \in Workers |-> "off"]
    /\ outcome = [w \in Workers |-> "none"]
    /\ faults = 0

-----------------------------------------------------------------------------
(* Requests served beside the workers. *)

Enqueue(r) == CreateJobBounded(r) /\ UNCHANGED <<workerVars, faults>>

Cancel(j) == CancelJob(j) /\ UNCHANGED <<workerVars, faults>>

LeaseExpires(j) == Expire(j) /\ UNCHANGED <<workerVars, faults>>

-----------------------------------------------------------------------------
(* loop: a tick of an idle worker that claims a row; execute starts.  A    *)
(* tick with nothing to claim, or with a failing claim, changes nothing.   *)
Claim(w, j) ==
    /\ pc[w] = "idle"
    /\ ClaimJob(j, w)
    /\ pc' = [pc EXCEPT ![w] = "handler"]
    /\ work' = [work EXCEPT ![w] = j]
    /\ ctx' = [ctx EXCEPT ![w] = "live"]
    /\ heartbeat' = [heartbeat EXCEPT ![w] = "wait"]
    /\ outcome' = [outcome EXCEPT ![w] = "none"]
    /\ UNCHANGED faults

(* The heartbeat gives up: cancel() and return. *)
StopHeartbeat(w) ==
    /\ ctx' = [ctx EXCEPT ![w] = "done"]
    /\ heartbeat' = [heartbeat EXCEPT ![w] = "off"]

(* A slip: the heartbeat renews without reading the flag. *)
CheckNothing(w) ==
    /\ heartbeat[w] = "wait"
    /\ ctx[w] = "live"
    /\ heartbeat' = [heartbeat EXCEPT ![w] = "renew"]
    /\ UNCHANGED <<storeVars, pc, work, ctx, outcome, faults>>

(* A heartbeat tick: JobCancelled decides between stopping and renewing.   *)
(* database/sql refuses a statement whose context is already done.         *)
CheckCancel(w) ==
    /\ heartbeat[w] = "wait"
    /\ ctx[w] = "live"
    /\ IF cancelRequested[work[w]]
         THEN StopHeartbeat(w)
         ELSE heartbeat' = [heartbeat EXCEPT ![w] = "renew"] /\ UNCHANGED ctx
    /\ UNCHANGED <<storeVars, pc, work, outcome, faults>>

(* ... and then RenewJob, whose failure is a lost lease.  A renewal that    *)
(* was under way when the context ended may still have been written.       *)
Renew(w) ==
    /\ heartbeat[w] = "renew"
    /\ \/ /\ RenewJob(work[w], w)
          /\ heartbeat' = [heartbeat EXCEPT ![w] = "wait"]
          /\ UNCHANGED ctx
       \/ /\ ~Renewable(work[w], w)
          /\ StopHeartbeat(w)
          /\ UNCHANGED storeVars
    /\ UNCHANGED <<pc, work, outcome, faults>>

(* JobCancelled or RenewJob returns an error, or ctx.Done is selected. *)
HeartbeatEnds(w) ==
    /\ heartbeat[w] # "off"
    /\ StopHeartbeat(w)
    /\ UNCHANGED <<storeVars, pc, work, outcome, faults>>

(* context.WithTimeout(parent, maxDuration) fires. *)
Deadline(w) ==
    /\ pc[w] = "handler"
    /\ ctx[w] = "live"
    /\ ctx' = [ctx EXCEPT ![w] = "done"]
    /\ UNCHANGED <<storeVars, pc, work, heartbeat, outcome, faults>>

(* The handler returns and execute calls cancel().  A context error can    *)
(* come from a live job context too: a failing progress write cancels the  *)
(* scan's inner context.                                                   *)
HandlerReturns(w) ==
    /\ pc[w] = "handler"
    /\ \E o \in {"completed", "failed", "ctxErr"} :
          outcome' = [outcome EXCEPT ![w] = o]
    /\ pc' = [pc EXCEPT ![w] = "join"]
    /\ ctx' = [ctx EXCEPT ![w] = "done"]
    /\ UNCHANGED <<storeVars, work, heartbeat, faults>>

(* A slip: the context error is written as it came. *)
JoinWithoutRecheck(w) ==
    /\ pc[w] = "join"
    /\ heartbeat[w] = "off"
    /\ pc' = [pc EXCEPT ![w] = "finish"]
    /\ UNCHANGED <<storeVars, work, ctx, heartbeat, outcome, faults>>

(* <-done *)
JoinHeartbeat(w) ==
    /\ pc[w] = "join"
    /\ heartbeat[w] = "off"
    /\ pc' = [pc EXCEPT ![w] = IF outcome[w] = "ctxErr" THEN "recheck" ELSE "finish"]
    /\ UNCHANGED <<storeVars, work, ctx, heartbeat, outcome, faults>>

(* A slip: every context error is taken for a cancel. *)
RecheckAssumesCancel(w) ==
    /\ pc[w] = "recheck"
    /\ outcome' = [outcome EXCEPT ![w] = "cancelled"]
    /\ pc' = [pc EXCEPT ![w] = "finish"]
    /\ UNCHANGED <<storeVars, work, ctx, heartbeat, faults>>

(* After a context error the flag is read once more; an error of that read *)
(* is ignored and counts as not cancelled.                                 *)
RecheckCancel(w) ==
    /\ pc[w] = "recheck"
    /\ \/ cancelRequested[work[w]] /\ outcome' = [outcome EXCEPT ![w] = "cancelled"]
       \/ outcome' = [outcome EXCEPT ![w] = "failed"]
    /\ pc' = [pc EXCEPT ![w] = "finish"]
    /\ UNCHANGED <<storeVars, work, ctx, heartbeat, faults>>

BackToLoop(w) ==
    /\ pc' = [pc EXCEPT ![w] = "idle"]
    /\ work' = [work EXCEPT ![w] = None]
    /\ outcome' = [outcome EXCEPT ![w] = "none"]
    /\ UNCHANGED <<ctx, heartbeat>>

(* A slip: FinishJob with the owner in its WHERE clause. *)
FinishIfOwner(w) ==
    /\ pc[w] = "finish"
    /\ IF owner[work[w]] = w
         THEN FinishJob(work[w], outcome[w])
         ELSE UNCHANGED storeVars
    /\ BackToLoop(w)
    /\ UNCHANGED faults

Finish(w) ==
    /\ pc[w] = "finish"
    /\ FinishJob(work[w], outcome[w])
    /\ BackToLoop(w)
    /\ UNCHANGED faults

(* FinishJob fails: an error is counted and the row stays as it is. *)
FinishFails(w) ==
    /\ pc[w] = "finish"
    /\ faults < MaxFaults
    /\ faults' = faults + 1
    /\ BackToLoop(w)
    /\ UNCHANGED storeVars

(* A process ends, at whatever point its workers are; their memory is gone. *)
Crash(P) ==
    /\ \E w \in P : pc[w] # "dead"
    /\ pc' = [w \in Workers |-> IF w \in P THEN "dead" ELSE pc[w]]
    /\ work' = [w \in Workers |-> IF w \in P THEN None ELSE work[w]]
    /\ ctx' = [w \in Workers |-> IF w \in P THEN "done" ELSE ctx[w]]
    /\ heartbeat' = [w \in Workers |-> IF w \in P THEN "off" ELSE heartbeat[w]]
    /\ outcome' = [w \in Workers |-> IF w \in P THEN "none" ELSE outcome[w]]
    /\ UNCHANGED <<storeVars, faults>>

-----------------------------------------------------------------------------
Execute(w) ==
    \/ \E j \in Jobs : Claim(w, j)
    \/ CheckCancel(w)
    \/ Renew(w)
    \/ HeartbeatEnds(w)
    \/ Deadline(w)
    \/ HandlerReturns(w)
    \/ JoinHeartbeat(w)
    \/ RecheckCancel(w)
    \/ Finish(w)
    \/ FinishFails(w)

Next ==
    \/ \E j \in Jobs : Enqueue(j) \/ Cancel(j) \/ LeaseExpires(j)
    \/ \E w \in Workers : Execute(w)
    \/ \E P \in Crashable : Crash(P)

Spec == Init /\ [][Next]_vars

(***************************************************************************)
(* Fairness.  A goroutine that can step does so: the tickers keep ticking, *)
(* a handler returns once its context is done (every collector and store   *)
(* call takes it), and execute runs to its end.  A lease runs out once     *)
(* nobody renews it.  Nothing is assumed of callers, crashes or faults.    *)
(***************************************************************************)
Unattended(j) ==
    owner[j] # None /\ (heartbeat[owner[j]] = "off" \/ work[owner[j]] # j)

WorkerFairness(w) ==
    /\ WF_vars(\E j \in Jobs : Claim(w, j))
    /\ WF_vars(CheckCancel(w) \/ Renew(w) \/ (ctx[w] = "done" /\ HeartbeatEnds(w)))
    /\ WF_vars(ctx[w] = "done" /\ HandlerReturns(w))
    /\ WF_vars(JoinHeartbeat(w))
    /\ WF_vars(RecheckCancel(w))
    /\ WF_vars(Finish(w))

LeaseFairness == \A j \in Jobs : WF_vars(Unattended(j) /\ LeaseExpires(j))

DeadlineFairness == \A w \in Workers : WF_vars(Deadline(w))

(* Less than the code gives: the deadline is relied on only for the owner  *)
(* of a job that nobody cancels, so that every other handler has to be     *)
(* stopped by its heartbeat.                                               *)
OwnDeadlineFairness ==
    \A w \in Workers :
        WF_vars(/\ pc[w] = "handler"
                /\ owner[work[w]] = w
                /\ ~cancelRequested[work[w]]
                /\ Deadline(w))

PoolSpec == Spec /\ LeaseFairness /\ \A w \in Workers : WorkerFairness(w)

HeartbeatSpec == PoolSpec /\ OwnDeadlineFairness

FairSpec == PoolSpec /\ DeadlineFairness

-----------------------------------------------------------------------------
(* Safety. *)

(* jobs.max_queued is never exceeded, although CreateJobBounded counts     *)
(* before it inserts and other submitters and workers run in between.      *)
QueueBound == Cardinality(Active) <= MaxQueued

(* A (type, idempotency key) names at most one row: concurrent or retried  *)
(* submissions never create duplicate work.                                *)
OneJobPerKey ==
    \A i, j \in Stored : KeyOf[i] = KeyOf[j] /\ KeyOf[i] # NoKey => i = j

(* Two submissions with one key that were both answered with a job were    *)
(* answered with the same one.                                             *)
SameKeySameAnswer ==
    \A q, r \in Jobs :
        /\ phase[q] = "accepted" /\ phase[r] = "accepted"
        /\ KeyOf[q] = KeyOf[r] /\ KeyOf[q] # NoKey
        => reply[q] = reply[r]

(* A row carries a lease and an owner exactly while it runs, however many  *)
(* workers finished, lost or took over the job.                            *)
LeaseIffRunning ==
    \A j \in Jobs : /\ lease[j] # "none" <=> state[j] = "running"
                    /\ owner[j] # None <=> state[j] = "running"

(* "cancelled" is only ever written for a job somebody asked to cancel; a  *)
(* deadline, a lost lease or a database error never looks like a cancel.   *)
CancelledWasRequested ==
    \A j \in Jobs : state[j] = "cancelled" => cancelRequested[j]

(* Both: what a row says of itself hangs together, for any number of       *)
(* workers that finish, lose or take over its job (FinishJob, ClaimJob,    *)
(* CancelJob, execute).                                                    *)
RowsConsistent == LeaseIffRunning /\ CancelledWasRequested

(* Claims follow created_at: no job has been started while one created in  *)
(* an earlier second still waits.                                          *)
NoOvertaking ==
    \A i, j \in Stored :
        created[i] < created[j] /\ state[i] = "queued" => attempt[j] = 0

(* Retries have no cap of their own, yet a job is never claimed more often *)
(* than there are workers, plus the outcomes that could not be written.    *)
BoundedAttempts ==
    \A j \in Jobs : attempt[j] <= Cardinality(Workers) + faults

(* A finished job never becomes queued or running again. *)
NoResurrection ==
    [][\A j \in Jobs : state[j] \in Terminal => state'[j] \in Terminal]_vars

(* FinishJob is unguarded, so a worker that lost its lease can overwrite   *)
(* a final state; a job that was claimed only once, or never, is safe.     *)
SingleAttemptFinal ==
    [][\A j \in Jobs : state[j] \in Terminal /\ attempt[j] <= 1 =>
          state'[j] = state[j]]_vars

(* Once cancellation was requested no new attempt starts. *)
NoAttemptAfterCancel ==
    [][\A j \in Jobs : cancelRequested[j] => attempt'[j] = attempt[j]]_vars

(* All three: an end stays an end, and a cancelled job is not taken up     *)
(* again (FinishJob, ClaimJob, CancelJob).                                 *)
EndsAreFinal == NoResurrection /\ SingleAttemptFinal /\ NoAttemptAfterCancel

(* What a client sees of the table is the job lifecycle. *)
Lifecycle == INSTANCE JobLifecycle WITH
    status <- state,
    stop   <- cancelRequested,
    begun  <- [j \in Jobs |-> attempt[j] > 0]

(* The store and the workers together implement the lifecycle: the count   *)
(* and the insert of CreateJobBounded act as one step, and outcomes from   *)
(* any worker, stale ones included, never take a job back or cancel a job  *)
(* that nobody asked to cancel.                                            *)
ImplementsLifecycle == Lifecycle!Spec

-----------------------------------------------------------------------------
(* Liveness. *)

(* A handler whose lease another worker took, or whose row is final, is    *)
(* stopped by its own heartbeat.                                           *)
StaleWorkerStops ==
    \A w \in Workers :
        (pc[w] = "handler" /\ owner[work[w]] # w) ~> pc[w] # "handler"

(* A cancel request reaches a running handler. *)
CancelReachesHandler ==
    \A w \in Workers :
        (pc[w] = "handler" /\ cancelRequested[work[w]]) ~> pc[w] # "handler"

(* Every stored job that nobody cancels reaches a final state, although    *)
(* processes end and outcomes are lost, as long as one worker lives.       *)
UncancelledEnds ==
    \A j \in Jobs : (state[j] \in {"queued", "running"}) ~>
                        (state[j] \in Terminal \/ cancelRequested[j])

(* Nobody is left to write the end of a running job. *)
Abandoned(j) == state[j] = "running" /\ \A w \in Workers : work[w] # j

(* Every cancelled job reaches a final state, unless its process ended or  *)
(* its outcome was lost.                                                   *)
AttendedCancelEnds ==
    \A j \in Jobs : cancelRequested[j] ~> (state[j] \in Terminal \/ Abandoned(j))

(* Every cancelled job reaches a final state: what the documents promise.  *)
CancelEnds ==
    \A j \in Jobs : cancelRequested[j] ~> state[j] \in Terminal
=============================================================================
