------------------------------- MODULE ScanRun -------------------------------
(***************************************************************************)
(* Scanner.RunWithProgress of internal/discovery/scanner.go: the job       *)
(* handler's producer hands Total probes over an unbuffered channel to a   *)
(* fixed pool of goroutines, each of which probes, ingests, counts and     *)
(* writes progress.  A failing progress write cancels the run's inner      *)
(* context; the job's own context (deadline, cancel request, lost lease)   *)
(* may end at any time and takes the inner one with it.                    *)
(*                                                                         *)
(* A probe is its position in the order of targets and ports; what it      *)
(* collects is left out, only whether its batch was ingested is kept.      *)
(***************************************************************************)
EXTENDS Naturals, FiniteSets

CONSTANTS Pool,   \* worker goroutines: min(maxConcurrency, Total) of them
          Total   \* len(targets) * len(ports)

ASSUME ScanRunAssumption ==
    /\ Total \in Nat
    /\ IsFiniteSet(Pool)
    /\ Cardinality(Pool) <= Total
    /\ Total > 0 => Pool # {}

Probes == 1..Total

VARIABLES
    sent,       \* probes handed over so far
    closed,     \* close(ch) has run
    returned,   \* "no", "nil" or "ctxErr"
    verdict,    \* what the producer will return after wg.Wait
    jobCtx,     \* the job's context: "live" or "done"
    runCtx,     \* the inner context of this run
    at,         \* worker: recv, check, probe, count, progress, exited
    held,       \* the probe a worker holds, 0 for none
    number,     \* what completed.Add(1) gave the worker
    ingested,   \* probes whose batch was stored
    failed,     \* probes whose batch could not be stored: result.Errors
    completed,  \* the atomic counter
    shown       \* jobs.progress_current

producerVars == <<sent, closed, returned, verdict>>
ctxVars      == <<jobCtx, runCtx>>
poolVars     == <<at, held, number>>
resultVars   == <<ingested, failed, completed, shown>>
vars == <<producerVars, ctxVars, poolVars, resultVars>>

TypeOK ==
    /\ sent \in 0..Total
    /\ closed \in BOOLEAN
    /\ returned \in {"no", "nil", "ctxErr"}
    /\ verdict \in {"none", "nil", "ctxErr"}
    /\ jobCtx \in {"live", "done"}
    /\ runCtx \in {"live", "done"}
    /\ at \in [Pool -> {"recv", "check", "probe", "count", "progress", "exited"}]
    /\ held \in [Pool -> 0..Total]
    /\ number \in [Pool -> 0..Total]
    /\ ingested \subseteq Probes
    /\ failed \subseteq Probes
    /\ completed \in 0..Total
    /\ shown \in 0..Total

Init ==
    /\ sent = 0
    /\ closed = FALSE
    /\ returned = "no"
    /\ verdict = "none"
    /\ jobCtx = "live"
    /\ runCtx = "live"
    /\ at = [g \in Pool |-> "recv"]
    /\ held = [g \in Pool |-> 0]
    /\ number = [g \in Pool |-> 0]
    /\ ingested = {}
    /\ failed = {}
    /\ completed = 0
    /\ shown = 0

-----------------------------------------------------------------------------
(* The producer. *)

(* A slip: one probe too many. *)
HandOverPastEnd(g) ==
    /\ ~closed
    /\ sent <= Total
    /\ at[g] = "recv"
    /\ sent' = sent + 1
    /\ at' = [at EXCEPT ![g] = "check"]
    /\ held' = [held EXCEPT ![g] = sent + 1]
    /\ UNCHANGED <<closed, returned, verdict, ctxVars, number, resultVars>>

(* ch <- probe meets a receiving worker. *)
HandOver(g) ==
    /\ ~closed
    /\ sent < Total
    /\ at[g] = "recv"
    /\ sent' = sent + 1
    /\ at' = [at EXCEPT ![g] = "check"]
    /\ held' = [held EXCEPT ![g] = sent + 1]
    /\ UNCHANGED <<closed, returned, verdict, ctxVars, number, resultVars>>

(* select takes <-ctx.Done(): the rest of the probes is not sent. *)
StopSending ==
    /\ runCtx = "done"
    /\ ~closed
    /\ sent < Total
    /\ closed' = TRUE
    /\ verdict' = "ctxErr"
    /\ UNCHANGED <<sent, returned, ctxVars, poolVars, resultVars>>

(* The loops are over.  The context is not looked at again. *)
AllSent ==
    /\ ~closed
    /\ sent = Total
    /\ closed' = TRUE
    /\ verdict' = "nil"
    /\ UNCHANGED <<sent, returned, ctxVars, poolVars, resultVars>>

(* A slip: no wg.Wait before the return. *)
NobodyWaits == TRUE

PoolDone == \A g \in Pool : at[g] = "exited"

(* wg.Wait and return.  The deferred cancel finds nobody left to stop. *)
Return ==
    /\ closed
    /\ returned = "no"
    /\ PoolDone
    /\ returned' = verdict
    /\ UNCHANGED <<sent, closed, verdict, ctxVars, poolVars, resultVars>>

-----------------------------------------------------------------------------
(* A worker goroutine. *)

(* range over the closed channel ends. *)
Leave(g) ==
    /\ at[g] = "recv"
    /\ closed
    /\ at' = [at EXCEPT ![g] = "exited"]
    /\ UNCHANGED <<producerVars, ctxVars, held, number, resultVars>>

(* A slip: continue instead of return. *)
CheckAndContinue(g) ==
    /\ at[g] = "check"
    /\ at' = [at EXCEPT ![g] = IF runCtx = "done" THEN "recv" ELSE "probe"]
    /\ held' = [held EXCEPT ![g] = IF runCtx = "done" THEN 0 ELSE @]
    /\ UNCHANGED <<producerVars, ctxVars, number, resultVars>>

(* if ctx.Err() != nil return: the probe in hand is dropped. *)
CheckCtx(g) ==
    /\ at[g] = "check"
    /\ at' = [at EXCEPT ![g] = IF runCtx = "done" THEN "exited" ELSE "probe"]
    /\ held' = [held EXCEPT ![g] = IF runCtx = "done" THEN 0 ELSE @]
    /\ UNCHANGED <<producerVars, ctxVars, number, resultVars>>

(* Collect and ingestBatch.  Every store call takes the inner context, so  *)
(* a batch is stored only while that lives; a failure is counted and the   *)
(* probe is complete either way.                                           *)
Probe(g) ==
    /\ at[g] = "probe"
    /\ \/ runCtx = "live" /\ ingested' = ingested \cup {held[g]} /\ UNCHANGED failed
       \/ failed' = failed \cup {held[g]} /\ UNCHANGED ingested
    /\ at' = [at EXCEPT ![g] = "count"]
    /\ held' = [held EXCEPT ![g] = 0]
    /\ UNCHANGED <<producerVars, ctxVars, number, completed, shown>>

(* A slip: progress reports the probes handed over. *)
CountHandedOver(g) ==
    /\ at[g] = "count"
    /\ completed' = completed + 1
    /\ number' = [number EXCEPT ![g] = sent]
    /\ at' = [at EXCEPT ![g] = "progress"]
    /\ UNCHANGED <<producerVars, ctxVars, held, ingested, failed, shown>>

(* completed.Add(1) *)
Count(g) ==
    /\ at[g] = "count"
    /\ completed' = completed + 1
    /\ number' = [number EXCEPT ![g] = completed + 1]
    /\ at' = [at EXCEPT ![g] = "progress"]
    /\ UNCHANGED <<producerVars, ctxVars, held, ingested, failed, shown>>

(* progress(current, total) is UpdateJobProgress under the job's context:  *)
(* the counter's value may be older than the one already in the row.       *)
WriteProgress(g) ==
    /\ at[g] = "progress"
    /\ jobCtx = "live"
    /\ shown' = number[g]
    /\ at' = [at EXCEPT ![g] = "recv"]
    /\ number' = [number EXCEPT ![g] = 0]
    /\ UNCHANGED <<producerVars, ctxVars, held, ingested, failed, completed>>

(* A slip: return without cancel(). *)
LeavesRunning == runCtx

CtxAfterFailure == "done"

(* ... and when it fails, before or after the row was written: cancel()    *)
(* and return.                                                             *)
ProgressFails(g) ==
    /\ at[g] = "progress"
    /\ shown' = number[g] \/ UNCHANGED shown
    /\ runCtx' = CtxAfterFailure
    /\ at' = [at EXCEPT ![g] = "exited"]
    /\ number' = [number EXCEPT ![g] = 0]
    /\ UNCHANGED <<producerVars, jobCtx, held, ingested, failed, completed>>

(* The job's context ends: deadline, cancel request or lost lease. *)
JobCtxEnds ==
    /\ jobCtx = "live"
    /\ returned = "no"
    /\ jobCtx' = "done"
    /\ runCtx' = "done"
    /\ UNCHANGED <<producerVars, poolVars, resultVars>>

-----------------------------------------------------------------------------
Work(g) ==
    \/ Leave(g)
    \/ CheckCtx(g)
    \/ Probe(g)
    \/ Count(g)
    \/ WriteProgress(g)
    \/ ProgressFails(g)

Produce == StopSending \/ AllSent \/ Return \/ \E g \in Pool : HandOver(g)

Next == Produce \/ JobCtxEnds \/ \E g \in Pool : Work(g)

Spec == Init /\ [][Next]_vars

(* Goroutines that can step do; probes end by their own timeouts.  Whether *)
(* a store call fails, or the job's context ends, is not assumed.          *)
FairSpec ==
    /\ Spec
    /\ WF_vars(Produce)
    /\ \A g \in Pool : WF_vars(Work(g))

-----------------------------------------------------------------------------
(* Each probe that left the producer is ingested, failed, in a worker's    *)
(* hands or dropped by a worker that exited: none is lost elsewhere, none  *)
(* is accounted for twice, and the counter agrees with the probes that are *)
(* done.                                                                   *)
Dropped == {p \in 1..sent : /\ p \notin ingested \cup failed
                            /\ \A g \in Pool : held[g] # p}

ProbesAccounted ==
    /\ ingested \cap failed = {}
    /\ \A g \in Pool : held[g] \notin ingested \cup failed
    /\ Cardinality(Dropped) <= Cardinality({g \in Pool : at[g] = "exited"})
    /\ completed + Cardinality({g \in Pool : at[g] = "count"})
         = Cardinality(ingested \cup failed)

(* After the return no goroutine of the run is left to touch the job, so   *)
(* what a client sees as final is final.  A run that returns nil may have  *)
(* skipped probes, and its job is then "completed": only if its context    *)
(* ended late, and at most one probe per worker.  With a live job context  *)
(* and no failed progress write, a nil return means every probe was done.  *)
ReturnedRunIsOver ==
    returned # "no" =>
        /\ \A g \in Pool : at[g] = "exited"
        /\ returned = "nil" => /\ Total - completed <= Cardinality(Pool)
                               /\ completed < Total => runCtx = "done"

(* The progress row never claims more than was done. *)
ProgressHonest == shown <= completed

(* The run always returns: no worker blocks on the channel, and the        *)
(* producer never blocks on workers that have all left.                    *)
Returns == <>(returned # "no")
=============================================================================
