---------------------------- MODULE JobLifecycle ----------------------------
(***************************************************************************)
(* What the durable queue promises the rest of CortaSentry, with every     *)
(* step atomic and no workers, leases, heartbeats or transactions: a job   *)
(* is accepted within the capacity and once per key, it begins at most     *)
(* once as far as a client can tell, and it ends.  A job that has begun    *)
(* may be given another end later, because the outcome of a worker that    *)
(* lost its lease is still written; one that was stopped in the queue is   *)
(* settled for good.                                                       *)
(***************************************************************************)
EXTENDS Naturals, FiniteSets

CONSTANTS Jobs, Keys, KeyOf, NoKey, MaxQueued

VARIABLES status,  \* what a client of the queue reads
          stop,    \* somebody asked to cancel
          begun    \* a worker has taken it up

jobVars == <<status, stop, begun>>

Ends     == {"completed", "failed", "cancelled"}
Accepted == {j \in Jobs : status[j] # "absent"}
Pending  == {j \in Jobs : status[j] \in {"queued", "running"}}

Init ==
    /\ status = [j \in Jobs |-> "absent"]
    /\ stop = [j \in Jobs |-> FALSE]
    /\ begun = [j \in Jobs |-> FALSE]

Accept(j) ==
    /\ status[j] = "absent"
    /\ Cardinality(Pending) < MaxQueued
    /\ KeyOf[j] # NoKey => \A i \in Accepted : KeyOf[i] # KeyOf[j]
    /\ status' = [status EXCEPT ![j] = "queued"]
    /\ UNCHANGED <<stop, begun>>

Begin(j) ==
    /\ status[j] = "queued"
    /\ ~stop[j]
    /\ status' = [status EXCEPT ![j] = "running"]
    /\ begun' = [begun EXCEPT ![j] = TRUE]
    /\ UNCHANGED stop

StopQueued(j) ==
    /\ status[j] = "queued"
    /\ status' = [status EXCEPT ![j] = "cancelled"]
    /\ stop' = [stop EXCEPT ![j] = TRUE]
    /\ UNCHANGED begun

AskToStop(j) ==
    /\ status[j] = "running"
    /\ stop' = [stop EXCEPT ![j] = TRUE]
    /\ UNCHANGED <<status, begun>>

End(j, e) ==
    /\ begun[j]
    /\ e = "cancelled" => stop[j]
    /\ status' = [status EXCEPT ![j] = e]
    /\ UNCHANGED <<stop, begun>>

Next ==
    \E j \in Jobs :
        \/ Accept(j) \/ Begin(j) \/ StopQueued(j) \/ AskToStop(j)
        \/ \E e \in Ends : End(j, e)

Spec == Init /\ [][Next]_jobVars
=============================================================================
