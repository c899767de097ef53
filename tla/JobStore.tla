------------------------------ MODULE JobStore ------------------------------
(***************************************************************************)
(* The durable `jobs' table of internal/storage/sqlite/store.go and the    *)
(* statements that touch it.  Every statement is one atomic SQLite write,  *)
(* except CreateJobBounded: it is a deferred transaction that reads first  *)
(* and writes later, so it is two steps.  In WAL mode the write is refused *)
(* (SQLITE_BUSY_SNAPSHOT) when any connection committed after the read;    *)
(* `snapshot' is the set of transactions whose read is still the latest    *)
(* committed state, and every commit empties it.                           *)
(*                                                                         *)
(* A submission and the job it may create share one name: newID() gives a  *)
(* row an id of its own, and a submission creates at most one row.         *)
(*                                                                         *)
(* Left out: payload, progress and timestamps other than created_at, whose *)
(* whole second is kept: the column is RFC3339Nano text, and two texts of  *)
(* the same second may sort either way.                                    *)
(***************************************************************************)
EXTENDS Naturals, FiniteSets

CONSTANTS Jobs,        \* submissions, and the rows they create
          Workers,     \* lease owners: one uuid per worker goroutine
          Keys,        \* idempotency keys
          KeyOf,       \* the key each submission carries, or NoKey
          NoKey,       \* the empty idempotency key
          MaxQueued,   \* jobs.max_queued
          None         \* SQL NULL

ASSUME JobStoreAssumption ==
    /\ IsFiniteSet(Jobs)
    /\ KeyOf \in [Jobs -> Keys \cup {NoKey}]
    /\ NoKey \notin Keys
    /\ MaxQueued \in Nat \ {0}
    /\ None \notin Jobs \cup Workers

VARIABLES
    state,            \* jobs.state, "absent" while there is no row
    owner,            \* jobs.lease_owner
    lease,            \* jobs.lease_expires_at against the clock
    cancelRequested,  \* jobs.cancel_requested
    attempt,          \* jobs.attempt_count
    created,          \* jobs.created_at, to the second
    second,           \* created_at of the latest row
    phase,            \* where each submission is in CreateJobBounded
    reply,            \* the row id a submission was answered with
    snapshot          \* open transactions that may still write

leaseVars  == <<owner, lease>>
rowVars    == <<state, owner, lease, cancelRequested, attempt>>
submitVars == <<phase, reply, created, second>>
storeVars  == <<rowVars, submitVars, snapshot>>

Terminal == {"completed", "failed", "cancelled"}
Stored   == {j \in Jobs : state[j] # "absent"}
Active   == {j \in Jobs : state[j] \in {"queued", "running"}}

(* A slip: only unfinished jobs are looked up. *)
DuplicatesUnfinished(r) ==
    {j \in Active : KeyOf[j] = KeyOf[r] /\ KeyOf[r] # NoKey}

(* Rows that already hold the idempotency key of submission r: what the    *)
(* lookup finds and what the unique index refuses.                         *)
Duplicates(r) ==
    {j \in Stored : KeyOf[j] = KeyOf[r] /\ KeyOf[r] # NoKey}

StoreTypeOK ==
    /\ state \in [Jobs -> {"absent", "queued", "running"} \cup Terminal]
    /\ owner \in [Jobs -> Workers \cup {None}]
    /\ lease \in [Jobs -> {"none", "live", "expired"}]
    /\ cancelRequested \in [Jobs -> BOOLEAN]
    /\ attempt \in [Jobs -> Nat]
    /\ created \in [Jobs -> Nat]
    /\ second \in Nat
    /\ phase \in [Jobs -> {"new", "insert", "accepted", "refused"}]
    /\ reply \in [Jobs -> Jobs \cup {None}]
    /\ snapshot \subseteq Jobs

StoreInit ==
    /\ state = [j \in Jobs |-> "absent"]
    /\ owner = [j \in Jobs |-> None]
    /\ lease = [j \in Jobs |-> "none"]
    /\ cancelRequested = [j \in Jobs |-> FALSE]
    /\ attempt = [j \in Jobs |-> 0]
    /\ created = [j \in Jobs |-> 0]
    /\ second = 1
    /\ phase = [j \in Jobs |-> "new"]
    /\ reply = [j \in Jobs |-> None]
    /\ snapshot = {}

-----------------------------------------------------------------------------
(* CreateJobBounded.  The read part has four ends. *)

Answer(r, how, id) ==
    /\ phase' = [phase EXCEPT ![r] = how]
    /\ reply' = [reply EXCEPT ![r] = id]

(* The key is already in the table: the existing row is the answer. *)
IdempotentHit(r) ==
    /\ phase[r] = "new"
    /\ \E j \in Duplicates(r) : Answer(r, "accepted", j)
    /\ UNCHANGED <<rowVars, created, second, snapshot>>

(* A slip: running jobs are not counted. *)
RoomToQueue == Cardinality({j \in Jobs : state[j] = "queued"}) < MaxQueued

HasRoom == Cardinality(Active) < MaxQueued

(* "job queue is full" *)
QueueFull(r) ==
    /\ phase[r] = "new"
    /\ Duplicates(r) = {}
    /\ ~HasRoom
    /\ Answer(r, "refused", None)
    /\ UNCHANGED <<rowVars, created, second, snapshot>>

(* The lookup, the count or, when a row was found, the commit fails.       *)
ReadFails(r) ==
    /\ phase[r] = "new"
    /\ Answer(r, "refused", None)
    /\ UNCHANGED <<rowVars, created, second, snapshot>>

(* Both reads passed: the transaction goes on to its INSERT. *)
ReadForInsert(r) ==
    /\ phase[r] = "new"
    /\ Duplicates(r) = {}
    /\ HasRoom
    /\ phase' = [phase EXCEPT ![r] = "insert"]
    /\ snapshot' = snapshot \cup {r}
    /\ UNCHANGED <<rowVars, reply, created, second>>

SnapshotCurrent(r) == r \in snapshot

(* INSERT and COMMIT, past the unique index on (type, idempotency_key);    *)
(* the second of created_at is that of the latest row or a later one.      *)
Insert(r) ==
    /\ phase[r] = "insert"
    /\ SnapshotCurrent(r)
    /\ Duplicates(r) = {}
    /\ Answer(r, "accepted", r)
    /\ state' = [state EXCEPT ![r] = "queued"]
    /\ second' \in {second, second + 1}
    /\ created' = [created EXCEPT ![r] = second']
    /\ snapshot' = {}
    /\ UNCHANGED <<leaseVars, cancelRequested, attempt>>

(* SQLITE_BUSY_SNAPSHOT, a unique index violation, the end of the request  *)
(* or an I/O error: rollback.                                              *)
InsertFails(r) ==
    /\ phase[r] = "insert"
    /\ Answer(r, "refused", None)
    /\ snapshot' = snapshot \ {r}
    /\ UNCHANGED <<rowVars, created, second>>

-----------------------------------------------------------------------------
(* Slips: a running row becomes final at once; a queued one does not. *)
CancelAtOnce(j) == "cancelled"
CancelMarks(j)  == state[j]

StateAfterCancel(j) == IF state[j] = "queued" THEN "cancelled" ELSE state[j]

(* CancelJob: a queued row becomes terminal, a running one is only marked. *)
CancelJob(j) ==
    /\ j \in Active
    /\ cancelRequested' = [cancelRequested EXCEPT ![j] = TRUE]
    /\ state' = [state EXCEPT ![j] = StateAfterCancel(j)]
    /\ snapshot' = {}
    /\ UNCHANGED <<leaseVars, attempt, submitVars>>

(* A slip: no takeover. *)
ClaimableQueued(j) == state[j] = "queued"

Claimable(j) ==
    /\ ~cancelRequested[j]
    /\ state[j] = "queued" \/ (state[j] = "running" /\ lease[j] = "expired")

(* A slip: ORDER BY created_at DESC. *)
Newest(j) == \A k \in Jobs : Claimable(k) => created[j] >= created[k]

Oldest(j) == \A k \in Jobs : Claimable(k) => created[j] <= created[k]

(* ClaimJob: one UPDATE of the oldest claimable row. *)
ClaimJob(j, w) ==
    /\ Claimable(j)
    /\ Oldest(j)
    /\ state' = [state EXCEPT ![j] = "running"]
    /\ attempt' = [attempt EXCEPT ![j] = @ + 1]
    /\ owner' = [owner EXCEPT ![j] = w]
    /\ lease' = [lease EXCEPT ![j] = "live"]
    /\ snapshot' = {}
    /\ UNCHANGED <<cancelRequested, submitVars>>

(* A slip: the owner is not compared. *)
RenewableByAnyone(j, w) == state[j] = "running"

(* RenewJob matches a row only while it runs under this owner; the expiry  *)
(* is not looked at.                                                       *)
Renewable(j, w) == state[j] = "running" /\ owner[j] = w

RenewJob(j, w) ==
    /\ Renewable(j, w)
    /\ lease' = [lease EXCEPT ![j] = "live"]
    /\ snapshot' = {}
    /\ UNCHANGED <<state, owner, cancelRequested, attempt, submitVars>>

(* A slip: the lease columns are left as they were. *)
FinishKeepsLease(j, outcome) ==
    /\ state' = [state EXCEPT ![j] = outcome]
    /\ snapshot' = {}
    /\ UNCHANGED <<leaseVars, cancelRequested, attempt, submitVars>>

(* FinishJob matches the row by id alone: neither owner nor state guard it. *)
FinishJob(j, outcome) ==
    /\ state' = [state EXCEPT ![j] = outcome]
    /\ owner' = [owner EXCEPT ![j] = None]
    /\ lease' = [lease EXCEPT ![j] = "none"]
    /\ snapshot' = {}
    /\ UNCHANGED <<cancelRequested, attempt, submitVars>>

(* The clock passes lease_expires_at.  No statement runs. *)
Expire(j) ==
    /\ lease[j] = "live"
    /\ lease' = [lease EXCEPT ![j] = "expired"]
    /\ UNCHANGED <<state, owner, cancelRequested, attempt, submitVars, snapshot>>

CreateJobBounded(r) ==
    \/ IdempotentHit(r)
    \/ QueueFull(r)
    \/ ReadFails(r)
    \/ ReadForInsert(r)
    \/ Insert(r)
    \/ InsertFails(r)
=============================================================================
