-------------------------- MODULE JobManager_proofs --------------------------
(***************************************************************************)
(* Proofs about JobManager for any number of submissions, keys, workers    *)
(* and processes.                                                          *)
(***************************************************************************)
EXTENDS JobManager, FiniteSetTheorems, TLAPS

(* A transaction that may still write has read a table with room for its   *)
(* row and without its key, and both are still so.                         *)
SnapshotSound ==
    \A r \in snapshot : /\ phase[r] = "insert"
                        /\ Cardinality(Active) < MaxQueued
                        /\ Duplicates(r) = {}

(* A row appears only with its submission's success, and every answer is a *)
(* stored row: the submission's own or an earlier one under its key.       *)
AnswersSound ==
    \A r \in Jobs :
        /\ phase[r] # "accepted" => state[r] = "absent"
        /\ phase[r] = "accepted" =>
              /\ reply[r] \in Stored
              /\ \/ reply[r] = r
                 \/ KeyOf[r] # NoKey /\ KeyOf[reply[r]] = KeyOf[r]

(* What the other columns of a row hold in each of its states. *)
RowShape ==
    \A j \in Jobs :
        /\ state[j] \in {"absent", "queued"} =>
              attempt[j] = 0 /\ ~cancelRequested[j]
        /\ state[j] \in {"running", "completed", "failed"} => attempt[j] > 0
        /\ state[j] = "cancelled" => cancelRequested[j]

(* What a worker holds at each place of execute. *)
WorkerShape ==
    \A w \in Workers :
        /\ Busy(w) => work[w] \in Jobs
        /\ ~Busy(w) => work[w] = None
        /\ heartbeat[w] # "off" => pc[w] \in {"handler", "join"}
        /\ pc[w] \in {"join", "recheck"} =>
              outcome[w] \in {"completed", "failed", "ctxErr"}
        /\ pc[w] = "recheck" => outcome[w] = "ctxErr"
        /\ pc[w] = "finish" => outcome[w] \in Terminal

(* A worker executes a claimed row, and is about to write "cancelled" only *)
(* when the row says so.                                                   *)
WorkerRows ==
    \A w \in Workers :
        Busy(w) => /\ attempt[work[w]] > 0
                   /\ pc[w] = "finish" /\ outcome[w] = "cancelled" =>
                         cancelRequested[work[w]]

(* A job claimed once has at most one worker, and none once it is final. *)
SoleWorker ==
    \A w \in Workers :
        Busy(w) /\ attempt[work[w]] = 1 =>
            /\ state[work[w]] \notin Terminal
            /\ \A v \in Workers : Busy(v) /\ work[v] = work[w] => v = w

TypeInv     == TypeOK /\ WorkerShape
RowInv      == RowShape /\ LeaseIffRunning /\ WorkerRows /\ AnswersSound
CapacityInv == QueueBound /\ SnapshotSound /\ OneJobPerKey

AgeInv      == NoOvertaking /\ \A j \in Jobs : created[j] <= second

(* Whoever claimed an unfinished job still executes it, is dead or lost    *)
(* its outcome.                                                            *)
Attempters(j) == {w \in Workers : work[w] = j \/ pc[w] = "dead"}
AttemptInv ==
    /\ BoundedAttempts
    /\ \A j \in Jobs : state[j] \notin Terminal =>
          attempt[j] <= Cardinality(Attempters(j)) + faults

IInv == TypeInv /\ RowInv /\ SoleWorker /\ CapacityInv /\ AgeInv /\ AttemptInv

-----------------------------------------------------------------------------
(* Type correctness. *)

(* The initial state is well typed. *)
LEMMA InitTypeInv == Init => TypeInv
BY JobStoreAssumption
   DEF Init, StoreInit, TypeInv, TypeOK, StoreTypeOK, Outcomes, Terminal,
       WorkerShape, Busy

(* Every step keeps the types. *)
LEMMA NextTypeInv == TypeInv /\ [Next]_vars => TypeInv'
<1> SUFFICES ASSUME TypeInv, [Next]_vars PROVE TypeInv'
  OBVIOUS
<1> USE DEF TypeInv, TypeOK, StoreTypeOK, Outcomes, Terminal, WorkerShape, Busy
<1>1. ASSUME NEW r \in Jobs, Enqueue(r) PROVE TypeInv'
  <2> USE <1>1 DEF Enqueue, workerVars, rowVars, leaseVars, Answer
  <2>1. CASE IdempotentHit(r)
    BY <2>1 DEF IdempotentHit, Duplicates, Stored
  <2>2. CASE QueueFull(r) \/ ReadFails(r)
    BY <2>2 DEF QueueFull, ReadFails
  <2>3. CASE ReadForInsert(r)
    BY <2>3 DEF ReadForInsert
  <2>4. CASE Insert(r)
    BY <2>4 DEF Insert, SnapshotCurrent
  <2>5. CASE InsertFails(r)
    BY <2>5 DEF InsertFails
  <2>6. QED
    BY <1>1, <2>1, <2>2, <2>3, <2>4, <2>5 DEF CreateJobBounded
<1>2. ASSUME NEW j \in Jobs, Cancel(j) PROVE TypeInv'
  BY <1>2 DEF Cancel, CancelJob, StateAfterCancel, workerVars, leaseVars, submitVars
<1>3. ASSUME NEW j \in Jobs, LeaseExpires(j) PROVE TypeInv'
  BY <1>3 DEF LeaseExpires, Expire, workerVars, submitVars
<1>4. ASSUME NEW w \in Workers, Execute(w) PROVE TypeInv'
  <2> USE DEF storeVars, rowVars, submitVars
  <2>1. ASSUME NEW j \in Jobs, Claim(w, j) PROVE TypeInv'
    BY <2>1 DEF Claim, ClaimJob
  <2>2. CASE CheckCancel(w)
    BY <2>2 DEF CheckCancel, StopHeartbeat
  <2>3. CASE Renew(w)
    BY <2>3 DEF Renew, RenewJob, StopHeartbeat
  <2>4. CASE HeartbeatEnds(w)
    BY <2>4 DEF HeartbeatEnds, StopHeartbeat
  <2>5. CASE Deadline(w)
    BY <2>5 DEF Deadline
  <2>6. CASE HandlerReturns(w)
    BY <2>6 DEF HandlerReturns
  <2>7. CASE JoinHeartbeat(w)
    BY <2>7 DEF JoinHeartbeat
  <2>8. CASE RecheckCancel(w)
    BY <2>8 DEF RecheckCancel
  <2>9. CASE FinishFails(w)
    BY <2>9 DEF FinishFails, BackToLoop
  <2>10. CASE Finish(w)
    BY <2>10 DEF Finish, FinishJob, BackToLoop
  <2>11. QED
    BY <1>4, <2>1, <2>2, <2>3, <2>4, <2>5, <2>6, <2>7, <2>8, <2>9, <2>10
       DEF Execute
<1>5. ASSUME NEW P \in Crashable, Crash(P) PROVE TypeInv'
  BY <1>5 DEF Crash, storeVars, rowVars, leaseVars, submitVars
<1>6. CASE UNCHANGED vars
  BY <1>6 DEF vars, storeVars, workerVars, rowVars, submitVars
<1>7. QED
  BY <1>1, <1>2, <1>3, <1>4, <1>5, <1>6 DEF Next

-----------------------------------------------------------------------------
(* Rows and the workers that hold them. *)

(* The table is empty and every worker idle. *)
LEMMA InitRowInv == Init => RowInv
BY JobStoreAssumption
   DEF Init, StoreInit, RowInv, RowShape, LeaseIffRunning, WorkerRows,
       AnswersSound, Busy, Terminal

(* Every step keeps the shape of rows, answers and executions. *)
LEMMA NextRowInv == TypeInv /\ RowInv /\ [Next]_vars => RowInv'
<1> SUFFICES ASSUME TypeInv, RowInv, [Next]_vars PROVE RowInv'
  OBVIOUS
<1> USE JobStoreAssumption
<1> USE DEF TypeInv, TypeOK, StoreTypeOK, Terminal, WorkerShape, Busy, RowInv,
            RowShape, LeaseIffRunning, WorkerRows, AnswersSound, Stored
<1>1. ASSUME NEW r \in Jobs, Enqueue(r) PROVE RowInv'
  <2> USE <1>1 DEF Enqueue, workerVars, rowVars, leaseVars, Answer
  <2>1. CASE IdempotentHit(r)
    BY <2>1 DEF IdempotentHit, Duplicates, Stored
  <2>2. CASE QueueFull(r) \/ ReadFails(r)
    BY <2>2 DEF QueueFull, ReadFails
  <2>3. CASE ReadForInsert(r)
    BY <2>3 DEF ReadForInsert
  <2>4. CASE Insert(r)
    BY <2>4 DEF Insert, SnapshotCurrent
  <2>5. CASE InsertFails(r)
    BY <2>5 DEF InsertFails
  <2>6. QED
    BY <1>1, <2>1, <2>2, <2>3, <2>4, <2>5 DEF CreateJobBounded
<1>2. ASSUME NEW j \in Jobs, Cancel(j) PROVE RowInv'
  BY <1>2 DEF Cancel, CancelJob, StateAfterCancel, Active, workerVars, leaseVars, submitVars
<1>3. ASSUME NEW j \in Jobs, LeaseExpires(j) PROVE RowInv'
  BY <1>3 DEF LeaseExpires, Expire, workerVars, submitVars
<1>4. ASSUME NEW w \in Workers, Execute(w) PROVE RowInv'
  <2> USE DEF storeVars, rowVars, leaseVars, submitVars
  <2>1. ASSUME NEW j \in Jobs, Claim(w, j) PROVE RowInv'
    BY <2>1 DEF Claim, ClaimJob, Claimable
  <2>2. CASE CheckCancel(w)
    BY <2>2 DEF CheckCancel, StopHeartbeat
  <2>3. CASE Renew(w)
    BY <2>3 DEF Renew, RenewJob, Renewable, StopHeartbeat
  <2>4. CASE HeartbeatEnds(w)
    BY <2>4 DEF HeartbeatEnds, StopHeartbeat
  <2>5. CASE Deadline(w)
    BY <2>5 DEF Deadline
  <2>6. CASE HandlerReturns(w)
    BY <2>6 DEF HandlerReturns
  <2>7. CASE JoinHeartbeat(w)
    BY <2>7 DEF JoinHeartbeat
  <2>8. CASE RecheckCancel(w)
    BY <2>8 DEF RecheckCancel
  <2>9. CASE FinishFails(w)
    BY <2>9 DEF FinishFails, BackToLoop
  <2>10. CASE Finish(w)
    BY <2>10 DEF Finish, FinishJob, BackToLoop
  <2>11. QED
    BY <1>4, <2>1, <2>2, <2>3, <2>4, <2>5, <2>6, <2>7, <2>8, <2>9, <2>10
       DEF Execute
<1>5. ASSUME NEW P \in Crashable, Crash(P) PROVE RowInv'
  BY <1>5 DEF Crash, storeVars, rowVars, leaseVars, submitVars
<1>6. CASE UNCHANGED vars
  BY <1>6 DEF vars, storeVars, workerVars, rowVars, leaseVars, submitVars
<1>7. QED
  BY <1>1, <1>2, <1>3, <1>4, <1>5, <1>6 DEF Next

-----------------------------------------------------------------------------
(* One worker per first attempt. *)

(* Nobody executes anything at first. *)
LEMMA InitSoleWorker == Init => SoleWorker
BY DEF Init, SoleWorker, Busy

(* A claim of a row that was never claimed finds no worker on it. *)
LEMMA NextSoleWorker == TypeInv /\ RowInv /\ SoleWorker /\ [Next]_vars => SoleWorker'
<1> SUFFICES ASSUME TypeInv, RowInv, SoleWorker, [Next]_vars PROVE SoleWorker'
  OBVIOUS
<1> USE JobStoreAssumption
<1> USE DEF TypeInv, TypeOK, StoreTypeOK, Terminal, WorkerShape, Busy, RowInv,
            RowShape, WorkerRows, AnswersSound, Stored, SoleWorker
<1>1. ASSUME NEW r \in Jobs, Enqueue(r) PROVE SoleWorker'
  <2> USE <1>1 DEF Enqueue, workerVars, rowVars, leaseVars, Answer
  <2>1. CASE IdempotentHit(r)
    BY <2>1 DEF IdempotentHit, Duplicates, Stored
  <2>2. CASE QueueFull(r) \/ ReadFails(r)
    BY <2>2 DEF QueueFull, ReadFails
  <2>3. CASE ReadForInsert(r)
    BY <2>3 DEF ReadForInsert
  <2>4. CASE Insert(r)
    BY <2>4 DEF Insert, SnapshotCurrent
  <2>5. CASE InsertFails(r)
    BY <2>5 DEF InsertFails
  <2>6. QED
    BY <1>1, <2>1, <2>2, <2>3, <2>4, <2>5 DEF CreateJobBounded
<1>2. ASSUME NEW j \in Jobs, Cancel(j) PROVE SoleWorker'
  BY <1>2 DEF Cancel, CancelJob, StateAfterCancel, Active, workerVars, leaseVars, submitVars
<1>3. ASSUME NEW j \in Jobs, LeaseExpires(j) PROVE SoleWorker'
  BY <1>3 DEF LeaseExpires, Expire, workerVars, submitVars
<1>4. ASSUME NEW w \in Workers, Execute(w) PROVE SoleWorker'
  <2> USE DEF storeVars, rowVars, leaseVars, submitVars
  <2>1. ASSUME NEW j \in Jobs, Claim(w, j) PROVE SoleWorker'
    BY <2>1 DEF Claim, ClaimJob, Claimable
  <2>2. CASE CheckCancel(w)
    BY <2>2 DEF CheckCancel, StopHeartbeat
  <2>3. CASE Renew(w)
    BY <2>3 DEF Renew, RenewJob, Renewable, StopHeartbeat
  <2>4. CASE HeartbeatEnds(w)
    BY <2>4 DEF HeartbeatEnds, StopHeartbeat
  <2>5. CASE Deadline(w)
    BY <2>5 DEF Deadline
  <2>6. CASE HandlerReturns(w)
    BY <2>6 DEF HandlerReturns
  <2>7. CASE JoinHeartbeat(w)
    BY <2>7 DEF JoinHeartbeat
  <2>8. CASE RecheckCancel(w)
    BY <2>8 DEF RecheckCancel
  <2>9. CASE FinishFails(w)
    BY <2>9 DEF FinishFails, BackToLoop
  <2>10. CASE Finish(w)
    BY <2>10 DEF Finish, FinishJob, BackToLoop
  <2>11. QED
    BY <1>4, <2>1, <2>2, <2>3, <2>4, <2>5, <2>6, <2>7, <2>8, <2>9, <2>10
       DEF Execute
<1>5. ASSUME NEW P \in Crashable, Crash(P) PROVE SoleWorker'
  BY <1>5 DEF Crash, storeVars, rowVars, leaseVars, submitVars
<1>6. CASE UNCHANGED vars
  BY <1>6 DEF vars, storeVars, workerVars, rowVars, leaseVars, submitVars
<1>7. QED
  BY <1>1, <1>2, <1>3, <1>4, <1>5, <1>6 DEF Next

-----------------------------------------------------------------------------
(* Capacity and idempotency keys. *)

(* Active is a finite set, so its cardinality is a natural number. *)
LEMMA ActiveFinite ==
    /\ IsFiniteSet(Active)
    /\ Cardinality(Active) \in Nat
    /\ IsFiniteSet(Active)'
    /\ Cardinality(Active)' \in Nat
<1>1. IsFiniteSet(Active) /\ IsFiniteSet(Active)'
  BY JobStoreAssumption, FS_Subset DEF Active
<1>2. QED
  BY <1>1, FS_CardinalityType

(* One more element is at most one more. *)
LEMMA AddAtMostOne ==
    ASSUME NEW S, NEW x, IsFiniteSet(S)
    PROVE  /\ IsFiniteSet(S \cup {x})
           /\ Cardinality(S \cup {x}) <= Cardinality(S) + 1
<1>1. Cardinality(S) \in Nat
  BY FS_CardinalityType
<1>2. /\ IsFiniteSet(S \cup {x})
      /\ \/ Cardinality(S \cup {x}) = Cardinality(S)
         \/ Cardinality(S \cup {x}) = Cardinality(S) + 1
  BY FS_AddElement, Zenon
<1>3. QED
  BY <1>1, <1>2

(* No open transaction, no row. *)
LEMMA InitCapacityInv == Init => CapacityInv
<1> SUFFICES ASSUME Init PROVE CapacityInv
  OBVIOUS
<1>1. Active = {} /\ Stored = {} /\ snapshot = {}
  BY DEF Init, StoreInit, Active, Stored
<1>2. QED
  BY <1>1, FS_EmptySet, JobStoreAssumption
     DEF CapacityInv, QueueBound, SnapshotSound, OneJobPerKey

(* A step that touches no row state and opens no transaction. *)
LEMMA QuietStep ==
    ASSUME CapacityInv, UNCHANGED state,
           \A q \in snapshot' : q \in snapshot /\ phase'[q] = phase[q]
    PROVE  CapacityInv'
<1>1. Active' = Active /\ Stored' = Stored
  BY DEF Active, Stored
<1>2. \A q \in Jobs : Duplicates(q)' = Duplicates(q)
  BY <1>1 DEF Duplicates
<1>3. QED
  BY <1>1, <1>2
     DEF CapacityInv, QueueBound, SnapshotSound, OneJobPerKey, Duplicates

(* A commit that adds no row and makes none active. *)
LEMMA CommitStep ==
    ASSUME CapacityInv, snapshot' = {},
           Active' \subseteq Active, Stored' = Stored
    PROVE  CapacityInv'
<1>1. Cardinality(Active)' <= Cardinality(Active)
  BY ActiveFinite, FS_Subset
<1>2. QED
  BY <1>1, ActiveFinite, JobStoreAssumption
     DEF CapacityInv, QueueBound, SnapshotSound, OneJobPerKey

(* The row that Insert adds was still admissible: its transaction's        *)
(* snapshot is the latest state.                                           *)
LEMMA InsertStep ==
    ASSUME TypeInv, CapacityInv, NEW r \in Jobs, Insert(r)
    PROVE  CapacityInv'
<1> USE DEF TypeInv, TypeOK, StoreTypeOK, Insert, SnapshotCurrent, CapacityInv
<1>1. Cardinality(Active) < MaxQueued /\ Duplicates(r) = {}
  BY DEF SnapshotSound
<1>2. Active' \subseteq Active \cup {r} /\ Stored' = Stored \cup {r}
  BY DEF Active, Stored
<1>3. Cardinality(Active)' <= Cardinality(Active) + 1
  <2>1. /\ IsFiniteSet(Active \cup {r})
        /\ Cardinality(Active \cup {r}) <= Cardinality(Active) + 1
    BY ActiveFinite, AddAtMostOne
  <2>2. Cardinality(Active)' <= Cardinality(Active \cup {r})
    BY <1>2, <2>1, FS_Subset
  <2>3. QED
    BY <2>1, <2>2, ActiveFinite, FS_CardinalityType
<1>4. QueueBound'
  BY <1>1, <1>3, ActiveFinite, JobStoreAssumption DEF QueueBound
<1>5. OneJobPerKey'
  BY <1>1, <1>2 DEF OneJobPerKey, Duplicates
<1>6. QED
  BY <1>4, <1>5 DEF SnapshotSound

(* Every step keeps the bound and the keys. *)
LEMMA NextCapacityInv ==
    TypeInv /\ RowInv /\ CapacityInv /\ [Next]_vars => CapacityInv'
<1> SUFFICES ASSUME TypeInv, RowInv, CapacityInv, [Next]_vars
             PROVE  CapacityInv'
  OBVIOUS
<1> USE DEF TypeInv, TypeOK, StoreTypeOK, rowVars, leaseVars, submitVars,
            workerVars
<1>1. ASSUME NEW r \in Jobs, Enqueue(r) PROVE CapacityInv'
  <2>1. CASE IdempotentHit(r)
    BY <2>1, QuietStep
       DEF IdempotentHit, Answer, CapacityInv, SnapshotSound
  <2>2. CASE QueueFull(r) \/ ReadFails(r)
    BY <2>2, QuietStep DEF QueueFull, ReadFails, Answer, CapacityInv, SnapshotSound
  <2>3. CASE ReadForInsert(r)
    <3>1. Active' = Active /\ Stored' = Stored
      BY <2>3 DEF ReadForInsert, Active, Stored
    <3>2. QED
      BY <2>3, <3>1
         DEF ReadForInsert, HasRoom, CapacityInv, QueueBound, SnapshotSound,
             OneJobPerKey, Duplicates
  <2>4. CASE Insert(r)
    BY <2>4, InsertStep
  <2>5. CASE InsertFails(r)
    BY <2>5, QuietStep DEF InsertFails, Answer
  <2>6. QED
    BY <1>1, <2>1, <2>2, <2>3, <2>4, <2>5 DEF Enqueue, CreateJobBounded
<1>2. ASSUME NEW j \in Jobs, Cancel(j) PROVE CapacityInv'
  BY <1>2, CommitStep DEF Cancel, CancelJob, StateAfterCancel, Active, Stored
<1>3. ASSUME NEW j \in Jobs, LeaseExpires(j) PROVE CapacityInv'
  BY <1>3, QuietStep DEF LeaseExpires, Expire
<1>4. ASSUME NEW w \in Workers, Execute(w) PROVE CapacityInv'
  <2> USE DEF storeVars
  <2>1. ASSUME NEW j \in Jobs, Claim(w, j) PROVE CapacityInv'
    BY <2>1, CommitStep DEF Claim, ClaimJob, Claimable, Active, Stored
  <2>2. CASE UNCHANGED storeVars
    BY <2>2, QuietStep
  <2>3. CASE Renew(w)
    BY <2>3, <2>2, CommitStep DEF Renew, RenewJob, Active, Stored
  <2>4. CASE Finish(w)
    <3>1. /\ work[w] \in Jobs
          /\ outcome[w] \in Terminal
          /\ state[work[w]] # "absent"
      BY <2>4 DEF Finish, WorkerShape, Busy, RowInv, WorkerRows, RowShape
    <3>2. QED
      BY <2>4, <3>1, CommitStep
         DEF Finish, FinishJob, Terminal, Active, Stored
  <2>5. QED
    BY <1>4, <2>1, <2>2, <2>3, <2>4
       DEF Execute, CheckCancel, HeartbeatEnds, Deadline, HandlerReturns,
           JoinHeartbeat, RecheckCancel, FinishFails
<1>5. ASSUME NEW P \in Crashable, Crash(P) PROVE CapacityInv'
  BY <1>5, QuietStep DEF Crash, storeVars
<1>6. CASE UNCHANGED vars
  BY <1>6, QuietStep DEF vars, storeVars
<1>7. QED
  BY <1>1, <1>2, <1>3, <1>4, <1>5, <1>6 DEF Next

-----------------------------------------------------------------------------
(* The order of claims. *)

(* Nothing is stored yet. *)
LEMMA InitAgeInv == Init => AgeInv
BY DEF Init, StoreInit, AgeInv, NoOvertaking, Stored

(* created_at never decreases, and a claim takes an oldest claimable row,  *)
(* which every queued row is.                                              *)
LEMMA NextAgeInv == TypeInv /\ RowInv /\ AgeInv /\ [Next]_vars => AgeInv'
<1> SUFFICES ASSUME TypeInv, RowInv, AgeInv, [Next]_vars PROVE AgeInv'
  OBVIOUS
<1> USE DEF TypeInv, TypeOK, StoreTypeOK, AgeInv, NoOvertaking, Stored
<1>1. ASSUME UNCHANGED <<state, attempt, created, second>> PROVE AgeInv'
  BY <1>1
<1>2. ASSUME NEW r \in Jobs, Insert(r) PROVE AgeInv'
  BY <1>2 DEF Insert, leaseVars, RowInv, RowShape, AnswersSound
<1>3. ASSUME NEW j \in Jobs, NEW w \in Workers, ClaimJob(j, w) PROVE AgeInv'
  <2>1. \A i \in Jobs : state[i] = "queued" => created[j] <= created[i]
    BY <1>3 DEF ClaimJob, Oldest, Claimable, RowInv, RowShape
  <2>2. QED
    BY <1>3, <2>1 DEF ClaimJob, Claimable, submitVars
<1>4. ASSUME NEW j \in Jobs, CancelJob(j) PROVE AgeInv'
  BY <1>4 DEF CancelJob, StateAfterCancel, Active, leaseVars, submitVars
<1>5. ASSUME NEW w \in Workers, Finish(w) PROVE AgeInv'
  <2>1. work[w] \in Jobs /\ outcome[w] \in Terminal /\ state[work[w]] # "absent"
    BY <1>5 DEF Finish, WorkerShape, Busy, RowInv, WorkerRows, RowShape
  <2>2. QED
    BY <1>5, <2>1 DEF Finish, FinishJob, submitVars, Terminal
<1>6. ASSUME NEW r \in Jobs, CreateJobBounded(r), ~Insert(r) PROVE AgeInv'
  BY <1>1, <1>6 DEF CreateJobBounded, IdempotentHit, QueueFull, ReadFails, ReadForInsert,
                    InsertFails, rowVars, leaseVars
<1>7. ASSUME NEW w \in Workers, Execute(w), ~Finish(w),
             ~ \E j \in Jobs : ClaimJob(j, w)
      PROVE  AgeInv'
  BY <1>1, <1>7 DEF Execute, Claim, CheckCancel, Renew, RenewJob,
       HeartbeatEnds, Deadline, HandlerReturns, JoinHeartbeat, RecheckCancel,
       FinishFails, storeVars, rowVars, submitVars
<1>8. QED
  BY <1>1, <1>2, <1>3, <1>4, <1>5, <1>6, <1>7
     DEF Next, vars, storeVars, rowVars, submitVars, Enqueue, Cancel,
         LeaseExpires, Expire, Crash

-----------------------------------------------------------------------------
(* The number of attempts. *)

(* Sets of workers can be counted. *)
LEMMA WorkersCounted ==
    ASSUME NEW S, NEW T, S \subseteq T, T \subseteq Workers
    PROVE  /\ IsFiniteSet(S) /\ Cardinality(S) \in Nat
           /\ Cardinality(T) \in Nat /\ Cardinality(S) <= Cardinality(T)
<1>1. IsFiniteSet(T)
  BY JobManagerAssumption, FS_Subset
<1>2. IsFiniteSet(S) /\ Cardinality(S) <= Cardinality(T)
  BY <1>1, FS_Subset
<1>3. QED
  BY <1>1, <1>2, FS_CardinalityType

(* Nothing was claimed. *)
LEMMA InitAttemptInv == Init => AttemptInv
<1> SUFFICES ASSUME Init PROVE AttemptInv
  OBVIOUS
<1>1. Cardinality(Workers) \in Nat
  BY WorkersCounted
<1>2. \A j \in Jobs : Cardinality(Attempters(j)) \in Nat
  BY WorkersCounted DEF Attempters
<1>3. QED
  BY <1>1, <1>2 DEF Init, StoreInit, AttemptInv, BoundedAttempts

(* A step that starts no attempt, revives no job and loses no attempter. *)
LEMMA NoNewAttempt ==
    ASSUME TypeInv, AttemptInv, UNCHANGED <<attempt, faults>>,
           \A j \in Jobs : state'[j] \notin Terminal =>
              state[j] \notin Terminal /\ Attempters(j) \subseteq Attempters(j)'
    PROVE  AttemptInv'
<1>1. BoundedAttempts'
  BY DEF AttemptInv, BoundedAttempts
<1>2. ASSUME NEW j \in Jobs, state'[j] \notin Terminal
      PROVE  attempt'[j] <= Cardinality(Attempters(j)') + faults'
  <2>1. /\ Cardinality(Attempters(j)) \in Nat /\ Cardinality(Attempters(j)') \in Nat
        /\ Cardinality(Attempters(j)) <= Cardinality(Attempters(j)')
    BY <1>2, WorkersCounted DEF Attempters
  <2>2. attempt[j] <= Cardinality(Attempters(j)) + faults
    BY <1>2 DEF AttemptInv
  <2>3. attempt[j] \in Nat /\ faults \in Nat /\ attempt'[j] = attempt[j] /\ faults' = faults
    BY DEF TypeInv, TypeOK, StoreTypeOK
  <2>4. QED
    BY <2>1, <2>2, <2>3
<1>3. QED
  BY <1>1, <1>2 DEF AttemptInv

(* A claim adds an attempt and an attempter. *)
LEMMA ClaimAttempt ==
    ASSUME TypeInv, AttemptInv, NEW w \in Workers, NEW j \in Jobs, Claim(w, j)
    PROVE  AttemptInv'
<1> USE JobStoreAssumption
<1>1. /\ state[j] \notin Terminal /\ work[w] = None /\ pc[w] = "idle"
      /\ state' = [state EXCEPT ![j] = "running"]
      /\ attempt' = [attempt EXCEPT ![j] = @ + 1] /\ faults' = faults
      /\ work' = [work EXCEPT ![w] = j] /\ pc' = [pc EXCEPT ![w] = "handler"]
  BY DEF Claim, ClaimJob, Claimable, Terminal, TypeInv, WorkerShape, Busy
<1>t. /\ state \in [Jobs -> {"absent", "queued", "running"} \cup Terminal]
      /\ attempt \in [Jobs -> Nat] /\ faults \in Nat
      /\ work \in [Workers -> Jobs \cup {None}] /\ DOMAIN pc = Workers
  BY DEF TypeInv, TypeOK, StoreTypeOK
<1>2. w \notin Attempters(j) /\ Attempters(j)' = Attempters(j) \cup {w}
  BY <1>1, <1>t DEF Attempters
<1>3. \A k \in Jobs \ {j} : Attempters(k)' = Attempters(k)
  BY <1>1, <1>t DEF Attempters
<1>4. /\ Cardinality(Attempters(j)') = Cardinality(Attempters(j)) + 1
      /\ Cardinality(Attempters(j)) \in Nat
      /\ Cardinality(Attempters(j)') <= Cardinality(Workers) /\ Cardinality(Workers) \in Nat
  <2>1. IsFiniteSet(Attempters(j)) /\ Cardinality(Attempters(j)) \in Nat
    BY WorkersCounted DEF Attempters
  <2>2. /\ Cardinality(Attempters(j)') <= Cardinality(Workers) /\ Cardinality(Workers) \in Nat
    BY WorkersCounted DEF Attempters
  <2>3. Cardinality(Attempters(j) \cup {w}) = Cardinality(Attempters(j)) + 1
    BY <1>2, <2>1, FS_AddElement
  <2>4. QED
    BY <1>2, <2>1, <2>2, <2>3
<1>5. attempt'[j] <= Cardinality(Attempters(j)') + faults'
  <2>1. attempt[j] <= Cardinality(Attempters(j)) + faults
    BY <1>1 DEF AttemptInv
  <2>2. attempt'[j] = attempt[j] + 1 /\ attempt[j] \in Nat
    BY <1>1, <1>t
  <2>3. QED
    BY <1>1, <1>4, <1>t, <2>1, <2>2
<1>6. \A k \in Jobs \ {j} : attempt'[k] = attempt[k] /\ state'[k] = state[k]
  BY <1>1, <1>t
<1>7. BoundedAttempts'
  <2>1. attempt'[j] <= Cardinality(Workers) + faults'
    BY <1>1, <1>4, <1>5, <1>t
  <2>2. QED
    BY <1>1, <1>6, <2>1 DEF AttemptInv, BoundedAttempts
<1>8. QED
  BY <1>1, <1>3, <1>5, <1>6, <1>7 DEF AttemptInv

(* An outcome that is lost costs an attempter and counts as a fault. *)
LEMMA LostAttempt ==
    ASSUME TypeInv, AttemptInv, NEW w \in Workers, FinishFails(w)
    PROVE  AttemptInv'
<1>1. /\ UNCHANGED <<state, attempt>> /\ faults' = faults + 1
      /\ work' = [work EXCEPT ![w] = None] /\ pc' = [pc EXCEPT ![w] = "idle"]
      /\ pc[w] = "finish"
  BY DEF FinishFails, BackToLoop, storeVars, rowVars
<1>t. attempt \in [Jobs -> Nat] /\ faults \in Nat /\ DOMAIN work = Workers /\ DOMAIN pc = Workers
  BY DEF TypeInv, TypeOK, StoreTypeOK
<1>2. BoundedAttempts'
  <2>1. Cardinality(Workers) \in Nat
    BY WorkersCounted
  <2>2. QED
    BY <1>1, <1>t, <2>1 DEF AttemptInv, BoundedAttempts
<1>3. ASSUME NEW j \in Jobs, state[j] \notin Terminal
      PROVE  attempt[j] <= Cardinality(Attempters(j)') + (faults + 1)
  <2>1. Attempters(j) \subseteq Attempters(j)' \cup {w}
    BY <1>1, <1>t DEF Attempters
  <2>2. IsFiniteSet(Attempters(j)') /\ Cardinality(Attempters(j)') \in Nat
    BY WorkersCounted DEF Attempters
  <2>3. Attempters(j)' \cup {w} \subseteq Workers
    BY DEF Attempters
  <2>4. Cardinality(Attempters(j)' \cup {w}) <= Cardinality(Attempters(j)') + 1
    BY <2>2, AddAtMostOne
  <2>5. /\ Cardinality(Attempters(j)) \in Nat /\ Cardinality(Attempters(j)' \cup {w}) \in Nat
        /\ Cardinality(Attempters(j)) <= Cardinality(Attempters(j)' \cup {w})
    BY <2>1, <2>3, WorkersCounted
  <2>6. attempt[j] <= Cardinality(Attempters(j)) + faults /\ attempt[j] \in Nat
    BY <1>3, <1>t DEF AttemptInv
  <2>7. QED
    BY <1>t, <2>2, <2>4, <2>5, <2>6
<1>4. QED
  BY <1>1, <1>2, <1>3 DEF AttemptInv

(* Every step keeps the number of attempts in bounds. *)
LEMMA NextAttemptInv == TypeInv /\ RowInv /\ AttemptInv /\ [Next]_vars => AttemptInv'
<1> SUFFICES ASSUME TypeInv, RowInv, AttemptInv, [Next]_vars PROVE AttemptInv'
  OBVIOUS
<1> USE DEF storeVars, rowVars, leaseVars, submitVars, workerVars
<1>0. ASSUME UNCHANGED <<attempt, faults, work>>,
             \A j \in Jobs : state'[j] \notin Terminal => state[j] \notin Terminal,
             \A v \in Workers : pc[v] = "dead" => pc'[v] = "dead"
      PROVE  AttemptInv'
  BY <1>0, NoNewAttempt DEF Attempters
<1>1. ASSUME NEW r \in Jobs, Enqueue(r) PROVE AttemptInv'
  <2>1. CASE Insert(r)
    <3>1. \A j \in Jobs : state'[j] \notin Terminal => state[j] \notin Terminal
      BY <2>1 DEF Insert, Terminal, RowInv, RowShape, AnswersSound, TypeInv, TypeOK, StoreTypeOK
    <3>2. QED
      BY <1>0, <1>1, <2>1, <3>1 DEF Enqueue, Insert
  <2>2. CASE ~Insert(r)
    BY <1>0, <1>1, <2>2 DEF Enqueue, CreateJobBounded, IdempotentHit, QueueFull, ReadFails,
         ReadForInsert, InsertFails
  <2>3. QED
    BY <2>1, <2>2
<1>2. ASSUME NEW j \in Jobs, Cancel(j) PROVE AttemptInv'
  <2>1. \A k \in Jobs : state'[k] \notin Terminal => state[k] \notin Terminal
    BY <1>2 DEF Cancel, CancelJob, StateAfterCancel, Terminal, Active, TypeInv, TypeOK, StoreTypeOK
  <2>2. QED
    BY <1>0, <1>2, <2>1 DEF Cancel, CancelJob
<1>3. ASSUME NEW j \in Jobs, LeaseExpires(j) PROVE AttemptInv'
  BY <1>0, <1>3 DEF LeaseExpires, Expire
<1>4. ASSUME NEW w \in Workers, Execute(w) PROVE AttemptInv'
  <2>1. ASSUME NEW j \in Jobs, Claim(w, j) PROVE AttemptInv'
    BY <2>1, ClaimAttempt
  <2>2. CASE FinishFails(w)
    BY <2>2, LostAttempt
  <2>3. CASE Finish(w)
    <3>1. /\ work[w] \in Jobs /\ outcome[w] \in Terminal /\ pc[w] = "finish"
          /\ UNCHANGED <<attempt, faults>>
          /\ state' = [state EXCEPT ![work[w]] = outcome[w]]
          /\ work' = [work EXCEPT ![w] = None] /\ pc' = [pc EXCEPT ![w] = "idle"]
      BY <2>3 DEF Finish, FinishJob, BackToLoop, TypeInv, WorkerShape, Busy
    <3>2. \A j \in Jobs : state'[j] \notin Terminal =>
             j # work[w] /\ state[j] \notin Terminal
      BY <3>1 DEF TypeInv, TypeOK, StoreTypeOK
    <3>3. \A j \in Jobs : j # work[w] => Attempters(j) \subseteq Attempters(j)'
      BY <3>1 DEF Attempters, TypeInv, TypeOK
    <3>4. QED
      BY <3>1, <3>2, <3>3, NoNewAttempt
  <2>4. CASE CheckCancel(w) \/ Renew(w) \/ HeartbeatEnds(w) \/ Deadline(w)
    BY <1>0, <2>4 DEF CheckCancel, Renew, RenewJob, HeartbeatEnds, Deadline
  <2>5. CASE HandlerReturns(w) \/ JoinHeartbeat(w) \/ RecheckCancel(w)
    <3>1. /\ UNCHANGED <<attempt, faults, work, state>>
          /\ \A v \in Workers : pc[v] = "dead" => pc'[v] = "dead"
      BY <2>5 DEF HandlerReturns, JoinHeartbeat, RecheckCancel, TypeInv, TypeOK
    <3>2. QED
      BY <1>0, <3>1
  <2>6. QED
    BY <1>4, <2>1, <2>2, <2>3, <2>4, <2>5 DEF Execute
<1>5. ASSUME NEW P \in Crashable, Crash(P) PROVE AttemptInv'
  <2>1. /\ UNCHANGED <<attempt, faults, state>>
        /\ \A j \in Jobs : Attempters(j) \subseteq Attempters(j)'
    BY <1>5 DEF Crash, Attempters
  <2>2. QED
    BY <2>1, NoNewAttempt
<1>6. CASE UNCHANGED vars
  BY <1>0, <1>6 DEF vars
<1>7. QED
  BY <1>1, <1>2, <1>3, <1>4, <1>5, <1>6 DEF Next

-----------------------------------------------------------------------------
(* The invariant, and what follows from it. *)

(* IInv is an inductive invariant of the job manager. *)
THEOREM Invariant == Spec => []IInv
<1>1. Init => IInv
  BY InitTypeInv, InitRowInv, InitSoleWorker, InitCapacityInv, InitAgeInv, InitAttemptInv DEF IInv
<1>2. IInv /\ [Next]_vars => IInv'
  BY NextTypeInv, NextRowInv, NextSoleWorker, NextCapacityInv, NextAgeInv, NextAttemptInv
     DEF IInv
<1>3. QED
  BY <1>1, <1>2, PTL DEF Spec

(* Type correctness. *)
THEOREM TypeCorrect == Spec => []TypeOK
<1>1. IInv => TypeOK
  BY DEF IInv, TypeInv
<1>2. QED
  BY <1>1, Invariant, PTL

(* The queue never holds more than max_queued jobs, whatever submitters,   *)
(* workers and processes do between the count and the insert.              *)
THEOREM QueueBounded == Spec => []QueueBound
<1>1. IInv => QueueBound
  BY DEF IInv, CapacityInv
<1>2. QED
  BY <1>1, Invariant, PTL

(* An idempotency key never names two rows. *)
THEOREM KeysUnique == Spec => []OneJobPerKey
<1>1. IInv => OneJobPerKey
  BY DEF IInv, CapacityInv
<1>2. QED
  BY <1>1, Invariant, PTL

(* Retries of a submission are answered with the original job. *)
THEOREM RetriesAnswered == Spec => []SameKeySameAnswer
<1>1. IInv => SameKeySameAnswer
  BY DEF IInv, RowInv, CapacityInv, OneJobPerKey, AnswersSound, SameKeySameAnswer
<1>2. QED
  BY <1>1, Invariant, PTL

(* A row has a lease and an owner exactly while it runs. *)
THEOREM LeasesSound == Spec => []LeaseIffRunning
<1>1. IInv => LeaseIffRunning
  BY DEF IInv, RowInv
<1>2. QED
  BY <1>1, Invariant, PTL

(* "cancelled" always goes back to a request. *)
THEOREM CancelHonest == Spec => []CancelledWasRequested
<1>1. IInv => CancelledWasRequested
  BY DEF IInv, RowInv, RowShape, CancelledWasRequested
<1>2. QED
  BY <1>1, Invariant, PTL

(* What a row says of itself hangs together. *)
THEOREM RowsSound == Spec => []RowsConsistent
<1>1. LeaseIffRunning /\ CancelledWasRequested => RowsConsistent
  BY DEF RowsConsistent
<1>2. QED
  BY <1>1, LeasesSound, CancelHonest, PTL

(* Jobs are started in the order of their creation, to the second. *)
THEOREM ClaimsInOrder == Spec => []NoOvertaking
<1>1. IInv => NoOvertaking
  BY DEF IInv, AgeInv
<1>2. QED
  BY <1>1, Invariant, PTL

(* Jobs are not retried without end: a job is claimed once per worker at   *)
(* most, and once more per outcome that was lost.                          *)
THEOREM AttemptsBounded == Spec => []BoundedAttempts
<1>1. IInv => BoundedAttempts
  BY DEF IInv, AttemptInv
<1>2. QED
  BY <1>1, Invariant, PTL

-----------------------------------------------------------------------------
(* What a step may do to a final row, and the lifecycle. *)

(* The worker that finishes a row has claimed it; a final row it finds was *)
(* claimed at least twice.                                                 *)
LEMMA FinishedRow ==
    ASSUME IInv, NEW w \in Workers, Finish(w)
    PROVE  /\ work[w] \in Jobs
           /\ outcome[w] \in Terminal
           /\ attempt[work[w]] \in Nat \ {0}
           /\ state[work[w]] \in Terminal => attempt[work[w]] > 1
           /\ outcome[w] = "cancelled" => cancelRequested[work[w]]
<1>1. /\ Busy(w)
      /\ work[w] \in Jobs
      /\ outcome[w] \in Terminal
      /\ attempt[work[w]] \in Nat \ {0}
      /\ outcome[w] = "cancelled" => cancelRequested[work[w]]
  BY DEF Finish, IInv, TypeInv, TypeOK, StoreTypeOK, WorkerShape, Busy, RowInv,
         WorkerRows
<1>2. state[work[w]] \in Terminal => attempt[work[w]] # 1
  BY <1>1 DEF IInv, SoleWorker
<1>3. QED
  BY <1>1, <1>2

(* Finishing, claiming, cancelling and inserting are the only steps that   *)
(* change the columns a client sees.                                       *)
LEMMA RowWriters ==
    ASSUME [Next]_vars
    PROVE  \/ \E r \in Jobs : Insert(r)
           \/ \E j \in Jobs : CancelJob(j)
           \/ \E j \in Jobs, w \in Workers : ClaimJob(j, w)
           \/ \E w \in Workers : Finish(w)
           \/ UNCHANGED <<state, cancelRequested, attempt>>
<1> USE DEF rowVars, storeVars
<1>1. ASSUME NEW r \in Jobs, CreateJobBounded(r), ~Insert(r)
      PROVE  UNCHANGED <<state, cancelRequested, attempt>>
  BY <1>1 DEF CreateJobBounded, IdempotentHit, QueueFull, ReadFails, ReadForInsert,
              InsertFails
<1>2. ASSUME NEW w \in Workers, Execute(w), ~Finish(w),
             ~ \E j \in Jobs : ClaimJob(j, w)
      PROVE  UNCHANGED <<state, cancelRequested, attempt>>
  BY <1>2 DEF Execute, Claim, CheckCancel, Renew, RenewJob, HeartbeatEnds,
              Deadline, HandlerReturns, JoinHeartbeat, RecheckCancel,
              FinishFails
<1>3. QED
  BY <1>1, <1>2 DEF Next, vars, Enqueue, Cancel, LeaseExpires, Expire, Crash

(* A job that has ended stays ended. *)
THEOREM EndsStayEnds == Spec => NoResurrection
<1>1. ASSUME IInv, [Next]_vars, NEW j \in Jobs, state[j] \in Terminal
      PROVE  state'[j] \in Terminal
  <2> USE <1>1 DEF Terminal, IInv, TypeInv, TypeOK, StoreTypeOK
  <2>1. CASE \E r \in Jobs : Insert(r)
    BY <2>1 DEF Insert, RowInv, AnswersSound
  <2>2. CASE \E i \in Jobs : CancelJob(i)
    BY <2>2 DEF CancelJob, StateAfterCancel
  <2>3. CASE \E i \in Jobs, w \in Workers : ClaimJob(i, w)
    BY <2>3 DEF ClaimJob, Claimable
  <2>4. CASE \E w \in Workers : Finish(w)
    <3>1. PICK w \in Workers : Finish(w)
      BY <2>4
    <3>2. outcome[w] \in Terminal /\ work[w] \in Jobs
      BY <3>1, FinishedRow
    <3>3. QED
      BY <3>1, <3>2 DEF Finish, FinishJob
  <2>5. QED
    BY <2>1, <2>2, <2>3, <2>4, RowWriters
<1>2. IInv /\ [Next]_vars =>
        [\A j \in Jobs : state[j] \in Terminal => state'[j] \in Terminal]_vars
  BY <1>1
<1>3. QED
  BY <1>2, Invariant, PTL DEF Spec, NoResurrection

(* Only a job that was claimed twice can be given another end. *)
THEOREM FirstEndIsFinal == Spec => SingleAttemptFinal
<1>1. ASSUME IInv, [Next]_vars, NEW j \in Jobs,
             state[j] \in Terminal, attempt[j] <= 1
      PROVE  state'[j] = state[j]
  <2> USE <1>1 DEF Terminal, IInv, TypeInv, TypeOK, StoreTypeOK
  <2>1. CASE \E r \in Jobs : Insert(r)
    BY <2>1 DEF Insert, RowInv, AnswersSound
  <2>2. CASE \E i \in Jobs : CancelJob(i)
    BY <2>2 DEF CancelJob, StateAfterCancel
  <2>3. CASE \E i \in Jobs, w \in Workers : ClaimJob(i, w)
    BY <2>3 DEF ClaimJob, Claimable
  <2>4. CASE \E w \in Workers : Finish(w)
    <3>1. PICK w \in Workers : Finish(w)
      BY <2>4
    <3>2. work[w] \in Jobs /\ work[w] # j
      BY <3>1, FinishedRow
    <3>3. QED
      BY <3>1, <3>2 DEF Finish, FinishJob
  <2>5. QED
    BY <2>1, <2>2, <2>3, <2>4, RowWriters
<1>2. IInv /\ [Next]_vars =>
        [\A j \in Jobs : state[j] \in Terminal /\ attempt[j] <= 1 =>
            state'[j] = state[j]]_vars
  BY <1>1
<1>3. QED
  BY <1>2, Invariant, PTL DEF Spec, SingleAttemptFinal

(* Nobody takes up a job after its cancellation was requested. *)
THEOREM CancelStopsAttempts == Spec => NoAttemptAfterCancel
<1>1. ASSUME IInv, [Next]_vars, NEW j \in Jobs, cancelRequested[j]
      PROVE  attempt'[j] = attempt[j]
  <2> USE <1>1 DEF IInv, TypeInv, TypeOK, StoreTypeOK
  <2>1. CASE \E r \in Jobs : Insert(r)
    BY <2>1 DEF Insert
  <2>2. CASE \E i \in Jobs : CancelJob(i)
    BY <2>2 DEF CancelJob
  <2>3. CASE \E i \in Jobs, w \in Workers : ClaimJob(i, w)
    BY <2>3 DEF ClaimJob, Claimable
  <2>4. CASE \E w \in Workers : Finish(w)
    BY <2>4 DEF Finish, FinishJob
  <2>5. QED
    BY <2>1, <2>2, <2>3, <2>4, RowWriters
<1>2. IInv /\ [Next]_vars =>
        [\A j \in Jobs : cancelRequested[j] => attempt'[j] = attempt[j]]_vars
  BY <1>1
<1>3. QED
  BY <1>2, Invariant, PTL DEF Spec, NoAttemptAfterCancel

(* An end stays an end, and a cancelled job is not taken up again. *)
THEOREM EndsStand == Spec => EndsAreFinal
<1>1. QED
  BY EndsStayEnds, FirstEndIsFinal, CancelStopsAttempts DEF EndsAreFinal

(* The table and its workers implement the job lifecycle. *)
THEOREM RefinesLifecycle == Spec => ImplementsLifecycle
<1>1. Init => Lifecycle!Init
  <2> SUFFICES ASSUME Init PROVE Lifecycle!Init
    OBVIOUS
  <2>1. \A j \in Jobs : (attempt[j] > 0) = FALSE
    BY SMT DEF Init, StoreInit
  <2>2. [j \in Jobs |-> attempt[j] > 0] = [j \in Jobs |-> FALSE]
    BY <2>1, Zenon
  <2>3. QED
    BY <2>2, Zenon DEF Init, StoreInit, Lifecycle!Init
<1>2. ASSUME IInv, [Next]_vars
      PROVE  [Lifecycle!Next]_(Lifecycle!jobVars)
  <2> USE <1>2 DEF IInv, TypeInv, TypeOK, StoreTypeOK
  <2>1. CASE \E r \in Jobs : Insert(r)
    <3>1. PICK r \in Jobs : Insert(r)
      BY <2>1
    <3>2. state[r] = "absent" /\ Cardinality(Active) < MaxQueued /\ Duplicates(r) = {}
      BY <3>1 DEF Insert, SnapshotCurrent, RowInv, AnswersSound, CapacityInv,
                    SnapshotSound
    <3>3. Lifecycle!Accept(r)
      <4>1. Lifecycle!Cardinality(Lifecycle!Pending) < MaxQueued
        <5>1. Lifecycle!Pending = Active
          BY DEF Lifecycle!Pending, Active
        <5>2. Lifecycle!Cardinality(Active) = Cardinality(Active)
          BY Zenon DEF Lifecycle!Cardinality, Cardinality
        <5>3. QED
          BY <3>2, <5>1, <5>2
      <4>2. KeyOf[r] # NoKey => \A i \in Lifecycle!Accepted : KeyOf[i] # KeyOf[r]
        BY <3>2 DEF Lifecycle!Accepted, Duplicates, Stored
      <4>3. /\ state' = [state EXCEPT ![r] = "queued"]
            /\ UNCHANGED <<cancelRequested, attempt>>
        BY <3>1 DEF Insert
      <4>4. QED
        BY <3>2, <4>1, <4>2, <4>3, Zenon DEF Lifecycle!Accept
    <3>4. QED
      BY <3>3 DEF Lifecycle!Next
  <2>2. CASE \E j \in Jobs : CancelJob(j)
    <3>1. PICK j \in Jobs : CancelJob(j)
      BY <2>2
    <3>2. Lifecycle!StopQueued(j) \/ Lifecycle!AskToStop(j)
      BY <3>1 DEF CancelJob, StateAfterCancel, Active, Lifecycle!StopQueued, Lifecycle!AskToStop
    <3>3. QED
      BY <3>2 DEF Lifecycle!Next
  <2>3. CASE \E j \in Jobs, w \in Workers : ClaimJob(j, w)
    <3>1. PICK j \in Jobs, w \in Workers : ClaimJob(j, w)
      BY <2>3
    <3>2. CASE state[j] = "queued"
      <4>1. Lifecycle!Begin(j)
        <5>1. /\ ~cancelRequested[j]
              /\ state' = [state EXCEPT ![j] = "running"]
              /\ UNCHANGED cancelRequested
          BY <3>1 DEF ClaimJob, Claimable
        <5>2. /\ attempt'[j] > 0
              /\ \A i \in Jobs \ {j} : attempt'[i] = attempt[i]
          BY <3>1 DEF ClaimJob
        <5>3. [i \in Jobs |-> attempt'[i] > 0] =
                 [[i \in Jobs |-> attempt[i] > 0] EXCEPT ![j] = TRUE]
          BY <5>2, Zenon
        <5>4. QED
          BY <3>2, <5>1, <5>3, Zenon DEF Lifecycle!Begin
      <4>2. QED
        BY <4>1 DEF Lifecycle!Next
    <3>3. CASE state[j] = "running"
      <4>1. attempt[j] > 0
        BY <3>3 DEF RowInv, RowShape
      <4>2. UNCHANGED Lifecycle!jobVars
        BY <3>1, <3>3, <4>1 DEF ClaimJob, Lifecycle!jobVars
      <4>3. QED
        BY <4>2
    <3>4. QED
      BY <3>1, <3>2, <3>3 DEF ClaimJob, Claimable
  <2>4. CASE \E w \in Workers : Finish(w)
    <3>1. PICK w \in Workers : Finish(w)
      BY <2>4
    <3>2. /\ work[w] \in Jobs /\ outcome[w] \in Terminal
          /\ attempt[work[w]] > 0
          /\ outcome[w] = "cancelled" => cancelRequested[work[w]]
      BY <3>1, FinishedRow
    <3>3. Lifecycle!End(work[w], outcome[w])
      BY <3>1, <3>2 DEF Finish, FinishJob, Lifecycle!End
    <3>4. QED
      BY <3>2, <3>3 DEF Lifecycle!Next, Lifecycle!Ends, Terminal
  <2>5. CASE UNCHANGED <<state, cancelRequested, attempt>>
    BY <2>5 DEF Lifecycle!jobVars
  <2>6. QED
    BY <2>1, <2>2, <2>3, <2>4, <2>5, RowWriters
<1>3. QED
  BY <1>1, <1>2, Invariant, PTL
     DEF Spec, ImplementsLifecycle, Lifecycle!Spec

-----------------------------------------------------------------------------
(* A cancelled job that lost its worker. *)

(* It runs in the table, was asked to stop, and nobody executes it. *)
Stranded(j) == Abandoned(j) /\ cancelRequested[j]

(* Once stranded a job runs in the table for ever, and takes a place of    *)
(* jobs.max_queued: ClaimJob and CancelJob pass it over, and FinishJob is  *)
(* called only by a worker that executes it, stale ones included.  This is *)
(* the counterexample to CancelEnds for every number of jobs and workers,  *)
(* and no fairness would help.                                             *)
THEOREM StrandedForEver ==
  ASSUME NEW j \in Jobs
  PROVE  Spec => [](Stranded(j) => [](Stranded(j) /\ j \in Active))
<1>1. ASSUME IInv, [Next]_vars, Stranded(j) PROVE Stranded(j)'
  <2> USE <1>1 DEF IInv, TypeInv, TypeOK, StoreTypeOK, Stranded, Abandoned
  <2>1. state'[j] = "running" /\ cancelRequested'[j]
    <3>1. CASE \E r \in Jobs : Insert(r)
      BY <3>1 DEF Insert, RowInv, AnswersSound
    <3>2. CASE \E i \in Jobs : CancelJob(i)
      BY <3>2 DEF CancelJob, StateAfterCancel
    <3>3. CASE \E i \in Jobs, w \in Workers : ClaimJob(i, w)
      BY <3>3 DEF ClaimJob
    <3>4. CASE \E w \in Workers : Finish(w)
      BY <3>4, FinishedRow DEF Finish, FinishJob
    <3>5. QED
      BY <3>1, <3>2, <3>3, <3>4, RowWriters
  <2>2. ASSUME NEW w \in Workers PROVE work'[w] # j
    <3>1. ASSUME NEW v \in Workers, NEW i \in Jobs, Claim(v, i) PROVE work'[w] # j
      BY <3>1 DEF Claim, ClaimJob, Claimable
    <3>2. ASSUME NEW v \in Workers, Finish(v) \/ FinishFails(v) PROVE work'[w] # j
      BY <3>2, JobStoreAssumption DEF Finish, FinishFails, BackToLoop
    <3>3. ASSUME NEW P \in Crashable, Crash(P) PROVE work'[w] # j
      BY <3>3, JobStoreAssumption DEF Crash
    <3>4. CASE UNCHANGED work
      BY <3>4
    <3>5. ASSUME NEW v \in Workers, Execute(v)
          PROVE  \/ UNCHANGED work
                 \/ \E i \in Jobs : Claim(v, i)
                 \/ Finish(v) \/ FinishFails(v)
      BY <3>5 DEF Execute, CheckCancel, Renew, HeartbeatEnds, Deadline,
                  HandlerReturns, JoinHeartbeat, RecheckCancel
    <3>6. QED
      BY <3>1, <3>2, <3>3, <3>4, <3>5
         DEF Next, vars, workerVars, Enqueue, Cancel, LeaseExpires
  <2>3. QED
    BY <2>1, <2>2
<1>2. Stranded(j) => j \in Active
  BY DEF Stranded, Abandoned, Active
<1>3. QED
  BY <1>1, <1>2, Invariant, PTL DEF Spec
=============================================================================
