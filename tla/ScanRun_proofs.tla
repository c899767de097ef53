----------------------------- MODULE ScanRun_proofs -----------------------------
(***************************************************************************)
(* Proofs about ScanRun for any number of probes and pool goroutines.      *)
(***************************************************************************)
EXTENDS ScanRun, FiniteSetTheorems, TLAPS

Exited   == {g \in Pool : at[g] = "exited"}
Counting == {g \in Pool : at[g] = "count"}
Done     == ingested \cup failed

(* What a worker holds at each place: a probe that was sent, is not done   *)
(* and that no other worker holds.                                         *)
HandsShape ==
    /\ \A g \in Pool : /\ at[g] \in {"check", "probe"} <=> held[g] # 0
                       /\ held[g] <= sent
                       /\ held[g] \notin Done
    /\ \A g, h \in Pool : held[g] = held[h] /\ held[g] # 0 => g = h
    /\ Done \subseteq 1..sent
    /\ ingested \cap failed = {}

(* The producer's way to its return.                                       *)
ProducerShape ==
    /\ closed => verdict # "none"
    /\ verdict = "nil" => sent = Total
    /\ returned # "no" => closed /\ PoolDone /\ returned = verdict

(* The counter agrees with the probes that are done, and what was made of  *)
(* it is not ahead of it.                                                  *)
CounterInv == completed + Cardinality(Counting) = Cardinality(Done)
NotAhead   == shown <= completed /\ \A g \in Pool : number[g] <= completed

(* A dropped probe has a worker that left with it, after the context ended.*)
DroppedInv ==
    /\ Cardinality(Dropped) <= Cardinality(Exited)
    /\ Dropped # {} => runCtx = "done"

IInv == /\ TypeOK /\ HandsShape /\ ProducerShape
        /\ CounterInv /\ NotAhead /\ DroppedInv

-----------------------------------------------------------------------------
(* Every set that is counted is finite. *)
LEMMA Finite ==
  ASSUME TypeOK, HandsShape
  PROVE  /\ IsFiniteSet(Done) /\ IsFiniteSet(Counting)
         /\ IsFiniteSet(Exited) /\ IsFiniteSet(Dropped)
         /\ Cardinality(Done) \in Nat /\ Cardinality(Counting) \in Nat
         /\ Cardinality(Exited) \in Nat /\ Cardinality(Dropped) \in Nat
<1>1. IsFiniteSet(1..sent)
  BY FS_Interval DEF TypeOK
<1>2. IsFiniteSet(Done) /\ IsFiniteSet(Dropped)
  BY <1>1, FS_Subset DEF HandsShape, Dropped
<1>3. IsFiniteSet(Counting) /\ IsFiniteSet(Exited)
  BY FS_Subset, ScanRunAssumption DEF Counting, Exited
<1>4. QED
  BY <1>2, <1>3, FS_CardinalityType

(* No more probes are done than there are. *)
LEMMA DoneWithinTotal ==
  ASSUME TypeOK, HandsShape
  PROVE  Cardinality(Done) <= Total
<1>1. IsFiniteSet(1..Total) /\ Cardinality(1..Total) = Total
  BY FS_Interval, ScanRunAssumption
<1>2. Done \subseteq 1..Total
  BY ScanRunAssumption DEF HandsShape, TypeOK
<1>3. QED
  BY <1>1, <1>2, FS_Subset

(* While a worker counts, the counter is below the number of probes. *)
LEMMA RoomForCount ==
  ASSUME TypeOK, HandsShape, CounterInv, NEW g \in Pool, at[g] = "count"
  PROVE  completed + 1 <= Total
<1>1. Counting # {} /\ IsFiniteSet(Counting) /\ Cardinality(Counting) \in Nat
  BY Finite DEF Counting
<1>2. Cardinality(Counting) # 0
  BY <1>1, FS_EmptySet
<1>3. QED
  BY <1>1, <1>2, DoneWithinTotal, Finite, ScanRunAssumption DEF CounterInv, TypeOK

-----------------------------------------------------------------------------
(* Nothing is sent, held, counted or dropped at first. *)
LEMMA InitIInv == Init => IInv
<1> SUFFICES ASSUME Init PROVE IInv
  OBVIOUS
<1>1. TypeOK
  <2>1. 0 \in 0..Total
    BY ScanRunAssumption
  <2>2. QED
    BY <2>1 DEF Init, TypeOK
<1>2. Done = {} /\ Counting = {} /\ Dropped = {} /\ Exited = {}
  BY DEF Init, Done, Counting, Dropped, Exited
<1>3. HandsShape /\ ProducerShape /\ NotAhead
  BY <1>2 DEF Init, HandsShape, ProducerShape, NotAhead
<1>4. CounterInv /\ DroppedInv
  BY <1>2, FS_EmptySet DEF Init, CounterInv, DroppedInv
<1>5. QED
  BY <1>1, <1>3, <1>4 DEF IInv

(* Every step keeps the types. *)
LEMMA NextTypeOK == IInv /\ [Next]_vars => TypeOK'
<1> SUFFICES ASSUME IInv, [Next]_vars PROVE TypeOK'
  OBVIOUS
<1> USE ScanRunAssumption
<1> USE DEF IInv, TypeOK, producerVars, ctxVars, poolVars, resultVars, Probes
<1>1. ASSUME NEW g \in Pool, HandOver(g) PROVE TypeOK'
  BY <1>1 DEF HandOver
<1>2. CASE StopSending \/ AllSent
  BY <1>2 DEF StopSending, AllSent
<1>3. CASE Return
  BY <1>3 DEF Return, ProducerShape
<1>4. CASE JobCtxEnds
  BY <1>4 DEF JobCtxEnds
<1>5. ASSUME NEW g \in Pool, Leave(g) \/ CheckCtx(g) PROVE TypeOK'
  <2>1. CASE Leave(g)
    BY <2>1 DEF Leave
  <2>2. CASE CheckCtx(g)
    <3>1. /\ at' \in [Pool -> {"recv", "check", "probe", "count", "progress", "exited"}]
          /\ held' \in [Pool -> 0..Total]
      BY <2>2 DEF CheckCtx
    <3>2. QED
      BY <2>2, <3>1 DEF CheckCtx
  <2>3. QED
    BY <1>5, <2>1, <2>2
<1>6. ASSUME NEW g \in Pool, Probe(g) PROVE TypeOK'
  <2>1. held[g] \in Probes
    BY <1>6 DEF Probe, HandsShape
  <2>2. ingested' \subseteq Probes /\ failed' \subseteq Probes
    BY <1>6, <2>1 DEF Probe
  <2>3. QED
    BY <1>6, <2>2 DEF Probe
<1>7. ASSUME NEW g \in Pool, Count(g) PROVE TypeOK'
  <2>1. completed + 1 <= Total
    BY <1>7, RoomForCount DEF Count
  <2>2. QED
    BY <1>7, <2>1 DEF Count
<1>8. ASSUME NEW g \in Pool, WriteProgress(g) \/ ProgressFails(g) PROVE TypeOK'
  <2>1. CASE WriteProgress(g)
    BY <2>1 DEF WriteProgress
  <2>2. CASE ProgressFails(g)
    BY <2>2 DEF ProgressFails, CtxAfterFailure
  <2>3. QED
    BY <1>8, <2>1, <2>2
<1>9. CASE UNCHANGED vars
  BY <1>9 DEF vars
<1>10. QED
  BY <1>1, <1>2, <1>3, <1>4, <1>5, <1>6, <1>7, <1>8, <1>9 DEF Next, Produce, Work

(* Every step keeps what the producer will return. *)
LEMMA NextProducer == IInv /\ [Next]_vars => ProducerShape'
<1> SUFFICES ASSUME IInv, [Next]_vars PROVE ProducerShape'
  OBVIOUS
<1> USE DEF IInv, TypeOK, producerVars, poolVars, ProducerShape, PoolDone
<1>1. ASSUME NEW g \in Pool, HandOver(g) PROVE ProducerShape'
  BY <1>1 DEF HandOver
<1>2. CASE StopSending \/ AllSent
  BY <1>2 DEF StopSending, AllSent
<1>3. CASE Return
  BY <1>3 DEF Return
<1>4. CASE JobCtxEnds
  BY <1>4 DEF JobCtxEnds
<1>5. ASSUME NEW g \in Pool, Work(g) PROVE ProducerShape'
  <2>1. UNCHANGED producerVars
    BY <1>5 DEF Work, Leave, CheckCtx, Probe, Count, WriteProgress, ProgressFails
  <2>2. at[g] # "exited"
    BY <1>5 DEF Work, Leave, CheckCtx, Probe, Count, WriteProgress, ProgressFails
  <2>3. QED
    BY <2>1, <2>2
<1>6. CASE UNCHANGED vars
  BY <1>6 DEF vars
<1>7. QED
  BY <1>1, <1>2, <1>3, <1>4, <1>5, <1>6 DEF Next, Produce

(* Every step keeps what workers hold. *)
LEMMA NextHands == IInv /\ [Next]_vars => HandsShape'
<1> SUFFICES ASSUME IInv, [Next]_vars PROVE HandsShape'
  OBVIOUS
<1> USE ScanRunAssumption
<1> USE DEF IInv, TypeOK, ctxVars, poolVars, resultVars, HandsShape, Done
<1>1. ASSUME NEW g \in Pool, HandOver(g) PROVE HandsShape'
  BY <1>1 DEF HandOver
<1>2. CASE StopSending \/ AllSent \/ Return \/ JobCtxEnds
  BY <1>2 DEF StopSending, AllSent, Return, JobCtxEnds, producerVars
<1>3. ASSUME NEW g \in Pool, Leave(g) PROVE HandsShape'
  BY <1>3 DEF Leave, producerVars
<1>4. ASSUME NEW g \in Pool, CheckCtx(g) PROVE HandsShape'
  BY <1>4 DEF CheckCtx, producerVars
<1>5. ASSUME NEW g \in Pool, Probe(g) PROVE HandsShape'
  <2>1. /\ held' = [held EXCEPT ![g] = 0] /\ at' = [at EXCEPT ![g] = "count"]
        /\ UNCHANGED sent /\ held[g] \in 1..sent /\ held[g] \notin Done
    BY <1>5 DEF Probe, producerVars
  <2>2. Done' = Done \cup {held[g]} /\ (ingested \cap failed)' = {}
    BY <1>5 DEF Probe
  <2>3. QED
    BY <2>1, <2>2
<1>6. ASSUME NEW g \in Pool, Count(g) PROVE HandsShape'
  BY <1>6 DEF Count, producerVars
<1>7. ASSUME NEW g \in Pool, WriteProgress(g) PROVE HandsShape'
  BY <1>7 DEF WriteProgress, producerVars
<1>8. ASSUME NEW g \in Pool, ProgressFails(g) PROVE HandsShape'
  BY <1>8 DEF ProgressFails, producerVars
<1>9. CASE UNCHANGED vars
  BY <1>9 DEF vars, producerVars
<1>10. QED
  BY <1>1, <1>2, <1>3, <1>4, <1>5, <1>6, <1>7, <1>8, <1>9 DEF Next, Produce, Work
-----------------------------------------------------------------------------
(* Counting. *)

(* Every step keeps the counter equal to the number of probes done, and    *)
(* what was made of the counter behind it.                                 *)
LEMMA NextCounter == IInv /\ [Next]_vars => (CounterInv /\ NotAhead)'
<1> SUFFICES ASSUME IInv, [Next]_vars PROVE (CounterInv /\ NotAhead)'
  OBVIOUS
<1>f. /\ IsFiniteSet(Done) /\ IsFiniteSet(Counting)
      /\ Cardinality(Done) \in Nat /\ Cardinality(Counting) \in Nat
  BY Finite DEF IInv
<1>s. ASSUME UNCHANGED <<ingested, failed, completed, shown>>, Counting' = Counting,
             \A g \in Pool : number'[g] \in {number[g], 0}
      PROVE  (CounterInv /\ NotAhead)'
  BY <1>s DEF IInv, TypeOK, CounterInv, NotAhead, Done
<1> USE DEF IInv, TypeOK, ctxVars, poolVars, resultVars, producerVars
<1>1. ASSUME NEW g \in Pool, HandOver(g) PROVE (CounterInv /\ NotAhead)'
  <2>1. Counting' = Counting
    BY <1>1 DEF HandOver, Counting
  <2>2. QED
    BY <1>1, <1>s, <2>1 DEF HandOver
<1>2. CASE StopSending \/ AllSent \/ Return \/ JobCtxEnds
  BY <1>2, <1>s DEF StopSending, AllSent, Return, JobCtxEnds, Counting
<1>3. ASSUME NEW g \in Pool, Leave(g) \/ CheckCtx(g) PROVE (CounterInv /\ NotAhead)'
  <2>1. Counting' = Counting
    BY <1>3 DEF Leave, CheckCtx, Counting
  <2>2. QED
    BY <1>3, <1>s, <2>1 DEF Leave, CheckCtx
<1>4. ASSUME NEW g \in Pool, Probe(g) PROVE (CounterInv /\ NotAhead)'
  <2>1. Done' = Done \cup {held[g]} /\ held[g] \notin Done
    BY <1>4 DEF Probe, Done, HandsShape
  <2>2. Counting' = Counting \cup {g} /\ g \notin Counting
    BY <1>4 DEF Probe, Counting
  <2>3. /\ Cardinality(Done') = Cardinality(Done) + 1
        /\ Cardinality(Counting') = Cardinality(Counting) + 1
    BY <2>1, <2>2, <1>f, FS_AddElement
  <2>4. UNCHANGED <<completed, shown, number>>
    BY <1>4 DEF Probe
  <2>5. QED
    BY <2>3, <2>4, <1>f DEF CounterInv, NotAhead
<1>5. ASSUME NEW g \in Pool, Count(g) PROVE (CounterInv /\ NotAhead)'
  <2>1. Counting' = Counting \ {g} /\ g \in Counting
    BY <1>5 DEF Count, Counting
  <2>2. Cardinality(Counting') = Cardinality(Counting) - 1
    BY <2>1, <1>f, FS_RemoveElement
  <2>3. /\ completed' = completed + 1 /\ UNCHANGED <<ingested, failed, shown>>
        /\ number' = [number EXCEPT ![g] = completed + 1]
    BY <1>5 DEF Count
  <2>4. CounterInv'
    BY <2>2, <2>3, <1>f DEF CounterInv, Done
  <2>5. NotAhead'
    BY <2>3, ScanRunAssumption DEF NotAhead
  <2>6. QED
    BY <2>4, <2>5
<1>6. ASSUME NEW g \in Pool, WriteProgress(g) PROVE (CounterInv /\ NotAhead)'
  <2>1. Counting' = Counting
    BY <1>6 DEF WriteProgress, Counting
  <2>2. CounterInv'
    BY <1>6, <2>1 DEF WriteProgress, CounterInv, Done
  <2>3. NotAhead'
    BY <1>6, ScanRunAssumption DEF WriteProgress, NotAhead
  <2>4. QED
    BY <2>2, <2>3
<1>7. ASSUME NEW g \in Pool, ProgressFails(g) PROVE (CounterInv /\ NotAhead)'
  <2>1. Counting' = Counting
    BY <1>7 DEF ProgressFails, Counting
  <2>2. CounterInv'
    BY <1>7, <2>1 DEF ProgressFails, CounterInv, Done
  <2>3. NotAhead'
    BY <1>7, ScanRunAssumption DEF ProgressFails, NotAhead
  <2>4. QED
    BY <2>2, <2>3
<1>8. CASE UNCHANGED vars
  BY <1>8, <1>s DEF vars, Counting
<1>9. QED
  BY <1>1, <1>2, <1>3, <1>4, <1>5, <1>6, <1>7, <1>8 DEF Next, Produce, Work

(* A probe is dropped only by a worker that exits with it once the context *)
(* ended, and none comes back.                                             *)
LEMMA NextDropped == IInv /\ [Next]_vars => DroppedInv'
<1> SUFFICES ASSUME IInv, [Next]_vars PROVE DroppedInv'
  OBVIOUS
<1>f. /\ IsFiniteSet(Exited) /\ Cardinality(Exited) \in Nat
      /\ IsFiniteSet(Dropped) /\ Cardinality(Dropped) \in Nat
  BY Finite DEF IInv
<1>g. TypeOK' /\ HandsShape'
  BY NextTypeOK, NextHands
<1>h. IsFiniteSet(Exited') /\ Cardinality(Exited') \in Nat
  BY <1>g, ScanRunAssumption, FS_Subset, FS_CardinalityType DEF Exited
<1>s. ASSUME Dropped' = Dropped, Exited \subseteq Exited', runCtx' \in {runCtx, "done"}
      PROVE  DroppedInv'
  <2>1. Cardinality(Exited) <= Cardinality(Exited')
    BY <1>s, <1>h, FS_Subset
  <2>2. QED
    BY <1>s, <1>f, <1>h, <2>1 DEF IInv, DroppedInv
<1> USE DEF IInv, TypeOK, ctxVars, poolVars, resultVars, producerVars
<1>1. ASSUME NEW g \in Pool, HandOver(g) PROVE DroppedInv'
  <2>1. Exited \subseteq Exited' /\ UNCHANGED runCtx
    BY <1>1 DEF HandOver, Exited
  <2>2. 1..sent' = (1..sent) \cup {sent + 1} /\ held[g] = 0
    BY <1>1 DEF HandOver, HandsShape
  <2>3. held'[g] = sent + 1 /\ \A h \in Pool \ {g} : held'[h] = held[h]
    BY <1>1 DEF HandOver
  <2>4. ingested' \cup failed' = ingested \cup failed
    BY <1>1 DEF HandOver
  <2>5. Dropped' = Dropped
    BY <2>2, <2>3, <2>4 DEF Dropped
  <2>6. QED
    BY <1>s, <2>1, <2>5
<1>2. CASE StopSending \/ AllSent \/ Return \/ JobCtxEnds
  BY <1>2, <1>s DEF StopSending, AllSent, Return, JobCtxEnds, Dropped, Exited
<1>3. ASSUME NEW g \in Pool, Leave(g) PROVE DroppedInv'
  BY <1>3, <1>s DEF Leave, Dropped, Exited
<1>4. ASSUME NEW g \in Pool, CheckCtx(g) PROVE DroppedInv'
  <2>1. CASE runCtx # "done"
    BY <1>4, <1>s, <2>1 DEF CheckCtx, Dropped, Exited
  <2>2. CASE runCtx = "done"
    <3>1. Exited' = Exited \cup {g} /\ g \notin Exited
      BY <1>4, <2>2 DEF CheckCtx, Exited
    <3>2. /\ held[g] \in 1..sent /\ held[g] \notin ingested \cup failed
          /\ \A h \in Pool \ {g} : held[h] # held[g]
      BY <1>4 DEF CheckCtx, HandsShape, Done
    <3>3. /\ held' = [held EXCEPT ![g] = 0]
          /\ UNCHANGED <<sent, ingested, failed, runCtx>>
      BY <1>4, <2>2 DEF CheckCtx
    <3>4. Dropped' = Dropped \cup {held[g]} /\ held[g] \notin Dropped
      BY <3>2, <3>3 DEF Dropped
    <3>5. /\ Cardinality(Dropped') = Cardinality(Dropped) + 1
          /\ Cardinality(Exited') = Cardinality(Exited) + 1
      BY <3>1, <3>4, <1>f, FS_AddElement
    <3>6. QED
      BY <2>2, <3>3, <3>5, <1>f DEF DroppedInv
  <2>3. QED
    BY <2>1, <2>2
<1>5. ASSUME NEW g \in Pool, Probe(g) PROVE DroppedInv'
  <2>1. /\ held' = [held EXCEPT ![g] = 0] /\ UNCHANGED <<sent, runCtx>>
        /\ ingested' \cup failed' = (ingested \cup failed) \cup {held[g]}
    BY <1>5 DEF Probe
  <2>2. \A p \in 1..sent : p # 0
    OBVIOUS
  <2>3. Dropped' = Dropped
    BY <2>1, <2>2 DEF Dropped
  <2>4. Exited \subseteq Exited'
    BY <1>5 DEF Probe, Exited
  <2>5. QED
    BY <1>s, <2>1, <2>3, <2>4
<1>6. ASSUME NEW g \in Pool, Count(g) \/ WriteProgress(g) PROVE DroppedInv'
  BY <1>6, <1>s DEF Count, WriteProgress, Dropped, Exited
<1>7. ASSUME NEW g \in Pool, ProgressFails(g) PROVE DroppedInv'
  BY <1>7, <1>s DEF ProgressFails, CtxAfterFailure, Dropped, Exited
<1>8. CASE UNCHANGED vars
  BY <1>8, <1>s DEF vars, Dropped, Exited
<1>9. QED
  BY <1>1, <1>2, <1>3, <1>4, <1>5, <1>6, <1>7, <1>8 DEF Next, Produce, Work

-----------------------------------------------------------------------------
(* The theorems. *)

(* Every step keeps the inductive invariant. *)
LEMMA NextIInv == IInv /\ [Next]_vars => IInv'
BY NextTypeOK, NextHands, NextProducer, NextCounter, NextDropped DEF IInv

(* It holds in every reachable state. *)
THEOREM Invariance == Spec => []IInv
BY InitIInv, NextIInv, PTL DEF Spec

(* Every variable keeps its type: no number of workers counts past Total.  *)
THEOREM TypeCorrect == Spec => []TypeOK
<1>1. IInv => TypeOK
  BY DEF IInv
<1>2. QED
  BY <1>1, Invariance, PTL

(* No probe is lost or accounted for twice, and the counter agrees with    *)
(* the probes that are done.                                               *)
THEOREM ProbesAreAccounted == Spec => []ProbesAccounted
<1>1. IInv => ProbesAccounted
  BY DEF IInv, HandsShape, CounterInv, DroppedInv, Done, Counting, Exited, ProbesAccounted
<1>2. QED
  BY <1>1, Invariance, PTL

(* The progress shown never claims more than was done. *)
THEOREM ProgressIsHonest == Spec => []ProgressHonest
<1>1. IInv => ProgressHonest
  BY DEF IInv, NotAhead, ProgressHonest
<1>2. QED
  BY <1>1, Invariance, PTL

(* A run that returned has no worker left, and one that returned nil has   *)
(* skipped at most a probe per worker, after its context ended.            *)
THEOREM ReturnedIsOver == Spec => []ReturnedRunIsOver
<1>1. IInv => ReturnedRunIsOver
  <2> SUFFICES ASSUME IInv, returned # "no" PROVE
                 /\ PoolDone
                 /\ returned = "nil" => /\ Total - completed <= Cardinality(Pool)
                                        /\ completed < Total => runCtx = "done"
    BY DEF ReturnedRunIsOver, PoolDone
  <2> USE DEF IInv, TypeOK
  <2>1. PoolDone /\ (returned = "nil" => sent = Total)
    BY DEF ProducerShape
  <2>2. Exited = Pool /\ Counting = {} /\ \A g \in Pool : held[g] = 0
    BY <2>1 DEF PoolDone, Exited, Counting, HandsShape
  <2>3. completed = Cardinality(Done)
    BY <2>2, FS_EmptySet, Finite DEF CounterInv
  <2>4. ASSUME returned = "nil" PROVE Cardinality(Dropped) = Total - completed
    <3>1. Dropped = (1..Total) \ Done /\ Done \subseteq 1..Total
      BY <2>1, <2>2, <2>4 DEF Dropped, Done, HandsShape
    <3>2. IsFiniteSet(1..Total) /\ Cardinality(1..Total) = Total
      BY FS_Interval, ScanRunAssumption
    <3>3. Cardinality((1..Total) \ Done) = Cardinality(1..Total) - Cardinality((1..Total) \cap Done)
      BY <3>2, Finite, FS_Difference
    <3>4. (1..Total) \cap Done = Done
      BY <3>1
    <3>5. QED
      BY <3>1, <3>2, <3>3, <3>4, <2>3
  <2>5. ASSUME returned = "nil", completed < Total PROVE runCtx = "done"
    <3>1. Cardinality(Dropped) # 0
      BY <2>4, <2>5, ScanRunAssumption
    <3>2. Dropped # {}
      BY <3>1, FS_EmptySet
    <3>3. QED
      BY <3>2 DEF DroppedInv
  <2>6. QED
    BY <2>1, <2>2, <2>4, <2>5 DEF DroppedInv
<1>2. QED
  BY <1>1, Invariance, PTL
-----------------------------------------------------------------------------
(* Why a run returns. No fairness and no ENABLED is used: what is proved   *)
(* is that somebody can move until the run has returned, and that only     *)
(* finitely many moves are left.                                           *)

(* Some action of the producer, or of a worker, has its guard met.         *)
ProducerCanMove ==
    \/ ~closed /\ (sent = Total \/ runCtx = "done" \/ \E g \in Pool : at[g] = "recv")
    \/ closed /\ returned = "no" /\ PoolDone
WorkerCanMove(g) ==
    at[g] \in {"check", "probe", "count", "progress"} \/ (at[g] = "recv" /\ closed)
NeverStuck == returned = "no" => ProducerCanMove \/ \E g \in Pool : WorkerCanMove(g)

(* A worker leaves before the channel is closed only when the context ended.*)
LeftInv == \A g \in Pool : at[g] = "exited" => closed \/ runCtx = "done"

LEMMA NextLeft == IInv /\ LeftInv /\ [Next]_vars => LeftInv'
<1> SUFFICES ASSUME IInv, LeftInv, [Next]_vars PROVE LeftInv'
  OBVIOUS
<1> USE DEF IInv, TypeOK, producerVars, ctxVars, poolVars, LeftInv
<1>1. ASSUME NEW g \in Pool, HandOver(g) PROVE LeftInv'
  BY <1>1 DEF HandOver
<1>2. CASE StopSending \/ AllSent \/ Return \/ JobCtxEnds
  BY <1>2 DEF StopSending, AllSent, Return, JobCtxEnds
<1>3. ASSUME NEW g \in Pool, Leave(g) \/ CheckCtx(g) PROVE LeftInv'
  BY <1>3 DEF Leave, CheckCtx
<1>4. ASSUME NEW g \in Pool, Probe(g) \/ Count(g) \/ WriteProgress(g) PROVE LeftInv'
  BY <1>4 DEF Probe, Count, WriteProgress
<1>5. ASSUME NEW g \in Pool, ProgressFails(g) PROVE LeftInv'
  BY <1>5 DEF ProgressFails, CtxAfterFailure
<1>6. CASE UNCHANGED vars
  BY <1>6 DEF vars
<1>7. QED
  BY <1>1, <1>2, <1>3, <1>4, <1>5, <1>6 DEF Next, Produce, Work

(* Until it has returned, a run is never stuck: the producer does not wait *)
(* for workers that have all left, nor a worker for a producer that has    *)
(* (the select on ctx.Done(), the cancel() of a failed progress write).    *)
THEOREM SomebodyCanMove == Spec => []NeverStuck
<1>1. Init => LeftInv
  BY DEF Init, LeftInv
<1>2. IInv /\ LeftInv => NeverStuck
  <2> SUFFICES ASSUME IInv, LeftInv, returned = "no", ~ProducerCanMove,
                      \A g \in Pool : ~WorkerCanMove(g)
               PROVE  FALSE
    BY DEF NeverStuck
  <2>1. \A g \in Pool : at[g] = "exited" \/ (at[g] = "recv" /\ ~closed)
    BY DEF IInv, TypeOK, WorkerCanMove
  <2>2. CASE closed
    BY <2>1, <2>2 DEF ProducerCanMove, PoolDone
  <2>3. CASE ~closed
    <3>1. sent # Total /\ runCtx # "done" /\ \A g \in Pool : at[g] # "recv"
      BY <2>3 DEF ProducerCanMove
    <3>2. Pool = {}
      BY <2>1, <2>3, <3>1 DEF LeftInv
    <3>3. Total = 0 /\ sent = 0
      BY <3>2, ScanRunAssumption DEF IInv, TypeOK
    <3>4. QED
      BY <3>1, <3>3
  <2>4. QED
    BY <2>2, <2>3
<1>3. QED
  BY <1>1, <1>2, NextLeft, Invariance, PTL DEF Spec

(* What is left to do: five moves for a probe that is not handed over, for *)
(* each worker the moves that lie before it, the close and the return.     *)
Ahead == [check |-> 5, probe |-> 4, count |-> 3, progress |-> 2, recv |-> 1, exited |-> 0]
Owed  == {t \in Pool \X (1..5) : t[2] <= Ahead[at[t[1]]]}
MovesLeft == 5 * (Total - sent) + Cardinality(Owed)
             + (IF closed THEN 0 ELSE 1) + (IF returned = "no" THEN 1 ELSE 0)

LEMMA OwedFinite == IsFiniteSet(Owed) /\ Cardinality(Owed) \in Nat
<1>1. IsFiniteSet(1..5) /\ Cardinality(1..5) = IF 1 > 5 THEN 0 ELSE 5 - 1 + 1
  BY FS_Interval, 1 \in Int, 5 \in Int
<1>2. IsFiniteSet(Pool \X (1..5))
  BY <1>1, FS_Product, ScanRunAssumption
<1>3. QED
  BY <1>2, FS_Subset, FS_CardinalityType DEF Owed

(* A worker that moves on has less before it. *)
LEMMA MovedOn ==
  ASSUME TypeOK, NEW g \in Pool, NEW place, at' = [at EXCEPT ![g] = place],
         place \in DOMAIN Ahead, Ahead[place] < Ahead[at[g]]
  PROVE  Cardinality(Owed') \in Nat /\ Cardinality(Owed') < Cardinality(Owed)
<1>1. \A h \in Pool \ {g} : at'[h] = at[h]
  BY DEF TypeOK
<1>2. at'[g] = place
  BY DEF TypeOK
<1>3. Ahead[place] \in 0..4 /\ Ahead[at[g]] \in 1..5
  BY DEF Ahead, TypeOK
<1>4. Owed' = {t \in Pool \X (1..5) : t[2] <= Ahead[at'[t[1]]]}
  BY DEF Owed
<1>5. Owed' \subseteq Owed
  <2> SUFFICES ASSUME NEW h \in Pool, NEW k \in 1..5, k <= Ahead[at'[h]]
               PROVE  k <= Ahead[at[h]]
    BY <1>4 DEF Owed
  <2>1. CASE h = g
    BY <2>1, <1>2, <1>3
  <2>2. CASE h # g
    BY <2>2, <1>1
  <2>3. QED
    BY <2>1, <2>2
<1>6. <<g, Ahead[at[g]]>> \in Owed /\ <<g, Ahead[at[g]]>> \notin Owed'
  BY <1>2, <1>3, <1>4 DEF Owed
<1>7. Owed' # Owed
  BY <1>6
<1>8. IsFiniteSet(Owed') /\ Cardinality(Owed') <= Cardinality(Owed)
      /\ Cardinality(Owed') # Cardinality(Owed)
  BY <1>5, <1>7, OwedFinite, FS_Subset
<1>9. Cardinality(Owed') \in Nat
  BY <1>8, FS_CardinalityType
<1>10. QED
  BY <1>8, <1>9, OwedFinite

(* A worker that takes a probe has four more moves before it.              *)
LEMMA TookProbe ==
  ASSUME TypeOK, NEW g \in Pool, at[g] = "recv", at' = [at EXCEPT ![g] = "check"]
  PROVE  Cardinality(Owed') = Cardinality(Owed) + 4
<1> DEFINE o == Owed
           o2 == o \cup {<<g, 2>>}
           o3 == o2 \cup {<<g, 3>>}
           o4 == o3 \cup {<<g, 4>>}
           o5 == o4 \cup {<<g, 5>>}
<1>1. Ahead["recv"] = 1 /\ Ahead["check"] = 5
  BY DEF Ahead
<1>2. \A k \in 2..5 : <<g, k>> \notin o
  BY <1>1 DEF Owed
<1>3. Owed' = o5
  <2>1. Owed' = {t \in Pool \X (1..5) : t[2] <= Ahead[at'[t[1]]]}
    BY DEF Owed
  <2>2. \A h \in Pool : h # g => at'[h] = at[h]
    BY DEF TypeOK
  <2>3. at'[g] = "check"
    BY DEF TypeOK
  <2>4. ASSUME NEW h \in Pool, NEW k \in 1..5 PROVE <<h, k>> \in Owed' <=> <<h, k>> \in o5
    <3>1. CASE h # g
      BY <3>1, <2>1, <2>2 DEF Owed
    <3>2. CASE h = g
      BY <3>2, <2>1, <2>3, <1>1 DEF Owed
    <3>3. QED
      BY <3>1, <3>2
  <2>5. Owed' \subseteq Pool \X (1..5) /\ o5 \subseteq Pool \X (1..5)
    BY <2>1 DEF Owed
  <2> HIDE DEF o5
  <2>6. ASSUME NEW t \in Pool \X (1..5) PROVE t \in Owed' <=> t \in o5
    <3>1. t = <<t[1], t[2]>> /\ t[1] \in Pool /\ t[2] \in 1..5
      OBVIOUS
    <3>2. <<t[1], t[2]>> \in Owed' <=> <<t[1], t[2]>> \in o5
      BY <2>4, <3>1
    <3>3. QED
      BY <3>1, <3>2
  <2>7. QED
    BY <2>5, <2>6
<1>4. IsFiniteSet(o) /\ Cardinality(o) \in Nat
  BY OwedFinite
<1>5. /\ <<g, 2>> \notin o /\ <<g, 3>> \notin o2 /\ <<g, 4>> \notin o3 /\ <<g, 5>> \notin o4
  BY <1>2
<1> HIDE DEF o
<1>6. IsFiniteSet(o2) /\ Cardinality(o2) = Cardinality(o) + 1
  BY <1>4, <1>5, FS_AddElement
<1> HIDE DEF o2
<1>7. IsFiniteSet(o3) /\ Cardinality(o3) = Cardinality(o2) + 1
  BY <1>5, <1>6, FS_AddElement DEF o3
<1> HIDE DEF o3
<1>8. IsFiniteSet(o4) /\ Cardinality(o4) = Cardinality(o3) + 1
  BY <1>5, <1>7, FS_AddElement DEF o4
<1> HIDE DEF o4
<1>9. IsFiniteSet(o5) /\ Cardinality(o5) = Cardinality(o4) + 1
  BY <1>5, <1>8, FS_AddElement DEF o5
<1> HIDE DEF o5
<1>10. QED
  BY <1>3, <1>4, <1>6, <1>7, <1>8, <1>9 DEF o

(* Every move of the producer or a worker leaves one less, at least, and   *)
(* the only other step, the end of the job's context, happens once and     *)
(* adds none: a run is over after 5 * Total + 2 moves and one per worker,  *)
(* whatever fails (RunWithProgress).                                       *)
MovesRunOut ==
    [][/\ Produce \/ (\E g \in Pool : Work(g)) => MovesLeft' < MovesLeft
       /\ JobCtxEnds => MovesLeft' = MovesLeft /\ jobCtx' # jobCtx]_vars
THEOREM RunsAreBounded == Spec => [](MovesLeft \in Nat) /\ MovesRunOut
<1>1. IInv => MovesLeft \in Nat
  BY OwedFinite, ScanRunAssumption DEF IInv, TypeOK, MovesLeft
<1>2. IInv /\ [Next]_vars =>
        [/\ Produce \/ (\E g \in Pool : Work(g)) => MovesLeft' < MovesLeft
         /\ JobCtxEnds => MovesLeft' = MovesLeft /\ jobCtx' # jobCtx]_vars
  <2> SUFFICES ASSUME IInv, TypeOK
               PROVE  /\ Produce \/ (\E g \in Pool : Work(g)) => MovesLeft' < MovesLeft
                      /\ JobCtxEnds => MovesLeft' = MovesLeft /\ jobCtx' # jobCtx
    BY DEF IInv
  <2>c. Cardinality(Owed) \in Nat /\ Total \in Nat /\ sent \in 0..Total
    BY OwedFinite, ScanRunAssumption DEF TypeOK
  <2>o. at' = at => Cardinality(Owed') = Cardinality(Owed)
    BY DEF Owed
  <2>1. ASSUME NEW g \in Pool, HandOver(g) PROVE MovesLeft' < MovesLeft
    <3>1. Cardinality(Owed') = Cardinality(Owed) + 4
      BY <2>1, TookProbe DEF HandOver
    <3>2. sent' = sent + 1 /\ closed' = closed /\ returned' = returned
      BY <2>1 DEF HandOver
    <3>3. QED
      BY <2>c, <3>1, <3>2 DEF MovesLeft
  <2>2. ASSUME StopSending \/ AllSent PROVE MovesLeft' < MovesLeft
    <3>1. ~closed /\ closed' /\ sent' = sent /\ returned' = returned /\ at' = at
      BY <2>2 DEF StopSending, AllSent, poolVars
    <3>2. (IF closed THEN 0 ELSE 1) = 1 /\ (IF closed THEN 0 ELSE 1)' = 0
      BY <3>1
    <3>3. (IF returned = "no" THEN 1 ELSE 0)' = (IF returned = "no" THEN 1 ELSE 0)
      BY <3>1
    <3>4. QED
      BY <2>c, <2>o, <3>1, <3>2, <3>3 DEF MovesLeft
  <2>r. ASSUME Return PROVE MovesLeft' < MovesLeft
    <3>1. /\ returned = "no" /\ returned' # "no"
          /\ sent' = sent /\ closed' = closed /\ at' = at
      BY <2>r DEF Return, poolVars, IInv, ProducerShape, TypeOK
    <3>2. (IF closed THEN 0 ELSE 1)' = (IF closed THEN 0 ELSE 1)
      BY <3>1
    <3>3. (IF returned = "no" THEN 1 ELSE 0) = 1 /\ (IF returned = "no" THEN 1 ELSE 0)' = 0
      BY <3>1
    <3>4. (IF closed THEN 0 ELSE 1) \in Nat
      OBVIOUS
    <3>5. QED
      BY <2>c, <2>o, <3>1, <3>2, <3>3, <3>4 DEF MovesLeft
  <2>3. ASSUME NEW g \in Pool, Work(g) PROVE MovesLeft' < MovesLeft
    <3>1. UNCHANGED producerVars
      BY <2>3 DEF Work, Leave, CheckCtx, Probe, Count, WriteProgress, ProgressFails
    <3>2. \E place \in DOMAIN Ahead : at' = [at EXCEPT ![g] = place] /\ Ahead[place] < Ahead[at[g]]
      BY <2>3 DEF Work, Leave, CheckCtx, Probe, Count, WriteProgress, ProgressFails, Ahead
    <3>3. Cardinality(Owed') \in Nat /\ Cardinality(Owed') < Cardinality(Owed)
      BY <3>2, MovedOn
    <3>4. QED
      BY <2>c, <3>1, <3>3 DEF producerVars, MovesLeft
  <2>4. JobCtxEnds => MovesLeft' = MovesLeft /\ jobCtx' # jobCtx
    BY <2>o DEF JobCtxEnds, producerVars, poolVars, MovesLeft
  <2>5. QED
    BY <2>1, <2>2, <2>r, <2>3, <2>4 DEF Produce
<1>3. QED
  BY <1>1, <1>2, Invariance, PTL DEF Spec, MovesRunOut
=============================================================================
