-------------------------- MODULE Authorization_proofs --------------------------
(***************************************************************************)
(* Proofs about Authorization for any processes, policies and submissions. *)
(***************************************************************************)
EXTENDS Authorization, TLAPS

AllEndpoints == UNION {Targets[j] : j \in Requests}
WorkerState ==
  [job : Requests \cup {NoJob}, todo : SUBSET AllEndpoints, flight : SUBSET AllEndpoints,
   ctx : {"new", "live", "done"}]

Stages == {"absent", "new", "refused", "unexpanded", "denied", "admitted",
           "enqueued", "accepted", "unaudited", "withdrawn", "abandoned",
           "waited", "failing", "failed"}
JobStates == {"none", "queued", "running"} \cup Terminal

(* The types the proofs need.                                              *)
TablesTyped ==
  /\ stage \in [Requests -> Stages]
  /\ answer \in [Requests -> Requests \cup {NoJob}]
  /\ printed \in [Requests -> Requests \cup {NoJob}]
  /\ job \in [Requests -> JobStates]
  /\ created \in [Requests -> Nat] /\ second \in Nat
  /\ attempts \in [Requests -> Nat]
WorkersTyped == worker \in [Processes -> WorkerState]
TypeInv == TablesTyped /\ WorkersTyped

(* A job has a row, and a time, once its submission is enqueued, which is  *)
(* then answered with it; only a job that has a row is run.                *)
NoRowYet == {"absent", "new", "refused", "unexpanded", "denied", "admitted"}
Filed(r) == job[r] # "none" => created[r] > 0 /\ answer[r] = r
RowInv ==
  /\ \A r \in Requests : stage[r] \in NoRowYet => job[r] = "none" /\ answer[r] = NoJob
  /\ \A r \in Requests : created[r] > 0 => job[r] # "none"
  /\ \A r \in Requests : Filed(r)
  /\ \A p \in Processes : worker[p].job # NoJob => job[worker[p].job] # "none"
  /\ \A p \in Processes : worker[p].ctx = "new" => worker[p].job # NoJob

(* Only the API withdraws, and what it withdraws is its own job, over or   *)
(* cancelled from then on.                                                 *)
WithdrawnInv ==
  /\ \A r \in Requests : stage[r] \in {"unaudited", "withdrawn"} => Request[r].via = "api"
  /\ \A r \in Requests :
       stage[r] \in {"enqueued", "unaudited", "waited"} /\ Request[r].via # "mcp" => answer[r] = r
  /\ \A r \in Requests : stage[r] = "withdrawn" => job[r] \in Terminal \/ r \in cancelled

(* What is in flight, and what was dialled, the process's own policy       *)
(* permits, and a row says so.                                             *)
Decided(p, e) ==
  /\ Permits(Policy[p], e.host, e.port)
  /\ [by |-> p, at |-> e, allowed |-> TRUE] \in decisions
DialInv ==
  /\ \A p \in Processes : \A e \in worker[p].flight : Decided(p, e)
  /\ \A d \in dials : Decided(d.by, d.at)

(* Only `scan' waits and prints: its own job or one not of an earlier      *)
(* second, or any when it has none of its own.                             *)
Own(r) == answer[r] = r \/ answer[r] = NoJob
PrintInv ==
  \A r \in Requests :
    /\ stage[r] \in {"waited", "failing", "failed"} => Request[r].via = "cli" /\ Own(r)
    /\ printed[r] # NoJob =>
         /\ stage[r] \in {"accepted", "failed"} /\ created[printed[r]] > 0
         /\ \/ answer[r] = r /\ created[r] <= created[printed[r]]
            \/ answer[r] = NoJob /\ stage[r] = "failed"

IInv == TypeInv /\ RowInv /\ WithdrawnInv /\ DialInv /\ PrintInv

-----------------------------------------------------------------------------
(* The initial state. *)
LEMMA InitIInv == Init => IInv
<1> SUFFICES ASSUME Init PROVE IInv
  OBVIOUS
<1>1. TypeInv
  BY DEF Init, TypeInv, TablesTyped, WorkersTyped, WorkerState, Idle, Stages, JobStates
<1>2. RowInv /\ WithdrawnInv /\ DialInv /\ PrintInv
  BY DEF Init, RowInv, Filed, NoRowYet, WithdrawnInv, DialInv, PrintInv, Idle
<1>3. QED
  BY <1>1, <1>2 DEF IInv

(* Every step keeps the types of the tables. *)
LEMMA NextTablesTyped == TypeInv /\ RowInv /\ [Next]_vars => TablesTyped'
<1> SUFFICES ASSUME TablesTyped, RowInv, [Next]_vars PROVE TablesTyped'
  BY DEF TypeInv
<1> USE DEF TablesTyped, Goto, jobVars, submitVars, Stages, JobStates, Terminal
<1>1. ASSUME NEW r \in Requests, 
             Preview(r) \/ TurnAway(r) \/ Preflight(r) \/ AuditCreate(r) \/ Wait(r)
      PROVE  TablesTyped'
  BY <1>1 DEF Preview, TurnAway, Preflight, AuditCreate, Wait
<1>2. ASSUME NEW r \in Requests, Enqueue(r) PROVE TablesTyped'
  <2>1. Earlier(r) \subseteq Requests
    BY DEF Earlier
  <2>2. answer' \in [Requests -> Requests \cup {NoJob}]
    <3>1. answer' = answer \/ \E j \in Requests : answer' = [answer EXCEPT ![r] = j]
      BY <1>2, <2>1 DEF Enqueue
    <3>2. QED
      BY <3>1
  <2>3. created' \in [Requests -> Nat] /\ second' \in Nat
    BY <1>2 DEF Enqueue
  <2>4. job' \in [Requests -> JobStates] /\ stage' \in [Requests -> Stages]
    BY <1>2 DEF Enqueue
  <2>5. QED
    BY <1>2, <2>2, <2>3, <2>4 DEF Enqueue
<1>3. ASSUME NEW r \in Requests, Withdraw(r) PROVE TablesTyped'
  <2>1. job' \in [Requests -> JobStates]
    <3>1. job' = job \/ job' = [job EXCEPT ![answer[r]] = IF @ = "queued" THEN "cancelled" ELSE @]
      BY <1>3 DEF Withdraw, CancelRow
    <3>2. QED
      BY <3>1
  <2>2. stage' \in [Requests -> Stages]
    BY <1>3 DEF Withdraw
  <2>3. QED
    BY <1>3, <2>1, <2>2 DEF Withdraw
<1>4. ASSUME NEW r \in Requests, PrintResult(r) PROVE TablesTyped'
  <2>1. Newest \subseteq Requests
    BY DEF Newest
  <2>2. printed' \in [Requests -> Requests \cup {NoJob}]
    BY <1>4, <2>1 DEF PrintResult
  <2>3. stage' \in [Requests -> Stages]
    BY <1>4 DEF PrintResult
  <2>4. QED
    BY <1>4, <2>2, <2>3 DEF PrintResult
<1>5. ASSUME NEW r \in Requests, Cancel(r) PROVE TablesTyped'
  BY <1>5 DEF Cancel, CancelRow
<1>6. ASSUME NEW p \in Processes, NEW j \in Requests, Claim(p, j) PROVE TablesTyped'
  BY <1>6 DEF Claim
<1>7. ASSUME NEW p \in Processes, NEW e, Start(p) \/ Decide(p, e) \/ Dial(p, e) \/ CtxEnds(p)
      PROVE  TablesTyped'
  BY <1>7 DEF Start, Decide, Dial, CtxEnds
<1>8. ASSUME NEW p \in Processes, AttemptEnds(p) PROVE TablesTyped'
  BY <1>8 DEF AttemptEnds
<1>9. CASE UNCHANGED vars
  BY <1>9 DEF vars
<1>10. QED
  BY <1>1, <1>2, <1>3, <1>4, <1>5, <1>6, <1>7, <1>8, <1>9 DEF Next, Submit, Execute

(* A worker goes on with other endpoints and another state of its context. *)
LEMMA WorkerChanged ==
  ASSUME NEW s \in WorkerState, NEW t \in SUBSET AllEndpoints, NEW f \in SUBSET AllEndpoints,
         NEW c \in {"live", "done"}
  PROVE  /\ [s EXCEPT !.todo = t, !.flight = f] \in WorkerState
         /\ [s EXCEPT !.flight = f, !.todo = t] \in WorkerState
         /\ [s EXCEPT !.ctx = c, !.todo = t] \in WorkerState
BY DEF WorkerState

(* Every step keeps the type of the workers. *)
LEMMA NextWorkersTyped == TypeInv /\ RowInv /\ [Next]_vars => WorkersTyped'
<1> SUFFICES ASSUME WorkersTyped, RowInv, [Next]_vars PROVE WorkersTyped'
  BY DEF TypeInv
<1>s. ASSUME NEW p \in Processes, NEW w \in WorkerState, worker' = [worker EXCEPT ![p] = w]
      PROVE  WorkersTyped'
  BY <1>s DEF WorkersTyped
<1>1. ASSUME NEW r \in Requests, Submit(r) \/ Preview(r) \/ Cancel(r) PROVE WorkersTyped'
  <2>1. UNCHANGED worker
    BY <1>1 DEF Submit, TurnAway, Preflight, Enqueue, AuditCreate, Withdraw, Wait, PrintResult,
                Preview, Cancel
  <2>2. QED
    BY <2>1 DEF WorkersTyped
<1>2. ASSUME NEW p \in Processes, NEW j \in Requests, Claim(p, j) PROVE WorkersTyped'
  <2>1. [Idle EXCEPT !.job = j, !.ctx = "new"] \in WorkerState
    BY DEF Idle, WorkerState
  <2>2. QED
    BY <1>2, <1>s, <2>1 DEF Claim
<1>3. ASSUME NEW p \in Processes, Start(p) PROVE WorkersTyped'
  <2>1. worker[p] \in WorkerState
    BY DEF WorkersTyped
  <2>2. worker[p].job \in Requests
    BY <1>3, <2>1 DEF Start, RowInv, WorkerState
  <2>3. Targets[worker[p].job] \in SUBSET AllEndpoints
    BY <2>2 DEF AllEndpoints
  <2>4. PICK v \in AtStart[p][worker[p].job] :
           worker' = [worker EXCEPT ![p].ctx = IF v.allowed THEN "live" ELSE "done",
                                    ![p].todo = IF v.allowed THEN Targets[worker[p].job] ELSE {}]
    BY <1>3 DEF Start
  <2> DEFINE c == IF v.allowed THEN "live" ELSE "done"
             t == IF v.allowed THEN Targets[worker[p].job] ELSE {}
  <2>5. c \in {"live", "done"} /\ t \in SUBSET AllEndpoints
    BY <2>3
  <2>6. worker' = [worker EXCEPT ![p] = [worker[p] EXCEPT !.ctx = c, !.todo = t]]
    BY <2>4 DEF WorkersTyped
  <2> HIDE DEF c, t
  <2>7. worker[p].flight \in SUBSET AllEndpoints
    BY <2>1 DEF WorkerState
  <2>8. [worker[p] EXCEPT !.ctx = c, !.todo = t] \in WorkerState
    BY <2>1, <2>5, <2>7, WorkerChanged
  <2>9. QED
    BY <1>s, <2>6, <2>8
<1>4. ASSUME NEW p \in Processes, NEW e, Decide(p, e) PROVE WorkersTyped'
  <2>1. worker[p] \in WorkerState
    BY DEF WorkersTyped
  <2>2. PICK v \in Finalized(p, e) :
           worker' = [worker EXCEPT ![p].todo = @ \ {e},
                                    ![p].flight = IF v.allowed THEN @ \cup {e} ELSE @]
    BY <1>4 DEF Decide
  <2> DEFINE t == worker[p].todo \ {e}
             f == IF v.allowed THEN worker[p].flight \cup {e} ELSE worker[p].flight
  <2>3. t \in SUBSET AllEndpoints /\ f \in SUBSET AllEndpoints
    BY <1>4, <2>1 DEF Decide, WorkerState
  <2>4. worker' = [worker EXCEPT ![p] = [worker[p] EXCEPT !.todo = t, !.flight = f]]
    BY <2>2 DEF WorkersTyped
  <2> HIDE DEF t, f
  <2>5. [worker[p] EXCEPT !.todo = t, !.flight = f] \in WorkerState
    BY <2>1, <2>3, WorkerChanged
  <2>6. QED
    BY <1>s, <2>4, <2>5
<1>5. ASSUME NEW p \in Processes, NEW e, Dial(p, e) PROVE WorkersTyped'
  <2>1. worker[p] \in WorkerState
    BY DEF WorkersTyped
  <2>2. PICK again \in {{}, {e}} :
           worker' = [worker EXCEPT ![p].flight = @ \ {e}, ![p].todo = @ \cup again]
    BY <1>5 DEF Dial
  <2> DEFINE t == worker[p].todo \cup again
             f == worker[p].flight \ {e}
  <2>3. t \in SUBSET AllEndpoints /\ f \in SUBSET AllEndpoints
    BY <1>5, <2>1 DEF Dial, WorkerState
  <2>4. worker' = [worker EXCEPT ![p] = [worker[p] EXCEPT !.flight = f, !.todo = t]]
    BY <2>2 DEF WorkersTyped
  <2> HIDE DEF t, f
  <2>5. [worker[p] EXCEPT !.flight = f, !.todo = t] \in WorkerState
    BY <2>1, <2>3, WorkerChanged
  <2>6. QED
    BY <1>s, <2>4, <2>5
<1>6. ASSUME NEW p \in Processes, CtxEnds(p) PROVE WorkersTyped'
  BY <1>6 DEF CtxEnds, WorkersTyped, WorkerState
<1>7. ASSUME NEW p \in Processes, AttemptEnds(p) PROVE WorkersTyped'
  BY <1>7 DEF AttemptEnds, WorkersTyped, WorkerState, Idle
<1>8. CASE UNCHANGED vars
  BY <1>8 DEF vars, WorkersTyped
<1>9. QED
  BY <1>1, <1>2, <1>3, <1>4, <1>5, <1>6, <1>7, <1>8 DEF Next, Execute

(* Every step keeps the types. *)
LEMMA NextTypeInv == TypeInv /\ RowInv /\ [Next]_vars => TypeInv'
BY NextTablesTyped, NextWorkersTyped DEF TypeInv

-----------------------------------------------------------------------------
(* Rows. *)

(* Every step keeps what is said of rows. *)
LEMMA NextRowInv == TypeInv /\ RowInv /\ [Next]_vars => RowInv'
<1> SUFFICES ASSUME TypeInv, RowInv, [Next]_vars PROVE RowInv'
  OBVIOUS
<1>t. TablesTyped /\ WorkersTyped
  BY DEF TypeInv
<1>k. ASSUME UNCHANGED <<stage, answer, job, created>>,
             \A p \in Processes : worker'[p].job = worker[p].job,
             \A p \in Processes : worker'[p].ctx = "new" => worker[p].ctx = "new"
      PROVE  RowInv'
  BY <1>k DEF RowInv, Filed
<1> USE DEF Goto, jobVars, submitVars
<1>1. ASSUME NEW r \in Requests, 
             TurnAway(r) \/ Preflight(r) \/ AuditCreate(r) \/ Wait(r) \/ PrintResult(r)
      PROVE  RowInv'
  <2>1. /\ UNCHANGED <<answer, job, created, worker>>
        /\ stage' = [stage EXCEPT ![r] = stage'[r]]
        /\ stage'[r] \in NoRowYet => stage[r] \in NoRowYet
    BY <1>1, <1>t DEF TurnAway, Preflight, AuditCreate, Wait, PrintResult, NoRowYet, TablesTyped
  <2>2. QED
    BY <2>1, <1>t DEF RowInv, Filed, TablesTyped
<1>2. ASSUME NEW r \in Requests, Preview(r) PROVE RowInv'
  BY <1>2, <1>k DEF Preview
<1>3. ASSUME NEW r \in Requests, Enqueue(r) PROVE RowInv'
  <2>1. /\ stage[r] = "admitted" /\ UNCHANGED worker
        /\ job[r] = "none" /\ answer[r] = NoJob /\ created[r] = 0
    BY <1>3, <1>t DEF Enqueue, RowInv, NoRowYet, TablesTyped
  <2>2. \/ stage' = [stage EXCEPT ![r] = "enqueued"]
        \/ stage' = [stage EXCEPT ![r] = "failing"]
        \/ stage' = [stage EXCEPT ![r] = "refused"] /\ UNCHANGED <<answer, job>>
    BY <1>3 DEF Enqueue
  <2>3. \/ UNCHANGED <<job, created>> /\ \E a : answer' = [answer EXCEPT ![r] = a]
        \/ UNCHANGED <<job, created>> /\ answer' = answer
        \/ /\ answer' = [answer EXCEPT ![r] = r] /\ job' = [job EXCEPT ![r] = "queued"]
           /\ created' = [created EXCEPT ![r] = second'] /\ second' \in {second, second + 1} \ {0}
    BY <1>3 DEF Enqueue
  <2>4. \A q \in Requests \ {r} : /\ stage'[q] = stage[q] /\ answer'[q] = answer[q]
                                  /\ job'[q] = job[q] /\ created'[q] = created[q]
    BY <2>2, <2>3, <1>t DEF TablesTyped
  <2>5. stage'[r] \in NoRowYet => job'[r] = "none" /\ answer'[r] = NoJob
    BY <2>1, <2>2, <1>t DEF TablesTyped, NoRowYet
  <2>6. \/ job'[r] = "none" /\ created'[r] = 0
        \/ job'[r] # "none" /\ created'[r] > 0 /\ answer'[r] = r
    <3>1. CASE UNCHANGED <<job, created>>
      BY <2>1, <3>1
    <3>2. CASE ~UNCHANGED <<job, created>>
      BY <2>3, <3>2, <1>t DEF TablesTyped
    <3>3. QED
      BY <3>1, <3>2
  <2>7. \A p \in Processes : worker[p].job # NoJob => job'[worker[p].job] # "none"
    BY <2>1, <2>4, <1>t DEF RowInv, WorkersTyped, WorkerState
  <2>8. \A q \in Requests : stage'[q] \in NoRowYet => job'[q] = "none" /\ answer'[q] = NoJob
    BY <2>4, <2>5 DEF RowInv
  <2>9. \A q \in Requests : /\ created'[q] > 0 => job'[q] # "none"
                            /\ job'[q] # "none" => created'[q] > 0 /\ answer'[q] = q
    BY <2>4, <2>6 DEF RowInv, Filed
  <2>10. \A p \in Processes : worker'[p].ctx = "new" => worker'[p].job # NoJob
    BY <2>1 DEF RowInv
  <2>11. worker' = worker
    BY <2>1
  <2>12. \A p \in Processes : worker'[p].job # NoJob => job'[worker'[p].job] # "none"
    BY <2>7, <2>11
  <2>13. \A q \in Requests : Filed(q)'
    BY <2>9 DEF Filed
  <2>14. \A q \in Requests : created'[q] > 0 => job'[q] # "none"
    BY <2>9
  <2>15. QED
    BY <2>8, <2>10, <2>12, <2>13, <2>14 DEF RowInv
<1>4. ASSUME NEW r \in Requests, Withdraw(r) PROVE RowInv'
  <2>1. /\ UNCHANGED <<answer, created, worker>> /\ stage[r] = "unaudited"
        /\ stage' = [stage EXCEPT ![r] = stage'[r]] /\ stage'[r] \notin NoRowYet
    BY <1>4, <1>t DEF Withdraw, NoRowYet, TablesTyped
  <2>2. job' = job \/ job' = [job EXCEPT ![answer[r]] = IF @ = "queued" THEN "cancelled" ELSE @]
    BY <1>4 DEF Withdraw, CancelRow
  <2>3. \A q \in Requests : job'[q] = "none" <=> job[q] = "none"
    BY <2>2, <1>t DEF TablesTyped
  <2>4. QED
    BY <2>1, <2>3, <1>t DEF RowInv, Filed, TablesTyped, WorkersTyped, WorkerState
<1>6. ASSUME NEW r \in Requests, Cancel(r) PROVE RowInv'
  <2>1. /\ UNCHANGED <<answer, created, worker, stage>>
        /\ job' = [job EXCEPT ![r] = IF @ = "queued" THEN "cancelled" ELSE @]
    BY <1>6 DEF Cancel, CancelRow
  <2>2. \A q \in Requests : job'[q] = "none" <=> job[q] = "none"
    BY <2>1, <1>t DEF TablesTyped
  <2>3. QED
    BY <2>1, <2>2, <1>t DEF RowInv, Filed, WorkersTyped, WorkerState
<1>7. ASSUME NEW p \in Processes, NEW j \in Requests, Claim(p, j) PROVE RowInv'
  <2>1. /\ UNCHANGED <<answer, created, stage>> /\ job[j] # "none"
        /\ job' = [job EXCEPT ![j] = "running"]
        /\ worker' = [worker EXCEPT ![p] = [Idle EXCEPT !.job = j, !.ctx = "new"]]
    BY <1>7 DEF Claim
  <2>2. \A q \in Requests : job'[q] = "none" <=> job[q] = "none"
    BY <2>1, <1>t DEF TablesTyped
  <2>3. worker'[p].job = j /\ \A o \in Processes \ {p} : worker'[o] = worker[o]
    BY <2>1, <1>t DEF WorkersTyped, Idle
  <2>4. j # NoJob
    BY AuthorizationAssumption
  <2>5. QED
    BY <2>1, <2>2, <2>3, <2>4, <1>t DEF RowInv, Filed, WorkersTyped, WorkerState
<1>8. ASSUME NEW p \in Processes, NEW e, Start(p) \/ Decide(p, e) \/ Dial(p, e) \/ CtxEnds(p)
      PROVE  RowInv'
  <2>1. UNCHANGED <<stage, answer, job, created>>
    BY <1>8 DEF Start, Decide, Dial, CtxEnds
  <2> DEFINE Step(t, f, c) ==
        worker' = [worker EXCEPT ![p] = [worker[p] EXCEPT !.todo = t, !.flight = f, !.ctx = c]]
  <2>w. worker[p] = [job |-> worker[p].job, todo |-> worker[p].todo,
                     flight |-> worker[p].flight, ctx |-> worker[p].ctx]
    BY <1>t DEF WorkersTyped, WorkerState
  <2>2. \E t, f : \E c \in {worker[p].ctx, "live", "done"} : Step(t, f, c)
    <3>1. CASE Start(p)
      <4>1. PICK v \in AtStart[p][worker[p].job] :
               worker' = [worker EXCEPT ![p].ctx = IF v.allowed THEN "live" ELSE "done",
                                        ![p].todo = IF v.allowed THEN Targets[worker[p].job] ELSE {}]
        BY <3>1 DEF Start
      <4>2. CASE v.allowed
        <5>1. Step(Targets[worker[p].job], worker[p].flight, "live")
          BY <4>1, <4>2, <2>w, <1>t DEF WorkersTyped
        <5>2. QED
          BY <5>1
      <4>3. CASE ~v.allowed
        <5>1. Step({}, worker[p].flight, "done")
          BY <4>1, <4>3, <2>w, <1>t DEF WorkersTyped
        <5>2. QED
          BY <5>1
      <4>4. QED
        BY <4>2, <4>3
    <3>2. CASE Decide(p, e)
      <4>1. PICK v \in Finalized(p, e) :
               worker' = [worker EXCEPT ![p].todo = @ \ {e},
                                        ![p].flight = IF v.allowed THEN @ \cup {e} ELSE @]
        BY <3>2 DEF Decide
      <4>2. Step(worker[p].todo \ {e},
                 IF v.allowed THEN worker[p].flight \cup {e} ELSE worker[p].flight, worker[p].ctx)
        BY <4>1, <2>w, <1>t DEF WorkersTyped
      <4>3. QED
        BY <4>2
    <3>3. CASE Dial(p, e)
      <4>1. PICK again \in {{}, {e}} :
               worker' = [worker EXCEPT ![p].flight = @ \ {e}, ![p].todo = @ \cup again]
        BY <3>3 DEF Dial
      <4>2. Step(worker[p].todo \cup again, worker[p].flight \ {e}, worker[p].ctx)
        BY <4>1, <2>w, <1>t DEF WorkersTyped
      <4>3. QED
        BY <4>2
    <3>4. CASE CtxEnds(p)
      <4>1. Step(worker[p].todo, worker[p].flight, "done")
        BY <3>4, <2>w, <1>t DEF WorkersTyped, CtxEnds
      <4>2. QED
        BY <4>1
    <3>5. QED
      BY <1>8, <3>1, <3>2, <3>3, <3>4
  <2>3. \A o \in Processes : /\ worker'[o].job = worker[o].job
                             /\ worker'[o].ctx = "new" => worker[o].ctx = "new"
    <3>1. PICK t, f : \E c \in {worker[p].ctx, "live", "done"} : Step(t, f, c)
      BY <2>2
    <3>2. PICK c \in {worker[p].ctx, "live", "done"} : Step(t, f, c)
      BY <3>1
    <3>3. QED
      BY <3>2, <1>t DEF WorkersTyped, WorkerState
  <2>4. QED
    BY <1>k, <2>1, <2>3
<1>9. ASSUME NEW p \in Processes, AttemptEnds(p) PROVE RowInv'
  <2>1. /\ UNCHANGED <<answer, created, stage>> /\ worker' = [worker EXCEPT ![p] = Idle]
        /\ worker[p].job # NoJob
        /\ job' = job \/ \E outcome \in Terminal : job' = [job EXCEPT ![worker[p].job] = outcome]
    BY <1>9 DEF AttemptEnds, Terminal
  <2>2. \A q \in Requests : job'[q] = "none" <=> job[q] = "none"
    BY <2>1, <1>t DEF TablesTyped, RowInv, Terminal
  <2>3. /\ worker'[p].job = NoJob /\ worker'[p].ctx # "new"
        /\ \A o \in Processes \ {p} : worker'[o] = worker[o]
    BY <2>1, <1>t DEF WorkersTyped, Idle
  <2>4. QED
    BY <2>1, <2>2, <2>3, <1>t DEF RowInv, Filed, WorkersTyped, WorkerState
<1>10. CASE UNCHANGED vars
  BY <1>10, <1>k DEF vars
<1>11. QED
  BY <1>1, <1>2, <1>3, <1>4, <1>6, <1>7, <1>8, <1>9, <1>10 DEF Next, Submit, Execute

-----------------------------------------------------------------------------
(* Submissions that are withdrawn. *)

(* Every step keeps what is said of submissions withdrawn. *)
LEMMA NextWithdrawnInv == TypeInv /\ RowInv /\ WithdrawnInv /\ [Next]_vars => WithdrawnInv'
<1> SUFFICES ASSUME TypeInv, RowInv, WithdrawnInv, [Next]_vars PROVE WithdrawnInv'
  OBVIOUS
<1>t. TablesTyped /\ WorkersTyped
  BY DEF TypeInv
<1>k. ASSUME UNCHANGED <<stage, answer, job, cancelled>> PROVE WithdrawnInv'
  BY <1>k DEF WithdrawnInv
<1>j. ASSUME UNCHANGED <<stage, answer>>, cancelled \subseteq cancelled',
             \A q \in Requests :
               job[q] \in Terminal => job'[q] \in Terminal \/ q \in cancelled'
      PROVE  WithdrawnInv'
  BY <1>j DEF WithdrawnInv
<1> USE DEF Goto, jobVars, submitVars
<1>1. ASSUME NEW r \in Requests, TurnAway(r) \/ Preflight(r) PROVE WithdrawnInv'
  <2>1. /\ UNCHANGED <<job, cancelled, answer>>
        /\ \E s \in NoRowYet : stage' = [stage EXCEPT ![r] = s]
    BY <1>1 DEF TurnAway, Preflight, NoRowYet
  <2>2. QED
    BY <2>1, <1>t DEF WithdrawnInv, TablesTyped, NoRowYet
<1>2. ASSUME NEW r \in Requests, AuditCreate(r) PROVE WithdrawnInv'
  <2>1. /\ UNCHANGED <<job, cancelled, answer>> /\ stage[r] = "enqueued"
        /\ \/ stage' = [stage EXCEPT ![r] = "accepted"]
           \/ Request[r].via = "api" /\ stage' = [stage EXCEPT ![r] = "unaudited"]
    BY <1>2 DEF AuditCreate
  <2>2. QED
    BY <2>1, <1>t DEF WithdrawnInv, TablesTyped
<1>3. ASSUME NEW r \in Requests, Preview(r) PROVE WithdrawnInv'
  BY <1>3, <1>k DEF Preview
<1>4. ASSUME NEW r \in Requests, Enqueue(r) PROVE WithdrawnInv'
  <2>1. stage[r] = "admitted" /\ job[r] = "none" /\ UNCHANGED cancelled
    BY <1>4 DEF Enqueue, RowInv, NoRowYet
  <2>2. \A q \in Requests : job[q] \in Terminal => job'[q] = job[q]
    <3>1. job' = job \/ job' = [job EXCEPT ![r] = "queued"]
      BY <1>4 DEF Enqueue
    <3>2. QED
      BY <2>1, <3>1, <1>t DEF TablesTyped, Terminal
  <2>3. \/ stage' = [stage EXCEPT ![r] = "refused"] /\ answer' = answer
        \/ stage' = [stage EXCEPT ![r] = "failing"] /\ answer' = answer
        \/ stage' = [stage EXCEPT ![r] = "enqueued"] /\ answer' = [answer EXCEPT ![r] = r]
        \/ /\ stage' = [stage EXCEPT ![r] = "enqueued"]
           /\ \E j \in Earlier(r) : answer' = [answer EXCEPT ![r] = j]
    BY <1>4 DEF Enqueue
  <2>4. Request[r].via # "mcp" => Earlier(r) = {}
    BY AuthorizationAssumption DEF Earlier
  <2>5. \A q \in Requests \ {r} : stage'[q] = stage[q] /\ answer'[q] = answer[q]
    BY <2>3, <1>t DEF TablesTyped
  <2>6. /\ stage'[r] \in {"refused", "failing", "enqueued"}
        /\ stage'[r] = "enqueued" /\ Request[r].via # "mcp" => answer'[r] = r
    BY <2>3, <2>4, <1>t DEF TablesTyped
  <2>7. QED
    BY <2>1, <2>2, <2>5, <2>6 DEF WithdrawnInv
<1>5. ASSUME NEW r \in Requests, Withdraw(r) PROVE WithdrawnInv'
  <2>1. stage[r] = "unaudited" /\ answer[r] = r /\ Request[r].via = "api" /\ answer' = answer
    BY <1>5 DEF Withdraw, WithdrawnInv
  <2>2. CASE UNCHANGED <<job, cancelled>> /\ stage' = [stage EXCEPT ![r] = "abandoned"]
    BY <2>1, <2>2, <1>t DEF WithdrawnInv, TablesTyped
  <2>3. CASE CancelRow(r) /\ stage' = [stage EXCEPT ![r] = "withdrawn"]
    <3>1. /\ cancelled \subseteq cancelled'
          /\ \A q \in Requests : job[q] \in Terminal => job'[q] = job[q]
          /\ job'[r] \in Terminal \/ r \in cancelled'
      BY <2>3, <1>t DEF CancelRow, TablesTyped, Terminal
    <3>2. QED
      BY <2>1, <2>3, <3>1, <1>t DEF WithdrawnInv, TablesTyped
  <2>4. QED
    BY <1>5, <2>1, <2>2, <2>3 DEF Withdraw
<1>6. ASSUME NEW r \in Requests, Wait(r) \/ PrintResult(r) PROVE WithdrawnInv'
  BY <1>6, <1>t DEF Wait, PrintResult, WithdrawnInv, TablesTyped
<1>7. ASSUME NEW r \in Requests, Cancel(r) PROVE WithdrawnInv'
  <2>1. /\ cancelled \subseteq cancelled' /\ UNCHANGED <<stage, answer>>
        /\ \A q \in Requests : job[q] \in Terminal => job'[q] = job[q]
    BY <1>7, <1>t DEF Cancel, CancelRow, TablesTyped, Terminal
  <2>2. QED
    BY <1>j, <2>1
<1>8. ASSUME NEW p \in Processes, NEW j \in Requests, Claim(p, j) PROVE WithdrawnInv'
  <2>1. /\ cancelled' = cancelled /\ UNCHANGED <<stage, answer>>
        /\ \A q \in Requests : job[q] \in Terminal => job'[q] = job[q]
    BY <1>8, <1>t DEF Claim, TablesTyped, Terminal
  <2>2. QED
    BY <1>j, <2>1
<1>9. ASSUME NEW p \in Processes, NEW e, Start(p) \/ Decide(p, e) \/ Dial(p, e) \/ CtxEnds(p)
      PROVE  WithdrawnInv'
  BY <1>9, <1>k DEF Start, Decide, Dial, CtxEnds
<1>10. ASSUME NEW p \in Processes, AttemptEnds(p) PROVE WithdrawnInv'
  <2>1. /\ UNCHANGED <<stage, answer, cancelled>>
        /\ job' = job \/ \E outcome \in Terminal : job' = [job EXCEPT ![worker[p].job] = outcome]
    BY <1>10 DEF AttemptEnds, Terminal
  <2>2. \A q \in Requests : job[q] \in Terminal => job'[q] \in Terminal
    BY <2>1, <1>t DEF TablesTyped
  <2>3. QED
    BY <1>j, <2>1, <2>2
<1>11. CASE UNCHANGED vars
  BY <1>11, <1>k DEF vars
<1>12. QED
  BY <1>1, <1>2, <1>3, <1>4, <1>5, <1>6, <1>7, <1>8, <1>9, <1>10, <1>11 DEF Next, Submit, Execute

-----------------------------------------------------------------------------
(* Dials. *)

(* Every step keeps that what is in flight or dialled was decided. *)
LEMMA NextDialInv == TypeInv /\ DialInv /\ [Next]_vars => DialInv'
<1> SUFFICES ASSUME TypeInv, DialInv, [Next]_vars PROVE DialInv'
  OBVIOUS
<1>t. WorkersTyped
  BY DEF TypeInv
<1>s. ASSUME decisions \subseteq decisions',
             \A p \in Processes : \A e \in worker'[p].flight :
               e \in worker[p].flight \/ Decided(p, e)',
             \A d \in dials' : d \in dials \/ Decided(d.by, d.at)
      PROVE  DialInv'
  BY <1>s DEF DialInv, Decided
<1>u. ASSUME UNCHANGED <<worker, decisions, dials>> PROVE DialInv'
  BY <1>u DEF DialInv, Decided
<1> USE DEF jobVars, submitVars
<1>1. ASSUME NEW r \in Requests, Submit(r) \/ Preview(r) \/ Cancel(r) PROVE DialInv'
  BY <1>1, <1>u DEF Submit, TurnAway, Preflight, Enqueue, AuditCreate, Withdraw, Wait, PrintResult,
                    Preview, Cancel
<1>2. ASSUME NEW p \in Processes, NEW j \in Requests, Claim(p, j) PROVE DialInv'
  <2>1. UNCHANGED <<decisions, dials>>
    BY <1>2 DEF Claim
  <2>2. worker'[p].flight = {} /\ \A o \in Processes \ {p} : worker'[o] = worker[o]
    BY <1>2, <1>t DEF Claim, Idle, WorkersTyped
  <2>3. QED
    BY <1>s, <2>1, <2>2
<1>3. ASSUME NEW p \in Processes, Start(p) \/ CtxEnds(p) \/ AttemptEnds(p) PROVE DialInv'
  <2>1. UNCHANGED <<decisions, dials>>
    BY <1>3 DEF Start, CtxEnds, AttemptEnds
  <2>2. \A o \in Processes : worker'[o].flight \subseteq worker[o].flight
    <3>1. CASE Start(p)
      <4>1. PICK v \in AtStart[p][worker[p].job] :
               worker' = [worker EXCEPT ![p].ctx = IF v.allowed THEN "live" ELSE "done",
                                        ![p].todo = IF v.allowed THEN Targets[worker[p].job] ELSE {}]
        BY <3>1 DEF Start
      <4>2. QED
        BY <4>1, <1>t DEF WorkersTyped, WorkerState
    <3>2. CASE CtxEnds(p)
      BY <3>2, <1>t DEF CtxEnds, WorkersTyped, WorkerState
    <3>3. CASE AttemptEnds(p)
      <4>1. worker' = [worker EXCEPT ![p] = Idle] /\ Idle.flight = {}
        BY <3>3 DEF AttemptEnds, Idle
      <4> HIDE DEF Idle
      <4>2. QED
        BY <4>1, <1>t DEF WorkersTyped
    <3>4. QED
      BY <1>3, <3>1, <3>2, <3>3
  <2>3. QED
    BY <1>s, <2>1, <2>2
<1>4. ASSUME NEW p \in Processes, NEW e, Decide(p, e) PROVE DialInv'
  <2>1. PICK v \in Finalized(p, e) :
           /\ decisions' = decisions \cup v.rows
           /\ worker' = [worker EXCEPT ![p].todo = @ \ {e},
                                       ![p].flight = IF v.allowed THEN @ \cup {e} ELSE @]
    BY <1>4 DEF Decide
  <2>2. UNCHANGED dials
    BY <1>4 DEF Decide
  <2>3. /\ worker'[p].flight \subseteq worker[p].flight \cup {e}
        /\ ~v.allowed => worker'[p].flight = worker[p].flight
        /\ \A o \in Processes \ {p} : worker'[o] = worker[o]
    BY <2>1, <1>t DEF WorkersTyped, WorkerState
  <2>4. v.allowed => Decided(p, e)'
    <3>1. SUFFICES ASSUME v.allowed PROVE Decided(p, e)'
      OBVIOUS
    <3>2. v.allowed = Row(p, e).allowed /\ v.rows = {Row(p, e)}
      <4>1. \/ v = [rows |-> {Row(p, e)}, allowed |-> Row(p, e).allowed, lost |-> 0]
            \/ v = [rows |-> {}, allowed |-> FALSE, lost |-> 1]
        BY <2>1 DEF Finalized
      <4>2. v # [rows |-> {}, allowed |-> FALSE, lost |-> 1]
        BY <3>1
      <4> DEFINE row == Row(p, e)
                 a == row.allowed
      <4>3. v = [rows |-> {row}, allowed |-> a, lost |-> 0]
        BY <4>1, <4>2
      <4> HIDE DEF row, a
      <4>4. v.allowed = a /\ v.rows = {row}
        BY <4>3
      <4>5. QED
        BY <4>4 DEF row, a
    <3>3. Permits(Policy[p], e.host, e.port)
      BY <3>1, <3>2 DEF Row
    <3>4. Row(p, e) = [by |-> p, at |-> e, allowed |-> TRUE]
      BY <3>1, <3>2 DEF Row
    <3>5. QED
      BY <2>1, <3>2, <3>3, <3>4 DEF Decided
  <2>5. QED
    BY <1>s, <2>1, <2>2, <2>3, <2>4
<1>5. ASSUME NEW p \in Processes, NEW e, Dial(p, e) PROVE DialInv'
  <2>1. PICK again \in {{}, {e}} :
           worker' = [worker EXCEPT ![p].flight = @ \ {e}, ![p].todo = @ \cup again]
    BY <1>5 DEF Dial
  <2>2. \A o \in Processes : worker'[o].flight \subseteq worker[o].flight
    BY <2>1, <1>t DEF WorkersTyped, WorkerState
  <2>3. Decided(p, e) /\ UNCHANGED decisions
    BY <1>5 DEF Dial, DialInv
  <2>4. \A d \in dials' : d \in dials \/ (d.by = p /\ d.at = e)
    BY <1>5 DEF Dial
  <2>5. QED
    BY <1>s, <2>2, <2>3, <2>4
<1>6. CASE UNCHANGED vars
  BY <1>6, <1>u DEF vars
<1>7. QED
  BY <1>1, <1>2, <1>3, <1>4, <1>5, <1>6 DEF Next, Execute

-----------------------------------------------------------------------------
(* What `scan' prints. *)

(* Every step keeps what is said of jobs printed. *)
LEMMA NextPrints == TypeInv /\ RowInv /\ WithdrawnInv /\ PrintInv /\ [Next]_vars => PrintInv'
<1> SUFFICES ASSUME TablesTyped, RowInv, WithdrawnInv, PrintInv, [Next]_vars PROVE PrintInv'
  BY DEF TypeInv
<1>u. ASSUME UNCHANGED <<stage, answer, printed, created>> PROVE PrintInv'
  BY <1>u DEF PrintInv, Own
<1> USE DEF jobVars, submitVars, Goto
<1>1. ASSUME NEW r \in Requests, Enqueue(r) PROVE PrintInv'
  <2>1. /\ printed' = printed /\ stage[r] = "admitted"
        /\ answer[r] = NoJob /\ created[r] = 0 /\ printed[r] = NoJob
    <3>1. stage[r] = "admitted" /\ printed' = printed
      BY <1>1 DEF Enqueue
    <3>2. QED
      BY <3>1 DEF RowInv, NoRowYet, PrintInv, TablesTyped
  <2>2. \A q \in Requests : printed[q] # NoJob => q # r /\ printed[q] # r
    BY <2>1 DEF PrintInv, TablesTyped
  <2>3. \A q \in Requests \ {r} :
          stage'[q] = stage[q] /\ answer'[q] = answer[q] /\ created'[q] = created[q]
    BY <1>1 DEF Enqueue, TablesTyped
  <2>4. /\ stage'[r] \in {"enqueued", "refused", "failing"}
        /\ stage'[r] = "failing" => Request[r].via = "cli" /\ answer'[r] = answer[r]
    BY <1>1 DEF Enqueue, TablesTyped
  <2>5. \A q \in Requests : stage'[q] \in {"waited", "failing", "failed"} =>
                             Request[q].via = "cli" /\ Own(q)'
    BY <2>1, <2>3, <2>4 DEF PrintInv, Own
  <2>6. \A q \in Requests : printed[q] # NoJob =>
          /\ stage'[q] \in {"accepted", "failed"} /\ created'[printed[q]] > 0
          /\ \/ answer'[q] = q /\ created'[q] <= created'[printed[q]]
             \/ answer'[q] = NoJob /\ stage'[q] = "failed"
    BY <2>2, <2>3 DEF PrintInv, TablesTyped
  <2>7. QED
    BY <2>1, <2>5, <2>6 DEF PrintInv
<1>2. ASSUME NEW r \in Requests, PrintResult(r) PROVE PrintInv'
  <2>1. /\ UNCHANGED <<created, answer>> /\ stage[r] \in {"waited", "failing"}
        /\ stage' = [stage EXCEPT ![r] = IF stage[r] = "waited" THEN "accepted" ELSE "failed"]
        /\ printed' = printed \/ \E j \in Newest : printed' = [printed EXCEPT ![r] = j]
    BY <1>2 DEF PrintResult
  <2>2. Request[r].via = "cli" /\ Own(r) /\ printed[r] = NoJob
    BY <2>1 DEF PrintInv, TablesTyped
  <2>3. /\ stage'[r] = IF stage[r] = "waited" THEN "accepted" ELSE "failed"
        /\ \A q \in Requests \ {r} : stage'[q] = stage[q] /\ printed'[q] = printed[q]
        /\ printed'[r] = NoJob \/ printed'[r] \in Newest
    BY <2>1, <2>2 DEF TablesTyped
  <2>4. printed'[r] # NoJob => created[printed'[r]] > 0 /\ created[r] <= created[printed'[r]]
    BY <2>3 DEF Newest
  <2>5. stage[r] = "waited" => answer[r] = r
    BY <2>2 DEF WithdrawnInv
  <2>6. QED
    BY <2>1, <2>2, <2>3, <2>4, <2>5 DEF PrintInv, Own
<1>3. ASSUME NEW r \in Requests, Wait(r) PROVE PrintInv'
  <2>1. /\ UNCHANGED <<created, answer, printed>>
        /\ stage[r] = "enqueued" /\ Request[r].via = "cli"
        /\ \E s \in {"waited", "failing"} : stage' = [stage EXCEPT ![r] = s]
    BY <1>3 DEF Wait
  <2>2. answer[r] = r /\ printed[r] = NoJob
    BY <2>1 DEF WithdrawnInv, PrintInv
  <2>3. QED
    BY <2>1, <2>2 DEF PrintInv, Own, TablesTyped
<1>4. ASSUME NEW r \in Requests, TurnAway(r) \/ Preflight(r) \/ AuditCreate(r) \/ Withdraw(r)
      PROVE  PrintInv'
  <2>1. /\ UNCHANGED <<created, answer, printed>>
        /\ stage[r] \in {"new", "enqueued", "unaudited"}
        /\ \E s \in {"refused", "unexpanded", "admitted", "denied", "accepted", "unaudited",
                      "withdrawn", "abandoned"} : stage' = [stage EXCEPT ![r] = s]
    BY <1>4 DEF TurnAway, Preflight, AuditCreate, Withdraw
  <2>2. printed[r] = NoJob
    BY <2>1 DEF PrintInv
  <2>3. QED
    BY <2>1, <2>2 DEF PrintInv, Own, TablesTyped
<1>5. ASSUME NEW r \in Requests, Preview(r) \/ Cancel(r) PROVE PrintInv'
  BY <1>5, <1>u DEF Preview, Cancel
<1>6. ASSUME NEW p \in Processes, NEW j, NEW e,
             Claim(p, j) \/ Start(p) \/ Decide(p, e) \/ Dial(p, e) \/ CtxEnds(p) \/ AttemptEnds(p)
      PROVE  PrintInv'
  BY <1>6, <1>u DEF Claim, Start, Decide, Dial, CtxEnds, AttemptEnds
<1>7. CASE UNCHANGED vars
  BY <1>7, <1>u DEF vars
<1>8. QED
  BY <1>1, <1>2, <1>3, <1>4, <1>5, <1>6, <1>7 DEF Next, Submit, Execute

-----------------------------------------------------------------------------
(* The theorems. *)

(* The inductive invariant holds in every reachable state. *)
THEOREM Invariance == Spec => []IInv
<1>1. IInv /\ [Next]_vars => IInv'
  BY NextTypeInv, NextRowInv, NextWithdrawnInv, NextDialInv, NextPrints DEF IInv
<1>2. QED
  BY InitIInv, <1>1, PTL DEF Spec

(* Whatever a process dials, its own policy permits, and an allowing       *)
(* decision of its own was recorded (AuthorizedDialer.Dial, Decide).       *)
THEOREM DialsAreDecided == Spec => [](\A d \in dials : Decided(d.by, d.at))
<1>1. IInv => \A d \in dials : Decided(d.by, d.at)
  BY DEF IInv, DialInv
<1>2. QED
  BY Invariance, <1>1, PTL

(* `scan' prints its own job or one not of an earlier second, or it has    *)
(* none and ends with an error (scan in main.go, ListJobs).                *)
THEOREM PrintsOwnOrLaterJob == Spec => []PrintsOwnOrLater
<1>1. IInv => PrintsOwnOrLater
  BY DEF IInv, PrintInv, PrintsOwnOrLater
<1>2. QED
  BY Invariance, <1>1, PTL

(* No attempt starts for a job whose submission was refused, or withdrawn  *)
(* (api.scan, ClaimJob). *)
THEOREM RefusedJobsNeverStart == Spec => RefusedNeverStarts
<1> DEFINE A == \A j \in Requests : attempts'[j] > attempts[j] =>
                  answer[j] = j /\ stage[j] \notin {"new", "refused", "denied", "withdrawn"}
<1>1. IInv /\ [Next]_vars => [A]_vars
  <2> SUFFICES ASSUME IInv, Next PROVE A
    OBVIOUS
  <2>t. TablesTyped
    BY DEF IInv, TypeInv
  <2> USE DEF jobVars, submitVars
  <2>1. ASSUME UNCHANGED attempts PROVE A
    <3>1. \A j \in Requests : ~(attempts[j] > attempts[j])
      BY <2>t DEF TablesTyped
    <3>2. QED
      BY <2>1, <3>1
  <2> HIDE DEF A
  <2>2. ASSUME NEW r \in Requests, Submit(r) \/ Preview(r) \/ Cancel(r) PROVE A
    BY <2>2, <2>1 DEF Submit, TurnAway, Preflight, Enqueue, AuditCreate, Withdraw, Wait, PrintResult,
                      Preview, Cancel
  <2>3. ASSUME NEW p \in Processes, NEW e,
               Start(p) \/ Decide(p, e) \/ Dial(p, e) \/ CtxEnds(p) \/ AttemptEnds(p)
        PROVE  A
    BY <2>3, <2>1 DEF Start, Decide, Dial, CtxEnds, AttemptEnds
  <2>4. ASSUME NEW p \in Processes, NEW j \in Requests, Claim(p, j) PROVE A
    <3>1. /\ attempts' = [attempts EXCEPT ![j] = @ + 1]
          /\ job[j] \in {"queued", "running"} /\ j \notin cancelled
      BY <2>4 DEF Claim
    <3>2. answer[j] = j /\ stage[j] \notin {"new", "refused", "denied", "withdrawn"}
      BY <3>1 DEF IInv, RowInv, Filed, WithdrawnInv, NoRowYet, Terminal
    <3>3. \A q \in Requests \ {j} : ~(attempts'[q] > attempts[q])
      BY <3>1, <2>t DEF TablesTyped
    <3>4. QED
      BY <3>2, <3>3 DEF A
  <2>5. QED
    BY <2>2, <2>3, <2>4 DEF Next, Execute
<1>2. QED
  BY Invariance, <1>1, PTL DEF Spec, RefusedNeverStarts
=============================================================================
