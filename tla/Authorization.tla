---------------------------- MODULE Authorization ----------------------------
(***************************************************************************)
(* What may be dialled: submissions of scans through the HTTP API, the MCP *)
(* server and the command line, the scope decisions they and the workers   *)
(* record, and the dials. Each process has loaded a policy of its own, and *)
(* the job one of them admitted may be run by any other, so every process  *)
(* decides again. The job table is reduced to what this needs (JobManager  *)
(* has it whole), the pool of a scan to the probes begun and not (ScanRun).*)
(* A process that ends takes no further step.                              *)
(***************************************************************************)
EXTENDS ScopeEngine, FiniteSets

CONSTANTS Processes, Policy,  \* Policy: the configuration each has loaded
          Requests, Request,  \* Request: how a submission comes, and for what
          Workloads,          \* bounds: what may arrive, how often a job may be
                              \* claimed and how many store calls may fail
          NoJob

ASSUME AuthorizationAssumption ==
  /\ \A w \in Workloads : w.arrive \subseteq Requests /\ w.maxAttempts \in Nat /\ w.maxFaults \in Nat
  /\ NoJob \notin Requests
  /\ \A p \in Processes : /\ Policy[p].maxHosts \in Int /\ Policy[p].maxPorts \in Int
                           /\ \A c \in Policy[p].allowed \cup Policy[p].denied : IsCIDR(c)
  /\ \A r \in Requests :
       /\ Request[r].process \in Processes
       /\ Request[r].targets \in Seq(Address) /\ Request[r].ports \in Seq(Int)
       /\ Request[r].via # "mcp" => Request[r].key = ""
       /\ Request[r].via = "cli" => IsCIDR(Request[r].prefix)

VARIABLES
  stage,     \* where a submission is
  preview,   \* what a preview of it answered
  answer,    \* the job a submission was answered with
  job,       \* jobs.state; a job has the name of the submission that made it
  cancelled, \* jobs.cancel_requested
  created,   \* jobs.created_at to the second, 0 while there is no row
  second,    \* created_at of the latest row
  attempts,
  printed,   \* the job whose progress `scan' printed
  worker,    \* per process: the job it runs, probes not begun and in flight
  decisions, \* rows of policy_decisions, phase "execution"
  dials,
  load,      \* one of Workloads
  faults

jobVars == <<job, cancelled, created, second, attempts>>
submitVars == <<stage, preview, answer, printed>>
vars == <<jobVars, submitVars, worker, decisions, dials, load, faults>>

Idle == [job |-> NoJob, todo |-> {}, flight |-> {}, ctx |-> "live"]

Init ==
  /\ load \in Workloads
  /\ stage = [r \in Requests |-> IF r \in load.arrive THEN "new" ELSE "absent"]
  /\ preview = [r \in Requests |-> "none"]
  /\ answer = [r \in Requests |-> NoJob]
  /\ printed = [r \in Requests |-> NoJob]
  /\ job = [r \in Requests |-> "none"]
  /\ cancelled = {}
  /\ created = [r \in Requests |-> 0] /\ second = 0
  /\ attempts = [r \in Requests |-> 0]
  /\ worker = [p \in Processes |-> Idle]
  /\ decisions = {} /\ dials = {}
  /\ faults = 0

Spend(n) == faults + n <= load.maxFaults /\ faults' = faults + n
Fault == Spend(1)
NoFault == Spend(0)
Goto(r, s) == stage' = [stage EXCEPT ![r] = s]
PolicyOf(r) == Policy[Request[r].process]
Terminal == {"completed", "failed", "cancelled"}

-----------------------------------------------------------------------------
(* Execution decisions; those of a preflight go to a ledger nothing reads  *)
(* back and are left out.                                                  *)
Row(p, e) == [by |-> p, at |-> e, allowed |-> Permits(Policy[p], e.host, e.port)]

(* A slip: the decision stands when its row could not be written.          *)
FinalizedRegardless(p, e) ==
  {[rows |-> {Row(p, e)}, allowed |-> Row(p, e).allowed, lost |-> 0],
   [rows |-> {}, allowed |-> Row(p, e).allowed, lost |-> 1]}

(* Decide with finalize and ScopeDecision: a decision that cannot be       *)
(* recorded denies.                                                        *)
Finalized(p, e) ==
  {[rows |-> {Row(p, e)}, allowed |-> Row(p, e).allowed, lost |-> 0],
   [rows |-> {}, allowed |-> FALSE, lost |-> 1]}

(* ValidateJob records a decision for each endpoint, up to a denial.       *)
Validations(p, content) ==
  {[allowed |-> Admits(Policy[p], content), lost |-> 0]}
  \cup IF WithinBudget(Policy[p], content) THEN {[allowed |-> FALSE, lost |-> 1]} ELSE {}

(* What a submission asks for; the command line expands a prefix first.    *)
Asked == [r \in Requests |->
  [targets |-> IF Request[r].via = "cli"
               THEN ExpandPrefix(Request[r].prefix, PolicyOf(r).maxHosts) ELSE Request[r].targets,
   ports |-> Request[r].ports]]

(* The payload of its job: SubmitScan normalizes, the others do not.       *)
Payload == [r \in Requests |->
  IF Request[r].via = "mcp" THEN Normalized(Asked[r]) ELSE Asked[r]]

(* What a job dials, and what it was to dial.                              *)
Targets == [r \in Requests |-> Endpoints(Payload[r])]
Wanted == [r \in Requests |-> Endpoints(Asked[r])]

(* ValidateJob at submission, and again in the handler of any process.     *)
AtSubmission == [r \in Requests |-> Validations(Request[r].process, Asked[r])]
AtStart == [p \in Processes |-> [j \in Requests |-> Validations(p, Payload[j])]]

(* A slip: a preview looks at the endpoints and not at the budgets.        *)
PreviewUnbudgeted(r) ==
  \A e \in Endpoints(Asked[r]) : Permits(PolicyOf(r), e.host, e.port)

(* PreviewJob, PreviewScan: nothing is recorded. A process keeps its       *)
(* policy, so a preview may as well come before the submission.            *)
PreviewJob(r) == Admits(PolicyOf(r), Asked[r])

Preview(r) ==
  /\ stage[r] = "new" /\ preview[r] = "none" /\ Request[r].via # "cli"
  /\ preview' = [preview EXCEPT ![r] = IF PreviewJob(r) THEN "allowed" ELSE "denied"]
  /\ UNCHANGED <<jobVars, stage, answer, printed, worker, decisions, dials, faults, load>>

-----------------------------------------------------------------------------
(* Requests the API does not rate, MCP gates closed or its key missing, a  *)
(* prefix that does not expand: none gets as far as a decision.            *)
MayAsk(r) ==
  /\ Request[r].via = "mcp" => PolicyOf(r).mcpWrite /\ Request[r].key # ""
  /\ Request[r].via = "cli" => Asked[r].targets # <<>>
TurnAway(r) ==
  /\ stage[r] = "new"
  /\ Request[r].via = "api" \/ ~MayAsk(r)
  /\ Goto(r, IF Request[r].via = "cli" THEN "unexpanded" ELSE "refused")
  /\ UNCHANGED <<jobVars, preview, answer, printed, worker, decisions, dials, faults, load>>

(* The preflight of a submission.                                          *)
Preflight(r) ==
  /\ stage[r] = "new" /\ MayAsk(r)
  /\ \E v \in AtSubmission[r] :
       /\ Spend(v.lost)
       /\ Goto(r, IF v.allowed THEN "admitted" ELSE "denied")
  /\ UNCHANGED <<jobVars, preview, answer, printed, worker, decisions, dials, load>>

(* A slip: the lookup is not confined to rows.                             *)
EarlierSubmission(r) == {j \in Requests : Request[r].key # "" /\ Request[j].key = Request[r].key}

(* CreateJobBounded finds a job of the same key.                           *)
Earlier(r) ==
  {j \in Requests : job[j] # "none" /\ Request[r].key # "" /\ Request[j].key = Request[r].key}

(* EnqueueWithKey, or Enqueue, which has no key. It fails when the queue   *)
(* is full as well; `scan' then goes on, without a job to wait for.        *)
Enqueue(r) ==
  /\ stage[r] = "admitted"
  /\ \/ /\ NoFault /\ Goto(r, "enqueued")
        /\ \/ /\ Earlier(r) = {}
              /\ answer' = [answer EXCEPT ![r] = r]
              /\ job' = [job EXCEPT ![r] = "queued"]
              /\ second' \in {second, second + 1} \ {0}
              /\ created' = [created EXCEPT ![r] = second']
           \/ /\ \E j \in Earlier(r) : answer' = [answer EXCEPT ![r] = j]
              /\ UNCHANGED <<job, created, second>>
     \/ /\ Fault /\ Goto(r, IF Request[r].via = "cli" THEN "failing" ELSE "refused")
        /\ UNCHANGED <<answer, job, created, second>>
  /\ UNCHANGED <<cancelled, attempts, preview, printed, worker, decisions, dials, load>>

(* The audit row of the submission: only the API looks at its error, and   *)
(* withdraws the job. `scan' waits for its job instead.                    *)
AuditCreate(r) ==
  /\ stage[r] = "enqueued" /\ Request[r].via # "cli"
  /\ \/ NoFault /\ Goto(r, "accepted")
     \/ Fault /\ Goto(r, IF Request[r].via = "api" THEN "unaudited" ELSE "accepted")
  /\ UNCHANGED <<jobVars, preview, answer, printed, worker, decisions, dials, load>>

(* CancelJob of the store.                                                 *)
CancelRow(j) ==
  /\ cancelled' = IF job[j] \in Terminal THEN cancelled ELSE cancelled \cup {j}
  /\ job' = [job EXCEPT ![j] = IF @ = "queued" THEN "cancelled" ELSE @]

(* A slip: the API answers 503 and leaves the job.                         *)
LeaveJob(r) ==
  /\ stage[r] = "unaudited" /\ Goto(r, "withdrawn")
  /\ UNCHANGED <<jobVars, preview, answer, printed, worker, decisions, dials, faults, load>>

Withdraw(r) ==
  /\ stage[r] = "unaudited"
  /\ \/ NoFault /\ CancelRow(answer[r]) /\ Goto(r, "withdrawn")
     \/ Fault /\ Goto(r, "abandoned") /\ UNCHANGED <<job, cancelled>>
  /\ UNCHANGED <<created, second, attempts, preview, answer, printed, worker, decisions, dials, load>>

(* An operator cancels a job, through the API or MCP; the audit row comes  *)
(* after the fact.                                                         *)
Cancel(j) ==
  /\ job[j] \in {"queued", "running"} /\ j \notin cancelled
  /\ CancelRow(j)
  /\ UNCHANGED <<created, second, attempts, submitVars, worker, decisions, dials, faults, load>>

(* `scan' polls its job until it is over; Wait's error stays with it.      *)
Wait(r) ==
  /\ stage[r] = "enqueued" /\ Request[r].via = "cli"
  /\ \/ job[r] = "completed" /\ NoFault /\ Goto(r, "waited")
     \/ job[r] \in {"failed", "cancelled"} /\ NoFault /\ Goto(r, "failing")
     \/ Fault /\ Goto(r, "failing")
  /\ UNCHANGED <<jobVars, preview, answer, printed, worker, decisions, dials, load>>

(* A slip: the job listed first is the oldest.                              *)
Oldest ==
  {j \in Requests : created[j] > 0 /\ \A k \in Requests : created[k] > 0 => created[j] <= created[k]}

(* ListJobs(1) sorts created_at as RFC3339Nano text, which within a second *)
(* is not the order of time: any row of the latest second may come first.  *)
Newest == {j \in Requests : created[j] > 0 /\ \A k \in Requests : created[k] <= created[j]}

(* Then, waited or not, it prints the progress of the job listed first, of *)
(* none when the table is empty or cannot be read.                         *)
PrintResult(r) ==
  /\ stage[r] \in {"waited", "failing"}
  /\ \/ NoFault /\ \E j \in Newest : printed' = [printed EXCEPT ![r] = j]
     \/ NoFault /\ Newest = {} /\ UNCHANGED printed
     \/ Fault /\ UNCHANGED printed
  /\ Goto(r, IF stage[r] = "waited" THEN "accepted" ELSE "failed")
  /\ UNCHANGED <<jobVars, preview, answer, worker, decisions, dials, load>>

-----------------------------------------------------------------------------
(* A worker takes a queued job, or one whose lease ran out.                *)
Claim(p, j) ==
  /\ worker[p].job = NoJob /\ WellFormed(Policy[p])
  /\ job[j] \in {"queued", "running"} /\ j \notin cancelled
  /\ attempts[j] < load.maxAttempts
  /\ job' = [job EXCEPT ![j] = "running"]
  /\ attempts' = [attempts EXCEPT ![j] = @ + 1]
  /\ worker' = [worker EXCEPT ![p] = [Idle EXCEPT !.job = j, !.ctx = "new"]]
  /\ UNCHANGED <<cancelled, created, second, submitVars, decisions, dials, faults, load>>

(* The handler validates the payload under the policy of its process.      *)
Start(p) ==
  /\ worker[p].ctx = "new"
  /\ \E v \in AtStart[p][worker[p].job] :
       /\ Spend(v.lost)
       /\ worker' = [worker EXCEPT
            ![p].ctx = IF v.allowed THEN "live" ELSE "done",
            ![p].todo = IF v.allowed THEN Targets[worker[p].job] ELSE {}]
  /\ UNCHANGED <<jobVars, submitVars, decisions, dials, load>>

(* AuthorizedDialer.Dial: the decision ...                                 *)
Decide(p, e) ==
  /\ e \in worker[p].todo
  /\ \E v \in Finalized(p, e) :
       /\ Spend(v.lost)
       /\ decisions' = decisions \cup v.rows
       /\ worker' = [worker EXCEPT ![p].todo = @ \ {e},
                                   ![p].flight = IF v.allowed THEN @ \cup {e} ELSE @]
  /\ UNCHANGED <<jobVars, submitVars, dials, load>>

(* ... the limiters, which give up when the context is done, and the dial. *)
(* An open port is dialled again by the next collector.                    *)
Dial(p, e) ==
  /\ e \in worker[p].flight
  /\ \/ dials' = dials \cup {[by |-> p, job |-> worker[p].job, at |-> e]}
     \/ worker[p].ctx = "done" /\ UNCHANGED dials
  /\ \E again \in {{}, {e}} :
       worker' = [worker EXCEPT ![p].flight = @ \ {e}, ![p].todo = @ \cup again]
  /\ UNCHANGED <<jobVars, submitVars, decisions, faults, load>>

(* Deadline, cancellation, lost lease, progress that cannot be written;    *)
(* when nothing is left to dial it makes no difference.                    *)
CtxEnds(p) ==
  /\ worker[p].ctx = "live" /\ worker[p].todo \cup worker[p].flight # {}
  /\ worker' = [worker EXCEPT ![p].ctx = "done"]
  /\ UNCHANGED <<jobVars, submitVars, decisions, dials, faults, load>>

(* The handler returns and FinishJob writes the outcome, or fails.         *)
AttemptEnds(p) ==
  /\ worker[p].job # NoJob /\ worker[p].flight = {}
  /\ worker[p].ctx = "done" \/ (worker[p].ctx = "live" /\ worker[p].todo = {})
  /\ \/ /\ NoFault
        /\ \E outcome \in {"completed", "failed"}
                          \cup IF worker[p].job \in cancelled THEN {"cancelled"} ELSE {} :
             job' = [job EXCEPT ![worker[p].job] = outcome]
     \/ Fault /\ UNCHANGED job
  /\ worker' = [worker EXCEPT ![p] = Idle]
  /\ UNCHANGED <<cancelled, created, second, attempts, submitVars, decisions, dials, load>>

Submit(r) ==
  \/ TurnAway(r) \/ Preflight(r) \/ Enqueue(r)
  \/ AuditCreate(r) \/ Withdraw(r) \/ Wait(r) \/ PrintResult(r)
Execute(p) ==
  \/ \E j \in Requests : Claim(p, j)
  \/ Start(p) \/ CtxEnds(p) \/ AttemptEnds(p)
  \/ \E e \in worker[p].todo \cup worker[p].flight : Decide(p, e) \/ Dial(p, e)
Next ==
  \/ \E r \in Requests : Submit(r) \/ Preview(r) \/ Cancel(r)
  \/ \E p \in Processes : Execute(p)
Spec == Init /\ [][Next]_vars

-----------------------------------------------------------------------------
(* Every variable has its type; what is told of has a row, and a time.     *)
TypeOK ==
  /\ stage \in [Requests -> {"absent", "new", "refused", "unexpanded", "denied", "admitted",
                             "enqueued", "accepted", "unaudited", "withdrawn", "abandoned",
                             "waited", "failing", "failed"}]
  /\ answer \in [Requests -> Requests \cup {NoJob}]
  /\ \A r \in Requests : stage[r] \in {"enqueued", "waited", "accepted"} => job[answer[r]] # "none"
  /\ \A r \in Requests : created[r] <= second /\ (created[r] > 0 <=> job[r] # "none")
  /\ \A p \in Processes : worker[p].job # NoJob => attempts[worker[p].job] > 0
  /\ \A d \in decisions \cup dials : d.at.host \in Normal

(* The reference: a CIDR as the set of IPv6 addresses it names, in which   *)
(* IPv4 is the mapped half; one written in IPv6 does not name those.       *)
Mapped(a) == IF a.family = "4" THEN a.value + 2 ^ V4Bits ELSE a.value
Named(c) ==
  LET width == Width(c)
      base == IF c.family = "4" THEN c.value + 2 ^ V4Bits ELSE c.value
      all == {n \in 0..(2 ^ (V4Bits + 1) - 1) : n \div width = base \div width}
  IN  IF c.family = "6" THEN {n \in all : n < 2 ^ V4Bits} ELSE all

InScope == [p \in Processes |->
  (UNION {Named(c) : c \in Policy[p].allowed}) \ (UNION {Named(c) : c \in Policy[p].denied})]

(* Whatever a process dials, its own policy allows: no denied CIDR names   *)
(* the address, in whatever form either was written and whichever process  *)
(* admitted the job; an allowing execution decision was recorded before;   *)
(* and no job makes it dial more hosts or ports than its own budgets       *)
(* (AuthorizedDialer.Dial, Decide, finalize, ValidateJob in the handler).  *)
Dialled(p, j) == {d.at : d \in {d \in dials : d.by = p /\ d.job = j}}
DialsAuthorized ==
  \A d \in dials :
    /\ Policy[d.by].active
    /\ Mapped(d.at.host) \in InScope[d.by]
    /\ d.at.port \notin Policy[d.by].excluded
    /\ [by |-> d.by, at |-> d.at, allowed |-> TRUE] \in decisions
    /\ Cardinality({e.host : e \in Dialled(d.by, d.job)}) <= Policy[d.by].maxHosts
    /\ Cardinality({e.port : e \in Dialled(d.by, d.job)}) <= Policy[d.by].maxPorts

(* What a client is told is so. An accepted submission is answered with a  *)
(* job for the very endpoints it asked for; unless its idempotency key had *)
(* been used, when the answer is the earlier job, whatever that scans. A   *)
(* preview answers what the submission is then told, while every decision  *)
(* can be recorded (SubmitScan, api.scan, PreviewJob, PreviewScan).        *)
AnswersHonest ==
  \A r \in Requests :
    /\ stage[r] \in {"enqueued", "waited", "accepted"} =>
         \/ answer[r] = r /\ Targets[r] = Wanted[r]
         \/ answer[r] # r /\ Request[r].via = "mcp" /\ Request[r].key = Request[answer[r]].key
    /\ stage[r] = "denied" /\ faults = 0 => preview[r] # "allowed"
    /\ stage[r] \in {"admitted", "enqueued", "accepted", "unaudited", "withdrawn", "abandoned"} =>
         preview[r] # "denied"

(* `scan' on a CIDR means all of its hosts: without network and broadcast  *)
(* address where an IPv4 prefix has any, and nothing is refused that fits  *)
(* the host budget, except a default route (ExpandPrefix).                 *)
HostsOf(c) ==
  LET all == Named(c)
  IN  IF c.family = "6" \/ Cardinality(all) <= 2 THEN all
      ELSE {n \in all : \E lower, upper \in all : lower < n /\ n < upper}
Expandable == {r \in Requests :
  /\ Request[r].via = "cli" /\ Parses(Request[r].prefix)
  /\ Cardinality(HostsOf(Request[r].prefix)) <= PolicyOf(r).maxHosts
  /\ Cardinality(Named(Request[r].prefix)) # 2 ^ V4Bits}
WholePrefix == {r \in Requests : {Mapped(a) : a \in ToSet(Asked[r].targets)} = HostsOf(Request[r].prefix)}
ExpansionExact ==
  \A r \in Requests : Request[r].via = "cli" =>
    /\ stage[r] = "unexpanded" => r \notin Expandable
    /\ stage[r] \notin {"absent", "new", "unexpanded"} => r \in WholePrefix

(* `scan' prints the progress of its own job or of one that was not        *)
(* submitted in an earlier second: the exact extent of reading ListJobs(1) *)
(* after the wait. Only when its own job could not be created does it      *)
(* print whatever older one is there, and then it ends with an error       *)
(* (scan in main.go, ListJobs).                                            *)
PrintsOwnOrLater ==
  \A r \in Requests : printed[r] # NoJob =>
    \/ answer[r] = r /\ created[r] <= created[printed[r]]
    \/ answer[r] = NoJob /\ stage[r] = "failed"

(* No attempt starts for a job whose submission was answered with an       *)
(* error, unless withdrawing it failed as well; `scan' that gave up        *)
(* waiting leaves its job (api.scan, ClaimJob).                            *)
RefusedNeverStarts ==
  [][\A j \in Requests : attempts'[j] > attempts[j] =>
       answer[j] = j /\ stage[j] \notin {"new", "refused", "denied", "withdrawn"}]_vars
=============================================================================
