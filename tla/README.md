# CortaSentry in TLA+

This directory models the parts of CortaSentry whose correctness depends on
what several goroutines, processes and operators do to one SQLite file and to
the files beside it: the durable job queue and its leased workers, the scan
pool inside a job, the resolution of observations into assets, what is derived
from them (changes, classification, findings), the authorization of every
dial, and the commands that create and open an installation. TLC checks the
models on small instances (`MC*.tla`, `MC*.cfg`); the `*_proofs.tla` modules
prove every safety property the passing runs check, and that the queue
implements its abstract specification, for every value of the constants.

All paths below are relative to the repository root.

## 1. The system

CortaSentry is an authorized-network asset inventory. One binary runs as
`serve` (HTTP API, web console and workers), `mcp` (tools over stdio, and
workers), or as a command that submits a scan and runs workers until it is
done (`scan`). All of them may have the same database file open. The pieces:

| Component | State it keeps | Operations | Interacts with | What is hard | What makes it correct |
|---|---|---|---|---|---|
| Job queue, worker pool (`internal/jobs/manager.go`, `jobs` in `store.go`) | the `jobs` rows: state, lease, owner, cancel flag, attempts; per worker goroutine a job, a context and a heartbeat goroutine | `EnqueueWithKey`, `Cancel`, `loop`, `execute`; `CreateJobBounded`, `ClaimJob`, `RenewJob`, `JobCancelled`, `FinishJob` | every submitter; the job handler; other processes through the file | leases that run out under a live worker, unguarded `FinishJob`, count-then-insert, processes that end | bounded queue, one row per key, at most one sound outcome, ended stays ended, every job ends |
| Queue gauge (`telemetry/metrics.go`) | `QueueDepth` | incremented by submit, decremented by execute | Prometheus | counts calls, not rows | agrees with the table |
| Scan pool (`discovery/scanner.go`) | channel, atomic counter, contexts, result | `RunWithProgress` | job context, dialer, ingest, progress column | producer and workers that both may leave first | every probe once, no deadlock, honest progress |
| Asset identity (`assets/resolver.go`, asset tables) | assets, identifiers, addresses, links | `Resolve`, `AttachObservation`, `AddIdentifier`, `MergeAssets` | scan workers, importers, operators | separate statements, partial failure, merges in between | no joining on weak or partial evidence, links unique, merges acyclic |
| Ingest pipeline (`scanner.go`) | none of its own | `ingestBatch`, `IngestObservation`, change detection, candidates | identity, changes, fingerprint | reads the previous state outside a transaction | each change reported once |
| Change events (`store.go`) | `change_events`, dedupe key, occurrence count | `AddChange`, merge | ingest | key holds the asset id | one row per change |
| Findings (`internal/findings`, `store.go`) | advisories, findings, history | `Correlate`, `UpsertFinding`, disposition | jobs, API | read-then-write of a finding, operator state against re-evaluation | evidence caps the confidence, operator decisions survive |
| Fingerprint rules (`internal/fingerprint`) | rule set behind an atomic pointer | `Evaluate`, `IsAmbiguous`, `Reload` | ingest | scoring with contradictions and negative evidence | bounds, order, ambiguity |
| Scope engine, dialer (`internal/scope`, `discovery/dialer.go`) | policy, decision audit, rate limiters | `decide`, `ValidateJob`, `ExpandPrefix`, `DialContext` | submissions and every probe | edges of prefixes; audit before action | deny wins, nothing undecided is dialled |
| Administrator token, sessions (`internal/auth`) | `auth_tokens`, `sessions`, secret file | bootstrap, `Rotate`, sessions | API | database and file are written separately | the file's token stays valid |
| Application service (`internal/application`) | none | operation, then its audit row | API, MCP, command line | audit that fails | clients are told what happened |
| HTTP API (`internal/api`) | login limiter | routes | everything above | a job that is withdrawn after it was queued | a refused job never starts |
| MCP server (`internal/mcpserver`) | none | tools | application service | a client that retries | idempotent submission |
| Importers (`internal/importer`) | none | `Nmap`, `JSONL`, pipeline | ingest | a failure half way | what is stored is derived |
| Schema, migrations (`src/migrations`, `store.go`) | `schema_migrations` | `migrate` | every start | two starts at once | each version once |
| Configuration (`internal/config`) | the file | `Load`, `Validate`, `Write` | every start | a file half written | a process starts with a well-formed policy |
| Collectors, observation contract, domain types, fixtures, web console | - | I/O, parsing, values | - | - | out of reach of this kind of model |

## 2. What is modelled

| Module | Models | Built from |
|---|---|---|
| `JobStore` | the `jobs` table and every statement on it that changes it | |
| `JobManager` | the workers, their heartbeats and the processes they live in; the queue's properties and fairness | `JobStore` |
| `JobLifecycle` | what the queue promises a client: the abstract specification `JobManager` implements | |
| `QueueGauge` | the gauge beside the queue | `JobManager` |
| `ScanRun` | one call of `Scanner.RunWithProgress` | |
| `Identity` | concurrent `Resolve`s, call by call, beside `MergeAssets` | |
| `Fingerprint`, `Advisories` | scoring of rules and correlation of advisories, as operators | |
| `Derive` | batches of scans and imports after collection: change events, classification, findings, beside operators who merge and judge | `Fingerprint`, `Advisories` |
| `ScopeEngine` | policies, decisions, budgets and prefix expansion, as operators on a scaled address space | |
| `Authorization` | submissions through API, MCP and command line, the decisions and the dials of the processes that run the jobs | `ScopeEngine` |
| `Install` | `init`, `token rotate` and the opening of the store by several processes | |
| `MC...` | instances for TLC | the module of that name |
| `JobManager_proofs`, `ScanRun_proofs`, `Identity_proofs`, `Derive_proofs`, `Authorization_proofs`, `Install_proofs` | inductive invariants and theorems | the module of that name |
| `Findings_proofs` | attachment, findings, imports and missed services of `Derive` | `Derive_proofs` |
| `Scope_proofs` | sets of addresses, answers and dials of `Authorization` | `Authorization_proofs` |

Definitions introduced as *a slip* are what a plausible mistake in the code
would be (a dropped guard, a reset that is missing). No specification uses one.
Putting a slip in the place of the definition that follows it makes TLC find
the property it is meant for violated, which shows that the property depends on
that piece of code.

### Job queue: `JobStore`, `JobManager`

A submission and the row it may create share a name, since `newID()` makes the
row's id and a submission creates at most one row. The columns `state`,
`lease_owner`, `cancel_requested`, `attempt_count` are variables of the same
meaning; `lease_expires_at` is compared with the clock only, so it is `none`,
`live` or `expired`; of `created_at` the whole second is kept, because the
column is RFC3339Nano text without trailing zeros, whose order is that of time
only between different seconds.

| Code | Action |
|---|---|
| `CreateJobBounded` | `IdempotentHit`, `QueueFull`, `ReadForInsert`, `ReadFails` (the reads), then `Insert` or `InsertFails` |
| `ClaimJob` from `loop` | `Claim` |
| a heartbeat tick | `CheckCancel`, then `Renew`; `HeartbeatEnds` for errors and `ctx.Done` |
| `context.WithTimeout` | `Deadline` |
| the handler returns; `cancel(); <-done` | `HandlerReturns`, `JoinHeartbeat` |
| `JobCancelled` after a context error | `RecheckCancel` |
| `FinishJob` | `Finish`, `FinishFails` |
| `CancelJob` | `Cancel` |
| the clock passes `lease_expires_at` | `LeaseExpires` |
| a process ends | `Crash` |

`CreateJobBounded` is a deferred transaction in WAL mode: SQLite refuses to
turn its read snapshot into a write when anything was committed after the read.
`snapshot` is the set of transactions whose snapshot is still the latest
commit; every commit empties it. This behaviour is SQLite's, not the
repository's, and the only external part of the model. The unique index of
`migrations/0002_job_idempotency.sql` is the guard of `Insert`.

A process is a set of workers that end together. Ending is ordinary here: the
`mcp` process ends when its client closes stdio and `scan` ends after its job,
with other jobs possibly claimed by its workers. A new process has new owner
uuids and so is another set of workers. The parent context is always
`context.Background()`, so nothing stops a pool in an orderly way.

### Scan pool: `ScanRun`

A probe is its position in the order of targets and ports. The unbuffered send
is the joint step `HandOver` of the producer and a receiving worker;
`StopSending` is the `<-ctx.Done()` branch, `AllSent` and `Return` the end.
A worker goes through `CheckCtx`, `Probe` (collectors and `ingestBatch`),
`Count` and `WriteProgress` or `ProgressFails`, whose write may have landed all
the same. `jobCtx` is the context the job
was given, `runCtx` the inner one. `JobCtxEnds` stands for the deadline, a
cancel request and a lost lease of `JobManager`.

### Asset identity: `Identity`

Every store call of `Resolve` is a step and every one can fail (`Fail`), which
leaves what was written so far. An asset has the name of the observation that
created it. `MergeAssets` is one step: it reads and then writes in one
transaction, and a commit in between makes its first write fail without effect.
The 30 minute window of `FindContinuityAssets` may pass at any time
(`WindowPasses`). `Classify` is the part of the surrounding `ingestBatch` that
writes the `ambiguous` column. `Family(a)` is the assets merged with `a`
by now, in either direction: those in every set that holds `a` and is closed
under `merged_into`. The resolver accepts several strong identifiers
per observation, as its tests give it; in today's callers only the fixture path
supplies one (`agent_enrollment_id`), scans and imports supply none, so the
instances have observations of both sorts.

### What is derived: `Derive`, `Fingerprint`, `Advisories`

A batch is what one probe or one import record observed. Its way through
`ingestBatch` and the job handler (or `PipelineSink`) is a sequence of store
calls, each an action, each of which may fail with the consequence the code
gives it: the batch is given up, the error is dropped, or the import stops. What
was written before the failing call stays: `Resolve` may leave an asset, and the
first observation attached to it, behind a batch that is given up.

| Code | Action |
|---|---|
| `AddObservation`; the loop over import records | `Collect` |
| `Resolver.Resolve`, the attach loop | `Resolve`, `AttachRest` |
| first seen, `detectEndpointChanges` | `Detect` |
| `AddChange` | `Report` |
| `ListObservations`, `Engine.Evaluate`, `IsAmbiguous` | `Evaluate` |
| `GetAsset`, `UpdateClassification` | `ReadAsset`, `UpdateClassification` |
| `detectHTTPChange` | `DetectTitle` |
| `GetAsset`, `Correlate` in the handler | `EvaluateAdvisories` |
| `UpsertFinding` and its change | `UpsertFinding`, then `Report` |
| `MergeAssets` for changes and findings | `Merge` |
| disposition, acknowledgement | `SetDisposition`, `Acknowledge` |

Which asset a batch resolves to is `Identity`'s subject and any choice here, so
what holds in `Derive` does not rest on identity being right. `AttachRest`
attaches one observation at a time, in order. `Lineage(a)` is the assets that
ended up in `a` through `merged_into`, and `Peers(port, a)` the batches of that
lineage which saw the service. The findings a batch has yet to store are a set,
taken in the order of the advisories (`place`). A classification is whether a
rule identified the asset (`identified`, for the device class: every rule in
the repository names one, though `validate` does not insist), the vendor, the
family, the firmware and `ambiguous`. A predicate of a rule, with its operator,
field and value, is the fact it asks for; an observation is a source, a port
and a set of facts. A batch has at most one certificate, as the collectors give
one per endpoint, so `Detect` has one certificate change at most. `Fingerprint`
keeps the arithmetic of `evaluateRule` in hundredths: the credit of a predicate
to the first evidence that matches, the cap per source, negative evidence,
diversity bonus, staleness, and the ambiguity margin.

### Authorization: `ScopeEngine`, `Authorization`

The address space is scaled: IPv4 has `V4Bits` bits, IPv6 one more, and its
upper half are the IPv4-mapped addresses. `NormalizeAddr`, `parsePrefix`,
`decide`, `ValidateJob`, `PreviewJob` and `ExpandPrefix` are operators over
prefixes and addresses in any of the three spellings. The properties compare
them with a reference definition that knows only sets of addresses (`Named`,
`InScope`, `HostsOf`). The endpoints of a job are a set: what is a port, a prefix
or an address twice is the same one.

| Code | Action |
|---|---|
| `scanPreview`, MCP `scan_preview` | `Preview` |
| rate limit, MCP gates, `ExpandPrefix` error | `TurnAway` |
| `ValidateJob` at submission | `Preflight` |
| `EnqueueWithKey` | `Enqueue` |
| the audit row of a submission, `CancelJob` when it fails | `AuditCreate`, `Withdraw` |
| `Wait` for the job in `scan`; what `scan` prints of `ListJobs(1)` | `Wait`; `PrintResult` |
| the handler validates the payload again | `Start` |
| `AuthorizedDialer.Dial`: `Decide` with its row, limiters and dial | `Decide`, `Dial` |

When `Enqueue` fails, because the queue is full or the database does not answer,
`scan` skips `Wait` and still prints what `ListJobs(1)` lists first; so it does
when `Wait` ends with an error. Both are stage `failing`. Of `created_at` the
second is kept, as in `JobStore`: which of the rows of the latest second is
listed first is left open (`Newest`).

`Claim`, `CtxEnds` and `AttemptEnds` are what this needs of `JobManager`. Each
process has the policy it loaded. `finalize` is `Finalized`: a decision whose
row cannot be written denies.

### Installations: `Install`

A process runs `init`, `token rotate` or a command that only opens the store.
The configuration file, `schema_migrations`, `auth_tokens` and
`data/admin.token` are separate variables, and every write to one of them is a
step: `WriteConfig` truncates and then writes, `Migrate` is one migration with
its version row, `InsertToken`, `RenameSecret`, `ChmodSecret`, `RevokeOthers`
are the three stages of `Rotate` and `Bootstrap`, with `DeleteToken` and
`RemoveSecret` where an error is undone. Every one of them, and the reads
`ReadVersion`, `CountTokens` and the load of the configuration, may fail; a
failed write of the configuration leaves a whole file, half a file or the one
that was there. A process may stop between any two. `alone` remembers whether
another command ran at the same time.

## 3. Runs

All bounds are constants: the sets of jobs, workers, observations, batches,
requests and processes, `Total` probes, `MaxFaults` failing calls, and
`Crashable`, the processes that may end. Where a module has `Workloads`, the
initial state chooses one of several scenarios, each with its bounds on faults,
attempts, judgements and stops, so that one run covers each kind of race at a
size TLC can exhaust. No state constraint is used; every run explores all
reachable states of its instance. Deadlock checking is off because the
instances are finite: when all submissions have been answered, all batches have
ended and the commands are over, there is nothing left to do. That nobody waits
forever is what `Returns` and the liveness properties of the queue say.

| Run | Instance | Shows |
|---|---|---|
| `workers` | 2 jobs, 2 workers in a process each, 1 lost outcome | `TypeOK`, `RowsConsistent`, `NoOvertaking`, `BoundedAttempts`, `EndsAreFinal` |
| `submit` | 3 submissions, 2 with one key, queue of 1, 2 workers | `QueueBound`, `SameKeySameAnswer`, `ImplementsLifecycle` |
| `liveness` | 1 job, 2 workers, one of them in a process that may end, 2 lost outcomes | `StaleWorkerStops`, `CancelReachesHandler`, `UncancelledEnds`, `AttendedCancelEnds` |
| `cancel_crash` | the same without lost outcomes | `CancelEnds` is violated, see 6 |
| `gauge_help` | 2 submissions with one key, 2 workers | `GaugeMatchesHelp` is violated, see 6 |
| `scan_pool` | 3 workers, 4 probes | `TypeOK`, `ProbesAccounted`, `ReturnedRunIsOver`, `ProgressHonest`, `Returns` |
| `identity` | three arrivals: `{mac1, serial}`, `{mac1}`, `{mac2, serial}`; one strong and two weak sightings of one service set; three weak ones of which no two agree in address and services. Merges throughout | `TypeOK`, `OneIdPerKind`, `AttachOnlyOnAgreement`, `LinkedOnce`, `WeakNeedsServiceSet` |
| `identity_explicit` | the first arrival | `ConflictStaysExplicit` is violated, see 6 |
| `identity_merged_agreement` | `{mac1}`, `{serial}`, `{mac1}`, merges | `MergedAgreementAttaches` is violated, see 6 |
| `derived` | 2 assets, up to 3 batches of one port: three scans; a scan beside an import, with a judgement; the same with a failure; an import of two records with a failure; an import beside a scan that names another vendor. Merges throughout | `TypeOK`, `MissedOnlyInRace`, `ShownWasAnnounced`, `HistoryChains`, `CeilingHolds`, `ImportedIsDerived`, `OneSourceIsNotEnough`, `JudgementsKept` |
| `authorization` | 3-bit IPv4, 4-bit IPv6, 3 processes with different policies, 10 requests in workloads of up to 3, up to 2 attempts and 1 failing call | `TypeOK`, `DialsAuthorized`, `AnswersHonest`, `ExpansionExact`, `PrintsOwnOrLater`, `RefusedNeverStarts` |
| `install` | up to 4 commands at once out of 2 inits, 3 rotations and a server, with 2 failing calls or 1 stop, or one of each | `TypeOK`, `MigratedOnce`, `AccessKept`, `LoneCommandWorks` |

Why the bounds are enough. Every interesting event of the queue involves one
job and two workers (the one that lost the lease and its successor), or two
jobs and one slot (capacity, order); a third submission is needed to race a
retry and a stranger for the last slot, while the first of them may already
have ended. In a scan, a pool of three and one probe more leaves a worker idle,
one behind and one ahead. Three observations are a machine, the same again, and
one that shares an identifier with it and contradicts another, which is every
way two strong sets can overlap; for weak evidence the first observation may
join another only after the other two were merged, so that run shows both that
it happens and that nothing less suffices. In `derived` two batches of one
asset are a race and a third, another record, makes the asset an old one; two
assets are a merge. Its two scans see the port with another certificate and
another page each. Of its rules one can exceed the cap of a page; one is ruled
out by the certificate of the first batch, its negative evidence, but not once
the page of the second counts as well, when the two are ambiguous; and one is
of another vendor, for the record of the closed port. In `authorization` the
policies differ in denied prefixes, ports and budgets, one of them is
malformed, and the prefixes meet every edge of `ExpandPrefix`: network and
broadcast, a default route, a single IPv6 host, and at the end of the IPv4
space two addresses and one, the counterparts of /31 and /32. Three migrations
are the repository's own; four commands are an installer, two rotations that
overlap and a later one that finds what they left. The proofs remove the bounds
for every safety property; they matter for liveness only, and for the four
violated properties, where a small instance is all that is needed.

Worth noting about individual properties:

* `BoundedAttempts`: there is no retry limit in the code, yet a job is claimed
  at most once per worker that ever lost it, plus once per outcome that could
  not be written. The reason is indirect: a stale worker's unguarded `FinishJob`
  ends the row. With an owner in that statement's `WHERE` clause two slow workers
  could hand a job to and fro without end.
* `EndsAreFinal` states the exact extent of the unguarded write: only a job that
  was claimed at least twice can be given another end.
* `ReturnedRunIsOver`: `RunWithProgress` may return `nil` with probes undone,
  when its context ends after the last probe was handed over; then at most one
  probe per worker is missing, and never while the context is live.
* `OneIdPerKind` holds up to the first merge. Afterwards it does not: two assets
  may be merged while an ingest that chose one of them has not stored its
  identifiers yet, so the comparison in `MergeAssets` does not see them.
* `MissedOnlyInRace` states, asset by asset, how a service can go unreported:
  two batches of it were both attached before either looked, and each took the
  other's observation for an earlier one; or a batch of it had created its
  asset, which is announced as a whole. What happens to other assets excuses
  nothing: only batches whose asset is, or ended up in, this one count, on
  either side. It is the asset filter of `ListObservations` that the property
  depends on.
* `ShownWasAnnounced` holds although the classification before an update is read
  outside any transaction: what a batch reads there was announced by the batch
  that wrote it, or is about to be.
* `ImportedIsDerived` excepts a record whose classification another batch of its
  asset overruled with another vendor's; a batch that identified nothing overrules
  nothing, since it never updates the asset.
* `JudgementsKept` is about batches for what operators decided, and about merges
  for advisories only: a disposition is lost with the finding that a merge
  deletes as a duplicate, which is what the code does.
* `PrintsOwnOrLater` and `AnswersHonest` are the exact extents of two surprises.
  `scan` may print the progress of another's job: of one created in the same
  second or later, and, when its own could not be created, of whatever job is
  there, but then it ends with an error. A reused idempotency key is
  answered with the earlier job whatever its targets.
* `AccessKept` names its two exceptions: commands that overlap, and a `chmod` that
  fails after the rename, when `Rotate` deletes the row whose token the file holds.

## 4. Fairness

Safety runs assume none. For liveness:

* `WorkerFairness`: goroutines that can step do. `loop` and the heartbeat run
  on tickers; a handler returns once its context is done, because every
  collector, dial and store call takes the context; `execute` runs to its end.
  `Finish` is weakly fair, so a write that can succeed eventually does, at most
  `MaxFaults` attempts excepted; `database busy` is bounded by `busy_timeout`.
* `LeaseFairness`: a lease nobody renews runs out. Time passes.
* `OwnDeadlineFairness` (run `liveness`): the job deadline fires, but it is
  relied on only for the owner of a job nobody cancels. That is less than the code
  gives, and it makes `StaleWorkerStops` and `CancelReachesHandler` statements
  about the heartbeat, not about the timeout.
* `DeadlineFairness` (run `cancel_crash`): the deadline fires for everybody; the
  counterexample does not come from a deadline left out.
* `ScanRun!FairSpec`: the producer and each worker move when they can. Nothing
  is assumed of the job's context or of the success of any store call.

Callers, operators, crashes and faults are never assumed to happen.

## 5. Proofs

Each `_proofs` module has one inductive invariant, `IInv`, to which
`Findings_proofs` adds `DInv`, `Scope_proofs` adds `ScopeInv` and `Identity_proofs`
adds `WeakInv` for the later theorems; a lemma per part
of it that every step preserves that part, with one step per action; and
theorems that follow. They hold for all constants that meet the named
assumptions of the modules, which TLC evaluates on every instance:
`JobStoreAssumption`, `JobManagerAssumption`, `ScanRunAssumption`,
`IdentityAssumption` and `InstallAssumption` (sets are finite or disjoint where
the code makes them so, bounds are numbers); `FingerprintAssumption` and
`DeriveAssumption` (predicates have weights, a batch is not empty and is of one
endpoint, an advisory has a vendor); `ScopeAssumption` and
`AuthorizationAssumption` (what a policy and a submission look like once they
are parsed). Nothing else is assumed.

| Module | Theorem | States |
|---|---|---|
| `JobManager_proofs` | `Invariant`, `TypeCorrect` | `[]IInv`, `[]TypeOK` |
| | `QueueBounded`, `KeysUnique`, `RetriesAnswered` | `[]QueueBound`, `[]OneJobPerKey`, `[]SameKeySameAnswer` |
| | `LeasesSound`, `CancelHonest`, `RowsSound` | `[]RowsConsistent` and its two halves |
| | `ClaimsInOrder`, `AttemptsBounded` | `[]NoOvertaking`, `[]BoundedAttempts` |
| | `EndsStayEnds`, `FirstEndIsFinal`, `CancelStopsAttempts`, `EndsStand` | `EndsAreFinal` and its three parts |
| | `RefinesLifecycle` | `ImplementsLifecycle` |
| | `StrandedForEver` | a running job that was asked to stop and has no worker stays so for ever, and `Active` |
| `ScanRun_proofs` | `Invariance`, `TypeCorrect` | `[]IInv`, `[]TypeOK` |
| | `ProbesAreAccounted`, `ProgressIsHonest`, `ReturnedIsOver` | `[]ProbesAccounted`, `[]ProgressHonest`, `[]ReturnedRunIsOver` |
| | `SomebodyCanMove` | until it has returned, the producer or a worker can move |
| | `RunsAreBounded` | every such move leaves fewer of at most `5 * Total + 2` and one per worker |
| `Identity_proofs` | `Invariance`, `TypeCorrect` | `[]IInv`, `[]TypeOK` |
| | `AttachesOnAgreement`, `OneIdentifierPerKind`, `ObservationsLinkedOnce` | `[]AttachOnlyOnAgreement`, `[]OneIdPerKind`, `[]LinkedOnce` |
| | `WeakEvidenceNeedsServices` | `[]WeakNeedsServiceSet` |
| `Derive_proofs` | `Invariance` | `[]IInv` |
| | `HistoriesChain`, `JudgementsAreKept`, `ClassificationsAreAnnounced` | `[]HistoryChains`, `JudgementsKept`, `[]ShownWasAnnounced` |
| | `OneSourceIdentifiesNothing` | `[]OneSourceIsNotEnough` |
| `Findings_proofs` | `DerivationInvariance`, `TypeCorrect` | `[]DInv`, `[]TypeOK` |
| | `FindingsAreClassified`, `ImportsAreDerived`, `MissedOnlyByRace` | `[]CeilingHolds`, `[]ImportedIsDerived`, `[]MissedOnlyInRace` |
| `Authorization_proofs` | `Invariance` | `[]IInv` |
| | `DialsAreDecided` | a dial was permitted by its process's policy and recorded before |
| | `PrintsOwnOrLaterJob`, `RefusedJobsNeverStart` | `[]PrintsOwnOrLater`, `RefusedNeverStarts` |
| `Scope_proofs` | `ScopeInvariance`, `SubmissionsTyped` | `[](IInv /\ ScopeInv)`, `[]TypeOK` |
| | `DialsStayAuthorized`, `AnswersStayHonest`, `ExpansionsExact` | `[]DialsAuthorized`, `[]AnswersHonest`, `[]ExpansionExact` |
| `Install_proofs` | `Invariance`, `TypeCorrect` | `[]IInv`, `[]TypeOK` |
| | `MigrationsOnce`, `AccessIsKept`, `LoneCommandsWork` | `[]MigratedOnce`, `AccessKept`, `LoneCommandWorks` |

`ExpansionExact` and `OneSourceIsNotEnough` speak of operators and hold in every
state. None of the other properties is inductive. What has to be added:

* `JobManager`: what a worker holds at each place of `execute` (`TypeInv`);
  that leases and owners belong to running rows and that a worker about to
  write `cancelled` has a row that was asked to be (`RowInv`); that a job
  claimed once has one worker (`SoleWorker`); what a still valid read promises
  to the transaction that made it, since the count of `CreateJobBounded` is
  stale for every other (`CapacityInv`); that rows are created in the order of
  seconds (`AgeInv`); that whoever claimed an unfinished job still executes it,
  is dead or lost its outcome (`AttemptInv`). `QuietStep`, `CommitStep` and
  `InsertStep` say what a step does to the set of active jobs, so the
  cardinality argument is made once. `RefinesLifecycle` maps every step to a
  step of `JobLifecycle` or to a stutter: `ReadForInsert`, renewals,
  heartbeats, takeovers and crashes are invisible to a client, and `Insert` is
  `Accept` although its count was made earlier.
* `ScanRun`: a worker holds a probe exactly between receipt and count, no two
  hold one (`HandsShape`); the counter lags the finished probes by the workers
  that are about to count (`CounterInv`); each dropped probe has a worker that
  left with it (`DroppedInv`). The last two are counted with the library's
  theorems on cardinalities. For `SomebodyCanMove`: a worker leaves before the
  channel is closed only when the context has ended (`LeftInv`), and then the
  producer's `select` has its other branch; so the producer does not wait for
  workers that are gone, nor they for it. `RunsAreBounded` counts the moves that
  lie before each worker. `SomebodyCanMove` speaks of guards, which it spells
  out. The two are what `Returns` rests on besides fairness.
* `Identity`: what a resolution has learnt of each identifier stays true,
  because rows are only added (`EvidenceSound`); before a merge an asset holds
  the identifiers of its own observation (`OwnIdentifiers`); an observation has
  no asset before it is attached and one afterwards (`LinkSound`). For weak
  evidence: every row of an address or a service set stems from an observation
  that joined the asset or one merged with it (`ContinuityInv`), and families only
  grow, so what a resolution found it by still supports its choice when it
  attaches, whatever is merged or expires between the two (`WeakInv`).
* `Derive`: a history is a chain (`FindingsInv`), so that appending a different
  state keeps it one; where a batch can be and that its asset exists by then
  (`PlaceInv`); that changes that wait name assets (`ChangesInv`); and
  `AnnouncedInv`: what a batch read as the classification before its own is as
  good as announced. This is what makes the read outside a transaction harmless:
  a batch that stays silent does so because the same classification was
  announced before.
* `Findings_proofs`: what waits in which stage (`StageInv`); an observation is
  attached to the asset of its batch or to one that asset ended up in
  (`LinksInv`); what an asset shows, and what its findings may say, some batch
  of its lineage has classified (`ProductInv`); what a record of an import has
  derived so far, unless another batch overruled it (`DerivedInv`); where the
  observations of merged assets are (`PlacedInv`); and `RaceInv`, for each
  asset and service: once a batch of its lineage that saw the service has
  looked, it is accounted for as the property says, or a batch of that lineage
  is still to look that will settle it: one whose observation another took for
  an earlier one (`Awaited`), or one whose asset was merged (`Late`). Beside
  them stand lemmas on lineages: that a merge adds the source's to the target's
  and nothing else changes one, and that an asset which stands for itself is in
  no lineage but its own.
* `OneSourceIdentifiesNothing`: folds are recursive functions on the subsets of
  what they fold. `FoldExists` and `FoldKeeps` say that such a function exists and
  what it keeps, by induction over sizes with sets in the place of predicates;
  then each source stays in its cap, penalties are not negative and the sum over
  at most one source is what it contributes.
* `Authorization`: a job has a row and its time from its enqueueing on, and is
  its own submission's answer (`RowInv`); `scan` reaches its print with a row
  of its own, which the listed one is not older than, or with none and an error
  to end with (`PrintInv`); what the API withdraws is its own job, and it is
  over or cancelled from then on (`WithdrawnInv`), so that `Claim` does not
  take it; what is in flight was permitted and recorded (`DialInv`).
* `Scope_proofs`: no row is of a later second than the latest (`TableInv`); a
  job that is run was admitted by the policy of the process that runs it, and
  all it dials is an endpoint of its payload (`AdmittedInv`); what a submission
  was told is what the engine answers, or the job of its key (`AnsweredInv`).
  Under these lie lemmas about the engine: a normalized prefix is a block of
  addresses, containment and overlap of prefixes are those of blocks,
  normalization keeps the address, and `ExpandPrefix` lists the hosts of the
  block. Powers of two are cardinalities of sets of subsets, which gives their
  laws without induction.
* `Install`: the applied migrations are a prefix and every process knows of no
  others (`MigrateInv`); what a command that runs alone has brought about at each
  place (`LonePlace`), and that it is the only active one.

Only model-checked, because fairness and `ENABLED` are out of the prover's reach:
the liveness properties `StaleWorkerStops`, `CancelReachesHandler`,
`UncancelledEnds`, `AttendedCancelEnds` and `Returns`. For `Returns` only the use
of fairness is left to TLC, see `ScanRun` above.

## 6. Where code and documents differ

* **A cancelled job that loses its worker never ends** (`cancel_crash`).
  `ClaimJob` (`store.go:460`) claims only rows with `cancel_requested=0`. When
  the process of a running job ends after the request, or its `FinishJob`
  fails, the row stays `running`, and counts against `jobs.max_queued`;
  `StrandedForEver` proves that it does so for good, in every instance.
  `docs/SECURITY_REVIEW.md:14` promises cancellation polling, bounded queue
  growth and expired-lease recovery.
* **The queue gauge** (`gauge_help`) is described as "Jobs accepted and not
  terminal in this process." It is incremented for an idempotent answer too,
  and a cancel of a queued job does not decrement it.
* **A conflict does not stay explicit** (`identity_explicit`).
  `docs/ARCHITECTURE.md:9`: a conflict asset is "pending operator review".
  `AttachObservation`, the next call, sets its status to `active`, and the
  classification of the same batch overwrites `ambiguous`.
* **Strong agreement after a merge** (`identity_merged_agreement`).
  `docs/DECISIONS.md:7`: "strong agreement can attach". The identifiers of a
  merged asset stay with it and are still found, so evidence that agrees with
  the surviving asset counts as a conflict.

## 7. Hazards without a property

Four hazards are listed that no property covers, because nothing in the
repository says what should happen: progress that a stale worker writes for a
job another has taken over (`store.go:495`); a scan that ends as `completed`
though no probe could be stored (`main.go:206`); a change that is recorded a
second time after a merge, because the dedupe key holds the old asset
(`store.go:587`); a finding that is never announced because its change was lost
(`main.go:220`). The models contain each of these steps.

## 8. Not modelled

* Browser sessions, CSRF and the login limiter: their hazards are lengths of
  time. The verification of a token is the membership `Live`.
* Loading, validating and reloading rule and advisory files: parsing. `Rules` and
  `AdvisoryBundle` are what was loaded; a reload swaps one pointer, and a batch
  uses the set it has read.
* The rates of the dialer's two limiters: no clock. That a wait ends with the
  context is modelled.
* The limit of 200 of `ListObservations`: no instance comes near it.
* Collectors and observation contract: network I/O and formatting. They appear as
  the content of a batch.
* Configuration outside the scope section; reads and lists of API and MCP; flags
  and printing of the command line other than the result of `scan`; domain types,
  fixtures and web console.
* Audit events, except where the result of writing one decides what happens next.

What could be added next: a composition of `JobManager` and `ScanRun` for
progress across attempts, and sessions with a clock of two instants.
