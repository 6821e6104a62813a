# TLA+ models and proofs of the Agent Engineering Workbench

This directory holds a verification project for `src/src/agent_py`: TLA+ modules
translated from the Python source, TLC configurations that check them on small
instances, and TLAPS proofs of the main safety properties for instances of any
size. Paths below are relative to `src/src/agent_py/` unless they begin with
another directory of the repository.

Contents: 1 the system, 2 the plan, 3 the modules, 4 the runs,
5 bounds, 6 fairness, 7 proofs, 8 findings, 9 what is not modelled.

## 1. The system

The workbench runs *tasks*. A task is a row in PostgreSQL (SQLite in
development) that a workflow in Temporal drives by one *tick* after another. A
tick carries a task's plan one action further: it *proposes* an operation,
waits for a person's *approval* if the tool is protected, commits the intent to
dispatch, sends the request to a remote authority, and records the answer. The
answer may be lost, so every operation has a durable status and a reconcile
loop asks the authority again. People stop, take over, resume and approve at any
time; workers crash; release, grants and policy change.

Every state change is one database transaction (`with db.session()`,
`db.py:334-343`), with row locks from `tenant_get(..., lock=True)`. What is hard
is what happens *between* the transactions of one handler.

### Inventory

| Component | State | Operations | Talks to | Hard behaviour | Correct when |
|---|---|---|---|---|---|
| **Action ledger** `service.py`, `domain.py` | `Task`, `Operation`, `Approval`, `Event` rows | stop, resume, propose, decide, execute, _record, reconcile, escalate_uncertain, finish | the authority (`adapters/simulation.py`, enterprise adapters), everyone who reads a task | crash between dispatch intent and record; late, lost, unconfirmed answers; approvals that lapse; stop against dispatch | one request an operation; verdicts true, final; a finished task quiet; uncertainty reaches a person |
| **Simulation harness, workflow** `harness.py`, `runtime.py:15-129` | local reads of one tick; the workflow's retries | AgentWorkflow.run, Activities.tick/_tick, SimulationHarness.tick | ledger, admission, authority | what a tick read is used several transactions later; two ticks at once (worker and CLI) | plan order; SUCCESS means the plan took effect; people's decisions stand; cancelled tasks end |
| **Worker admission** `scheduling.py` | `work_leases`, `tenant_gates` | acquire, release, check_execution_lease, admission_limit | runtime, `_executable` | dead workers, dead tickets, late releases, limit changes, resume | the current tick keeps its lease; grants in turn; no starvation |
| **Circuit breaker** `resilience.py` | `dependency_circuits`, `dependency_leases` | acquire, validate_permit, complete, read_with_policy, reset_circuit, set_read_limit | enterprise readers | late completions, dead probes, retries against expiry, resets that overlap | one probe; stale results do not close; recovery; places come back |
| **Task creation, outbox** `service.py:88-171`, `runtime.py:132-176` | `Task`, `Outbox`, idempotency keys, the tenant's gate | _create_task, dispatch_once | Temporal | concurrent creations of one key or at the queue's limit; crash between start and `delivered`; several releases | a client gets the task of its own request; the limit holds; each task is started |
| **Reconcile loop** `runtime.py:179-255` | cursor in memory | reconcile_once, serve_dispatcher | ledger | pages of 100 rows, exceptions that end a stage, a cursor that dies | each unresolved operation is visited again and again |
| **Inference ledger** `service.py:568-698`, `model.py` | `InferenceCall`, `InferenceBudget` rows | reserve, bind, claim, settle, `_generate` | model provider | crash after the claim; concurrent reservation; settlement on another day | one paid request a key; budgets never exceeded |
| **Repair harness** `repair.py`, `verification.py`, `sandbox.py`, `patches.py` | `RepairRun`, `RepairAttempt`, stored reports | tick, retry_verification | ledger, inference ledger, container sandbox | verification tokens, interrupted sandboxes, late reports, lock order | containers start once a token; an end follows from the attempts and stays |
| **Investigation** `investigation.py`, `investigation_loop.py`, `context.py` | `InvestigationRound` rows, saved decisions, the report | collect, compile, freeze, ask, decide, report | readers, inference ledger | ticks that start anew or beside each other while documents come and go | each round asks its frozen question; no call is paid in vain; one report |
| **Inbox** `webhooks.py` | `Inbox` rows | receive, consume | reconcile | duplicates, pages in no order, a notice that raises | one payload an identity, no notice forgotten |
| **Event feed, audit** `event_feed.py`, `audit.py`, `replay.py` | `Event` rows | page, export_audit, check_recording | browser, auditors | snapshots, order of events | no false gap; every reachable history accepted |
| **Artifacts** `artifacts.py` | `Artifact` rows, files | put, read | finish, repair | idempotent put | evidence before success |
| **HTTP API, browser** `api.py`, `src/web` | none | endpoints | all services | - | calls the ledger with the caller's identity |
| **CLI** `cli.py` | none | tick, emergency-stop, admission-limit, ingest, reset | all services | ticks outside the workflow | as for a worker |
| **Auth, grants** `security.py`, `auth_keys.py` | grants, keys | check_grant, tokens | every call | grants revoked later | closed gates refuse |
| **Releases** `releases.py`, `release_signing.py` | manifests | check, rollout | `_executable` | release withdrawn while tasks wait | closed gates refuse |
| **Audit signing** `audit_signing.py` | files | sign, verify | audit | - | pure functions |
| **Experiments** `investigation_experiments.py`, `retrieval_experiments.py`, `experiment_review.py`, `experiment_datasets.py` | an output directory: plan, jobs with their ledgers, records, report, curated dataset | create, resume, execute_job, summarize, audit, curate | model provider, harness | a runner that dies between two files; a lost answer or ledger; a changed checkout; evidence that changes between audit and curation | each call is paid once; records, reports and curated datasets say what happened |
| **Retrieval, evaluation** `retrieval.py`, `retrieval_evaluation.py`, `evaluation*.py` | none | ranking, metrics, gates | - | - | pure functions |
| **Enterprise readers** `collection.py`, `adapters/enterprise.py` | none | GETs | circuit breaker | transient answers | classify answers |
| **Telemetry, exports** `telemetry.py`, `observations.py`, `langfuse_*.py`, `operations.py`, ... | spans, counters | export | - | - | decides nothing |
| **Configuration, schema** `config.py`, `db.py`, `src/migrations` | settings, tables | - | all | - | enter as constants and row types |
| **Existing formal checks** `formal_check.py`, `src/formal` | - | - | - | - | the repository's own small models |

PROJECT.json's `components` gives the status of each, and its `hazards` lists
what in this code is hard to test, at the line where it bites, with the
properties that cover it or the reason why none does.

## 2. The plan

Order: the ledger first, because all other parts act through it; then what
drives it; then the two shared-resource protocols; then the parts that pay money
or run code; then the loops that must forget nobody.

| | Module | Composes / extends | Abstract spec | Runs | Proved | State |
|---|---|---|---|---|---|---|
| 1 | ActionLedger | - | ActionPromise (refined) | ledger | at-most-once, true verdicts, approvals, quiet and final termination, true results, the refinement | **done** |
| 2 | SimulationTick | extends ActionLedger | - | tick, tick_expiry | plan order, control kept | **done** |
| 3 | Admission | - | - | admission, admission_control | lease kept, grants in turn | **done** |
| 4 | CircuitBreaker | - | - | circuit | one probe, threshold, closing | **done** |
| 5 | InferenceLedger | - | - | inference | one paid request, saved decisions, balanced books, covered money | **done** |
| 6 | RepairLoop | inference ledger as `paid` | - | repair | no relaunch, earned ends, stops for good | **done** |
| 7 | Investigation | inference ledger as `paid` | - | investigation | reproducible rounds, one report, no wasted call | **done** |
| 8 | TaskIntake | - | - | intake | own answers, queue limit | **done** |
| 9 | ReconcileRound | ActionLedger's reconcile as one step | - | round | - (its properties are liveness) | **done** |
| 10 | ExperimentRun | a job's ledger as one call | - | experiment | bounded spending, true evidence, reviewed curations | **done** |
| 11 | AuditReplay | ActionLedger with the event history | check_recording as an acceptor | - | - | not done, see section 9 |
| 12 | DispatchSteps | ActionLedger at statement level, row locks as state | ActionLedger | - | - | not done, see section 9 |

Several questions share a run, so that the whole set stays small enough to be
repeated with each change of the code.

## 3. The modules

One action is one database transaction, or one remote call, or one file put in
place, or one event of the environment. A transaction that raises rolls back and
is a stuttering step. Conventions: a definition keeps the name of what it
models; a comment that begins with *Faulty* marks a definition that is **not**
part of the specification: it is a plausible bug in the definition below it, kept
to show which property excludes that bug (PROJECT.json `mutants`).

### ActionLedger (`service.py`, `domain.py`, `adapters/simulation.py`)

One task, a set `Op` of operations that may be proposed for it, threads that
execute (`Executor`: worker ticks, ticks from the command line) or reconcile
(`Reconciler`: the dispatcher's loop).

| Variable | Code |
|---|---|
| `task` | `Task.status`, `waiting_reason`, `result`, `cancel_requested`, `human_takeover` |
| `op[o]` | `Operation.status`, `attempts`, `recovery_status`; `old` is "updated_at is 15 minutes ago" |
| `approval[o]` | `Approval.status`; `expired` is "expires_at has passed" |
| `remote[o]` | the authority: requests received, and whether it holds a receipt |
| `verified` | a `verification` artifact exists |
| `closed` | conditions that refuse at present: release, deadline, grant, emergency stop, disabled tool, the approver's grant |
| `call[t]` | the thread is between two transactions of execute or reconcile |

| Action | Code |
|---|---|
| `Stop`, `Resume`, `Propose`, `Decide` | `Service._stop`, `_resume`, `_propose`, `_decide`, including their last re-checks |
| `ClaimDispatch` | first block of `execute`: every check of `_executable`, tool and approval, then the compare-and-swap to PENDING |
| `RemoteExecute` | the call outside any transaction: effect and receipt commit together and the answer is the receipt, a receipt without confirmation, or lost; or it is refused with no effect; or it raises with no effect |
| `StartReconcile`, `QueryFinds`, `QueryUncertain` | `reconcile` up to the answer |
| `RecordOutcome` | `_record`, for both |
| `EscalateUncertain` | one row of `_escalate_uncertain` |
| `Finish` | `_finish` |
| `PutVerification` | `ArtifactStore.put` of the evidence |
| `Crash`, `Age`, `Expire`, `Environment` | a process dies or its call raises; time; policy |

*Atomicity.* On PostgreSQL a block that holds its rows' locks is one step. Three
places need an argument. `execute` locks the operation and then the task, and
`_finish` locks the task and reads the operations unlocked: if `_finish` comes
first, `execute`, which waits for the task, sees it terminated; if `execute`
comes first, `_finish` waits for the task and then reads the committed PENDING
(READ COMMITTED takes a new snapshot for each statement). `_decide` reads the
task without a lock and writes the approval alone, so one that overlaps a stop
is ordered before it. On SQLite `FOR UPDATE` does nothing and this argument
fails: see the hazard at `service.py:395`.

*Data left out.* The task's version (its compare-and-swap fails only for a stale
client, which then changes nothing), digests and payloads, the event rows that
`emit` writes in the same transaction, the identity of the caller (a `Gate`).

### ActionPromise

What all of that amounts to for a reader of the task: claims, effects, verdicts
and a result, without threads, answers, approvals or polls. A verdict is true,
given once, and forecloses a later effect; a result is given once, when every
claimed action has been judged. ActionLedger's `KeepsPromise` is the refinement. It is
checked by TLC and proved in ActionLedgerProofs.

### SimulationTick (`harness.py`, `runtime.py:15-129`)

Extends ActionLedger by the control flow of `SimulationHarness.tick`: `tick[t]`
is the place of thread `t` in the function, with what it remembers from its
first transaction (which operations it saw unresolved, whether the task was
being stopped). `Worker` threads belong to the workflow, whose `workflow` and
`failures` follow `AgentWorkflow.run` and its retry policy; other executors are
`agent tick` from the command line, which handles no `DomainError`. The workflow
runs one activity after another, so one worker's tick at most is under way
(`Begin`). `People` and
`Background` are the ledger's other actions, at any moment.

Left out: the leases of Admission (`WORKER_LEASE_LOST`), the authority's
resource revisions and conflicts (a healthy resource is "the plan's last action
took effect"), age and escalation (no tick reads them). SimulationTick does
**not** satisfy ActionLedger's `SettledIsTrue`, and is not claimed to implement
its `Spec`: `Refuse` records FAILED without a request (see Findings).

### Admission (`scheduling.py`, with `runtime.py:45-98` and `cli.py:209-222`)

All tasks and worker threads of a tenant. `queue` and `holder` are the rows of
`work_leases` (a task has at most one, waiting or owned), `ahead` the order of
`enqueued_at` among the tickets (the set of older tickets, rather than a
number, so that nothing has to be bounded), `stale` the rows whose `expires_at`
has passed, `limit` the gate's `max_active`, `thread` the ticks. `Acquire` is
the whole of `acquire`: control-only ticks, the purge of expired rows and of
tickets of stopped tasks, the refusal of a second tick, the ticket, the grant.
Every one of them holds the gate row's lock from its first statement.

Two durations of the code appear as guards of `Expire`. A lease (330 s at least,
`config.py:49`) outlives the activity that took it (300 s, `runtime.py`), so the
lease of a *current* tick does not expire; this is what the code relies on, and
a worker whose clock or scheduling breaks it is outside the model. The
workflow's next poll (15 s) comes before a ticket expires (90 s), but only for
`Punctual` tasks, a subset.

### CircuitBreaker (`resilience.py`, with `adapters/enterprise.py`)

The row and leases of one dependency, any number of readers, each somewhere in
`read_with_policy`, and operators. A permit is the generation and probe token of
the row that gave it out, and `Matches` compares it with the row as `complete`
and `validate_permit` do. While the generation is below `MaxGeneration`
(`Trouble`), authorisations fail, providers err, processes die and reads overrun
their leases; above it reads are undisturbed. `Attempts` is 3 in the code.

`reset_circuit` is two steps. `ReadForReset` is its first query, which takes no
lock; `CommitReset` the rest under the lock. `lock_circuit` selects the row
again there, but the session has the object already and keeps what it read first.
So the generation that is written is the old one plus one, and a column is
written only where the *old* row differed from what a reset sets it to. `operator[p]`
is what was read (`Snapshot`: the generation, and which columns will be written),
and `overlapped` records that a reset was written over a row whose generation had
changed since. `set_read_limit` reads in the same way, but writes one column whose
value does not depend on the read, so that it is one step.

### InferenceLedger (`service.py:568-698`, `model.py:143-285`)

The paid model calls of a tenant: `reservation` (the `Reservation` rows),
`spent`, `reserved` and `day` (`Task` and `DailyBudget`), the `provider` with the
requests it got and what it charged, and `thread`, a tick's place in
`AnthropicGateway._generate`. `Reserve`, `Bind`, `Claim` and `Settle` are the four
transactions, each with all its checks; `Send` is the request, whose answer may
be a decision, an answer without a valid one, or lost, and which may not arrive;
`Leave` is the end of the caller or its death at any point. A request stands for
what its digest binds, and a tick may come with another one than the row has.
`executable` is `_executable` for each task, which people and policy change.

### RepairLoop (`repair.py`, with `verification.py`, `sandbox.py`, `patches.py`)

The repair of one task by any number of ticks.

| Variable | Code |
|---|---|
| `run`, `attempt[n]` | the `RepairRun` and `RepairAttempt` rows; `claims` is `verification_count`, `old` is "overdue" (`repair.py:458`) |
| `paid[n]` | the reservation of the attempt's call key, after InferenceLedger: sent once, saved once |
| `report[<<n, k>>]`, `started[<<n, k>>]` | the stored report of a verification token, and how often its containers were started |
| `tick[w]` | the place of a tick between two transactions, and what it has read |

A token is drawn for each claim, and each claim counts; so a token is the pair
of attempt and count. `Claim`, `Recover`, `Verified`, `Interrupt` and `End` are
the conditional updates of `repair.py:446-606`, `Drift` and `Stale` the two
unconditional ones (`repair.py:293`). What people, policy, sources and time do is
met by a tick as a check that refuses (`Refuse`), a comparison that fails
(`Begin`, `Validate`) or an end (`Crash`, `VerificationRaises`), any of them
until the world is `calm`. The deadlock between `retry_verification` (task, then
attempt) and a tick that ends an attempt (attempt, then task) is the tick that
loses: `VerificationRaises` with the report stored. What the two containers print
is `Exit`; `VerdictOf` is the table of outcomes.

### Investigation (`investigation.py`, `investigation_loop.py`, `context.py`)

Both workflows over one task: "investigate" asks once, "investigation_loop" up to
`MaxRounds` times. A bundle is the set of its documents, which its digest stands
for; a query retrieves `About[query]`, and two queries with one `Normal` are the
same question. `rounds` are the frozen rows (`insert_once`), `paid` the
reservations with the request they bind, `reports` the analysis artifacts.
`ReadRound`, `Freeze` and `GoBy` are what makes a tick go by the row rather than
by what it has compiled itself; `Judged` and `Follows` are its two decisions.
The paid call is the four transactions that it is in the code, with a death
possible between any two: `Decide` reserves `Maximum[bundle]` or finds a
reservation, which must be of the same maximum; `Bind` fixes the request, or
finds it fixed to another, a conflict; `Claim` is the one compare-and-swap from
BOUND to SENT; `Answer` settles. A decision that `Bind` finds saved is used
without a claim.
Documents are imported and revoked at any time, calm or not.

### TaskIntake (`service.py:88-171`, `runtime.py:132-176`)

`_create_task` is one transaction, but only its second half holds the tenant's
gate: `Lookup` is the read before it, `Count` the gate's lock with the second
look at the key and the count of the queue, `Insert` the rows and the commit.
`Leave` is a client that has its answer or loses it, or dies before the commit,
no code of its own.
`TakeUp`, `Requeue` and `Close` are what ticks, people and workflows do to tasks
meanwhile. A dispatcher fetches a batch of undelivered rows of its own release
(`Due`), starts a workflow for each (`StartWorkflow`, whose identifier makes it
idempotent while one runs; `StartRaises` may or may not have reached the server)
and marks it. The handler of the constraint on (tenant, request_key) is not
reached while the gate excludes a second insertion, and is left out.

### ReconcileRound (`runtime.py:179-255`, `webhooks.py`)

The two stages of a dispatcher's round for operations whose outcome is unknown.
What a reconciliation does step by step is ActionLedger's; here it is one step,
and the question is who ever gets one. `FetchPage` sets the cursor to the page's
last row before any of them is polled, as the code does; an escalation that
raises ends the stage; `FetchNotices` returns any page of waiting notices, since
the query has no order; `FollowRaises` ends the stage for the notices behind it.

### ExperimentRun (`investigation_experiments.py`, `retrieval_experiments.py`, `experiment_review.py`, `experiment_datasets.py`)

One output directory, of either runner. `publish_json` writes a file beside its
place and links it there, so each file appears in one step and none is replaced
but `report.json`. The runner's place is `runner`, and `Crash` ends it between
any two files. `Prepare` makes a job's directory, `started.json` and ledger;
`Dispatch`, `Send` and `Settle` are the one paid call (a second one needs the
decision of the first, so that one stands for all); `PublishAnalysis`,
`PublishResult`, `PublishReport` are the files after it. `Scan` is what a resumed
run verifies before it starts a job, `Recoverable` which unfinished jobs it may go
on with.

What the provider took (`overrun`) and what the ledger shows (`exceeds`) are two
fields. The ledger learns the usage only from an answer that `Settle` can read
(`model.py:253-265`); of a lost one it has the maximum that was reserved, which
the budget covers. `Violations` reads the ledger, and `Operate` is the other
thing that it reads: an operation in a job's state.db, which no investigation
makes.

A retrieval archive is curated in three steps. `Review` is somebody's audit and
the request they write from it, with the evidence digest as the set of records
they saw; `Curate` verifies the archive anew and refuses unless the report
matches, the split is `development`, the evidence is the request's (`Audited`)
and each chosen case is in the review queue (`Failed`, which leaves out the
strategy `none`, `Baseline`); `PublishCuration` are the two files after the first.
`LoseLedger`, `Operate`, `Alter` and `ChangeSource` are what people do to files
and checkout between runs, and to the checkout also during one.

### MC modules

Each `MC...` module names the model values and small sets for TLC, and, for runs
without liveness, the symmetry sets.

## 4. The runs

All runs: `tlc -workers 2 -config <run>.cfg <module>`, seconds to two minutes
each. Deadlock checking is off: a task really may stop (a finished task, a
workflow at its end, processes that stay down), which is a legal end of every
behaviour here.

**ledger** (one protected operation; two executors, a reconciler, one gate).
Stops, takeovers, resumes, proposals, approvals, expiry, crashes and every kind
of answer.
- `AtMostOneRequest`: the authority gets at most one request for an operation.
- `VerdictIsTrue`: a SUCCEEDED operation has a receipt, a FAILED one has no
  effect and can have none later. (That neither verdict is ever replaced is part
  of the refinement of `ActionPromise`.)
- `DispatchedWasApproved`: a protected operation that was ever dispatched has a
  standing approval.
- `TerminatedIsQuiet`, `TerminatedIsFinal`: a finished task has nothing on its
  way, and no late thread changes it, its operations or the world.
- `ResultIsTrue`: SUCCESS, FAILED, CANCELLED are what the ledger supports.
- `KeepsPromise`: the refinement of ActionPromise.
- `UncertaintyIsEscalated`: an unresolved operation is resolved or handed to a
  person, although polls keep answering "not yet".
- `EffectIsRecorded`: an effect the authority holds reaches the ledger.

**tick** (a plan of two steps, the second protected; the workflow's worker, and
a tick from the command line beside it).
- `PlanInOrder`: the plan's order holds with two ticks and people who propose
  out of order, and SUCCESS means the whole plan.
- `ControlIsKept`: what a person decided stays, whatever a tick read before.
- `CancelledEnds`: a cancelled task terminates, unless an outcome stays unknown
  or the workflow gave up after its retries.
- `ApprovedActionIsTaken`: an approved action whose turn has come is dispatched.

**tick_expiry**: violation, see Findings.

**admission** (two tasks, one of which may stop polling; two threads; limit 1,
settable to 2).
- `CurrentTickHoldsLease`: no purge, late release, stop, resume or limit change
  takes the lease of a tick that Temporal waits for.
- `GrantsInTurn`: a grant leaves room within the limit for every older ticket.
- `EveryTicketIsServed`: no starvation, past dead tickets and workers.

**admission_control**: violation, see Findings.

**circuit** (two readers of up to two attempts, an operator, three probe tokens, a
limit that may be lowered from 2 to 1).
- `OneProbe`: in HALF_OPEN one read may be sent or believed, in OPEN none.
- `ClosesByProbe`: only a probe or an operator closes an open circuit.
- `RecoversByItself`: once disturbances no longer raise the generation, the circuit
  closes, with nobody obliged to reset it. Readers that died with their leases must
  give their places back for that, in particular when the limit was lowered to 1
  below the reads in flight; and it holds also from the rows that a reset leaves
  behind which was written over a change: a closed row with a probe token, an open
  one with an old generation.

The first two are stated of the behaviours in which no reset was written over a
change it had not read (`overlapped`). Without this they are false of the code; see
the first remark in section 8. With one operator a reset overlaps readers, openings
and probes, and those states stay in the run.

**inference** (two calls of a task, two threads, requests of equal and of
different size, charges below and above the maximum, two days).
- `OnePaidRequest`: the provider is asked at most once for a call.
- `ReturnedIsSaved`: a decision that is used is the one saved with the call's
  cost, for the request that was asked.
- `BooksBalance`: spent and reserved of tasks and days are the sums over calls.
- `MoneyIsCovered`: the provider's charges, those of dead and failed ticks too,
  are covered by the books and the books by the budgets, but for what the
  provider charges beyond a request's maximum (which
  `src/docs/investigation-experiments.md:26` grants it).

**repair** (two ticks, one attempt, two claims, passing and failing containers).
- `NoAutomaticRelaunch`: containers start once for a token, and for an attempt
  only once more than operators asked for.
- `EndIsEarned`: a verdict is its own token's report; a later attempt follows a
  failed one; the run's end follows from the last attempt.
- `StopsForGood`: verdicts and ends stay, and nothing is paid after an end.
- `RepairSettles`: left alone, a repair comes to rest: no verification is pending
  for ever, no stored report overlooked.

**investigation** (two ticks, three rounds, three questions, two documents).
- `Reproducible`: a tick that comes again asks each round's frozen question.
- `NoWastedCall`: a call is paid for only while the investigation goes on, after
  every earlier decision, about new evidence; and no tick pays twice.
- `OneReport`: one report, which holds every paid decision and says what
  `investigation_details` shows.
- `InvestigationEnds`: left alone it reaches people, or stays at one of the named
  obstacles (`Stuck`) that the code leaves to them: a lost answer, revoked
  evidence, a source that answers with what was revoked, no evidence, and, in the
  one-shot workflow, a call that was reserved, bound or decided for another bundle
  than the documents give now (`Conflict`).

**intake** (two clients, two keys, two bodies, two releases of which one is
served, a queue of one, batches of one).
- `AnswerIsOwn`, `QueueKeepsLimit`, `EveryTaskIsStarted`: see the properties'
  comments; the last one past dispatchers that die between start and mark.

**round** (three operations in pages of two, two notices in pages of one, a
dispatcher that may die once).
- `EveryOperationIsPolled`: the cursor passes nobody over for ever.
- `EveryNoticeIsFollowed`: nor does the inbox.

**experiment** (three jobs of either kind, of two cases, the first job a baseline;
two implementations).
- `SpendingIsBounded`: through crashes, resumes and lost ledgers each call is paid
  once, none after a job whose ledger shows an overrun, none over evidence known to
  be altered; an overrun that no ledger shows belongs to a record UNKNOWN.
- `EvidenceIsTrue`: reports of completion and records say what happened.
- `CuratedAsReviewed`: a curated dataset has the failures its reviewer saw for the
  cases they chose, all of them, none of the baseline's, none of a holdout, though
  runs are resumed and files edited between audit and curation, and afterwards.

Every property has a *mutant* in PROJECT.json: a plausible bug in one mapped
definition with which TLC refutes the property under the run's own configuration.

## 5. Bounds

No variable is cut off by a state constraint. InferenceLedger's `LastDay`,
ReconcileRound's `MaxCrashes` and CircuitBreaker's `MaxGeneration` bound one
variable each in a guard; what bounds the
rest is the size of the constant sets and the code itself (an operation is
dispatched once, so `attempts` and `requests` stay at 0 or 1 without a bound
being imposed).

- *One protected operation, two executors, a reconciler.* The ledger's properties
  speak of one operation but for the result and the end of the task, and a
  violation needs a sender, a late answer and a third who looks. Several
  operations occur in `tick`; and the theorems cover any number of operations,
  threads and gates.
- *A plan of two steps.* Order, skipping and end of plan occur. The harness has
  a plan of two steps (runbook, rollback) and one of four (pull request, CI,
  merge, deploy); each step looks only at itself.
- *`MaxAttempts`* 2 in `tick` for the workflow's retries (3 in `runtime.py`): the
  third would only repeat the second. `tick_expiry` has 3.
- *Two tasks, two threads, limits 1 and 2.* An older and a younger ticket, a
  lease that is late, abandoned or dead beside the current one. The safety
  properties are theorems for any number; the liveness of the older ticket does
  not depend on how many younger ones there are, since they wait behind it.
- *`MaxGeneration`* 3, three probe tokens: from this generation on nothing disturbs
  reads and nobody begins a reset (`Trouble`, `ReadForReset`), so that only probes
  still raise it, which then succeed. An opening, a probe that dies or fails and a
  reset at any of these points come before; a reset that writes an old generation
  lets the trouble go on. Each disturbance of a circuit that is not closed raises
  the generation, so the bound is what makes "undisturbed for good" come about. Two
  readers need three tokens at most, the row's and those of two permits; a new probe
  takes one that nobody has.
- *One operator*: a reset overlaps openings, probes and completions. Two resets that
  overlap each other are the remark in section 8.
- *Two readers, `Threshold` 3, `Attempts` 2.* The threshold is the code's, so that the
  count reaches it; of a read's three attempts the second stands for the third, as
  each is checked in the same way. Two readers are a probe and a late read; the
  safety properties are theorems for any number of readers and attempts. `failures`
  saturates at `Threshold` (`FailuresAfter`): the code counts on but compares only
  with 3.
- *Two calls of one task, two days, budgets 3 and 2.* Day and task budget each
  refuse a reservation that the other allows; an overcharge, a refund, a
  settlement on the next day and a second thread at each place occur. One task
  is enough, since tasks differ only in the sums they enter.
- *One attempt, two claims, two ticks* in `repair`: a claim after a retry beside
  the first one's late report needs two of each. With one attempt, the clauses of
  `EndIsEarned` and `StopsForGood` about earlier attempts, exhaustion after several
  and a generation paid for after an end say little in the run: two attempts with two
  claims each are beyond what its liveness can be checked for. The theorems prove
  them for any `MaxAttempts` (`RepairBinding.max_attempts` is 2).
- *Three rounds*, as in the code; queries and documents such that each way to end
  occurs (no evidence, no progress, stop, repeated question, last round). No two of
  the three queries are one question written in two ways; the theorems hold for any
  `Normal`.
- *`Maximum`* is the size of the bundle, and the two documents have one size: a
  changed bundle may have another maximum, the conflict of `reserve`, or the same
  one, the conflict of `bind_inference`.
- *A queue of one, batches of one, two keys.* A full queue, a conflict of keys
  and a row behind another in the backlog occur. The safety properties are
  theorems for any number.
- *Pages of two of three operations, of one of two notices*: a page that is full,
  one that is cut short, one behind which nothing is left.
- *Three jobs*: an earlier one that is recorded, the current one, one not begun; two
  cases, so that one may be chosen and the other not, and a baseline beside another
  job of its case. Theorems for any number of jobs, cases and baselines.

## 6. Fairness

Safety needs none. The fair specifications assume:

- *ledger*: `serve_dispatcher` (`runtime.py:227-255`) calls `reconcile_once`
  in an endless loop and swallows exceptions, so each unresolved operation's
  reconcile starts again after each crash (SF of the start, as the thread is
  busy with others in between, WF of its steps). The authority shows a receipt
  it holds at last, and not *every* attempt dies between the answer and
  `_record` (SF). Time passes (WF of `Age`). Nothing of executors or people.
- *tick*: Temporal starts the next activity while the workflow runs, and a
  tick that has not died goes on (WF of `TickStep`); receipts are shown and
  recorded at last (SF). Retries are limited by `MaxAttempts`, so crashes are
  not assumed away: after them the workflow has failed, and the properties say so.
- *admission*: ticks end (activities time out after 5 minutes), time
  passes, Temporal's task queue gives the polls of a punctual task to a thread
  again and again (SF, threads being busy now and then), and people do not
  resume tasks for ever. Without the last, tasks that are taken over just after
  a grant and resumed before each poll could starve the others.
- *circuit*: time passes, undisturbed reads go on (WF), and tasks keep
  asking for reads although capacity may be taken at the moment they try (SF).
  Operators need not finish a reset they began, nor ever begin one.
- *repair*, *investigation*: a tick that has begun goes on and the workflow begins
  one after another (WF of `TickStep`), time passes (`Age`). Faults need
  `~calm`, and the properties speak of the time after it; documents come and go,
  and calls fail, also then.
- *intake*: a dispatcher goes round for ever (WF); not every start of a given
  workflow fails and not every attempt dies between start and mark (SF). Nothing
  of clients, ticks or people.
- *round*: the same loop (WF); an escalation does not raise, and a notice's
  reconcile does not fail, every time (SF). A notice whose reconcile raises for
  ever would hold up those that come after it in its page, in every round.

## 7. Proofs

`tlapm <module>` checks all of them to the last leaf. The only assumptions are
those on the constants (`LedgerAssumption`, `TickAssumption`,
`AdmissionAssumption`, `CircuitAssumption`, `InferenceAssumption`,
`RepairAssumption`, `InvestigationAssumption`, `IntakeAssumption`,
`ExperimentAssumption`): sets are arbitrary (finite where a cardinality or a sum
is taken), limits are naturals, a plan is a sequence without repetition. TLC
evaluates them in the runs.

**ActionLedgerProofs.** None of the safety properties is inductive: that FAILED
is true depends on what the thread that recorded it had learnt. `LedgerInv`
strengthens them with what each thread between two transactions knows:
- `AttemptsMatchStatus`, `BusyWasClaimed`: a thread is only ever busy with an
  operation that was claimed once;
- `SenderOwnsOperation`: who is about to send is alone, the operation is
  unresolved and the authority has had no request;
- `RequestWasClaimed`, `AnswerIsTrue`, `SettledIsTrue`: a receipt needs a
  request, a request a claim; answers in a thread's hand and verdicts are true;
- `TerminatedIsResolved`: finish found nothing unresolved and nothing becomes so.

`InvStep` has one lemma per group of actions. `LedgerInvariant` then gives
`LedgerTypes`, `AtMostOnce`, `VerdictsAreTrue`, `ApprovalsStand` and
`TerminationIsQuiet`; the action properties `TerminationIsFinal` and
`VerdictsAreFinal` follow step by step from it; `ResultsAreTrue` by a further
induction, since only the step that terminates writes the result.

*The refinement.* `LedgerKeepsPromise`: every step of ActionLedger is a
step of ActionPromise under the mapping, or leaves what it promises alone. Each
action is mapped under `LedgerInv`; the abstract guards that the code has
nowhere (a verdict only after its effect is settled, a result only when every
claim is judged) are what the invariant supplies, and `ResultIsLast` what a
terminated task needs.

*The workflow.* `LedgerInv` does not hold under SimulationTick, since `Refuse` may
fail an operation whose request is under way (finding 1); so `TickInv` keeps what
survives that. `OnlyClaimed` and `OnlyReceipts`: rows, threads and authority show
nothing that was not claimed, and SUCCEEDED only with a receipt. `ClaimsInTurn`,
`TicksInTurn`: a tick stands at a step only when the earlier ones have succeeded,
and a claim is only made from there. `EndInTurn`: evidence and SUCCESS come after
the whole plan. `CancelledShows`, `OneActivity`: what a stop wrote, and how
attempts are counted. What makes these agree with steps of others is that
SUCCEEDED is absorbing (`SuccessStays`), so that what a tick has passed stays
passed however late it acts. Every step is first classified by what it does to
the ledger (`KindsOfStep`); most are ActionLedger's and need no second proof of
types. `PlansGoInOrder` and `ControlStays` follow. With more than one worker
`failures` could exceed `MaxAttempts` until `Begin` said that activities exclude
each other: the attempt to prove `OneActivity` showed that it was missing.

**AdmissionProofs.** `AdmissionInv` is types, `CurrentTickHoldsLease` and
`RowsAreConsistent`, the part that makes it inductive (one row a task, tickets in
one order): a release could otherwise delete another's row, a purge a ticket that
is also a lease. `GrantsInTurn` follows from `Poll`, the only step that grants, with
cardinalities of disjoint finite sets.

**CircuitBreakerProofs.** `CircuitInv` adds `PermitsMatchState`: no permit is newer
than the row, nor as new as an open one, and one at most has the row's probe
token. It is what makes a late completion harmless. `ResetsReadTheRow` is what an
operator's read still says of the row while the generation is the one it read: that
is why a reset that overlaps no change writes what it means to write. Both hold
until `overlapped`. `OnlyProbesClose` and `SingleProbe` follow, for any number of
readers, operators and tokens; `ThresholdOpens` says that what stays closed has not
counted to three.

**InferenceLedgerProofs.** `CallInv`: whoever may still send or settle a call is
alone with it (`BusyIsAlone`), goes by the row's own request (`BoundToRow`), and
the rows say of themselves what happened (`RowsAreHonest`). `ReturnedIsSaved` is
one of its parts, because a row that somebody has read must not change.

`MoneyInv` is about the sums. `AccountsAgree`: in each account (a task, a day)
spent is the sum of what was saved, reserved the sum of what is held, and both
together exceed the budget only by what the provider charged beyond a maximum;
`CostsAreKnown` ties each row to the provider's charge, in particular that a
charge nobody has saved is held in full. A transaction changes one call, so each
sum changes by one summand. The sums are folds over sets; what they obey is proved
in the section "Sums of a function over a finite set" without induction on data:
the naturals' order is well-founded, so the cardinalities of the sets without a
sum would have a least one, which the recursive equation contradicts. From its
existence and uniqueness come the facts in use: empty sum, a summand taken out,
one changed, termwise comparison. `BooksAlwaysBalance` and `MoneyStaysCovered`
hold for any number of calls, tasks and days.

**InvestigationProofs.** In `InvestigationInv` everything follows from the frozen
rows, which are written once (`RowsFollow`, `NoRows`): they are consecutive, none
comes after one that stops, and each asks something `Fresh`. What a tick has read
of them may be fewer than there are by now but is never wrong (`GoodTicks`:
`LoopTicks`, `OnceTicks`, `ReportTicks`); what is paid was asked for in a row
(`PayingTicks`, `AnswersApart`); a report says what the rows amount to
(`Reports`). That other ticks leave this so is one lemma, from rows and reports
only growing. `Reproducible`, `OneReport` and `NoWastedCall` follow, for any
queries, documents, `MaxRounds` and number of ticks. The proof uncovered that
`StopAt` had been a `CASE` with overlapping guards, whose value is any of the
branches that apply; it is now the chain of tests that the code has.

**RepairLoopProofs.** A tick acts on what it read before others wrote. `RepairInv`
says what of it is still so (`GoesBy`): a claimed token has one owner
(`OneOwner`) and no report until that owner stores it; claims exceed retries by
one at most (`RowsAgree`, `TokensAgree`); attempts follow failed ones (`Chain`);
an end in a tick's hand is `Earned`. That other ticks' steps keep it so is one
lemma, from what never goes back (`Grown`): verdicts, reports, payments, counts.
Counting the tokens that were launched needs cardinalities of intervals.

**TaskIntakeProofs.** `IntakeInv` (`KeysDiffer`, `AnswersMatch`, `GateHolds`): keys
differ, the one creation that holds the gate (`counted`) has seen no task of its key
and room in the queue, and nobody can take either away while it holds it; a resumed
task does not count. The gate's exclusion is what the proof turns on, as the queue's
own lock is missing.

**ExperimentRunProofs.** `ExperimentInv` ties a job's files, ledger and payment
(`RowAgrees`): a paid job without its call in the ledger is one whose ledger was
lost, and its stage (`started`) is what the scan refuses to go on with. A job whose
overrun its ledger does not show has an undecided call, and so a record UNKNOWN; one
whose ledger shows it stops the runner. With that, `RunnerAgrees` says what a runner past the scan may rely on. What a curated
dataset was made from is compared with records that are never replaced, so that
`CurationsAreReviewed` needs of `Curate` only what it checks.

**Only model-checked:** every liveness property, with ReconcileRound as a whole
(liveness under fairness is outside what the installed TLAPS backends prove).
All invariants and action properties of the passing runs are theorems.

## 8. Findings

1. `tick_expiry`, `harness.py:130-138`. A tick whose execute raised
   APPROVAL_REQUIRED reads the approval in a new transaction and, if it is
   rejected or expired by then, records FAILED without looking at the
   operation. Another tick may have dispatched it in between. The ledger then
   shows FAILED, and the task may end as FAILED, for an action that takes effect.
   `src/docs/architecture.md:9`: UNKNOWN before a guessed failure.
2. `admission_control`, `scheduling.py:36`. A control-only tick has no lease;
   after a resume it may dispatch beside and beyond the leased ones, because
   `check_execution_lease` passes whatever has no admission context.
   `src/docs/operations.md:19`: the execution entry checks token and validity.

Remarks, met while modelling and true of the models as of the code; no run
states them:

- `resilience.py:190-200`: a reset goes by a row that it read without the lock. Two
  resets that read the same generation both write the next one, so that permits given
  out between the two are valid again after the second; and if the row was CLOSED when
  the second was read, it leaves a circuit OPEN that opened in between. Two operators
  read generation 0; one commits 1; two readers get permits of 1; one of them fails
  with a retry hint and opens the circuit at 2; the other operator commits 1; the
  second reader's success matches and closes the open circuit.
  `src/docs/dependency-resilience.md:61` says that a reset increments the generation
  and old permits cannot overwrite the new state. `OneProbe` and `ClosesByProbe` are
  therefore promised only while `overlapped` is FALSE.
- `harness.py:111` (also 45-46, 137-138): for a failed or cancelled task the tick
  reports done whatever `finish` did; `finish` leaves a task that was taken over
  meanwhile, that waits for reconciliation, or that has an operation nobody
  submitted. The workflow ends and the outbox starts no other, though
  `src/docs/runbook.md:46` keeps a blocked or taken-over task's workflow active.
- `investigation.py:70`: the one-shot workflow compiles its bundle anew in each
  tick. When documents changed after the call was reserved, bound or paid, and the
  tick that did so died or raised, every later tick meets `BUDGET_CONFLICT` or
  `INFERENCE_CONFLICT`, though nothing was sent in the first two cases; `Conflict`
  names it.
- `model.py:212`, `:282-285`, `investigation_experiments.py:474-477`: a call whose
  answer is lost or unreadable is settled at its maximum. If the provider took
  more, no ledger shows it, the job is recorded UNKNOWN, and the later jobs are paid
  for. `SpendingIsBounded` says exactly this.
- `webhooks.py:87`: a notice whose reconcile raises every time holds up those
  that the database returns behind it.
- `investigation_experiments.py`: the final check that makes a report INVALID
  when the implementation changed is not durable; a run that dies before it, or
  is resumed with the old implementation restored, reports COMPLETE.
- The same runner cannot resume a directory whose process died before the plan
  was frozen, or between the files of a job's start; nothing was paid then.

## 9. Not modelled, and why

- *Event feed and audit replay.* Readers decide no transition. That every history
  the ledger can produce passes `check_recording` would need the event history
  as state, which multiplies ActionLedger's states beyond what a run can visit.
- *SQLite's missing row locks* (`service.py:395`): ActionLedger models the
  production database, where a lock makes each block one step.
- *Admission and ticks in one state* (`runtime.py:113`): Admission's control-only
  ticks already show what a tick without a lease may do; the rest of that hazard
  is a waiting reason, which the next tick replaces.
- Pure computations without shared state: retrieval, evaluation, metrics,
  signatures, schemas, patches, the parsing and rendering of the API and the
  command line. Nothing interleaves there.
- Observation: telemetry, exports, metrics, the web pages.
- Configuration and migrations: settings are constants, tables row types; a
  migration runs while the system stands still.
- The existing formal checks and operator scripts: tooling, not the system.
- Wall-clock arithmetic: time is the order of a few events (ageing, expiry,
  cooling); the durations that order them are named in section 3.
- The authority's, Temporal's, the provider's and docker's own implementation:
  they appear by what the code relies on them for.
