# Verification of the agent reliability runtime

TLA+ models of the runtime under `src/`, TLC runs that check them on small
instances, and TLAPS proofs of the main results for every value of the constants.
`PROJECT.json` lists every run, mutant, theorem and hazard, and maps each definition to
the lines it models. Paths below are relative to `src/src/agent_runtime/`.

## 1. The system

A client posts a run to the **API**; one transaction inserts the run and its delivery
intent into **PostgreSQL**. An **outbox dispatcher** publishes the intent to **RabbitMQ**;
a **worker** takes the message as a hint, *claims* the run in the database (a lease and a
numbered attempt), calls a provider, *completes* the attempt and acknowledges. A
**scheduler** process gives up attempts whose lease expired and re-queues retries that are
due. Delivery is at least once; the database decides everything.

| Part | State | Operations |
| --- | --- | --- |
| Run service (`infrastructure/database/run_service.py`) | runs, events, outbox, evaluations | submit, evaluate, replay, history pages |
| Execution service (`infrastructure/database/execution_service.py`) | runs, attempts, leases, evaluations | claim, complete_success, complete_failure, recover_expired_leases, schedule_due_retries |
| Quotas (`infrastructure/database/quotas.py`) | counts over runs, provider_quotas | check_admission, check_provider_budget, charge_provider_call |
| Dispatcher and publisher (`infrastructure/messaging/`) | outbox rows, broker queues | lock, publish, mark, fail |
| Worker and executor (`messaging/worker.py`, `execution/resource_executor.py`) | delivery, attempt, outcome | deliver, claim, charge, call, complete, ack, nack |
| Scheduler (`processes.py`) | none of its own | recovery pass, retry pass |
| API boundary (`api/main.py`, `api/body_limit.py`, `redis/rate_limiter.py`) | rate windows, audit rows | body limit, authentication, rate limit, audit, handler |
| Tenant keys, audit retention (`security/`) | tenant_keys, security_audit_events | encrypt, erase, purge |
| Policies and routing (`domain/`) | none | clamp, backoff, classify, rank |
| Evaluation and regression (`evaluation/`) | none | rules, comparison, gates |

The hard behaviours are at the seams: a message outlives the transaction that sent it, a
handler outlives its lease, worker ids are host names and therefore shared, the clock is
read before the lock it is compared under, transactions are ordered by start and not by
commit. The list, line by line, is `hazards` in `PROJECT.json`.

## 2. Modules

| Module | Models |
| --- | --- |
| `RunStates` | statuses and error codes (`domain/states.py`, `domain/retry.py`) |
| `RuntimeState` | the shared variables: rows, queues, program counters; constants, assumptions, `TypeOK` |
| `ExecutionService` | one operator per transaction of `execution_service.py` |
| `RunService` | submit and evaluate |
| `OutboxDispatcher` | `dispatcher.py` and `publisher.py` |
| `Worker` | one delivery handler of `worker.py`, with `resource_executor.py` |
| `RunContract` | the abstract promise to a client: pending, at most Budget tries, decided once |
| `Runtime` | composition, properties, refinement mapping, fairness |
| `MCRuntime` | instances for TLC |
| `RuntimeProofs`, `OutcomeProofs` | theorems about `Runtime`: its rows, its handlers and the contract; deliveries, evaluations and quotas |
| `Admission` | submit, replay, claim and the provider-call charge statement by statement: locks, counts, keys, windows |
| `PolicyRules` | one run's policy from request to last attempt: `domain/policy.py`, `domain/retry.py`, `domain/routing.py` and what claim and completion read of the snapshot |
| `HistoryPages` | the paged history reads of `run_service.py`, their endpoints and the SDK's walk, beside the transactions that write |
| `ApiBoundary` | a request from the SDK through body limit, authentication, rate limit and audit to the handler and back |
| `AuditTrail` | rows of `security_audit_events` and the clock they carry |
| `TenantKeys` | `security/envelope.py`: encrypt, erase and the submissions that share their lock |
| `AuditRetention` | `security/audit_retention.py`: count and delete in batches |
| `DataProtection` | `TenantKeys` and `AuditRetention` over one `AuditTrail` |
| `EvaluationRules` | `evaluation/safety.py` and `evaluation/engine.py`: which rules are accepted, what they say of a result |
| `RegressionSuite` | a regression job from request to persisted report: `evaluation/regression.py` under `resource_executor.py` |
| `AdmissionProofs`, `PolicyProofs`, `PageProofs`, `BoundaryProofs`, `KeyProofs`, `RegressionProofs` | theorems about the above |
| `MCAdmission`, `MCPolicyRules`, `MCHistoryPages`, `MCApiBoundary`, `MCDataProtection`, `MCRegressionSuite` | instances for TLC |

How state corresponds to code:

* **Rows.** `status`, `leaseOwner`, `lease`, `retryAt`, `error`, `result`, `summary` are
  columns of `runs`; `result[r]` is the number of the attempt the payload came from.
  `attempts[r]` is the sequence of outcomes of the run's attempts (attempt numbers are
  consecutive: `_next_attempt_number`). `events[r]` is the *set* of event types recorded,
  kept because every transition writes to it (finding 4 is about one that does not), although
  no decision and no property reads it; the dispatcher's `OUTBOX_*` events are left out. `outbox[r][t]` counts
  unpublished, unlocked outbox rows.
* **Time** is what the code compares: a lease is active or expired, a retry waiting or due.
  `LeaseExpires` and `RetryFallsDue` may happen between any two steps. The processes'
  clocks are assumed synchronised.
* **A transaction is one step** where locks make it so: every write of a run holds its row
  lock, and claim and admission hold the identity locks. For the transactions that check a
  count or a key before they write, `Admission` takes the statements apart and shows
  (`ChecksStillHold`) that the locks make them one step. Two reads come earlier and are
  separate steps: `complete_*` reads its clock before the row lock (`late`), and the
  start of `evaluate`'s transaction stamps `created_at` before the locks (`BeginEvaluate`).
  `late` is about the lease seen then. If the run has a new lease since, the code's
  comparison would succeed, but the attempt is then finished and completion is refused
  either way.
* **The scheduler's batch** is a sequence of one-row steps: rows are locked, disjoint and
  skipped when held by others.
* **Publication** is visible before the dispatcher's transaction commits. A failed publish
  may or may not have reached the queue.
* **HandlerLost** stands for an exception (nack with requeue), a cancelled task, a dead
  process or a commit whose answer is lost; **ConnectionLost** makes the broker redeliver
  while the handler goes on.
* **Provider calls** return, fail with a code of `ProviderErrors`, or time out; the
  provider-call budget may refuse at any charge (`ChargeDenied`).
* A stored policy above the workers' limit (`MaxAttempts[r] > ServerMaxAttempts`) is what
  a lowered `retry_max_attempts` leaves behind; `MaxAttempts[r] = 0` is a policy that
  `RetryPolicy.from_snapshot` rejects.

* **Admission.** `pc[x]` is the statement a call executes next, `holder` the advisory and row
  locks, `seen` what a charge has read. A run is named after the call that inserts it. Its
  fingerprint (`hash`) is the pair of the body and the server settings the policy was
  resolved with, or, for a replay, the source and the source's fingerprint. The other
  transactions appear as what they do to a status under the row lock (`RunMoves`). A
  statement sees what is committed before it begins (READ COMMITTED). The unique constraint
  and its `IntegrityError` handlers are not reached under the locks and have no action.

* **PolicyRules.** `request` has the fields of `RunPolicyRequest`, `policy` those of the stored
  snapshot; `admitted` are the settings at submission and `server` those of the processes
  now, which a deployment may change between any two steps. `tried` are the providers of the
  attempts, `delay` is `delay_seconds` of the last scheduled retry. Seconds are integers.
  Scores of the balanced strategy are in millionths, to which the code rounds; provider names
  compare through their alphabetical rank.

* **HistoryPages.** A row is visible from the commit of its transaction and ordered by the
  transaction's start and a random `uid`. One table stands for events, attempts and
  evaluations, which are the same query. A walk's `Anchor` and `Fetch` are the two
  statements of a page, with commits in between; the page size may change from page to
  page, and a walk may begin at a cursor it kept, of its own history or another.

* **ApiBoundary.** `stage[q]` is what the server does next with a request, `rows[q]` the audit
  rows committed for it. A timed-out audit write may or may not have committed; under
  `fail_open` the request goes on. A caller that times out leaves its request running. The
  `create_run` and `get_run` handlers are one transaction each. A run is named by its
  idempotency key.

* **DataProtection.** `key[t]` is the committed key row, `draft[c]` what a transaction will
  commit, `holder` the advisory lock of the tenant, which erasing, encrypting and
  submitting share and completing a run does not take. A ciphertext is its tenant and data
  key. `MayErase` is `erase_tenant_key` with a cutoff, which the command always passes; the
  call without one (`envelope.py:177`), which skips the two comparisons with it, occurs only
  in tests. A retention job deletes from the snapshot of its statement: rows another job has
  deleted meanwhile are skipped. `taken`, `owed` and `alone` only record.

* **RegressionSuite.** `results` are the cases in the order the runner takes them, baseline
  first; `calls` is the counter of `ChargedExecutor`, `used` the tenant's window. A charge is a
  transaction that may fail, before its commit or with the answer to it: the runner records
  the exception as the error of a case and goes on, and the call may have been paid for. Rates
  and percentages are integers in units of the digit to which the code rounds, gates are
  fractions. A tie is rounded either way (`TieDown`), as the binary fraction of a float may
  decide; apart from ties, arithmetic between two roundings is taken as exact. JSON values are
  small trees with texts that UTF-8 can encode or not, and numbers that are finite or not; a
  JSON Schema, which an external library evaluates, is the set of types it admits.
  `ValidateRules` leaves out that the rules themselves pass `bounded_value` (`safety.py:90`)
  and so accepts more requests than the code.

## 3. Runs

| Run | Instance | Shows |
| --- | --- | --- |
| `retry_race` | 1 run, 2 attempts, 2 handlers of one worker, all faults | leases, attempts, results, delivery intents and dead-letter notices stay consistent; history and ends are final; `RunContract` is implemented |
| `quotas` | 3 runs, 2 principals, 2 handlers, limit of attempts lowered | running and active quotas, attempt budget |
| `evaluations` | 1 run, 2 evaluation jobs, overlapping transactions | evaluation rows follow jobs; a settled summary is the newest verdict |
| `faults` | 1 run, 2 attempts; lost handlers and connections, failed, unconfirmed and duplicated publications, crashes, together | every accepted run is decided, every dead letter announced |
| `admission` | 2 submits, 1 replay with a key already used, 2 claims, 2 charges; 2 principals of 1 tenant | what a transaction checked holds when it commits; quotas, windows and keys; no lock deadlock |
| `policy_rules` | 139 policies, 3 configurations, 1 change of configuration | clamping, backoff, timeouts, ranking and the fallback after provider errors fit together over the life of a run |
| `history_pages` | 2 runs of 2 tenants, 4 transactions, 5 rows, pages of 1 and 2 | no row twice, none of another run, none missed that was there when the walk began |
| `data_protection` | 1 tenant, 1 run, 2 sessions, 2 retention jobs, 3 readings of the clock | one data key for ever; erasure spares live work and is on record; purges account for what they delete |
| `api_boundary` | 2 callers, 2 open requests, both audit policies, with and without authentication, 2 failures | nothing unaudited under `fail_closed`; a refusal leaves no run; a caller that repeats its key succeeds |
| `regression` | 16 jobs of 1 and 2 cases, 3 server settings, 10 results | accepted rules raise no configuration error of their own; reports are whole, paid for once, judged right up to a thousandth |
| `stuck_summary` | as `evaluations` | **violated**: `evaluation_status` can stay PENDING for ever |
| `incomplete_pages` | as `history_pages` | **violated**: a row that commits late is in no page |

Each property of a passing run has a mutant in `PROJECT.json`, a plausible bug in the
mapped definition that makes TLC report the property violated.

**Bounds.** Two handlers are enough for every pairwise race: two claims, a claim against a
completion, a stale handler against a new one; they share a worker id because that is the
harder case. Two attempts give a first, a last and a retry in between. `MaxBacklog` and
`MaxCopies` cap duplicate outbox rows and messages of a run: the one guards the
reconciliation that adds a row, the other the second copy a failed publication may leave.
They are constants of the proofs as well, which
hold for every value. Three runs of two principals are the fewest that hit a
principal's limit and the tenant's at different times. Symmetry is used only over handlers
of one worker, evaluation jobs of one source, sessions, retention jobs and the later writers
of a history, and in no run with a liveness property.

In `admission` every limit that matters is 1 or 2, so that each is hit by the second or third
call. `MaxWindow` = 1 lets one window pass, `MaxVersion` = 1 one change of settings and
`MaxAborts` = 1 one rollback, each at any moment; calls are never retried, a retry being
another call. A claim comes after the run it names was inserted and a charge after a claim
has started it, as the messages and the worker have it.

In `policy_rules` the requested numbers lie below, between and above the limits of the three
configurations, which differ in every limit; five requested attempts against a limit of four
let delays reach their cap and fallback its last provider. The second catalogue has a
provider that is better in every respect, which the shipped one has not.

In `history_pages` a submission writes two rows with one stamp, so that identifiers decide;
two later transactions of one row each overlap in every way; the sizes asked for are below,
at and above the largest. In `data_protection` one tenant is enough, since locks and rows
are per tenant; the horizons are 1 and 0, so that within the bound of the clock rows and keys
pass from within to beyond them; batches hold one row, so that every deletion takes several. In
`api_boundary` the window admits one request and begins empty or full, without its TTL;
two failures (`MaxFaults`) are the fewest that hit a request and its retry. A caller without
a key tries once (`MaxTries`): another try is another key. In `regression` two attempts
(`MaxAttempts`) leave room for the second one that `job_policy` must prevent; results lie on both
sides of each bound (nodes, depth, text), some with a text or a number that cannot be
read, and gates meet changes below, at and above what they allow. Three jobs have costs that
differ by less than a thousandth of a percent, once at a tie and once against a gate of 0.0007
percent, so that rounding does decide the verdict against exact arithmetic.

**Deadlock** is not checked: when every run is decided the runtime has nothing left to do. Deadlock
of the locks is the invariant `SomeCallProceeds`.

**Fairness.** Time passes, and the loops of the scheduler, the executor (bounded by
`asyncio.wait_for`) and the acknowledgement are weakly fair. Locking an outbox row, publishing, marking,
delivering and claiming are strongly fair: each can be undone by a failure and tried
again, and the assumption says that the broker and the database do not fail for ever.
Faults and client requests have no fairness. `Publish` is not subject to `MaxCopies`, which
limits only what failures duplicate, so that no bound stops a publication.
In `ApiBoundary` the event loop carries on every request and Redis lets time pass (weak
fairness); a caller with a key of its own is one that tries again; failures are bounded,
that is, they cease.

## 4. What is proved

| Theorem | Property |
| --- | --- |
| `OutcomeProofs!TypeCorrect` | `TypeOK` |
| `RuntimeProofs!LeaseSafety`, `ResultSafety`, `BudgetSafety` | `LeaseMatchesAttempts`, `ResultFromLastAttempt`, `AttemptBudgetHeld` |
| `RuntimeProofs!OneHandlerSafety` | `AttemptHasOneHandler` |
| `OutcomeProofs!RunningQuotaSafety`, `ActiveQuotaSafety` | `RunningQuotaHeld`, `ActiveQuotaHeld` |
| `RuntimeProofs!HistorySafety`, `TerminalSafety` | `AttemptHistoryIsFinal`, `TerminalRunsImmutable` |
| `OutcomeProofs!NothingStranded`, `NoticeSafety` | `NoStrandedRun`, `DeadLetterNoticeKept` |
| `OutcomeProofs!EvaluationSafety`, `SummarySafety` | `EvaluationFollowsJob`, `SettledSummaryIsNewest` |
| `RuntimeProofs!RuntimeImplementsContract` | `ImplementsContract` |
| `AdmissionProofs!LocksNeverDeadlock` | `SomeCallProceeds` |
| `AdmissionProofs!ChecksHoldAtCommit` | `ChecksStillHold` |
| `AdmissionProofs!QuotasNeverExceeded`, `WindowBudgetsKept`, `KeysNameOneRun` | `QuotasHeld`, `WindowBudgetHeld`, `OneRunPerKey` |
| `PolicyProofs!AcceptedPoliciesRun`, `TimeoutsWithinLeases`, `GoodRequestsAccepted` | `AcceptedPolicyRunnable`, `AttemptEndsBeforeLease`, `ConsistentRequestsAccepted` |
| `PolicyProofs!FallbackIsComplete`, `ChoicesUndominated`, `BackoffsScheduled` | `FallbackCoversCandidates`, `NoDominatedChoice`, `BackoffSchedule` |
| `PageProofs!PagesOrdered`, `NothingCommittedMissed` | `PagesInOrder`, `CommittedRowsSeen` |
| `KeyProofs!KeysAreForever`, `ErasureIsSafe`, `ErasuresRecorded` | `OneKeyForever`, `ErasureSparesLiveWork`, `ErasuresOnRecord` |
| `KeyProofs!PurgesDrain` | `PurgeDrains` |
| `KeyProofs!PurgesAccounted` | `PurgeAccounts` |
| `BoundaryProofs!AuditSafety`, `RefusalSafety` | `NothingUnaudited`, `RefusedWithoutWork` |
| `RegressionProofs!PersistedReportsWhole`, `JobSpendsOnce` | `ReportsAreWhole`, `SpendsOnce` |
| `RegressionProofs!RuleErrorsOfResults` | `AcceptedRulesRun`, the part of `RuleErrorsAreOfResults` about the rules |
| `RegressionProofs!VerdictsAreTight` | `VerdictIsTight`, given `LatenciesAddUp` |

*The runtime.* The first eight rows hold for any number of runs, workers, handlers and
dispatchers and any limits, from the assumptions named in `RuntimeState`: finitely many runs,
each evaluating at most one execution run; every run has a tenant and a principal; every
handler a worker; limits are positive; the error codes are the code's own.

The argument. Lemma `RunSteps` reduces every step of the system to one of five changes of
one run (accepted, not started, started, ended, waited) or none; the row invariants and
the action properties follow from these five instead of from thirty actions. The inductive
invariant `RowsInv` is `RowTypeOK` (`TypeOK` less the dates of evaluations), the three row
invariants together, and "RETRY_SCHEDULED exactly when dated": `ResultFromLastAttempt` needs `LeaseMatchesAttempts` to know that a
completed attempt is the last, and that needs the dates to know that a re-queued run has no
lease. `AttemptHasOneHandler` adds that a handler's attempt exists. The quotas follow by
counting: a step makes at most one run start to count, and only below the limit.
`NoStrandedRun` needs that a delivery is dropped only after a claim took the run out of
QUEUED or found it so. `DeadLetterNoticeKept` is strengthened by "a confirmed
publication of a notice is in the dead-letter queue", or the marking step would lose it.
`SettledSummaryIsNewest` is inductive only with what makes "newest" mean something: two
evaluations never carry the same date (`DatesDistinct`), and the job of an accepted one
has a date (`JobsDated`). `EvaluationInv` holds these with
`EvaluationFollowsJob`, which says that the evaluation that settles the summary is decided.

*Admission* (any calls, principals, tenants and limits; the assumptions of `Admission`:
finitely many calls; a replay, claim or charge is about a run of its own tenant, a claim or
charge also of its own principal; the input of a submission is never the fingerprint that a
replay stores, which `run_service.py:370` wraps).
Deadlock: locks have levels (principal, tenant, row) and a call that waits holds only lower
ones (`LockInv`), so the holder of the highest lock waited for is not waiting itself. For
`ChecksStillHold`, `ChecksInv` carries what every statement of a transaction found up to its
commit; `Isolation` and `WritesAreOwn` show that a step of another call touches only rows and
counters its own locks cover, and `OtherTransactionsKeepChecks` that the transactions
that take no identity lock can only lower the counts. Then `QuotasHeld` is counting,
`WindowBudgetHeld` needs that the counters equal what was booked, from the window they
stand at on (`BooksInv`), and `OneRunPerKey` that two committed runs of a tenant never share a
key and that every answer names a committed run (`KeysInv`).

*Policies* (any requests and settings within the ranges that `policy.py` and
`settings.py` declare and any catalogue that has the two providers under distinct names;
`InputsAssumption`). `PolicyInv` ties the stored snapshot to the settings at submission
and the providers tried to their places in its order (`AcceptedInv`), and the last delay to
the attempt it followed (`DelayInv`); `SnapshotValid` shows that what `build_policy_snapshot`
makes of any accepted request passes the validation of every later read. The ranking is a `CHOOSE`: `OrderExists`
proves that a sequence sorted by the key of any strategy exists, because the last component
of the key, the name, tells providers apart; `Ranked` that a dominated provider never has
the smaller key. Powers of two are bounded by the twenty attempts and go by cases.

*Pages* (any rows, writers, readers and page sizes; `RowsAssumption`, `LimitsAssumption`).
`PagesInOrder` is not inductive: that a page comes after the earlier ones needs the cursor to
be their last row. `PageInv` adds that, and that what a walk has still to return lies after its
cursor. The order of committed rows never changes (`OrderStable`), since stamps are given
at the start.

*Keys* (any tenants, sessions, runs, horizons and retention jobs; `KeysAssumption`,
`TrailAssumption`). A transaction decides under the lock and takes effect at its commit.
`KeyInv` says what keeps the decision true in between: the lock has one holder, the row it
looked at is still there (`DraftFits`), an erasure's cutoff never passes the horizon. Runs
complete without the lock, but at the clock's reading, which is beyond any cutoff and
cannot make an eligible tenant unsafe: an eligible tenant has no unfinished run. Each erasure is
exactly one row of trail and purged rows together (`OnRecord`). For the retention job
(`RetentionAssumption`) `PurgeInv` says that rows are numbered as they come, so that no deleted row
comes back even when an erasure's row is dated before the cutoff, and that a job that
deletes alone still finds what it selected: its batch is empty only when nothing was left.
For `PurgeAccounts`, `AccountsInv` ties each job's counter to the set of rows it took, of
which it falls short only after a lost connection: a batch is disjoint from everything taken
before it, since taken rows are gone from the trail and numbers are never used again.

*Boundary* (any callers, requests, limits and failures; `BoundaryAssumption`). `BoundaryInv`
follows a request stage by stage: the row that `fail_closed` asks for is there when the handler
of a submission starts, and when the reply to a read leaves; a run is inserted only by a handler
that replies at once.

*Regression jobs* (any requests, settings, answers and quotas; `RequestAssumption`,
`GatesAssumption`, `ServerAssumption`, `AbsentAssumption`). `ReportsAreWhole` says nothing of
a job that still runs; `JobInv` follows it there. A job is claimed once (`ClaimedOnce`, where
`JobAttempts` = 1 enters), the settings it was measured by are those of its whole attempt
(`Progress`), and while the lease holds every case so far was called or met a failing
transaction, and the calls are exactly the former (`LeasePays`): a worker that lost its
lease may go on, and may record cases it was refused, but can no longer complete.
`RuleErrorsOfResults` is that whatever `validate_rules` lets through leaves `_evaluate_rule`
no configuration error to raise (`ValidRulesNeverRaise`), together with the fact that the rules
of a running job were accepted. `VerdictsAreTight` bounds what the roundings can do:
half a unit each, whichever way a tie goes (`RoundedBounds`), added up for rates
(`QualityBounds`) and for cost and latency (`MetricBounds`). Latency is judged on the averages that
the report states, themselves rounded to a microsecond. Its hypothesis `LatenciesAddUp`, that
the latencies of a target have a sum in the naturals, would take induction over the list.

**Only model-checked:** the liveness properties `AcceptedRunsSettle`,
`DeadLetterNoticeArrives` and `RetriesSucceed` (fairness and ENABLED are outside the prover);
of `RuleErrorsAreOfResults`, that the stack of `bounded_value` agrees with a count level by
level (induction over values), and that only digits that `int` cannot read are left as an
error of a rule; `LatenciesAddUp`, and what the folds of `EvaluationRules` and
`RegressionSuite` compute.

## 5. Findings

Two have a run that shows them:

1. **Summary stuck at PENDING** (`execution_service.py:451`, run `stuck_summary`).
   `created_at` is the start of a transaction that may then wait for locks. If a later
   evaluation commits and finishes in between, the earlier one sets the summary to PENDING and
   never counts as the latest.
2. **Pages miss late commits** (`run_service.py:227`, run `incomplete_pages`). A row whose
   transaction began before the cursor's and committed after the page was read sorts before
   the cursor. `docs/testing/failure-matrix.md:23` calls the pages "complete";
   `docs/security/resource-controls.md:113` says only "not a frozen snapshot".

Others are read off the definitions and have no run of their own:

3. **QUEUED to RETRY_SCHEDULED** (`execution_service.py:81`). A claim deferred by a running
   quota takes a transition that `ALLOWED_EXECUTION_TRANSITIONS` (`domain/states.py:32`) and
   the table at `docs/architecture/v0-contract.md:56` do not allow. `ensure_execution_transition`
   is called by its unit test only.
4. **Unrecorded end** (`execution_service.py:90`). A claim that fails a run as
   `INVALID_STORED_POLICY` writes no run event, and after a lowered limit ends a run that
   used its budget as FAILED, not DEAD_LETTERED (`README.md:212`).
5. **Repetition answered with a conflict** (`run_service.py:97`). The request hash covers the
   policy after the server's defaults were merged into it. A client that repeats a request
   after those defaults changed gets 409, not the original run
   (`docs/architecture/v0-contract.md:41`).
6. **Fallback after a lost lease or an internal error** (`execution_service.py:95`). The
   provider follows from the attempt number alone; `docs/architecture/v0-contract.md:106-107`
   has no fallback for `EXECUTION_LEASE_EXPIRED`, and none by default for `INTERNAL_ERROR`.
   `FallbackCoversCandidates` is therefore stated for the four provider errors for which that
   table has fallback.
7. **A generated key is lost with the error** (`client.py:76`). The docstring says to persist
   the returned key to retry after a transport error, but a call that ends in one returns
   nothing. `RetriesSucceed` is therefore stated for callers that pass a key.
8. **Two retention jobs at once** (`audit_retention.py:165`). A batch whose rows another job
   has just deleted is empty, and the job then ends as complete with expired rows left.
   `PurgeDrains` is therefore stated for a job that deletes alone; the next one takes the rest.
9. **Digits that `int` cannot read** (`evaluation/engine.py:121`). `isdigit` holds for digits
   such as superscripts for which `int` raises `ValueError`. A path with such a part that meets
   a list ends a regression case with an error that is not an `EvaluationConfigurationError`:
   the outcome "index" of `EvaluateRules`.
10. **A failed charge is the error of a case** (`evaluation/regression.py:187`). The runner catches
   what the charging transaction raises like an error of the provider, so the report of an
   attempt that lost the database for a moment is persisted as not passed, instead of the
   attempt being retried or failed. `ReportsAreWhole` says what is still true of it.

## 6. Not modelled

* Telemetry, logging, heartbeats, command lines and provider adapters: I/O that no
  decision depends on. A provider returns, fails with any code or times out.
* Malformed (poison) messages, which touch no run.
* Parsing and shapes of requests and responses; counting the bytes of a body; verifying a
  credential; the cryptography of envelopes; JSON Schema validation. Each appears as a
  choice of its outcome.
* The table of allowed transitions and its guard, which no service calls.
* Row locks of several runs held at once: two schedulers that recover jobs of the same
  sources may lock these in different orders (`execution_service.py:444`). PostgreSQL aborts one
  and the next pass repeats it; the core recovers one row per step.
* Configuration classes; their bounds are the assumptions on the constants.
