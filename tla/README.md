# PgQueryNarrative: a verification development

PgQueryNarrative is a PostgreSQL investigation workbench: from an expensive query to plan
findings, a rewrite that is measured and compared, and a report; with scheduled reports,
webhook deliveries, a regression poller and governed LLM calls around it. This directory
holds TLA+ models of its stateful parts, the TLC configurations that check them on small
instances, and theorems about them that TLAPS checks for every value of the constants.

Every definition is written from the Go and SQL source under `src/`; `PROJECT.json` names,
for each definition, the file and lines it stands for. Documentation and comments are used
only as claims to compare the code with.

- [1. The system](#1-the-system)
- [2. The modules](#2-the-modules)
- [3. The runs](#3-the-runs)
- [4. Bounds, fairness, deadlock](#4-bounds-fairness-deadlock)
- [5. The theorems](#5-the-theorems)
- [6. Where code and documentation disagree](#6-where-code-and-documentation-disagree)
- [7. What is not covered](#7-what-is-not-covered)
- [8. Plan](#8-plan)
- [9. Running the checks](#9-running-the-checks)

## 1. The system

One Go server (`cmd/server`), replicated at will, over one PostgreSQL database for its own
tables (`app.*`) and any number of analysed databases. Everything replicas share is in the
`app` tables; everything else (breakers, pools, queues, local rate limits) is per process.
Background loops run on the process context: the schedule runner, the webhook retry worker,
the regression poller, the audit worker, clean-ups. There is no leader; replicas coordinate
by row locks (`FOR UPDATE SKIP LOCKED`), leases, unique keys and advisory locks.

| component | state | operations | interacts with | hard behaviour | what makes it correct |
|---|---|---|---|---|---|
| Schedule runner (`service/schedule_runner.go`, `schedules*.go`) | `app.schedules` (`enabled`, `next_run_at`, `locked_until`), `app.schedule_runs` (status, attempts, lease, idempotency key) | claim due schedules, recover expired runs, execute, heartbeat, finish, RunNow, RetryRun, Update, Delete | outbox (enqueue, inline attempt), reports (one per run), authorization of the owner | replicas claim the same schedule; executions overlap after a lease expires; a crash between any two statements of an execution | a slot runs once; one report per run; no completed run without its delivery; every run ends; due schedules are served |
| Webhook outbox (`service/webhook_retry.go`) | `app.webhook_deliveries` (status, attempts, `next_attempt_at`, lease) | enqueue, sweep claim, inline claim, POST, record, reclaim | runner (finalises its run), the receiver | the HTTP exchange lies between two statements; stale senders; lost updates; retries racing late answers | an attempt has one owner; settled rows stay settled; "delivered" is true; every delivery settles |
| LLM governance (`llm/budget.go`, `invoke.go`, `circuit.go`, `governance.go`) | `app.llm_budget_reservations`, `llm_budget_usage`, `llm_user_budget_usage`; per process a circuit breaker | Reserve, Reconcile, Release, ExpireAbandoned, Allow, RecordSuccess, RecordFailure | every component that calls a model | check-then-insert under READ COMMITTED, lock scopes, failing ledger statements, overlapping calls at the breaker | limits hold; usage is counted once; reservations end; the breaker opens on a streak |
| Regression poller (`service/regression_poller.go`, `regression_detect.go`) | `app.stat_statement_polls`, `stat_statement_snapshots`, `app.regression_alerts` | poll a connection: snapshot, detect, upsert alert, resolve, reconcile fixes; clean-up | investigations (judges their fixes), users (acknowledge) | replicas polling one connection; a cycle is many statements; users act in between | one open alert per query; recurrences linked; resolved only on recovery |
| Investigations (`service/investigations.go`, `workspace.go`) | `app.investigations` (status, fix status, baseline, comparison), `app.investigation_candidates`, the alert's link | Create, CreateFromRegression, UpdateFix, AddCandidate, RankCandidates, GenerateReport, Acknowledge | poller, query runner, reports | read-check-write without guards against the poller and other requests | an alert keeps its investigation; a fix is confirmed on what was measured after it; the loop closes |
| Audit store (`audit/audit.go`) | an in-memory queue per process, `app.audit_logs`, `app.audit_log_buffer` | Record (three modes), worker, fallback to the buffer, replay, drain at shutdown | guards before a query or a report, admin handlers after a change, every other handler | deadlines shared by write and fallback, full queue, shutdown, replays of two replicas, a failure between write and commit | no accepted entry is dropped silently; duplicates cost failures; what must be audited does not run unaudited |
| Rate limiter (`ratelimit/`) | `app.rate_limit_buckets`, local fallback buckets | Allow, clean-up | middleware | database failure, clean-up of live buckets | no more than burst plus refill |
| Sessions and sign-in (`auth/session*.go`, `oidc*.go`, `pkce_store.go`) | `app.browser_sessions`, `app.oidc_pkce_states` | login, callback, refresh, switch of organization, logout, revocation by an administrator, clean-up | identity provider | concurrent refresh, refresh racing revocation, consume-once state | a revoked session stays revoked; a state is used once |
| Memberships and keys (`auth/membership.go`, `managed_keys.go`, `store.go`) | members, groups, API keys | join from claims, grant, revoke, rotate | sessions, runner | revocation racing automatic join; last administrator | a revoked member stays out; an organization keeps an administrator |
| Connection pools (`db/connection.go`, `orgexec.go`, `orgscoped.go`) | shared and per-organization pools, opened lazily outside the lock | look up, open, store, evict, invalidate, close; transaction-scoped `app.current_org_id` | every query | two openers of one pool; a secret that changes between validation and query; `Close` waiting for queries under the lock; a context without organization under forced row security | no pool leaks; the budget holds but for the pools just being opened; a query runs on the version it asked for; every query ends |
| Governed embedder (`embedding/governed.go`) | semaphore, breaker, pinned dimension | Embed | providers | breaker seen before the semaphore wait; concurrent pinning | one dimension; bounded concurrency |
| Query runner, plan analysis, rewriter (`queryrunner/`) | none that outlives a request | run a read-only query, EXPLAIN, analyse, compare, rank | investigations, ask | boundaries of decisions | comparisons and rankings are consistent |
| Metrics, story, suggestions, charts | none | floating-point statistics, wording | reports | none | — |
| HTTP server, middleware, MCP server, CLI, front end | none of their own | routing, parsing | all | none | — |

The component list in `PROJECT.json` has every part with its status; its hazard list has the
lines where these behaviours bite and the properties that watch them.

## 2. The modules

| module | models | extends |
|---|---|---|
| `AtLeastOnceDelivery` | what the outbox promises of a delivery, without rows, leases or senders | |
| `WebhookOutbox` | the outbox table and everything that claims, sends and writes its rows | |
| `ScheduleRunner` | the runner, its executions and the run API, composed with the outbox | `WebhookOutbox` |
| `LLMBudget` | one LLM call under governance: reservation, breaker, provider, reconciliation | |
| `RegressionAlerts` | the poll cycle and the life of alerts | |
| `FixLoop` | the life of a fix between its users and the poller, composed with the alerts | `RegressionAlerts` |
| `AuditStore` | audit entries on their way from a request to the log, in the three modes | |
| `BrowserSessions` | sign-in, sessions and memberships of one user, with an administrator who changes them | |
| `TenantPools` | the registry of connection pools of one process, with the queries that use them | |
| `RateLimiter` | the bucket of one key, shared by all replicas, and their fallbacks in memory | |
| `Embedder` | concurrent embedding calls of one process | |
| `InvestigationReports` | candidates of an investigation, the comparison of what they return, and reports | |
| `Sums` | lemmas about sums of a function over a finite set | `Functions`, `FiniteSetTheorems`, `TLAPS` |
| `WebhookOutbox_proofs`, `AuditStore_proofs`, `BrowserSessions_proofs` | theorems | their module, `TLAPS` |
| `LLMBudget_proofs` | theorems | `LLMBudget`, `Sums` |
| `FixLoop_proofs` | theorems of the alerts, and of the fix loop with them | `FixLoop` |
| `Services_proofs` | theorems of rate limiter, pools, embedder and reports, and of all six components of `MCServices` together | `MCServices`, `BrowserSessions_proofs`, `WebhookOutbox_proofs`, `Sums` |
| `ScheduleRunner_proofs` | theorems of the runner with the outbox | `ScheduleRunner`, `WebhookOutbox_proofs` |
| `MCScheduleRunner`, `MCLLMBudget`, `MCFixLoop`, `MCAuditStore` | instances for TLC | their module |
| `MCServices` | one instance of each component that shares no state with the others | `WebhookOutbox`, `BrowserSessions`, `TenantPools`, `RateLimiter`, `Embedder`, `InvestigationReports` |

The common rule: one SQL statement, or one transaction, is one action. Between two statements
of a handler any other process may act, a process may die, and (where the code sends or calls
something) the outside world answers. Handlers therefore appear as a local state per process
(`claims`/`answer`, `exec`, `pc`, `poller`, `client`) that says which statement is next and
carries what was read before. Time is abstract: a lease is held or expired, a schedule is due
or not, a backoff has elapsed or not, and the passing of time is an action.

### WebhookOutbox

`row` is `app.webhook_deliveries` by idempotency key (the schedule run). `EnqueueWebhookDelivery`
is the `INSERT ... ON CONFLICT`; `SweepClaim` and `AttemptOutboxDelivery` are the two claiming
`UPDATE`s, which count the attempt before it is made; `AttemptOutboxHTTP` is the exchange,
whose reply is chosen from 2xx, 408/429, other 4xx, 5xx and network errors and classified as
the code does; `RecordOutcome` writes the classified result *without comparing lease or
status*, as the code does; `ReclaimStuckOutboxLeases` is the first transaction of a sweep.
`Crash`, a lost update and, when `LeaseCoversAttempt` is `FALSE`, the expiry of a lease under
a live sender are disruptions, bounded by `MaxDisruptions`.

`Promise == INSTANCE AtLeastOnceDelivery` maps a row to what it promises: absent rows to
"none", pending and delivering ones to "open", settled ones to themselves.

### ScheduleRunner

`executeClaimedRun` statement by statement: `lock` (the run's row), `owner` (authorization,
which may switch the schedule off), `load`, `report` (generate), `store` (insert-or-reuse of the
report by run), `deliver` (enqueue), `attempt`, `post`, `settle`, `advance` (cadence), `finish`.
`todo` is the batch a claim returned, executed one after the other. The heartbeat is the flag
`beat`; it extends the run's lease whoever holds it, as the code does. `settle` is what a
sweeper still has to finalise after it recorded a row. A query of the tables may fail at every statement
(`QueryFails`): of the connection check it switches the schedule off, as the code does, of the enqueue it
fails the run, though the row may be there when only the answer was lost. The limits of a batch (10 schedules, 20
recovered runs) are covered by a claim taking any subset of what is due. `RunNow`, `RetryRun`, `Update`,
`Delete` and the loss of authorization are operations bounded by `MaxOps`.
`next_run_at` is a slot number and whether it has been reached. `OwnerVisible` is what row
security shows a context without an organization: nothing, when `RlsEnforced`.

### LLMBudget

`pc` walks a call through `InvokeWithBudget`: policy, the lock of `Reserve`, its four reads
(usage and reservations, of the organization and of the user), the insert, the breaker, the
provider, and reconciliation in three statements (mark, organization usage, user usage) or
release. The ledger may fail at any statement and fails open or closed as configured. The
breaker is per process. `raced` and `streak` are histories the properties speak about.

### RegressionAlerts and FixLoop

`poller[p]` is the cycle of a replica over one connection: try-lock, snapshots, detection,
then per regressing query a look-back (whose error counts as "no earlier alert") and an upsert, then the resolutions one by one, then
the reconciliation. The numbers are abstracted to what is decided on them: the finding of a
poll per query (which may regress on load while its latency is at the baseline) and the mean
of the latest interval. `FixLoop` adds `app.investigations`, the alert's link to one, the
three-statement handlers `CreateFromRegression` and `UpdateFix`, and `reconcileAppliedFixes`
as two steps, `JudgeFixes` and `WriteVerdicts`: it is one `UPDATE ... FROM`, but under READ
COMMITTED a row a concurrent update holds gets, after the wait, the verdict computed on its
old version, since the `WHERE` re-checked then compares only ids. `fresh` and `evidence` are
histories: what has been captured since a fix was applied, and what its verdict rests on.
The module's `Spec` is the composition: poll steps that do not touch fixes leave them, and
`Capture`, `PollBreaks` and `Reconcile` extend the alert module's actions.

### AuditStore

An entry is one call of `Record`. `call` says how far its request is, `home` which replica serves it
(until the request ends), and `done` holds the entries whose operation has taken effect: `Begin` adds
those that are recorded afterwards, `Proceeds` the `Guarded` ones, which `auditGuardQueries` lets
through only when `Record` returns nil. `RecordNow` is the write in the request (best effort and required
mode), `Enqueue` and `Spill` the two ways of `enqueueBuffered`. `worker[r]` is the statement the replica's
worker is at: `TakeEntry`, `WriteEntry`, `PersistEntry` are `deliverOrBuffer` in the loop and in
`drainQueue`; `StartReplay`, `ReplayWrite`, `ReplayMark`, `ReplayCommit` are `ReplayBuffered`, whose
transaction holds the row locks (`batch`, `deleted` and the row in hand) while `writeEntry` commits each
row on a connection of its own. `Rollback` is the deferred one. `Close`, `NoticeStop`,
`WorkerReturns` and `Exit` are a shutdown; `Crash` may come anywhere; `Restart` finds only the tables.

`Writes` is `INSERT INTO app.audit_logs`: it succeeds for `Loggable` entries, is refused for those whose
`event_type` the table's CHECK does not list, and may fail for any, before or after it took effect. A
failing write that ran into the deadline leaves no time for the fallback (third branch of `WriteEntry`).
The channel is a set: the order in which its entries are written is not looked at.

### BrowserSessions

`session` holds the rows of `app.browser_sessions` of one user, each named after the callback that
created it; `browser` the requests, whose `step` is the statement they are at. A callback consumes the login
state (`Consumed`, the `DELETE ... RETURNING`), resolves the principal (default join or join by groups,
then the list of memberships) and creates the row; a refresh or a switch of organization reads the row,
resolves and updates it, with the `WHERE revoked_at IS NULL` of `app.update_browser_session`
(`Writable`). `ChangeMembership` and `RevokeUserSessions` are the two statements of an administrator's
request; between them a session may still carry what the table no longer says (`pending`). `tainted` is
a history of the sessions that were written from what a request had read before a change, or that a
failing statement left alone. `MayRevoke` is the `EXECUTE` right on `app.revoke_browser_session`.

### TenantPools

A section under `readonlyMu` is one action, unless it closes pools: `pgxpool.Close` waits for the queries in
use, and the lock stays taken meanwhile (`lock`, `closing`). A query validates its SQL with one
reading of the secret, resolves the pool with a second (`seen`, `want`), looks the pool up, opens one
outside the lock when there is none of that version (`Open`), and in a second section stores its pool
(`Store`, evicting the least recently used beyond `MaxOrgPools`) or closes it because another opener
came first (`Discard`). A validation whose reading of the secret fails uses the catalog's schemas
(`seen` is then 0), and nothing compares them with the pool the query gets. The code opens and pings
a pool before it makes room for it, and a pool that is being closed keeps the connections in use; so
`WithinBudget` counts what is open or closing (`Holding`), not what is in the map, and allows beside
`MaxOrgPools` one pool for each request that is opening one (`Openers`). The server changes secrets and invalidates, and closes idle pools. `older` is
the order that `lastUsed` induces.

### RateLimiter

Tokens are counted in the time they take to refill, which makes the arithmetic integral and the
bound exact. A request's `INSERT ... ON CONFLICT` sees `now()` as of its start and may reach the row
after later ones (`Upsert`); it is refused, fails before or after it took effect, or is lost, and then the mode
of the route class decides. `since`, `spent` and `spentHere` count what was admitted from an arbitrary
moment on.

### Embedder

`embed[c]` is where a call of `GovernedEmbedder.Embed` is: policy and breaker, the wait for a place of
the semaphore, the backend's answer, the load and the compare-and-swap of `expectedDim`, the
deferred release.

### InvestigationReports

`result` is what the investigated query and its candidates return, as bags of rows numbered in the order of
their hashes; `TablesChange` replaces it. `work[u]` is a request: `TestCandidate` begins `AddCandidate`,
whose comparison is up to six statements, each in a transaction of its own, `RunBefore` on the original
and `RunAfter` on the candidate at each step (`fingerprint`, and where that fails `count` and `sample`).
`Sample` is `runEquivalenceSample`: a `LIMIT` that returns any rows when the counted result is within the
cap, the first by hash when it is not. `RecordCandidate` and `AttachCandidate` are the two writes.
`GenerateReport` reads the investigation once (`ReadEvidence`, with the check that the comparison is
shippable), stores the report and completes the investigation in statements of their own. Comparisons
of earlier releases, with renamed statuses or a checksum flag alone, may be in the table from the start
(`LegacyStatuses`). `rested` and `equal` are histories of a comparison.

## 3. The runs

| run | instance | what it shows |
|---|---|---|
| `services` | outbox: 2 rows, 2 senders, 2 attempts, 2 disruptions, leases cover attempts | `ImplementsPromise`: the refinement of `AtLeastOnceDelivery`, its liveness included |
| | sessions: a login, 2 new requests and one that is over, 2 organizations and roles, 1 change by an administrator, 1 failing statement | `OneSessionPerLogin`, `RevokedIsFinal` (nothing under way revives a revoked session), `SessionIsMembership` (live sessions follow the memberships) |
| | pools: 2 queries, 2 tenant connections and the shared one, room for 1 tenant pool, 1 change of secret | `PoolsAccountedFor` (no pool that is open is lost), `WithinBudget` (tenant pools with connections, those being opened and closed included, exceed the budget by no more than the requests that are opening one), `PoolIsWhatWasResolved` (a query runs on the version it asked for, not older than the one its SQL was validated against, when one was read), `EveryQueryEnds` (although pools in use are closed under the lock) |
| | rate: 2 statements in flight, burst of 2 | `WindowBound`: the row lets all replicas together admit no more than a burst and the refill, for late statements and deletions; the fallback of each replica is bounded alike on its own, beside the row |
| | embedder: 3 calls, 2 places | `OneDimension`, `EveryEmbedEnds` |
| | reports: a query and a candidate, results of 2 and 3 rows, of each size two that differ in a row, samples of 2, 2 requests, 1 change of the tables | `VerdictsAreTrue`: while the tables rest no path of failing statements says equal or different of results that are not, and reports rest on shippable comparisons |
| `sessions_logout` | no `EXECUTE` on the revocation | **violation**, see section 6 |
| `runner_overlap` | 1 schedule, 2 runs, 2 workers, a sweeper, 2 disruptions, leases cover neither executions nor attempts | two executions of one run overlap, and stale senders write: `OneRunPerSlot`, `PayloadIsStoredReport`, `CompletedHasDelivery`, `RunAttemptsBounded`, and of the outbox `AttemptOwnedOnce` (an attempt is in one pair of hands and POSTed once), `DeliveredWasReceived` ("delivered" is true) |
| `runner_api` | 1 worker, 1 client, 1 sweeper, every API operation, 1 disruption, fair | `ExclusiveGeneration` (no two executions generate a run's report at a time), `EveryRunSettles` with a crash anywhere, `ServedUnlessDisturbed` |
| `runner_rls` | row security in force | **violation**, see section 6 |
| `runner_delivering` | no disruption | **violation**, see section 6 |
| `runner_wedged` | 1 disruption, fair | **violation**, see section 6 |
| `llm_budget` | 3 calls, 2 of one user and 1 of another, 2 processes, 1 fault, failing open and closed | `UserReservationsFit`, `SoloAdmissionFits` (an admission nothing raced leaves both limits respected), `UsageIsSpend` (the ledgers hold what was spent, once), `CountedWhileInFlight`, `BreakerOpensOnStreak`, `EveryCallEnds`, `ReservationsEnd` |
| `llm_org` | limits equal, no fault | **violation**, see section 6 |
| `fix_loop` | 1 connection, 1 query, 2 alerts, 2 replicas or 1, 2 investigations, 2 clients, 2 operations, 1 fault | `RecurrenceIsLinked`, `ResolvedOnRecovery` (never on findings a newer poll has replaced, while locks hold), `LinkIsFinal`, `ConfirmedIsMeasured` (a fix is confirmed only on an interval captured after it was applied), `ImprovementIsConfirmed` (the loop closes) |
| `audit` | a guarded, an admin and a plain entry, 2 replicas, queue of 1, batch of 2, 1 fault, each mode | `EntriesAccountedFor` (no accepted entry is dropped silently), `DuplicatesCostFaults` (replicas replay an entry once; each further row costs a failure), `BufferedUntilLogged`, `GuardFailsClosed`, `CleanShutdown` (a shutdown that outlasts its requests loses nothing), `BufferDrains` |
| `audit_admin` | required mode, no fault | **violation**, see section 6 |

The type invariants of the components of `services` are checked in that run (`ServicesTypeOK`); those of the
other modules, and `OneOpenAlert`, `ClaimIsCurrent` and `TerminalIsFinal`, are only proved. Every safety
property of a passing run is proved as well (section 5). Every property of a passing run
has a mutant in `PROJECT.json`: a definition of the code changed as a plausible bug would, under
which TLC finds that property violated. The mutants stand next to what
they replace, under a comment that says what they break.

## 4. Bounds, fairness, deadlock

**Bounds.** Two processes of a kind are what every race above needs: one that read and one that
wrote in between. Two rows distinguish a batch from a single row and let a sweep be
interrupted between two. `MaxAttempts = 2` has a retry, an exhaustion and, with a disruption,
the attempt beyond. `MaxDisruptions` and `MaxFaults` are 1 where the instance is large and 2
where it is small; one disruption already separates every two neighbouring statements, and the
second (`services`, `runner_overlap`) lets a recovery be disturbed. In `runner_api` `MaxAttempts` is 1 to leave room for the
operations; `RunAttemptsBounded` was also run there with 2. `Means = {5, 10}` has an interval that improves on another,
one that equals it and one that is worse; `Alerts = 2` has an alert and its recurrence.

In `audit` a queue of one is full with the first entry, so two more spill or wait; of three entries one
(`e2`) is never accepted by the log, so a batch of two has one that can be written beside it. That the
refused rows are fewer than a batch is assumed by `BufferDrains`: 50 of them at the head of the table would
keep all later ones from being replayed.

In `services` the three requests of the sessions are one of the past, whose row may be live from the
start, and two that race each other or the administrator; three embedding calls on two places make
one wait; two tenant connections and a budget of one make every second pool evict the first. The clock of
the rate limiter stops at 4, past the age at which a row is deleted. Results of three rows exceed
the sample and are compared by the first of their hashes; results of two are fetched whole, and there are two of
them, so that a comparison that overlooks a row calls them equal; results of different sizes differ in counts. `MCServices` lists the initial states it
leaves out. The instances are the parts of one run because they share nothing: a product of them
would show nothing more.

In `llm_budget` every call has a user: the ledger has a branch for an empty one (`Anonymous`), but
`PrincipalFromContext` names such a principal "system".

`MCFixLoop` checks three instances in one run, chosen by `MCInit`: *replicas* (two replicas, a
fault, no investigation), *clicks* (one replica, two users opening investigations of one alert
while an older alert of the query is settled) and *fixes* (one replica, an alert with its
investigation, two users moving its fix). The second and third start in states the
specification reaches and with the bounds on what they leave out already used up; the second
replica rests in them. `ImprovementIsConfirmed` is therefore checked without cycles that fail or are skipped for the lock; those
are in *replicas*, which has no fix. Their product is out of reach; what it would add, two replicas judging
one fix at a time, meets the same unguarded `UPDATE` as a replica and a user do.

**Symmetry** is used only in `runner_overlap`, which has safety properties only.

**Fairness.** The loops tick for ever and a request goes on to its next statement, so claiming,
sweeping, reclaiming and every step of an execution are weakly fair; leases run out, backoffs
elapse and schedules become due because time passes. Nothing assumes that a disruption
happens, that a user acts or that a receiver answers well. The same holds of the steps of a query
that has begun (`PoolsFairness`: contexts have deadlines, so `Close` gets its connections back) and of an
embedding call (`EmbedFairness`: the backend answers or the call's timeout does). Strong fairness is used twice. In `FixLoop`, on
capturing: a poll may find the statistics empty again and again, and the assumption is that a
database in use has some infinitely often. In `AuditStore`, on `TakeEntry` and `StartReplay`: the worker's
`select` chooses at random among the cases that are ready, so that neither the queue nor the ticker is
passed over for ever. There, `Restart` is weakly fair: deployments restart what went down.

**Deadlock** is checked in `fix_loop`, whose pollers never stop. It is not checked elsewhere
because finitely many deliveries, runs or calls do end: all settled, the system rests.

## 5. The theorems

For every set of deliveries, senders, users, calls and processes and every limit, from
the named assumptions of each module only.

**Outbox** (`WebhookOutbox_proofs`).

- `OutboxTypeCorrect`: the type invariant.
- `OwnedOnce`: `AttemptOwnedOnce`, with no assumption on leases. It is not inductive: a claim could
  have a number the row has not counted. `OwnershipInv` adds that a claim's attempt lies within the row's
  count (`ClaimsAreCounted`), that posted numbers do (`PostsAreCounted`), that an answer belongs
  to a claim in hand and that an absent row has neither. A new claim then has a number nobody
  has, because the claiming `UPDATE` counts before the attempt.
- `DeliveredMeansReceived`: `ReceiptInv` adds that a successful answer in hand is of a delivery
  received; a row becomes delivered only from such an answer.
- `ClaimsStayCurrent`, `SettledIsFinal`: under `LeaseCoversAttempt`. Two claims in hand on one
  delivery are both its current attempt, hence the same claim in the same hands, so a record cannot
  meet a row that somebody else has settled.
- `KeepsPromise`: under the same assumption every step of the outbox is a step of
  `AtLeastOnceDelivery` or a stutter, except a sweep's batch, which settles nothing and so stutters too.

**Runner with outbox** (`ScheduleRunner_proofs`), for any number of replicas, clients and sweepers whose
executions overlap as they like.

- `RunnerTypeCorrect`, `PayloadsAreStoredReports`, `CompletedRunsDeliver`: from one invariant, `RunnerInv`.
  What the tables say is true because of what an execution at each statement knows, so `RunnerInv` has,
  per executor, `ExecOK`: its run is in use; at the enqueue its report is the stored one; past
  it the row exists; and it goes to its end either failed or with a delivery. None of this is taken back
  by another executor, because reports are stored once, rows are never deleted and a recovered run
  keeps its schedule. Each statement is therefore shown to be one of three kinds of moves of the runs
  (left as it is, new, claimed again), to lose no report, and to leave every executor in order
  (`StepOK`); `StepKeepsInv` does the rest once.
- `OneRunPerSlotHolds`: only two statements make runs: the claim compares the key, and `RunNow` makes a run without a slot.
  The others keep slots.
- `RunAttemptsBoundedHolds`: `RunAttemptsBounded` was chosen inductive: a running run is one below what its
  ending may reach. It needs a limit of at least two; with one, the recovery of a retried run passes it.
- `RunnerOwnsAttempts`, `RunnerDelivers`, `RunnerKeepsPromise`: every step of the composed system is a step of
  the outbox or a disruption that the outbox does not notice (`RunnerStepsOutbox`), so what is proved
  of the outbox alone carries over by its step lemmas, the refinement included.
- `GenerationIsExclusive`: for one worker, from a finite set of them. `SoleInv` is about the runs that have no report yet. Such a run is in one executor's hands, in execution or in the batch
  (`SoleOK`); while it is, it is running or gone with its schedule, and one in a request's hands keeps its lease
  (`HeldOK`), so that neither a retry, which takes ended runs, nor a recovery, which takes expired
  ones and which the worker makes only with its hands free (`RestOK`), gives it to a second. Who is about to store a
  report found none, and there still is none (`StoreOK`). None of this holds with a second worker, whose
  recovery meets the batch of the first.

**LLM budget** (`LLMBudget_proofs`).

- `BudgetTypeCorrect`.
- `UserReservationsBounded`: `LockInv` says that at most one call of a user is between lock and
  insert, and that a call at the insert still has the room it checked: other calls of the user only
  end reservations meanwhile. Cardinalities are handled by `ReservedMonotone` and `ActiveGrowth`.
- `SoloAdmissionsFit`: `SoloInv` says that what an unraced `Reserve` has read is still there.
- `BreakerOpens`: a closed breaker has counted every failure of the streak (`StreakCounted`).
- `CountedInFlight`: `CountInv` follows a reservation from the insert to its release.
- `UsageIsTheSpend`: the ledgers are sums over calls. `SpendInv` says that each holds what its calls spent less
  what those between the provider's answer and their ledger statement have still to write (`OrgDue`, `UserDue`),
  at most in general and exactly as long as no write is lost; a statement moves one call out of that set and adds
  its cost, and the lemmas of `Sums` say what that does to a sum.

**Regression alerts** (`FixLoop_proofs`).

- `AlertTypeCorrect`. `LastResolvedTyped` needs that a finite set of alerts has a last resolved one, by
  well-foundedness of the strict subset order on the alerts resolved after each.
- `OneOpenAlertHolds`: inductive as it stands, since the insert checks the index in its own statement.
- `RecurrenceIsLinkedHolds`: `RecurrenceInv` adds that the places of the resolved alerts are bounded by their
  number, so that the next place is after all of them, and that the predecessor a statement in flight
  has read is still resolved: nothing unresolves an alert.
- `ResolvedOnRecoveryHolds`: `FaultFreeInv` says that without faults a running cycle holds the lock of its
  connection (`LocksHeld`), so that its findings and the alerts it is about to resolve agree with the newest
  findings of the connection (`FindingsCurrent`).

**Fix loop** (`FixLoop_proofs`).

- `FixLoopRunsAlerts`, `FixLoopKeepsAlerts`: each step is a step of `RegressionAlerts` or leaves it alone.
- `FixTypeCorrect` (with `LinksInUse`), `LinkIsFinalHolds`.
- `ConfirmedIsMeasuredHolds`: `MeasureInv` says that an investigation has at most one alert
  (`OneAlertEach`); that, unless the fix was applied with no alert linked, the latest interval of its query
  is the baseline until a new one is captured (`BaselinesAreLatest`); and that a confirmation on its way,
  if no update raced it, rests on a fresh interval (`ConfirmationsMeasured`), because no positive mean is
  20% below itself (`SameIsNoImprovement`).

**Audit store** (`AuditStore_proofs`).

- `AuditTypeCorrect`: with `WorkersConsistent` (what a worker at each step has in hand and in its
  transaction) and `CallsConsistent` (a request inside `Record` is on some replica).
- `BufferedUntilLoggedHolds`, `EntriesAccountedForHolds`: `ReplaysLogged` says that what a replay has deleted,
  or is about to delete, is in the log; a commit can then remove nothing else.
- `GuardFailsClosedHolds`: from the control flow of `Record`, whose error reaches the guard in required mode.
- `CleanShutdownHolds`: `ShutdownInv` says that without faults a replica that is closing has no requests left
  and one that has stopped has an empty queue.
- `DuplicatesCostFaultsHolds`: three invariants. `OnePlace`: an entry is with its request, in one queue or one
  hand, or in the buffer. `LocksHeld`: rows are locked while in the buffer, by one replay. `WritesPaid`: an
  entry not yet written has no row, and one to be written again has paid a fault for each row it has,
  unless an open replay is about to remove it; a rollback of that replay is itself a fault.

**Sessions** (`BrowserSessions_proofs`).

- `SessionTypeCorrect`, with what a request at each step has in hand (`SoundRequest`).
- `OneSessionPerLoginHolds`: `LoginInv`: a consumed state is gone, one callback at most holds it, and none has a
  row before it has ended.
- `RevokedIsFinalHolds`: an action property, from the `WHERE` of the updates and from `LoginInv`: a callback
  never creates over a row.
- `SessionIsMembershipHolds`: `Knows` says that a request about to write, and that no change has made stale,
  has the current membership in hand.

**Rate limiter** (`Services_proofs`), for all rates, bursts and numbers of requests.

- `RateTypeCorrect`, `WindowBoundHolds`: `RateInv` keeps accounts. What was admitted and what is left came from a
  full bucket and the refill up to the last write (`Conserved`), which statements that arrive out of
  order respect because a refill is never negative. A deleted row forgets its spending
  (`Forgotten`). Both are about the one row all replicas share; a replica's fallback has the same bound
  for what it admits itself, so with `n` replicas falling back the total is up to `n` bursts more, and the mode
  "open" has no bound. The deletion costs nothing because its age exceeds the time to refill and the timeout of the
  statements under way. That the age is so long is an assumption on two settings (`RateAssumption`);
  the defaults satisfy it.

**Pools** (`Services_proofs`), for any number of queries, connections, changes of secrets and any budget.

- `PoolsAreSound`: types, and three facts every step of a query rests on: it keeps its pair until it ends
  (`ForPair`), what it is to store is what it opened (`OwnPool`), and a pool is under its own key
  (`CachedKeys`). `QueryMoves` says once, per statement, what it leaves of the query.
- `PoolsNeverLeak`: inductive with those. The second of two openers finds the first's pool when it takes the lock
  again, and closes its own.
- `PoolsWithinBudget`: `BudgetInv` says what the pools with connections are: those of the map, one in the
  hands of each opener, and those being closed. The map grows by a tenant key only in `Store`, which evicts
  one when there is no room, in the same section under the lock, and stays an opener until the evicted pool is
  closed (`HoldingCounted` does the counting).
- `PoolsAreResolved`: `ResolvedInv` adds that versions grow (`Versions`): a secret that is read again is gone or no
  older than what the query validated against.

**Embedder** (`Services_proofs`), for any number of calls, places and dimensions.

- `EmbedderIsSound`, `VectorsHaveOneDimension`: `Pinned` says that a call about to return a vector has met the
  pinned dimension, whether it loaded it, won the swap or lost it; the pin is never rewritten.

**Reports** (`Services_proofs`), for results and samples of any size, any number of candidates and requests.

- `ReportsAreSound`, `VerdictsHold`: `RequestOK` says that a request that compares began in the past; that, if no
  table has changed since, what it holds is what the original returns by now, and the counts it passed
  are equal; and that what it has found is true. The lemmas about samples carry the weight: results that fit
  are sampled whole (`SmallIsWhole`), a sample's size depends on the size of the result only (`AnyRowsBound`), and a
  sample by hash is determined (`ByHashIsOne`), since of two with different rows one has skipped a row that
  comes first.

**The six components together** (`Services_proofs`).

- `PartsAreComponents`: a behaviour of `MCServices` is one of every component's own specification.
- `ServicesTyped`, `ServicesKeepProperties`: so its type invariant and safety properties are theorems of it.

**Sums** (`Sums`). A fold over a set is a recursive function, a `CHOOSE` of the one that satisfies its equation, in
an order that `CHOOSE` picks. That such a function exists, and that the sum does not depend on the order, needs
induction over the subsets, which the library's induction theorems cannot give (they take an operator); it is done
here as the search for a smallest counterexample in a set of subsets (`Smallest`).

**Only model-checked**: liveness (`EveryRunSettles`, `ServedUnlessDisturbed`, `EveryCallEnds`, `ReservationsEnd`,
`ImprovementIsConfirmed`, `BufferDrains`, `EveryQueryEnds`, `EveryEmbedEnds`, and of `ImplementsPromise` what goes beyond
`KeepsPromise`): fairness and `ENABLED` are beyond the prover.

## 6. Where code and documentation disagree

With a run that shows it (`findings` in `PROJECT.json` quotes the lines):

- `runner_rls`: the runner resolves a schedule's owner on a context without an organization. With
  the forced row security of migration 000030 that sees no schedule, and the runner switches the schedule off.
- `runner_delivering`: the sweep can claim the row between enqueue and inline attempt; the
  inline attempt returns "delivering", which the caller's `default` branch takes for done and
  marks the run completed.
- `runner_wedged`: `next_run_at` moves only at the end of an execution. If it dies after the
  enqueue and the sweep finalises its run, nothing recovers the run and the slot's key makes every later
  poll skip the schedule, for ever.
- `llm_org`: reservations are serialised per user, but the organization's limit is checked under
  the same lock: two users admit each other's excess.
- `sessions_logout`: migration 000046 revokes `EXECUTE` on `app.revoke_browser_session` from `PUBLIC` and
  does not grant it to the application's role. Where another role runs the migrations, as the entrypoint
  says it should, the revocation at logout fails, its error is ignored, and the row stays live.
- `audit_admin`: the admin handlers commit a change before they record it, and the event types they record
  are not in the CHECK of `app.audit_logs`. In required mode the change stays, unaudited, and the request
  is answered with an error; in the other modes such entries never reach the log.

Met while modelling, without a run:

- The comment on `EquivalenceResult` says that VerifiedEqual is never said unless every row of a result within
  the cap matched. The counts and the samples are separate transactions: when the tables grow in
  between, rows beyond the cap are not compared and the status is VerifiedEqual all the same. With the
  tables at rest it is said of results above the cap: the fingerprint path (equivalence.go:74-80), which
  comes first, compares counts and aggregate hashes and says VerifiedEqual of any size, without a
  row compared and whatever the cap. And it is said under a `Runner` that returns fewer than 1000 rows (the client
  library's `Options.MaxRows`) of results whose other rows were not fetched; TLC shows it with `MaxRows = 1` and
  without the guard of `VerdictsAreTrue`.
- A candidate that is tested while a report is stored becomes the current one, and the investigation then
  becomes `complete` all the same: it shows that candidate's comparison beside the report of the previous.
- In buffered mode `enqueueBuffered` drops the request's context, so entries that do not carry their
  organization themselves are logged under the default one.

- `RegressedIsMeasured` in `FixLoop` states for *regressed* what `ConfirmedIsMeasured` states for
  *confirmed*, and does not hold: the reconciliation takes the query's last two snapshots, not the
  last two polls, so a query that left the top 50 after its fix is declared regressed on traffic
  from before it once the grace period is over. (Confirmation cannot go wrong this way, because
  the baseline is that same interval.)
- Users can set `confirmed` and `regressed` through `UpdateFix`; the comment on `fixTransitions`
  says they are set by the poller, not there. Racing requests, or a request and the poller, also
  move a fix along edges the graph does not have, and a verdict can overwrite an abandoned fix.
- The reconciliation and the baseline partition snapshots by `queryid` alone: with several
  connections the counters of different databases are subtracted from each other.
- An alert on load (total time, calls, rows) is resolved by the poll that opened it when latency
  is at the baseline; an acknowledged alert of a still regressing query is followed by a new one.
- A run whose delivery is pending has no heartbeat; recovery may dead-letter it while the
  delivery later succeeds. A retry of a run whose row is dead-lettered never sends again, the row
  being terminal.
- `maxOrgPools` is what the global connection budget leaves for tenant pools; but a pool is opened (connection.go:669) before a place is
  made for it (connection.go:685), and one that is evicted keeps its connections until the queries on it
  end, so there are more for a while: one for each request that is opening one (`WithinBudget`).
- `ExpireAbandoned` and `cleanupOldPolls` run without an organization and, under forced row security,
  touch no row. Reservations nevertheless stop counting by their expiry time.

## 7. What is not covered

- *Not modelled yet*: managed keys, `RankCandidates`, the pure decisions
  (section 8). *Not worth a model*: routing, wording, parsing,
  charts, generated code, the front end, floating-point statistics.
- `ScheduleRunner`: schedules exist from the start (no Create); a heartbeat already in flight when
  its execution stops is left out; passing runs take `RlsEnforced = FALSE`, since otherwise the
  first execution ends the schedule (`runner_rls`) and nothing else could be seen.
- `LLMBudget`: one organization, one estimate for all calls, one window (the daily and monthly
  ones sum the same rows within a day), token limits (cost limits are a linear unit of them).
  `CountedWhileInFlight` assumes that a reservation outlives its call (`TtlCoversCall`); the code's 5
  minutes exceed the 120 s of the cloud clients, but equal Ollama's 300 s, and nothing covers that case.
- `RegressionAlerts`: findings are chosen freely at each poll, one organization, alerts of the
  poller only. An alert's texts, counts and impact are data nothing is decided on. A mean is positive:
  the reconciliation's `d_total >= 0` admits a mean of 0, which as a baseline would be confirmed by the very
  interval it was taken from.
- `AuditStore`: the organization of an entry, `attempts` and `last_error` of a buffered row, and ties
  of `created_at`. A failing `SELECT` of a replay does nothing and is left out.
- `BrowserSessions`: one user; what refresh tokens contain, cookies, and the provider's answers beyond
  success and failure. A request that resolved a membership before it changed and writes its session
  after the administrator's revocation leaves a live session with the old role: the model has it, and
  `SessionIsMembership` exempts it (`tainted`). Sessions expire only in that any load may fail. Managed API keys.
- `TenantPools`: one process; the health checks of a pool and the SQL validator; a pool's connections are
  counted only as "some query uses it".
- `RateLimiter`: one key, with integral ticks; how a request gets its key.
- `Embedder`: texts and vectors, of which the length is kept. A breaker that opens while a call waits for its
  place does not stop that call; this is in the model, and no property speaks of it.
- `WebhookOutbox`: a sender whose exchange outlasts its lease may write over a newer attempt or a settled row.
  `runner_overlap` has it and checks what survives (`DeliveredWasReceived`, `AttemptOwnedOnce`); `ImplementsPromise`
  is taken where leases cover attempts and says nothing of it.
- `InvestigationReports`: one investigation; plans, costs and binds; collisions of row hashes and the names of
  columns, which the comparisons take as equal.
- `FixLoop`: an investigation's EXPLAIN, title and SQL are left out; a fix is judged on the query
  of its alert.

## 8. Plan

1. *Done*: outbox, promise and refinement; runner; their runs; outbox proofs.
2. *Done*: LLM budget, its runs and proofs.
3. *Done*: regression alerts and the fix loop, their run and proofs.
4. *Done*: the audit store, its runs and proofs.
5. *Done*: sessions with the memberships they follow, pool registry, rate limiter, governed embedder, candidates
   and reports of investigations, in one composed run; proofs of sessions and rate limiter.
6. *Done*: proofs of the runner composed with its outbox.
7. *Next*: managed keys; then the pure decisions, as functions over bounded inputs against reference definitions:
   `evaluateRegression`/`hasRecovered`, `webhookBackoff`, `computeNextRun`, plan
   diff and candidate ranking.
8. *Done*: proofs of the pools, the embedder, the reports, the sums of the LLM ledgers, exclusive generation, and
   the composition of `MCServices`: no safety property of a passing run is left to TLC alone.
9. *Proofs to come*: with the pure decisions of 7, theorems that do not need induction over data.

## 9. Running the checks

    tlc -workers 2 -config Services.cfg MCServices
    tlc -workers 2 -config FixLoop.cfg MCFixLoop
    tlapm WebhookOutbox_proofs.tla

`PROJECT.json` lists every run with its module and configuration. The largest, `services`, `runner_api` and
`fix_loop`, take about two minutes on two cores, `audit` one and a half.
