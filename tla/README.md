# A verification project for lead-engine

TLA+ models of the parts of lead-engine whose correctness depends on what
several processes, a database and a few external services do in which order;
TLC runs that check them on small instances, and TLAPS proofs of what holds for
any number of jobs, workers and events.

Paths are relative to the repository. `PROJECT.json` maps every definition that
models code to the lines it stands for.

1. [The system](#1-the-system)
2. [The modules](#2-the-modules)
3. [The runs](#3-the-runs)
4. [Bounds](#4-bounds)
5. [Fairness](#5-fairness)
6. [The proofs](#6-the-proofs)
7. [Where the code departs from what it says](#7-where-the-code-departs-from-what-it-says)
8. [What is not modelled](#8-what-is-not-modelled)
9. [Plan](#9-plan)

## 1. The system

The repository holds two systems. The **v6 system** (`application/`, `domain/`,
`infrastructure/`, `runtime/`, `contracts/`, `v6api/`, `apps/`, `migrations/`)
is a job runtime on PostgreSQL with fenced leases, an effect ledger around every
paid call and a transactional outbox. The **legacy system** (`lead_engine/`) is
the older engine with a queue, router, event dispatcher and research
orchestrator of its own, and with what v6 has no counterpart of: billing,
integrations, provisioning, privacy, agents that propose code.

### How the v6 parts meet

```
 v6api / use cases --enqueue--> runtime.jobs <--claim, fence, release-- Worker
        |                                                                |
   review, PII      maintenance: reap, wake, reconcile, relay, doctor   run handler (JobOps)
                                                                         |
                         AcquisitionPipelineHandler: phases, checkpoints, units of work
                          |                        |                        |
                   ProviderGateway           Manus stage              PgUnitOfWork
                   effect ledger             key ledger               rows + outbox
                                                                         |
                                          OutboxRelay -> consumer -> webhook
```

### How the legacy parts meet

```
 api (start, answer, cancel, recover) --> jobs <-- lease, no token -- worker tick / cron
                                                                         |
                              research orchestrator          acquisition pipeline
                              rounds, finalize, review gate   dedup, enrich, legal gate
                                   |            |                   |
                               truth layer   agent runs         leads --> CRM sync
                                   \____________|___________________/
                                          Router: cache, quotas, key pools
 outbox --> dispatch_pending (cron, tick, worker) --> webhooks, notifications
```

Everything the parts share is a table. A worker process does one thing after
another, but several processes run at once, none of them knows the others, and a
process that lost its lease is not told: in v6 it finds out when a write that
carries its token matches no row, in the legacy system not at all.

### Components

| component | state it keeps | what is hard | what makes it correct | module |
|---|---|---|---|---|
| job runtime: `runtime/leasing.py`, `worker.py` | a row per job: state, token, version, expiry, attempts, checkpoint | zombies, crashes, a reaper that reads before it writes | one worker passes the fence; attempts add up and done is done unless the reaper overwrites the row; every orphan is taken back | `Leasing` |
| acquisition pipeline: `application/handlers/pipeline.py` | phase, index and companies in the checkpoint; rows of units of work | a unit of work and its checkpoint are two transactions, and only the second is fenced | a resumed run skips nothing, no stage runs ungated, what is published is complete | `Pipeline` |
| its repositories: `infrastructure/repos/`, `pii/vault.py` | companies, claims, contacts, verdicts, leads | jobs that find the same company, rolled back queries | one company per site, what is visited is ingested, disagreements are kept | `Intake` |
| Manus stage: `application/handlers/manus_stage.py`, `manus_engine.py` | task ids, cities and key balances in the checkpoint | a paid call and its checkpoint are two steps; the answer of a creation may be lost; tasks may never finish; keys run dry | a city is paid for once per attempt, and again only for a lost answer; credits are booked once, no city is skipped, the job ends | `ManusStage` |
| gateway and effect ledger: `infrastructure/providers/gateway.py` | a row per (provider, operation, parameters, job) | the row lives in the caller's transaction, the effect does not | the budget holds, a success is final and has its data, an unknown outcome gets a review | `EffectLedger` |
| outbox relay and inbox: `infrastructure/events/relay.py` | outbox, inbox, dead letters | four transactions per event, relays that overlap | an event leaves the outbox only handled or parked; dead letters are bounded | `OutboxRelay` |
| use cases and webhooks: `application/usecases/`, `webhook_consumer.py` | campaigns, decisions, audit rows | checks in another transaction than the act | a job has its campaign, a lead one verdict, outreach an approval | `Admission` |
| boot and providers: `bootstrap.py`, `registry.py`, `real.py`, `credentials.py` | environment, adapters, key pools | partial registration, refusals inside a call | no key is wasted, what is set by hand stands | `Wiring` |
| doctor and sentinel: `application/doctor/`, `infrastructure/doctor/` | alerts | checks read one after the other; findings looked up and written while others write theirs | no outage that lasts is passed over, alerts follow reports | `Sentinel` |
| legacy queue and research: `lead_engine/queue.py`, `jobs.py`, `worker.py`, `research/` | a job row with a lease but no token, the research context | writes by id alone, time slices, users and ticks on one row | one worker per job unless a lease lapsed, complete reviews, orphans reclaimed | `LegacyQueue` |
| legacy events and audit log: `events.py`, `activity/` | outbox, consumptions, audit rows | dispatchers without a lock, secrets that cannot be read, pages of a growing log | at least once for each webhook whose secret is readable, duplicates explained, a reader sees its tenant's rows, all of them | `LegacyEvents` |
| legacy router: `router.py`, `registry.py`, `cache.py`, `entitlements.py` | quotas, cooldowns, credits | a check and its count are apart | overshoot bounded, a pause only when nothing is left | `LegacyRouter` |
| truth layer and leads: `truth.py`, `privacy.py`, `review_api.py`, `icp_store.py` | facts, sources, conflicts, lead rows | statements that commit one by one, writers that die between two | a verified fact has grounds, rivals are in dispute, a human's decision lasts | `TruthLayer` |
| agents: `agent_registry.py`, `codeops.py` | runs, approvals, a git tree | slices, reapers, patches in any order | nothing unapproved on disk, one run under way unless slices die or overlap | `AgentWork` |
| accounts: `provisioning.py`, `billing_api.py`, `integrations.py`, `sync.py` | tenant, plan, connection, CRM rows | outside systems that repeat, reorder and lose | a plan while it is paid, a token used once, no second row of what can be looked up | `Accounts` |
| legacy pipeline: `lead_engine/pipeline/` | candidates, leads, credits | chains of merges, budgets | groups sound, doubts reach a person, budget reaches every city | `LegacyPipeline` |
| guards: `ratelimit.py`, `policy.py` | a bucket, the do-not-contact list | threads that lock late, editors that overlap, channels of their own and "all" | no burst beyond the bucket, what is listed is blocked | `Guards` |

`PROJECT.json` lists every component, those without a module too.

## 2. The modules

| module | models | builds on |
|---|---|---|
| `JobLifecycle` | what the runtime promises whoever enqueues a job | |
| `Leasing` | the v6 job runtime and its workers, with an open handler | refines `JobLifecycle` |
| `LeasingProofs` | theorems about `Leasing` | `Leasing` |
| `Pipeline` | the acquisition pipeline, on the runtime | extends `Leasing` |
| `PipelineProofs` | theorems about `Pipeline`, and those of `Leasing` for it | `Pipeline`, `LeasingProofs` |
| `Intake` | what its units of work leave in the repositories | what `Leasing` and `Pipeline` show |
| `ManusStage` | the asynchronous discovery stage, for one job | what `Leasing` shows |
| `ManusStageProofs` | theorems about `ManusStage` | `ManusStage`, `SumTheorems` |
| `EffectLedger` | the provider gateway and the ledger's reconciliation | |
| `SumTheorems` | the sums of the community modules over finite sets, as cardinalities | |
| `EffectLedgerProofs` | theorems about `EffectLedger` | `EffectLedger`, `SumTheorems` |
| `OutboxRelay` | event delivery | |
| `PlatformProofs` | theorems about `OutboxRelay` and `Wiring` | both |
| `Admission` | campaigns, reviews, reading of contacts, the webhook consumer | |
| `Wiring` | boot of a process and its calls over key pools | what `EffectLedger` shows |
| `Sentinel` | the checks of the doctor and their alerts | |
| `UnfencedLifecycle` | what is left of `JobLifecycle` without a fence | |
| `LegacyQueue` | queue, job machine, worker tick, research and pipeline runs | refines `UnfencedLifecycle` |
| `LegacyEvents` | event dispatch, pages of the audit log | |
| `LegacyRouter` | routing of one task | |
| `TruthLayer` | facts, leads, ICP versions | |
| `AgentWork` | agent runs, approvals, patches | |
| `Accounts` | provisioning, billing, integrations, CRM sync | |
| `LegacyPipeline` | a run of the first pipeline, and its pauses | |
| `Guards` | rate limiter, suppression list and policy gate | |
| `LegacyProofs` | theorems about `LegacyQueue`, `LegacyEvents` and `LegacyPipeline` | those |
| `ServicesProofs` | theorems about `AgentWork`, `LegacyRouter`, `Guards`, `Admission`, `Intake`, `TruthLayer`, `Accounts`, `Sentinel` | those |
| `MCPlatformServices` | `Admission`, `Intake`, `Sentinel`, `Wiring` side by side | those |
| `MCLegacyServices` | the legacy modules but the queue, side by side | those |
| `MCLive` | `LegacyQueue`, `LegacyEvents` and `OutboxRelay` under fairness | those |
| other `MC...` | constants of the runs | the module they are named for |

A definition whose comment begins with "Mutant" is a plausible bug, used to show
that a property notices it; nothing else refers to it.

**Composites.** The services in `MCPlatformServices`, `MCLegacyServices` and
`MCLive` share no variable that a property relates. A variable `part`, picked at
the start and never changed, says which of them a behaviour moves, with all its
actors; the others rest. This is the union of the services' state graphs and not
their product: what the product would add is only interleavings of steps that do
not see each other.

### Leasing

Each column the protocol reads is a variable: `state`, `token` (0 is no token),
`version`, `attempts`, `cancelRequested`, `checkpoint`. `timer` is what `now()`
is compared with, `lease_expires_at` of a leased row and the age of a parked
one; `Elapse` lets it run out. A worker is a program counter `pc` and the
`JobContext` it was given, `ctx`. Its cycle is the one of `Worker.run`: reap,
wake, claim, handle.

Every SQL statement is one action, with the `WHERE` as its guard and the row
count as its outcome: `ClaimNext`, `Heartbeat`, `SetPhase`, `SaveCheckpoint`,
`Park`, `Complete`, `Fail`, `ApplyCancellation`, `FinishCancelled`, `WakeParked`.
`LeaseLost` is the zero rows of any fenced statement, `Fenced` the fence.

The reaper is two steps, `ReclaimRead` and `ReclaimWrite`: under READ COMMITTED the
subselects are evaluated first, and a row that another transaction changes before
the `UPDATE` locks it is overwritten, because the outer `WHERE` repeats none of the
conditions. `overtaken` remembers the rows that were; what such a job keeps and what
it loses is stated with it.

The handler is left open: it calls `JobOps` in any order, stalls, raises or goes
on after it lost its lease. What holds for it holds for every handler.

### Pipeline

Every runtime call of the handler is the `Leasing` action of that name, conjoined
with what the handler does; between two of them `Unit`, `PlanPolicy`,
`QualifyOne`, `QualifyRejects` and `Publish` commit a business transaction that
no lease protects. `at` is the place in the handler, `ck` the checkpoint in its
memory, `saved` the one in the row. A company stands for the url it was found
under. `raw` and `visited` are the discovery rows, `done` the pairs of stage and
company whose rows are committed, `leads` counts lead rows.

The number of units in `Leasing`'s checkpoint counts the saves; what is saved is
`saved`. The queries and their results are constants, so a repeated query finds
the same companies again, the ones `visited` filters out.

### Intake

The same handler seen from its tables, with several jobs of one organization.
`tx` holds the open transaction of a job, `db` what is committed; `Seen` is what
its statements read, and an action whose statement would wait for a row of
another transaction is not enabled (`Waits`). `Resolve` is the lookup of a
company, `Store` the inserts that follow, `Refused` the statements that fail,
`RolledBack` the end of the unit of work by an exception. A company is named by
the page that created it.

### ManusStage

One job. `OneOwner` and `ProgressKept`, proved for `Leasing`, let `owner` stand
for the lease: `owner = w` is the fence. A checkpoint is the record the engine
serialises; `ck` is the engine in memory, rebuilt by each pass. A city answers
with one company or with none. Manus owes nothing: a poll may find any task
unfinished, failed or unreadable, for ever; `DeadlinePasses` makes all the tasks
submitted so far older than the engine's timeout. A creation that fails may be one
whose answer came too late: the task is then among `unheard`, runs and is charged,
and nobody knows of it. Credits are whole numbers. The phases after the stage are
one step, `Return`.

### EffectLedger

The ledger is written on the caller's transaction. `row` is what is committed,
`own[w]` what the open transaction of `w` wrote, `NoRow` where it wrote nothing
(`Wrote`); `View` is what its statements
see; a row in some `own` is locked, and a write of it waits. An adapter books its
price or nothing, so `Booked` is at most `Price`. `Commit` publishes
`own` together with the stored result, `RollBack` drops both. `Abort` is an
exception or a crash, `UniqueViolation` the reservation that meets another
transaction's key, `DeadlockVictim` the transaction PostgreSQL picks when two
wait for each other. `called` and `answered` count what happened outside the
database, which no rollback undoes. `ReconcileRead` and `ReconcileWrite` are the
maintenance tick's two transactions.

### OutboxRelay

`tick` is `Fetch` (one transaction, which ends and gives up its row locks), then
per event `Count`, the consumer's `Check`, the handler, `Record` or `OnFailure`,
and `Mark`, each a transaction of its own. A crash between any two loses the
relay's memory, not the tables.

### JobLifecycle

The abstract specification: a job waits, runs in one epoch at a time, gains one
unit of progress at a time while it runs and is released by whoever runs it. A
running job may come into doubt; whoever doubts jobs may settle them, and does so
even if they went on meanwhile, which is the only way a job that is done is put
back. The refinement mapping is in `Leasing`: `phase` from the state column, `epoch`
the lease version, `progress` the checkpoint, `doubted` what the reapers' subselects
returned.

### Admission

A `with` block of a unit of work is one step. A request counts the jobs, commits
its campaign, enqueues its job; the process may stop in between. A manager's call
reads the lead and the policy first and writes under the guard of `decide_lead`,
which is evaluated when it writes. `Decrypt` and `Give` are the two halves of
reading a contact. `RelayTick` is the worker's relay with
`WebhookDispatchConsumer` as its consumer.

### Wiring

One process: `HydrateFails` or `Hydrate`, then `BuildGateway` and `BuildModelGateway`,
which put the adapters into `wired`, each at its place in one of four lists (what the
code ships and what the file adds, providers and models), then calls, which ask in the
order of priority and of these places (`Before`). `index` is the place of an adapter's
`KeyPool`; it outlives a call. Each `Ask...` is one request with its outcome,
`OutOfAdapters` the end of a waterfall.

### Sentinel

`platform` is what the checks read, with ages "new" and "old" on the two sides of
a check's threshold. Each check is an operator from a platform to a status. A
maintenance round runs `Maintain`, `Examine`, `LookUp`, `WriteAlerts` and `Beat`;
rounds of several workers interleave, and so do the requests of `GET /api/v1/doctor`
(`Ask`, `Examine`, `Answer`). `Examine` runs one stretch of checks after another
(`Stretches`; in the code each check is a stretch, with transactions of its own), and
anything may happen between two. `out` remembers the outages that have lasted since
the report was begun. `Maintain` takes the transactions before the doctor in one step.

### LegacyQueue

`job` is the row (state, lease, due date, attempts), `ctx` the research context
with its `counters_json`, facts and leads, `me` what a worker has in memory. A
statement of `queue.py` is one action; `transition` is read as of its conditional
UPDATE (`Admits`); `POST /api/jobs/start` is `CheckStart`, `StartJob` and `Enqueue`. A
read-change-write of `counters_json` is two steps (`Change`,
`WriteCounters`), and so is a pause. The tick is `ReclaimExhausted`,
`ReclaimExpired`, `LeaseNext`, the run, and `Complete`, `Release`, `YieldSlice` or
`FailRead` and `Fail`. The API's calls are actions of their own, with the enqueue
that follows a transition as a separate step that may be lost. `past` keeps what the
properties need of a job's history, among it `leadless`: the companies the last
slice judged without making them leads, and why, an error or facts too thin.

### UnfencedLifecycle

The abstract specification of the same queue, without rows, leases, ticks or calls:
workers take a waiting job, deliver leads, and leave it; a taking is counted, and
given back at most once, by its holder on its way out. A job that is held is taken
again only after a lease of it was overrun, nothing delivered is lost, and a job is
given up only when its takings are used up or can no longer be attributed. Anybody
may turn a job to another phase otherwise: that is what the API's users and the
reapers do. The mapping is in `LegacyQueue`: `phase` from the state and kind
(`QueuePhase`), `holders` from the workers' memories, `overrun` from
`past[j].lapsed`, `delivered` from the leads.

### The legacy services

- **LegacyEvents**: a dispatcher selects a batch, and per event and consumer
  checks, sends, records and marks, each a statement of its own; `overlap`
  remembers events two dispatchers have held at once. `SkipSealed` passes over a
  webhook whose secret cannot be decrypted, and `sealed` remembers it. The audit log
  is a sequence of tenants, and a reader walks it below a cursor.
- **LegacyRouter**: callers share the registry's rows; `BeginRoute` to `MarkQuota`
  follow `Router.route`, with the adapters' outcomes as `RequestFails` and
  `RequestSucceeds`. A call reads the rows in one SELECT and then resets the outdated
  ones with an UPDATE each (`ExpireRow`), whatever happened to them in between; an
  answer counts the units it reports, up to `MaxUnits`.
- **TruthLayer**: one field of one company. A writer reads, inserts, adds its
  source, looks for rivals, opens conflicts and writes a status; others do so in
  between, and it may die between any two (`WriterDies`). `uncompared` remembers the
  values nobody compared with their rivals: those that were EXPIRED, STALE or INFERRED
  and stand again, and those whose first writer died before it looked. The lead and
  the ICP version are rows with clerks of their own.
- **AgentWork**: runs and their slices, whose opening is four statements
  (`ReadContext`, `CheckRun`, `CreateRun`, `NameRun`); patches over a tree of one
  file, whose content is the name of the patch that wrote it.
- **Accounts**: four services that share no row, each against an outside system
  that repeats, reorders or loses. A sync looks for a row only where the code has a
  query for it (`Looks`): not in the appended tables, not for a company without a
  domain and a name, not for a contact with neither email nor decision maker.
- **LegacyPipeline**: a run is a sequence of stages over records of candidates. Dedup
  goes one look at a time (`Look`), in the order of its three loops (`Sooner`); the
  stages after it go lead by lead, and a lead sits at the first candidate of its group.
- **Guards**: time in ticks, so that rate, cost and burst are whole numbers; the
  clock is read before the lock is taken. An edit of the list looks, then writes. A
  spelling carries the address it normalises to; which spellings do is given.


## 3. The runs

| run | instance | checks | states |
|---|---|---|---|
| `MCLeasingRace` | 3 workers, 1 job, fairness | `TypeOK OneOwner ProgressKept OrphanRecovered` | 199k |
| `MCPipeline` | 2 workers, 1 job, 3 companies from 2 queries, 1 crash, fairness | `BudgetExact RunIsSound PolicyGate DoneUnlessOvertaken LifecycleSpec EveryJobEnds` | 474k |
| `MCManusStage` | 2 workers, 2 cities, 2 keys, 1 fault, fairness | `StageIsSound NeverOvercharged EndsUnlessStarved` | 917k |
| `MCEffectLedger` | 1 worker, 2 requests, a free and a paid provider, 2 rollbacks | `ReplaysAreRollbacks SpendingIsFinal` | 346k |
| `MCEffectLedgerZombie` | 2 workers, 2 requests, 1 provider, 1 rollback, fairness | `EffectsAreSound UncertainIsReviewed` | 287k |
| `MCPlatformServices` | the six services around the v6 runtime | `UseCasesHold IntakeIsSound KeysAreUsed OutagesReachAlerts` | 296k |
| `MCLegacyQueue` | 2 workers, 1 job, 1 fault, users | `RowsAreHeld ReviewIsComplete SweptBeforeJudged EmailsPaidOnce LifeIsKept` | 2.0M |
| `MCLegacyServices` | the fifteen services around the old queue | `ProvidersAreShared AgentsAreHeld AccountsAreEarned LeadsAreSound GuardsHold EventsAreKept TruthIsEarned` | 1.7M |
| `MCLive` | the outbox relay with 2 relays, 2 events and a crash; the old queue; the old event dispatch; fairness | `NoEventLost DeadLettersEarned PoisonStops EveryEventSettles OrphansReclaimed WorkIsServed EventsSettle` | @LIVE |
| `MCLeasingReaper` | 2 workers, 1 job | `DoneIsFinal` is violated | |
| `MCIntakeConflicts` | as `MCPlatformServices` | `DisagreementsAreKept` is violated | |
| `MCWebhookPost` | the relay with the webhook consumer, fairness | `EventsArePosted` is violated | |

Some properties are conjunctions with a name of their own for each part:

| property | parts |
|---|---|
| `RunIsSound` | `PipelineTypeOK ReadyIsProcessed StagesInOrder PublishedIsComplete` |
| `StageIsSound` | `StageTypeOK PaidBounded CitiesResearched` |
| `SpendingIsFinal` | `BudgetKept` (always), `SucceededStays` |
| `EffectsAreSound` | `TypeOK NothingLeftReserved ReplayHasData ReviewsBounded` |
| `UseCasesHold` | `JobHasCampaign OneVerdict OutreachIsApproved` |
| `IntakeIsSound` | `OneCompanyPerSite VisitedIsIngested` |
| `RowsAreHeld` | `QueueTypeOK ExclusiveUnlessLapsed TakingsCounted` |
| `LifeIsKept` | `UnfencedSpec` (the refinement), `GivesUpExhausted` |
| `ProvidersAreShared` | `QuotaOvershootBounded PauseIsJustified` |
| `AgentsAreHeld` | `OnlyApprovedOnDisk OneRunUnderWay` |
| `AccountsAreEarned` | `ActiveIsEarned PaidUntilCancelled RefreshedOnce ResyncAddsNothing` |
| `LeadsAreSound` | `GroupsAreSound DoubtsReachReview BudgetIsSpread` |
| `EventsAreKept` | `DispatchedIsDelivered DuplicatesAreExplained AuditPagesComplete` (always), `SettledStays` |
| `TruthIsEarned` | `VerifiedHasGrounds NoSilentRival` (always), `DecisionSurvives` |

What the passing runs show:

- **MCLeasingRace.** Fencing does not depend on the reaper: with transactions committing
  between its subselects and its updates, the owner of a job is still unique, progress
  never goes back, and a job whose worker died, gave up or was reaped is always taken
  back from it.
- **MCPipeline.** No job is run more often than its budget, and as long as no reaper
  overwrites a row that changed since it looked, a job waits only with an attempt left,
  fails only with none, and nothing leaves a final state. Overwriting and all, the table
  behaves as `JobLifecycle` says. A takeover between any two steps repeats work but
  skips none: every company of a ready job has gone through every stage, no stage starts
  before the one below it is complete, nothing is stored before an allowing policy
  decision, a campaign is published complete unless its job was cancelled, and every job
  ends or is overwritten.
- **MCManusStage.** A city is paid for at most once per attempt (parking costs none),
  and one time more only for a creation whose answer was lost; a task's credits are
  booked at most once however many passes see it, the stage is left only when each city
  was researched, and the job ends unless no key can pay for what is left.
- **MCEffectLedger.** Costs stay within the budget whatever is rolled back and
  repeated; a success is never downgraded, and it is executed again only when a
  rollback has taken its row away.
- **MCEffectLedgerZombie.** With the owner and a zombie in the same effects, no
  reservation outlives its transaction, a cached success has its data, an
  uncertain effect comes to a review, and only overlapping ticks can queue more
  than one.
- **MCPlatformServices.** A job is enqueued only behind its committed campaign; of
  several managers one decides a lead, under a policy that did not block it, and a
  contact is handed out only while its lead is approved and with an audit row. Two
  jobs that find one site leave one company, and a rolled back query leaves no page
  that later attempts skip. A key pool moves only past refused keys, a variable set
  by hand is not overwritten. A report of the doctor, a worker's or a request's, passes
  over no outage that lasts from its first check to its last, and one that lasts until
  the alerts are written is an open alert; a writer of alerts that nobody overlaps
  leaves exactly its report open.
- **MCLegacyQueue.** Without a token, a job is still run by one worker at a time unless
  a lease of it ran out; what comes to review has a lead for each company but those that
  the last slice judged and found an error or too little for a lead, however slices were
  cut; an address is paid for once unless there was a fault, and a research job is given
  up only with its attempts used up. Overrun or not, the workers at a job are never more
  than its counted attempts, and all of it together, leases, reapers, slices and users,
  is a job's life as `UnfencedLifecycle` tells it.
- **MCLegacyServices.** A quota is overshot by less than one answer of each caller; a
  job pauses for capacity only when each provider was tried. Nothing unapproved is on
  disk, and a job has a second run under way only after a slice died before it named its
  own, or two slices opened one at a time. A plan is in force while it is paid (for one
  subscription whose events came in order), a refresh token is used once per process
  unless an answer was lost, a sync again adds no second row of what it can look up.
  Dedup never bridges two domains and every doubt reaches a person. No burst exceeds the
  bucket, even with threads that lock in another order than they read the clock. An
  event is marked as dispatched only after each webhook that is registered, its secret
  readable, had it; it is repeated only for a reason, and a settled one stays as it is.
  A verified fact has its grounds; two fresh rivals are in open conflict unless somebody
  decided, one was brought back, or the first writer of one died before comparing it; a
  human's decision lasts.
- **MCLive.** With overlapping relays, an event leaves the v6 outbox only handled or
  dead-lettered, is dead-lettered only after failing, collects at most one dead
  letter per relay, and every event settles. In the old system an orphaned job is
  taken back, queued work with attempts left is served, every event is delivered or
  given up.

Every property has at least one mutant: a changed definition of the model, as a
plausible slip in the code would change it, under which TLC finds the property
violated in the run's own instance.

## 4. Bounds

| bound | why it is enough |
|---|---|
| `MaxClaims` | 3 in `MCLeasingRace`, which lets a job be taken from two different zombies before its owner acts; tokens are compared only for equality and versions only with the one of the claim; 2 in `MCPipeline`, an owner and one zombie |
| `MaxUnits` | 2 in `MCLeasingRace`, so that a zombie can be one save behind or level with the owner; 20 in `MCPipeline` is more than a run ever saves |
| 3 workers in `MCLeasingRace` | an owner, a zombie and a reaper between its two statements; in `MCPipeline` and `MCLeasingReaper` 2, one of which may be that reaper |
| `MaxAttempts` 2 (everywhere) | one attempt given up, one that is the last |
| 2 queries, 3 companies | a company found by both queries, one without a contact, one that is rejected |
| `MaxCrashes` 1 in the pipeline | a stalled zombie needs no crash (its lease merely lapses), so takeovers are not limited by it, only deaths are |
| 2 cities, 2 keys, balance 4, floor 1, estimate 2, usage 3 | each key pays for one task and not for a second; the second key takes over the first one's city after a failure; both can be used up |
| `MaxFaults` 1 in `MCManusStage` | a failed `create_task`, whose task may run all the same, an exception or a crash, anywhere; lapsed leases are not counted |
| `MaxCalls` 5 and 3, `MaxAborts` 2 and 1 in the ledger | two requests with a rolled back, a repeated and a failed call each; a bound on calls also bounds the executes |
| 2 relays, 2 events in `MCLive` | one relay overtaking another at every transaction, on the same event and on different ones |
| `Requests` 3, `MaxConcurrent` 1 | a request below the limit, one that races it, one above it |
| 2 managers, 2 leads, an open and a blocking policy, `MaxDecisions` 4 | managers on the same lead and on different ones, a policy that changes between reading and writing |
| 2 jobs, 3 pages, one listed, `MaxAttempts` 2 in `Intake` | two pages of one site, found by two jobs, and a page of a directory; a query rolled back and tried again |
| 2 watchers, 1 request, 3 stretches of checks, 1 job, 2 events, `MaxChanges` and `MaxTicks` 2, `MaxRuns` 1 | an outage that appears, ends or lasts before, between and after the stretches of two overlapping rounds and a request; an old event behind a newer one. More stretches only cut the checks finer: the proof is for any cut |
| 2 variables, 2 keys, 5 registry files, `MaxCalls` 2 | a key refused and the next one taken, a second call after the pool moved; files that are empty, extend, shadow, disable or break |
| `MCLegacyQueue`: 1 job, 2 workers, `MaxSteps` 1, one subject, `MaxFaults` and `MaxReopened` 1 | the worker that lost a job and the one that took it, at every pair of statements; a slice that is cut before its only step; a user's answer, resume, recovery or cancellation at any place |
| `MCLive`: 1 worker, `MaxFaults` 2 | every attempt of a job may crash; orphans, not races, are the question there. `MaxLost`, `MaxSealed` and `MaxAudit` 0: what is lost or passed over is in `MCLegacyServices`. So `EventsSettle` does not speak of a dispatcher that is killed before its `_mark` each time: such an attempt is never counted, and the event stays pending |
| `Events` 2, `Dispatchers` 2, `MaxRounds` 2, `Tries` 1, `Batch` 1, `MaxLost` and `MaxSealed` 1 | an event that fails at the head of the batch with one behind it, dispatchers that hold the same event, of which one may read the webhook's secret and the other not |
| `MaxAudit` 4 | a page before, at and behind the end, with rows of another tenant and rows written between two pages |
| 2 callers, 2 providers (one with 2 keys, one with a quota), `DailyCalls` 3, `MaxUnits` 2, `MaxUsed` 1 | callers between check and count of the same units, and of more than are left; rows reset between another caller's check and count; a pinned provider; an entitlement that ends between two calls |
| 2 values, 2 domains, 2 writers, `MaxOps` 3 | two writers of rival values with a verdict, a resolution or a death between their statements |
| 3 runs, 2 slices, 2 patches, 2 operators, `MaxCalls` 3 | two slices between the four statements that open a run, with the run of one that died; patches applied and reverted out of order on one file |
| 2 calls, 1 subscription, 3 senders in 2 processes, `MaxTokens` 2, `MaxSilences` 1, 2 syncs | a retried provisioning, a webhook repeated and reordered, threads of one process and of another, an answer lost, syncs that overlap |
| 2 cities, `MaxQueries` 3, 5 finds, `Credits` 1, `MaxPeople` 2, 2 policies | less budget than queries but room for each city; finds chained by phone, name and email across two domains; one credit for two leads |
| 2 threads, burst 2, rate 1, cost 2, `MaxClock` 4, `MaxAsked` 3 | a bucket emptied, half refilled, and read late by a second thread |
| 3 editors, 2 spellings of one address, channels named or "all" | an add, a removal and an add of the same row, looked at and written in any order |

A bound stops the model from taking more of the bounded step; no property speaks
of one. Symmetry over jobs, workers or dispatchers is used only in runs whose
properties are invariants or properties of single steps. One worker in
`MCEffectLedger` is what the lease of a job gives; what a second one breaks is in
section 7.

## 5. Fairness

- **Workers.** A crashed worker process is started again and the tick of a cycle
  comes before everything else in it (`Worker.run`; the deployment's scheduled
  workflow starts workers). `Leasing` asks weak fairness of `Restart` and strong
  fairness of the reaper: a process that is killed again and again during its
  tick completes one some time. Handlers end (`HandlerEnds`), since every call
  they make has a timeout.
- **Clocks.** `Elapse` and `DeadlinePasses` are weakly fair, and in `LegacyQueue`
  `LeaseLapses` and `DueComes`.
- **Pipeline.** One weak fairness per worker over its whole cycle and handler: a
  process that can go on goes on. Crashes are bounded, so nothing stronger is
  needed.
- **EffectLedger.** Steps inside an execute are weakly fair. `Commit` and the
  tick are strongly fair, because a unit of work may end in another way each
  time it could commit, and a worker may be busy each time it could tick.
- **OutboxRelay.** A relay that can take a step takes one (in `MCLive` with the services
  of the old system beside it: `QueueFairness`, `EventsFairness` and `RelayFairness`).
- **LegacyQueue.** The steps of a worker are weakly fair: the loop of `worker.py`
  and the cron's tick come back whatever the last tick did. The enqueue that
  follows a transition is weakly fair while it is pending; the crash that loses it
  is a step of its own, which takes it away.
- **LegacyEvents.** A dispatcher that can take a step takes one (worker loop, cron).
- **Admission.** `RelayTick` is weakly fair, for the same reason as `OutboxRelay`.
- **Manus, clients, users, cancellation** owe nothing: no fairness is given to
  answers, to `RequestCancel`, to `CreateJob` or to a call of the API.

## 6. The proofs

TLAPS checks the theorems below for every value of the constants under the named
assumptions of the modules. The last column names the inductive invariant, or the
other result, it comes from.

| theorem | states | by |
|---|---|---|
| **`LeasingProofs`** | | |
| `TypeCorrect` | `Spec => []TypeOK` | |
| `FenceInvariant` | `Spec => []FenceInv` | |
| `FencingExcludes` | `Spec => []OneOwner` | `FenceInv` |
| `CheckpointsNeverRegress` | `Spec => ProgressKept` | `FenceInv` |
| `LeasesAreWhole` | `Spec => []LeaseShape` | |
| `AttemptsAreExact` | `Spec => []BudgetExact` | `BudgetInv`, `ReapInv` |
| `DoneStaysDone` | `Spec => DoneUnlessOvertaken` | `FenceInv`, `LeaseShape` |
| `ImplementsLifecycle` | `Spec => LifecycleSpec` | `FenceInv`, `LeaseShape` |
| **`PipelineProofs`** | | |
| `PipelineImplementsRuntime` | `PipelineSpec => Spec` | |
| `NothingRunsUngated` | `PipelineSpec => []PolicyGate` | `RunInv` |
| `RunsAreSound` | `PipelineSpec => []RunIsSound` | `RuntimeInv`, `RunInv` |
| `PipelineAttemptsAreExact`, `PipelineDoneStaysDone`, `PipelineImplementsLifecycle` | the last three of `Leasing` for the pipeline | the refinement |
| **`PlatformProofs`** | | |
| `DeliveryInvariant`, `TypeCorrect` | `Spec => []DeliveryInv`, `Spec => []TypeOK` | |
| `NothingIsLost` | `Spec => []NoEventLost` | `DeliveryInv` |
| `OnlyFailuresArePoison` | `Spec => []DeadLettersEarned` | `DeliveryInv` |
| `PoisonIsBounded` | `Spec => []PoisonStops` | `PoisonInv` |
| `ParkedForGood` | `Spec => ParkedStays` | |
| `KeysStayUsed` | `WiringSpec => []KeysAreUsed` | `BootInv`, `PoolInv` |
| **`ManusStageProofs`** | | |
| `StageInvariant` | `Spec => []StageInv` | |
| `EveryStageIsSound` | `Spec => []StageIsSound` | `StageInv` |
| `NoKeyIsOvercharged` | `Spec => []NeverOvercharged` | `CreditInv` |
| **`EffectLedgerProofs`** | | |
| `LedgerInvariant` | `Spec => []LedgerInv` | |
| `EveryEffectIsSound` | `Spec => []EffectsAreSound` | `LedgerInv` |
| `AloneInvariant` | `Spec => []AloneInv`, if `Alone` | |
| `AnswersAreNotAskedForAgain` | `Spec => []ReplaysAreRollbacks`, if `Alone` | `AloneInv` |
| `BudgetsAreKept` | `Spec => SpendingIsFinal`, if `Alone` | `AloneInv` |
| **`ServicesProofs`** | | |
| `UseCasesAlwaysHold` | `AdmissionSpec => []UseCasesHold` | `CampaignsFirst`, `DeskInv` |
| `IntakeStaysSound` | `IntakeSpec => []IntakeIsSound` | `IntakeInv` |
| `OutagesAreAlerted` | `SentinelSpec => OutagesReachAlerts` | `WatchInv` |
| `AgentsStayHeld` | `AgentSpec => []AgentsAreHeld` | `RunHeld`, `PatchesHeld` |
| `ProvidersStayShared` | `RouterSpec => []ProvidersAreShared` | `RouterInv` |
| `GuardsAlwaysHold` | `GuardsSpec => []GuardsHold` | `WithinAllowance`, `ListKept` |
| `TruthStaysEarned` | `TruthSpec => TruthIsEarned` | `TruthInv` |
| `AccountsStayEarned` | `AccountsSpec => []AccountsAreEarned` | `AccountsInv` |
| **`LegacyProofs`** | | |
| `QueueInvariant` | `QueueSpec => []QueueInv` | |
| `RowsStayHeld` | `QueueSpec => []RowsAreHeld` | `QueueInv`, `Counted` |
| `ReviewsAreComplete` | `QueueSpec => []ReviewIsComplete` | `QueueInv` |
| `JudgedAfterSweep` | `QueueSpec => []SweptBeforeJudged` | `QueueInv` |
| `EmailsArePaidOnce` | `QueueSpec => []EmailsPaidOnce` | `QueueInv` |
| `ResearchIsNotGivenUp` | `QueueSpec => GivesUpExhausted` | `QueueInv` |
| `ImplementsUnfenced` | `QueueSpec => LifeIsKept` | `QueueInv` |
| `EventsStayKept` | `EventsSpec => EventsAreKept` | `EventInv`, `SettledKept`, `AuditInv` |
| `LeadsStaySound` | `PipeSpec => []LeadsAreSound` | `LeadsInv` |

`LeaseShape`, `ParkedStays` and the inductive invariants are proved, and no run
repeats them. `SumTheorems` holds what the proofs need of the sums of
the community modules: a sum over a finite set is the cardinality of a set of
pairs, so that the library's facts on cardinalities, and no induction, give what
happens when one summand changes or a set grows.

### The arguments

**Fencing.** `OneOwner` is not inductive: nothing in it says that two jobs have
different tokens, or that a worker's token belongs to the job it works on.
`FenceInv` adds that tokens are issued once, that a token found in a row is held
by one worker, for that row and with its version, and that a worker that passes
the fence knows the row's checkpoint. All actions but two only loosen this: they
remove tokens or workers and add none (`Loosens`). Claiming and saving a
checkpoint have lemmas of their own. The race of the reaper is such a loosening
step.

**Attempts, finality, refinement.** These hold of the reaper as it is, two statements
with anything between them, because each says what the reaper's overwriting costs.
`BudgetInv` strengthens `BudgetExact` with the rows that do not exist yet. `ReapInv`
says that an open reap tells the rows whose attempts it saw spent from the others: a
row that is as it was seen is then failed with its attempts used up, or queued with
one left, and the others are `overtaken`. `DoneUnlessOvertaken` needs the fence and
`LeaseShape`: whoever passes the fence works on a row in an active state. In the
refinement `ReclaimRead` is a `Doubt` and `ReclaimWrite` a `Settle`, of several jobs
at once; any other action starts, advances or releases one job, or leaves the abstract
state alone. That a finished job stays finished whatever the reaper does is not so
(section 7).

**Pipeline.** Every step of the pipeline is a step of the runtime or leaves its
variables alone, so what holds of `Leasing` holds of it. Above that, `Evidence(j, c)`
says what the tables hold for a checkpoint `c`: every stage before the phase of
`c` is recorded for every company of `c`, and the current one up to its index. No
part of it mentions the lease, and the tables only grow, so it survives a zombie;
it holds of the checkpoint in every handler's memory (`WorkInv`) and of the one in
the row (`SavedInv`). `AtInv` adds where a handler stands, `RowInv` that whoever
passes the fence is at the saved stage and whoever reached the last stage knows the
final list. The late `Publish` of a zombie is covered by that last part: it shows a
campaign whose saved list is the one it qualified (`ShownInv`).

**Delivery.** `DeliveryInv` records what a relay's place implies for the event it
holds (`Remembered`) and what an inbox row stands for (`InboxEarned`). `PoisonInv`
bounds dead letters by a counting argument: the letters of an event plus the
relays still trying it never exceed the number of relays, because the first
letter leaves an inbox row that turns everyone else away.

**Manus stage.** That a city is paid for at most `MaxAttempts` times is a balance
(`Tally`): the purchases of a city plus the workers of lost attempts that may still pay
for it are at most the attempts that are over, plus one if the next attempt will find
the city submitted. `Park` gives an attempt back, and is why the balance is with
attempts that are over and not with attempts begun: what a parked attempt paid is in the
checkpoint it saved. A creation whose answer was lost is none of this: the engine does
not know of it, and what it paid is bounded by the faults alone. `CityBook` and `Fits`
say that a checkpoint accounts for every city. For the credits, no comparison between
checkpoints is inductive, since a zombie's may be ahead of the row's. What is true of
each checkpoint alone, saved or in the memory of a lost attempt, is that it is `Honest`:
what it booked on a key is at most what the tasks it no longer holds have used. A
purchase keeps it so because tasks are numbered per city, a poll because it meets each
task of its checkpoint once.

**Effect ledger.** `LedgerInv` ties a succeeded row to its stored result
(`Answers`), a reserved one to the call under way (`Reservations`), and counts
reviews: reviews of an effect plus the workers about to queue one are at most the
number of workers. The other two theorems assume `Alone`, at most one worker: that is what
the lease of a job gives, and a zombie breaks both (section 7). `AloneInv` says
that the worker's memory of what it spent is the ledger's sum, that it leaves room
for the call under way, and that each answer is in the ledger, on its way there,
or counted among the rolled back.

**Use cases and intake.** `DeskInv` says that exactly the decided side of a lead
was announced, and what a reader holds between its statements. `SitesApart`
compares rows before they are committed: the uncommitted companies of any two jobs
agree with each other and with those committed, which is what the lock waits of
`Resolve` and `Store` provide. `PagesIngested` says the same of a page and its claims
within one transaction, so that a rollback takes both.

**Boot and key pools.** `PoolInv`: until a process is up, every pool is at its first
key and no call was made; afterwards a pool has moved only past refused keys.
`BootInv` carries what was set by hand through hydration, and says that the list the
code ships holds no fake in real mode, whatever the file adds to it.

**Doctor.** That a check passes over no outage that is there is a fact about the
operators, check by check, against `Outages`, which is told without their queries.
`WatchInv` carries it through a report: `out` are outages that are there all along,
and each of them whose check was read is in the report; until another worker writes,
the alerts a worker found are there and still to be told. How the checks are cut into
stretches plays no part in it.

**Router.** Cooldowns and quotas are checked and counted apart, so a bound on what
is used is not inductive. `UnitsInFlight` is: the units used plus an answer for each
caller that was told it may use the provider and has not counted it are less than the
quota plus an answer for every caller. Resets only lower what is used, however late
they are written. `Holder` says that what a caller may use was tried or is
among the rows it has left, which is why a pause is justified.

**Guards.** A bucket that threads reach late goes below zero, so no bound on its
level is inductive. `WithinAllowance` speaks of every stretch of time at once: what
was let through in it and what the bucket holds at its end are together within
burst and refill.

**Truth layer.** `Noticed`: of two rival values that stand, the conflict is open, or a
writer is settling it, or some writer is still going to look, unless a human decided
for one, a value came back that was EXPIRED, STALE or INFERRED, or the writer that was
to look died (`uncompared`). Two writers
that insert at once do not see each other's rows when they look; the invariant
holds because a row is inserted before its writer looks. `Grounded` is two domains
or a decision, and only grows.

**Accounts.** `TenantInv`: a call past a step has run it. `PlanInv`: as long as there
is one subscription, never resumed, what Stripe sent and how far it was read is a
short story (`Story`). `Tokens`: a process uses up the row's token only while one of
its senders holds the next one, which is nowhere else. `Copied`: without an overlap
one sync works at a time, and what it looked for and did not find is not there;
this is about the rows the code has a query for (`Looks`) and no others.

**Agents.** `RunHeld`: each run under way is the one the job's context names, one whose
slice is about to name it, or one that a dead slice or a later naming left behind; and
a slice about to name its own saw none that could be used. Unapproved
content must be kept out of everything that can reach the disk: the tree, the backups
in the rows, those in the calls, and what the calls are about to write.

**Legacy queue.** There is no token, so everything is conditional on `past[j].lapsed`,
whether a lease of the job ever ran out under a worker. While it did not, one
worker runs the job (`Alone`), and each step of its run finds what the step before
left (`Running`). The API moves the row meanwhile: what a worker relies on holds, or
the row is in one of the `Halted` states, from which the run cannot reach review
and which nothing from outside leaves while the lease is live. `Marked` says that each
address paid for is marked as tried, or the mark is in the write on its way. A
research job is given up only by `Fail` with its attempts used up, which is about
single steps and comes from the row a worker read while its lease lived. In the
refinement of `UnfencedLifecycle` nearly every step is a `Turn` or a `Leave`, and one
lemma for each of the abstract actions (`TurnShown`, `LeaveShown`, `TakeShown` and so
on) says what a step must leave alone to be one; the guards of giving up and of
taking are where `QueueInv` is needed. `Counted`, the workers at a job against its
attempts, is then shown on the abstract steps alone.

**Legacy events.** Nothing locks an event, so the invariant is about events outside
`overlap`: such an event has one holder, is pending while it is held, and what was
sent for it is consumed or about to be recorded. A consumer that a dispatcher has
behind it was sent the event, or is in `sealed`.

**Legacy pipeline.** `OneDomain`: candidates with one root never have two domains. A
union that finds the domains of both groups equal, or one side without any, keeps it,
however the groups came about; this is why the code compares the groups' domains, and
why the look order does not matter to it. `LeadInv` says of each lead which group it
is, and that a doubt about one of the group asks for a review; the later stages only
drop leads or add to them (`LeadsKept`). `AskedInv`: what was asked is the plan so
far, and the plan comes back to a city only after it asked for all.

### Assumptions

Nearly all say that a constant has its type, that a set that is counted is finite, that
a limit is positive, and that a model value such as "none" is not a name
(`NoJobAssumption`, `JobsAssumption`, `PhasesAssumption`, `MaxAttemptsAssumption`,
`BatchAssumption`, `BoundsAssumption`, `PipelineAssumption`, `RelayAssumption`,
`QueueAssumption`, `EventsAssumption`, `RouterAssumption`, `AgentAssumption`,
`AccountsAssumption`, `WiringAssumption`, `PipeAssumption`). Those that say more:

- `LedgerAssumption`: an adapter books its price or less; the ones of
  `infrastructure/providers/real.py` book the price or nothing.
- `ManusAssumption`: the cities of a plan are listed once, and there is a key.
- `GuardAssumption`: rate, cost, burst and the ticks of a second are whole numbers, the
  rate positive: the code's floats in units small enough.
- `SentinelAssumption`: the stretches are all the checks.
- `Alone` is a hypothesis of single theorems, never of a module.

### What stays with TLC

- Liveness, which the proof system does not check: `OrphanRecovered`, `EveryJobEnds`,
  `EndsUnlessStarved`, `UncertainIsReviewed`, `EveryEventSettles`, `OrphansReclaimed`,
  `WorkIsServed`, `EventsSettle`.

## 7. Where the code departs from what it says

Three runs end in a counterexample:

1. **A finished job runs again** (`MCLeasingReaper`, `runtime/leasing.py:248`). The
   reaper's `UPDATE` repeats none of the conditions of its subselect, so a job that
   completes in between is queued, or failed, after it succeeded. "Fencing makes this
   safe" (`leasing.py:233`) holds of what the old worker writes later, not of what it
   wrote before.
2. **Disagreements are not kept** (`MCIntakeConflicts`,
   `infrastructure/repos/core.py:269`). "Conflict never silently replaces the old
   claim", but the conflict row refers to the new claim, which is inserted only
   afterwards: the column is NOT NULL, the statement fails and the whole query of
   the job is rolled back, again at each attempt.
3. **Events are not posted** (`MCWebhookPost`,
   `infrastructure/events/webhook_consumer.py:103`). The consumer calls its
   endpoint lookup with an argument too many. Every event of a delivered type
   raises, and the worker's relay fetches it again at every tick.

The remarks below come with a definition in its module (comment "Not so") that TLC
refutes on an instance which has the case; no run is spent on them.

**Job runtime and pipeline.**

- `IngestedIsListed` (`pipeline.py:248`): a query's companies and `visited_sources`
  rows are committed before the checkpoint that lists them; after a takeover the
  query runs again and skips them as visited.
- `LeadsUnique` (`governance_projects.py:85`): the unique key of a lead contains
  `contact_id`; without a contact it is NULL and conflicts with nothing.
- `StageEnds` (`manus_stage.py:74`): when the keys run dry after the first city was
  answered, the others stay unsubmitted, and parking gives each attempt back.
- `UncertainNotRetried` (`gateway.py:50`): `reserve` returns an uncertain row as if
  it had just been reserved, and the provider is called.

**Use cases, providers, doctor.**

- `WithinPlan` (`campaigns.py:30`): the plan's limit is read before the enqueue, in
  another transaction. A campaign whose process stops before the enqueue
  (`campaigns.py:44`) never gets its job.
- `ShownIsVerified` (`pipeline.py:517`): the mask and the status of a lead may come
  from two addresses.
- `SecondOpinion` (`bootstrap.py:89`): `SmtpVerifyAdapter` always answers `ok`
  (`real.py:117`), so no verifier behind it in the waterfall is asked.
- `RealFailsLoudly` (`bootstrap.py:6`): real mode without keys comes up silently.
- `NeverDuplicates`: an entry of the registry file for Gemini duplicates the builtin.
- `OneAlertPerCheck`: overlapping writes of alerts leave duplicates.
- `StarvedIsReported` (`application/doctor/checks.py:100`): the age reported as the
  oldest is `max(created_at)`, that of the newest queued job.

**Legacy.**

- `CancelledIsFinal` (`jobs.py:15`): an enqueue that follows a creation overwrites a
  cancellation that came first.
- `QueuedIsServed` (`queue.py:174`): an answered or reclaimed job whose attempts are
  used up stays queued.
- `RefusedNeverRuns` (`app.py:1659`): a job's row is there, and leasable, before the
  plan is looked at.
- `OutagePauses` (`router.py:9`): during qualification, a lack of providers is
  recorded as an error of the company.
- `CooldownRespected` (`registry.py:121`): COOLDOWN counts as usable.
- `RivalsConflict`: two VERIFIED rivals remain when a conflict is resolved for a third
  value. `ErasedIsRedacted`: a requalification under way writes the raw record of an
  erased lead again. `OneActiveVersion`: two activations leave two active versions.
- `EntitlementsFollowPaid`, `NoTokenBurnt`, `RevokedHoldsNothing`: Stripe's events are
  applied in the order they arrive; the refresh lock is per process; a refresh under
  way stores its tokens after a revocation.
- `NoStaleApply`, `RevertReturns`, `MainUntouched`, `ReapedAreDead`: patches share one
  checkout, git may refuse to switch, a run is reaped by its age alone.
- `SourcesAreJudged`: data bought from Apollo is judged as if the search had found it.
- `AddedIsListed`: a removal between an add's select and its update.

Met while modelling, told by the code or the model without a definition of its own:

- A job that the reaper queued over its last attempt stays in the queue for good: no
  claim takes it, and no reaper looks at it (`runtime/leasing.py:248`).
- A cancellation request is accepted for a job in PARTIAL_SUCCESS, where nothing
  will ever look at it (`runtime/leasing.py:129`).
- `visited_sources` is unique per organisation: a second campaign skips what the
  first one found (`pipeline.py:278`). Cancellation is looked at in some phases only
  (`pipeline.py:135`), and a budget of 0 is handed on as none (`pipeline.py:236`).
- `Publish` is not fenced: a zombie may set the campaign's state (`pipeline.py:112`).
  `PublishedIsComplete` shows that its leads are complete when it does.
- A zombie's failure may overwrite the status of an effect that succeeded in
  another worker (`gateway.py:71`); `SucceededStays` is claimed for one worker. Two
  ticks that overlap queue two reviews of an effect (`runtime/worker.py:131`).
- A handler may handle an event twice: relays overlap, or crash before the inbox
  row (`relay.py:102`). `_on_failure` may delete the `ok` row of the other relay
  (`relay.py:118`), and attempts are counted before the dispatch (`relay.py:59`).
- The Hunter adapters are priced at one cent a call and book none
  (`infrastructure/providers/real.py:240`, `281`): the budget never stops them.
- The checkpoints of the Manus stage are written before what they lead to: a crash after
  `submit`'s loses `companies_seen` (`manus_stage.py:71`), one after `poll`'s the
  companies of finished tasks (`manus_stage.py:81`). A creation whose answer is lost is
  paid for and tried again with the next key (`manus_engine.py:136`). Each job has a key
  ledger of its own over the same keys (`manus.py:49`).
- A rate-limited key is not used again until the process restarts. A refusal of the
  last key ends the waterfall (`real.py:3`). An unknown builtin in the registry file
  is found only after the entries before it were registered (`registry.py`, "never
  half-applies"), and a registered entry makes demo mode go online.
- The doctor's own alert about open alerts keeps itself open; the worker runs the
  doctor without an organization, so three checks warn for ever; `effects.uncertain`
  needs more than 20; a job just reclaimed counts as starved; a database error while
  alerts are written ends the worker.
- Legacy jobs: RESUMING cannot be cancelled; DEGRADED is never reclaimed; the gap
  between reclaim's two statements leaves an exhausted job queued; nothing calls
  `manager.complete`; `queue.fail` resurrects a FAILED pipeline job and overwrites the
  `resume_at` of a capacity pause; `counters_json` loses updates; a question asked
  with `done` is refused and the job queued again.
- The research agent's `verify_fact` pays for an address without looking at those that
  were tried (`research/tools.py:189`); the request cache answers the sweep's second
  question, as long as its row is fresh.
- A research run whose slice dies between the insert of its run and the update of the
  context stays RUNNING beside the next one (`research/orchestrator.py:489`).
- A writer that inserts a fact and dies before it looks leaves it beside its rivals
  without a conflict, until one of the values is observed again (`truth.py:178`).
- Legacy events: a webhook whose secret cannot be decrypted is passed over, and the
  event is dispatched without it (`events.py:115`); with two dispatchers `dispatched`
  may follow `dead`; `emit` is not in the transaction of the change it tells of. A
  provider that is EXHAUSTED with period "none" recovers only by hand (`app.py:1572`).
- Erasing a lead leaves its research facts, from which a later run writes it again.
  One approval authorises any number of live chat runs (`chat.py:272`). The vault's
  unique index is made only by `scripts/backfill_vault_fingerprints.py`, and
  `icp_profiles` has no unique constraint. Scores pass neither phone nor intent
  counts. A re-qualification announces a decided lead again.
- Accounts: a tenant that FAILED is never provisioned again through the API
  (`provisioning.py:4` says resumable); a failed step may overwrite ACTIVE; a
  dedicated tenant without a handler counts as provisioned; the resume of a paused
  subscription is ignored; a sync appends usage, observation and verification rows at
  each call, and overlapping syncs repeat claims (`sync.py:344`); a contact with a phone
  alone, and a company without a domain whose name normalises to nothing, are inserted
  again at each sync (`sync.py:243`, `277`); `start_connect` on a
  live connection stops its mail until the callback.
- First pipeline: phones without digits share a key; groups depend on the order of
  candidates; REJECTED leads are stored. v6's query plan is cut at its limit, so later
  cities are dropped. The policy's `review_operations` come before `blocked_countries`.
- The policy gate runs where `/policy/evaluate` calls it, not "before every outbound
  send" (`policy_api.py:3`); `suppress_bounced` is never called; spellings of a phone
  number are not normalised; a thread that locks late leaves a negative bucket, so
  `Retry-After` is longer.

## 8. What is not modelled

Of the modelled components:

- `resume_job`, `PAUSED` and `WAITING_FOR_USER` in v6: nothing puts a job there.
- Queue names, priorities and the order of claims: any claimable job may be
  claimed. `job_events`.
- Timers are "running" or "run out"; a heartbeat makes a lease run again.
- What companies, contacts, claims and scores contain. A stage leaves one row per
  company in `Pipeline`; what the rows say is in `Intake`.
- The mapping of responses; the `LIMIT` of the reconciliation query. A call and its
  answer are one step in `EffectLedger`, so an answer after its timeout, which
  `base.py:73` classifies as transient, is a failed call there.
- In `ManusStage`: prompts, parsing and verification, and a pool of keys that
  changes between passes; more than one job.
- The tool `verify_fact` of the research agent, which pays without asking what was
  tried: `EmailsPaidOnce` is about the sweep and the steps.
- `StoreLeads` of `LegacyPipeline` is one step; the scores of its leads are not
  modelled, only where a lead goes.
- Which spellings of an address or a domain normalise to one: `Spellings` of `Guards`
  says so, and `GuardsHold` is about what is listed and evaluated after that.
- What the transactions of a maintenance round before the doctor leave half done in
  `Sentinel`: `Maintain` is one step, its parts are in `Leasing`, `OutboxRelay` and
  `EffectLedger`.
- Consumers other than one idempotent consumer per event and the webhook consumer;
  retention of tables.
- The legacy queue in inline mode, where a thread of the API process runs the job.
- In `Admission`, the post itself, its signature and its retries: no event gets there.

Other components: observability, notifications and metrics keep counters and
listings that no rule relates to anything; `lead_engine/db_pg.py` and the storage
adapters run the same statements in another dialect; authentication and the rest of
the routes are I/O; scripts and benchmarks run alone; the OpenManus wrapper is a
service behind HTTP, of which the engine sees what `ManusStage` models.

## 9. Plan

Done: `JobLifecycle`, `Leasing` and their theorems; `Pipeline` on `Leasing`;
`EffectLedger`; `OutboxRelay` and its theorems; `ManusStage`; `UnfencedLifecycle`,
`LegacyQueue`; `LegacyEvents`; `LegacyRouter`; `TruthLayer`; `AgentWork`; `Accounts`;
`LegacyPipeline`; `Guards`; `Admission`; `Intake`; `Wiring`; `Sentinel`.

Proved for every value of the constants: all safety and action properties of the
runs, and the refinements of `Leasing` by `Pipeline`, of `JobLifecycle` by both, and
of `UnfencedLifecycle` by `LegacyQueue`.
What the proof system cannot say is in section 6.

Next, models: the inline mode of the legacy queue; the delivery of webhooks once
their consumer reaches an endpoint; several jobs over one Manus key ledger.
