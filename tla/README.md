# IntelliBird: specifications, model checking and proofs

IntelliBird is a threat-intelligence platform: feeds are ingested into one table
of events, and around it stand projects with their members, alerts by webhook,
external attack-surface scans, indicators and their enrichment, AI summaries
and TIBER reports. The backend (`src/backend/app`) is a FastAPI process, a
scheduler and several Dramatiq workers, which share Postgres and Redis.

This directory specifies the parts whose state is touched by several of those
processes at once, checks them with TLC, and proves with TLAPS what matters most
about them for every value of the parameters. Paths below are relative to
`src/backend/app`, unless they begin with `src/`.

    cd tla
    tlc -workers 2 -config DispatchSequential.cfg MCWebhookDispatch    # a run
    tlapm WebhookDispatchProofs.tla                                    # the proofs

`PROJECT.json` lists every run, the code lines of each definition ("map"), a
mutation of the code for every property, the hazards, and the theorems.
Definitions marked `(mutant)` in a module are those mutations; they belong to no
specification.

## 1. Inventory

### How the parts interact

| process | started by | runs |
|---|---|---|
| API | FastAPI | the routers; a request is a Postgres transaction or several, Redis calls and `actor.send` |
| scheduler | APScheduler, one process | interval and cron jobs, which enqueue messages or write rows themselves; a listener thread reloads the source jobs |
| worker | `--queues ingest maintenance webhooks brand-monitor`, 4 threads | feeds, the webhook tick, brand scans |
| easm-worker | `--queues easm`, 2 threads | attack-surface scans, each in a Docker container |
| ai worker | `--queues ai`, 2 threads | summaries, narratives, suggestions, digest |
| report worker | `--queues reports`, 1 thread | export files |

(`src/ops/docker-compose.yml`. No worker there takes the queue `scoring`.) A
message whose worker dies before it is acknowledged is delivered again. A message
whose actor raises is retried up to `max_retries` times, and then dropped. Nothing
spans Postgres and Redis, or Postgres and Docker: wherever a component keeps related
state in two of them, another actor or a crash can come in between. That, and rows
that a handler reads in one statement and writes in a later one, is where most of
the hazards are.

### Components

**Webhook dispatcher** (`services/webhook_dispatcher.py`,
`services/scoring/burst.py`, `routers/admin/webhooks.py`).
State: the row of a webhook (`last_dispatch_at` as the cursor, `enabled`,
`consecutive_failures`), a Redis list `wh-batch` and a key `wh-batch-ts`, each
with a TTL of its own, and the burst window of a project. Operations: the tick
that the scheduler enqueues each minute (match, burst check, push, open or extend
the window, drain, POST, clear, commit), auto-disable, and the admin's PATCH and
cursor reset. Hard: a POST with its pauses lasts minutes, so ticks overlap; Redis is
changed before Postgres is committed; counters are computed from a row loaded
earlier. Correct if: the cursor never passes what was not delivered; no due event
waits forever; failures are counted right; the burst cap holds but for a known slack.

**EASM scans** (`routers/easm.py`, `workers/easm.py`, `services/bbot_runner.py`,
`scheduler/jobs.py`). State: a row with its status and container id, a message, the
Redis counter of concurrent scans, a container. Operations: launch, cancel, the
actor with its handlers, the hourly reaper, the nightly cleanup, and findings with
their lifecycle. Hard: four stores without a transaction; two time limits; every
exit of the actor must stop the container and return the slot; crashes. Correct if: the
host never runs more scans than its limit, slots come back, no container
is left behind, a project has one active scan, an accepted scan ends.

**AI jobs and their streams** (`workers/ai.py`, `routers/ai.py`,
`routers/cases.py`, `routers/tiber.py`). State: for a job a list of chunks, a done
flag and a cancelled flag in Redis, and a row in the end; for a case the column
`summary_md`, which the page polls. Operations: enqueue, stream, cancel by leaving,
save, fail, retry; the generator of server-sent events. Hard: producer and
generator share three keys without atomicity; retries append to the same list.
Correct if: the stream is in order and without repetition, done means saved, a
cancel takes effect, whoever waits is told in the end.

**LLM token budget** (`services/llm/token_budget.py`). State: a Redis counter for each
project and day. Operations: reserve (a Lua script), true up; the calls of the rerank and of the digest never touch the counter. Hard: two reservations for one
job, retries, midnight between the two operations. Correct if: reservations stay
within the cap and a job never gets back more than it paid beyond its answers.

**Sessions and lockout** (`routers/auth.py`, `security/jwt.py`,
`security/lockout.py`, `middleware/auth.py`, `routers/admin/users.py`). State: pairs of
access and refresh token, the revoked ids in Redis, `users.token_version` and its cache of
30 seconds in each API process; per username a failure counter and a lock with TTLs.
Operations: login, refresh with rotation and reuse detection, logout, change of password, the
administrator's disable, enable, reset, delete and unlock. Hard: rotation reads, revokes and issues in
separate steps; the version is read in one statement and written plus one in another; INCR and EXPIRE
are two calls. Correct if: a session that was ended stays ended, a refresh token is exchanged
once but for requests already under way, the counter neither lives forever nor locks early.

**Projects and memberships** (`routers/projects.py`,
`security/project_membership.py`). State: members with roles and the claims minted from them; the
project's row with the active-scan gate, scope rows, bound sources. Operations: add, change and remove
members; rename, archive, restore; open and revoke the gate; add, change and delete scope rows; replace the
sources. Hard: "not the last Lead" is a count and then a write; two flags of one row are cleared by two
requests; replacing is a delete and an insert. Correct if: a project keeps a Lead, every scope row
has a target, the sources are those of the last list.

**Event ingest** (`workers/rss.py`, `nvd.py`, `taxii.py`, `telegram.py`, `paste.py`,
`tor_html.py`, `html_scrape.py`, `social_worker.py`, `ingest/normalise.py`). State: rows of events,
unique on project, source and STIX id; indicators they mention; cursor and health of each source. Operations: fetch,
normalise, insert with ON CONFLICT DO NOTHING, bump the source, upsert indicators, move the cursor,
commit. Hard: a poll is one long transaction whose statements lock rows in the order of the
feed; exceptions of single rows are swallowed; polls of one source overlap. Correct if: the cursor
does not pass an item that is not stored.

**Scheduler and live reload** (`scheduler/jobs.py`, `services/source_events.py`,
`routers/admin/sources.py`). State: APScheduler's job table; a Redis channel.
Operations: load the source jobs, reload on a message, remove the jobs of deleted
sources. Hard: commits and their messages come in different orders; a message
published while nobody listens is lost, and the listener thread ends at its first Redis
error. Correct if: once it has heard everything, every enabled source is polled at its
interval and no deleted one is.

**IOC store and bulk import** (`routers/iocs.py`, `routers/admin/iocs.py`, `services/iocs.py`, `workers/iocs.py`,
`scheduler/ioc_jobs.py`, `services/ioc_import/*`). State: for a value one global row and one for
each project, with status and confidence; for an import its payload and status in Redis and a message. Operations: sighting by an event, backfill, import,
expiry; whitelist, clone, unwhitelist, patch, delete. Hard: machines write the rows that analysts
decide on, and handlers load a row in one step and commit in another; an import is many transactions, each lost as a whole
when one statement fails; the backfill pages by OFFSET over a table others delete from. Correct if: what an analyst
decided is undone only by an analyst; what a job says it has read it has.

**Enrichment: cache, quota, circuit breaker** (`services/enrichment/*`, `workers/iocs.py`,
`routers/enrichment.py`). State: per provider a minute and a day counter, a failure counter, an
open flag and a result cache; a forced-refresh flag; a row per indicator. Operations: check the flag, the
breaker, the cache and the quotas, call, record, store. Hard: each is a round trip of its own; the minute's
counter is given back when the day refuses; keys expire; a message is run again after a crash. Correct
if: calls stay within the quota of the minute they were charged to, an answer is not stale after a forced refresh.

**TIBER reports** (`routers/tiber.py`, `workers/reports.py`, `services/tiber/*`). State: the
report's status (draft, published, archived), actor profiles, scenarios, exports with versions. Operations:
create, clone, patch, publish through gates, archive, restore, refresh a section, export. Hard:
`max(version) + 1` without a lock; edits of profiles and scenarios beside a publish or a clone.
Correct if: versions count up, a clone is closed in itself, a published report does not change.

**Event scoring and rescore** (`services/scoring/*`, `workers/scoring.py`, `routers/projects.py`). State: the rules with
a version, overrides by version, an in-progress flag. Operations: save rules, rescore in batches. Hard: rules and
rescores count on one counter, read in one statement and written in another; one rescore's `finally` deletes the
flag of another. Correct if: events show the scores of the rules in force, and the status tells the truth in the end.

**AI suggestions and the MISP exchange** (`services/llm/suggestion_validator.py`, `routers/ai.py`,
`scheduler/ai_jobs.py`, `routers/misp.py`, `workers/misp_push.py`, `workers/misp_pull.py`). State: suggestions that are
pending, confirmed, discarded or expired, with the user who decided; the project's MISP configuration; the scheduler's
pull jobs. Operations: stage, decide one or many, expire at night; configure, push, pull. Hard: a decision loads rows
and writes them later, and a column that has not changed is not written. Correct if: a row's status is what the user it names asked for.

**Brand monitoring** (`services/brand_monitor.py`, `routers/brand.py`, `workers/certstream_worker.py`,
`scheduler/jobs.py`). State: terms with mode and archived flag, a stoplist, matches with status, end of the
dismissal and a fired flag. Operations: the CRUD of the routes, the scan of a project as one transaction, the worker
that follows certificates, three sweeps. Hard: scans, certificates and sweeps write rows that
analysts decide on. Correct if: a decision stands until its end; a match of high severity is stored and fires.

**EASM findings** (`services/bbot_runner.py`, `services/easm_promoter.py`, `routers/easm.py`, `routers/assets.py`). State:
a row for each target with the scan that has it, the events made of it, notes. Operations: persist a line of output,
promote, decide, dismiss until, expire, clean old scans up. Hard: each scan takes the row from the one before, while staleness
and the diff of two scans are computed from it. Correct if: what a scan has reported is not shown as gone.

**Source health and monitoring** (`scheduler/monitoring_jobs.py`, `services/maintenance.py`,
`services/scoring/burst.py`). State: alerts, maintenance windows, a sorted set in Redis for each source. Operations: three jobs over all
sources (silent, drifting, failing), each one transaction. Hard: the jobs are threads that overlap, and Redis is
written before Postgres commits. Correct if: no source raises more alerts an hour than the cap.

**Sandbox submissions** (`workers/sandbox.py`, `routers/sandbox.py`). State: a report's row, delayed messages. Operations: submit, poll at
most thirty times, write the result. Hard: the row is committed before the next message is sent. Correct if: a pending report has a poll to come.

**Rerank and digest** (`workers/ai.py`, `scheduler/ai_jobs.py`). State: `events.ai_score`, an in-progress key, rows of summaries. Operations: a
nightly rerank of the recent events as one transaction, whose models answer one by one; a digest. Hard: retries, redelivery, two reranks of one
project, one `finally` that deletes the key of another. Correct if: no score leaves its clamp, the key says the truth, a digest is written once for a message.

**Event feed** (`routers/events.py`, `services/events_query.py`, `services/project_scope.py`). State: events, scope rows, bound sources. Operation: a page, with three
kinds of cursor, read after the scope it is filtered by. Hard: feeds, the archiver and the analyst change all of it between two pages. Correct if: who follows
the cursors to the end is shown each event once that was there, visible and in scope throughout.

**Cases and campaigns** (`routers/cases.py`, `routers/campaigns.py`, `services/audit.py`). State: dossiers, their links to events and indicators, the audit log. Operations:
create, attach, detach, patch, delete. Hard: a request checks and writes row by row beside others. Correct if: every link and its log agree, and a closed case has a closing time.

**Graph and AGE mirror** (`routers/graph.py`, `services/graph_traversal.py`, `services/age_sync.py`). Operation: the graph around an event or of a project, layer by layer, each a
statement of its own, up to a cap of nodes and edges. Hard: tags and events come and go between two layers. Correct if: the graph has no edge without its ends, nothing twice,
and says so when it is cut.

**Detection engines** (`services/sigma_engine.py`, `services/cib_detector.py`, `services/yara_engine.py`). Operations: the evaluation of a Sigma rule; the sweep for coordinated posts under a lock in Redis
with a TTL. Hard: the grouping takes posts from later groups; a sweep may outlive its lock. Correct if: a rule matches as its condition reads; every group large enough is reported.

**Archiver** (`services/archiver.py`). A nightly copy of old events, and their deletion.

**TAXII server, actors, assets,
presets, web frontend, browser extension.** Queries, CRUD or pure
matching, with no state that several steps share.

## 2. Modules

| module | what it is |
|---|---|
| `WebhookDispatch` | the dispatcher, its admin handlers, clock and faults |
| `DeliveryPromise` | what the dispatcher promises, in three variables |
| `EasmScan` | a scan over its row, message, slot and container |
| `AiJobs` | streamed and polled AI jobs and the generator |
| `TokenBudget` | the counters of a project's budget and every caller |
| `Sessions` | one account: its row, its token pairs, the caches, the handlers |
| `Lockout` | one username: its counter and lock in Redis, and the logins |
| `Memberships` | one project's members, their claims, and the changes of roles |
| `Projects` | one project's row, gate, scope rows and sources |
| `Rescore` | the rules, the overrides and the rescores of one project |
| `Reports` | one TIBER report, its parts, its clone and its exports |
| `Ingest` | polls of sources as transactions with row locks |
| `SourceJobs` | admin changes of sources, the channel, the listener and its jobs |
| `Indicators` | the rows of one indicator's value |
| `Enrichment` | the jobs of one indicator on one provider |
| `Brand` | the terms, matches and scans of one project |
| `Surface` | what the scans of one project have found, and its triage |
| `Review` | the suggestions of one project, their reviewers, pushes and pulls |
| `Monitoring` | the jobs that watch the sources, their gates and alerts |
| `Sandbox` | the detonation of one sample |
| `BulkImport` | uploaded files of indicators, their messages and batches |
| `Backfill` | the pages of stored events read for indicators |
| `IocJobs` | both of them, with the property they share |
| `EventFeed` | the walk through the pages of the feed |
| `Casework` | cases and campaigns, their links and the audit log |
| `AttackGraph` | the graph of an event or a project, layer by layer |
| `Sigma` | the evaluation of a condition, against what it says |
| `Clusters` | the sweep for coordinated posts |
| `Rerank` | scores by a model and digests |
| `MC...` | constants, symmetry and the sums of small modules for TLC |
| `WebhookDispatchProofs`, `EasmScanProofs`, `AiJobsProofs` | theorems about the module of that name |
| `AccountsProofs` | theorems about `Sessions`, `Lockout` and `Memberships` |
| `WorkspaceProofs` | theorems about `Projects`, `Rescore`, `Reports`, `Review`, `Brand` and `Surface`, and about their sum in `MCWorkspace` |
| `CasesProofs` | theorems about `Indicators`, `Casework`, `BulkImport` and `Backfill` |
| `IntelProofs` | theorems about `SourceJobs`, `Enrichment`, `Sandbox`, `Ingest`, `Monitoring`, `TokenBudget` and their sum in `MCIntel` |
| `KnowledgeProofs` | theorems about `EventFeed`, `Rerank`, `AttackGraph`, `Sigma` and `Clusters`, and about their sum in `MCKnowledge` |

Modules share no variable, because the components share no state that the others'
properties depend on. Neighbours are left open inside a module: in `AiJobs` the
budget may allow or decline any job (`Decline`, `CaseShort`, `RefuseSummary`), which is more than
`TokenBudget` allows it; in `WebhookDispatch` any event may be ingested at any time,
with any `observed_at`, which is more than the feeds do; in `Indicators` any sighting may
come at any time, which is more than `Ingest` does; in `Sessions` a login needs a password, whatever
`Lockout` says.

`MCWorkspace`, `MCIntel` and `MCKnowledge` put several of these modules into one run each. A variable
(`focus`, `intel`, `know`) chosen in the initial state says which module moves; the others stay in one
initial state. The run explores the sum of their state spaces, not the product, and checks the properties of each:
nine questions, six and nine.

### WebhookDispatch

Variables are grouped as in the code: the Postgres columns (`cursor`, `failures`,
`enabled`, `tagged`), the Redis keys (`batch`, `rest`, `batchAge`, `tsAge`, `burst`),
and what a thread inside `run_dispatch_tick` holds. `batch` keeps the first
`MaxDigest` entries, which are the ones a digest ever reads; `rest` is the set of events
beyond them. `orm` is the row as the session loaded it: a commit or a rollback expires
it, so that `Held` reads the row again. A POST of up to three attempts is one step from
`"post"`, which may last any number of other steps.

| action | code |
|---|---|
| `Minute` | the interval job, and a minute's ageing of both TTLs |
| `StartTick`, `Match`, `EndTick` | `run_dispatch_tick`, `_fetch_matching_events` |
| `Bypass`, `Suppress`, `Admit`, `Record` | the loop over `is_burst_suppressed`, `_tag_burst_cluster`, `record_high_tier_dispatch` |
| `NothingSurvived`, `ReadLength`, `Push`, `OpenWindow`, `ExtendWindow`, `Drain` | the rest of `_process_webhook`, and the LRANGE with which `_drain_and_dispatch` begins |
| `PostOk`, `ClearBatch`, `Commit` | `_drain_and_dispatch` and `_on_success` |
| `PostFail` | three failed attempts and `_on_failure`; the receiver may have got the last one. The count has no end in the code; `MaxFailures` bounds it |
| `ProcessError`, `Crash` | an exception in one webhook, at the commit of its success or failure too; death of the process |
| `UpdateWebhook`, `ResetCursor` | the admin handlers |

SET and the two EXPIREs of a new window (`services/webhook_dispatcher.py:244`) are one step, `OpenWindow`, and the LRANGE is
another, `Drain`. A death among the first three, which leaves a key without its TTL, is not modelled.

The row locks of Postgres are `Locked` and the guard in `Suppress`.

`DeliveryPromise` has no tick, thread, batch or window: a destination receives only
ingested events in its scope, and the cursor moves only to an event it received, or back to
NULL. `KeepsPromise` is the refinement, with the variables of the same names.

### EasmScan

`status`, `recorded`, `newer` and `overdue` are the row (`newer` orders rows by
`started_at` for the cleanup); `slots` is the counter; `alive` says what each container
runs. `pc` follows `_run_bbot_scan_inner` and its two handlers and `finally`.
Container ids may be used again when nobody holds them. `loose` and
the derived `Drifted` (the counter minus the threads that will still decrement it) are for
the properties. Faults have actions of their own:
`DecrFails`, `PassBlind` and `SendFails` (Redis away), `LaunchTimesOut` and `StopFails` (a
docker command gives up after 15 s), `MarkFails` (Postgres away), `Crash`.

Closing the generator of `stream_bbot_logs` waits for `docker logs`, which ends with the
container (`GeneratorCloses`): an exception or a time limit in the streaming loop reaches its handler only then.

There are three specifications: `Spec` with everything, `SteadySpec` without the death of
easm-worker and without failures of Redis and Docker, and `CarefulSpec`, which also has
careful users and states fairness.

### AiJobs

`pc` follows `_async_summarise` and `_async_draft_scenario_narrative` ("streamed") and
`_async_summarise_case` ("polled"). A chunk is "text" or "error"; what it says is left
out. `shown` is what the stream has sent, whose length is the generator's position
`sent`. `Drain` and `CheckDone` are two steps, as in `_sse_generator`. `halted`,
`silent` and `late` are history. `silent` holds the jobs whose end nobody can see any more: the
write of the end failed, or its TTL has passed.

### TokenBudget

`spent[d]` is the counter of day `d`. `Reserve` is the Lua script, `RecordActual` the
INCRBY of the true-up, under the key of the day on which it runs. `Begin` reserves
`int(estimate * 1.2)`, written `(6 * Estimate) \div 5`, or the estimate for a case. `overrun`,
`paid` and `heard` are history.

### Sessions and Lockout

A pair is a slot of a pool: its claim `token_version`, whether its access and its refresh
token are live, revoked or gone. The id of a pair in Redis is the slot, and a slot is free again when both
tokens have expired and no handler holds it. A handler takes one step between two awaits: `RefreshCheck`
looks the token up, `RefreshRevoke` revokes it, `RefreshLoad` reads the row, `IssuePair` hands out the new pair;
`RefreshReuse` is the branch for a revoked token, which ends all sessions. `CommitVersion` writes `token_version` plus one
as it was loaded by `ChangePassword` or `AdminLoad`; `raced` remembers that another one had written it
in between. `Remember` and `ForgetVersion` are the cache of one API process; an entry leaves it at any moment, which covers its 30 s.

In `Lockout`, INCR, EXPIRE and SET of the lock are three steps (`Increment`, `ExpireCounter`, `LockName`), and
`LoginDies` may come between any two. `MinutesPass` moves the clock and ages both TTLs.

### Memberships and Projects

`claim` is the membership claim of a user's token, which handlers trust until it is minted again
(`Mint`). `ChangeMember` is PATCH or DELETE up to the count of `_assert_not_last_lead`, `CommitMember` its commit. In
`Projects`, `FlipGate` compares the typed name and `WriteGate` commits; `ClearScopeFlag` and `CommitScope` are the two
halves of an update that takes a flag from a scope row, the second under the table's CHECK; `DeleteSources` and
`InsertSources` those of the replacement, whose DELETE sees what was committed before it.

### Rescore and Reports

The rules are the number of the PUT that wrote them. A rescore (`thread`) is "flagged", has "read" the rules and the
version, is "writing" its batches, or "done" in its `finally`. From its UPDATE to the commit of the first batch it holds the row
of the rules (`HoldsRow`), and others wait. `overrides` are the rows of `event_score_overrides`, a page of events at a time; `Shown` is
the one with the highest version. `AddOverride` is INSERT ... ON CONFLICT DO NOTHING. `FailRescore` is an exception
(or the IntegrityError of two default rows), after which Dramatiq sends the message again, `Retries` times (2 in the code); then it is `givenUp`. `CrashScoring` redelivers, and counts no attempt.

A report is its state and whether its own fields are complete; a profile is "none", "partial" or "full". A handler that
checks the state (`PatchReport`, `PublishReport`, `ArchiveReport`, `RestoreReport`) takes check and commit as two steps. `CloneProfiles` and
`CloneScenarios` are the two reads of `clone_report`. An export is "loaded", then holds the version it has computed, then
commits (`LoadReport`, `ComputeVersion`, `CommitExport`), or is run again (`RetryExport`, `RepeatExport`). `ApplySection` computes one section of
data already there anew, and leaves a report as complete as it was.

### Ingest

A poll is a transaction: `StartPoll` is the fetch and the list of rows to insert, after which each statement
(`InsertEvent`, `BumpSource`, `UpsertIoc`) waits for the row it wants when another poll has written it, until `FinishPoll` commits or
`DeadlockAborts` ends a circle of waiting polls as Postgres does. After an abort inside `_persist_event` the exception is swallowed and the
rest of the poll fails, so that nothing of it is committed. Items of a feed are numbered by the second of their last change: `Shown` says which of
them the next poll is shown for each of the ten kinds of feed, `NextCursors` which cursors it may store, and the `...Refusals` what each
worker writes to the health when the fetch fails. `passed` is history: the items that a cursor went past although no poll was shown them (`Unseen`).

A TAXII source whose URL is an OTX discovery is polled with TAXII 1.1 (`workers/taxii.py:149`, `ingest/taxii1_otx.py`): its events are written to the legacy
project alone (`ProjectsOf`), whatever the source is bound to. What it carries is STIX 2 (kind "otx", cursor from the items) or STIX 1.x (kind "stix1", whose cursor is the
clock's time as the answer is parsed). NVD without a cursor is asked for its last 30 days (`Aged`).

### SourceJobs, Indicators and Enrichment

In `SourceJobs` a request commits (`CreateSource`, `UpdateSource`, `DeleteSource`) and publishes later (`PublishChange`, or `PublishFails`). The
listener removes the jobs a message names (`RemoveDeleted`) and then loads the enabled rows (`Reload`). `BuildScheduler` and `Subscribe` are two steps of the start;
what is published between them is missed.

In `Indicators` the rows of one value are seen again (`Sight`: events, backfill, imports), expire, and are decided on by analysts in
two steps (`LoadIoc` and one of `WhitelistIoc`, `UnwhitelistIoc`, `PatchIoc`, `CloneIoc`, `DeleteIoc`). `decided` is the last word of an analyst on each row.

`Enrichment` follows `enrich_ioc` await by await: `ReadFlag`, `LoadTarget`, `CheckBreaker`, `LookInCache`, `TakeMinute`, `TakeDay` or
`GiveBack`, `Answer`, `CacheResult`, `RecordSuccess` or `RecordFailure` and `OpenBreaker`, `SaveResult`, `DeleteFlag`. `job[j].minute` is the minute the job was
charged under, which may have passed when it gives back or calls.

### Brand, Surface and Review

A scan of `Brand` holds the row locks of what it upserts until its commit, so that `CommitScan` is one step; what it loaded
(`LoadTerms`: terms, stoplist) may be stale by then. What detectors report is any subset of `Hits`. `EventInserts` compares the
conflict target of the INSERT with the unique index: they differ, so that a scan with a new match of high severity can only `AbortScan`.
`decision` is what an analyst last left of a row.

`Surface` takes from `EasmScan` only which scan is launched, stopped and ended; it numbers scans, and the number of
launches is the clock. `PersistFinding` is one line of output with its upsert, promotion and commit. `SeenIsNotGone` is stated over
`Stale` and `DiffResolved`, which are the answers of `load_stale_cutoff` and `get_scan_diff`; `seenBy` is history.

In `Review` a request loads rows (`LoadSuggestions`), commits (`CommitDecision`) and answers (`AnswerReviewer`, which sends the push).
`CommitDecision` writes the status only where it differs from the one loaded, as SQLAlchemy does. `PushSelects` and
`SuggestionColumns` say whether the query of the push can be run; it can not.

### Monitoring and Sandbox

A job of `Monitoring` (`StartCheck`, `AskGates`, `InsertAlert`, `CommitCheck`) is a thread that looks at one source after another.
`recorded` holds the members of the sorted sets in Redis, which are there at once (a member is a uuid in the code: here, the job, its transaction and the time); `alerts` is what was committed. `FailCheck` takes the alerts back and leaves `recorded`.

`Sandbox` has the two actors as threads over `sandboxReport`, `submits` and `pollMessages`; commit and send are steps of their own
(`Submit`, `FirstPoll`; `Unfinished`, `NextPoll`), and a worker may die in each (`WorkerDies`). `PollRaises` is a swallowed or raised
exception in the result, after which nothing follows.

### BulkImport, Backfill, EventFeed and Casework

`BulkUpload` is the request with its dry run (`expected`). A thread of `BulkImport` looks a row up (`LookUp`), writes it (`WriteRow`, or `WriteFails`, after which the batch is `aborted` and
every later row of it fails) and commits each `Batch` rows (`CommitBatch`, which is a ROLLBACK without an exception when the batch is aborted). `ReportComplete` and `CleanPayload` are the two Redis calls at the end.
`Backfill` reads a page at the OFFSET it has reached (`BackfillPage`), while `StoreEvent` and `ArchiveEvent` move the rows under it.

`EventFeed` has a reader who asks for `Limit` events at a time: `ReadScope` is the query for scope rows and bound sources, `ReadPage` that for events, and between pages events are stored,
hidden and dropped, rows of the scope edited, sources bound. A query is one of `Queries`; its cursor carries time and id, or rank, time and id with the rank rounded (`Kept`). The pages are
kept as sets of rows, whose order within a page is that of their keys (`SortKey`); `FirstRows` are the rows that fewer than `Limit` come before.

In `Casework` a request loads its dossier (`LoadDossier`), takes one event or indicator after another (`LookForLink`, `InsertLink`) and commits (`CommitAttached`, `CommitDetached`, `CommitPatch`, `CommitDelete`); what it
has inserted locks the key, the case and the indicator for the others (`Waits`). A link has a foreign key to its dossier and, when it is one to an indicator, to that (`Keyed`). One to an
event has none: any UUID is attached without a look, and `archiver.py:105` deletes events under their links, so that of events the model keeps the ids alone.

### AttackGraph, Sigma, Clusters and Rerank

A request of `AttackGraph` draws layer by layer (`ReadTechniques`, `DrawTechnique`, `DrawRelationship`, `ReadCross`, `LoadCross`, `DrawOther`; `DrawSeed` for the graph of a project), each row in any order, until the caps are reached. `cold` are the archived events: the graph of a project leaves them out (`events_query.py:207`), the graph of an event does not. `MarkArchived` may
come between two layers. `steady` and `steadyTags` are
history: what was there throughout.

`Sigma` compares the code's splitting of a condition with the reading of its words, for every condition up to the bound. A sweep of `Clusters` is `StartSweep` (SET NX with a TTL), `SelectProjects`, `SweepProject` for each,
`CommitSweep` and `ReleaseLock`, which deletes the key whoever holds it. A project that raises (`ProjectRaises`) keeps the clusters it had inserted. `Rerank` is `TakeRerank`, `AskModels` and `UpdateScore` for each event, `CommitRerank` and
`FinishRerank`; `TakeDigest` and `CommitDigest`, with a death between the commit and the acknowledgement. The messages of an actor are told apart by a number,
and the digests written are counted for each.

## 3. Runs

Every property has a mutant in `PROJECT.json`: a change such as a
programmer might make, under which the same run finds the property violated.

### Runs that pass

| run | question | instance |
|---|---|---|
| `DispatchSequential` | do cursor, batch and failure count hold together under failures, crashes, expiry and admin edits? | 1 webhook, 3 events (two with equal times), 1 thread |
| `DispatchOverlap` | what is left of this when two ticks overlap? | 1 webhook, 2 events, 2 threads |
| `DispatchLiveness` | is every due event below tier A sent or passed? | 1 webhook, 3 events, 1 thread, moving lookback |
| `EasmFaults` | are slots and containers bounded with every fault? | 2 scans, 2 threads, limit 1, 3 containers, 2 lost decrements |
| `EasmCareful` | one active scan a project, a safe cleanup, no container left, an end for each scan? | 2 scans of one project, 2 threads, limit 2, history 1 |
| `AiJobs` | order, done means saved, cancel, and does the waiting end? | an event's job and a case's, 2 chunks, 1 crash |
| `Workspace` | do accounts, projects, scores and reports survive overlapping requests? | see below |
| `Intel` | do feeds, jobs, quotas, alerts and budgets survive overlap, faults and time? | see below |
| `Knowledge` | is what a team reads, imports, draws and detects what is stored? | see below |

What they show, property by property:

* `BurstOverrunBounded`: the check and the record of the burst window are two round trips, so the
  window can exceed `BURST_HIGH_CAP`, by at most one entry for each other thread.
* `KeepsPromise`: whatever is interleaved, failed or repeated, the cursor
  stands on an event the destination was sent (`CursorWasReceived`, which is proved).
* `BatchNotBehindCursor`, `FailuresCountTheStreak`,
  `ClearedWasSent` hold with one thread. They do not hold with two: overlapping
  ticks may move the cursor back, count a failure from a stale row, and delete what the
  other pushed. `ClearedWasSent` is about the entries a digest reads: those beyond `MAX_DIGEST_EVENTS` are deleted unsent (`services/webhook_dispatcher.py:560`). They are therefore stated for ticks that do not overlap, and
  `DispatchOverlap` does not check them.
* `EventuallySent`: a due event below tier A is sent or passed by the cursor, with a healthy receiver.
* `NoStrayContainer`: every way out of the actor, handlers and time
  limit included, stops its container. That it also decrements once is `SlotsReturned`, which is proved.
* `HostBounded` is `SlotsBounded` and `ContainersBounded`, `OnlyLossesLeak` says when a slot is lost: a crash leaks a slot and leaves a container. The
  leaked slot is what keeps the number of containers within the limit; only containers
  that a timed-out docker command left escape the count.
* `OneActivePerProject`, `CleanupSparesActive`, `ScanEnds`: hold for careful users without
  faults. Without the care two concurrent launches of one project break the first, and
  then the cleanup can take an active row.
* `StreamHolds` (`SentInOrder` and `DoneMeansSaved`), `CancelStopsSoon`: over retries, crashes and
  returning clients the stream repeats and skips nothing of what it has read; after done the
  row is there; after a cancel at most one more chunk is pushed.
* `WaitersAreTold` (`StreamEnds` and `PollResolves`): whoever waits is told, unless the end could not be written or has expired.
* `SessionsHold` is the next two. `EndedStaysEnded`: a new password, a disabled account or a reused refresh token ends all sessions for
  good, whatever logins and refreshes were under way; only two handlers that both wrote `token_version` from the same row
  can leave an ended pair with a version that is still accepted.
* `RotationBounded`: two refreshes of one token may both succeed, since the look and the revocation are two
  steps; but only requests that had looked before the first revocation, never one that came later.
* `CounterHarmless`: the failure counter has a TTL and stays below the threshold while the name is not locked, unless a request died
  between its Redis calls. It rests on `FAILS_TTL_SECONDS` being shorter than `LOCKOUT_TTL_SECONDS`.
* `LeadKept`: a project keeps a Lead unless two requests that each take the role from one overlap; then both may pass the count.
* `SettingsHold` is two claims. `RowsTarget`: no scope row loses both its flags, also to two requests: the CHECK of the table stops the second.
  `BoundAsAsked`: the bound sources are the last list, unless two replacements overlap, which leaves a union of lists.
* `ScoresSettle`, too. `ShownIsCurrent`: when rescores and saved rules have come to rest, events show the scores of the rules in force, unless a rescore was given up after its last attempt or a version was taken
  that others had passed, which happens when two read the counter before either writes it. `IdleWhenDone`: the status is then idle,
  after crashes and redeliveries too.
* `DocumentsHold` is `VersionsCount` and `CloneIsItsOwn`; `max(version) + 1` gives a version twice only to exports computed side by side.
* `DecisionsStand`: no scan, certificate or sweep changes what an analyst decided on a match, before the end the analyst set.
* `SeenIsNotGone`: what a scan has reported is neither stale nor resolved for it, unless the actors of two scans overlap, when the
  earlier one takes rows back.
* `DecidedAsAsked`: a suggestion has the status its decider asked for, unless two requests decide it side by side: then the row can name
  one and have the status of the other, as the unchanged column is left out. It never expires once decided.
* `BudgetHolds` is two claims. `ReservedWithinCap`: a day's counter is above the cap only by what answers exceeded
  their estimates. `AnswersPaidFor`: what a job paid covers its answers.
* `NothingSkipped`: the cursor of NVD, TAXII or OTX never passes an item that no poll has committed in every project the poll writes to (the bound ones; of OTX the legacy project alone), over overlapping, deadlocked
  and dead polls. The exceptions in its statement are the code's: items that cannot be parsed, and those of `passed`: what NVD has from before its first 30 days, the second after each of NVD's latest changes, since one second is added when
  the cursor is stored and another when it is read, and what a feed of STIX 1.x publishes between its answer and the look at the clock.
* `JobsFollowSources`: in whatever order commits and messages come, the jobs are those of the enabled
  sources, and of no deleted one, once every message was heard.
* `AnalystsDecide`: sightings, imports and expiry never undo what an analyst decided.
* `CallsWithinCaps`: the minute counter is given back after a refusal of the day, perhaps in a later minute or, after
  a crash, never; it is never given back too much.
* `AlertsBounded`: the check and the record are two round trips, so that the three jobs together exceed the cap by at most two.
* `ReportsFollowed`: a pending report has a message or a thread that will see to it, unless an exception or a death took it; a written result
  stays, unless a poll was delivered twice.
* `JobsReadAll` is `ImportsReported` and `BackfillReaches`: an import that says it is complete has counted each row once and stored all that no aborted batch took with it; a backfill that says so has
  been through all that was there when it began, unless events were deleted under its OFFSET.
* `WalkComplete`: who follows the cursors to the end has been shown, once each, all events that were there, visible and in scope throughout, with the exact cursors; the score order and rounded ranks are its exceptions.
* `DossiersTraced`: the dossier of a link is there, and its indicator if it has one (nothing is claimed of events: their links may dangle), and it was logged; what the log says was attached is there or its loss is logged; a closed case has a closing time, unless a patch crossed another change.
* `GraphFaithful`: the graph has no edge without its ends and nothing twice, and what was there throughout (and, in the graph of a project, not archived) is in it or it says that it was cut.
* `DetectorsHold` is `SigmaFaithful` (a condition evaluates to what its words say), `ClustersReported` (every fetched post with enough others like it is in a reported cluster of one project, and sweeps overlap only after one has outlived
  the lock) and `RerankHolds` (no score beyond its clamp, the key is set only while a rerank runs, a digest for each message).

### Bounds, and why they are enough

* Dispatcher. Three events are the least with two equal `observed_at` (the inclusive cutoff) and
  one older; `MaxDigest` 2 makes the third overflow. One entry of the burst cap
  and a high-tier event reach both sides of it. `MaxFailures` is the highest count that is written: 3 with one thread, which is past `AutoDisable`, 1 with two, 0 where the receiver is healthy. `AutoDisable` 2 separates
  "failed" from "disabled" where failures are counted; in the other runs 1 is enough. `Window` 1 with `MinTtl` 2 has a
  minute in which the window is open, one in which it is due and one in which the keys
  expire. `Window` 0, in the overlapping run, lets every tick drain, which is the most
  interleaved case. `MaxPending` 1: more queued ticks add no behaviour to a tick started
  earlier. `Horizon` is how often the lookback of 24 h moves.
* One webhook: two webhooks of a project share only the burst window and the session of a
  tick. Each burst check is one step on the window, whichever webhook it is for, and
  the theorem about it covers any number. Two webhooks do not fit with the rest in a run of
  minutes.
* Scans. Two scans of two projects compete for one slot; two scans of one project for the
  rule of one active. `EasmFaults` has three containers for a limit of one: one in the
  count, one left by a crash and one by a timed-out command. `MaxDrift` 2 is the
  number of leaked slots after which nobody can start.
* AI jobs. A list of two chunks can be read half; one crash and the one retry give up to three
  runs of a job. A job has the next chunk of the model only while its list is shorter than
  `MaxText`, so a retry appends its error beyond that. TLC needs no second streamed job, as the keys bear
  the job's id.
* `Workspace`. Every hazard there is between two requests, and each part has two: two handlers on an account
  with two pairs and two changes of its version; two logins with a threshold of 2, TTLs of 2 and 4 ticks (the window
  is shorter than the lock, as 600 s and 1800 s are) and failures up to 5, which is past the threshold and back; two members,
  both of which can be Leads; two editors over one scope row with its two flags and two feeds; two threads, two saved
  rules, one rescore by hand, crashes (three, all these together no more than four: `MaxInAll`) and two batches, so that a rescore can stop between batches and three attempts can fail; two exporters, two
  exports and a retry. In the run a report is cloned or exported, not both, as nothing of one is read by the other. One editor, one profile and one scenario are enough for a report, since the parts are independent rows and the limits
  (3, 3 and 6 in the code) are constants, here 1.
* `Intel`. Budget: cap 9 against estimates of 5 and 2 grants some reservations and refuses others; answers 0 and 6
  are below and above the estimates; one midnight separates reserving from recording. Ingest: two sources of one
  project with an item that mentions two indicators are the least that deadlocks; two threads overlap, and three items tell a second in which the cursor stands from
  one it went past and from a later one. The first source is
  TAXII, the second any kind but social and tor_html, which differ from rss and paste in their refusals alone; an item of NVD, TAXII or STIX 2 may be malformed. `Window` 1: NVD's 30 days and a page hold the newest item. Scheduler: two sources, two requests,
  two messages and one fault. Enrichment: two jobs, a minute's cap of 1 and a day's of 2 in three minutes of one day, a breaker at 2, one crash.
* `Workspace`, its other parts. Brand: a domain and a person, found by each of the sources that have branches of their own, one
  scan with one retry, two requests. Surface: two targets, one of a promoted type and one that is promoted by severity; three
  scans with a history of one, so that a finding is left by one scan, taken by another and cascades. Review: two rows, two requests.
* `Intel`, its other parts. Monitoring: two jobs every tick and one every hour of two ticks, on one source with a cap of 1, reach
  the cap, overlap at it and leave the hour again; sources share no set. Sandbox: two threads, two poll attempts, one death.
* `Knowledge`. Indicators: one project and the global row, two handlers. Imports: two uploads in two threads, files of two or three rows with batches of two, so that a bad row stands in a batch with a good one; one retry. Backfill: four events, pages of two, one deletion.
  Feed: four events at two times with two equal scores and a rank that rounding changes, pages of one, two scope rows, two sources, four queries, one change. Casework: a case and a campaign, an event and an indicator, three requests. Graph: three events
  in two projects, at most one of them archived before, two techniques, caps that some graphs reach. Sigma: all conditions of up to three terms. Clusters: a chain of three posts whose ends are not alike, another project, two sweepers, a lock of one tick. Rerank:
  three events, one without a score, two threads, a retry, a fault.
* Constants that name the bounds: `Horizon`, `MaxPending`, `MaxFailures`, `MaxDrift`, `LastDay`, `MaxCrashes`, `MaxVersion`, `MaxFails`, `MaxPuts`, `MaxAsks`, `MaxInAll`,
  `MaxExports`, `MaxRetries`, `MaxItems`, `MaxPolls`, `MaxWaiting`, `MaxFaults`, `LastMinute`, `MaxEnrichCrashes`,
  `MaxTicks`, `MaxEdits`, `MaxScans`, `MaxReports`, `MaxTriage`, `MaxDecisions`, `MaxClock`, `MaxWindows`, `MaxSightings`, `MaxReportRows`, `MaxDeaths`,
  `MaxDisturbed`, `MaxArchived`, `MaxFeedChanges`, `MaxGraphChanges`, `MaxTerms`, `MaxNots`, `MaxPosts`, `LastTime`, `MaxSweepFaults`, `MaxSent`, `MaxAiFaults`.

`CHECK_DEADLOCK FALSE` stands in the runs whose systems may stop: everything was asked for and done, or a bound was reached.

### Fairness

Users, admins, feeds, faults and clients have none anywhere.

* `HealthySpec`: the scheduler ticks, the burst entries age (Redis' clock), a thread that can go on does.
  No batch expires between an EXPIRE and the LRANGE that follows it (`ReadsInTime`), as no TTL is below 120 s
  (`services/webhook_dispatcher.py:73`); a tick as slow as that each time would never send.
  Faults are absent because with a receiver that fails forever the code disables the
  webhook, and nothing is promised.
* `CarefulSpec`: an API request that inserted its row sends its message; the threads run; the
  reaper is hourly; containers exit. The last is an assumption about bbot: nothing in the
  code bounds a container's life from outside, since the handlers wait for it.
* `AiJobs!Spec`: Dramatiq's threads go on to some end of a job, and the generator's loop goes
  round (weak fairness). Strong fairness of `CheckDone` says that Redis does not fail every one of the
  generator's EXISTS calls: a failed call is taken for "not done" (`Sleep`).
* The other properties are safety, and need none.

### Disagreements with the documentation, found by a run

* `EasmCancelClaim`: a cancelled scan is terminal (`src/docs/ops/easm.md:453`,
  `routers/easm.py:375`). A user cancels a queued scan after its actor has launched the
  container and before it has written `running`: no container is recorded, so none is
  stopped, and the actor writes `running` over the cancel. (The same blind writes turn a
  cancelled scan into a failed or a finished one; the run forbids only what it shows.)
* `PublishedClaim`: published reports "are immutable" (`routers/tiber.py:322`). The section refresh and the
  handlers of actor profiles and scenarios do not look at the state of the report.
* `BrandClaim`: "_maybe_synth writes an events row + marks match fired" for a new match of high severity
  (`src/backend/tests/integration/test_brand_webhook_reuse.py:279`). `services/brand_monitor.py:265` names a
  conflict target of three columns, and migration 021 made the index one of four: Postgres refuses the
  statement, and all the scan has written is rolled back. `workers/certstream_worker.py:116` does the same.

Also seen while modelling, and visible in the actions, without a run of their own:

* an event over the burst cap "is tagged" (`src/docs/ops/scoring.md:160`), but when a tick suppresses all its events it returns without a
  commit, and the tag is rolled back;
* a refused scan "is retried" (`workers/easm.py:47`), but under `max_retries=0` the message is dropped, and the row stays queued and blocks its project;
* the stream "replays" the list until done (`routers/ai.py:191`), but the list is read before the flag, so that what is pushed in between is never sent; the error chunk of a
  failed job is such a case;
* a batch that failed stays until a new match comes (`Match` returns at once without one);
* after PATCH enabled the failure count stays, so that one more failure disables again;
* the inclusive cutoff sends the last event again with the next one;
* the entries of a batch beyond `MAX_DIGEST_EVENTS` are deleted with it and never sent;
* the events of an OTX source go to the legacy project alone while its cursor advances, so that the projects bound to it never see them (`workers/taxii.py:149`, `ingest/taxii1_otx.py:311`);
* `heal_semaphore_from_db` is called nowhere: a leaked slot stays leaked;
* the reaper's grace window is shorter than the actor's limit, so that live scans can be marked orphaned;
* `actual_tokens` counts the words of the answer, while `record_actual_tokens` speaks of
  "actual_total_tokens - estimated_input_tokens": the true-up gives the prompt back;
* a job that records after midnight what it reserved before can make the new day's counter
  negative; a retry after the commit saves a second `AISummary` row; the summary's tags are merged into a
  list read before the call to the model;
* NVD: one second is added to the cursor when it is stored and another when it is read (`NvdShown`), so that the second after the latest change is never fetched; items that fail to parse are passed by the cursor;
* Telegram: `_build_event_row` has a key `url` that `events` has not, so that every message is a parse error while the health says ok; the
  statuses "config_error" and "error" are refused by `update_source_health`; `html_scrape` and OTX call `_persist_event` directly, for the legacy project only;
* a statement of an indicator that deadlocks aborts the whole poll, though `ingest/normalise.py:209` says that it "must NEVER raise into the ingest hot path";
* a disabled source keeps its job until the scheduler restarts ("register one IntervalTrigger job per enabled source", `scheduler/jobs.py:88`; the message of `routers/admin/sources.py:305` names only
  deleted ids), and every reload starts all intervals anew;
* a refresh asked for while a forced job runs loses its flag (`DeleteFlag`); `enrich_ioc.send` comes before the commit; a project's provider
  row that is disabled falls back to the enabled global one (`services/enrichment/resolver.py:65`);
* whitelisting an indicator whose loaded row already was whitelisted writes no status, and is lost when an unwhitelist came in between; unwhitelisting any row makes it active;
* the bulk import swallows errors of rows and reports an aborted batch as imported: a confidence of 10 or more passes the schema and overflows NUMERIC(3,2), and takes its whole batch
  with it; the `project_id` of rows that an administrator imports is ignored; its payload lives 600 s, and a redelivery after the end overwrites "complete" with "failed";
* the backfill pages by OFFSET and skips events when the archiver deletes some; an opt-in domain pivot is added after the enrichment's last commit and never committed, so that `/graph/traverse` finds nothing;
* the rows of `attack_technique_tags` have no unique index, so that their ON CONFLICT DO NOTHING removes no duplicates;
* the feed sorted by a score has the cursor of time and id, so that its pages skip and repeat events; the cursor of a text search rounds the rank to eight decimals; the filter by tier ignores the decay
  that its parameter speaks of, and its ranges leave gaps; without scope rows the feed of a project is empty and its timeline counts everything;
* reopening a case leaves its `closed_at`; patches that overlap can leave a closed case without one; attaching logs ids that were attached already;
* the graph of an actor may have `SEEN_IN` edges to events that are gone, and is cut to 100 nodes with their edges left;
* a Sigma rule never matches at ingest: `session.get(Event, event_id)` in `_build_event_dict` raises, as the key of events is composite; the items of a detection are linked by "or", and "not" before an unknown name is true;
* "no post appears in more than one cluster" (`services/cib_detector.py`), but sweeps over windows that overlap report a cluster again; the lock is deleted by a sweep that no longer holds it;
* a score that cannot be written aborts the whole rerank, which is logged as complete; `apply_section_refresh` computes the section anew and does not apply the diff that was shown;
* no worker of `src/ops/docker-compose.yml` takes the queue `scoring`; `get_ai_rerank_status` reads `...:active`, while `workers/ai.py:479` writes `...:in_progress`;
* profiles that `create_report` fills in have neither capability nor relevance, so that a new report never passes its gates unedited;
* a forced refresh "still writes to cache" (`workers/iocs.py:271`), but the write is SET NX: the old answer stays, and comes back into the row with the next sighting;
* "all terms (watch + alert) are still scanned" (`src/docs/ops/brand.md:238`), but `scan_project` loads the active ones only;
* the diff of two scans calls each finding that was found again new, never changed, as `persist_finding` has taken the row; a promoted finding makes a new event each time it is found;
* the silence alert is said to be deduplicated by ON CONFLICT, but its `source_id` is NULL and its time is now: one alert every 15 minutes, up to the cap; alerts that are rolled
  back use the cap up; one source whose `monitoring_config` does not validate fails the job for all;
* a sandbox result with a network indicator that is known already is lost, and the report stays pending; a poll that is delivered twice can write
  "timeout" over "complete"; no worker takes the queue `sandbox`;
* `misp_push` selects a column `content` that the table has not, and raises each time; `misp_pull` inserts columns that events have not; its jobs keep the configuration of the
  scheduler's start; a bulk confirmation pushes nothing.

## 4. Proofs

All theorems hold for any sets and numbers that satisfy the named assumptions of their module:
the sets of threads and handlers are finite, limits and caps are in the ranges the code gives them, the lockout's window is shorter than
its lock, and `None`, `NoJob` and the like are not one of
the other values. The bounds of the runs are parameters too: the theorems hold for each value of them.

| theorem | statement | argument |
|---|---|---|
| `WebhookDispatchProofs!TypeCorrect` | `Spec => []TypeOK` | `Typed`: `TypeOK`, finitely many ingested events, and a thread outside the loop's head has a webhook |
| `!BurstCorrect` | `Spec => []BurstOverrunBounded` | inductive with `Typed`: an `Admit` needs a free place, and at most all other threads have passed the check |
| `!PromiseKept` | `Spec => KeepsPromise` | `InScope` (all in a queue, batch or payload was ingested and wanted) and `Sent` (a payload past its POST was received) make each step one of `DeliveryPromise`, or a stutter |
| `!CursorCorrect` | `Spec => []CursorWasReceived` | inductive over the steps of `DeliveryPromise` |
| `!StreakCorrect`, `!BatchCorrect`, `!ClearedCorrect` | `ASSUME Solo PROVE Spec => []FailuresCountTheStreak`, and the same of `BatchNotBehindCursor`, `ClearedWasSent` | `SoloInv`: a session's row is the row but for a reset cursor (`SessionFresh`), and all a tick has in hand is ahead of the cursor (`Ahead`). `Solo` says that ticks do not overlap; `DispatchSequential` has one thread |
| `EasmScanProofs!TypeCorrect` | `Spec => []TypeOK` | `Typed`: `TypeOK`, a busy thread has a scan, and the counter is at least the number of counted threads, without which DECR would leave the naturals |
| `!SlotsCorrect` | `Spec => []SlotsBounded` | `Covered`: threads past the semaphore and containers left behind fit together in the limit, and the latter are paid for by leaked slots |
| `!ContainersCorrect` | `Spec => []ContainersBounded` | `Covered`, and each container is kept by its thread or left behind (`KeptCovered`) |
| `!SlotsReturnedCorrect` | `SteadySpec => []SlotsReturned` | no steady step changes the drift (`DriftStep`) |
| `!HostCorrect`, `!LeaksCorrect` | `Spec => []HostBounded`, `Spec => OnlyLossesLeak` | of the two before; and `DriftStep`: only a death and a lost decrement change the drift |
| `!OneActiveCorrect`, `!CleanupCorrect` | `CarefulSpec => []OneActivePerProject`, `CarefulSpec => CleanupSparesActive` | `Careful`: a scan has one message and one thread (`Handled`), nobody touches it before it runs (`FreshQueued`), what a launch has checked still holds when it inserts (`CheckedClear`), and the active scan is the newest (`ActiveNewest`) |
| `!NoStrayCorrect` | `SteadySpec => []NoStrayContainer` | `Minded`: a running container is that of a thread at a label at which its handlers will still stop it |
| `AiJobsProofs!TypeCorrect` | `Spec => []TypeOK` | `JobInv` |
| `!StreamCorrect` | `Spec => []StreamHolds` | `JobInv`: while the keys of a job live its list grows at its end only; a job at the label that sets done has saved, was halted or has pushed an error (`EndsKnown`) |
| `!CancelCorrect` | `Spec => []CancelStopsSoon` | `PushesOnce`: without the flag nothing is late, and what is about to push has pushed nothing late |
| `AccountsProofs!SessionsTypeCorrect` | `SessionsSpec => []SessionsTypeOK` | with `OwnSlot`: a handler that ends sessions has come with no pair |
| `!EndedCorrect` | `SessionsSpec => []EndedStaysEnded` | `Outdated`: unless two have raced, no version outstanding, in a pair or a handler, is above the row's, and ended ones are below it |
| `!RotationCorrect` | `SessionsSpec => []RotationBounded` | `Unused`: a refresh token that is live has no successor |
| `!SessionsCorrect` | `SessionsSpec => []SessionsHold` | of the two before |
| `!LockoutTypeCorrect` | `LockoutSpec => []LockoutTypeOK` | inductive |
| `!CounterCorrect` | `LockoutSpec => []CounterHarmless` | `SoonExpires` (the login that made the counter will give it a TTL), `SoonLocked` (at the threshold a login will lock the name, or a lock is there that outlives the counter) and `FreshLock` (while logins are under way a lock is new) |
| `!MembershipsTypeCorrect` | `MembershipsSpec => []MembershipsTypeOK` | inductive |
| `!LeadCorrect` | `MembershipsSpec => []LeadKept` | `SecureLead`: unless changes that take Leads have crossed, there is a Lead whom no change under way is of |
| `WorkspaceProofs!ProjectsTypeCorrect`, `!TargetsCorrect` | `ProjectsSpec => []ProjectsTypeOK`, `[]RowsTarget` | inductive: the CHECK is looked at with the row as it has become |
| `!SettingsCorrect`, `!DocumentsCorrect` | `ProjectsSpec => []SettingsHold`, `ReportsSpec => []DocumentsHold` | of the theorems about their parts |
| `!BoundCorrect` | `ProjectsSpec => []BoundAsAsked` | `SeesAll`: unless two have overlapped, the one replacement under way takes away all that is bound |
| `!IdleCorrect` | `RescoreSpec => []IdleWhenDone` | `RescoreInv`: a flag that is set belongs to a message that waits or a run |
| `!ScoresCorrect` | `RescoreSpec => []ScoresSettle` | `ScoreInv`: `Room` bounds every version that was read and may still be added to by the highest version of an override and the number of rescores that have still to commit one; `OwnVersions` and `LastIsCurrent` say what the runs that write will leave |
| `!VersionsCorrect` | `ReportsSpec => []VersionsCount` | `Accounted` (versions, messages and attempts are no more than requests and retries) keeps versions in range; `NextHeld` says which a thread may hold |
| `!CloneCorrect` | `ReportsSpec => []CloneIsItsOwn` | inductive |
| `!DecidedCorrect` | `ReviewSpec => []DecidedAsAsked` | `LoadedHolds`: what a request has loaded is what the row says, or the row has expired since, and it is alone with it |
| `!DecisionsStandCorrect` | `BrandSpec => []DecisionsStand` | `BrandInv`: a match that is not there has no end |
| `!SeenCorrect` | `SurfaceSpec => []SeenIsNotGone` | `SurfaceInv`: scans are numbered in the order of launch (`InOrder`), only launched ones report, and what they saw is no earlier scan's (`SeenSince`) |
| `!RescoreTypeCorrect`, `!ReportsTypeCorrect` | `RescoreSpec => []RescoreTypeOK`, `ReportsSpec => []ReportsTypeOK` | `RescoreRest`: a thread that is done keeps nothing; `ReportRows`: a scenario names a profile that is there, or none |
| `!ReviewTypeCorrect`, `!BrandTypeCorrect`, `!SurfaceTypeCorrect` | `ReviewSpec => []ReviewTypeOK` and so on | the invariants of the three before with what rests between two steps (`ReviewRest`, `BrandRest`, `SurfaceRest`) |
| `!WorkspaceTypeCorrect` | `Spec => []WorkspaceTypeOK` | `WorkspaceInv`: the part that takes the steps keeps its invariant, the others rest |
| `IntelProofs!JobsCorrect` | `SourceJobsSpec => []JobsFollowSources` | `DuePolled` and `DeletedNamed`: a source whose job is wrong has a change still to be published, a message on the channel, or a load under way |
| `!CapsCorrect` | `EnrichmentSpec => []CallsWithinCaps` | `Paid`: the calls under a minute and the units that jobs still hold of it are no more than its counter |
| `!ReportsCorrect` | `SandboxSpec => []ReportsFollowed` | `ReportHeld`: a pending report has a message or a thread or was lost, and unless a death has repeated something it has one of them only (`SeenToOnce`), and none once it is judged |
| `!NothingSkippedCorrect` | `IngestSpec => []NothingSkipped` | `IngestInv`: the cursor is justified by the committed rows, and the one a poll carries by these and what the poll has still to write (`Justifies`, `Has`) |
| `!AlertsCorrect` | `MonitoringSpec => []AlertsBounded` | `SourceBounded`: the records of the last hour and the jobs that have passed the gates and not yet recorded are together no more than the cap and the number of the other jobs, and the hours before are over |
| `!TypeCorrect` | `Spec => []TypeOK` | `MayStillRun`: a job that is not over has failed at most once |
| `!CapCorrect` | `Spec => []ReservedWithinCap` | inductive: only `Reserve` adds beyond what `overrun` takes up, and it checks |
| `!PaidCorrect` | `Spec => []AnswersPaidFor` | `ReservedCoversEstimate`: 6/5 of an estimate, rounded down, is at least the estimate |
| `!BudgetCorrect` | `Spec => []BudgetHolds` | of the two before |
| `!SourceJobsTypeCorrect`, `!IndicatorsTypeCorrect`, `!EnrichmentTypeCorrect` | `SourceJobsSpec => []SourceJobsTypeOK` and so on | conjuncts of the invariants before |
| `!SandboxTypeCorrect` | `SandboxSpec => []SandboxTypeOK` | `FewSeeTo`: the messages of a report and the threads that follow it are together no more than one, and one for each worker that died |
| `!MonitoringTypeCorrect` | `MonitoringSpec => []MonitoringTypeOK` | `RunHeld`: a run has nothing on record yet of the sources it has still to see to, and records with its own time, at which no earlier run of its job began (`BeforeDue`) |
| `!IngestTypeCorrect` | `IngestSpec => []IngestTypeOK` | `HoldsIts`: a poll holds what it has written, and no two hold the same; the empty polls of a source that are counted and the polls under way are together no more than those begun |
| `!IntelTypeCorrect` | `IntelSpec => []IntelTypeOK` | `IntelInv`: the part that takes the steps keeps its invariant, the others rest |
| `CasesProofs!DecisionsCorrect` | `IndicatorsSpec => []AnalystsDecide` | `Unspoken`: of a row that is not there nothing was said |
| `!DossiersCorrect` | `CaseworkSpec => []DossiersTraced` | `Carries`: the dossier of what a request has inserted is still there, and its indicator (`Keyed`), and what it was asked to attach it has still to come to, has inserted, or passed over because it was there, so that it is kept or accounted for (`KeptLink`). `EvidenceApart` says that events and indicators have ids of their own |
| `!BackfillCorrect` | `BackfillSpec => []BackfillReaches` | `BackfillInv`: events that were there when it began are there, and those that rank before the offset have been read. The ranks of the events leave no gap (`NoGap`), so a page that is empty is past the last one |
| `!ImportsCorrect` | `ImportSpec => []ImportsReported` | `ImportInv`: an upload has one message or one thread (`Attended`); the rows before a thread's next one are stored, deleted since, or its own to commit, unless a batch was aborted; and what it has inserted, plus the row it is about to insert, plus the rows that are not stored (`Left`), is no more than the dry run said, unless a row was deleted |
| `!ReadAllCorrect` | `ImportSpec /\ BackfillSpec => []JobsReadAll` | both |
| `!CaseworkTypeCorrect` | `CaseworkSpec => []CaseworkTypeOK` | `CaseRest`: a link that is not committed is held by one request, which was asked to attach it and whose dossier stands (`Standing`) |
| `!BackfillTypeCorrect`, `!ImportTypeCorrect` | `BackfillSpec => []BackfillTypeOK`, `ImportSpec => []ImportTypeOK` | `BackfillRest`; `ImportBounds`: what a thread has counted is no more than the rows before it, and the failures of a message leave it as many attempts as it is sent again |
| `KnowledgeProofs!WalkCorrect` | `EventFeedSpec => []WalkComplete` | `WalkInv`: the cursor lies between the rows that the reader has got and those that have matched throughout and are still to come; between the two statements of a page, what has matched throughout matches the scope that was read |
| `!RerankCorrect` | `RerankSpec => []RerankHolds` | `RerankInv`: what a transaction has to write fits the clamp too; a digest message is in one place, the queue or a thread (`OnePlace`), and while it has still to write, it has written only where a worker has died (`Owed`) |
| `!GraphCorrect` | `AttackGraphSpec => []GraphFaithful` | `GraphInv`: what was there throughout and is not drawn is still to come at some layer (`ToCome`, `Reached`), what is read and not yet drawn is in view, and a drawing that is not done is below the cap of nodes, and not more than two above that of edges (`Small`) |
| `!WalkTypeCorrect`, `!RerankTypeCorrect`, `!GraphTypeCorrect` | `EventFeedSpec => []EventFeedTypeOK` and so on | `WalkRest`: all pages but the last are full, for which two rows never have as many rows before them (`FullPage`); `RerankRest`: no two reranks hold one row; `GraphRest`: the rows of a layer are used up in it |
| `!SigmaCorrect` | `SigmaSpec => []SigmaFaithful` | `SplitsReadFromLeft`: the state of the reading at a term says what the clauses up to it mean, by the least term at which it would not; that the recursive function is one (`ReadingExists`) by the least length at which there would be none |
| `!ClustersCorrect`, `!ClustersTypeCorrect` | `ClustersSpec => []ClustersReported`, `[]ClustersTypeOK` | `SweepsInv`: what a sweep has reported covers what it has compared, and the key and the sweeps under way fit together; of the comparison, by the least number of posts left at which it would not cover them |
| `!DetectorsCorrect` | `KnowledgeSpec => []DetectorsHold` | `DetectorsInv`: the invariants of `SigmaCorrect`, `ClustersCorrect` and `RerankCorrect`, in one run |
| `!KnowledgeTypeCorrect` | `KnowledgeSpec => []KnowledgeTypeOK` | `KnowledgeInv`: all invariants of the parts of `MCKnowledge`; each part takes its steps, and rests while another does |

The properties are seldom inductive. After a crash the scan counter stays up while the threads are gone, and
nothing in `SlotsBounded` says that they stay accounted for; `Covered` does. `CallsWithinCaps` would let two
jobs that were both charged for the last unit call; `Paid` says that the counter contains both. `VersionsCount` says nothing of the
version a thread holds between its `SELECT max` and its commit; `NextHeld` does. `IdleWhenDone` alone would let a rescore start with
the flag deleted under it, which it may, and end with it set, which it may not.

`ShownIsCurrent` speaks of rest only, while what could go wrong is decided long before: a rescore that has read old rules must not be the last to
take a version. The versions alone do not say so, since a rescore commits one more than what it has read, and saved rules may in between have put a lower
number in the row than others have read. What holds is a count: with `w` the highest version of an override and `n` rescores still to commit one (messages, and runs
before their first commit), no version that was read is above `w + n`; and when one is as high as that, or a stale one is one below, all are above `w`.
Every rescore that commits uses up one of `n` and raises `w`, so the last one has the rules in force.

`DecidedAsAsked` compares a row with its decider's wish and says nothing of the request that is about to write it; `LoadedHolds` does.
`OneActivePerProject` says nothing of the request that has checked and not yet inserted, `StreamHolds` nothing of a job on its way to `done`, `ReportsFollowed` nothing of two messages for one report,
`ImportsReported` nothing of a row that a thread has looked up and not yet written,
`DossiersTraced` nothing of a request that has found a link in place and will log it as attached although someone detaches it before the commit; `Carries` keeps the log of that loss.
`NothingSkipped` is about the cursor that is stored, and a poll carries the next one for as long as it runs: `IngestInv` justifies that one too, by rows that are not yet committed, and needs that Postgres commits
them together.

The proof of `NothingSkipped` failed at first for a good reason. It used to except the one second in which NVD's cursor stands; once the cursor has moved on, an item of that second is
still not there and not shown. With two items a feed the run did not reach this; with three it does. The statement now excepts every second that the cursor went past without its items having been shown (`passed`), which is what the code loses.

What stays with TLC:

* the liveness properties (`EventuallySent`, `ScanEnds`, `WaitersAreTold`), which need fairness and ENABLED, out of the prover's reach;
* what `ParsedRows` keeps of a file: the proofs use of it only what `ImportAssumption` says, which TLC evaluates for the files of the run.

Every other invariant and action property of the runs is stated by a theorem. The reading of a Sigma condition and the comparison of posts go
through a sequence of any length, which would be an induction over data. Both are recursive functions over an initial segment of the naturals, and of
those the argument can be had without the induction theorem: if there were a length, or a term, at which the claim fails, there would be
a least one (`LeastNatural`, of the well-foundedness of `<`), before which it holds, and one turn of the function says that it holds there too.

A type invariant looks like a conjunct that holds by itself. These say more, because a handler between two statements relies on what it has read, and so need more: that a rerank which
updates a score finds no other with the same row in hand (`Apart`), that a page which is not the last has all its rows (`FullPage`, which counts the rows before a row),
that the failures of an import's message are those that its attempts account for. The invariants of the sums are the conjunctions of the parts': a part keeps its
own when it takes a step, and its variables do not change in the steps of the others.

`AttackGraphAssumption` says among other things that no project is called "none", which in the model is the mark of an administrator who names none; projects have UUIDs.
`EventFeedAssumption` and `RerankAssumption` say that there are finitely many events, `ClustersAssumption` that there are finitely many posts.
`SomeQuery` and `SomeDossier` say that there is a query and a case or campaign: the initial value of a request's record names one, which without any would not have its type.

`ImportAssumption` says that the rows `ParsedRows` keeps of a file are a sequence of rows, and no more than the file has. `SelectSeq`, which they are chosen with, is recursive, so this would be an induction over data; TLC evaluates it for the files of the run.
`ImportLimits` says that the cap of rows, the retries and the bound of the disturbances are natural numbers.

## 5. Not modelled

* Of the dispatcher: creating, deleting and retargeting a webhook, the test call, formats,
  and several presets on one webhook. Scores, which decide the tier, are constant.
* Of the findings: what bbot reports of a target, and the query behind each list.
* Of the AI jobs: the text, the suggestions and tags of the summary's second call; what a suggestion says.
* Of brand monitoring: how detectors match. Of MISP: the exchange itself. Of the sandbox: the sample's download.
* Of monitoring: the statistics behind drift and failures.
* Of the budget: the expiry of a counter two days after its day, when no caller uses it.
* Of sessions: OIDC logins, and what tokens contain besides their id, version and membership.
* Of projects: exports, comparisons and attack paths, which only read.
* Of reports: what their sections say, PDF and STIX, drafts by a model.
* Of rescoring: the score, arithmetic on floats.
* Of ingest: fetching and parsing, robots.txt, tags, YARA and Sigma matches, the messages sent for each event, the pull from MISP.
* Of the scheduler: the fixed jobs and their times.
* Of indicators: their extraction. Of imports: the parsers of the formats.
* Of the feed: the counts of the timeline and of tiers. Of cases: the fields that only one request reads. Of the graph: the mirror in Apache AGE.
* Of Sigma: parentheses, which the code does not read, and the matching of values; YARA.
* Of enrichment: passive DNS, WHOIS and the graph, and the settings of providers. Two providers share nothing but the row.
* Time is a choice of steps, except for the minutes of the batch keys, the lockout's TTLs and the quota's minutes.
* Components with no module (section 1) are queries, CRUD over single rows, pure matching, or the
  user interface: no two steps of theirs share state that a property could relate. `PROJECT.json` has a note on each.

## 6. What is left

* The three liveness properties, under the fairness of section 3: as leads-to steps from state to state, once ENABLED can be reasoned about.
* `Archiver`: what a failure between the copy and the deletion leaves.
