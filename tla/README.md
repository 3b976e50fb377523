# Argus: a TLA+ model of the crawl pipeline

Argus crawls web sites with a set of small services that talk over Kafka and
share Postgres, Redis and MinIO. This directory holds TLA+ modules translated
from the Python source, the TLC configurations that check them on small
instances, and proofs, checked by TLAPS, of what holds for every size of the
consumption loop, the pipeline, the stores of a URL's content, the rate limiter
and the cron schedules. Paths below are relative to the repository.

    core      packages/argus-core/src/argus_core/
    events    packages/argus-events/src/argus_events/
    services  services/<name>/src/<name>/main.py

## 1. The system

### 1.1 Components, their state and their operations

| Component (source) | State it keeps | Operations | Modelled in |
|---|---|---|---|
| Kafka consumption loop (events/kafka_client.py) | offsets of the group, one message in hand per worker | poll, await handler, `commit()` | `StageWorker` |
| Idempotency ledger (core/application/idempotency.py, core/infrastructure/persistence/repositories.py) | `processed_events` (event id, stage) | `try_claim` | `StageWorker`, `EffectOnce`, `ArgusState` |
| Crawl progress (core/application/crawl_progress.py) | `crawl_job_urls` (job, url) -> status | `queue_url`, `mark` | `ArgusState` |
| Job submission (scheduler) | `crawl_jobs`, `argus:seen:<job>` | `submit_job_internal`, `_queue_incremental_urls` | `Submission` |
| Crawler | dedup keys, MinIO objects, rows | claim, dedup, fetch, upload, publish, follow links, fail | `Crawler` |
| Parser | none | claim, parse, publish, fail | `Parser` |
| Cleaner | `urls`, `html_artifacts`, `pages`, rows, job status | claim, upsert transaction, `refresh_job_status`, cache, fail | `Cleaner` |
| Retry | none | republish an `UrlFailed` as an `UrlDiscovered` or `PageParsed`, or DLQ it | `Retry` |
| DLQ replay | replay counters in Redis | count, republish | `DlqReplay` |
| Whole pipeline | all of the above | the services together, crashes, redeliveries | `Pipeline` |
| HTML storage (core/storage.py) | objects by (job, url hash) | upload, download | `Crawler` (which exist), `ContentHash` (what they hold) |
| Job status (core/jobs.py) | `crawl_jobs.status` | `refresh_job_status`; read-only statistics | `Cleaner`: the refresh |
| Content-hash cache (core/content_hash.py) | `argus:hash:<url>` | get, set, expiry | `ContentHash` |
| Cron schedules (core/scheduler.py, scheduler) | `scheduled_crawl_jobs`, APScheduler's table | create, patch, delete, load; fire | `CronSchedules` |
| Rate limiter (core/rate_limit.py) | `argus:ratelimit:<domain>` | acquire | `RateLimiter` |
| URL normalization (core/url_utils.py) | none | `normalize_url` | `UrlKeys` |
| Robots cache, proxy rotation | in memory | | not modelled: may refuse any fetch / no effect |
| Extraction engine | none | pure functions | not modelled |
| Search API, dashboard | none | read-only | not modelled |
| Settings, factories, observability, migrations | none | wiring | not modelled |

### 1.2 How they interact

A job is submitted; each seed is announced on `argus.url.discovered`. The
crawler turns that into an object in MinIO and an `HtmlFetched`, and announces
the links it finds; the parser turns the `HtmlFetched` into a `PageParsed`; the
cleaner writes the page to Postgres and marks the row parsed. An event keeps
its id from `UrlDiscovered` through `HtmlFetched` to `PageParsed`, and each
stage claims (id, stage) in the ledger before it works on it. A failure is
published on `argus.url.failed`, where the retry service makes the next attempt
of it, or, after the last attempt, on `argus.dlq`, where dlq-replay puts it back
a limited number of times. Nothing is transactional across Kafka, Redis,
Postgres and MinIO, and no handler is told of a rebalance.

### 1.3 What is hard

* The claim is committed before the work (crawler main.py:121), so the ledger
  gives at most once, while the uncommitted offset gives at least once.
* `commit_message` calls `commit()` without an offset (kafka_client.py:88):
  after a rebalance it commits positions of partitions the message in hand does
  not belong to.
* `mark_seen`, `queue_url` and publish are three stores (crawler main.py:304,
  scheduler main.py:103).
* `HtmlFetched` is out before the row is marked (crawler main.py:214-224): the
  parser and the cleaner can overtake the crawler, and an exception after it
  reports a failure of a page that goes on through the pipeline.
* The job's completion is decided by the cleaner from a count it takes, and
  commits later, while crawlers add rows (jobs.py:45-64).
* Retries, replays, dedup keys and the ledger each have an idea of "already
  done", keyed differently: by attempt, event id, URL and (event id, stage).
* A cron schedule is a row in Postgres and an entry in the memory of one
  process. The coroutines that create, patch and delete it write one, then the
  other, with awaits in between (scheduler main.py:280-381), runs that have
  been triggered go on meanwhile, and an error of Postgres between the two
  leaves them apart in a process that goes on.
* The hash by which a page counts as unchanged is read through a cache that the
  cleaner writes after its commit, and the HTML it belongs to is overwritten in
  place by the next visit (content_hash.py:41, cleaner main.py:133,
  storage.py:41).
* The token bucket takes its time from its callers, whose clocks differ, and
  the answer it gives a waiter is cut to an integer (rate_limit.py:37-42).
* Seeds are normalized once, links joined with the URL of their page and
  normalized twice (scheduler main.py:101, html_extractor.py:94, crawler
  main.py:302): a key must not depend on that.

The full list, with lines and the properties aimed at each, is under `hazards`
in PROJECT.json.

## 2. The modules

    EffectOnce        what the ledger promises, without Kafka
    StageWorker       one consumer group; refines EffectOnce
    StageWorkerProofs theorems about StageWorker
    MCStageWorker     symmetry for its runs
    ArgusState        variables of the pipeline and shared operations
    Submission, Crawler, Parser, Cleaner, Retry, DlqReplay
                      one service each, over ArgusState
    CrawlFlow         what the pipeline promises about pages, without topics
                      or workers
    Pipeline          the services together, the properties; refines CrawlFlow
    PipelineProofs    its inductive invariant and what follows from that; a
                      normal form of its steps, for the next two
    PipelineFlowProofs    it implements CrawlFlow; one announcement, one fetch
    PipelineSettleProofs  what is left when it is quiet
    MCPipeline        link graphs, seeds and symmetry for its runs
    ContentHash       rows, cache and objects of one URL's content
    ContentHashProofs theorems about ContentHash
    CronSchedules     the scheduler's rows, APScheduler's entries and runs
    CronSchedulesProofs  theorems about CronSchedules
    UrlKeys           normalize_url and the keys made with it
    UrlKeysProofs     theorems about UrlKeys
    MCStores          the instance of the last three that is checked
    RateLimiter       the token bucket of one domain
    RateLimiterProofs theorems about RateLimiter
    MCLoops           StageWorker without a ledger, and RateLimiter

The two levels divide the work. `StageWorker` has the broker's detail (logs,
offsets, ownership, crash and restart of each member) and abstracts a handler
to "its effects"; it shows what at-least-once delivery and the ledger give
together. `Pipeline` has the handlers' detail, store access by store access,
and abstracts the broker to what `StageWorker` justifies: a message is worked
on by some worker and, after a crash or a rebalance, may be delivered again.

### 2.1 StageWorker

| In the module | In the code |
|---|---|
| `log[p]`, `committed[p]`, `owner[p]` | the topic's partition, the group's committed offset, the assignment (broker, as kafka_client.py uses it) |
| `position[p]` | how far the owner's consumer has been given messages, what `commit()` commits |
| `pc[c]`, `hand[c]` | where consumer `c` is in `consume_with_backpressure`, its message |
| `Poll` | `async for message in consumer` |
| `Claim`, `SkipDuplicate` | `should_process` and `session.commit()`; the early return |
| `Handle` | the rest of the handler, to its normal return |
| `Commit` | `commit_message`: every partition owned now, at its position now |
| `Crash` | the process dies, or an exception leaves the handler and ends the loop (no handler but `_handle`'s `try` catches); also a commit refused for an old generation |
| `Restart` | somebody starts the worker again |
| `Rebalance` | any new assignment to live members; positions restart from the committed offsets |

`Idempotent = FALSE` is the loop as retry and dlq-replay run it. The semaphore
of `consume_with_backpressure` is taken inside a sequential loop, so one message
is in hand whatever `max_in_flight` says: it needs no variable.

`EffectOnce` states the ledger's promise by itself: an event is claimed once,
then applied once or lost, and each loss costs a failure. `Effect` is the
refinement mapping: an event is "claimed" while the consumer that claimed it is
between claim and return.

### 2.2 ArgusState and the services

| Variable | Stands for |
|---|---|
| `topic[t]` | messages of topic `t` waiting for a worker, a set: publishes without a key and several partitions leave no order to rely on |
| `minted[j,u]` | event ids made so far; an id is (job, url, n) |
| `ledger`, `row`, `job`, `indexed` | `processed_events`, `crawl_job_urls.status`, `crawl_jobs.status`, `urls` with its depth |
| `stored` | MinIO objects |
| `dedup`, `seen`, `replays` | `argus:url:*`, `argus:seen:*`, `argus:dlq:replays:*` |
| `task[w]` | the message in hand of worker `w`, how far it is, links left to follow |
| `submit[j]` | how far the submission of job `j` is |

`CrawlFlow` states the promise of the whole by itself: a page is announced to a
job that exists, fetched for a job it was announced to, indexed only from what
was fetched, and none of it is taken back. `Flow` in `Pipeline` is the
refinement mapping: announced is having a `crawl_job_urls` row, fetched having
an object, indexed having a `urls` row. Topics, workers, the ledger, retries and
replays are what it hides; each of their steps is a stutter or one step of
`CrawlFlow`.

Each action is the code between two store accesses that others can see, and
each is mapped to its lines in PROJECT.json. Some points of translation:

* Taking a message and claiming it are one action: between the two a worker has
  touched nothing. For the crawler the row's `claimed` is in the same
  transaction as the claim, as in the code. The retry service takes a message,
  sleeps and publishes: its first visible act is the publish.
* The cleaner's transaction takes two steps: `Flush` writes rows it then holds
  locks on (`RowLocked`, `UrlLocked` make other writers wait) and takes the
  counts `refresh_job_status` decides by, under READ COMMITTED; `CommitUpserts`
  makes it all visible.
* An exception inside `_handle`'s `try` is `FetchFails`, `UpsertFails`,
  `ParseFails` (expected now and then, bounded by `MaxErrors`) or `LateFailure`,
  `SetHashFails`, `ReplayFails` (a store or the broker fails, bounded by
  `MaxFaults`). One outside any `try` ends the worker: `Crash`.
* `Crash(w)` puts the message back and frees `w`, which then stands for the
  member that takes over. `Redeliver(w)` puts it back while `w` works on.
* Which known URLs are stale (`SelectStale`) and whether a fetched page is
  unchanged (`SkipUnchanged`) are nondeterministic, the latter only for a page
  that has been indexed; `ContentHash` has what decides it.
* `ExpireKey`: a dedup key expires (`incremental_recrawl_ttl_seconds`, an hour
  by default) but not while a crawler works on its URL.
* `SeedDepth`: an incremental seed restarts at the depth the `urls` table has.

Left out: columns nothing here depends on (errors, checkpoints, timestamps,
`urls_queued`, a row's depth), trace headers, metrics, logging, the retry
delay, the expiry of the replay counter, and SQLAlchemy's omission of unchanged
columns from an UPDATE (a mark is a plain write of the status).

### 2.3 CronSchedules

Cron schedules share nothing with the pipeline but the call that submits a job,
so they have a module of their own. `Submit` is that call, the job being what
`Submission` models from its `CreateJob` on.

| In the module | In the code |
|---|---|
| `row[s]` | the committed row of `scheduled_crawl_jobs`: enabled, cron expression |
| `entry[s]` | the job APScheduler holds in memory for it |
| `req[r]` | an HTTP request in flight: its step, its schedule, the row it has read, its patch |
| `born` | ids given out: uuid4 does not repeat |
| `doubt[s]` | history: have requests on `s` been in flight together, or has one failed halfway, with no startup and no good request on its own since |
| `stopped[s]` | history: has a request on its own disabled or deleted `s`, with nobody asking to enable it since |
| `Create`, `Refresh`, `Apply` | `create_schedule`: commit, `session.refresh`, `schedule_cron` |
| `PatchRead`, `PatchWrite`, `Refresh`, `Apply` | `patch_schedule`: get, commit, refresh, then cancel, schedule or neither |
| `DeleteCancel`, `DeleteRow` | `delete_schedule`: cancel, then the row |
| `Fails` | an error raised after the request has changed a store: HTTP 500 (or 404, in a delete), and the process goes on |
| `Start` | `load_from_db`; it raises, and the service stays down, if an enabled row has an invalid expression |
| `run[s]` | the run of `s` that APScheduler has started, one at a time (`max_instances`) |
| `Trigger` | an entry's time has come, at any moment |
| `GetRow`, `Stamp`, `Submit` | `_run_job`: get the row, write `last_run_at`, then `cron_callback` whether the row was there or not |
| `Crash` | the process ends: entries, requests and runs are gone, rows stay |

A step is the code between two awaits that reach Postgres; `schedule_cron`'s
`add_job` is the last thing of a request that the properties see. `Updated`
writes the columns that differ from the row that was read, as the ORM does.

Any access to Postgres may fail. `PatchWrite` may leave the row as it is;
`Refresh` may fail after the commit, which also stands for a commit that was
applied and whose answer was lost; `DeleteRow` may fail after the cancel;
`schedule_cron` raises on an invalid expression, and an error of the UPDATE it
ends with comes after `add_job`, so that the entry is there; a run may end in
`GetRow` or `Stamp`. Row and entry may then disagree in a process that goes on,
as they may after requests on one schedule have overlapped, and for these the
code promises nothing. What it does achieve, and `EntriesFollowRows` says, is
that from any such state one request that is alone and goes through to both
stores, or a restart, brings them together, and that they stay together until the
next overlap or error. `NoRunAfterDisable` is not about agreement: once a
disable or a delete has gone through on its own, no overlap, error or restart
after it makes the schedule run, until somebody asks to enable it.

Left out: when an entry's time comes, the values of `last_run_at` and
`next_run_at` (`schedule_cron` writes the latter after `add_job`), names, job
configurations (a patch cannot change one).

### 2.4 ContentHash

One URL and everything Argus keeps of its content, with the contents the site
may serve told apart by their checksum. A visit is one pass of the URL through
crawler, parser and cleaner, for some job. Two visits overlap when a forced
recrawl deletes the dedup key or the key expires during the first; two cleaners
overlap then, or when a rebalance hands on a partition.

| In the module | In the code |
|---|---|
| `content_hash`, `artifact`, `text` | `urls.content_hash`, the `html_artifacts` row, the content the `pages` row was extracted from |
| `cache` | `argus:hash:<url>` in Redis, which `ExpireHash` may drop at any time |
| `object[j]` | the MinIO object `<j>/<url hash>.html` |
| `visit[v]` | the handler's local variables: its html, the hash or row it has read, the page the parser has made |
| `Fetch`, `GetCached`, `SelectHash`, `FillCache`, `SkipUnchanged`, `Upload` | the crawler from the fetch to `publish_event`, with `get_hash` in three accesses |
| `Parse` | download by key and extract; the checksum passed on is the event's |
| `ReadRow`, `Update`, `InsertFails`, `CommitRows`, `SetHash` | the cleaner's transaction: the SELECT, the flush that takes the row's lock or fails on the unique key, the commit, then `set_hash` |
| `Fail` | an exception or a crash anywhere |

`NewHash` is the one place where the ORM's omission of unchanged columns is
modelled: a cleaner that has read the hash it is about to write does not write
it. Four history variables say what kind of overlap has happened, so that each
property can name the one that voids it: `crossed` (two cleaners), `overwritten`
(an object whose first version was not yet parsed), `disturbed` (two visits
under way, or a failed `set_hash`, since the cache was last empty at rest),
`alone`.

### 2.5 RateLimiter

The script of `RedisTokenBucketRateLimiter` is one step (`Grant` or `Refuse`),
as Redis runs it. Between `time.time()` and the script lies the request's lag,
so `ReadClock` is a step of its own; `Ahead[c]` is how far the clock of caller
`c` is ahead. A tick is a second and a token `Token` fractions, so that the
arithmetic is on integers: the code's floats are taken as exact. `Wait` is what
Redis returns of the Lua number, its integer part, and a sleep of 10 ms takes no
tick. `OpenWindow` is history only: it starts, at any moment, the stretch of
time `PermitsBounded` judges.

### 2.6 UrlKeys

`normalize_url` over URLs as records (scheme, port, path as a sequence of
segments, query as a sequence of pairs), and the ways authors and clients may
spell one page: capitals, a fragment, the scheme's port left out or written, no
scheme, trailing slashes, the query in another order, parameters after a
semicolon. `SeedKey` is what `submit_job_internal` makes of a string,
`LinkKey` what `extract_links` and the crawler make of it together when it is
found on a page `base`, one of `Bases`. `Joined` is the `urljoin` between them: it leaves a URL
with a scheme as it is, and one without, but with a port ("example.com:80/a"
reads as if "example.com" were its scheme). "example.com/a" it takes for a path
in the directory of `base`, where `normalize_url` would have taken it for a host;
`Relative` names these, `SeedsAndLinksAgree` leaves them out, and section 6
records them. Relative references of other forms spell no page by themselves
and are no seeds, so there is nothing to compare. Pairs of a
query are numbers, in the order Python sorts them; `SortedQuery` is the query
rearranged in that order. The pages' names, paths and queries are any that meet
the module's assumptions.

## 3. The runs

| Run | Question | Bounds and why they are enough |
|---|---|---|
| `ledger_safety` | at-most-once effects, honest commits, one loss per crash, refinement of `EffectOnce` | 3 consumers, 2 partitions, 2 event ids, 2 messages per partition, 2 crashes, 1 free rebalance: a zombie member, its successor and a third party; the same id twice in one partition and in two |
| `loops` | the loop without a ledger: handled before committed, everything committed in the end; the rate limiter: the bucket's bounds and every `acquire` returns | 2 consumers, 2 partitions, 2 messages each, 1 crash, 2 free rebalances; 2 crawlers whose clocks differ by a second, a burst of 2 tokens, 3/4 token a second, requests that lag a second, 4 calls in 4 seconds and time for the bucket to expire: a waiter is passed by the other crawler, a script runs with a time older than the bucket's |
| `one_url` | artifacts before events, claims in pipeline order, bounded attempts, rows come to an end; refinement of `CrawlFlow` | 1 page linking to itself, 1 worker per service, limit 2 attempts, 1 replay, 3 errors, 1 fault: every retry and DLQ path to its end with a fault anywhere |
| `shared_link` | a link is announced once and never before its row | 3 pages, the third linked from both others, one of which is linked from the first while the submission is about to queue it; 2 crawlers; no fault (`one_url` has faults on the same property) |
| `two_jobs` | two jobs do not fetch one URL at once; without failures every page not skipped is indexed | 2 jobs, 1 URL, 2 crawlers, 2 cleaners, 1 error |
| `recrawl` | rows come to an end and all topics empty when a forced recrawl meets a running crawl | 2 jobs, one incremental, 1 URL, 1 worker per service, 1 fault (a crash, a redelivery or a late failure, which goes through retry, DLQ and replay: retry's limit is below the workers') |
| `stores` | `cron`: entries come to follow rows, no run after a disable; `content`: rows, cache and objects agree; `urls`: one key per page, as seed and as link | 2 schedules, 2 valid expressions and an invalid one, 2 requests and a run in flight on one schedule, or one of them when there are two schedules, with failures of Postgres and crashes without bound; 2 contents, 3 visits of 2 jobs, 2 changes of the site, 1 fault: every pair of overlapping visits and one that follows; 4 paths, 3 queries, 3 ports, 2 extra slashes, every spelling also as a link on 4 pages: `urljoin` uses the page only for the spellings `Relative` names |
| `exactly_once`, `retry_dedup`, `republished`, `job_completes`, `job_finished` | statements of the docs that the code does not keep, see section 6 | the smallest instance that shows each |

`loops` and `stores` each check modules that share no state. A variable `focus`,
chosen initially, says which of them moves in a behaviour, so that TLC explores
one after the other and not their product; `LoopsFairness` states the fairness
of each component while it is the one that moves.

Symmetry is used in runs without liveness properties only: over consumers,
partitions and event ids in `ledger_safety`, crawlers and cleaners in
`shared_link` and `two_jobs`, schedules, requests and valid expressions in
`stores`, all of which the modules treat alike. The runs of `StageWorker` switch
deadlock checking off: publishes, crashes and free rebalances are bounded, so
the system stops when the bounds are used up. So do `loops` and `stores`, and
with an invalid enabled row the scheduler service really cannot start again. The
runs of `Pipeline` keep it on: `Wait` is allowed only when everything is quiet,
so a worker that is stuck anywhere else is a deadlock TLC reports.

Every property of a passing run has a mutant in PROJECT.json: a plausible bug in
one definition (a commit to the end of the log, a claim keyed without the stage,
a fresh id for `PageParsed`, ...) under which TLC finds the property violated.

## 4. Fairness

* `StageWorker`: weak fairness of each consumer's loop, and of the rebalance
  that gives a dead member's partitions to a live one (Kafka's coordinator does
  that after the session timeout). No fairness for publishing, crashing,
  restarting (docker-compose.yml states no restart policy for the workers) or
  free rebalances.
* `Pipeline`: weak fairness of each worker's steps and of a submission's, no
  fairness for crashes, redeliveries, faults or key expiry. A handler always
  comes back: fetches and downloads have timeouts, the retry delay is finite,
  and the limiter's wait is finite as long as its bucket refills. `Crash` frees
  the worker at once, which stands for a surviving member of the group.
* `RateLimiter`: weak fairness of time and of each caller inside `acquire` (its
  coroutine runs on when its sleep is over or Redis answers). No fairness for
  new calls or expiry. Calls are bounded: the code keeps no queue, and without
  an end of newcomers a waiter may be passed for ever.

## 5. The proofs

The proof modules assume nothing but the named assumptions on the constants.

### 5.1 StageWorkerProofs

For any sets of consumers, partitions and events and any bounds:

| Theorem | Says |
|---|---|
| `TypeCorrect` | `Spec => []TypeOK` |
| `EffectsAtMostOnce` | `Spec => []AtMostOnce` |
| `CommitsCoverSettled` | `Spec => []CommittedSettled` |
| `CommitsNeverGoBack` | `Spec => CommitsAdvance` |
| `LedgerImplementsEffectOnce` | with a ledger, `Spec => ImplementsEffectOnce` |
| `LossesNeedCrashes` | `Spec => []LossNeedsCrash` |

None of these invariants is inductive alone. Three strengthenings are proved in
turn, each assuming the ones before it:

* `ShapeInv`: types, offsets within the log, a hand that is empty exactly
  outside a message. It is what makes `EventOf(hand[c])` meaningful, and with
  `committed[p] <= position[p]` gives `CommitsNeverGoBack`.
* `LedgerInv`: with a ledger, a consumer in its handler holds a claimed event
  whose effects have not happened, and no two hold the same one. The claim's
  atomicity is used exactly here. It gives `EffectsAtMostOnce`, and with
  `HandlerIsUnique` each step of the refinement: `Handle` maps to `Apply`, a
  `Crash` in a handler to `Lose`, any other `Crash` to `FailIdle`.
* `SettleInv`: what a consumer is about to commit is settled (`ReadyToCommit`),
  and everything its partitions have handed out is settled or in its own hand
  (`GivenSettled`). This is why `commit()` without an offset is safe in this
  loop: at the commit the caller has one message in hand, that one is settled,
  and a partition it has just been assigned starts from the committed offset.
  It would not be with several messages in flight.

`LossesNeedCrashes` counts. `Lost`, the claimed events that were not applied and
are in nobody's handler, is finite and no larger than the number of failures
(`LossInv`). What each step does to it is read off the step of `EffectOnce` it
maps to, by the refinement just proved: only `Lose` adds an event, one, and it
counts a failure.

### 5.2 CronSchedulesProofs

For any sets of schedules, expressions and requests:

| Theorem | Says |
|---|---|
| `CronTypeCorrect` | `Spec => []TypeOK` of `CronSchedules`: entries are valid expressions, requests know what they work on |
| `EntriesFollow` | `Spec => []EntriesFollowRows` |
| `DisabledStaysQuiet` | `Spec => NoRunAfterDisable` |

`EntriesFollowRows` speaks of schedules at rest, so the invariant has to say
what a request leaves behind at each of its steps. `ScheduleInv(s)` does so for
one schedule, in two parts that do not depend on each other:

* `Alone`: a request that nothing has overlapped is the only one on `s` and
  knows the row as it is (`Knows`), whatever state it found. This is what lets
  it mend a schedule in doubt: what it then does to the entry, it does by the
  row.
* `Certain`: where there is no doubt, entry and row agree at rest, and any
  request under way is alone and `Ready`. A patch that changes nothing the
  scheduler looks at applies nothing, so its `Prepared` carries the agreement
  from the read to the end; after any other write they disagree until the
  request applies it or fails, and a failure is a doubt.

`Frame` shows a step on one schedule leaves the others' invariant alone;
`BeginInv`, `GoOnInv`, `FailInv` and `SuccessInv` reduce each action to the facts
it has to establish when it starts a request, moves it on, or ends it.

`DisabledStaysQuiet` has an invariant of its own, since a stopped schedule may be
in doubt. `StopInv(s)`: `s` has no entry, its row is not enabled, and every
request on it, however many there are, is `Harmless`: a delete, or a patch that
does not ask to enable and has not read an enabled row. `Alone` is used once,
where `stopped` becomes true: there is no other request on `s` at that step.

### 5.3 PipelineProofs

For any jobs, link graph, numbers of workers, limits of attempts and replays,
errors and faults:

| Theorem | Says |
|---|---|
| `PipelineTypes` | `Spec => []TypeOK` |
| `ArtifactsComeFirst` | `Spec => []ArtifactBeforeEvent` |
| `RowsComeFirst` | `Spec => []RowBeforeEvent` |
| `ClaimsInOrder` | `Spec => []ClaimsFollowPipeline` |
| `AttemptsEnd` | `Spec => []AttemptsBounded` |

These depend on each other: the cleaner claims after the parser because the
`PageParsed` it holds says so, and that event may have been rebuilt by retry
from an `UrlFailed`, or by dlq-replay from whatever is in the DLQ. So one
invariant, `IInv`, says what is true of an event wherever it is (`Good`): its
row and its artifact are there, its id has been claimed by the stages before
it, its attempt is within the limit, and an `UrlFailed` of a cleaner carries a
page that was parsed. `TopicsOK` says so of every waiting event, and which kinds
a topic has; `HandsOK` of every event in a worker's hand, with what the worker's
next step needs; `SubmitsOK` of a submission about to announce a URL; `LedgerOK`
is the order of the claims. TLC has checked `IInv` on the instances of
`one_url`, `shared_link` and `recrawl`.

The proof rests on what no step takes back (`Grows`): claims, objects and rows
only come. `GoodStays` carries an event over such a step, and a step then has to
show only that what it changes is good. `QueueKeeps` and `SubmitKeeps` give a link
and a seed their row before `LinkKeeps` and `SeedKeeps` announce them, which is
where the order of `queue_url` and publish counts.

### 5.4 PipelineFlowProofs and PipelineSettleProofs

`IInv` says what is true of an event. The other properties of `Pipeline` are
about who is working on what, and need to know of each step what it does not
do as well. The last part of `PipelineProofs` brings every action to a normal form
(`ClaimStep`, `PublishStep`, `FailStep`, ...: what becomes of each variable, a
task field by field), and `AllSteps` says that there is no other step. These two
modules start from there.

| Theorem | Says |
|---|---|
| `PipelineImplementsFlow` | `Spec => ImplementsCrawlFlow` |
| `KeysExclude` | `Spec /\ []Unforced => []FetchExclusion` |
| `FetchesExclude` | `Spec => []FetchExclusion` if `Incremental = {}` and `ReplaysAreStale` |
| `AnnouncesOnce` | `Spec => []AnnouncedOnce` |
| `OneRowLeftPerFault` | `Spec => []OneRowPerFault` |
| `CleanRunsIndex` | `Spec => []CleanRunIndexes` |

* The refinement needs one fact beside `IInv`, `JobsOK`: a job with a row has
  been created. A row comes of `queue_url`, whose job is that of a message with
  a row (`Good`) or of a submission past its first step.
* `XInv`: the URL of a crawler between dedup and the marking of its row has its
  key in Redis, so the `SET NX` of a second crawler fails. A forced message
  deletes the key and sets none; `Unforced` is the hypothesis that no crawler is
  about to treat its message as one. `FetchesExclude` shows that hypothesis to
  hold (`NoForce`) without incremental jobs if `MaxReplays = 0` or
  `WorkerMaxAttempts <= RetryMaxAttempts` (`ReplaysAreStale`; all services are
  given one `RETRY_MAX_ATTEMPTS`, docker-compose.yml:21). dlq-replay does force
  what it republishes. But what reaches the DLQ has then been claimed by the
  crawler, since the retry service gives up no failure the workers still
  publish, and the replay keeps the id: the crawler drops it as a duplicate. With
  a lower limit in the retry service the DLQ receives `UrlFailed`s under ids of
  their own, and their replays are taken up.
* `AnnouncesOnce` follows a message to its origin: `StepsMake` says that any new
  message is made of one in a stage's hand, of a failure, a replay, a link or a
  seed. Ids are numbered up to `minted` (`NumbersOK`), and from the step that adds
  a URL to `argus:seen` to its announcement one submission or crawler alone is on
  it and no id has been made (`PendingsOK`). `Replayed` in the property is not
  idle: a replayed `UrlFailed` of a first attempt returns as an `UrlDiscovered`
  of attempt 1 with the failure's id.
* A row that is queued or claimed is `Attended` when a submission or a crawler is
  about to announce it, a topic has its event or a crawler works on it.
  `FewNeglected`: the rows that are neither ended nor attended are finite and no
  more than the faults. Each step neglects no row, or one and counts a fault
  (`OneLeft`). Dropping a duplicate could neglect a row but for
  `ClaimsLeaveQueue`: once the crawler has claimed an id of a row, no later
  `queue_url` makes the row queued again.
* `CleanSoFar` is the chain of hand-overs: while nothing has failed, a row is
  about to be announced, in the topic, or claimed by the crawler; what the crawler
  has claimed is skipped, at work or handed on, and so to the index. No claim is
  without its worker, because in such a run no message comes back.

### 5.5 ContentHashProofs

For any contents, jobs and visits: `ContentTypeCorrect`, `HashRowsAgree`,
`TextMatchesChecksum`, `SkippedContentKept` and `VisitsSettle`, each
`ContentSpec => [](...)` of the property of `ContentHash` it is named after. The
invariant has a part for each: what a visit holds by the time it uses it
(`TInv`), that every hash stored anywhere has been committed (`KeptInv`), that
cleaners which have not crossed know the row as it is (`RowsInv`), that an object
not overwritten still holds what its parser is to read (`TextInv`). `SettledInv`,
for the last theorem, says of an undisturbed visit that it is the only one under
way and the cache holds the row's hash or nothing until `set_hash` is due
(`Quiet`), and what it has brought in line by then (`Alone`).

### 5.6 RateLimiterProofs

For any rate, burst, skew, lag, crawlers and calls: `LimiterTypeCorrect`
(`[]LimiterTypeOK`) and `PermitsAreBounded` (`[]PermitsBounded`). The invariant
is an account (`BudgetInv`): permits given since the window began, plus what is in
the bucket, are at most the burst and the rate times the time from the window's
start to the bucket's last update, and the lag. `BucketInv` says the key outlives
the time a refill takes by any caller's clock. `GraceAssumption` (the 60 seconds `EXPIRE` adds exceed lag
and skew) is what makes an expired bucket, which comes back full, one that would
have been full anyway; without it the bound does not hold.

### 5.7 UrlKeysProofs

For any names, paths and sorted queries, and any number of slashes: `UrlTyped`
(`[]UrlTypeOK`), `KeysNamePages` (`[]KeyNamesPage`) and `SeedsAgreeWithLinks`
(`[]SeedsAndLinksAgree`). The invariant, `Shape`, says what all spellings of a page
have in common. The rest is about the functions `normalize_url` is made of:

* `Stripped`: `StripSlashes` returns the path up to its last segment that is no
  slash. There is one (`EndExists`, by the least of a set of naturals) and no
  second (`EndUnique`).
* `SortedIsSorted`: a sorted query is returned as it is, although equal pairs
  leave the rearrangement open. `OneOrder` says so of any two sorted sequences
  of the same numbers: a lesser number at place `m` would leave too few places for
  the greater ones (`FS_PigeonHole`).
* `SeedsAgreeWithLinks` holds for links on any set of pages (`Bases`): `Joined`
  is the identity short of `Relative`, and the second normalization is left.
* `KeyAgain`: a key is normalized to itself but for its path. A path that is cut
  ends in a segment that only slashes followed, whose parameters `HiddenParams`
  excludes; one that is not cut has lost its parameters the first time.

### 5.8 Only model-checked

Every invariant and action property a passing run checks is stated by a theorem.
`FetchExclusion` with a retry limit below the workers' or with
incremental jobs is not claimed at all. Liveness (`Drained`, `Drains`, `Served`)
is beyond the prover. No module has a recursive definition.

## 6. Where code and documents differ

| Run | The document says | The code does |
|---|---|---|
| `exactly_once` | idempotency.py:11 "Ensures exactly-once side effects per (event_id, stage)." ARCHITECTURE.md:43 "message replayed" | claims first: after a crash in the handler the replayed message is a duplicate, its effects never happen |
| `retry_dedup` | CRAWL_ENGINE.md:33 "Published to retry -> DLQ after max attempts" | the retry meets its own dedup key and is skipped, for the TTL of the key |
| `republished` | ARCHITECTURE.md:46 "Retry replays `PageParsed` without re-crawl"; README.md:181 on dlq-replay | the replayed event keeps the id its stage has claimed and is skipped as a duplicate |
| `job_completes` | jobs.py:46 "Transition running jobs to completed when all URLs are terminal." | only a cleaner that succeeds refreshes the job |
| `job_finished` | the same, of the transition itself | the cleaner counts the rows, all terminal; the crawler of the page, which published it before following its links, commits the row of a link; the cleaner commits the job as completed, with a row that is queued |

More were met that no run shows. A parsed row may go back to fetched
(ARCHITECTURE.md:35 draws no such arrow). Normalizing "/a;v=1/" twice gives
another key than once, and "example.com/a" is a host as a seed and a path as a
link, so that such URLs are crawled under two keys. Two cleaners that cross
leave the hash of one visit beside the artifact and page of the other, and the
next crawl is judged by that hash. A disable that ends in an error after its
commit leaves the schedule running until the next good request or restart.
These are under `hazards`. Outside the models, messages reach the DLQ without
the counter that the `RetryDLQBacklog` alert watches, and `recent_jobs` of the
statistics (jobs.py:146) is always empty, for its result is consumed at line
135.

The passing properties are stated with this in mind. `OneRowPerFault` says what
the row accounting does achieve: a quiet system has no row queued or claimed
but one per fault. `CleanRunIndexes` looks for the page in the index rather than
at its row.

## 7. What is left

Not modelled, and why:

* Search API, `get_job_progress`, `list_jobs`, `get_expanded_stats`: read-only
  SQL. They take no step another part can see, and what they return is the
  database's work.
* Robots cache and proxy rotation: the crawler's model lets robots allow or
  refuse any fetch, which covers every cache content; a proxy changes no state.
* Extraction engine: pure functions over third-party parsers. Their results are
  the links and the text the models are given.
* Settings, factories and wiring: settings are the CONSTANTS, and construction
  has no behaviour of its own. Metrics, logs and traces affect nothing. The
  migrations create the tables whose unique keys the models rely on.
* Dashboard: a read-only user interface.
