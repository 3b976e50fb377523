----------------------------- MODULE ArgusState -----------------------------
(***************************************************************************)
(* The state the services of Argus share -- Kafka topics, Postgres tables, *)
(* Redis keys, MinIO objects -- and the operations on it that several of   *)
(* them use.  Each service has a module of its own that EXTENDS this one.  *)
(*                                                                         *)
(* A topic is the set of its messages not yet handed to a worker: several  *)
(* partitions and publishes without a key leave no order to rely on.  A    *)
(* worker takes one message at a time and commits it last; StageWorker     *)
(* models offsets and rebalances, here a crash or a rebalance puts the     *)
(* message in hand back into its topic.                                    *)
(***************************************************************************)
EXTENDS Integers, FiniteSets

CONSTANTS
  Jobs, Urls,
  Seeds,               \* Seeds[j]: the normalized seed URLs of job j
  Incremental,         \* the jobs submitted with incremental = true
  Links,               \* Links[u]: the in-domain links on page u
  MaxDepth,            \* max_depth of every job
  Crawlers, Parsers, Cleaners, Retriers, Replayers,   \* worker processes
  WorkerMaxAttempts,   \* RETRY_MAX_ATTEMPTS of crawler, parser and cleaner
  RetryMaxAttempts,    \* RETRY_MAX_ATTEMPTS of the retry service
  MaxReplays,          \* DLQ_MAX_REPLAYS
  Nil,                 \* no message, no URL
  MaxErrors,           \* bound: fetches, extractions and upserts that fail
  MaxFaults            \* bound: crashes, rebalances, broker or database errors

ASSUME SeedsAssumption == Seeds \in [Jobs -> SUBSET Urls]
ASSUME LinksAssumption == Links \in [Urls -> SUBSET Urls]
ASSUME IncrementalAssumption == Incremental \subseteq Jobs
ASSUME LimitsAssumption ==
  /\ MaxDepth \in Nat /\ MaxReplays \in Nat /\ MaxErrors \in Nat /\ MaxFaults \in Nat
  /\ WorkerMaxAttempts \in Nat \ {0} /\ RetryMaxAttempts \in Nat \ {0}
ASSUME WorkersAssumption ==
  /\ Crawlers \cap (Parsers \cup Cleaners \cup Retriers \cup Replayers) = {}
  /\ Parsers \cap (Cleaners \cup Retriers \cup Replayers) = {}
  /\ Cleaners \cap (Retriers \cup Replayers) = {}
  /\ Retriers \cap Replayers = {}

VARIABLES
  topic,     \* topic[t]: the messages of t waiting for a worker
  minted,    \* minted[<<j, u>>]: how many event ids exist for u in job j
  ledger,    \* processed_events: <<event id, stage>>
  row,       \* row[<<j, u>>]: crawl_job_urls.status, or "none"
  job,       \* job[j]: crawl_jobs.status, or "none"
  indexed,   \* indexed[u]: the depth in the urls table, or -1 if u is not there
  stored,    \* the MinIO objects <<job, url>>
  dedup,     \* the Redis keys argus:url:<hash>
  seen,      \* the Redis sets argus:seen:<job>, as <<job, url>>
  replays,   \* the Redis counters argus:dlq:replays:<event id>, as <<id, count>>
  task,      \* task[w]: what worker w is doing
  submit,    \* submit[j]: how far submit_job_internal is with job j
  errors, faults

kafka == <<topic, minted>>
postgres == <<ledger, row, job, indexed>>
redis == <<dedup, seen, replays>>
world == <<errors, faults>>
vars == <<kafka, postgres, stored, redis, task, submit, world>>
-----------------------------------------------------------------------------
Topics == {"discovered", "fetched", "parsed", "failed", "dlq"}
Stages == {"crawler", "parser", "cleaner"}
RowStatus == {"queued", "claimed", "fetched", "parsed", "skipped", "failed"}
Terminal == {"parsed", "skipped", "failed"}
Workers == Crawlers \cup Parsers \cup Cleaners \cup Retriers \cup Replayers

(* kind: the event's class.  An event id is <<job, url, n>>, the n-th made  *)
(* for that URL of that job.  page: in an UrlFailed of the cleaner, the n   *)
(* of the PageParsed it carries as page_payload, else 0.  A message of the  *)
(* DLQ is the payload of its envelope.                                      *)
Message == [kind : {"UrlDiscovered", "HtmlFetched", "PageParsed", "UrlFailed"},
            job : Jobs, url : Urls, n : Nat \ {0}, attempt : Nat \ {0},
            depth : 0..MaxDepth, force : BOOLEAN,
            stage : Stages \cup {Nil}, page : Nat]

IdOf(m) == <<m.job, m.url, m.n>>

NewId(j, u) == minted[<<j, u>>] + 1
Mint(j, u) == minted' = [minted EXCEPT ![<<j, u>>] = @ + 1]

\* UrlDiscovered(...) with a fresh event id.
Discovered(j, u, attempt, depth, force) ==
  [kind |-> "UrlDiscovered", job |-> j, url |-> u, n |-> NewId(j, u),
   attempt |-> attempt, depth |-> depth, force |-> force, stage |-> Nil, page |-> 0]

\* publish_event, publish_dlq
Publish(t, m) == topic' = [topic EXCEPT ![t] = @ \cup {m}]
-----------------------------------------------------------------------------
Holding(pc, m) == [pc |-> pc, msg |-> m, links |-> {}, cur |-> Nil]
Idle == Holding("idle", Nil)
IsIdle(w) == task[w] = Idle
At(w, pc) == task[w].pc = pc
Goto(w, pc) == task' = [task EXCEPT ![w].pc = pc]
Take(w, t, m, pc) ==
  /\ topic' = [topic EXCEPT ![t] = @ \ {m}]
  /\ task' = [task EXCEPT ![w] = Holding(pc, m)]

\* The topic whose messages worker w consumes.
Source(w) == CASE w \in Crawlers -> "discovered"
               [] w \in Parsers -> "fetched"
               [] w \in Cleaners -> "parsed"
               [] w \in Retriers -> "failed"
               [] w \in Replayers -> "dlq"

\* The cleaner's transaction holds the locks of the rows it has updated until
\* it commits.
RowLocked(j, u) == \E c \in Cleaners : /\ task[c].pc \in {"commit", "complete"}
                                       /\ task[c].msg.job = j /\ task[c].msg.url = u
UrlLocked(u) == \E c \in Cleaners : /\ task[c].pc \in {"commit", "complete"}
                                    /\ task[c].msg.url = u

\* CrawlProgressService.mark in a transaction of its own.
Mark(m, status) == /\ ~RowLocked(m.job, m.url)
                   /\ row' = [row EXCEPT ![<<m.job, m.url>>] = status]

\* ensure_queued: ON CONFLICT DO NOTHING.
SkipQueueUrl(j, u) == UNCHANGED row
QueueUrl(j, u) ==
  row' = [row EXCEPT ![<<j, u>>] = IF @ = "none" THEN "queued" ELSE @]

\* IdempotencyService.should_process
ClaimedByNoStage(m, stage) == \A s \in Stages : <<IdOf(m), s>> \notin ledger
Claimable(m, stage) == <<IdOf(m), stage>> \notin ledger

\* The handler of a worker returns early on a message whose id is claimed.
SkipWithoutCommit(w, stage, m) ==
  /\ IsIdle(w) /\ m \in topic[Source(w)] /\ ~Claimable(m, stage)
  /\ UNCHANGED vars
SkipDuplicate(w, stage, m) ==
  /\ IsIdle(w)
  /\ m \in topic[Source(w)]
  /\ ~Claimable(m, stage)
  /\ topic' = [topic EXCEPT ![Source(w)] = @ \ {m}]
  /\ UNCHANGED <<minted, postgres, stored, redis, task, submit, world>>

\* ExponentialBackoffRetry.decide; the delay is not modelled.
RetryOnceMore(attempt, max) == attempt <= max
ShouldRetry(attempt, max) == attempt < max

\* What a failing stage publishes: an UrlFailed with a fresh id, or, after the
\* last attempt, its own event to the DLQ.
Failure(m, stage, force) ==
  [kind |-> "UrlFailed", job |-> m.job, url |-> m.url, n |-> NewId(m.job, m.url),
   attempt |-> m.attempt, depth |-> m.depth, force |-> force, stage |-> stage,
   page |-> IF stage = "cleaner" THEN m.n ELSE 0]
Report(m, stage, force) ==
  IF ShouldRetry(m.attempt, WorkerMaxAttempts)
  THEN Publish("failed", Failure(m, stage, force)) /\ Mint(m.job, m.url)
  ELSE Publish("dlq", m) /\ UNCHANGED minted

\* commit_message, and the loop asks for the next message.
Ack(w) == /\ At(w, "ack")
          /\ task' = [task EXCEPT ![w] = Idle]
          /\ UNCHANGED <<kafka, postgres, stored, redis, submit, world>>

\* An operation the code expects to fail now and then.
Error == errors < MaxErrors /\ errors' = errors + 1 /\ UNCHANGED faults
\* A failure of the infrastructure.
Fault == faults < MaxFaults /\ faults' = faults + 1 /\ UNCHANGED errors

\* Worker w dies, or an exception outside its try block ends its loop: a
\* transaction it has open rolls back and its message is delivered again.
Crash(w) == /\ ~IsIdle(w)
            /\ Fault
            /\ Publish(Source(w), task[w].msg)
            /\ task' = [task EXCEPT ![w] = Idle]
            /\ UNCHANGED <<minted, postgres, stored, redis, submit>>

\* A rebalance gives the message to somebody else while w is working on it.
Redeliver(w) == /\ ~IsIdle(w)
                /\ Fault
                /\ Publish(Source(w), task[w].msg)
                /\ UNCHANGED <<minted, postgres, stored, redis, task, submit>>

Init ==
  /\ topic = [t \in Topics |-> {}]
  /\ minted = [x \in Jobs \X Urls |-> 0]
  /\ ledger = {}
  /\ row = [x \in Jobs \X Urls |-> "none"]
  /\ job = [j \in Jobs |-> "none"]
  /\ indexed = [u \in Urls |-> -1]
  /\ stored = {} /\ dedup = {} /\ seen = {} /\ replays = {}
  /\ task = [w \in Workers |-> Idle]
  /\ submit = [j \in Jobs |-> [pc |-> "new", todo |-> {}, cur |-> Nil]]
  /\ errors = 0 /\ faults = 0
=============================================================================
