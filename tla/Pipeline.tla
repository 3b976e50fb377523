------------------------------ MODULE Pipeline ------------------------------
(***************************************************************************)
(* The services of Argus running together: submissions, crawlers, parsers, *)
(* cleaners, the retry service and dlq-replay over the stores they share.  *)
(***************************************************************************)
EXTENDS ArgusState

Submission == INSTANCE Submission
Crawler == INSTANCE Crawler
Parser == INSTANCE Parser
Cleaner == INSTANCE Cleaner
Retry == INSTANCE Retry
DlqReplay == INSTANCE DlqReplay

Step(w) == \/ w \in Crawlers /\ Crawler!CrawlerStep(w)
           \/ w \in Parsers /\ Parser!ParserStep(w)
           \/ w \in Cleaners /\ Cleaner!CleanerStep(w)
           \/ w \in Retriers /\ Retry!RetryStep(w)
           \/ w \in Replayers /\ DlqReplay!ReplayStep(w)

Faults == \/ \E w \in Workers : Crash(w) \/ Redeliver(w)
          \/ \E w \in Crawlers : Crawler!LateFailure(w)
          \/ \E w \in Cleaners : Cleaner!SetHashFails(w)
          \/ \E w \in Replayers : DlqReplay!ReplayFails(w)
          \/ \E j \in Jobs : Submission!Abandon(j)

\* Nothing is waiting, nobody is working.
Quiet == /\ \A t \in Topics : topic[t] = {}
         /\ \A w \in Workers : IsIdle(w)
         /\ \A j \in Jobs : submit[j].pc = "closed"

\* The services go on waiting for work.
Wait == Quiet /\ UNCHANGED vars

Next == \/ \E j \in Jobs : Submission!SubmitStep(j)
        \/ \E w \in Workers : Step(w)
        \/ \E u \in Urls : Crawler!ExpireKey(u)
        \/ Faults
        \/ Wait

Spec == Init /\ [][Next]_vars

\* Every worker's loop runs on, as does a submission; a crashed worker's
\* successor takes over.  Errors, faults and expiries may happen or not.
Fairness == /\ \A j \in Jobs : WF_vars(Submission!SubmitStep(j))
            /\ \A w \in Workers : WF_vars(Step(w))
FairSpec == Spec /\ Fairness
-----------------------------------------------------------------------------
InHand == {task[w].msg : w \in {x \in Workers : ~IsIdle(x)}}
Waiting == UNION {topic[t] : t \in Topics}
Rows == {x \in Jobs \X Urls : row[x] # "none"}

TypeOK ==
  /\ DOMAIN topic = Topics /\ \A m \in Waiting : m \in Message
  /\ minted \in [Jobs \X Urls -> Nat]
  /\ \A l \in ledger : l[1] \in Jobs \X Urls \X Nat /\ l[2] \in Stages
  /\ row \in [Jobs \X Urls -> RowStatus \cup {"none"}]
  /\ job \in [Jobs -> {"none", "running", "completed"}]
  /\ indexed \in [Urls -> -1..MaxDepth]
  /\ stored \subseteq Jobs \X Urls /\ seen \subseteq Jobs \X Urls /\ dedup \subseteq Urls
  /\ \A r \in replays : r[1] \in Jobs \X Urls \X Nat /\ r[2] \in Nat
  /\ \A w \in Workers : /\ ~IsIdle(w) => task[w].msg \in Message
                        /\ task[w].links \subseteq Urls /\ task[w].cur \in Urls \cup {Nil}
  /\ \A j \in Jobs : submit[j].todo \subseteq Urls /\ submit[j].cur \in Urls \cup {Nil}
  /\ errors \in 0..MaxErrors /\ faults \in 0..MaxFaults

\* The parser never downloads an object that is not there: an HtmlFetched or a
\* PageParsed, however often it is delivered, retried or replayed, names an
\* artifact that has been uploaded.
ArtifactBeforeEvent ==
  \A m \in Waiting \cup InHand :
    m.kind \in {"HtmlFetched", "PageParsed"} => <<m.job, m.url>> \in stored

\* A URL is announced after its crawl_job_urls row exists: no worker falls
\* into transition's branch that makes up a row of depth 0.
RowBeforeEvent ==
  \A m \in Waiting \cup InHand : row[<<m.job, m.url>>] # "none"

\* An event id moves down the pipeline in order: no stage has claimed an id
\* that the stage before it has not (retries and replays included).
ClaimsFollowPipeline ==
  \A l \in ledger :
    /\ l[2] = "parser" => <<l[1], "crawler">> \in ledger
    /\ l[2] = "cleaner" => <<l[1], "parser">> \in ledger

\* A URL is announced for the first time once per job, by whichever seed or
\* page names it first: argus:seen makes two crawlers that find the same link
\* at the same moment queue it once.  Any later announcement is a retry, or
\* comes from the DLQ.
Replayed(id) == \E r \in replays : r[1] = id
AnnouncedOnce ==
  \A m \in Waiting \cup InHand :
    m.kind = "UrlDiscovered" /\ m.attempt = 1 => m.n = 1 \/ Replayed(IdOf(m))

\* Nobody works beyond the last attempt.
AttemptsBounded ==
  \A m \in Waiting \cup InHand : m.attempt <= WorkerMaxAttempts

\* Two crawlers never fetch the same URL at once, whatever jobs they serve,
\* unless a forced recrawl has been involved.
Fetching(w) == w \in Crawlers /\ task[w].pc \in {"fetch", "publish", "mark"}
FetchExclusion ==
  \A v, w \in Crawlers : v # w /\ Fetching(v) /\ Fetching(w) =>
    task[v].msg.url # task[w].msg.url

\* When all is quiet, every row has come to an end or at least to "fetched",
\* whatever fetches, extractions and upserts have failed, but for one row per
\* crash or infrastructure fault: no other path leaves a URL queued or claimed.
OneRowPerFault ==
  Quiet => Cardinality({x \in Rows : row[x] \in {"queued", "claimed"}}) <= faults

\* Without any failure at all every URL that was not skipped is in the index.
CleanRunIndexes ==
  Quiet /\ faults = 0 /\ errors = 0 =>
    \A x \in Rows : row[x] = "skipped" \/ indexed[x[2]] >= 0

\* Every message is worked off in the end, through retries and DLQ replays,
\* crashes and redeliveries.
Drains == <>[]Quiet

\* The pipeline keeps the promise of CrawlFlow: whatever is retried, replayed,
\* delivered again or lost, a page is indexed only from what was fetched for a
\* job it was announced to, and nothing of it is taken back.
Flow == INSTANCE CrawlFlow WITH
  status <- job, known <- Rows, fetched <- stored, index <- {u \in Urls : indexed[u] >= 0}
ImplementsCrawlFlow == Flow!Spec
-----------------------------------------------------------------------------
\* "HTTP 4xx/5xx: Published to retry -> DLQ after max attempts"
\* (docs/interview/CRAWL_ENGINE.md:33): the retry of a URL that no other job
\* crawls gets past the dedup key.
RetryPassesDedup ==
  \A w \in Crawlers : At(w, "dedup") /\ ~task[w].msg.force /\ task[w].msg.attempt > 1 =>
    task[w].msg.url \notin dedup

\* "Retry replays PageParsed without re-crawl" (docs/ARCHITECTURE.md:46), "the
\* dlq-replay service can recover them" (README.md:181): without redeliveries,
\* an event waiting for the crawler or the cleaner is one that stage will take,
\* so that what retry and dlq-replay republish is worked on.
RepublishedIsTaken ==
  faults = 0 =>
    /\ \A m \in topic["discovered"] : Claimable(m, "crawler")
    /\ \A m \in topic["parsed"] : Claimable(m, "cleaner")

\* "Transition running jobs to completed when all URLs are terminal."
\* (jobs.py:46): when all is quiet, a job whose rows are terminal is completed.
FinishedJobCompletes ==
  Quiet => \A j \in Jobs :
    (\E u \in Urls : <<j, u>> \in Rows) /\ (\A u \in Urls : <<j, u>> \in Rows => row[<<j, u>>] \in Terminal)
      => job[j] = "completed"

\* The same sentence of the transition itself: at the step that makes a job
\* completed, every row it then has is terminal.
CompletesWhenTerminal ==
  [][\A j \in Jobs : job[j] # "completed" /\ job'[j] = "completed" =>
       \A u \in Urls : row'[<<j, u>>] \in Terminal \cup {"none"}]_vars
=============================================================================
