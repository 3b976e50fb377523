------------------------ MODULE PipelineFlowProofs ------------------------
(***************************************************************************)
(* Pipeline keeps the promise of CrawlFlow: a proof of the refinement.     *)
(* Then two promises of Redis: a dedup key keeps two crawlers from one URL,*)
(* and argus:seen announces a URL to a job once.                           *)
(***************************************************************************)
EXTENDS PipelineProofs

\* A job is created before anything of it happens: by its submission's first
\* step, and before any of its rows.
JobsOK == /\ \A j \in Jobs : job[j] = "none" <=> submit[j].pc = "new"
          /\ \A x \in Rows : job[x[1]] # "none"

FlowStep == [Flow!Next]_Flow!flowVars

\* A step of the pipeline that CrawlFlow does not see.
LEMMA Unseen ==
  ASSUME JobsOK, Rows' = Rows, UNCHANGED <<job, stored, indexed>>,
         \A j \in Jobs : submit'[j].pc = "new" <=> submit[j].pc = "new"
  PROVE  JobsOK' /\ FlowStep
<1>1. UNCHANGED Flow!flowVars
  BY DEF Flow!flowVars
<1> QED
  BY <1>1 DEF JobsOK, FlowStep

\* A row that is there is marked, and no row comes or goes.
LEMMA MarksKeepRows ==
  ASSUME IInv, NEW m, Good(m), NEW s \in RowStatus, SetsRow(m, s)
  PROVE  Rows' = Rows
<1>1. /\ RowOf(m) \in Jobs \X Urls /\ row[RowOf(m)] # "none" /\ s # "none"
      /\ row \in [Jobs \X Urls -> RowStatus \cup {"none"}]
  BY DEF IInv, StoresOK, Good, Message, RowOf, RowStatus
<1> QED
  BY <1>1 DEF SetsRow, Rows

\* The queueing of a URL is its announcement.
LEMMA QueuesAnnounce ==
  ASSUME IInv, JobsOK, NEW j \in Jobs, NEW u \in Urls, QueueUrl(j, u), job[j] # "none",
         UNCHANGED <<job, stored, indexed>>,
         \A i \in Jobs : submit'[i].pc = "new" <=> submit[i].pc = "new"
  PROVE  JobsOK' /\ FlowStep
<1>1. Rows' = Rows \cup {<<j, u>>}
  <2>1. row \in [Jobs \X Urls -> RowStatus \cup {"none"}] /\ <<j, u>> \in Jobs \X Urls
    BY DEF IInv, StoresOK
  <2>2. row' = [row EXCEPT ![<<j, u>>] = IF row[<<j, u>>] = "none" THEN "queued"
                                         ELSE row[<<j, u>>]]
    BY DEF QueueUrl
  <2> QED
    BY <2>1, <2>2 DEF Rows
<1>2. Flow!Announce(j, u)
  BY <1>1 DEF Flow!Announce
<1>3. JobsOK'
  <2>1. ASSUME NEW x \in Rows' PROVE job'[x[1]] # "none"
    BY <1>1, <2>1 DEF JobsOK
  <2> QED
    BY <2>1 DEF JobsOK
<1> QED
  BY <1>2, <1>3 DEF FlowStep, Flow!Next

\* A message in order has its job created.
LEMMA GoodJob ==
  ASSUME JobsOK, NEW m, Good(m)
  PROVE  m.job \in Jobs /\ m.url \in Urls /\ RowOf(m) \in Rows /\ job[m.job] # "none"
<1>1. m.job \in Jobs /\ m.url \in Urls /\ RowOf(m) \in Rows
  BY DEF Good, Message, RowOf, Rows
<1> QED
  BY <1>1 DEF JobsOK, RowOf

\* What a busy worker holds, seen from its place.
LEMMA BusyJob ==
  ASSUME IInv, JobsOK, NEW w \in Workers, task[w].pc # "idle"
  PROVE  /\ Good(task[w].msg) /\ task[w].msg.job \in Jobs /\ task[w].msg.url \in Urls
         /\ RowOf(task[w].msg) \in Rows /\ job[task[w].msg.job] # "none"
<1>1. Good(task[w].msg)
  BY Busy
<1> QED
  BY <1>1, GoodJob

\* A crawler's steps: its upload is the fetch, its queueing an announcement.
LEMMA CrawlerFlows ==
  ASSUME IInv, JobsOK, NEW w \in Crawlers, CrawlerDoes(w)
  PROVE  JobsOK' /\ FlowStep
<1>0. w \in Workers
  BY DEF Workers
<1>1. ASSUME NEW m, ClaimStep(w, "discovered", m, "crawler", "dedup"), SetsRow(m, "claimed")
      PROVE  JobsOK' /\ FlowStep
  <2>1. Good(m) /\ "claimed" \in RowStatus
    BY <1>1 DEF ClaimStep, IInv, TopicsOK, Topics, RowStatus
  <2>2. Rows' = Rows
    BY <1>1, <2>1, MarksKeepRows
  <2> QED
    BY <1>1, <2>2, Unseen DEF ClaimStep
<1>2. CASE SkipStep(w) \/ MarkStep(w) \/ FailStep(w)
  <2>1. /\ task[w].pc # "idle" /\ UNCHANGED <<job, stored, indexed, submit>>
        /\ \E s \in RowStatus : SetsRow(task[w].msg, s)
    BY <1>2 DEF SkipStep, MarkStep, FailStep, RowStatus
  <2>2. Rows' = Rows
    BY <1>0, <2>1, BusyJob, MarksKeepRows
  <2> QED
    BY <2>1, <2>2, Unseen
<1>3. CASE FetchStep(w)
  <2>1. task[w].pc # "idle" /\ UNCHANGED <<job, row, indexed, submit>>
    BY <1>3 DEF FetchStep
  <2>2. Flow!Fetch(task[w].msg.job, task[w].msg.url)
    BY <1>0, <1>3, <2>1, BusyJob DEF FetchStep, RowOf, Flow!Fetch, Rows
  <2>3. JobsOK'
    BY <2>1 DEF JobsOK, Rows
  <2> QED
    BY <1>0, <2>1, <2>2, <2>3, BusyJob DEF FlowStep, Flow!Next
<1>4. CASE QueueLinkStep(w)
  <2>1. /\ task[w].pc = "queue" /\ QueueUrl(task[w].msg.job, task[w].cur)
        /\ UNCHANGED <<job, stored, indexed, submit>>
    BY <1>4 DEF QueueLinkStep
  <2>2. task[w] # Idle /\ HandOK(w)
    BY <1>0, <2>1 DEF IInv, HandsOK, Idle, Holding
  <2>3. task[w].cur \in Urls
    BY <2>1, <2>2 DEF HandOK
  <2> QED
    BY <1>0, <2>1, <2>3, BusyJob, QueuesAnnounce
<1>5. ASSUME UNCHANGED <<row, job, stored, indexed, submit>>
      PROVE  JobsOK' /\ FlowStep
  BY <1>5, Unseen DEF Rows
<1> QED
  BY <1>1, <1>2, <1>3, <1>4, <1>5 DEF CrawlerDoes, DropStep, KeyStep, PublishStep, SeeLinkStep,
     PublishLinkStep, QuietStep, ReportStep, AckStep

\* A cleaner's steps: its commit is the indexing.
LEMMA CleanerFlows ==
  ASSUME IInv, JobsOK, NEW w \in Cleaners, CleanerDoes(w)
  PROVE  JobsOK' /\ FlowStep
<1>0. w \in Workers
  BY DEF Workers
<1>1. CASE CommitStep(w)
  <2>1. PICK m : m = task[w].msg
    OBVIOUS
  <2>2. /\ task[w].pc # "idle" /\ SetsRow(m, "parsed") /\ UNCHANGED <<stored, submit>>
        /\ indexed' = [indexed EXCEPT ![m.url] = IF @ = -1 THEN m.depth ELSE @]
        /\ job' = job \/ job' = [job EXCEPT ![m.job] = "completed"]
    BY <1>1, <2>1 DEF CommitStep
  <2>3. /\ Good(m) /\ m.kind = "PageParsed" /\ m.job \in Jobs /\ m.url \in Urls
        /\ job[m.job] # "none" /\ m.depth \in Nat
    BY <1>0, <2>1, <2>2, BusyJob, Busy, LimitsAssumption DEF Message
  <2>4. <<m.job, m.url>> \in stored
    BY <2>3 DEF Good
  <2>5. Rows' = Rows
    BY <2>2, <2>3, MarksKeepRows DEF RowStatus
  <2>6. {u \in Urls : indexed'[u] >= 0} = {u \in Urls : indexed[u] >= 0} \cup {m.url}
    <3>1. indexed \in [Urls -> -1..MaxDepth] /\ MaxDepth \in Nat
      BY LimitsAssumption DEF IInv, StoresOK
    <3>2. \A u \in Urls : indexed[u] \in Int /\ indexed[u] >= -1
      BY <3>1
    <3>3. \A u \in Urls : indexed'[u] = IF u = m.url /\ indexed[u] = -1 THEN m.depth ELSE indexed[u]
      BY <2>2, <2>3, <3>1
    <3> QED
      BY <2>3, <3>2, <3>3
  <2>7. Flow!Index(m.job, m.url)
    BY <2>2, <2>4, <2>5, <2>6 DEF Flow!Index
  <2>8. JobsOK'
    <3>1. job \in [Jobs -> {"none", "running", "completed"}]
      BY DEF IInv, StoresOK
    <3>2. \A j \in Jobs : job'[j] = "none" <=> job[j] = "none"
      BY <2>2, <2>3, <3>1
    <3>3. Rows \subseteq Jobs \X Urls
      BY DEF Rows
    <3>4. \A x \in Rows : x[1] \in Jobs
      BY <3>3
    <3> QED
      BY <2>2, <2>5, <3>2, <3>4 DEF JobsOK
  <2> QED
    BY <2>3, <2>7, <2>8 DEF FlowStep, Flow!Next
<1>2. CASE FailStep(w)
  <2>1. /\ task[w].pc # "idle" /\ UNCHANGED <<job, stored, indexed, submit>>
        /\ SetsRow(task[w].msg, "failed") /\ "failed" \in RowStatus
    BY <1>2 DEF FailStep, RowStatus
  <2>2. Rows' = Rows
    BY <1>0, <2>1, BusyJob, MarksKeepRows
  <2> QED
    BY <2>1, <2>2, Unseen
<1>3. ASSUME UNCHANGED <<row, job, stored, indexed, submit>>
      PROVE  JobsOK' /\ FlowStep
  BY <1>3, Unseen DEF Rows
<1> QED
  BY <1>1, <1>2, <1>3 DEF CleanerDoes, ClaimStep, DropStep, QuietStep, ReportStep, AckStep

\* A submission's steps: it creates the job, then announces its seeds.
LEMMA SubmitFlows ==
  ASSUME IInv, JobsOK, NEW j \in Jobs, SubmitDoes(j)
  PROVE  JobsOK' /\ FlowStep
<1>1. CASE CreateStep(j)
  <2>1. /\ job[j] = "none" /\ job' = [job EXCEPT ![j] = "running"]
        /\ UNCHANGED <<row, stored, indexed>>
        /\ submit'[j].pc # "new" /\ \A i \in Jobs \ {j} : submit'[i] = submit[i]
    BY <1>1 DEF CreateStep, JobsOK, SubmitGets
  <2>2. Rows' = Rows /\ Rows \subseteq Jobs \X Urls
    BY <2>1 DEF Rows
  <2>3. Flow!Create(j)
    BY <2>1, <2>2 DEF Flow!Create
  <2>4. JobsOK'
    <3>1. job \in [Jobs -> {"none", "running", "completed"}]
      BY DEF IInv, StoresOK
    <3>2. \A x \in Rows : x[1] \in Jobs
      BY <2>2
    <3> QED
      BY <2>1, <2>2, <3>1, <3>2 DEF JobsOK
  <2> QED
    BY <2>3, <2>4 DEF FlowStep, Flow!Next
<1>2. CASE QueueSeedStep(j)
  <2>1. /\ submit[j].pc = "queue" /\ QueueUrl(j, submit[j].cur)
        /\ UNCHANGED <<job, stored, indexed>>
        /\ \A i \in Jobs : submit'[i].pc = "new" <=> submit[i].pc = "new"
    BY <1>2 DEF QueueSeedStep, SubmitGets
  <2>2. submit[j].cur \in Urls /\ job[j] # "none"
    BY <2>1 DEF IInv, SubmitsOK, SubmitOK, JobsOK
  <2> QED
    BY <2>1, <2>2, QueuesAnnounce
<1>3. ASSUME UNCHANGED <<row, job, stored, indexed>>,
             \A i \in Jobs : submit'[i].pc = "new" <=> submit[i].pc = "new"
      PROVE  JobsOK' /\ FlowStep
  BY <1>3, Unseen DEF Rows
<1> QED
  BY <1>1, <1>2, <1>3 DEF SubmitDoes, RestStep, SeeSeedStep, PublishSeedStep, AbandonStep,
     SubmitGets

\* Every step is one of CrawlFlow's or none.
LEMMA StepsFlow ==
  ASSUME IInv, JobsOK, [Next]_vars
  PROVE  JobsOK' /\ FlowStep
<1>1. ASSUME UNCHANGED <<row, job, stored, indexed, submit>>
      PROVE  JobsOK' /\ FlowStep
  BY <1>1, Unseen DEF Rows
<1>2. CASE \/ \E w \in Parsers : ParserDoes(w)
           \/ \E w \in Retriers : RetryDoes(w)
           \/ \E w \in Replayers : ReplayDoes(w)
           \/ \E w \in Workers : CrashStep(w) \/ RedeliverStep(w)
           \/ \E u \in Urls : ExpireStep(u)
           \/ UNCHANGED vars
  <2>1. UNCHANGED <<row, job, stored, indexed, submit>>
    BY <1>2 DEF ParserDoes, RetryDoes, ReplayDoes, CrashStep, RedeliverStep, ExpireStep,
       ClaimStep, DropStep, PublishStep, ReportStep, AckStep, RetryStep, CountStep, QuietStep,
       vars, postgres
  <2> QED
    BY <1>1, <2>1
<1> QED
  BY <1>2, AllSteps, CrawlerFlows, CleanerFlows, SubmitFlows DEF SystemDoes

\* Whatever is retried, replayed, delivered again or lost, the pipeline is an
\* implementation of CrawlFlow.
THEOREM PipelineImplementsFlow == Spec => ImplementsCrawlFlow
<1>1. Init => JobsOK /\ Flow!Init
  <2> SUFFICES ASSUME Init PROVE JobsOK /\ Flow!Init
    OBVIOUS
  <2>1. Rows = {} /\ {u \in Urls : indexed[u] >= 0} = {}
    BY DEF Init, Rows
  <2> QED
    BY <2>1 DEF Init, JobsOK, Flow!Init
<1>2. IInv /\ JobsOK /\ [Next]_vars => JobsOK' /\ FlowStep
  BY StepsFlow
<1> QED
  BY <1>1, <1>2, PipelineCorrect, PTL DEF Spec, ImplementsCrawlFlow, Flow!Spec, FlowStep
-----------------------------------------------------------------------------
\* No crawler is about to treat its message as a forced recrawl.
Unforced == \A w \in Crawlers : task[w].pc = "dedup" => ~task[w].msg.force

\* A crawler at work on a page has the dedup key of its URL, and no other
\* crawler is at work on it.
KeysHeld == \A w \in Crawlers : Fetching(w) => task[w].msg.url \in dedup
XInv == KeysHeld /\ FetchExclusion

\* Who is not at work on a page does not become so, and no key is lost.
LEMMA FetchersStay ==
  ASSUME XInv, dedup \subseteq dedup',
         \A v \in Crawlers : Fetching(v)' => Fetching(v) /\ task'[v].msg = task[v].msg
  PROVE  XInv'
<1>1. KeysHeld'
  BY DEF XInv, KeysHeld
<1>2. FetchExclusion'
  BY DEF XInv, FetchExclusion
<1> QED
  BY <1>1, <1>2 DEF XInv

\* The steps of crawlers.
LEMMA CrawlersExclude ==
  ASSUME XInv, Unforced, NEW w \in Crawlers, CrawlerDoes(w)
  PROVE  XInv'
<1>0. Crawlers \subseteq Workers
  BY DEF Workers
<1>1. CASE KeyStep(w)
  <2>1. /\ task[w].pc = "dedup" /\ task'[w].pc = "fetch" /\ task'[w].msg = task[w].msg
        /\ \A v \in Crawlers \ {w} : task'[v] = task[v]
        /\ task[w].msg.url \notin dedup /\ dedup' = dedup \cup {task[w].msg.url}
    BY <1>0, <1>1 DEF KeyStep, Goes, Gets, Others, Unforced
  <2>2. \A v \in Crawlers \ {w} : /\ Fetching(v)' <=> Fetching(v)
                                  /\ Fetching(v) => task[v].msg.url # task[w].msg.url
    BY <2>1 DEF XInv, KeysHeld, Fetching
  <2>3. KeysHeld'
    <3>1. ASSUME NEW v \in Crawlers, Fetching(v)' PROVE (task[v].msg.url \in dedup)'
      BY <2>1, <2>2, <3>1 DEF XInv, KeysHeld
    <3> QED
      BY <3>1 DEF KeysHeld
  <2>4. FetchExclusion'
    <3>1. ASSUME NEW u \in Crawlers, NEW v \in Crawlers, u # v, Fetching(u)', Fetching(v)'
          PROVE  (task[u].msg.url # task[v].msg.url)'
      BY <2>1, <2>2, <3>1 DEF XInv, FetchExclusion
    <3> QED
      BY <3>1 DEF FetchExclusion
  <2> QED
    BY <2>3, <2>4 DEF XInv
<1>2. ASSUME UNCHANGED dedup, UNCHANGED task \/ Others(w),
             Fetching(w)' => Fetching(w) /\ task'[w].msg = task[w].msg
      PROVE  XInv'
  <2>1. \A v \in Crawlers \ {w} : task'[v] = task[v]
    BY <1>0, <1>2 DEF Others
  <2>2. \A v \in Crawlers : Fetching(v)' => Fetching(v) /\ task'[v].msg = task[v].msg
    BY <1>2, <2>1 DEF Fetching
  <2> QED
    BY <1>2, <2>2, FetchersStay
<1>3. ASSUME NEW m, ClaimStep(w, "discovered", m, "crawler", "dedup")
      PROVE  XInv'
  BY <1>2, <1>3 DEF ClaimStep, Holds, Holding, Fetching
<1>4. ASSUME NEW m, DropStep("discovered", m, "crawler")
      PROVE  XInv'
  BY <1>2, <1>4 DEF DropStep, Fetching
<1>5. CASE AckStep(w)
  BY <1>2, <1>5 DEF AckStep, Rests, Idle, Holding, Fetching
<1>6. CASE \/ SkipStep(w) \/ FetchStep(w) \/ MarkStep(w) \/ QueueLinkStep(w)
           \/ PublishLinkStep(w) \/ QuietStep(w) \/ FailStep(w) \/ ReportStep(w, "crawler")
           \/ PublishStep(w, "publish", "mark", "fetched", Crawler!HtmlFetched(task[w].msg))
           \/ \E u \in Urls : SeeLinkStep(w, u)
  <2>1. UNCHANGED dedup /\ Others(w) /\ task'[w].msg = task[w].msg
    BY <1>6 DEF SkipStep, FetchStep, MarkStep, QueueLinkStep, PublishLinkStep, QuietStep,
       FailStep, ReportStep, PublishStep, SeeLinkStep, Goes, Gets
  <2>2. task'[w].pc \in {"fetch", "publish", "mark"} => task[w].pc \in {"fetch", "publish"}
    BY <1>6 DEF SkipStep, FetchStep, MarkStep, QueueLinkStep, PublishLinkStep, QuietStep,
       FailStep, ReportStep, PublishStep, SeeLinkStep, Goes, Gets
  <2> QED
    BY <1>2, <2>1, <2>2 DEF Fetching
<1> QED
  BY <1>1, <1>3, <1>4, <1>5, <1>6 DEF CrawlerDoes

\* All the steps.
LEMMA StepsExclude ==
  ASSUME IInv, XInv, Unforced, [Next]_vars
  PROVE  XInv'
<1>0. /\ Crawlers \subseteq Workers
      /\ \A w \in Parsers \cup Cleaners \cup Retriers \cup Replayers : w \notin Crawlers
  BY WorkersAssumption DEF Workers
<1>1. ASSUME NEW w \in Workers \ Crawlers, UNCHANGED dedup, UNCHANGED task \/ Others(w)
      PROVE  XInv'
  <2>1. \A v \in Crawlers : task'[v] = task[v]
    BY <1>0, <1>1 DEF Others
  <2>2. \A v \in Crawlers : Fetching(v)' => Fetching(v) /\ task'[v].msg = task[v].msg
    BY <2>1 DEF Fetching
  <2> QED
    BY <1>1, <2>2, FetchersStay
<1>2. CASE \E w \in Parsers : ParserDoes(w)
  <2>1. PICK w \in Parsers : ParserDoes(w)
    BY <1>2
  <2>2. UNCHANGED dedup /\ (UNCHANGED task \/ Others(w))
    BY <2>1 DEF ParserDoes, ClaimStep, DropStep, PublishStep, ReportStep, AckStep, Holds, Rests,
       Goes, Gets
  <2> QED
    BY <1>0, <1>1, <2>2 DEF Workers
<1>3. CASE \E w \in Cleaners : CleanerDoes(w)
  <2>1. PICK w \in Cleaners : CleanerDoes(w)
    BY <1>3
  <2>2. UNCHANGED dedup /\ (UNCHANGED task \/ Others(w))
    BY <2>1 DEF CleanerDoes, ClaimStep, DropStep, CommitStep, QuietStep, FailStep, ReportStep,
       AckStep, Holds, Rests, Goes, Gets
  <2> QED
    BY <1>0, <1>1, <2>2 DEF Workers
<1>4. CASE \/ \E w \in Retriers : RetryDoes(w)
           \/ \E w \in Replayers : ReplayDoes(w)
  <2>1. PICK w \in Retriers \cup Replayers : RetryDoes(w) \/ ReplayDoes(w)
    BY <1>4
  <2>2. UNCHANGED dedup /\ Others(w)
    BY <2>1 DEF RetryDoes, ReplayDoes, RetryStep, CountStep, PublishStep, QuietStep, AckStep,
       Holds, Rests, Goes, Gets
  <2> QED
    BY <1>0, <1>1, <2>2 DEF Workers
<1>5. CASE \E j \in Jobs : SubmitDoes(j)
  <2>1. UNCHANGED <<dedup, task>>
    BY <1>5 DEF SubmitDoes, CreateStep, RestStep, SeeSeedStep, QueueSeedStep, PublishSeedStep,
       AbandonStep
  <2> QED
    BY <2>1, FetchersStay DEF Fetching
<1>6. ASSUME NEW w \in Workers, CrashStep(w) \/ RedeliverStep(w)
      PROVE  XInv'
  <2>1. UNCHANGED dedup /\ \A v \in Crawlers : task'[v] = task[v] \/ task'[v] = Idle
    BY <1>0, <1>6 DEF CrashStep, RedeliverStep, Rests, Others
  <2>2. \A v \in Crawlers : Fetching(v)' => Fetching(v) /\ task'[v].msg = task[v].msg
    BY <2>1 DEF Fetching, Idle, Holding
  <2> QED
    BY <2>1, <2>2, FetchersStay
<1>7. ASSUME NEW u \in Urls, ExpireStep(u)
      PROVE  XInv'
  <2>1. \A v \in Crawlers : Fetching(v) => task[v].msg.url # u
    BY <1>7 DEF ExpireStep, Fetching, Idle, Holding
  <2> QED
    BY <1>7, <2>1 DEF ExpireStep, XInv, KeysHeld, FetchExclusion, Fetching
<1>8. CASE UNCHANGED vars
  BY <1>8, FetchersStay DEF vars, redis, Fetching
<1> QED
  BY <1>2, <1>3, <1>4, <1>5, <1>6, <1>7, <1>8, AllSteps, CrawlersExclude DEF SystemDoes

\* As long as no crawler works off a forced message, at most one of them is
\* at work on a URL, whatever jobs ask for it.
THEOREM KeysExclude == Spec /\ []Unforced => []FetchExclusion
<1>1. Init => XInv
  BY DEF Init, XInv, KeysHeld, FetchExclusion, Fetching, Idle, Holding, Workers
<1>2. IInv /\ XInv /\ Unforced /\ [Next]_vars => XInv'
  BY StepsExclude
<1>3. XInv => FetchExclusion
  BY DEF XInv
<1> QED
  BY <1>1, <1>2, <1>3, PipelineCorrect, PTL DEF Spec
-----------------------------------------------------------------------------
\* Where messages come from: each is made of one that is there, of a link or
\* of a seed.
Present == Waiting \cup InHand
MintsFor(x) == minted' = [minted EXCEPT ![x] = @ + 1]
MadeOf(m, x) ==
  \/ x = Crawler!HtmlFetched(m) \/ x = Parser!PageParsed(m)
  \/ /\ \E stage \in Stages, force \in {FALSE, m.force} : x = Failure(m, stage, force)
     /\ MintsFor(RowOf(m))
  \/ m.kind = "UrlFailed" /\ m.stage = "cleaner" /\ x = Retry!ReplayedPage(m)
  \/ x = Discovered(m.job, m.url, m.attempt + 1, m.depth, m.force) /\ MintsFor(RowOf(m))
MadeOfReplay(w, x) == task[w].pc = "replay" /\ x = DlqReplay!ReplayedUrl(task[w].msg)
MadeOfLink(w, x) ==
  /\ task[w].pc = "publink" /\ MintsFor(<<task[w].msg.job, task[w].cur>>)
  /\ x = Discovered(task[w].msg.job, task[w].cur, 1, task[w].msg.depth + 1, FALSE)
MadeOfSeed(j, x) ==
  /\ submit[j].pc = "publish" /\ MintsFor(<<j, submit[j].cur>>)
  /\ \E depth : x = Discovered(j, submit[j].cur, 1, depth, j \in Incremental)
\* Messages are made of what a crawler, parser or cleaner has in hand and of
\* failures.
StageWorkers == Crawlers \cup Parsers \cup Cleaners
InStage(m) == \E w \in StageWorkers : task[w] # Idle /\ task[w].msg = m
Maker(m) == InStage(m) \/ m \in topic["failed"]
Made(x) == \/ \E m \in Present : Maker(m) /\ MadeOf(m, x)
           \/ \E w \in Replayers : MadeOfReplay(w, x)
           \/ \E w \in Crawlers : MadeOfLink(w, x)
           \/ \E j \in Jobs : MadeOfSeed(j, x)

\* What is there, after topics and hands have changed.
LEMMA PresentNow ==
  ASSUME IInv, NEW S, \A t \in Topics : \A m \in topic'[t] : m \in topic[t] \/ m \in S,
         \A w \in Workers : task'[w] # Idle => task'[w].msg \in Present
  PROVE  Present' \subseteq Present \cup S
<1>1. ASSUME NEW m \in Waiting' PROVE m \in Present \cup S
  BY <1>1 DEF Present, Waiting
<1>2. ASSUME NEW m \in InHand' PROVE m \in Present \cup S
  BY <1>2 DEF InHand, IsIdle
<1> QED
  BY <1>1, <1>2 DEF Present

\* Messages that stay in hand or wait.
LEMMA PresentHand ==
  ASSUME NEW w \in Workers, task[w].pc # "idle"
  PROVE  task[w].msg \in Present
  BY DEF Present, InHand, IsIdle, Idle, Holding
LEMMA PresentTopic ==
  ASSUME NEW t \in Topics, NEW m \in topic[t]
  PROVE  m \in Present
  BY DEF Present, Waiting

\* A worker that goes on with its message and publishes x, or nothing.
LEMMA WorkerAdds ==
  ASSUME IInv, NEW w \in Workers, task[w].pc # "idle", NEW x, Others(w),
         task'[w].msg = task[w].msg, UNCHANGED topic \/ \E t \in Topics : Adds(t, x)
  PROVE  Present' \subseteq Present \cup {x}
<1>1. \A t \in Topics : \A m \in topic'[t] : m \in topic[t] \/ m \in {x}
  BY DEF Adds, IInv, TopicsOK
<1>2. ASSUME NEW v \in Workers, task'[v] # Idle PROVE task'[v].msg \in Present
  <2>1. CASE v = w
    BY <2>1, PresentHand
  <2>2. CASE v # w
    BY <1>2, <2>2 DEF Others, Present, InHand, IsIdle
  <2> QED
    BY <2>1, <2>2
<1> QED
  BY <1>1, <1>2, PresentNow

\* A worker that takes m off its topic and publishes nothing.
LEMMA WorkerTakes ==
  ASSUME IInv, NEW w \in Workers, NEW t \in Topics, NEW m \in topic[t], NEW pc, Removes(t, m),
         Holds(w, pc, m)
  PROVE  Present' \subseteq Present
<1>1. \A y \in Topics : \A x \in topic'[y] : x \in topic[y] \/ x \in {}
  BY DEF Removes, IInv, TopicsOK
<1>2. ASSUME NEW v \in Workers, task'[v] # Idle PROVE task'[v].msg \in Present
  <2>1. CASE v = w
    BY <2>1, PresentTopic DEF Holds, Holding
  <2>2. CASE v # w
    BY <1>2, <2>2 DEF Holds, Others, Present, InHand, IsIdle
  <2> QED
    BY <2>1, <2>2
<1>3. Present' \subseteq Present \cup {}
  BY <1>1, <1>2, PresentNow
<1> QED
  BY <1>3

\* Messages go and none come.
LEMMA OnlyGo ==
  ASSUME IInv, \A t \in Topics : topic'[t] \subseteq topic[t],
         \A w \in Workers : task'[w] = Idle \/ task'[w] = task[w]
  PROVE  Present' \subseteq Present
<1>1. \A t \in Topics : \A x \in topic'[t] : x \in topic[t] \/ x \in {}
  OBVIOUS
<1>2. ASSUME NEW v \in Workers, task'[v] # Idle PROVE task'[v].msg \in Present
  BY <1>2 DEF Present, InHand, IsIdle
<1>3. Present' \subseteq Present \cup {}
  BY <1>1, <1>2, PresentNow
<1> QED
  BY <1>3

LEMMA MakerHand ==
  ASSUME NEW w \in StageWorkers, task[w].pc # "idle"
  PROVE  task[w].msg \in Present /\ Maker(task[w].msg)
  BY PresentHand DEF StageWorkers, Workers, Maker, InStage, Idle, Holding

AllMade == \A x \in Present' : x \in Present \/ Made(x)

\* A reported failure is made of the message in hand.
LEMMA ReportsMake ==
  ASSUME IInv, NEW w \in StageWorkers, NEW stage \in Stages, ReportStep(w, stage)
  PROVE  AllMade
<1>0. w \in Workers
  BY DEF StageWorkers, Workers
<1>1. PICK m : m = task[w].msg
  OBVIOUS
<1>2. task[w].pc # "idle" /\ Others(w) /\ task'[w].msg = m /\ m \in Present /\ Maker(m)
  BY <1>1, MakerHand DEF ReportStep, Goes, Gets
<1>3. CASE Adds("dlq", m)
  BY <1>0, <1>1, <1>2, <1>3, WorkerAdds DEF AllMade, Topics
<1>4. CASE ~Adds("dlq", m)
  <2>1. PICK force \in {FALSE, m.force} : Adds("failed", Failure(m, stage, force))
    BY <1>1, <1>4 DEF ReportStep
  <2>2. PICK x : x = Failure(m, stage, force)
    OBVIOUS
  <2>3. MintsFor(RowOf(m))
    BY <1>1, <1>4 DEF ReportStep, MintsFor
  <2>4. Made(x)
    BY <1>2, <2>2, <2>3 DEF Made, MadeOf
  <2> QED
    BY <1>0, <1>1, <1>2, <2>1, <2>2, <2>4, WorkerAdds DEF AllMade, Topics
<1> QED
  BY <1>3, <1>4

LEMMA CrawlersMake ==
  ASSUME IInv, NEW w \in Crawlers, CrawlerDoes(w)
  PROVE  AllMade
<1>0. /\ w \in Workers /\ w \in StageWorkers
      /\ Topics = {"discovered", "fetched", "parsed", "failed", "dlq"}
  BY DEF Workers, StageWorkers, Topics
<1>1. ASSUME NEW m, ClaimStep(w, "discovered", m, "crawler", "dedup")
      PROVE  AllMade
  BY <1>0, <1>1, WorkerTakes DEF ClaimStep, AllMade
<1>2. CASE AckStep(w) \/ \E m : DropStep("discovered", m, "crawler")
  <2>1. \A t \in Topics : topic'[t] \subseteq topic[t]
    BY <1>2 DEF AckStep, DropStep, Removes, IInv, TopicsOK
  <2>2. \A v \in Workers : task'[v] = Idle \/ task'[v] = task[v]
    BY <1>2 DEF AckStep, DropStep, Rests, Others
  <2> QED
    BY <2>1, <2>2, OnlyGo DEF AllMade
<1>3. ASSUME NEW x, task[w].pc # "idle", Others(w), task'[w].msg = task[w].msg,
             UNCHANGED topic \/ \E t \in Topics : Adds(t, x), Made(x) \/ x \in Present
      PROVE  AllMade
  BY <1>0, <1>3, WorkerAdds DEF AllMade
<1>4. CASE \/ KeyStep(w) \/ SkipStep(w) \/ FetchStep(w) \/ MarkStep(w) \/ QueueLinkStep(w)
           \/ QuietStep(w) \/ FailStep(w) \/ \E u \in Urls : SeeLinkStep(w, u)
  <2>1. /\ task[w].pc # "idle" /\ Others(w) /\ task'[w].msg = task[w].msg /\ UNCHANGED topic
    BY <1>4 DEF KeyStep, SkipStep, FetchStep, MarkStep, QueueLinkStep, QuietStep, FailStep,
       SeeLinkStep, Goes, Gets
  <2> QED
    BY <1>0, <1>3, <2>1, PresentHand
<1>5. CASE PublishStep(w, "publish", "mark", "fetched", Crawler!HtmlFetched(task[w].msg))
  <2>1. /\ task[w].pc # "idle" /\ Others(w) /\ task'[w].msg = task[w].msg
        /\ Adds("fetched", Crawler!HtmlFetched(task[w].msg))
    BY <1>5 DEF PublishStep, Goes, Gets
  <2>2. Made(Crawler!HtmlFetched(task[w].msg))
    BY <1>0, <2>1, MakerHand DEF Made, MadeOf
  <2> QED
    BY <1>0, <1>3, <2>1, <2>2
<1>6. CASE PublishLinkStep(w)
  <2>1. PICK x : x = Discovered(task[w].msg.job, task[w].cur, 1, task[w].msg.depth + 1, FALSE)
    OBVIOUS
  <2>2. /\ task[w].pc = "publink" /\ Others(w) /\ task'[w].msg = task[w].msg
        /\ Adds("discovered", x) /\ MintsFor(<<task[w].msg.job, task[w].cur>>)
    BY <1>6, <2>1 DEF PublishLinkStep, Gets, MintsFor
  <2>3. Made(x)
    BY <2>1, <2>2 DEF Made, MadeOfLink
  <2> QED
    BY <1>0, <1>3, <2>2, <2>3
<1>7. CASE ReportStep(w, "crawler")
  BY <1>0, <1>7, ReportsMake DEF Stages
<1> QED
  BY <1>1, <1>2, <1>4, <1>5, <1>6, <1>7 DEF CrawlerDoes

LEMMA ParsersMake ==
  ASSUME IInv, NEW w \in Parsers, ParserDoes(w)
  PROVE  AllMade
<1>0. /\ w \in Workers /\ w \in StageWorkers
      /\ Topics = {"discovered", "fetched", "parsed", "failed", "dlq"}
  BY DEF Workers, StageWorkers, Topics
<1>1. ASSUME NEW m, ClaimStep(w, "fetched", m, "parser", "parse")
      PROVE  AllMade
  BY <1>0, <1>1, WorkerTakes DEF ClaimStep, AllMade
<1>2. CASE AckStep(w) \/ \E m : DropStep("fetched", m, "parser")
  <2>1. \A t \in Topics : topic'[t] \subseteq topic[t]
    BY <1>2 DEF AckStep, DropStep, Removes, IInv, TopicsOK
  <2>2. \A v \in Workers : task'[v] = Idle \/ task'[v] = task[v]
    BY <1>2 DEF AckStep, DropStep, Rests, Others
  <2> QED
    BY <2>1, <2>2, OnlyGo DEF AllMade
<1>3. CASE PublishStep(w, "parse", "ack", "parsed", Parser!PageParsed(task[w].msg))
  <2>1. PICK x : x = Parser!PageParsed(task[w].msg)
    OBVIOUS
  <2>2. /\ task[w].pc # "idle" /\ Others(w) /\ task'[w].msg = task[w].msg /\ Adds("parsed", x)
    BY <1>3, <2>1 DEF PublishStep, Goes, Gets
  <2>3. Made(x)
    BY <1>0, <2>1, <2>2, MakerHand DEF Made, MadeOf
  <2> QED
    BY <1>0, <2>2, <2>3, WorkerAdds DEF AllMade
<1>4. CASE ReportStep(w, "parser")
  BY <1>0, <1>4, ReportsMake DEF Stages
<1> QED
  BY <1>1, <1>2, <1>3, <1>4 DEF ParserDoes

LEMMA CleanersMake ==
  ASSUME IInv, NEW w \in Cleaners, CleanerDoes(w)
  PROVE  AllMade
<1>0. /\ w \in Workers /\ w \in StageWorkers
      /\ Topics = {"discovered", "fetched", "parsed", "failed", "dlq"}
  BY DEF Workers, StageWorkers, Topics
<1>1. ASSUME NEW m, ClaimStep(w, "parsed", m, "cleaner", "upsert")
      PROVE  AllMade
  BY <1>0, <1>1, WorkerTakes DEF ClaimStep, AllMade
<1>2. CASE AckStep(w) \/ \E m : DropStep("parsed", m, "cleaner")
  <2>1. \A t \in Topics : topic'[t] \subseteq topic[t]
    BY <1>2 DEF AckStep, DropStep, Removes, IInv, TopicsOK
  <2>2. \A v \in Workers : task'[v] = Idle \/ task'[v] = task[v]
    BY <1>2 DEF AckStep, DropStep, Rests, Others
  <2> QED
    BY <2>1, <2>2, OnlyGo DEF AllMade
<1>3. CASE CommitStep(w) \/ QuietStep(w) \/ FailStep(w)
  <2>1. /\ task[w].pc # "idle" /\ Others(w) /\ task'[w].msg = task[w].msg /\ UNCHANGED topic
    BY <1>3 DEF CommitStep, QuietStep, FailStep, Goes, Gets
  <2>2. Present' \subseteq Present \cup {task[w].msg}
    BY <1>0, <2>1, WorkerAdds
  <2> QED
    BY <1>0, <2>1, <2>2, PresentHand DEF AllMade
<1>4. CASE ReportStep(w, "cleaner")
  BY <1>0, <1>4, ReportsMake DEF Stages
<1> QED
  BY <1>1, <1>2, <1>3, <1>4 DEF CleanerDoes

LEMMA RetriersMake ==
  ASSUME IInv, NEW w \in Retriers, RetryDoes(w)
  PROVE  AllMade
<1>0. w \in Workers /\ Topics = {"discovered", "fetched", "parsed", "failed", "dlq"}
  BY DEF Workers, Topics
<1>1. ASSUME NEW f, NEW t \in Topics, NEW x, RetryStep(w, f, t, x), Made(x) \/ x = f
      PROVE  AllMade
  <2>1. f \in Present
    BY <1>0, <1>1, PresentTopic DEF RetryStep
  <2>2. \A y \in Topics : \A m \in topic'[y] : m \in topic[y] \/ m \in {x}
    BY <1>0, <1>1 DEF RetryStep, IInv, TopicsOK
  <2>3. ASSUME NEW v \in Workers, task'[v] # Idle PROVE task'[v].msg \in Present
    <3>1. CASE v = w
      BY <1>1, <2>1, <3>1 DEF RetryStep, Holds, Holding
    <3>2. CASE v # w
      BY <1>1, <2>3, <3>2 DEF RetryStep, Holds, Others, Present, InHand, IsIdle
    <3> QED
      BY <3>1, <3>2
  <2>4. Present' \subseteq Present \cup {x}
    BY <2>2, <2>3, PresentNow
  <2> QED
    BY <1>1, <2>1, <2>4 DEF AllMade
<1>2. ASSUME NEW f, f.stage = "cleaner", RetryStep(w, f, "parsed", Retry!ReplayedPage(f))
      PROVE  AllMade
  <2>1. f \in topic["failed"] /\ f.kind = "UrlFailed" /\ f \in Present
    BY <1>0, <1>2, PresentTopic DEF RetryStep, IInv, TopicsOK, Fits
  <2>2. Made(Retry!ReplayedPage(f))
    BY <1>2, <2>1 DEF Made, Maker, MadeOf
  <2> QED
    BY <1>0, <1>1, <1>2, <2>2
<1>3. ASSUME NEW f, minted' = [minted EXCEPT ![RowOf(f)] = @ + 1],
             RetryStep(w, f, "discovered",
                       Discovered(f.job, f.url, f.attempt + 1, f.depth, f.force))
      PROVE  AllMade
  <2>1. f \in Present /\ f \in topic["failed"]
    BY <1>0, <1>3, PresentTopic DEF RetryStep
  <2>2. Made(Discovered(f.job, f.url, f.attempt + 1, f.depth, f.force))
    BY <1>3, <2>1 DEF Made, Maker, MadeOf, MintsFor
  <2> QED
    BY <1>0, <1>1, <1>3, <2>2
<1>4. CASE AckStep(w)
  BY <1>4, OnlyGo DEF AckStep, Rests, Others, AllMade
<1> QED
  BY <1>0, <1>1, <1>2, <1>3, <1>4 DEF RetryDoes

LEMMA ReplayersMake ==
  ASSUME IInv, NEW w \in Replayers, ReplayDoes(w)
  PROVE  AllMade
<1>0. w \in Workers /\ Topics = {"discovered", "fetched", "parsed", "failed", "dlq"}
  BY DEF Workers, Topics
<1>1. ASSUME NEW m, CountStep(w, m)
      PROVE  AllMade
  BY <1>0, <1>1, WorkerTakes DEF CountStep, AllMade
<1>2. ASSUME NEW t \in Topics, NEW x, PublishStep(w, "replay", "ack", t, x),
             Made(x) \/ x = task[w].msg
      PROVE  AllMade
  <2>1. task[w].pc # "idle" /\ Others(w) /\ task'[w].msg = task[w].msg /\ Adds(t, x)
    BY <1>2 DEF PublishStep, Goes, Gets
  <2>2. Present' \subseteq Present \cup {x}
    BY <1>0, <2>1, WorkerAdds
  <2> QED
    BY <1>0, <1>2, <2>1, <2>2, PresentHand DEF AllMade
<1>3. CASE PublishStep(w, "replay", "ack", "discovered", DlqReplay!ReplayedUrl(task[w].msg))
  <2>1. Made(DlqReplay!ReplayedUrl(task[w].msg))
    BY <1>3 DEF PublishStep, Made, MadeOfReplay
  <2> QED
    BY <1>0, <1>2, <1>3, <2>1
<1>4. CASE QuietStep(w)
  <2>1. /\ task[w].pc # "idle" /\ Others(w) /\ task'[w].msg = task[w].msg /\ UNCHANGED topic
    BY <1>4 DEF QuietStep, Goes, Gets
  <2>2. Present' \subseteq Present \cup {task[w].msg}
    BY <1>0, <2>1, WorkerAdds
  <2> QED
    BY <1>0, <2>1, <2>2, PresentHand DEF AllMade
<1>5. CASE AckStep(w)
  BY <1>5, OnlyGo DEF AckStep, Rests, Others, AllMade
<1> QED
  BY <1>0, <1>1, <1>2, <1>3, <1>4, <1>5 DEF ReplayDoes

\* Every message that is there after a step was there or has been made.
LEMMA StepsMake ==
  ASSUME IInv, [Next]_vars
  PROVE  AllMade
<1>0. Topics = {"discovered", "fetched", "parsed", "failed", "dlq"}
  BY DEF Topics
<1>1. ASSUME NEW j \in Jobs, PublishSeedStep(j)
      PROVE  AllMade
  <2>1. PICK depth : Adds("discovered", Discovered(j, submit[j].cur, 1, depth, j \in Incremental))
    BY <1>1 DEF PublishSeedStep
  <2>2. PICK x : x = Discovered(j, submit[j].cur, 1, depth, j \in Incremental)
    OBVIOUS
  <2>3. MintsFor(<<j, submit[j].cur>>) /\ submit[j].pc = "publish" /\ UNCHANGED task
    BY <1>1 DEF PublishSeedStep, MintsFor
  <2>4. Made(x)
    BY <2>2, <2>3 DEF Made, MadeOfSeed
  <2>5. \A t \in Topics : \A m \in topic'[t] : m \in topic[t] \/ m \in {x}
    BY <2>1, <2>2 DEF Adds, IInv, TopicsOK
  <2>6. \A w \in Workers : task'[w] # Idle => task'[w].msg \in Present
    BY <2>3 DEF Present, InHand, IsIdle
  <2>7. Present' \subseteq Present \cup {x}
    BY <2>5, <2>6, PresentNow
  <2> QED
    BY <2>4, <2>7 DEF AllMade
<1>2. CASE \/ \E j \in Jobs : SubmitDoes(j) /\ ~PublishSeedStep(j)
           \/ \E u \in Urls : ExpireStep(u)
           \/ UNCHANGED vars
  <2>1. UNCHANGED <<topic, task>>
    BY <1>2 DEF SubmitDoes, CreateStep, RestStep, SeeSeedStep, QueueSeedStep, AbandonStep,
       ExpireStep, vars, kafka
  <2> QED
    BY <2>1, OnlyGo DEF AllMade
<1>3. ASSUME NEW w \in Workers, CrashStep(w) \/ RedeliverStep(w)
      PROVE  AllMade
  <2>1. task[w].msg \in Present
    BY <1>3 DEF CrashStep, RedeliverStep, Present, InHand, IsIdle
  <2>2. \A t \in Topics : \A m \in topic'[t] : m \in topic[t] \/ m \in {task[w].msg}
    BY <1>3, SourceOf DEF CrashStep, RedeliverStep, Adds, IInv, TopicsOK
  <2>3. ASSUME NEW v \in Workers, task'[v] # Idle PROVE task'[v].msg \in Present
    BY <1>3, <2>3 DEF CrashStep, RedeliverStep, Rests, Others, Present, InHand, IsIdle
  <2>4. Present' \subseteq Present \cup {task[w].msg}
    BY <2>2, <2>3, PresentNow
  <2> QED
    BY <2>1, <2>4 DEF AllMade
<1> QED
  BY <1>1, <1>2, <1>3, AllSteps, CrawlersMake, ParsersMake, CleanersMake, RetriersMake,
     ReplayersMake DEF SystemDoes
-----------------------------------------------------------------------------
\* Who is about to republish a payload was, or has just counted the replay.
LEMMA ReplayBegins ==
  ASSUME IInv, [Next]_vars, NEW v \in Workers, task'[v].pc = "replay"
  PROVE  \/ task[v].pc = "replay" /\ task'[v].msg = task[v].msg
         \/ MaxReplays # 0 /\ Replayed(IdOf(task[v].msg))'
<1>1. ASSUME NEW w \in Workers, Others(w), task'[w].pc # "replay" \/ task'[w] = task[w]
      PROVE  task[v].pc = "replay" /\ task'[v].msg = task[v].msg
  BY <1>1 DEF Others
<1>2. ASSUME NEW w \in Replayers, NEW m, CountStep(w, m)
      PROVE  \/ task[v].pc = "replay" /\ task'[v].msg = task[v].msg
             \/ MaxReplays # 0 /\ Replayed(IdOf(task[v].msg))'
  <2>1. CASE v = w
    <3>1. MaxReplays # 0 /\ task'[v].msg = m
      BY <1>2, <2>1 DEF CountStep, Holds, Holding
    <3>2. PICK k : replays' = replays \cup {<<IdOf(m), k>>}
      BY <1>2 DEF CountStep
    <3>3. \E r \in replays' : r[1] = IdOf(m)
      <4>1. <<IdOf(m), k>> \in replays' /\ <<IdOf(m), k>>[1] = IdOf(m)
        BY <3>2
      <4> QED
        BY <4>1
    <3> QED
      BY <3>1, <3>3 DEF Replayed, IdOf
  <2>2. CASE v # w
    BY <1>2, <2>2 DEF CountStep, Holds, Others
  <2> QED
    BY <2>1, <2>2
<1>3. CASE \E w \in Crawlers : CrawlerDoes(w)
  <2>1. PICK w \in Crawlers : CrawlerDoes(w)
    BY <1>3
  <2>2. w \in Workers
    BY DEF Workers
  <2>3. CASE \E m : ClaimStep(w, "discovered", m, "crawler", "dedup")
    <3>1. Others(w) /\ task'[w].pc # "replay"
      BY <2>3 DEF ClaimStep, Holds, Holding
    <3> QED
      BY <1>1, <2>2, <3>1
  <2>4. CASE \E m : DropStep("discovered", m, "crawler")
    BY <2>4 DEF DropStep
  <2>5. CASE AckStep(w)
    <3>1. Others(w) /\ task'[w].pc # "replay"
      BY <2>5 DEF AckStep, Rests, Idle, Holding
    <3> QED
      BY <1>1, <2>2, <3>1
  <2>6. ASSUME ~\E m : ClaimStep(w, "discovered", m, "crawler", "dedup"),
               ~\E m : DropStep("discovered", m, "crawler"), ~AckStep(w)
        PROVE  Others(w) /\ task'[w].pc # "replay"
    BY <2>1, <2>6 DEF CrawlerDoes, KeyStep, SkipStep, FetchStep, PublishStep, MarkStep,
       SeeLinkStep, QueueLinkStep, PublishLinkStep, QuietStep, FailStep, ReportStep, Goes, Gets
  <2> QED
    BY <1>1, <2>2, <2>3, <2>4, <2>5, <2>6
<1>4. CASE \E w \in Parsers : ParserDoes(w)
  <2>1. PICK w \in Parsers : ParserDoes(w)
    BY <1>4
  <2>2. w \in Workers
    BY DEF Workers
  <2>3. CASE \E m : ClaimStep(w, "fetched", m, "parser", "parse")
    <3>1. Others(w) /\ task'[w].pc # "replay"
      BY <2>3 DEF ClaimStep, Holds, Holding
    <3> QED
      BY <1>1, <2>2, <3>1
  <2>4. CASE \E m : DropStep("fetched", m, "parser")
    BY <2>4 DEF DropStep
  <2>5. CASE AckStep(w)
    <3>1. Others(w) /\ task'[w].pc # "replay"
      BY <2>5 DEF AckStep, Rests, Idle, Holding
    <3> QED
      BY <1>1, <2>2, <3>1
  <2>6. ASSUME ~\E m : ClaimStep(w, "fetched", m, "parser", "parse"),
               ~\E m : DropStep("fetched", m, "parser"), ~AckStep(w)
        PROVE  Others(w) /\ task'[w].pc # "replay"
    BY <2>1, <2>6 DEF ParserDoes, PublishStep, ReportStep, Goes, Gets
  <2> QED
    BY <1>1, <2>2, <2>3, <2>4, <2>5, <2>6
<1>5. CASE \E w \in Cleaners : CleanerDoes(w)
  <2>1. PICK w \in Cleaners : CleanerDoes(w)
    BY <1>5
  <2>2. w \in Workers
    BY DEF Workers
  <2>3. CASE \E m : ClaimStep(w, "parsed", m, "cleaner", "upsert")
    <3>1. Others(w) /\ task'[w].pc # "replay"
      BY <2>3 DEF ClaimStep, Holds, Holding
    <3> QED
      BY <1>1, <2>2, <3>1
  <2>4. CASE \E m : DropStep("parsed", m, "cleaner")
    BY <2>4 DEF DropStep
  <2>5. CASE AckStep(w)
    <3>1. Others(w) /\ task'[w].pc # "replay"
      BY <2>5 DEF AckStep, Rests, Idle, Holding
    <3> QED
      BY <1>1, <2>2, <3>1
  <2>6. ASSUME ~\E m : ClaimStep(w, "parsed", m, "cleaner", "upsert"),
               ~\E m : DropStep("parsed", m, "cleaner"), ~AckStep(w)
        PROVE  Others(w) /\ task'[w].pc # "replay"
    BY <2>1, <2>6 DEF CleanerDoes, CommitStep, QuietStep, FailStep, ReportStep, Goes, Gets
  <2> QED
    BY <1>1, <2>2, <2>3, <2>4, <2>5, <2>6
<1>6. CASE \E w \in Retriers : RetryDoes(w)
  <2>1. PICK w \in Retriers : RetryDoes(w)
    BY <1>6
  <2>2. (\E m : Holds(w, "ack", m)) \/ Rests(w)
    BY <2>1 DEF RetryDoes, RetryStep, AckStep
  <2>3. Rests(w) => Others(w) /\ task'[w].pc # "replay"
    BY DEF Rests, Idle, Holding
  <2>4. ASSUME NEW m, Holds(w, "ack", m) PROVE Others(w) /\ task'[w].pc # "replay"
    BY <2>4 DEF Holds, Holding
  <2> QED
    BY <1>1, <2>2, <2>3, <2>4 DEF Workers
<1>7. CASE \E w \in Replayers : ReplayDoes(w)
  <2>1. PICK w \in Replayers : ReplayDoes(w)
    BY <1>7
  <2>2. CASE \E m : CountStep(w, m)
    BY <1>2, <2>2
  <2>3. CASE ~\E m : CountStep(w, m)
    <3>1. w \in Workers /\ Others(w) /\ task'[w].pc # "replay"
      BY <2>1, <2>3 DEF ReplayDoes, PublishStep, QuietStep, AckStep, Rests, Holding, Idle, Goes,
         Gets, Workers
    <3> QED
      BY <1>1, <3>1
  <2> QED
    BY <2>2, <2>3
<1>8. CASE \/ \E j \in Jobs : SubmitDoes(j)
           \/ \E u \in Urls : ExpireStep(u)
           \/ UNCHANGED vars
  <2>1. UNCHANGED task
    BY <1>8 DEF SubmitDoes, CreateStep, RestStep, SeeSeedStep, QueueSeedStep, PublishSeedStep,
       AbandonStep, ExpireStep, vars
  <2> QED
    BY <2>1
<1>9. CASE \E w \in Workers : CrashStep(w) \/ RedeliverStep(w)
  <2>1. task'[v] = task[v] \/ task'[v] = Idle
    BY <1>9 DEF CrashStep, RedeliverStep, Rests, Others
  <2> QED
    BY <2>1 DEF Idle, Holding
<1> QED
  BY <1>3, <1>4, <1>5, <1>6, <1>7, <1>8, <1>9, AllSteps DEF SystemDoes

\* What is made of messages in order, field by field.
LEMMA MadeOfFields ==
  ASSUME NEW m \in Message, NEW x, MadeOf(m, x)
  PROVE  /\ RowOf(x) = RowOf(m)
         /\ x.force \in {FALSE, m.force}
         /\ \/ x.kind # "UrlDiscovered" /\ x.n = m.n /\ x.page = m.page
            \/ /\ x.kind # "UrlDiscovered" /\ x.n = NewId(m.job, m.url) /\ x.page \in {0, m.n}
               /\ MintsFor(RowOf(m))
            \/ /\ x.kind # "UrlDiscovered" /\ x.n = m.page /\ x.page = 0
            \/ /\ x.n = NewId(m.job, m.url) /\ x.page = 0 /\ x.attempt = m.attempt + 1
               /\ MintsFor(RowOf(m))
<1>1. CASE x = Crawler!HtmlFetched(m)
  BY <1>1 DEF Crawler!HtmlFetched, Message, RowOf
<1>2. CASE x = Parser!PageParsed(m)
  BY <1>2 DEF Parser!PageParsed, Message, RowOf
<1>3. CASE /\ \E stage \in Stages, force \in {FALSE, m.force} : x = Failure(m, stage, force)
           /\ MintsFor(RowOf(m))
  <2>1. PICK stage \in Stages, force \in {FALSE, m.force} : x = Failure(m, stage, force)
    BY <1>3
  <2>2. /\ x.kind = "UrlFailed" /\ x.job = m.job /\ x.url = m.url /\ x.force = force
        /\ x.n = NewId(m.job, m.url) /\ x.page = IF stage = "cleaner" THEN m.n ELSE 0
    BY <2>1 DEF Failure
  <2> QED
    BY <1>3, <2>2 DEF RowOf
<1>4. CASE x = Retry!ReplayedPage(m)
  BY <1>4 DEF Retry!ReplayedPage, Message, RowOf
<1>5. CASE /\ x = Discovered(m.job, m.url, m.attempt + 1, m.depth, m.force)
           /\ MintsFor(RowOf(m))
  BY <1>5 DEF Discovered, RowOf
<1> QED
  BY <1>1, <1>2, <1>3, <1>4, <1>5 DEF MadeOf
-----------------------------------------------------------------------------
\* What dlq-replay may republish.
Dying(m) == m \in topic["dlq"] \/ \E w \in Replayers : task[w] # Idle /\ task[w].msg = m

LEMMA DyingStays ==
  ASSUME NEW m, Dying(m)', topic'["dlq"] \subseteq topic["dlq"],
         \A w \in Replayers : task'[w] = task[w] \/ task'[w] = Idle
  PROVE  Dying(m)
BY DEF Dying

\* What comes there is a worker's after its last attempt, or a failure that the
\* retry service gives up.
LEMMA DyingComes ==
  ASSUME IInv, [Next]_vars, NEW m, Dying(m)'
  PROVE  \/ Dying(m) \/ InStage(m)
         \/ m \in topic["failed"] /\ m.attempt >= RetryMaxAttempts
<1>0. Topics = {"discovered", "fetched", "parsed", "failed", "dlq"} /\ DOMAIN topic = Topics
  BY DEF Topics, IInv, TopicsOK
<1>1. ASSUME NEW w \in StageWorkers, Others(w) \/ UNCHANGED task,
             \/ topic'["dlq"] \subseteq topic["dlq"]
             \/ task[w] # Idle /\ topic'["dlq"] = topic["dlq"] \cup {task[w].msg}
      PROVE  Dying(m) \/ InStage(m)
  <2>1. \A v \in Replayers : task'[v] = task[v]
    BY <1>1, WorkersAssumption DEF StageWorkers, Others, Workers
  <2> QED
    BY <1>1, <2>1 DEF Dying, InStage
<1>2. ASSUME NEW w \in StageWorkers, NEW t \in Topics, NEW x, NEW stage, NEW pc,
             ClaimStep(w, t, x, stage, pc) \/ DropStep(t, x, stage)
      PROVE  Dying(m) \/ InStage(m)
  BY <1>0, <1>1, <1>2 DEF ClaimStep, DropStep, Removes, Holds
<1>3. ASSUME NEW w \in StageWorkers, NEW stage, ReportStep(w, stage)
      PROVE  Dying(m) \/ InStage(m)
  <2>1. Others(w)
    BY <1>3 DEF ReportStep, Goes, Gets
  <2>2. task[w].pc # "idle"
    BY <1>3 DEF ReportStep
  <2>3. task[w] # Idle
    BY <2>2 DEF Idle, Holding
  <2>4. Adds("dlq", task[w].msg) \/ \E x : Adds("failed", x)
    BY <1>3 DEF ReportStep
  <2>5. \/ topic'["dlq"] \subseteq topic["dlq"]
        \/ topic'["dlq"] = topic["dlq"] \cup {task[w].msg}
    BY <1>0, <2>4 DEF Adds
  <2> QED
    BY <1>1, <2>1, <2>3, <2>5
<1>4. ASSUME NEW w \in StageWorkers,
             \/ KeyStep(w) \/ SkipStep(w) \/ FetchStep(w) \/ MarkStep(w) \/ QueueLinkStep(w)
             \/ PublishLinkStep(w) \/ QuietStep(w) \/ FailStep(w) \/ AckStep(w) \/ CommitStep(w)
             \/ \E u \in Urls : SeeLinkStep(w, u)
             \/ \E from, to, t, x : t # "dlq" /\ PublishStep(w, from, to, t, x)
      PROVE  Dying(m) \/ InStage(m)
  BY <1>0, <1>1, <1>4 DEF KeyStep, SkipStep, FetchStep, MarkStep, QueueLinkStep, PublishLinkStep,
     QuietStep, FailStep, AckStep, CommitStep, SeeLinkStep, PublishStep, Adds, Goes, Gets, Rests
<1>5. CASE \/ \E w \in Crawlers : CrawlerDoes(w)
           \/ \E w \in Parsers : ParserDoes(w)
           \/ \E w \in Cleaners : CleanerDoes(w)
  <2>1. ASSUME NEW w \in Crawlers, CrawlerDoes(w) PROVE Dying(m) \/ InStage(m)
    BY <1>0, <1>2, <1>3, <1>4, <2>1 DEF CrawlerDoes, StageWorkers
  <2>2. ASSUME NEW w \in Parsers, ParserDoes(w) PROVE Dying(m) \/ InStage(m)
    BY <1>0, <1>2, <1>3, <1>4, <2>2 DEF ParserDoes, StageWorkers
  <2>3. ASSUME NEW w \in Cleaners, CleanerDoes(w) PROVE Dying(m) \/ InStage(m)
    BY <1>0, <1>2, <1>3, <1>4, <2>3 DEF CleanerDoes, StageWorkers
  <2> QED
    BY <1>5, <2>1, <2>2, <2>3
<1>6. ASSUME NEW w \in Retriers, RetryDoes(w)
      PROVE  Dying(m) \/ (m \in topic["failed"] /\ m.attempt >= RetryMaxAttempts)
  <2>1. \A v \in Replayers : task'[v] = task[v]
    BY <1>6, WorkersAssumption DEF RetryDoes, RetryStep, AckStep, Holds, Rests, Others, Workers
  <2>2. ASSUME NEW f, NEW t \in Topics, NEW x, RetryStep(w, f, t, x)
        PROVE  /\ f \in topic["failed"]
               /\ topic'["dlq"] = IF t = "dlq" THEN topic["dlq"] \cup {x} ELSE topic["dlq"]
    BY <1>0, <2>2 DEF RetryStep
  <2>3. \/ topic'["dlq"] \subseteq topic["dlq"]
        \/ \E f \in topic["failed"] : /\ f.attempt >= RetryMaxAttempts
                                      /\ topic'["dlq"] = topic["dlq"] \cup {f}
    BY <1>0, <1>6, <2>2 DEF RetryDoes, AckStep
  <2> QED
    BY <2>1, <2>3 DEF Dying
<1>7. ASSUME NEW w \in Replayers, ReplayDoes(w)
      PROVE  Dying(m)
  <2>1. topic'["dlq"] \subseteq topic["dlq"]
    BY <1>0, <1>7 DEF ReplayDoes, CountStep, PublishStep, QuietStep, AckStep, Adds, Removes
  <2>2. CASE \E x : CountStep(w, x)
    BY <2>1, <2>2 DEF CountStep, Holds, Holding, Others, Dying, Workers
  <2>3. CASE ~\E x : CountStep(w, x)
    <3>1. Others(w) /\ (task'[w] = Idle \/ (task[w] # Idle /\ task'[w].msg = task[w].msg))
      BY <1>7, <2>3 DEF ReplayDoes, PublishStep, QuietStep, AckStep, Rests, Goes, Gets, Idle,
         Holding
    <3> QED
      BY <2>1, <3>1 DEF Others, Dying, Workers
  <2> QED
    BY <2>2, <2>3
<1>8. ASSUME \/ \E j \in Jobs : SubmitDoes(j)
             \/ \E u \in Urls : ExpireStep(u)
             \/ UNCHANGED vars
      PROVE  Dying(m)
  <2>1. topic'["dlq"] = topic["dlq"] /\ UNCHANGED task
    BY <1>0, <1>8 DEF SubmitDoes, CreateStep, RestStep, SeeSeedStep, QueueSeedStep,
       PublishSeedStep, AbandonStep, ExpireStep, vars, kafka, Adds
  <2> QED
    BY <2>1 DEF Dying
<1>9. ASSUME NEW w \in Workers, CrashStep(w) \/ RedeliverStep(w)
      PROVE  Dying(m)
  <2>1. \A v \in Replayers : task'[v] = task[v] \/ task'[v] = Idle
    BY <1>9 DEF CrashStep, RedeliverStep, Rests, Others, Workers
  <2>2. \/ topic'["dlq"] = topic["dlq"]
        \/ w \in Replayers /\ topic'["dlq"] = topic["dlq"] \cup {task[w].msg}
    BY <1>0, <1>9, SourceOf DEF CrashStep, RedeliverStep, Adds, Workers
  <2>3. task[w] # Idle
    BY <1>9 DEF CrashStep, RedeliverStep
  <2> QED
    BY <2>1, <2>2, <2>3 DEF Dying
<1> QED
  BY <1>5, <1>6, <1>7, <1>8, <1>9, AllSteps DEF SystemDoes
-----------------------------------------------------------------------------
\* A crawler comes to a message by claiming it.
LEMMA CrawlersTake ==
  ASSUME IInv, [Next]_vars, NEW v \in Crawlers, task'[v] # Idle,
         ~(task[v] # Idle /\ task'[v].msg = task[v].msg)
  PROVE  \E m \in topic["discovered"] : <<IdOf(m), "crawler">> \notin ledger /\ task'[v].msg = m
<1>1. ASSUME NEW w \in Workers, Others(w) \/ UNCHANGED task, w # v
      PROVE  FALSE
  BY <1>1 DEF Others, Workers
<1>2. CASE \E w \in Crawlers : CrawlerDoes(w)
  <2>1. PICK w \in Crawlers : CrawlerDoes(w)
    BY <1>2
  <2>2. CASE \E m : ClaimStep(w, "discovered", m, "crawler", "dedup")
    BY <1>1, <2>2 DEF ClaimStep, Holds, Holding, Workers
  <2>3. CASE \E m : DropStep("discovered", m, "crawler")
    BY <2>3 DEF DropStep
  <2>4. CASE AckStep(w)
    BY <1>1, <2>4 DEF AckStep, Rests, Workers
  <2>5. ASSUME ~\E m : ClaimStep(w, "discovered", m, "crawler", "dedup"),
               ~\E m : DropStep("discovered", m, "crawler"), ~AckStep(w)
        PROVE  Others(w) /\ task[w].pc # "idle" /\ task'[w].msg = task[w].msg
    BY <2>1, <2>5 DEF CrawlerDoes, KeyStep, SkipStep, FetchStep, PublishStep, MarkStep,
       SeeLinkStep, QueueLinkStep, PublishLinkStep, QuietStep, FailStep, ReportStep, Goes, Gets
  <2> QED
    BY <1>1, <2>2, <2>3, <2>4, <2>5 DEF Workers, Idle, Holding
<1>3. ASSUME NEW w \in Workers, w \notin Crawlers,
             ParserDoes(w) \/ CleanerDoes(w) \/ RetryDoes(w) \/ ReplayDoes(w)
      PROVE  FALSE
  <2>1. w # v
    BY <1>3
  <2>2. Others(w) \/ UNCHANGED task
    BY <1>3 DEF ParserDoes, CleanerDoes, RetryDoes, ReplayDoes, ClaimStep, DropStep, PublishStep,
       ReportStep, AckStep, CommitStep, QuietStep, FailStep, RetryStep, CountStep, Holds, Rests,
       Goes, Gets
  <2> QED
    BY <1>1, <2>1, <2>2
<1>4. CASE \/ \E j \in Jobs : SubmitDoes(j)
           \/ \E u \in Urls : ExpireStep(u)
           \/ UNCHANGED vars
  <2>1. UNCHANGED task
    BY <1>4 DEF SubmitDoes, CreateStep, RestStep, SeeSeedStep, QueueSeedStep, PublishSeedStep,
       AbandonStep, ExpireStep, vars
  <2> QED
    BY <2>1
<1>5. CASE \E w \in Workers : CrashStep(w) \/ RedeliverStep(w)
  <2>1. task'[v] = task[v] \/ task'[v] = Idle
    BY <1>5 DEF CrashStep, RedeliverStep, Rests, Others, Workers
  <2> QED
    BY <2>1
<1>6. /\ ~\E w \in Parsers : ParserDoes(w)
      /\ ~\E w \in Cleaners : CleanerDoes(w)
      /\ ~\E w \in Retriers : RetryDoes(w)
      /\ ~\E w \in Replayers : ReplayDoes(w)
  <2>1. \A w \in Parsers \cup Cleaners \cup Retriers \cup Replayers : w \in Workers /\ w \notin Crawlers
    BY WorkersAssumption DEF Workers
  <2>2. ASSUME NEW w \in Parsers, ParserDoes(w) PROVE FALSE
    BY <1>3, <2>1, <2>2
  <2>3. ASSUME NEW w \in Cleaners, CleanerDoes(w) PROVE FALSE
    BY <1>3, <2>1, <2>3
  <2>4. ASSUME NEW w \in Retriers, RetryDoes(w) PROVE FALSE
    BY <1>3, <2>1, <2>4
  <2>5. ASSUME NEW w \in Replayers, ReplayDoes(w) PROVE FALSE
    BY <1>3, <2>1, <2>5
  <2> QED
    BY <2>2, <2>3, <2>4, <2>5
<1> QED
  BY <1>2, <1>4, <1>5, <1>6, AllSteps DEF SystemDoes

\* No claim is taken back.
LEMMA ClaimsGrow ==
  ASSUME IInv, [Next]_vars
  PROVE  ledger \subseteq ledger'
<1>1. ASSUME NEW w, NEW stage, ReportStep(w, stage) PROVE ledger \subseteq ledger'
  BY <1>1 DEF ReportStep
<1>2. CASE \E w \in Crawlers : CrawlerDoes(w)
  BY <1>1, <1>2 DEF CrawlerDoes, ClaimStep, DropStep, KeyStep, SkipStep, FetchStep, PublishStep,
     MarkStep, SeeLinkStep, QueueLinkStep, PublishLinkStep, QuietStep, FailStep, AckStep
<1>3. CASE (\E w \in Parsers : ParserDoes(w)) \/ (\E w \in Cleaners : CleanerDoes(w))
  BY <1>1, <1>3 DEF ParserDoes, CleanerDoes, ClaimStep, DropStep, PublishStep, CommitStep,
     QuietStep, FailStep, AckStep
<1>4. CASE (\E w \in Retriers : RetryDoes(w)) \/ (\E w \in Replayers : ReplayDoes(w))
  BY <1>4 DEF RetryDoes, RetryStep, ReplayDoes, CountStep, PublishStep, QuietStep, AckStep
<1>5. CASE \/ \E j \in Jobs : SubmitDoes(j)
           \/ \E w \in Workers : CrashStep(w) \/ RedeliverStep(w)
           \/ \E u \in Urls : ExpireStep(u)
           \/ UNCHANGED vars
  BY <1>5 DEF SubmitDoes, CreateStep, RestStep, SeeSeedStep, QueueSeedStep, PublishSeedStep,
     AbandonStep, CrashStep, RedeliverStep, ExpireStep, vars, postgres
<1> QED
  BY <1>2, <1>3, <1>4, <1>5, AllSteps DEF SystemDoes

\* The retry service gives up only what the workers have given up before it.
\* As long as that is so, or nothing is replayed, whatever is forced without
\* incremental jobs comes from a replay, which has kept an id that the crawler
\* has claimed, and is never taken up.
ReplaysAreStale == MaxReplays = 0 \/ WorkerMaxAttempts <= RetryMaxAttempts
Crawled(m) == <<IdOf(m), "crawler">> \in ledger
NoForce ==
  /\ \A m \in Present : m.force => m.kind = "UrlDiscovered" /\ Crawled(m)
  /\ \A w \in Crawlers : task[w] # Idle => ~task[w].msg.force
  /\ MaxReplays # 0 => \A m \in Present : Dying(m) => Crawled(m)
  /\ \A w \in Workers : task[w].pc = "replay" => MaxReplays # 0

\* What a stage has in hand has been claimed by the crawler, and is not forced.
LEMMA StageHands ==
  ASSUME IInv, NoForce, NEW w \in StageWorkers, task[w] # Idle
  PROVE  Crawled(task[w].msg) /\ ~task[w].msg.force
<1>1. w \in Workers /\ HandOK(w) /\ Good(task[w].msg) /\ task[w].msg \in Present
  BY DEF StageWorkers, Workers, IInv, HandsOK, HandOK, Present, InHand, IsIdle
<1>2. CASE w \in Crawlers
  BY <1>1, <1>2 DEF HandOK, Crawled, NoForce
<1>3. CASE w \in Parsers \cup Cleaners
  <2>1. task[w].msg.kind \in {"HtmlFetched", "PageParsed"}
    BY <1>1, <1>3, SourceOf DEF HandOK, Fits
  <2> QED
    BY <1>1, <2>1 DEF Good, Crawled, NoForce
<1> QED
  BY <1>2, <1>3 DEF StageWorkers

\* Nor is anything that messages are made of.
LEMMA MakersHaveNoForce ==
  ASSUME IInv, NoForce, NEW m \in Present, Maker(m)
  PROVE  ~m.force
<1>1. CASE InStage(m)
  BY <1>1, StageHands DEF InStage
<1>2. CASE m \in topic["failed"]
  <2>1. m.kind = "UrlFailed"
    BY <1>2 DEF IInv, TopicsOK, Fits, Topics
  <2> QED
    BY <2>1 DEF NoForce
<1> QED
  BY <1>1, <1>2 DEF Maker

LEMMA StepsDoNotForce ==
  ASSUME Incremental = {}, ReplaysAreStale, IInv, IInv', NoForce, [Next]_vars
  PROVE  NoForce'
<1>0. ledger \subseteq ledger'
  BY ClaimsGrow
<1>1. ASSUME NEW x \in Present', x.force PROVE x.kind = "UrlDiscovered" /\ Crawled(x)'
  <2>1. CASE x \in Present
    BY <1>0, <1>1, <2>1 DEF NoForce, Crawled, IdOf
  <2>2. ASSUME NEW m \in Present, Maker(m), MadeOf(m, x) PROVE FALSE
    <3>1. m \in Message /\ ~m.force
      BY <2>2, AllGood, MakersHaveNoForce DEF Present, Good
    <3> QED
      BY <1>1, <2>2, <3>1, MadeOfFields
  <2>3. ASSUME NEW w \in Replayers, MadeOfReplay(w, x)
        PROVE  x.kind = "UrlDiscovered" /\ Crawled(x)'
    <3>1. PICK m : m = task[w].msg
      OBVIOUS
    <3>2. w \in Workers /\ task[w] # Idle /\ MaxReplays # 0 /\ m \in Present /\ Dying(m)
      BY <2>3, <3>1, PresentHand DEF MadeOfReplay, NoForce, Workers, Dying, Idle, Holding
    <3>3. Crawled(m) /\ m \in Message
      BY <3>2, AllGood DEF NoForce, Present, Good
    <3>4. x.kind = "UrlDiscovered" /\ x.job = m.job /\ x.url = m.url /\ x.n = m.n
      BY <2>3, <3>1, <3>3 DEF MadeOfReplay, DlqReplay!ReplayedUrl, Message
    <3> QED
      BY <1>0, <3>3, <3>4 DEF Crawled, IdOf
  <2>4. CASE \E w \in Crawlers : MadeOfLink(w, x)
    BY <1>1, <2>4 DEF MadeOfLink, Discovered
  <2>5. ASSUME NEW j \in Jobs, MadeOfSeed(j, x) PROVE ~x.force
    <3>1. x.force = (j \in Incremental)
      BY <2>5 DEF MadeOfSeed, Discovered
    <3> QED
      BY <3>1
  <2> QED
    BY <1>1, <2>1, <2>2, <2>3, <2>4, <2>5, StepsMake DEF AllMade, Made
<1>2. ASSUME NEW w \in Crawlers, task'[w] # Idle PROVE ~task'[w].msg.force
  <2>1. CASE task[w] # Idle /\ task'[w].msg = task[w].msg
    BY <2>1 DEF NoForce
  <2>2. CASE ~(task[w] # Idle /\ task'[w].msg = task[w].msg)
    <3>1. PICK m \in topic["discovered"] : ~Crawled(m) /\ task'[w].msg = m
      BY <1>2, <2>2, CrawlersTake DEF Crawled
    <3>2. m \in Present
      BY <3>1, PresentTopic DEF Topics
    <3> QED
      BY <3>1, <3>2 DEF NoForce
  <2> QED
    BY <2>1, <2>2
<1>3. ASSUME MaxReplays # 0, NEW m \in Present', Dying(m)' PROVE Crawled(m)'
  <2>1. CASE Dying(m)
    <3>1. m \in Present
      BY <2>1, PresentTopic DEF Dying, Present, InHand, IsIdle, Workers, Topics
    <3> QED
      BY <1>0, <1>3, <2>1, <3>1 DEF NoForce, Crawled, IdOf
  <2>2. CASE InStage(m)
    BY <1>0, <2>2, StageHands DEF InStage, Crawled, IdOf
  <2>3. CASE m \in topic["failed"] /\ m.attempt >= RetryMaxAttempts
    <3>1. m.attempt \in Nat /\ m.attempt < WorkerMaxAttempts
      BY <2>3 DEF IInv, TopicsOK, Fits, Good, Message, Topics
    <3> QED
      BY <1>3, <2>3, <3>1, LimitsAssumption DEF ReplaysAreStale
  <2> QED
    BY <1>3, <2>1, <2>2, <2>3, DyingComes
<1>4. ASSUME NEW v \in Workers, task'[v].pc = "replay" PROVE MaxReplays # 0
  BY <1>4, ReplayBegins DEF NoForce
<1> QED
  BY <1>1, <1>2, <1>3, <1>4 DEF NoForce

\* Without incremental jobs two crawlers never work on a URL together, if the
\* limits of the retry service and of the workers are one setting, as they are
\* in docker-compose.yml, or if nothing is replayed from the DLQ.
THEOREM FetchesExclude ==
  ASSUME Incremental = {}, ReplaysAreStale
  PROVE  Spec => []FetchExclusion
<1>1. Init => NoForce
  <2> SUFFICES ASSUME Init PROVE NoForce
    OBVIOUS
  <2>1. \A w \in Workers : task[w] = Idle
    BY DEF Init
  <2>2. Present = {}
    BY <2>1 DEF Init, Present, Waiting, InHand, IsIdle
  <2> QED
    BY <2>1, <2>2 DEF NoForce, Idle, Holding, Workers
<1>2. IInv /\ IInv' /\ NoForce /\ [Next]_vars => NoForce'
  BY StepsDoNotForce
<1>3. NoForce => Unforced
  BY DEF NoForce, Unforced, Idle, Holding
<1> QED
  BY <1>1, <1>2, <1>3, PipelineCorrect, KeysExclude, PTL DEF Spec
-----------------------------------------------------------------------------
\* Ids are numbered up to minted; only a retry or a replay has a first attempt
\* at a number other than the first.
NumberOK(m) ==
  /\ m.n <= minted[RowOf(m)] /\ m.page <= minted[RowOf(m)]
  /\ m.kind = "UrlDiscovered" /\ m.attempt = 1 => m.n = 1 \/ Replayed(IdOf(m))
NumbersOK == /\ \A m \in Present : NumberOK(m)
             /\ \A w \in Workers : task[w].pc = "replay" => Replayed(IdOf(task[w].msg))

\* A submission or a crawler has added x to argus:seen and is on its way to
\* announce it: nobody else is, and no id has been made for it.
SeedPending(x) == submit[x[1]].pc \in {"queue", "publish"} /\ submit[x[1]].cur = x[2]
LinkPending(w, x) ==
  /\ task[w].pc \in {"queue", "publink"}
  /\ task[w].msg.job = x[1] /\ task[w].cur = x[2]
Pending(x) == SeedPending(x) \/ \E w \in Crawlers : LinkPending(w, x)
AloneOn(x) ==
  /\ \A w \in Crawlers : LinkPending(w, x) => ~SeedPending(x)
  /\ \A v, w \in Crawlers : LinkPending(v, x) /\ LinkPending(w, x) => v = w
PendingOK(x) == /\ minted[x] > 0 => x \in seen
                /\ Pending(x) => x \in seen /\ minted[x] = 0
                /\ AloneOn(x)
PendingsOK == \A x \in Jobs \X Urls : PendingOK(x)

\* The counters of ids and of replays only grow.
CountersGrow == /\ \A x \in Jobs \X Urls : minted[x] <= minted'[x]
                /\ replays \subseteq replays'

LEMMA MintGrows ==
  ASSUME IInv, NEW x, minted' = [minted EXCEPT ![x] = @ + 1]
  PROVE  \A y \in Jobs \X Urls : minted[y] <= minted'[y]
<1>1. minted \in [Jobs \X Urls -> Nat]
  BY DEF IInv, StoresOK
<1> QED
  BY <1>1

LEMMA StepsGrow ==
  ASSUME IInv, [Next]_vars
  PROVE  CountersGrow
<1>1. \A x \in Jobs \X Urls : minted[x] \in Nat
  BY DEF IInv, StoresOK
<1>2. ASSUME UNCHANGED <<minted, replays>>
      PROVE  CountersGrow
  BY <1>1, <1>2 DEF CountersGrow
<1>3. ASSUME NEW x, minted' = [minted EXCEPT ![x] = @ + 1], UNCHANGED replays
      PROVE  CountersGrow
  BY <1>3, MintGrows DEF CountersGrow
<1>4. ASSUME NEW w, NEW stage, ReportStep(w, stage)
      PROVE  CountersGrow
  BY <1>2, <1>3, <1>4 DEF ReportStep
<1>5. CASE \E w \in Crawlers : CrawlerDoes(w)
  BY <1>2, <1>3, <1>4, <1>5 DEF CrawlerDoes, ClaimStep, DropStep, KeyStep, SkipStep, FetchStep,
     PublishStep, MarkStep, SeeLinkStep, QueueLinkStep, PublishLinkStep, QuietStep, FailStep, AckStep
<1>6. CASE (\E w \in Parsers : ParserDoes(w)) \/ (\E w \in Cleaners : CleanerDoes(w))
  BY <1>2, <1>4, <1>6 DEF ParserDoes, CleanerDoes, ClaimStep, DropStep, PublishStep, CommitStep,
     QuietStep, FailStep, AckStep
<1>7. CASE \E w \in Retriers : RetryDoes(w)
  BY <1>2, <1>3, <1>7 DEF RetryDoes, RetryStep, AckStep
<1>8. CASE \E w \in Replayers : ReplayDoes(w)
  <2>1. UNCHANGED minted /\ replays \subseteq replays'
    BY <1>8 DEF ReplayDoes, CountStep, PublishStep, QuietStep, AckStep
  <2> QED
    BY <1>1, <2>1 DEF CountersGrow
<1>9. CASE \E j \in Jobs : SubmitDoes(j)
  BY <1>2, <1>3, <1>9 DEF SubmitDoes, CreateStep, RestStep, SeeSeedStep, QueueSeedStep,
     PublishSeedStep, AbandonStep
<1>10. CASE \/ \E w \in Workers : CrashStep(w) \/ RedeliverStep(w)
            \/ \E u \in Urls : ExpireStep(u)
            \/ UNCHANGED vars
  BY <1>2, <1>10 DEF CrashStep, RedeliverStep, ExpireStep, vars, kafka, redis
<1> QED
  BY <1>5, <1>6, <1>7, <1>8, <1>9, <1>10, AllSteps DEF SystemDoes

\* A number that is in order stays so.
LEMMA NumberStays ==
  ASSUME IInv, IInv', CountersGrow, NEW m \in Message, NumberOK(m)
  PROVE  NumberOK(m)'
<1>1. PICK x \in Jobs \X Urls : x = RowOf(m)
  BY DEF Message, RowOf
<1>2. minted[x] \in Nat /\ minted'[x] \in Nat /\ minted[x] <= minted'[x]
  BY DEF IInv, StoresOK, CountersGrow
<1>3. m.n \in Nat /\ m.page \in Nat
  BY DEF Message
<1>4. m.n <= minted'[x] /\ m.page <= minted'[x]
  BY <1>1, <1>2, <1>3 DEF NumberOK
<1>5. Replayed(IdOf(m)) => Replayed(IdOf(m))'
  BY DEF CountersGrow, Replayed, IdOf
<1> QED
  BY <1>1, <1>4, <1>5 DEF NumberOK, RowOf

\* An id that has just been made has the number minted.
LEMMA FreshId ==
  ASSUME IInv, NEW j \in Jobs, NEW u \in Urls, MintsFor(<<j, u>>)
  PROVE  minted'[<<j, u>>] = NewId(j, u) /\ NewId(j, u) = minted[<<j, u>>] + 1
<1>1. minted \in [Jobs \X Urls -> Nat] /\ <<j, u>> \in Jobs \X Urls
  BY DEF IInv, StoresOK
<1> QED
  BY <1>1 DEF MintsFor, NewId

\* What is made is numbered in order.
LEMMA MadeNumbers ==
  ASSUME IInv, IInv', CountersGrow, NumbersOK, PendingsOK, NEW x, Made(x)
  PROVE  NumberOK(x)'
<1>1. ASSUME NEW m \in Present, MadeOf(m, x)
      PROVE  NumberOK(x)'
  <2>1. m \in Message /\ NumberOK(m)
    BY <1>1, AllGood DEF Present, Good, NumbersOK
  <2>2. /\ m.job \in Jobs /\ m.url \in Urls /\ m.n \in Nat /\ m.page \in Nat
        /\ m.attempt \in Nat \ {0} /\ RowOf(m) \in Jobs \X Urls
    BY <2>1 DEF Message, RowOf
  <2>3. PICK k, l \in Nat : k = minted[RowOf(m)] /\ l = minted'[RowOf(m)] /\ k <= l
    BY <2>2 DEF IInv, StoresOK, CountersGrow
  <2>4. RowOf(x) = RowOf(m) /\ m.n <= k /\ m.page <= k
    BY <1>1, <2>1, <2>3, MadeOfFields DEF NumberOK
  <2>5. MintsFor(RowOf(m)) => l = NewId(m.job, m.url)
    BY <2>2, <2>3, FreshId DEF RowOf
  <2>6. x.n <= l /\ x.page <= l
    <3>1. \/ x.n = m.n /\ x.page = m.page
          \/ x.n = l /\ x.page \in {0, m.n}
          \/ x.n = m.page /\ x.page = 0
      BY <1>1, <2>1, <2>5, MadeOfFields
    <3>2. m.n <= l /\ m.page <= l /\ l <= l /\ 0 <= l
      BY <2>2, <2>3, <2>4
    <3> QED
      BY <3>1, <3>2
  <2>7. x.kind # "UrlDiscovered" \/ x.attempt # 1
    <3>1. x.attempt = m.attempt + 1 => x.attempt # 1
      BY <2>2
    <3> QED
      BY <1>1, <2>1, <3>1, MadeOfFields
  <2> QED
    BY <2>3, <2>4, <2>6, <2>7 DEF NumberOK, RowOf
<1>2. ASSUME NEW w \in Replayers, MadeOfReplay(w, x)
      PROVE  NumberOK(x)'
  <2>0. w \in Workers /\ task[w].pc # "idle"
    BY <1>2 DEF Workers, MadeOfReplay
  <2>1. PICK m : m = task[w].msg
    OBVIOUS
  <2>2. m \in Message /\ NumberOK(m) /\ Replayed(IdOf(m))
    BY <1>2, <2>0, <2>1, PresentHand, Busy DEF NumbersOK, MadeOfReplay
  <2>3. NumberOK(m)' /\ Replayed(IdOf(m))'
    BY <2>2, NumberStays DEF CountersGrow, Replayed, IdOf
  <2>4. /\ x.n = m.n /\ x.page = 0 /\ x.job = m.job /\ x.url = m.url
        /\ m.n \in Nat /\ m.page \in Nat
    BY <1>2, <2>1, <2>2 DEF MadeOfReplay, DlqReplay!ReplayedUrl, Message
  <2>5. PICK l \in Nat : l = minted'[RowOf(m)]
    BY <2>2 DEF IInv, StoresOK, RowOf, Message
  <2>6. x.n <= l /\ x.page <= l /\ RowOf(x) = RowOf(m) /\ IdOf(x) = IdOf(m)
    BY <2>3, <2>4, <2>5 DEF NumberOK, RowOf, IdOf
  <2> QED
    BY <2>3, <2>5, <2>6 DEF NumberOK, RowOf, IdOf
<1>3. ASSUME NEW j \in Jobs, NEW u \in Urls, minted[<<j, u>>] = 0, MintsFor(<<j, u>>),
             x.n = NewId(j, u), x.page = 0, x.job = j, x.url = u
      PROVE  NumberOK(x)'
  <2>1. minted'[<<j, u>>] = 1 /\ x.n = 1
    BY <1>3, FreshId
  <2> QED
    BY <1>3, <2>1 DEF NumberOK, RowOf
<1>4. ASSUME NEW w \in Crawlers, MadeOfLink(w, x)
      PROVE  NumberOK(x)'
  <2>1. w \in Workers /\ task[w].pc = "publink" /\ task[w] # Idle
    BY <1>4 DEF MadeOfLink, Workers, Idle, Holding
  <2>2. task[w].msg.job \in Jobs /\ task[w].cur \in Urls
    BY <2>1, Busy DEF Message, IInv, HandsOK, HandOK
  <2>3. PICK y \in Jobs \X Urls : y = <<task[w].msg.job, task[w].cur>>
    BY <2>2
  <2>4. Pending(y)
    BY <2>1, <2>3 DEF Pending, LinkPending
  <2>5. minted[<<task[w].msg.job, task[w].cur>>] = 0
    BY <2>3, <2>4 DEF PendingsOK, PendingOK
  <2> QED
    BY <1>3, <1>4, <2>2, <2>5 DEF MadeOfLink, Discovered
<1>5. ASSUME NEW j \in Jobs, MadeOfSeed(j, x)
      PROVE  NumberOK(x)'
  <2>1. submit[j].pc = "publish" /\ submit[j].cur \in Urls
    BY <1>5 DEF MadeOfSeed, IInv, SubmitsOK, SubmitOK
  <2>2. PICK y \in Jobs \X Urls : y = <<j, submit[j].cur>>
    BY <2>1
  <2>3. Pending(y)
    BY <2>1, <2>2 DEF Pending, SeedPending
  <2>4. minted[<<j, submit[j].cur>>] = 0
    BY <2>2, <2>3 DEF PendingsOK, PendingOK
  <2> QED
    BY <1>3, <1>5, <2>1, <2>4 DEF MadeOfSeed, Discovered
<1> QED
  BY <1>1, <1>2, <1>4, <1>5 DEF Made

\* Numbers stay in order.
LEMMA NumbersStay ==
  ASSUME IInv, IInv', NumbersOK, PendingsOK, [Next]_vars
  PROVE  NumbersOK'
<1>0. CountersGrow
  BY StepsGrow
<1>1. ASSUME NEW m \in Present' PROVE NumberOK(m)'
  <2>1. CASE m \in Present
    BY <1>0, <2>1, NumberStays, AllGood DEF NumbersOK, Present, Good
  <2>2. CASE Made(m)
    BY <1>0, <2>2, MadeNumbers
  <2> QED
    BY <1>1, <2>1, <2>2, StepsMake DEF AllMade
<1>2. ASSUME NEW v \in Workers, task'[v].pc = "replay" PROVE Replayed(IdOf(task[v].msg))'
  <2>1. CASE task[v].pc = "replay" /\ task'[v].msg = task[v].msg
    BY <1>0, <2>1 DEF NumbersOK, CountersGrow, Replayed, IdOf
  <2> QED
    BY <1>2, <2>1, ReplayBegins
<1> QED
  BY <1>1, <1>2 DEF NumbersOK
-----------------------------------------------------------------------------

\* What nobody sets out to announce is as pending as it was, or less.
FewerPend(x) == /\ SeedPending(x)' => SeedPending(x)
                /\ \A w \in Crawlers : LinkPending(w, x)' => LinkPending(w, x)

\* Nobody sets out to announce a URL.
NoNewPending == seen \subseteq seen' /\ \A x \in Jobs \X Urls : FewerPend(x)

LEMMA FewerAlone ==
  ASSUME NEW x, FewerPend(x), AloneOn(x)
  PROVE  /\ AloneOn(x)'
         /\ Pending(x)' => Pending(x)
<1>1. ASSUME NEW w \in Crawlers, LinkPending(w, x)', SeedPending(x)'
      PROVE  FALSE
  <2>1. LinkPending(w, x) /\ SeedPending(x)
    BY <1>1 DEF FewerPend
  <2> QED
    BY <2>1 DEF AloneOn
<1>2. ASSUME NEW v \in Crawlers, NEW w \in Crawlers, LinkPending(v, x)', LinkPending(w, x)'
      PROVE  v = w
  <2>1. LinkPending(v, x) /\ LinkPending(w, x)
    BY <1>2 DEF FewerPend
  <2> QED
    BY <2>1 DEF AloneOn
<1>3. AloneOn(x)'
  BY <1>1, <1>2 DEF AloneOn
<1>4. CASE SeedPending(x)'
  BY <1>3, <1>4 DEF FewerPend, Pending
<1>5. ASSUME NEW w \in Crawlers, LinkPending(w, x)'
      PROVE  Pending(x)
  BY <1>5 DEF FewerPend, Pending
<1> QED
  BY <1>3, <1>4, <1>5 DEF Pending

LEMMA PendingsStay ==
  ASSUME PendingsOK, NoNewPending, UNCHANGED minted
  PROVE  PendingsOK'
<1>1. ASSUME NEW x \in Jobs \X Urls PROVE PendingOK(x)'
  <2>1. PendingOK(x) /\ AloneOn(x)' /\ (Pending(x)' => Pending(x))
    BY FewerAlone DEF PendingsOK, PendingOK, NoNewPending
  <2> QED
    BY <2>1 DEF PendingOK, NoNewPending
<1> QED
  BY <1>1 DEF PendingsOK

\* An id is made for y, which has been seen and is not, or no longer, pending.
LEMMA PendingsMint ==
  ASSUME IInv, PendingsOK, NoNewPending, NEW y \in Jobs \X Urls, MintsFor(y), y \in seen,
         ~Pending(y)'
  PROVE  PendingsOK'
<1>1. minted \in [Jobs \X Urls -> Nat]
  BY DEF IInv, StoresOK
<1>2. ASSUME NEW x \in Jobs \X Urls PROVE PendingOK(x)'
  <2>1. PendingOK(x) /\ AloneOn(x)' /\ (Pending(x)' => Pending(x))
    BY FewerAlone DEF PendingsOK, PendingOK, NoNewPending
  <2>2. x # y => minted'[x] = minted[x]
    BY <1>1 DEF MintsFor
  <2>4. CASE x = y
    BY <2>1, <2>4 DEF PendingOK, NoNewPending
  <2>5. CASE x # y
    BY <2>1, <2>2, <2>5 DEF PendingOK, NoNewPending
  <2> QED
    BY <2>4, <2>5
<1> QED
  BY <1>2 DEF PendingsOK

\* y is seen for the first time, by whoever is then alone on its way with it.
LEMMA PendingsSee ==
  ASSUME IInv, PendingsOK, NEW y \in Jobs \X Urls, y \notin seen, seen' = seen \cup {y},
         UNCHANGED minted, AloneOn(y)',
         \A x \in (Jobs \X Urls) \ {y} : FewerPend(x)
  PROVE  PendingsOK'
<1>1. minted[y] \in Nat /\ ~(minted[y] > 0)
  BY DEF IInv, StoresOK, PendingsOK, PendingOK
<1>2. minted[y] = 0
  BY <1>1
<1>3. ASSUME NEW x \in Jobs \X Urls, x # y PROVE PendingOK(x)'
  <2>1. PendingOK(x) /\ AloneOn(x)' /\ (Pending(x)' => Pending(x))
    BY <1>3, FewerAlone DEF PendingsOK, PendingOK
  <2> QED
    BY <2>1 DEF PendingOK
<1>4. PendingOK(y)'
  BY <1>2 DEF PendingOK
<1> QED
  BY <1>3, <1>4 DEF PendingsOK

\* A row of which there is a message has been seen and is not pending.
LEMMA PresentSeen ==
  ASSUME IInv, NumbersOK, PendingsOK, NEW m \in Present
  PROVE  RowOf(m) \in Jobs \X Urls /\ RowOf(m) \in seen /\ ~Pending(RowOf(m))
<1>1. m \in Message /\ NumberOK(m)
  BY AllGood DEF Present, Good, NumbersOK
<1>2. PICK x \in Jobs \X Urls : x = RowOf(m)
  BY <1>1 DEF Message, RowOf
<1>3. m.n \in Nat \ {0} /\ minted[x] \in Nat /\ m.n <= minted[x]
  BY <1>1, <1>2 DEF Message, NumberOK, IInv, StoresOK
<1>4. minted[x] > 0 /\ minted[x] # 0
  BY <1>3
<1> QED
  BY <1>2, <1>4 DEF PendingsOK, PendingOK

\* Nobody becomes pending if no submission moves and no crawler does but w,
\* which is not on its way with a link or was so before.
LEMMA NobodyPends ==
  ASSUME NEW w, UNCHANGED <<seen, submit>>,
         UNCHANGED task \/ Others(w),
         w \in Crawlers => \A x \in Jobs \X Urls : LinkPending(w, x)' => LinkPending(w, x)
  PROVE  NoNewPending
<1>1. ASSUME NEW x \in Jobs \X Urls, NEW v \in Crawlers, LinkPending(v, x)'
      PROVE  LinkPending(v, x)
  <2>1. v \in Workers
    BY DEF Workers
  <2>2. CASE v = w
    BY <1>1, <2>2
  <2>3. CASE v # w
    BY <1>1, <2>1, <2>3 DEF Others, LinkPending
  <2> QED
    BY <2>2, <2>3
<1> QED
  BY <1>1 DEF NoNewPending, FewerPend, SeedPending

\* The report of a failure.
LEMMA ReportsPend ==
  ASSUME IInv, NumbersOK, PendingsOK, NEW w \in Workers, NEW stage, ReportStep(w, stage)
  PROVE  PendingsOK'
<1>1. task[w].pc # "idle" /\ Others(w) /\ task'[w].pc = "ack" /\ UNCHANGED <<seen, submit>>
  BY DEF ReportStep, Goes, Gets
<1>2. NoNewPending
  BY <1>1, NobodyPends DEF LinkPending
<1>3. CASE UNCHANGED minted
  BY <1>2, <1>3, PendingsStay
<1>4. CASE MintsFor(RowOf(task[w].msg))
  <2>1. PICK y : y = RowOf(task[w].msg)
    OBVIOUS
  <2>2. y \in Jobs \X Urls /\ y \in seen /\ ~Pending(y)
    BY <1>1, <2>1, PresentHand, PresentSeen
  <2>3. ~Pending(y)'
    BY <1>2, <2>2, FewerAlone DEF NoNewPending, PendingsOK, PendingOK
  <2> QED
    BY <1>2, <1>4, <2>1, <2>2, <2>3, PendingsMint
<1> QED
  BY <1>3, <1>4 DEF ReportStep, MintsFor

\* The steps that leave the minted ids and the seen set alone and give no
\* crawler a link to announce.
LEMMA QuietsPend ==
  ASSUME IInv, PendingsOK, NEW w, UNCHANGED <<seen, submit, minted>>,
         UNCHANGED task \/ Others(w),
         w \in Crawlers => \/ task'[w].pc \notin {"queue", "publink"}
                          \/ /\ task[w].pc \in {"queue", "publink"}
                             /\ task'[w].msg = task[w].msg /\ task'[w].cur = task[w].cur
                          \/ UNCHANGED task
  PROVE  PendingsOK'
<1>1. NoNewPending
  BY NobodyPends DEF LinkPending
<1> QED
  BY <1>1, PendingsStay

\* A crawler finds a new link.
LEMMA SeeLinksPend ==
  ASSUME IInv, PendingsOK, NEW w \in Crawlers, NEW u \in Urls, SeeLinkStep(w, u)
  PROVE  PendingsOK'
<1>1. Others(w) /\ task[w].pc = "links" /\ UNCHANGED <<submit, minted>> /\ w \in Workers
  BY DEF SeeLinkStep, Gets, Workers
<1>2. CASE task'[w].pc = "links" /\ UNCHANGED seen
  BY <1>1, <1>2, QuietsPend
<1>3. CASE /\ <<task[w].msg.job, u>> \notin seen /\ seen' = seen \cup {<<task[w].msg.job, u>>}
           /\ Gets(w, "queue", task[w].msg, task[w].links \ {u}, u)
  <2>1. task[w].msg.job \in Jobs
    BY <1>1, Busy DEF Message
  <2>2. PICK y \in Jobs \X Urls : y = <<task[w].msg.job, u>>
    BY <2>1
  <2>3. \A x : LinkPending(w, x)' => x[1] = y[1] /\ x[2] = y[2]
    BY <1>3, <2>2 DEF LinkPending, Gets
  <2>5. ASSUME NEW x \in Jobs \X Urls, NEW v \in Crawlers, v # w, LinkPending(v, x)'
        PROVE  LinkPending(v, x)
    <3>1. v \in Workers
      BY DEF Workers
    <3> QED
      BY <1>1, <2>5, <3>1 DEF Others, LinkPending
  <2>6. ASSUME NEW x \in (Jobs \X Urls) \ {y} PROVE FewerPend(x)
    <3>1. SeedPending(x)' => SeedPending(x)
      BY <1>1 DEF SeedPending
    <3>2. ~LinkPending(w, x)'
      BY <2>3
    <3> QED
      BY <2>5, <3>1, <3>2 DEF FewerPend
  <2>7. ~Pending(y)
    BY <1>3, <2>2 DEF PendingsOK, PendingOK
  <2>8. ~SeedPending(y)' /\ \A v \in Crawlers : LinkPending(v, y)' => v = w
    <3>1. ~SeedPending(y)'
      BY <1>1, <2>7 DEF Pending, SeedPending
    <3>2. ASSUME NEW v \in Crawlers, LinkPending(v, y)', v # w PROVE FALSE
      BY <2>5, <2>7, <3>2 DEF Pending
    <3> QED
      BY <3>1, <3>2
  <2>9. AloneOn(y)'
    BY <2>8 DEF AloneOn
  <2> QED
    BY <1>1, <1>3, <2>2, <2>6, <2>9, PendingsSee
<1> QED
  BY <1>2, <1>3 DEF SeeLinkStep, Gets

\* A crawler announces the link it has found.
LEMMA PublishLinksPend ==
  ASSUME IInv, PendingsOK, NEW w \in Crawlers, PublishLinkStep(w)
  PROVE  PendingsOK'
<1>1. /\ task[w].pc = "publink" /\ task[w] # Idle /\ w \in Workers
      /\ Others(w) /\ task'[w].pc = "links" /\ UNCHANGED <<seen, submit>>
  BY DEF PublishLinkStep, Gets, Workers, Idle, Holding
<1>2. task[w].msg.job \in Jobs /\ task[w].cur \in Urls
  BY <1>1, Busy DEF Message, IInv, HandsOK, HandOK
<1>3. PICK y \in Jobs \X Urls : y = <<task[w].msg.job, task[w].cur>>
  BY <1>2
<1>4. NoNewPending
  BY <1>1, NobodyPends DEF LinkPending
<1>5. LinkPending(w, y) /\ Pending(y)
  BY <1>1, <1>3 DEF LinkPending, Pending
<1>6. y \in seen /\ AloneOn(y)
  BY <1>5 DEF PendingsOK, PendingOK
<1>7. ~Pending(y)'
  <2>1. ~SeedPending(y)'
    BY <1>4, <1>5, <1>6 DEF NoNewPending, FewerPend, AloneOn
  <2>2. ~LinkPending(w, y)'
    BY <1>1 DEF LinkPending
  <2>3. ASSUME NEW v \in Crawlers, LinkPending(v, y)' PROVE FALSE
    <3>1. LinkPending(v, y)
      BY <1>4, <2>3 DEF NoNewPending, FewerPend
    <3>2. v = w
      BY <1>5, <1>6, <3>1 DEF AloneOn
    <3> QED
      BY <2>2, <2>3, <3>2
  <2> QED
    BY <2>1, <2>3 DEF Pending
<1>8. MintsFor(y)
  BY <1>3 DEF PublishLinkStep, MintsFor
<1> QED
  BY <1>4, <1>6, <1>7, <1>8, PendingsMint

LEMMA CrawlersPend ==
  ASSUME IInv, NumbersOK, PendingsOK, NEW w \in Crawlers, CrawlerDoes(w)
  PROVE  PendingsOK'
<1>0. w \in Workers
  BY DEF Workers
<1>1. ASSUME NEW m, ClaimStep(w, "discovered", m, "crawler", "dedup")
      PROVE  PendingsOK'
  BY <1>1, QuietsPend DEF ClaimStep, Holds, Holding
<1>2. ASSUME NEW m, DropStep("discovered", m, "crawler")
      PROVE  PendingsOK'
  BY <1>2, QuietsPend DEF DropStep
<1>3. CASE KeyStep(w) \/ SkipStep(w) \/ FetchStep(w) \/ MarkStep(w)
  BY <1>3, QuietsPend DEF KeyStep, SkipStep, FetchStep, MarkStep, Goes, Gets
<1>4. CASE PublishStep(w, "publish", "mark", "fetched", Crawler!HtmlFetched(task[w].msg))
  BY <1>4, QuietsPend DEF PublishStep, Goes, Gets
<1>5. CASE QueueLinkStep(w)
  BY <1>5, QuietsPend DEF QueueLinkStep, Goes, Gets
<1>6. CASE QuietStep(w) \/ FailStep(w)
  BY <1>6, QuietsPend DEF QuietStep, FailStep, Goes, Gets
<1>7. CASE AckStep(w)
  BY <1>7, QuietsPend DEF AckStep, Rests, Idle, Holding
<1> QED
  BY <1>0, <1>1, <1>2, <1>3, <1>4, <1>5, <1>6, <1>7, SeeLinksPend, PublishLinksPend, ReportsPend
     DEF CrawlerDoes

LEMMA StagesPend ==
  ASSUME IInv, NumbersOK, PendingsOK,
         \/ \E w \in Parsers : ParserDoes(w)
         \/ \E w \in Cleaners : CleanerDoes(w)
  PROVE  PendingsOK'
<1>1. ASSUME NEW w, NEW t, NEW m, NEW stage, NEW pc \in {"parse", "upsert"},
             ClaimStep(w, t, m, stage, pc)
      PROVE  PendingsOK'
  BY <1>1, QuietsPend DEF ClaimStep, Holds, Holding
<1>2. ASSUME NEW t, NEW m, NEW stage, DropStep(t, m, stage)
      PROVE  PendingsOK'
  BY <1>2, QuietsPend DEF DropStep
<1>3. ASSUME NEW w, NEW t, NEW x, PublishStep(w, "parse", "ack", t, x)
      PROVE  PendingsOK'
  BY <1>3, QuietsPend DEF PublishStep, Goes, Gets
<1>4. ASSUME NEW w, CommitStep(w) \/ QuietStep(w) \/ FailStep(w)
      PROVE  PendingsOK'
  BY <1>4, QuietsPend DEF CommitStep, QuietStep, FailStep, Goes, Gets
<1>5. ASSUME NEW w, AckStep(w)
      PROVE  PendingsOK'
  BY <1>5, QuietsPend DEF AckStep, Rests, Idle, Holding
<1>6. ASSUME NEW w \in Parsers, ParserDoes(w) PROVE PendingsOK'
  <2>1. w \in Workers
    BY DEF Workers
  <2> QED
    BY <1>1, <1>2, <1>3, <1>5, <1>6, <2>1, ReportsPend DEF ParserDoes
<1>7. ASSUME NEW w \in Cleaners, CleanerDoes(w) PROVE PendingsOK'
  <2>1. w \in Workers
    BY DEF Workers
  <2> QED
    BY <1>1, <1>2, <1>4, <1>5, <1>7, <2>1, ReportsPend DEF CleanerDoes
<1> QED
  BY <1>6, <1>7

LEMMA RetriersPend ==
  ASSUME IInv, NumbersOK, PendingsOK, NEW w \in Retriers, RetryDoes(w)
  PROVE  PendingsOK'
<1>1. CASE AckStep(w)
  BY <1>1, QuietsPend DEF AckStep, Rests, Idle, Holding
<1>2. ASSUME NEW f, NEW t, NEW x, RetryStep(w, f, t, x)
      PROVE  /\ f \in Present /\ Others(w) /\ task'[w].pc = "ack"
             /\ UNCHANGED <<seen, submit>>
  <2>1. f \in topic["failed"] /\ "failed" \in Topics
    BY <1>2 DEF RetryStep, Topics
  <2> QED
    BY <1>2, <2>1 DEF RetryStep, Holds, Holding, Present, Waiting
<1>3. ASSUME NEW f, NEW t, NEW x, RetryStep(w, f, t, x), UNCHANGED minted
      PROVE  PendingsOK'
  BY <1>2, <1>3, QuietsPend
<1>4. ASSUME NEW f, NEW t, NEW x, RetryStep(w, f, t, x), MintsFor(RowOf(f))
      PROVE  PendingsOK'
  <2>1. f \in Present /\ Others(w) /\ task'[w].pc = "ack" /\ UNCHANGED <<seen, submit>>
    BY <1>2, <1>4
  <2>2. PICK y : y = RowOf(f)
    OBVIOUS
  <2>3. y \in Jobs \X Urls /\ y \in seen /\ ~Pending(y)
    BY <2>1, <2>2, PresentSeen
  <2>4. NoNewPending
    BY <2>1, NobodyPends DEF LinkPending
  <2>5. ~Pending(y)'
    BY <2>3, <2>4, FewerAlone DEF NoNewPending, PendingsOK, PendingOK
  <2> QED
    BY <1>4, <2>2, <2>3, <2>4, <2>5, PendingsMint
<1> QED
  BY <1>1, <1>3, <1>4 DEF RetryDoes, MintsFor

LEMMA ReplayersPend ==
  ASSUME IInv, PendingsOK, NEW w \in Replayers, ReplayDoes(w)
  PROVE  PendingsOK'
<1>1. ASSUME NEW m, CountStep(w, m) PROVE PendingsOK'
  BY <1>1, QuietsPend DEF CountStep, Holds, Holding
<1>2. ASSUME NEW t, NEW x, PublishStep(w, "replay", "ack", t, x) PROVE PendingsOK'
  BY <1>2, QuietsPend DEF PublishStep, Goes, Gets
<1>3. CASE QuietStep(w)
  BY <1>3, QuietsPend DEF QuietStep, Goes, Gets
<1>4. CASE AckStep(w)
  BY <1>4, QuietsPend DEF AckStep, Rests, Idle, Holding
<1> QED
  BY <1>1, <1>2, <1>3, <1>4 DEF ReplayDoes

\* Nobody becomes pending if no crawler moves and no submission sets out to
\* announce a seed that it was not announcing.
LEMMA SeedsPend ==
  ASSUME NEW j \in Jobs, \A i \in Jobs \ {j} : submit'[i] = submit[i],
         UNCHANGED <<task, seen>>,
         \/ submit'[j].pc \notin {"queue", "publish"}
         \/ submit[j].pc \in {"queue", "publish"} /\ submit'[j].cur = submit[j].cur
  PROVE  NoNewPending
<1>1. ASSUME NEW x \in Jobs \X Urls PROVE FewerPend(x)
  <2>1. SeedPending(x)' => SeedPending(x)
    <3>1. x[1] \in Jobs
      OBVIOUS
    <3>2. CASE x[1] = j
      BY <3>2 DEF SeedPending
    <3>3. CASE x[1] # j
      BY <3>1, <3>3 DEF SeedPending
    <3> QED
      BY <3>2, <3>3
  <2>2. \A w \in Crawlers : LinkPending(w, x)' => LinkPending(w, x)
    BY DEF LinkPending
  <2> QED
    BY <2>1, <2>2 DEF FewerPend
<1> QED
  BY <1>1 DEF NoNewPending

\* A submission finds a seed that is new to its job.
LEMMA SeeSeedsPend ==
  ASSUME IInv, PendingsOK, NEW j \in Jobs, NEW u \in Urls, SeeSeedStep(j, u)
  PROVE  PendingsOK'
<1>1. PICK y \in Jobs \X Urls : y = <<j, u>>
  OBVIOUS
<1>2. /\ y \notin seen /\ seen' = seen \cup {y} /\ UNCHANGED <<minted, task>>
      /\ submit'[j].cur = u /\ \A i \in Jobs \ {j} : submit'[i] = submit[i]
  BY <1>1 DEF SeeSeedStep, SubmitGets
<1>3. ASSUME NEW x \in (Jobs \X Urls) \ {y} PROVE FewerPend(x)
  <2>1. SeedPending(x)' => SeedPending(x)
    <3>1. x[1] \in Jobs /\ x[2] \in Urls /\ x = <<x[1], x[2]>>
      OBVIOUS
    <3>2. CASE x[1] = j
      BY <1>1, <1>2, <3>1, <3>2 DEF SeedPending
    <3>3. CASE x[1] # j
      BY <1>2, <3>1, <3>3 DEF SeedPending
    <3> QED
      BY <3>2, <3>3
  <2>2. \A w \in Crawlers : LinkPending(w, x)' => LinkPending(w, x)
    BY <1>2 DEF LinkPending
  <2> QED
    BY <2>1, <2>2 DEF FewerPend
<1>4. ~Pending(y)
  BY <1>2 DEF PendingsOK, PendingOK
<1>5. \A w \in Crawlers : ~LinkPending(w, y)'
  BY <1>2, <1>4 DEF LinkPending, Pending
<1>6. AloneOn(y)'
  BY <1>5 DEF AloneOn
<1> QED
  BY <1>2, <1>3, <1>6, PendingsSee

\* A submission announces its seed.
LEMMA PublishSeedsPend ==
  ASSUME IInv, PendingsOK, NEW j \in Jobs, PublishSeedStep(j)
  PROVE  PendingsOK'
<1>1. /\ submit[j].pc = "publish" /\ submit'[j].pc = "next" /\ UNCHANGED <<task, seen>>
      /\ \A i \in Jobs \ {j} : submit'[i] = submit[i]
  BY DEF PublishSeedStep, SubmitGets
<1>2. submit[j].cur \in Urls
  BY <1>1 DEF IInv, SubmitsOK, SubmitOK
<1>3. PICK y \in Jobs \X Urls : y = <<j, submit[j].cur>>
  BY <1>2
<1>4. NoNewPending
  BY <1>1, SeedsPend
<1>5. SeedPending(y) /\ Pending(y)
  BY <1>1, <1>3 DEF SeedPending, Pending
<1>6. y \in seen /\ AloneOn(y)
  BY <1>5 DEF PendingsOK, PendingOK
<1>7. ~SeedPending(y)'
  BY <1>1, <1>3 DEF SeedPending
<1>8. ASSUME NEW v \in Crawlers, LinkPending(v, y)' PROVE FALSE
  <2>1. LinkPending(v, y)
    BY <1>4, <1>8 DEF NoNewPending, FewerPend
  <2> QED
    BY <1>5, <1>6, <2>1 DEF AloneOn
<1>9. ~Pending(y)'
  BY <1>7, <1>8 DEF Pending
<1>10. MintsFor(y)
  BY <1>3 DEF PublishSeedStep, MintsFor
<1> QED
  BY <1>4, <1>6, <1>9, <1>10, PendingsMint

LEMMA SubmitsPend ==
  ASSUME IInv, PendingsOK, NEW j \in Jobs, SubmitDoes(j)
  PROVE  PendingsOK'
<1>1. CASE CreateStep(j) \/ RestStep(j) \/ QueueSeedStep(j) \/ AbandonStep(j)
  <2>1. /\ \A i \in Jobs \ {j} : submit'[i] = submit[i]
        /\ UNCHANGED <<task, seen, minted>>
        /\ \/ submit'[j].pc \notin {"queue", "publish"}
           \/ submit[j].pc = "queue" /\ submit'[j].cur = submit[j].cur
    BY <1>1 DEF CreateStep, RestStep, QueueSeedStep, AbandonStep, SubmitGets
  <2>2. NoNewPending
    BY <2>1, SeedsPend
  <2> QED
    BY <2>1, <2>2, PendingsStay
<1> QED
  BY <1>1, SeeSeedsPend, PublishSeedsPend DEF SubmitDoes

LEMMA PendingsKeep ==
  ASSUME IInv, NumbersOK, PendingsOK, [Next]_vars
  PROVE  PendingsOK'
<1>1. ASSUME NEW w \in Workers, CrashStep(w) PROVE PendingsOK'
  BY <1>1, QuietsPend DEF CrashStep, Rests, Idle, Holding
<1>2. CASE \/ \E w \in Workers : RedeliverStep(w)
           \/ \E u \in Urls : ExpireStep(u)
           \/ UNCHANGED vars
  <2>1. UNCHANGED <<seen, submit, minted, task>>
    BY <1>2 DEF RedeliverStep, ExpireStep, vars, kafka, redis
  <2> QED
    BY <2>1, QuietsPend
<1> QED
  BY <1>1, <1>2, AllSteps, CrawlersPend, StagesPend, RetriersPend, ReplayersPend, SubmitsPend
     DEF SystemDoes

\* A URL is announced to a job once, by whichever seed or page names it first;
\* any later announcement is a retry's, or a DLQ replay's.
THEOREM AnnouncesOnce == Spec => []AnnouncedOnce
<1>1. Init => NumbersOK /\ PendingsOK
  <2> SUFFICES ASSUME Init PROVE NumbersOK /\ PendingsOK
    OBVIOUS
  <2>1. /\ \A w \in Workers : task[w] = Idle
        /\ \A j \in Jobs : submit[j].pc = "new"
        /\ \A x \in Jobs \X Urls : minted[x] = 0
    BY DEF Init
  <2>2. Present = {}
    BY <2>1 DEF Init, Present, Waiting, InHand, IsIdle
  <2>3. NumbersOK
    BY <2>1, <2>2 DEF NumbersOK, Idle, Holding
  <2>4. ASSUME NEW x \in Jobs \X Urls PROVE PendingOK(x)
    <3>1. \A w \in Crawlers : ~LinkPending(w, x)
      BY <2>1 DEF LinkPending, Workers, Idle, Holding
    <3>2. ~SeedPending(x)
      BY <2>1 DEF SeedPending
    <3>3. ~(minted[x] > 0)
      BY <2>1
    <3> QED
      BY <3>1, <3>2, <3>3 DEF PendingOK, Pending, AloneOn
  <2> QED
    BY <2>3, <2>4 DEF PendingsOK
<1>2. IInv /\ NumbersOK /\ PendingsOK /\ [Next]_vars => NumbersOK' /\ PendingsOK'
  BY NextKeeps, NumbersStay, PendingsKeep
<1>3. NumbersOK => AnnouncedOnce
  BY DEF NumbersOK, NumberOK, AnnouncedOnce, Present
<1> QED
  BY <1>1, <1>2, <1>3, PipelineCorrect, PTL DEF Spec
=============================================================================
