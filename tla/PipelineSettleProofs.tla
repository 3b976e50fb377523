------------------------ MODULE PipelineSettleProofs ------------------------
(***************************************************************************)
(* What is left of a crawl when all is quiet: a row that no step will end  *)
(* has been left behind by a crash or a fault, and without any failure     *)
(* every page announced is in the index.                                   *)
(***************************************************************************)
EXTENDS PipelineProofs

RowIds == Jobs \X Urls

\* Who has the row x to work on: a submission or a crawler that has queued it
\* and is about to announce it, a topic, a worker in one of some places.
SeedQueued(x) == submit[x[1]].pc = "publish" /\ submit[x[1]].cur = x[2]
LinkQueuedBy(w, x) ==
  task[w].pc = "publink" /\ task[w].msg.job = x[1] /\ task[w].cur = x[2]
LinkQueued(x) == \E w \in Crawlers : LinkQueuedBy(w, x)
Has(t, x) == \E m \in topic[t] : RowOf(m) = x
WorksOn(w, pcs, x) == task[w].pc \in pcs /\ RowOf(task[w].msg) = x
AtWork(ws, pcs, x) == \E w \in ws : WorksOn(w, pcs, x)
ClaimedBy(x, stage) == \E n \in Nat : <<<<x[1], x[2], n>>, stage>> \in ledger
-----------------------------------------------------------------------------
\* If only w moves, only w can let go of a row.
LEMMA OthersLink ==
  ASSUME NEW w, Others(w), NEW x
  PROVE  LinkQueued(x) => LinkQueued(x)' \/ (w \in Crawlers /\ LinkQueuedBy(w, x))
<1>1. ASSUME NEW v \in Crawlers, LinkQueuedBy(v, x), v # w
      PROVE  LinkQueued(x)'
  <2>1. task'[v] = task[v]
    BY <1>1 DEF Others, Workers
  <2> QED
    BY <1>1, <2>1 DEF LinkQueued, LinkQueuedBy
<1> QED
  BY <1>1 DEF LinkQueued

LEMMA OthersWork ==
  ASSUME NEW w, Others(w), NEW ws \in SUBSET Workers, NEW pcs, NEW x
  PROVE  AtWork(ws, pcs, x) => AtWork(ws, pcs, x)' \/ (w \in ws /\ WorksOn(w, pcs, x))
<1>1. ASSUME NEW v \in ws, WorksOn(v, pcs, x), v # w
      PROVE  AtWork(ws, pcs, x)'
  <2>1. task'[v] = task[v]
    BY <1>1 DEF Others
  <2> QED
    BY <1>1, <2>1 DEF AtWork, WorksOn
<1> QED
  BY <1>1 DEF AtWork

\* A topic keeps what is not taken from it.
LEMMA HasGrows ==
  ASSUME NEW t, topic[t] \subseteq topic'[t], NEW x
  PROVE  Has(t, x) => Has(t, x)'
BY DEF Has

LEMMA AddsGrow ==
  ASSUME IInv, NEW t \in Topics, NEW m, Adds(t, m)
  PROVE  (\A s \in Topics : topic[s] \subseteq topic'[s]) /\ m \in topic'[t]
BY DEF IInv, TopicsOK, Adds

LEMMA RemovesOne ==
  ASSUME IInv, NEW t \in Topics, NEW m, Removes(t, m), NEW s \in Topics, NEW x
  PROVE  Has(s, x) => Has(s, x)' \/ (s = t /\ x = RowOf(m))
<1>1. topic'[s] = IF s = t THEN topic[s] \ {m} ELSE topic[s]
  BY DEF IInv, TopicsOK, Removes
<1> QED
  BY <1>1 DEF Has

\* A row that is marked, and the others.
LEMMA OneRow ==
  ASSUME IInv, NEW m \in Message, NEW s, SetsRow(m, s), NEW x \in RowIds
  PROVE  row'[x] = IF x = RowOf(m) THEN s ELSE row[x]
BY DEF IInv, StoresOK, SetsRow, RowIds

LEMMA OneQueued ==
  ASSUME IInv, NEW j \in Jobs, NEW u \in Urls, QueueUrl(j, u), NEW x \in RowIds
  PROVE  row'[x] = IF x = <<j, u>> /\ row[x] = "none" THEN "queued" ELSE row[x]
BY DEF IInv, StoresOK, QueueUrl, RowIds
-----------------------------------------------------------------------------
\* A row that is queued or claimed will be ended by somebody.
Attended(x) ==
  \/ row[x] = "queued" /\ (SeedQueued(x) \/ LinkQueued(x) \/ Has("discovered", x))
  \/ row[x] = "claimed" /\ AtWork(Crawlers, {"dedup", "fetch", "publish", "mark"}, x)
Settled(x) == row[x] \in {"queued", "claimed"} => Attended(x)
Neglected == {x \in RowIds : ~Settled(x)}

\* Once the crawler has claimed an event of a row, the row is never queued
\* again: to drop a duplicate of the event leaves nobody waiting.
ClaimsLeaveQueue ==
  \A x \in RowIds : ClaimedBy(x, "crawler") => row[x] \notin {"none", "queued"}

Kept == \A x \in RowIds : Settled(x) => Settled(x)'
KeptBut(e) == \A x \in RowIds : x # e /\ Settled(x) => Settled(x)'

\* The step of a worker that takes nothing from the topic of the announced,
\* and lets go of a row only by ending or by announcing it.
LEMMA WorkerSettles ==
  ASSUME NEW w, Others(w), UNCHANGED submit, NEW x,
         row'[x] = row[x] \/ row'[x] \notin {"queued", "claimed"},
         Has("discovered", x) /\ row[x] = "queued" => Has("discovered", x)',
         w \in Crawlers /\ LinkQueuedBy(w, x) =>
           LinkQueuedBy(w, x)' \/ Has("discovered", x)',
         w \in Crawlers /\ WorksOn(w, {"dedup", "fetch", "publish", "mark"}, x) =>
           \/ WorksOn(w, {"dedup", "fetch", "publish", "mark"}, x)'
           \/ row'[x] # "claimed"
  PROVE  Settled(x) => Settled(x)'
<1> SUFFICES ASSUME Settled(x), row'[x] = row[x], row[x] \in {"queued", "claimed"}
             PROVE  Attended(x)'
  BY DEF Settled
<1>1. CASE row[x] = "queued"
  <2>1. SeedQueued(x) => SeedQueued(x)'
    BY DEF SeedQueued
  <2>2. LinkQueued(x) => LinkQueued(x)' \/ Has("discovered", x)'
    <3>1. w \in Crawlers /\ LinkQueuedBy(w, x)' => LinkQueued(x)'
      BY DEF LinkQueued
    <3> QED
      BY <3>1, OthersLink
  <2> QED
    BY <1>1, <2>1, <2>2 DEF Settled, Attended
<1>2. CASE row[x] = "claimed"
  <2>1. Crawlers \in SUBSET Workers
    BY DEF Workers
  <2>2. /\ w \in Crawlers
        /\ WorksOn(w, {"dedup", "fetch", "publish", "mark"}, x)'
        => AtWork(Crawlers, {"dedup", "fetch", "publish", "mark"}, x)'
    BY DEF AtWork
  <2> QED
    BY <1>2, <2>1, <2>2, OthersWork DEF Settled, Attended
<1> QED
  BY <1>1, <1>2

\* The topics only grow, as far as the announced go.
LEMMA AddsKeep ==
  ASSUME IInv, NEW t \in Topics, NEW m, Adds(t, m), NEW x
  PROVE  Has("discovered", x) => Has("discovered", x)'
BY AddsGrow, HasGrows DEF Topics

\* The message in a busy worker's hand.
LEMMA InHandRow ==
  ASSUME IInv, NEW w \in Workers, task[w].pc # "idle"
  PROVE  task[w].msg \in Message /\ RowOf(task[w].msg) \in RowIds
BY Busy DEF RowOf, RowIds, Message

\* The crawler claims an event.
LEMMA ClaimSettles ==
  ASSUME IInv, NEW w \in Crawlers, NEW m,
         ClaimStep(w, "discovered", m, "crawler", "dedup"), SetsRow(m, "claimed")
  PROVE  Kept
<1> SUFFICES ASSUME NEW x \in RowIds PROVE Settled(x) => Settled(x)'
  BY DEF Kept
<1>1. /\ task[w].pc = "idle" /\ Others(w) /\ Removes("discovered", m) /\ UNCHANGED submit
      /\ task'[w].pc = "dedup" /\ task'[w].msg = m /\ "discovered" \in Topics
  BY DEF ClaimStep, Holds, Holding, Idle, Topics
<1>2. m \in Message
  BY <1>1 DEF ClaimStep, IInv, TopicsOK, Good
<1>3. CASE x = RowOf(m)
  <2>1. row'[x] = "claimed"
    BY <1>2, <1>3, OneRow
  <2>2. AtWork(Crawlers, {"dedup", "fetch", "publish", "mark"}, x)'
    BY <1>1, <1>3 DEF AtWork, WorksOn, RowOf
  <2> QED
    BY <2>1, <2>2 DEF Settled, Attended
<1>4. CASE x # RowOf(m)
  <2>1. row'[x] = row[x]
    BY <1>2, <1>4, OneRow
  <2>2. Has("discovered", x) => Has("discovered", x)'
    BY <1>1, <1>4, RemovesOne
  <2> QED
    BY <1>1, <2>1, <2>2, WorkerSettles DEF LinkQueuedBy, WorksOn
<1> QED
  BY <1>3, <1>4

\* A stage drops an event that it has claimed.
LEMMA DropSettles ==
  ASSUME IInv, ClaimsLeaveQueue, NEW t \in Topics, NEW m, NEW stage, DropStep(t, m, stage),
         t = "discovered" => stage = "crawler"
  PROVE  Kept
<1> SUFFICES ASSUME NEW x \in RowIds PROVE Settled(x) => Settled(x)'
  BY DEF Kept
<1>1. UNCHANGED <<row, task, submit>> /\ Removes(t, m) /\ "discovered" \in Topics
  BY DEF DropStep, Topics
<1>2. Has("discovered", x) /\ row[x] = "queued" => Has("discovered", x)'
  <2> SUFFICES ASSUME Has("discovered", x), t = "discovered", x = RowOf(m)
               PROVE  row[x] # "queued"
    BY <1>1, RemovesOne
  <2>1. m \in Message /\ <<<<m.job, m.url, m.n>>, "crawler">> \in ledger
    BY DEF DropStep, IdOf, IInv, TopicsOK, Good
  <2>2. m.n \in Nat /\ x[1] = m.job /\ x[2] = m.url
    BY <2>1 DEF RowOf, Message
  <2>3. ClaimedBy(x, "crawler")
    BY <2>1, <2>2 DEF ClaimedBy
  <2> QED
    BY <2>3 DEF ClaimsLeaveQueue
<1>3. \A w : Others(w)
  BY <1>1 DEF Others
<1> QED
  BY <1>1, <1>2, <1>3, WorkerSettles DEF LinkQueuedBy, WorksOn

\* A worker marks the row of the message in its hand as ended, or at least
\* fetched, and has no link to announce.
LEMMA EndSettles ==
  ASSUME IInv, NEW w \in Workers, task[w].pc # "idle", NEW s, s \notin {"queued", "claimed"},
         SetsRow(task[w].msg, s), Others(w), UNCHANGED <<submit, topic>>
  PROVE  /\ task[w].pc # "publink" => Kept
         /\ task[w].pc = "publink" => KeptBut(<<task[w].msg.job, task[w].cur>>)
<1>1. PICK m \in Message : m = task[w].msg /\ RowOf(m) \in RowIds
  BY InHandRow
<1>2. ASSUME NEW x \in RowIds,
             task[w].pc = "publink" => x # <<task[w].msg.job, task[w].cur>>
      PROVE  Settled(x) => Settled(x)'
  <2>1. row'[x] = IF x = RowOf(m) THEN s ELSE row[x]
    BY <1>1, OneRow
  <2>2. Has("discovered", x) => Has("discovered", x)'
    BY DEF Has
  <2>3. ~LinkQueuedBy(w, x)
    BY <1>2 DEF LinkQueuedBy, RowIds
  <2>4. WorksOn(w, {"dedup", "fetch", "publish", "mark"}, x) => row'[x] # "claimed"
    BY <1>1, <2>1 DEF WorksOn
  <2> QED
    BY <2>1, <2>2, <2>3, <2>4, WorkerSettles
<1> QED
  BY <1>2 DEF Kept, KeptBut

\* A worker goes on, at most publishes, and keeps hold of the row if it had it.
LEMMA GoesOnSettles ==
  ASSUME IInv, NEW w, Others(w), UNCHANGED <<row, submit>>,
         \/ UNCHANGED topic
         \/ \E t \in Topics : \E m : Adds(t, m),
         w \in Crawlers => /\ task[w].pc # "publink"
                           /\ task[w].pc \in {"dedup", "fetch", "publish", "mark"} =>
                                /\ task'[w].pc \in {"dedup", "fetch", "publish", "mark"}
                                /\ task'[w].msg = task[w].msg
  PROVE  Kept
<1> SUFFICES ASSUME NEW x \in RowIds PROVE Settled(x) => Settled(x)'
  BY DEF Kept
<1>1. Has("discovered", x) => Has("discovered", x)'
  <2>1. CASE UNCHANGED topic
    BY <2>1 DEF Has
  <2> QED
    BY <2>1, AddsKeep
<1>2. w \in Crawlers => ~LinkQueuedBy(w, x)
  BY DEF LinkQueuedBy
<1>3. w \in Crawlers /\ WorksOn(w, {"dedup", "fetch", "publish", "mark"}, x) =>
        WorksOn(w, {"dedup", "fetch", "publish", "mark"}, x)'
  BY DEF WorksOn, RowOf
<1> QED
  BY <1>1, <1>2, <1>3, WorkerSettles

\* A failure is reported: the failed row is nobody's.
LEMMA ReportSettles ==
  ASSUME IInv, NEW w \in Workers, NEW stage, ReportStep(w, stage)
  PROVE  Kept
<1>1. \E t \in Topics : \E m : Adds(t, m)
  BY DEF ReportStep, Topics
<1>2. /\ Others(w) /\ UNCHANGED <<row, submit>> /\ task[w].pc \in {"report", "parse"}
  BY DEF ReportStep, Goes, Gets
<1> QED
  BY <1>1, <1>2, GoesOnSettles

\* A crawler queues a link: from then on it has the row to announce.
LEMMA QueueLinkSettles ==
  ASSUME IInv, NEW w \in Crawlers, QueueLinkStep(w)
  PROVE  Kept
<1> SUFFICES ASSUME NEW x \in RowIds PROVE Settled(x) => Settled(x)'
  BY DEF Kept
<1>1. /\ task[w].pc = "queue" /\ task[w].pc # "idle" /\ Others(w) /\ UNCHANGED <<submit, topic>>
      /\ task'[w].pc = "publink" /\ task'[w].msg = task[w].msg /\ task'[w].cur = task[w].cur
      /\ w \in Workers /\ task[w] # Idle
  BY DEF QueueLinkStep, Goes, Gets, Workers, Idle, Holding
<1>2. task[w].msg.job \in Jobs /\ task[w].cur \in Urls
  BY <1>1, Busy DEF Message, IInv, HandsOK, HandOK
<1>3. row'[x] = IF x = <<task[w].msg.job, task[w].cur>> /\ row[x] = "none"
                THEN "queued" ELSE row[x]
  BY <1>2, OneQueued DEF QueueLinkStep
<1>4. CASE x = <<task[w].msg.job, task[w].cur>> /\ row[x] = "none"
  <2>1. LinkQueuedBy(w, x)'
    BY <1>1, <1>4 DEF LinkQueuedBy
  <2>2. LinkQueued(x)'
    BY <2>1 DEF LinkQueued
  <2> QED
    BY <1>3, <1>4, <2>2 DEF Settled, Attended
<1>5. CASE ~(x = <<task[w].msg.job, task[w].cur>> /\ row[x] = "none")
  <2>1. row'[x] = row[x]
    BY <1>3, <1>5
  <2>2. Has("discovered", x) => Has("discovered", x)'
    BY <1>1 DEF Has
  <2>3. ~LinkQueuedBy(w, x) /\ ~WorksOn(w, {"dedup", "fetch", "publish", "mark"}, x)
    BY <1>1 DEF LinkQueuedBy, WorksOn
  <2> QED
    BY <1>1, <2>1, <2>2, <2>3, WorkerSettles
<1> QED
  BY <1>4, <1>5

\* A crawler announces a link: from then on the topic has the row.
LEMMA PublishLinkSettles ==
  ASSUME IInv, NEW w \in Crawlers, PublishLinkStep(w)
  PROVE  Kept
<1> SUFFICES ASSUME NEW x \in RowIds PROVE Settled(x) => Settled(x)'
  BY DEF Kept
<1>1. PICK m : /\ m.job = task[w].msg.job /\ m.url = task[w].cur
               /\ Adds("discovered", m)
  BY DEF PublishLinkStep, Discovered
<1>2. /\ task[w].pc = "publink" /\ Others(w) /\ UNCHANGED <<row, submit>>
      /\ "discovered" \in Topics
  BY DEF PublishLinkStep, Gets, Topics
<1>3. Has("discovered", x) => Has("discovered", x)'
  BY <1>1, <1>2, AddsKeep
<1>4. m \in topic'["discovered"]
  BY <1>1, <1>2, AddsGrow
<1>5. LinkQueuedBy(w, x) => Has("discovered", x)'
  <2>1. LinkQueuedBy(w, x) => RowOf(m) = x
    BY <1>1 DEF LinkQueuedBy, RowOf, RowIds
  <2> QED
    BY <1>4, <2>1 DEF Has
<1>6. ~WorksOn(w, {"dedup", "fetch", "publish", "mark"}, x)
  BY <1>2 DEF WorksOn
<1> QED
  BY <1>2, <1>3, <1>5, <1>6, WorkerSettles

\* At most one row is left behind, and only with a fault.
OneLeft == Kept \/ \E e : KeptBut(e) /\ faults' = faults + 1

LEMMA CrawlersSettle ==
  ASSUME IInv, ClaimsLeaveQueue, NEW w \in Crawlers, CrawlerDoes(w)
  PROVE  OneLeft
<1>0. w \in Workers /\ {"discovered", "fetched"} \subseteq Topics
  BY DEF Workers, Topics
<1>1. CASE KeyStep(w) \/ FetchStep(w) \/ AckStep(w) \/ QuietStep(w)
  <2>1. Others(w) /\ UNCHANGED <<row, submit, topic>>
    BY <1>1 DEF KeyStep, FetchStep, AckStep, QuietStep, Goes, Gets, Rests
  <2>2. \/ /\ task[w].pc \in {"dedup", "fetch"} /\ task'[w].pc \in {"fetch", "publish"}
           /\ task'[w].msg = task[w].msg
        \/ task[w].pc \notin {"publink", "dedup", "fetch", "publish", "mark"}
    BY <1>1 DEF KeyStep, FetchStep, AckStep, QuietStep, Goes, Gets
  <2>3. Kept
    BY <2>1, <2>2, GoesOnSettles
  <2> QED
    BY <2>3 DEF OneLeft
<1>2. CASE PublishStep(w, "publish", "mark", "fetched", Crawler!HtmlFetched(task[w].msg))
  <2>1. /\ Others(w) /\ UNCHANGED <<row, submit>> /\ \E t \in Topics : \E m : Adds(t, m)
        /\ task[w].pc = "publish" /\ task'[w].pc = "mark" /\ task'[w].msg = task[w].msg
    BY <1>0, <1>2 DEF PublishStep, Goes, Gets
  <2>2. Kept
    BY <2>1, GoesOnSettles
  <2> QED
    BY <2>2 DEF OneLeft
<1>3. CASE \E u \in Urls : SeeLinkStep(w, u)
  <2>1. Others(w) /\ UNCHANGED <<row, submit, topic>> /\ task[w].pc = "links"
    BY <1>3 DEF SeeLinkStep, Gets
  <2>2. Kept
    BY <2>1, GoesOnSettles
  <2> QED
    BY <2>2 DEF OneLeft
<1>4. CASE SkipStep(w) \/ MarkStep(w)
  <2>1. /\ Others(w) /\ UNCHANGED <<submit, topic>> /\ task[w].pc \in {"dedup", "fetch", "mark"}
        /\ \E s \in {"skipped", "fetched"} : SetsRow(task[w].msg, s)
    BY <1>4 DEF SkipStep, MarkStep, Goes, Gets
  <2>2. Kept
    BY <1>0, <2>1, EndSettles
  <2> QED
    BY <2>2 DEF OneLeft
<1>5. CASE FailStep(w)
  <2>1. /\ Others(w) /\ UNCHANGED <<submit, topic>> /\ SetsRow(task[w].msg, "failed")
        /\ task[w].pc # "idle" /\ (task[w].pc = "publink" => faults' = faults + 1)
    BY <1>5 DEF FailStep, Goes, Gets
  <2>2. /\ task[w].pc # "publink" => Kept
        /\ task[w].pc = "publink" => KeptBut(<<task[w].msg.job, task[w].cur>>)
    BY <1>0, <2>1, EndSettles
  <2> QED
    BY <2>1, <2>2 DEF OneLeft
<1>6. ASSUME NEW m, \/ ClaimStep(w, "discovered", m, "crawler", "dedup") /\ SetsRow(m, "claimed")
                    \/ DropStep("discovered", m, "crawler")
      PROVE  Kept
  BY <1>0, <1>6, ClaimSettles, DropSettles
<1> QED
  BY <1>0, <1>1, <1>2, <1>3, <1>4, <1>5, <1>6, QueueLinkSettles, PublishLinkSettles, ReportSettles
     DEF CrawlerDoes, OneLeft

\* The workers of the other stages hold no row that is queued or claimed.
LEMMA StagesSettle ==
  ASSUME IInv, ClaimsLeaveQueue,
         \/ \E w \in Parsers : ParserDoes(w)
         \/ \E w \in Cleaners : CleanerDoes(w)
  PROVE  Kept
<1>1. ASSUME NEW w \in Parsers \cup Cleaners, NEW t \in Topics, t # "discovered", NEW m,
             Others(w), UNCHANGED <<row, submit>>, Removes(t, m)
      PROVE  Kept
  <2> SUFFICES ASSUME NEW x \in RowIds PROVE Settled(x) => Settled(x)'
    BY DEF Kept
  <2>1. w \notin Crawlers /\ "discovered" \in Topics
    BY WorkersAssumption DEF Topics
  <2>2. Has("discovered", x) => Has("discovered", x)'
    BY <1>1, <2>1, RemovesOne
  <2> QED
    BY <1>1, <2>1, <2>2, WorkerSettles
<1>2. ASSUME NEW w \in Parsers \cup Cleaners, NEW t \in Topics, t # "discovered", NEW m,
             NEW stage, NEW pc, ClaimStep(w, t, m, stage, pc), UNCHANGED row
      PROVE  Kept
  BY <1>1, <1>2 DEF ClaimStep, Holds
<1>3. ASSUME NEW w \in Parsers \cup Cleaners, AckStep(w) \/ QuietStep(w)
      PROVE  Kept
  <2>1. w \notin Crawlers
    BY WorkersAssumption
  <2> QED
    BY <1>3, <2>1, GoesOnSettles DEF AckStep, QuietStep, Rests, Goes, Gets
<1>4. ASSUME NEW w \in Parsers, ParserDoes(w) PROVE Kept
  <2>1. CASE PublishStep(w, "parse", "ack", "parsed", Parser!PageParsed(task[w].msg))
    BY <2>1, GoesOnSettles DEF PublishStep, Goes, Gets, Topics
  <2>2. w \in Workers /\ {"discovered", "fetched"} \subseteq Topics
    BY DEF Workers, Topics
  <2> QED
    BY <1>2, <1>3, <1>4, <2>1, <2>2, DropSettles, ReportSettles DEF ParserDoes
<1>5. ASSUME NEW w \in Cleaners, CleanerDoes(w) PROVE Kept
  <2>1. w \in Workers /\ {"discovered", "parsed"} \subseteq Topics
    BY DEF Workers, Topics
  <2>2. CASE CommitStep(w) \/ FailStep(w)
    <3>1. Others(w) /\ UNCHANGED <<submit, topic>> /\ task[w].pc # "idle"
      BY <2>2 DEF CommitStep, FailStep, Goes, Gets
    <3>2. \E s \in {"parsed", "failed"} : SetsRow(task[w].msg, s)
      BY <2>2 DEF CommitStep, FailStep
    <3>3. ASSUME NEW x \in RowIds PROVE Settled(x) => Settled(x)'
      <4>1. PICK m \in Message : m = task[w].msg
        BY <2>1, <3>1, InHandRow
      <4>2. row'[x] = row[x] \/ row'[x] \notin {"queued", "claimed"}
        BY <3>2, <4>1, OneRow
      <4>3. w \notin Crawlers
        BY WorkersAssumption
      <4>4. Has("discovered", x) => Has("discovered", x)'
        BY <3>1 DEF Has
      <4> QED
        BY <3>1, <4>2, <4>3, <4>4, WorkerSettles
    <3> QED
      BY <3>3 DEF Kept
  <2> QED
    BY <1>2, <1>3, <1>5, <2>1, <2>2, DropSettles, ReportSettles DEF CleanerDoes
<1> QED
  BY <1>4, <1>5

\* The retry service and dlq-replay hold no row either.
LEMMA RepublishSettles ==
  ASSUME IInv, \/ \E w \in Retriers : RetryDoes(w)
               \/ \E w \in Replayers : ReplayDoes(w)
  PROVE  Kept
<1>0. "discovered" \in Topics /\ "failed" \in Topics /\ "dlq" \in Topics /\ "parsed" \in Topics
  BY DEF Topics
<1>1. ASSUME NEW w \in Retriers, NEW f, NEW t, NEW y, RetryStep(w, f, t, y)
      PROVE  Kept
  <2> SUFFICES ASSUME NEW x \in RowIds PROVE Settled(x) => Settled(x)'
    BY DEF Kept
  <2>1. Others(w) /\ w \notin Crawlers /\ UNCHANGED <<row, submit>>
    BY <1>1, WorkersAssumption DEF RetryStep, Holds
  <2>2. topic["discovered"] \subseteq topic'["discovered"]
    BY <1>0, <1>1 DEF RetryStep, IInv, TopicsOK
  <2>3. Has("discovered", x) => Has("discovered", x)'
    BY <2>2, HasGrows
  <2> QED
    BY <2>1, <2>3, WorkerSettles
<1>2. ASSUME NEW w \in Retriers \cup Replayers, AckStep(w) \/ QuietStep(w)
      PROVE  Kept
  <2>1. w \notin Crawlers
    BY WorkersAssumption
  <2> QED
    BY <1>2, <2>1, GoesOnSettles DEF AckStep, QuietStep, Rests, Goes, Gets
<1>3. ASSUME NEW w \in Replayers, NEW m, CountStep(w, m)
      PROVE  Kept
  <2> SUFFICES ASSUME NEW x \in RowIds PROVE Settled(x) => Settled(x)'
    BY DEF Kept
  <2>1. /\ Others(w) /\ w \notin Crawlers /\ UNCHANGED <<row, submit>>
        /\ Removes("dlq", m)
    BY <1>3, WorkersAssumption DEF CountStep, Holds
  <2>2. Has("discovered", x) => Has("discovered", x)'
    BY <1>0, <2>1, RemovesOne
  <2> QED
    BY <2>1, <2>2, WorkerSettles
<1>4. ASSUME NEW w \in Replayers, NEW t \in Topics, NEW y, PublishStep(w, "replay", "ack", t, y)
      PROVE  Kept
  BY <1>4, WorkersAssumption, GoesOnSettles DEF PublishStep, Goes, Gets
<1>5. ASSUME NEW w \in Retriers, RetryDoes(w) PROVE Kept
  BY <1>1, <1>2, <1>5 DEF RetryDoes
<1>6. ASSUME NEW w \in Replayers, ReplayDoes(w) PROVE Kept
  BY <1>0, <1>2, <1>3, <1>4, <1>6 DEF ReplayDoes
<1> QED
  BY <1>5, <1>6

\* A submission's step that leaves the crawlers and the queued rows alone, and
\* lets go of its seed only by announcing it.
LEMMA SubmissionSettles ==
  ASSUME UNCHANGED task, NEW x \in RowIds, row'[x] = row[x],
         Has("discovered", x) => Has("discovered", x)',
         SeedQueued(x) => SeedQueued(x)' \/ Has("discovered", x)'
  PROVE  Settled(x) => Settled(x)'
<1>1. LinkQueued(x) => LinkQueued(x)'
  BY DEF LinkQueued, LinkQueuedBy
<1>2. AtWork(Crawlers, {"dedup", "fetch", "publish", "mark"}, x) =>
        AtWork(Crawlers, {"dedup", "fetch", "publish", "mark"}, x)'
  BY DEF AtWork, WorksOn
<1> QED
  BY <1>1, <1>2 DEF Settled, Attended

LEMMA OthersSeed ==
  ASSUME NEW j, NEW pc, NEW cur, SubmitGets(j, pc, cur), NEW x \in RowIds, SeedQueued(x)
  PROVE  SeedQueued(x)' \/ (x[1] = j /\ submit[j].pc = "publish" /\ submit[j].cur = x[2])
<1>1. x[1] \in Jobs
  BY DEF RowIds
<1> QED
  BY <1>1 DEF SubmitGets, SeedQueued

LEMMA SubmitsSettle ==
  ASSUME IInv, NEW j \in Jobs, SubmitDoes(j)
  PROVE  OneLeft
<1>1. ASSUME NEW pc, NEW cur, SubmitGets(j, pc, cur), submit[j].pc # "publish",
             UNCHANGED <<task, topic, row>>
      PROVE  Kept
  <2> SUFFICES ASSUME NEW x \in RowIds PROVE Settled(x) => Settled(x)'
    BY DEF Kept
  <2>1. SeedQueued(x) => SeedQueued(x)'
    BY <1>1, OthersSeed
  <2>2. Has("discovered", x) => Has("discovered", x)'
    BY <1>1 DEF Has
  <2> QED
    BY <1>1, <2>1, <2>2, SubmissionSettles
<1>2. CASE CreateStep(j) \/ RestStep(j) \/ \E u \in Urls : SeeSeedStep(j, u)
  <2>1. Kept
    BY <1>1, <1>2 DEF CreateStep, RestStep, SeeSeedStep
  <2> QED
    BY <2>1 DEF OneLeft
<1>3. CASE QueueSeedStep(j)
  <2> SUFFICES ASSUME NEW x \in RowIds PROVE Settled(x) => Settled(x)'
    BY DEF OneLeft, Kept
  <2>1. /\ submit[j].pc = "queue" /\ SubmitGets(j, "publish", submit[j].cur)
        /\ UNCHANGED <<task, topic>> /\ QueueUrl(j, submit[j].cur)
    BY <1>3 DEF QueueSeedStep
  <2>2. submit[j].cur \in Urls
    BY <2>1 DEF IInv, SubmitsOK, SubmitOK
  <2>3. row'[x] = IF x = <<j, submit[j].cur>> /\ row[x] = "none" THEN "queued" ELSE row[x]
    BY <2>1, <2>2, OneQueued
  <2>4. CASE x = <<j, submit[j].cur>> /\ row[x] = "none"
    <3>1. SeedQueued(x)'
      BY <2>1, <2>4 DEF SeedQueued, SubmitGets
    <3> QED
      BY <2>3, <2>4, <3>1 DEF Settled, Attended
  <2>5. CASE ~(x = <<j, submit[j].cur>> /\ row[x] = "none")
    <3>1. SeedQueued(x) => SeedQueued(x)'
      BY <2>1, OthersSeed
    <3>2. Has("discovered", x) => Has("discovered", x)'
      BY <2>1 DEF Has
    <3> QED
      BY <2>1, <2>3, <2>5, <3>1, <3>2, SubmissionSettles
  <2> QED
    BY <2>4, <2>5
<1>4. CASE PublishSeedStep(j)
  <2> SUFFICES ASSUME NEW x \in RowIds PROVE Settled(x) => Settled(x)'
    BY DEF OneLeft, Kept
  <2>1. /\ SubmitGets(j, "next", Nil) /\ UNCHANGED <<task, row>> /\ "discovered" \in Topics
    BY <1>4 DEF PublishSeedStep, Topics
  <2>2. PICK m : m.job = j /\ m.url = submit[j].cur /\ Adds("discovered", m)
    BY <1>4 DEF PublishSeedStep, Discovered
  <2>3. m \in topic'["discovered"] /\ (Has("discovered", x) => Has("discovered", x)')
    BY <2>1, <2>2, AddsGrow, AddsKeep
  <2>4. SeedQueued(x) => SeedQueued(x)' \/ Has("discovered", x)'
    <3>1. x[1] = j /\ submit[j].cur = x[2] => RowOf(m) = x
      BY <2>2 DEF RowOf, RowIds
    <3>2. RowOf(m) = x => Has("discovered", x)'
      BY <2>3 DEF Has
    <3> QED
      BY <2>1, <3>1, <3>2, OthersSeed
  <2> QED
    BY <2>1, <2>3, <2>4, SubmissionSettles
<1>5. CASE AbandonStep(j)
  <2>1. /\ SubmitGets(j, "closed", Nil) /\ UNCHANGED <<task, topic, row>>
        /\ faults' = faults + 1
    BY <1>5 DEF AbandonStep
  <2>2. PICK e : e = <<j, submit[j].cur>>
    OBVIOUS
  <2>3. ASSUME NEW x \in RowIds, x # e PROVE Settled(x) => Settled(x)'
    <3>1. ~(x[1] = j /\ submit[j].cur = x[2])
      BY <2>2, <2>3 DEF RowIds
    <3>2. SeedQueued(x) => SeedQueued(x)'
      BY <2>1, <3>1, OthersSeed
    <3>3. Has("discovered", x) => Has("discovered", x)'
      BY <2>1 DEF Has
    <3> QED
      BY <2>1, <3>2, <3>3, SubmissionSettles
  <2>4. KeptBut(e)
    BY <2>3 DEF KeptBut
  <2> QED
    BY <2>1, <2>4 DEF OneLeft
<1> QED
  BY <1>2, <1>3, <1>4, <1>5 DEF SubmitDoes

\* A crash leaves behind the row that the worker was working on, or, of a
\* crawler about to announce a link, the row of the link.
LEMMA CrashSettles ==
  ASSUME IInv, NEW w \in Workers, CrashStep(w)
  PROVE  OneLeft
<1>1. /\ Others(w) /\ UNCHANGED <<row, submit>> /\ faults' = faults + 1
      /\ Source(w) \in Topics /\ Adds(Source(w), task[w].msg)
  BY SourceOf DEF CrashStep, Rests
<1>2. PICK e : e = IF task[w].pc = "publink" THEN <<task[w].msg.job, task[w].cur>>
                   ELSE RowOf(task[w].msg)
  OBVIOUS
<1>3. ASSUME NEW x \in RowIds, x # e PROVE Settled(x) => Settled(x)'
  <2>1. Has("discovered", x) => Has("discovered", x)'
    BY <1>1, AddsKeep
  <2>2. ~LinkQueuedBy(w, x)
    BY <1>2, <1>3 DEF LinkQueuedBy, RowIds
  <2>3. ~WorksOn(w, {"dedup", "fetch", "publish", "mark"}, x)
    BY <1>2, <1>3 DEF WorksOn
  <2> QED
    BY <1>1, <2>1, <2>2, <2>3, WorkerSettles
<1>4. KeptBut(e)
  BY <1>3 DEF KeptBut
<1> QED
  BY <1>1, <1>4 DEF OneLeft

LEMMA StepsSettle ==
  ASSUME IInv, ClaimsLeaveQueue, [Next]_vars
  PROVE  OneLeft
<1>1. ASSUME UNCHANGED <<task, submit, row>>,
             \A x : Has("discovered", x) => Has("discovered", x)'
      PROVE  OneLeft
  <2>1. ASSUME NEW x \in RowIds PROVE Settled(x) => Settled(x)'
    BY <1>1, SubmissionSettles DEF SeedQueued
  <2> QED
    BY <2>1 DEF OneLeft, Kept
<1>2. ASSUME NEW w \in Workers, RedeliverStep(w) PROVE OneLeft
  <2>1. \A x : Has("discovered", x) => Has("discovered", x)'
    BY <1>2, SourceOf, AddsKeep DEF RedeliverStep
  <2> QED
    BY <1>1, <1>2, <2>1 DEF RedeliverStep
<1>3. CASE (\E u \in Urls : ExpireStep(u)) \/ UNCHANGED vars
  <2>1. UNCHANGED <<task, submit, row, topic>>
    BY <1>3 DEF ExpireStep, vars, kafka, postgres
  <2>2. \A x : Has("discovered", x) => Has("discovered", x)'
    BY <2>1 DEF Has
  <2> QED
    BY <1>1, <2>1, <2>2
<1>4. CASE \/ \E w \in Parsers : ParserDoes(w)
           \/ \E w \in Cleaners : CleanerDoes(w)
           \/ \E w \in Retriers : RetryDoes(w)
           \/ \E w \in Replayers : ReplayDoes(w)
  <2>1. Kept
    BY <1>4, StagesSettle, RepublishSettles
  <2> QED
    BY <2>1 DEF OneLeft
<1> QED
  BY <1>2, <1>3, <1>4, AllSteps, CrawlersSettle, SubmitsSettle, CrashSettles DEF SystemDoes

\* A row that has left the queue does not come back to it.
LEMMA QueueLeft ==
  ASSUME IInv, ClaimsLeaveQueue, UNCHANGED ledger,
         \/ UNCHANGED row
         \/ \E m \in Message, s \in RowStatus \ {"queued"} : SetsRow(m, s)
         \/ \E j \in Jobs, u \in Urls : QueueUrl(j, u)
  PROVE  ClaimsLeaveQueue'
<1> SUFFICES ASSUME NEW x \in RowIds, ClaimedBy(x, "crawler"),
                    row[x] \notin {"none", "queued"}
             PROVE  row'[x] \notin {"none", "queued"}
  BY DEF ClaimsLeaveQueue, ClaimedBy
<1>1. ASSUME NEW m \in Message, NEW s \in RowStatus \ {"queued"}, SetsRow(m, s)
      PROVE  row'[x] \notin {"none", "queued"}
  <2>1. row'[x] = IF x = RowOf(m) THEN s ELSE row[x]
    BY <1>1, OneRow
  <2> QED
    BY <2>1 DEF RowStatus
<1>2. ASSUME NEW j \in Jobs, NEW u \in Urls, QueueUrl(j, u)
      PROVE  row'[x] \notin {"none", "queued"}
  <2>1. row'[x] = IF x = <<j, u>> /\ row[x] = "none" THEN "queued" ELSE row[x]
    BY <1>2, OneQueued
  <2> QED
    BY <2>1
<1> QED
  BY <1>1, <1>2

\* A claim of the crawler marks the row; the other stages' claims are theirs.
LEMMA ClaimLeaves ==
  ASSUME IInv, ClaimsLeaveQueue, NEW w, NEW t \in Topics, NEW m, NEW stage, NEW pc,
         ClaimStep(w, t, m, stage, pc),
         IF stage = "crawler" THEN SetsRow(m, "claimed") ELSE UNCHANGED row
  PROVE  ClaimsLeaveQueue'
<1>1. m \in Message /\ ledger' = ledger \cup {<<IdOf(m), stage>>}
  BY DEF ClaimStep, IInv, TopicsOK, Good
<1>2. ASSUME NEW x \in RowIds, ClaimedBy(x, "crawler")'
      PROVE  row'[x] \notin {"none", "queued"}
  <2>1. CASE stage = "crawler"
    <3>1. row'[x] = IF x = RowOf(m) THEN "claimed" ELSE row[x]
      BY <1>1, <2>1, OneRow
    <3>2. ClaimedBy(x, "crawler") \/ x = RowOf(m)
      <4>1. PICK n \in Nat : <<<<x[1], x[2], n>>, "crawler">> \in ledger'
        BY <1>2 DEF ClaimedBy
      <4>2. CASE <<<<x[1], x[2], n>>, "crawler">> \in ledger
        BY <4>2 DEF ClaimedBy
      <4>3. CASE <<x[1], x[2], n>> = <<m.job, m.url, m.n>>
        BY <4>3 DEF RowOf, RowIds
      <4> QED
        BY <1>1, <4>1, <4>2, <4>3 DEF IdOf
    <3> QED
      BY <3>1, <3>2 DEF ClaimsLeaveQueue
  <2>2. CASE stage # "crawler"
    <3>1. ClaimedBy(x, "crawler")
      BY <1>1, <1>2, <2>2 DEF ClaimedBy
    <3> QED
      BY <2>2, <3>1 DEF ClaimsLeaveQueue
  <2> QED
    BY <2>1, <2>2
<1> QED
  BY <1>2 DEF ClaimsLeaveQueue

LEMMA LeftStaysLeft ==
  ASSUME IInv, ClaimsLeaveQueue, [Next]_vars
  PROVE  ClaimsLeaveQueue'
<1>0. {"discovered", "fetched", "parsed"} \subseteq Topics
  BY DEF Topics
<1>1. ASSUME NEW w \in Workers, task[w].pc # "idle",
             NEW s \in RowStatus \ {"queued"}, SetsRow(task[w].msg, s), UNCHANGED ledger
      PROVE  ClaimsLeaveQueue'
  <2>1. task[w].msg \in Message
    BY <1>1, InHandRow
  <2> QED
    BY <1>1, <2>1, QueueLeft
<1>2. ASSUME NEW w \in Workers, FailStep(w) \/ SkipStep(w) \/ MarkStep(w) \/ CommitStep(w)
      PROVE  ClaimsLeaveQueue'
  <2>1. task[w].pc # "idle" /\ UNCHANGED ledger
    BY <1>2 DEF FailStep, SkipStep, MarkStep, CommitStep
  <2>2. \E s \in RowStatus \ {"queued"} : SetsRow(task[w].msg, s)
    BY <1>2 DEF FailStep, SkipStep, MarkStep, CommitStep, RowStatus
  <2> QED
    BY <1>1, <2>1, <2>2
<1>3. ASSUME NEW w \in Crawlers, QueueLinkStep(w) PROVE ClaimsLeaveQueue'
  <2>1. w \in Workers /\ task[w].pc # "idle" /\ task[w].pc = "queue" /\ task[w] # Idle
    BY <1>3 DEF QueueLinkStep, Workers, Idle, Holding
  <2>2. task[w].msg.job \in Jobs /\ task[w].cur \in Urls
    BY <2>1, Busy DEF Message, IInv, HandsOK, HandOK
  <2> QED
    BY <1>3, <2>2, QueueLeft DEF QueueLinkStep
<1>4. ASSUME NEW j \in Jobs, QueueSeedStep(j) PROVE ClaimsLeaveQueue'
  <2>1. submit[j].cur \in Urls
    BY <1>4 DEF QueueSeedStep, IInv, SubmitsOK, SubmitOK
  <2> QED
    BY <1>4, <2>1, QueueLeft DEF QueueSeedStep
<1>5. ASSUME UNCHANGED <<ledger, row>> PROVE ClaimsLeaveQueue'
  BY <1>5, QueueLeft
<1>6. ASSUME NEW w, NEW t, NEW y, NEW from, NEW to, NEW stage,
             \/ PublishStep(w, from, to, t, y) \/ QuietStep(w) \/ ReportStep(w, stage)
             \/ AckStep(w) \/ DropStep(t, y, stage)
      PROVE  ClaimsLeaveQueue'
  BY <1>5, <1>6 DEF PublishStep, QuietStep, ReportStep, AckStep, DropStep
<1>7. ASSUME NEW w \in Crawlers, CrawlerDoes(w) PROVE ClaimsLeaveQueue'
  <2>1. w \in Workers
    BY DEF Workers
  <2>2. CASE \/ KeyStep(w) \/ FetchStep(w) \/ PublishLinkStep(w)
             \/ \E u \in Urls : SeeLinkStep(w, u)
    BY <1>5, <2>2 DEF KeyStep, FetchStep, PublishLinkStep, SeeLinkStep
  <2>3. ASSUME NEW m, ClaimStep(w, "discovered", m, "crawler", "dedup"), SetsRow(m, "claimed")
        PROVE  ClaimsLeaveQueue'
    BY <1>0, <2>3, ClaimLeaves
  <2> QED
    BY <1>2, <1>3, <1>6, <1>7, <2>1, <2>2, <2>3 DEF CrawlerDoes
<1>8. ASSUME NEW w \in Parsers, ParserDoes(w) PROVE ClaimsLeaveQueue'
  <2>1. ASSUME NEW m, ClaimStep(w, "fetched", m, "parser", "parse"), UNCHANGED row
        PROVE  ClaimsLeaveQueue'
    BY <1>0, <2>1, ClaimLeaves
  <2> QED
    BY <1>6, <1>8, <2>1 DEF ParserDoes
<1>9. ASSUME NEW w \in Cleaners, CleanerDoes(w) PROVE ClaimsLeaveQueue'
  <2>1. ASSUME NEW m, ClaimStep(w, "parsed", m, "cleaner", "upsert"), UNCHANGED row
        PROVE  ClaimsLeaveQueue'
    BY <1>0, <2>1, ClaimLeaves
  <2>2. w \in Workers
    BY DEF Workers
  <2> QED
    BY <1>2, <1>6, <1>9, <2>1, <2>2 DEF CleanerDoes
<1>10. ASSUME NEW w, RetryDoes(w) \/ ReplayDoes(w) PROVE ClaimsLeaveQueue'
  BY <1>5, <1>10 DEF RetryDoes, ReplayDoes, RetryStep, CountStep, PublishStep, QuietStep, AckStep
<1>11. ASSUME NEW j \in Jobs, SubmitDoes(j) PROVE ClaimsLeaveQueue'
  BY <1>4, <1>5, <1>11 DEF SubmitDoes, CreateStep, RestStep, SeeSeedStep, PublishSeedStep,
     AbandonStep
<1>12. CASE \/ \E w \in Workers : CrashStep(w) \/ RedeliverStep(w)
            \/ \E u \in Urls : ExpireStep(u)
            \/ UNCHANGED vars
  BY <1>5, <1>12 DEF CrashStep, RedeliverStep, ExpireStep, vars, postgres
<1> QED
  BY <1>7, <1>8, <1>9, <1>10, <1>11, <1>12, AllSteps DEF SystemDoes

\* Faults are counted, never discounted.
LEMMA FaultsCount ==
  ASSUME IInv, [Next]_vars
  PROVE  errors' \in {errors, errors + 1} /\ faults' \in {faults, faults + 1}
<1>1. ASSUME NEW w, NEW stage, ReportStep(w, stage)
      PROVE  errors' \in {errors, errors + 1} /\ faults' \in {faults, faults + 1}
  BY <1>1 DEF ReportStep
<1>2. CASE \E w \in Crawlers : CrawlerDoes(w)
  BY <1>1, <1>2 DEF CrawlerDoes, ClaimStep, DropStep, KeyStep, SkipStep, FetchStep, PublishStep,
     MarkStep, SeeLinkStep, QueueLinkStep, PublishLinkStep, QuietStep, FailStep, AckStep
<1>3. CASE (\E w \in Parsers : ParserDoes(w)) \/ (\E w \in Cleaners : CleanerDoes(w))
  BY <1>1, <1>3 DEF ParserDoes, CleanerDoes, ClaimStep, DropStep, PublishStep, CommitStep,
     QuietStep, FailStep, AckStep
<1>4. CASE (\E w \in Retriers : RetryDoes(w)) \/ (\E w \in Replayers : ReplayDoes(w))
  BY <1>4 DEF RetryDoes, ReplayDoes, RetryStep, CountStep, PublishStep, QuietStep, AckStep
<1>5. CASE \E j \in Jobs : SubmitDoes(j)
  BY <1>5 DEF SubmitDoes, CreateStep, RestStep, SeeSeedStep, QueueSeedStep, PublishSeedStep,
     AbandonStep
<1>6. CASE \/ \E w \in Workers : CrashStep(w) \/ RedeliverStep(w)
           \/ \E u \in Urls : ExpireStep(u)
           \/ UNCHANGED vars
  BY <1>6 DEF CrashStep, RedeliverStep, ExpireStep, vars, world
<1> QED
  BY <1>2, <1>3, <1>4, <1>5, <1>6, AllSteps DEF SystemDoes

\* A row is neglected per fault at most.
FewNeglected == IsFiniteSet(Neglected) /\ Cardinality(Neglected) <= faults

LEMMA FewStayNeglected ==
  ASSUME IInv, IInv', ClaimsLeaveQueue, FewNeglected, [Next]_vars
  PROVE  FewNeglected'
<1>1. /\ faults \in Nat /\ faults' \in Nat /\ faults' \in {faults, faults + 1}
      /\ IsFiniteSet(Neglected) /\ Cardinality(Neglected) \in Nat
      /\ Cardinality(Neglected) <= faults
  <2>1. faults \in Nat /\ faults' \in Nat
    BY LimitsAssumption DEF IInv, StoresOK
  <2>2. IsFiniteSet(Neglected) /\ Cardinality(Neglected) <= faults
    BY DEF FewNeglected
  <2>3. Cardinality(Neglected) \in Nat
    BY <2>2, FS_CardinalityType
  <2> QED
    BY <2>1, <2>2, <2>3, FaultsCount
<1>2. ASSUME NEW S, IsFiniteSet(S), Neglected' \subseteq S, Cardinality(S) <= faults'
      PROVE  FewNeglected'
  <2>1. /\ IsFiniteSet(Neglected') /\ Cardinality(Neglected') <= Cardinality(S)
        /\ Cardinality(Neglected') \in Nat /\ Cardinality(S) \in Nat
    BY <1>2, FS_Subset, FS_CardinalityType
  <2> QED
    BY <1>1, <1>2, <2>1 DEF FewNeglected
<1>3. CASE Kept
  <2>1. Neglected' \subseteq Neglected
    BY <1>3 DEF Neglected, Kept
  <2> QED
    BY <1>1, <1>2, <2>1
<1>4. ASSUME NEW e, KeptBut(e), faults' = faults + 1
      PROVE  FewNeglected'
  <2>1. Neglected' \subseteq Neglected \cup {e}
    BY <1>4 DEF Neglected, KeptBut
  <2>2. /\ IsFiniteSet(Neglected \cup {e})
        /\ \/ Cardinality(Neglected \cup {e}) = Cardinality(Neglected)
           \/ Cardinality(Neglected \cup {e}) = Cardinality(Neglected) + 1
    BY <1>1, FS_AddElement
  <2>3. Cardinality(Neglected \cup {e}) <= faults'
    BY <1>1, <1>4, <2>2
  <2> QED
    BY <1>2, <2>1, <2>2, <2>3
<1> QED
  BY <1>3, <1>4, StepsSettle DEF OneLeft

\* When all is quiet no row is queued or claimed but one per fault.
THEOREM OneRowLeftPerFault == Spec => []OneRowPerFault
<1>1. Init => ClaimsLeaveQueue /\ FewNeglected
  <2> SUFFICES ASSUME Init PROVE ClaimsLeaveQueue /\ FewNeglected
    OBVIOUS
  <2>1. Neglected = {} /\ faults = 0 /\ ledger = {}
    BY DEF Init, Neglected, Settled, RowIds
  <2> QED
    BY <2>1, FS_EmptySet DEF ClaimsLeaveQueue, ClaimedBy, FewNeglected
<1>2. IInv /\ ClaimsLeaveQueue /\ FewNeglected /\ [Next]_vars
        => ClaimsLeaveQueue' /\ FewNeglected'
  BY NextKeeps, LeftStaysLeft, FewStayNeglected
<1>3. IInv /\ FewNeglected => OneRowPerFault
  <2> SUFFICES ASSUME IInv, FewNeglected, Quiet
               PROVE  Cardinality({x \in Rows : row[x] \in {"queued", "claimed"}}) <= faults
    BY DEF OneRowPerFault
  <2> DEFINE Left == {x \in Rows : row[x] \in {"queued", "claimed"}}
  <2>1. ASSUME NEW x \in Left PROVE x \in Neglected
    <3>1. x \in RowIds /\ x[1] \in Jobs /\ row[x] \in {"queued", "claimed"}
      BY <2>1 DEF Rows, RowIds
    <3>2. ~SeedQueued(x) /\ ~Has("discovered", x)
      BY <3>1 DEF Quiet, SeedQueued, Has, Topics
    <3>3. \A w \in Crawlers : task[w].pc = "idle"
      BY DEF Quiet, IsIdle, Idle, Holding, Workers
    <3>4. /\ ~LinkQueued(x)
          /\ ~AtWork(Crawlers, {"dedup", "fetch", "publish", "mark"}, x)
      BY <3>3 DEF LinkQueued, LinkQueuedBy, AtWork, WorksOn
    <3> QED
      BY <3>1, <3>2, <3>4 DEF Neglected, Settled, Attended
  <2>2. IsFiniteSet(Neglected) /\ Cardinality(Neglected) <= faults /\ Left \subseteq Neglected
    BY <2>1 DEF FewNeglected
  <2>3. /\ Cardinality(Left) <= Cardinality(Neglected) /\ IsFiniteSet(Left)
        /\ Cardinality(Left) \in Nat /\ Cardinality(Neglected) \in Nat /\ faults \in Nat
    BY <2>2, FS_Subset, FS_CardinalityType, LimitsAssumption DEF IInv, StoresOK
  <2> QED
    BY <2>2, <2>3
<1> QED
  BY <1>1, <1>2, <1>3, PipelineCorrect, PTL DEF Spec

-----------------------------------------------------------------------------
\* How far the crawl of x has got: each stage has handed it on, or is at it.
Announced(x) == \/ SeedQueued(x) \/ LinkQueued(x)
                \/ Has("discovered", x) \/ ClaimedBy(x, "crawler")
Out(x) == Has("fetched", x) \/ ClaimedBy(x, "parser")
Crawled(x) == \/ row[x] = "skipped"
              \/ AtWork(Crawlers, {"dedup", "fetch", "publish"}, x) \/ Out(x)
Parsed(x) == \/ AtWork(Parsers, {"parse"}, x)
             \/ Has("parsed", x) \/ ClaimedBy(x, "cleaner")
Cleaned(x) == \/ AtWork(Cleaners, {"upsert", "commit", "complete"}, x)
              \/ indexed[x[2]] >= 0
Unbroken(x) ==
  /\ row[x] # "none" => Announced(x)
  /\ ClaimedBy(x, "crawler") => Crawled(x)
  /\ AtWork(Crawlers, {"mark"}, x) => Out(x)
  /\ ClaimedBy(x, "parser") => Parsed(x)
  /\ ClaimedBy(x, "cleaner") => Cleaned(x)
CleanSoFar == errors = 0 /\ faults = 0 => \A x \in RowIds : Unbroken(x)

\* What has been handed on is not taken back.
Lasts(x) == /\ Announced(x) => Announced(x)'
            /\ Crawled(x) => Crawled(x)'
            /\ Out(x) => Out(x)'
            /\ Parsed(x) => Parsed(x)'
            /\ Cleaned(x) => Cleaned(x)'

LEMMA HandsOn ==
  ASSUME NEW x, Unbroken(x), Lasts(x),
         row'[x] # "none" => row[x] # "none" \/ Announced(x)',
         ClaimedBy(x, "crawler")' => ClaimedBy(x, "crawler") \/ Crawled(x)',
         AtWork(Crawlers, {"mark"}, x)' => AtWork(Crawlers, {"mark"}, x) \/ Out(x)',
         ClaimedBy(x, "parser")' => ClaimedBy(x, "parser") \/ Parsed(x)',
         ClaimedBy(x, "cleaner")' => ClaimedBy(x, "cleaner") \/ Cleaned(x)'
  PROVE  Unbroken(x)'
BY DEF Unbroken, Lasts

\* What is taken from a stage's topic is claimed by it.
Taken(x) == /\ Has("discovered", x) => Has("discovered", x)' \/ ClaimedBy(x, "crawler")'
            /\ Has("fetched", x) => Has("fetched", x)' \/ ClaimedBy(x, "parser")'
            /\ Has("parsed", x) => Has("parsed", x)' \/ ClaimedBy(x, "cleaner")'

\* A worker's step lets go of a row only by handing it on.
LetsGo(w, x) ==
  /\ w \in Crawlers /\ LinkQueuedBy(w, x) => LinkQueuedBy(w, x)' \/ Announced(x)'
  /\ w \in Crawlers /\ WorksOn(w, {"dedup", "fetch", "publish"}, x) =>
       WorksOn(w, {"dedup", "fetch", "publish"}, x)' \/ Crawled(x)'
  /\ w \in Parsers /\ WorksOn(w, {"parse"}, x) => WorksOn(w, {"parse"}, x)' \/ Parsed(x)'
  /\ w \in Cleaners /\ WorksOn(w, {"upsert", "commit", "complete"}, x) =>
       WorksOn(w, {"upsert", "commit", "complete"}, x)' \/ Cleaned(x)'

LEMMA WorkerLasts ==
  ASSUME NEW w, Others(w), NEW x, UNCHANGED submit, ledger \subseteq ledger', Taken(x), LetsGo(w, x),
         indexed[x[2]] >= 0 => indexed'[x[2]] >= 0,
         row[x] = "skipped" => Crawled(x)'
  PROVE  Lasts(x)
<1>1. \A s : ClaimedBy(x, s) => ClaimedBy(x, s)'
  BY DEF ClaimedBy
<1>2. Crawlers \in SUBSET Workers /\ Parsers \in SUBSET Workers /\ Cleaners \in SUBSET Workers
  BY DEF Workers
<1>3. Announced(x) => Announced(x)'
  <2>1. SeedQueued(x) => SeedQueued(x)'
    BY DEF SeedQueued
  <2>2. LinkQueued(x) => LinkQueued(x)' \/ Announced(x)'
    <3>1. w \in Crawlers /\ LinkQueuedBy(w, x)' => LinkQueued(x)'
      BY DEF LinkQueued
    <3> QED
      BY <3>1, OthersLink DEF LetsGo
  <2> QED
    BY <1>1, <2>1, <2>2 DEF Announced, Taken
<1>4. Out(x) => Out(x)'
  BY <1>1 DEF Out, Taken
<1>5. Crawled(x) => Crawled(x)'
  <2>1. /\ w \in Crawlers /\ WorksOn(w, {"dedup", "fetch", "publish"}, x)'
        => AtWork(Crawlers, {"dedup", "fetch", "publish"}, x)'
    BY DEF AtWork
  <2>2. AtWork(Crawlers, {"dedup", "fetch", "publish"}, x) =>
          AtWork(Crawlers, {"dedup", "fetch", "publish"}, x)' \/ Crawled(x)'
    BY <1>2, <2>1, OthersWork DEF LetsGo
  <2> QED
    BY <1>4, <2>2 DEF Crawled
<1>6. Parsed(x) => Parsed(x)'
  <2>1. w \in Parsers /\ WorksOn(w, {"parse"}, x)' => AtWork(Parsers, {"parse"}, x)'
    BY DEF AtWork
  <2>2. AtWork(Parsers, {"parse"}, x) => AtWork(Parsers, {"parse"}, x)' \/ Parsed(x)'
    BY <1>2, <2>1, OthersWork DEF LetsGo
  <2> QED
    BY <1>1, <2>2 DEF Parsed, Taken
<1>7. Cleaned(x) => Cleaned(x)'
  <2>1. /\ w \in Cleaners /\ WorksOn(w, {"upsert", "commit", "complete"}, x)'
        => AtWork(Cleaners, {"upsert", "commit", "complete"}, x)'
    BY DEF AtWork
  <2>2. AtWork(Cleaners, {"upsert", "commit", "complete"}, x) =>
          AtWork(Cleaners, {"upsert", "commit", "complete"}, x)' \/ Cleaned(x)'
    BY <1>2, <2>1, OthersWork DEF LetsGo
  <2> QED
    BY <2>2 DEF Cleaned
<1> QED
  BY <1>3, <1>4, <1>5, <1>6, <1>7 DEF Lasts

\* Only w can have come to mark a row.
LEMMA MarksAfterwards ==
  ASSUME NEW w, Others(w), NEW x,
         w \in Crawlers /\ WorksOn(w, {"mark"}, x)' => WorksOn(w, {"mark"}, x) \/ Out(x)'
  PROVE  AtWork(Crawlers, {"mark"}, x)' => AtWork(Crawlers, {"mark"}, x) \/ Out(x)'
<1>1. ASSUME NEW v \in Crawlers, WorksOn(v, {"mark"}, x)', v # w
      PROVE  AtWork(Crawlers, {"mark"}, x)
  <2>1. task'[v] = task[v]
    BY <1>1 DEF Others, Workers
  <2> QED
    BY <1>1, <2>1 DEF AtWork, WorksOn
<1>2. w \in Crawlers /\ WorksOn(w, {"mark"}, x) => AtWork(Crawlers, {"mark"}, x)
  BY DEF AtWork
<1>3. ASSUME NEW v \in Crawlers, WorksOn(v, {"mark"}, x)'
      PROVE  AtWork(Crawlers, {"mark"}, x) \/ Out(x)'
  BY <1>1, <1>2, <1>3
<1> QED
  BY <1>3 DEF AtWork

\* A step of a worker that claims nothing.
LEMMA WorkerHandsOn ==
  ASSUME NEW w, Others(w), NEW x, UNCHANGED <<submit, ledger>>, Taken(x), LetsGo(w, x),
         indexed[x[2]] >= 0 => indexed'[x[2]] >= 0,
         row[x] = "skipped" => Crawled(x)',
         row'[x] # "none" => row[x] # "none" \/ Announced(x)',
         w \in Crawlers /\ WorksOn(w, {"mark"}, x)' => WorksOn(w, {"mark"}, x) \/ Out(x)',
         Unbroken(x)
  PROVE  Unbroken(x)'
<1>1. Lasts(x)
  BY WorkerLasts
<1>2. AtWork(Crawlers, {"mark"}, x)' => AtWork(Crawlers, {"mark"}, x) \/ Out(x)'
  BY MarksAfterwards
<1>3. \A s : ClaimedBy(x, s)' => ClaimedBy(x, s)
  BY DEF ClaimedBy
<1> QED
  BY <1>1, <1>2, <1>3, HandsOn

\* The topic of each stage, and where its workers start.
TopicOf(t, stage) == \/ t = "discovered" /\ stage = "crawler"
                     \/ t = "fetched" /\ stage = "parser"
                     \/ t = "parsed" /\ stage = "cleaner"
StartsAt(w, stage, pc) == \/ w \in Crawlers /\ stage = "crawler" /\ pc = "dedup"
                          \/ w \in Parsers /\ stage = "parser" /\ pc = "parse"
                          \/ w \in Cleaners /\ stage = "cleaner" /\ pc = "upsert"

\* A stage takes an event that is claimed from its topic.
LEMMA StageTakes ==
  ASSUME IInv, NEW t, NEW stage, TopicOf(t, stage), NEW m \in topic[t], Removes(t, m),
         <<IdOf(m), stage>> \in ledger', NEW x \in RowIds
  PROVE  Taken(x) /\ m \in Message /\ (x = RowOf(m) => ClaimedBy(x, stage)')
<1>1. t \in Topics /\ {"discovered", "fetched", "parsed"} \subseteq Topics
  BY DEF Topics, TopicOf
<1>2. m \in Message
  BY <1>1 DEF IInv, TopicsOK, Good
<1>3. x = RowOf(m) => ClaimedBy(x, stage)'
  <2> SUFFICES ASSUME x = RowOf(m) PROVE ClaimedBy(x, stage)'
    OBVIOUS
  <2>1. m.n \in Nat /\ x[1] = m.job /\ x[2] = m.url
    BY <1>2 DEF RowOf, Message
  <2>2. <<<<x[1], x[2], m.n>>, stage>> \in ledger'
    BY <2>1 DEF IdOf
  <2> QED
    BY <2>1, <2>2 DEF ClaimedBy
<1>4. \A s \in {"discovered", "fetched", "parsed"} :
        Has(s, x) => Has(s, x)' \/ (s = t /\ ClaimedBy(x, stage)')
  BY <1>1, <1>3, RemovesOne
<1>5. Taken(x)
  BY <1>4 DEF Taken, TopicOf
<1> QED
  BY <1>2, <1>3, <1>5

\* What does not take from the stages' topics.
LEMMA NothingTaken ==
  ASSUME NEW x, \A t \in {"discovered", "fetched", "parsed"} : topic[t] \subseteq topic'[t]
  PROVE  Taken(x)
BY HasGrows DEF Taken

LEMMA AddsTakeNothing ==
  ASSUME IInv, UNCHANGED topic \/ \E t \in Topics : \E m : Adds(t, m), NEW x
  PROVE  Taken(x)
<1>1. \A t \in {"discovered", "fetched", "parsed"} : topic[t] \subseteq topic'[t]
  BY AddsGrow DEF Topics
<1> QED
  BY <1>1, NothingTaken

\* A claim by a stage, which is at work on the row from then on.
LEMMA ClaimHandsOn ==
  ASSUME IInv, NEW w, NEW t, NEW stage, NEW pc, NEW m, TopicOf(t, stage), StartsAt(w, stage, pc),
         ClaimStep(w, t, m, stage, pc),
         IF stage = "crawler" THEN SetsRow(m, "claimed") ELSE UNCHANGED row,
         NEW x \in RowIds, Unbroken(x)
  PROVE  Unbroken(x)'
<1>1. /\ m \in topic[t] /\ Removes(t, m) /\ ledger' = ledger \cup {<<IdOf(m), stage>>}
      /\ task[w].pc = "idle" /\ Others(w) /\ task'[w].pc = pc /\ task'[w].msg = m
      /\ UNCHANGED <<submit, indexed>>
  BY DEF ClaimStep, Holds, Holding, Idle
<1>2. <<IdOf(m), stage>> \in ledger' /\ t \in Topics
  BY <1>1 DEF TopicOf, Topics
<1>3. Taken(x) /\ m \in Message
  BY <1>1, <1>2, StageTakes
<1>4. RowOf(m) = x =>
        /\ stage = "crawler" => Crawled(x)'
        /\ stage = "parser" => Parsed(x)'
        /\ stage = "cleaner" => Cleaned(x)'
  <2>1. ASSUME NEW ws, w \in ws, NEW pcs, pc \in pcs, RowOf(m) = x
        PROVE  AtWork(ws, pcs, x)'
    BY <1>1, <2>1 DEF AtWork, WorksOn, RowOf
  <2>2. /\ stage = "crawler" => w \in Crawlers /\ pc \in {"dedup", "fetch", "publish"}
        /\ stage = "parser" => w \in Parsers /\ pc \in {"parse"}
        /\ stage = "cleaner" => w \in Cleaners /\ pc \in {"upsert", "commit", "complete"}
    BY DEF StartsAt
  <2> QED
    BY <2>1, <2>2 DEF Crawled, Parsed, Cleaned
<1>5. \A s : ClaimedBy(x, s)' => ClaimedBy(x, s) \/ (s = stage /\ RowOf(m) = x)
  <2>1. ASSUME NEW s, NEW n \in Nat, <<<<x[1], x[2], n>>, s>> \in ledger'
        PROVE  ClaimedBy(x, s) \/ (s = stage /\ RowOf(m) = x)
    <3>1. CASE <<<<x[1], x[2], n>>, s>> \in ledger
      BY <3>1 DEF ClaimedBy
    <3>2. CASE <<<<x[1], x[2], n>>, s>> = <<<<m.job, m.url, m.n>>, stage>>
      BY <3>2 DEF RowOf, RowIds
    <3> QED
      BY <1>1, <2>1, <3>1, <3>2 DEF IdOf
  <2> QED
    BY <2>1 DEF ClaimedBy
<1>6. row'[x] = row[x] \/ (stage = "crawler" /\ RowOf(m) = x /\ row[x] # "none")
  <2>1. row[RowOf(m)] # "none"
    BY <1>1, <1>2 DEF IInv, TopicsOK, Good, RowOf
  <2> QED
    BY <1>3, <2>1, OneRow
<1>7. Lasts(x)
  <2>1. LetsGo(w, x)
    BY <1>1 DEF LetsGo, LinkQueuedBy, WorksOn
  <2>2. row[x] = "skipped" => Crawled(x)'
    BY <1>4, <1>6 DEF Crawled
  <2> QED
    BY <1>1, <1>3, <2>1, <2>2, WorkerLasts
<1>8. AtWork(Crawlers, {"mark"}, x)' => AtWork(Crawlers, {"mark"}, x) \/ Out(x)'
  <2>1. ~WorksOn(w, {"mark"}, x)'
    BY <1>1 DEF WorksOn, StartsAt
  <2> QED
    BY <1>1, <2>1, MarksAfterwards
<1> QED
  BY <1>4, <1>5, <1>6, <1>7, <1>8, HandsOn

\* A stage drops what it has claimed.
LEMMA DropHandsOn ==
  ASSUME IInv, NEW t, NEW stage, NEW m, TopicOf(t, stage),
         DropStep(t, m, stage), NEW x \in RowIds, Unbroken(x)
  PROVE  Unbroken(x)'
<1>1. /\ m \in topic[t] /\ Removes(t, m) /\ <<IdOf(m), stage>> \in ledger'
      /\ UNCHANGED <<ledger, row, indexed, task, submit>>
  BY DEF DropStep
<1>2. Taken(x)
  BY <1>1, StageTakes
<1>3. \A w : Others(w) /\ LetsGo(w, x) /\ (WorksOn(w, {"mark"}, x)' => WorksOn(w, {"mark"}, x))
  BY <1>1 DEF Others, LetsGo, LinkQueuedBy, WorksOn
<1> QED
  BY <1>1, <1>2, <1>3, WorkerHandsOn DEF Crawled

\* A worker moves on that has no row to let go of, and at most publishes.
LEMMA IdlyHandsOn ==
  ASSUME IInv, NEW w, Others(w), UNCHANGED <<submit, ledger, row, indexed>>,
         \A t \in {"discovered", "fetched", "parsed"} : topic[t] \subseteq topic'[t],
         task[w].pc \notin {"publink", "dedup", "fetch", "publish", "parse", "upsert",
                            "commit", "complete"},
         task'[w].pc # "mark",
         NEW x \in RowIds, Unbroken(x)
  PROVE  Unbroken(x)'
<1>1. Taken(x)
  BY NothingTaken
<1>2. LetsGo(w, x) /\ ~WorksOn(w, {"mark"}, x)'
  BY DEF LetsGo, LinkQueuedBy, WorksOn
<1> QED
  BY <1>1, <1>2, WorkerHandsOn DEF Crawled

\* A step without an error or a fault.
NoFailure == errors' = errors /\ faults' = faults
FaultsNat == errors \in Nat /\ faults \in Nat

LEMMA Numbered == IInv => FaultsNat
BY LimitsAssumption DEF IInv, StoresOK, FaultsNat

\* The report of a failure that was not met in this step: the worker has no row.
LEMMA ReportHandsOn ==
  ASSUME IInv, NoFailure, NEW w \in Workers, NEW stage, ReportStep(w, stage),
         NEW x \in RowIds, Unbroken(x)
  PROVE  Unbroken(x)'
<1>1. /\ Others(w) /\ UNCHANGED <<submit, ledger, row, indexed>>
      /\ task'[w].pc = "ack" /\ \E t \in Topics : \E m : Adds(t, m)
  BY DEF ReportStep, Goes, Gets, Topics
<1>2. task[w].pc = "report"
  BY Numbered DEF ReportStep, NoFailure, FaultsNat
<1>3. \A t \in {"discovered", "fetched", "parsed"} : topic[t] \subseteq topic'[t]
  BY <1>1, AddsGrow DEF Topics
<1> QED
  BY <1>1, <1>2, <1>3, IdlyHandsOn

\* A message's row is made before the message.
LEMMA HandHasRow ==
  ASSUME IInv, NEW w \in Workers, task[w].pc # "idle"
  PROVE  row[RowOf(task[w].msg)] # "none"
BY Busy DEF Good, RowOf

\* The steps of a crawler that hold on to the row, hand it on, or skip it.
LEMMA FetchHandsOn ==
  ASSUME IInv, NEW w \in Crawlers, KeyStep(w) \/ FetchStep(w) \/ SkipStep(w),
         NEW x \in RowIds, Unbroken(x)
  PROVE  Unbroken(x)'
<1>1. /\ Others(w) /\ UNCHANGED <<submit, ledger, indexed, topic>> /\ w \in Workers
      /\ task[w].pc \in {"dedup", "fetch"} /\ task'[w].pc \in {"fetch", "publish", "ack"}
      /\ task'[w].msg = task[w].msg
  BY DEF KeyStep, FetchStep, SkipStep, Goes, Gets, Workers
<1>2. PICK m \in Message : m = task[w].msg
  BY <1>1, InHandRow
<1>3. row[RowOf(m)] # "none" /\ w \notin Parsers \cup Cleaners
  BY <1>1, <1>2, HandHasRow, WorkersAssumption
<1>4. Taken(x)
  BY <1>1, AddsTakeNothing
<1>5. WorksOn(w, {"dedup", "fetch", "publish"}, x) =>
        WorksOn(w, {"dedup", "fetch", "publish"}, x)' \/ Crawled(x)'
  <2>1. CASE KeyStep(w) \/ FetchStep(w)
    BY <1>1, <2>1 DEF KeyStep, FetchStep, Goes, Gets, WorksOn, RowOf
  <2>2. CASE SkipStep(w)
    <3>1. SetsRow(m, "skipped")
      BY <1>2, <2>2 DEF SkipStep
    <3>2. x = RowOf(m) => row'[x] = "skipped"
      BY <3>1, OneRow
    <3> QED
      BY <1>2, <3>2 DEF WorksOn, Crawled
  <2> QED
    BY <2>1, <2>2
<1>6. row'[x] = row[x] \/ (row[x] # "none" /\ row'[x] = "skipped")
  <2>1. CASE UNCHANGED row
    BY <2>1
  <2>2. CASE SetsRow(m, "skipped")
    <3>1. row'[x] = IF x = RowOf(m) THEN "skipped" ELSE row[x]
      BY <2>2, OneRow
    <3> QED
      BY <1>3, <3>1
  <2> QED
    BY <1>2, <2>1, <2>2 DEF KeyStep, FetchStep, SkipStep
<1>7. LetsGo(w, x) /\ ~WorksOn(w, {"mark"}, x)'
  BY <1>1, <1>3, <1>5 DEF LetsGo, LinkQueuedBy, WorksOn
<1> QED
  BY <1>1, <1>4, <1>6, <1>7, WorkerHandsOn DEF Crawled

\* HtmlFetched is out before the crawler marks the row.
LEMMA PublishHandsOn ==
  ASSUME IInv, NEW w \in Crawlers,
         PublishStep(w, "publish", "mark", "fetched", Crawler!HtmlFetched(task[w].msg)),
         NEW x \in RowIds, Unbroken(x)
  PROVE  Unbroken(x)'
<1>1. /\ Others(w) /\ UNCHANGED <<submit, ledger, indexed, row>> /\ w \in Workers
      /\ task[w].pc = "publish" /\ task'[w].pc = "mark" /\ task'[w].msg = task[w].msg
      /\ "fetched" \in Topics /\ w \notin Parsers \cup Cleaners
  BY WorkersAssumption DEF PublishStep, Goes, Gets, Workers, Topics
<1>2. PICK m \in Message : m = task[w].msg
  BY <1>1, InHandRow
<1>3. PICK y : y = Crawler!HtmlFetched(m) /\ Adds("fetched", y)
  BY <1>2 DEF PublishStep
<1>4. RowOf(y) = RowOf(m)
  BY <1>3 DEF Crawler!HtmlFetched, RowOf, Message
<1>5. y \in topic'["fetched"] /\ Taken(x)
  BY <1>1, <1>3, AddsGrow, AddsTakeNothing
<1>6. x = RowOf(m) => Out(x)' /\ Crawled(x)'
  BY <1>4, <1>5 DEF Has, Out, Crawled
<1>7. LetsGo(w, x) /\ (WorksOn(w, {"mark"}, x)' => Out(x)')
  BY <1>1, <1>2, <1>6 DEF LetsGo, LinkQueuedBy, WorksOn, RowOf
<1> QED
  BY <1>1, <1>5, <1>7, WorkerHandsOn DEF Crawled

\* The crawler marks the row fetched: the parser has the page.
LEMMA MarkHandsOn ==
  ASSUME IInv, NEW w \in Crawlers, MarkStep(w), NEW x \in RowIds, Unbroken(x)
  PROVE  Unbroken(x)'
<1>1. /\ Others(w) /\ UNCHANGED <<submit, ledger, indexed, topic>> /\ w \in Workers
      /\ task[w].pc = "mark" /\ task'[w].pc = "links" /\ w \notin Parsers \cup Cleaners
  BY WorkersAssumption DEF MarkStep, Gets, Workers
<1>2. PICK m \in Message : m = task[w].msg /\ SetsRow(m, "fetched")
  BY <1>1, InHandRow DEF MarkStep
<1>3. row[RowOf(m)] # "none" /\ row'[x] = IF x = RowOf(m) THEN "fetched" ELSE row[x]
  BY <1>1, <1>2, HandHasRow, OneRow
<1>4. x = RowOf(m) => Crawled(x)'
  <2> SUFFICES ASSUME x = RowOf(m) PROVE Crawled(x)'
    OBVIOUS
  <2>1. AtWork(Crawlers, {"mark"}, x)
    BY <1>1, <1>2 DEF AtWork, WorksOn
  <2>2. Out(x)
    BY <2>1 DEF Unbroken
  <2> QED
    BY <1>1, <2>2 DEF Out, Has, ClaimedBy, Crawled
<1>5. Taken(x) /\ LetsGo(w, x) /\ ~WorksOn(w, {"mark"}, x)'
  BY <1>1, AddsTakeNothing DEF LetsGo, LinkQueuedBy, WorksOn
<1>6. row[x] = "skipped" => Crawled(x)'
  BY <1>3, <1>4 DEF Crawled
<1> QED
  BY <1>1, <1>3, <1>5, <1>6, WorkerHandsOn

\* The crawler queues a link, then announces it.
LEMMA LinkHandsOn ==
  ASSUME IInv, NEW w \in Crawlers, QueueLinkStep(w) \/ PublishLinkStep(w),
         NEW x \in RowIds, Unbroken(x)
  PROVE  Unbroken(x)'
<1>1. /\ Others(w) /\ UNCHANGED <<submit, ledger, indexed>> /\ w \in Workers
      /\ task[w].pc \in {"queue", "publink"} /\ task'[w].pc \in {"publink", "links"}
      /\ w \notin Parsers \cup Cleaners /\ task[w] # Idle /\ task[w].pc # "idle"
  <2>1. w \in Workers /\ w \notin Parsers \cup Cleaners
    BY WorkersAssumption DEF Workers
  <2>2. CASE QueueLinkStep(w)
    BY <2>1, <2>2 DEF QueueLinkStep, Goes, Gets, Idle, Holding
  <2>3. CASE PublishLinkStep(w)
    BY <2>1, <2>3 DEF PublishLinkStep, Gets, Idle, Holding
  <2> QED
    BY <2>2, <2>3
<1>2. task[w].msg.job \in Jobs /\ task[w].cur \in Urls
  BY <1>1, Busy DEF Message, IInv, HandsOK, HandOK
<1>3. PICK y \in RowIds : y = <<task[w].msg.job, task[w].cur>>
  BY <1>2 DEF RowIds
<1>4. CASE QueueLinkStep(w)
  <2>1. /\ UNCHANGED topic /\ task'[w].pc = "publink" /\ task[w].pc = "queue"
        /\ task'[w].msg = task[w].msg /\ task'[w].cur = task[w].cur
    BY <1>4 DEF QueueLinkStep, Goes, Gets
  <2>2. row'[x] = IF x = y /\ row[x] = "none" THEN "queued" ELSE row[x]
    BY <1>2, <1>3, <1>4, OneQueued DEF QueueLinkStep
  <2>3. x = y => Announced(x)'
    BY <1>3, <2>1 DEF Announced, LinkQueued, LinkQueuedBy
  <2>4. Taken(x) /\ LetsGo(w, x) /\ ~WorksOn(w, {"mark"}, x)'
    BY <1>1, <2>1, AddsTakeNothing DEF LetsGo, LinkQueuedBy, WorksOn
  <2>5. /\ row[x] = "skipped" => Crawled(x)'
        /\ row'[x] # "none" => row[x] # "none" \/ Announced(x)'
    BY <2>2, <2>3 DEF Crawled
  <2> QED
    BY <1>1, <2>4, <2>5, WorkerHandsOn
<1>5. CASE PublishLinkStep(w)
  <2>1. /\ UNCHANGED row /\ task'[w].pc = "links" /\ task[w].pc = "publink"
        /\ "discovered" \in Topics
    BY <1>5 DEF PublishLinkStep, Gets, Topics
  <2>2. PICK m : /\ m.job = task[w].msg.job /\ m.url = task[w].cur
                 /\ Adds("discovered", m)
    BY <1>5 DEF PublishLinkStep, Discovered
  <2>3. m \in topic'["discovered"] /\ Taken(x)
    BY <2>1, <2>2, AddsGrow, AddsTakeNothing
  <2>4. LinkQueuedBy(w, x) => Announced(x)'
    <3>1. LinkQueuedBy(w, x) => RowOf(m) = x
      BY <2>2 DEF LinkQueuedBy, RowOf, RowIds
    <3> QED
      BY <2>3, <3>1 DEF Has, Announced
  <2>5. LetsGo(w, x) /\ ~WorksOn(w, {"mark"}, x)'
    BY <1>1, <2>1, <2>4 DEF LetsGo, WorksOn
  <2> QED
    BY <1>1, <2>1, <2>3, <2>5, WorkerHandsOn DEF Crawled
<1> QED
  BY <1>4, <1>5

LEMMA CrawlersHandOn ==
  ASSUME IInv, NoFailure, NEW w \in Crawlers, CrawlerDoes(w), NEW x \in RowIds, Unbroken(x)
  PROVE  Unbroken(x)'
<1>0. w \in Workers /\ w \notin Parsers \cup Cleaners
  BY WorkersAssumption DEF Workers
<1>1. ASSUME NEW m, ClaimStep(w, "discovered", m, "crawler", "dedup"), SetsRow(m, "claimed")
      PROVE  Unbroken(x)'
  BY <1>1, ClaimHandsOn DEF TopicOf, StartsAt
<1>2. ASSUME NEW m, DropStep("discovered", m, "crawler")
      PROVE  Unbroken(x)'
  BY <1>2, DropHandsOn DEF TopicOf
<1>3. CASE (\E u \in Urls : SeeLinkStep(w, u)) \/ AckStep(w)
  <2>1. /\ Others(w) /\ UNCHANGED <<submit, ledger, row, indexed, topic>>
        /\ task[w].pc \in {"links", "ack"} /\ task'[w].pc \in {"queue", "links", "idle"}
    <3>1. CASE \E u \in Urls : SeeLinkStep(w, u)
      BY <3>1 DEF SeeLinkStep, Gets
    <3>2. CASE AckStep(w)
      BY <3>2 DEF AckStep, Rests, Idle, Holding
    <3> QED
      BY <1>3, <3>1, <3>2
  <2> QED
    BY <2>1, IdlyHandsOn
<1>4. CASE QuietStep(w)
  <2>1. /\ Others(w) /\ UNCHANGED <<submit, ledger, row, indexed, topic>>
        /\ task[w].pc \in {"links", "upsert", "sethash", "replay"} /\ task'[w].pc # "mark"
    BY <1>4 DEF QuietStep, Goes, Gets
  <2>2. Taken(x) /\ LetsGo(w, x) /\ ~WorksOn(w, {"mark"}, x)'
    BY <1>0, <2>1, AddsTakeNothing DEF LetsGo, LinkQueuedBy, WorksOn
  <2> QED
    BY <2>1, <2>2, WorkerHandsOn DEF Crawled
<1>5. ~FailStep(w)
  BY Numbered DEF FailStep, NoFailure, FaultsNat
<1> QED
  BY <1>0, <1>1, <1>2, <1>3, <1>4, <1>5, FetchHandsOn, PublishHandsOn, MarkHandsOn, LinkHandsOn,
     ReportHandsOn DEF CrawlerDoes

LEMMA ParsersHandOn ==
  ASSUME IInv, NoFailure, NEW w \in Parsers, ParserDoes(w), NEW x \in RowIds, Unbroken(x)
  PROVE  Unbroken(x)'
<1>0. w \in Workers /\ w \notin Crawlers \cup Cleaners
  BY WorkersAssumption DEF Workers
<1>1. ASSUME NEW m, ClaimStep(w, "fetched", m, "parser", "parse"), UNCHANGED row
      PROVE  Unbroken(x)'
  BY <1>1, ClaimHandsOn DEF TopicOf, StartsAt
<1>2. ASSUME NEW m, DropStep("fetched", m, "parser")
      PROVE  Unbroken(x)'
  BY <1>2, DropHandsOn DEF TopicOf
<1>3. CASE PublishStep(w, "parse", "ack", "parsed", Parser!PageParsed(task[w].msg))
  <2>1. /\ Others(w) /\ UNCHANGED <<submit, ledger, indexed, row>> /\ "parsed" \in Topics
        /\ task[w].pc = "parse" /\ task'[w].pc = "ack" /\ task'[w].msg = task[w].msg
    BY <1>3 DEF PublishStep, Goes, Gets, Topics
  <2>2. PICK m \in Message : m = task[w].msg
    BY <1>0, <2>1, InHandRow
  <2>3. PICK y : y = Parser!PageParsed(m) /\ Adds("parsed", y)
    BY <1>3, <2>2 DEF PublishStep
  <2>4. RowOf(y) = RowOf(m)
    BY <2>3 DEF Parser!PageParsed, RowOf, Message
  <2>5. y \in topic'["parsed"] /\ Taken(x)
    BY <2>1, <2>3, AddsGrow, AddsTakeNothing
  <2>6. WorksOn(w, {"parse"}, x) => Parsed(x)'
    BY <2>2, <2>4, <2>5 DEF WorksOn, Has, Parsed
  <2>7. LetsGo(w, x) /\ ~WorksOn(w, {"mark"}, x)'
    BY <1>0, <2>1, <2>6 DEF LetsGo, LinkQueuedBy, WorksOn
  <2> QED
    BY <2>1, <2>5, <2>7, WorkerHandsOn DEF Crawled
<1>4. CASE AckStep(w)
  <2>1. /\ Others(w) /\ UNCHANGED <<submit, ledger, row, indexed, topic>>
        /\ task[w].pc = "ack" /\ task'[w].pc = "idle"
    BY <1>4 DEF AckStep, Rests, Idle, Holding
  <2> QED
    BY <2>1, IdlyHandsOn
<1> QED
  BY <1>0, <1>1, <1>2, <1>3, <1>4, ReportHandsOn DEF ParserDoes

\* The cleaner's commit: the page is in the index.
LEMMA CommitHandsOn ==
  ASSUME IInv, NEW w \in Cleaners, CommitStep(w), NEW x \in RowIds, Unbroken(x)
  PROVE  Unbroken(x)'
<1>1. /\ Others(w) /\ UNCHANGED <<submit, ledger, topic>> /\ w \in Workers
      /\ task[w].pc \in {"commit", "complete"} /\ task'[w].pc = "sethash"
      /\ w \notin Crawlers \cup Parsers
  BY WorkersAssumption DEF CommitStep, Goes, Gets, Workers
<1>2. PICK m \in Message : /\ m = task[w].msg /\ SetsRow(m, "parsed")
                           /\ indexed' = [indexed EXCEPT ![m.url] = IF @ = -1 THEN m.depth ELSE @]
  BY <1>1, InHandRow DEF CommitStep
<1>3. m.url \in Urls /\ m.depth \in Nat /\ m.depth >= 0 /\ x[2] \in Urls /\ m.n \in Nat
  BY LimitsAssumption DEF Message, RowIds
<1>4. indexed \in [Urls -> -1..MaxDepth]
  BY DEF IInv, StoresOK
<1>5. indexed'[m.url] >= 0
  <2>1. PICK d \in -1..MaxDepth : d = indexed[m.url]
    BY <1>3, <1>4
  <2>2. indexed'[m.url] = IF d = -1 THEN m.depth ELSE d
    BY <1>2, <1>3, <1>4, <2>1
  <2> QED
    BY <1>3, <2>1, <2>2, LimitsAssumption
<1>6. indexed[x[2]] >= 0 => indexed'[x[2]] >= 0
  <2>1. x[2] # m.url => indexed'[x[2]] = indexed[x[2]]
    BY <1>2, <1>3, <1>4
  <2> QED
    BY <1>5, <2>1
<1>7. row[RowOf(m)] # "none" /\ row'[x] = IF x = RowOf(m) THEN "parsed" ELSE row[x]
  BY <1>1, <1>2, HandHasRow, OneRow
<1>8. x = RowOf(m) => Cleaned(x)' /\ Crawled(x)'
  <2> SUFFICES ASSUME x = RowOf(m) PROVE Cleaned(x)' /\ Crawled(x)'
    OBVIOUS
  <2>1. x[1] = m.job /\ x[2] = m.url
    BY DEF RowOf
  <2>2. <<IdOf(m), "parser">> \in ledger
    BY <1>1, <1>2, Busy DEF Good
  <2>3. ClaimedBy(x, "parser")'
    BY <1>1, <1>3, <2>1, <2>2 DEF ClaimedBy, IdOf
  <2> QED
    BY <1>5, <2>1, <2>3 DEF Cleaned, Crawled, Out
<1>9. Taken(x) /\ LetsGo(w, x) /\ ~WorksOn(w, {"mark"}, x)'
  <2>1. WorksOn(w, {"upsert", "commit", "complete"}, x) => Cleaned(x)'
    BY <1>2, <1>8 DEF WorksOn
  <2> QED
    BY <1>1, <2>1, AddsTakeNothing DEF LetsGo, LinkQueuedBy, WorksOn
<1>10. row[x] = "skipped" => Crawled(x)'
  BY <1>7, <1>8 DEF Crawled
<1> QED
  BY <1>1, <1>6, <1>7, <1>9, <1>10, WorkerHandsOn

LEMMA CleanersHandOn ==
  ASSUME IInv, NoFailure, NEW w \in Cleaners, CleanerDoes(w), NEW x \in RowIds, Unbroken(x)
  PROVE  Unbroken(x)'
<1>0. w \in Workers /\ w \notin Crawlers \cup Parsers
  BY WorkersAssumption DEF Workers
<1>1. ASSUME NEW m, ClaimStep(w, "parsed", m, "cleaner", "upsert"), UNCHANGED row
      PROVE  Unbroken(x)'
  BY <1>1, ClaimHandsOn DEF TopicOf, StartsAt
<1>2. ASSUME NEW m, DropStep("parsed", m, "cleaner")
      PROVE  Unbroken(x)'
  BY <1>2, DropHandsOn DEF TopicOf
<1>3. CASE QuietStep(w)
  <2>1. /\ Others(w) /\ UNCHANGED <<submit, ledger, row, indexed, topic>>
        /\ task'[w].pc # "mark" /\ task'[w].msg = task[w].msg
        /\ \/ task[w].pc = "upsert" /\ task'[w].pc \in {"commit", "complete"}
           \/ task[w].pc \in {"links", "sethash", "replay"}
    BY <1>3 DEF QuietStep, Goes, Gets
  <2>2. WorksOn(w, {"upsert", "commit", "complete"}, x) =>
          WorksOn(w, {"upsert", "commit", "complete"}, x)'
    BY <2>1 DEF WorksOn, RowOf
  <2>3. Taken(x) /\ LetsGo(w, x) /\ ~WorksOn(w, {"mark"}, x)'
    BY <1>0, <2>1, <2>2, AddsTakeNothing DEF LetsGo, WorksOn
  <2> QED
    BY <2>1, <2>3, WorkerHandsOn DEF Crawled
<1>4. CASE AckStep(w)
  <2>1. /\ Others(w) /\ UNCHANGED <<submit, ledger, row, indexed, topic>>
        /\ task[w].pc = "ack" /\ task'[w].pc = "idle"
    BY <1>4 DEF AckStep, Rests, Idle, Holding
  <2> QED
    BY <2>1, IdlyHandsOn
<1>5. ~FailStep(w)
  BY Numbered DEF FailStep, NoFailure, FaultsNat
<1> QED
  BY <1>0, <1>1, <1>2, <1>3, <1>4, <1>5, CommitHandsOn, ReportHandsOn DEF CleanerDoes

\* The retry service and dlq-replay take only failures.
LEMMA RepublishHandsOn ==
  ASSUME IInv, \/ \E w \in Retriers : RetryDoes(w)
               \/ \E w \in Replayers : ReplayDoes(w),
         NEW x \in RowIds, Unbroken(x)
  PROVE  Unbroken(x)'
<1>1. ASSUME NEW w \in Retriers \cup Replayers, Others(w), task'[w].pc # "mark",
             UNCHANGED <<submit, ledger, row, indexed>>,
             \A t \in {"discovered", "fetched", "parsed"} : topic[t] \subseteq topic'[t]
      PROVE  Unbroken(x)'
  <2>1. w \notin Crawlers \cup Parsers \cup Cleaners
    BY WorkersAssumption
  <2>2. Taken(x)
    BY <1>1, NothingTaken
  <2>3. LetsGo(w, x) /\ ~WorksOn(w, {"mark"}, x)'
    BY <1>1, <2>1 DEF LetsGo, WorksOn
  <2> QED
    BY <1>1, <2>2, <2>3, WorkerHandsOn DEF Crawled
<1>2. ASSUME NEW w \in Retriers, NEW f, NEW t, NEW y, RetryStep(w, f, t, y)
      PROVE  Unbroken(x)'
  <2>1. \A s \in {"discovered", "fetched", "parsed"} : topic[s] \subseteq topic'[s]
    BY <1>2 DEF RetryStep, IInv, TopicsOK, Topics
  <2>2. Others(w) /\ task'[w].pc # "mark" /\ UNCHANGED <<submit, ledger, row, indexed>>
    BY <1>2 DEF RetryStep, Holds, Holding
  <2> QED
    BY <1>1, <2>1, <2>2
<1>3. ASSUME NEW w \in Replayers, NEW m, CountStep(w, m)
      PROVE  Unbroken(x)'
  <2>1. \A s \in {"discovered", "fetched", "parsed"} : topic[s] \subseteq topic'[s]
    BY <1>3 DEF CountStep, Removes, IInv, TopicsOK, Topics
  <2> QED
    BY <1>1, <1>3, <2>1 DEF CountStep, Holds, Holding
<1>4. ASSUME NEW w \in Retriers \cup Replayers, AckStep(w) \/ QuietStep(w)
      PROVE  Unbroken(x)'
  <2>1. UNCHANGED topic /\ task'[w].pc # "mark" /\ Others(w)
    BY <1>4 DEF AckStep, QuietStep, Rests, Goes, Gets, Idle, Holding
  <2> QED
    BY <1>1, <1>4, <2>1 DEF AckStep, QuietStep
<1>5. ASSUME NEW w \in Replayers, NEW t \in Topics, NEW y, PublishStep(w, "replay", "ack", t, y)
      PROVE  Unbroken(x)'
  <2>1. \A s \in {"discovered", "fetched", "parsed"} : topic[s] \subseteq topic'[s]
    BY <1>5, AddsGrow DEF PublishStep, Topics
  <2> QED
    BY <1>1, <1>5, <2>1 DEF PublishStep, Goes, Gets
<1>6. ASSUME NEW w \in Retriers, RetryDoes(w) PROVE Unbroken(x)'
  BY <1>2, <1>4, <1>6 DEF RetryDoes
<1>7. ASSUME NEW w \in Replayers, ReplayDoes(w) PROVE Unbroken(x)'
  <2>1. {"parsed", "discovered"} \subseteq Topics
    BY DEF Topics
  <2> QED
    BY <1>3, <1>4, <1>5, <1>7, <2>1 DEF ReplayDoes
<1> QED
  BY <1>6, <1>7

\* A submission announces what it has queued.
LEMMA SubmissionHandsOn ==
  ASSUME NEW x, UNCHANGED <<task, ledger, indexed>>, Taken(x),
         SeedQueued(x) => Announced(x)',
         row[x] = "skipped" => row'[x] = "skipped",
         row'[x] # "none" => row[x] # "none" \/ Announced(x)',
         Unbroken(x)
  PROVE  Unbroken(x)'
<1>1. \A s : ClaimedBy(x, s)' <=> ClaimedBy(x, s)
  BY DEF ClaimedBy
<1>2. \A ws, pcs : AtWork(ws, pcs, x)' <=> AtWork(ws, pcs, x)
  BY DEF AtWork, WorksOn
<1>3. LinkQueued(x) => LinkQueued(x)'
  BY DEF LinkQueued, LinkQueuedBy
<1>4. Lasts(x)
  BY <1>1, <1>2, <1>3 DEF Lasts, Announced, Crawled, Out, Parsed, Cleaned, Taken
<1> QED
  BY <1>1, <1>2, <1>4, HandsOn

LEMMA SubmitsHandOn ==
  ASSUME IInv, NoFailure, NEW j \in Jobs, SubmitDoes(j), NEW x \in RowIds, Unbroken(x)
  PROVE  Unbroken(x)'
<1>1. ASSUME NEW pc, NEW cur, SubmitGets(j, pc, cur), submit[j].pc # "publish",
             UNCHANGED <<task, topic, row, ledger, indexed>>
      PROVE  Unbroken(x)'
  <2>1. SeedQueued(x) => Announced(x)'
    BY <1>1, OthersSeed DEF Announced
  <2>2. Taken(x)
    BY <1>1, AddsTakeNothing
  <2> QED
    BY <1>1, <2>1, <2>2, SubmissionHandsOn
<1>2. CASE CreateStep(j) \/ RestStep(j) \/ \E u \in Urls : SeeSeedStep(j, u)
  BY <1>1, <1>2 DEF CreateStep, RestStep, SeeSeedStep
<1>3. CASE QueueSeedStep(j)
  <2>1. /\ submit[j].pc = "queue" /\ SubmitGets(j, "publish", submit[j].cur)
        /\ UNCHANGED <<task, topic, ledger, indexed>> /\ QueueUrl(j, submit[j].cur)
    BY <1>3 DEF QueueSeedStep
  <2>2. submit[j].cur \in Urls
    BY <2>1 DEF IInv, SubmitsOK, SubmitOK
  <2>3. row'[x] = IF x = <<j, submit[j].cur>> /\ row[x] = "none" THEN "queued" ELSE row[x]
    BY <2>1, <2>2, OneQueued
  <2>4. SeedQueued(x) => Announced(x)'
    BY <2>1, OthersSeed DEF Announced
  <2>5. x = <<j, submit[j].cur>> => Announced(x)'
    BY <2>1 DEF SeedQueued, SubmitGets, Announced
  <2>6. Taken(x)
    BY <2>1, AddsTakeNothing
  <2> QED
    BY <2>1, <2>3, <2>4, <2>5, <2>6, SubmissionHandsOn
<1>4. CASE PublishSeedStep(j)
  <2>1. /\ SubmitGets(j, "next", Nil) /\ UNCHANGED <<task, row, ledger, indexed>>
        /\ "discovered" \in Topics
    BY <1>4 DEF PublishSeedStep, Topics
  <2>2. PICK m : m.job = j /\ m.url = submit[j].cur /\ Adds("discovered", m)
    BY <1>4 DEF PublishSeedStep, Discovered
  <2>3. m \in topic'["discovered"] /\ Taken(x)
    BY <2>1, <2>2, AddsGrow, AddsTakeNothing
  <2>4. SeedQueued(x) => Announced(x)'
    <3>1. x[1] = j /\ submit[j].cur = x[2] => RowOf(m) = x
      BY <2>2 DEF RowOf, RowIds
    <3>2. RowOf(m) = x => Announced(x)'
      BY <2>3 DEF Has, Announced
    <3>3. SeedQueued(x)' => Announced(x)'
      BY DEF Announced
    <3> QED
      BY <2>1, <3>1, <3>2, <3>3, OthersSeed
  <2> QED
    BY <2>1, <2>3, <2>4, SubmissionHandsOn
<1>5. ~AbandonStep(j)
  BY Numbered DEF AbandonStep, NoFailure, FaultsNat
<1> QED
  BY <1>2, <1>3, <1>4, <1>5 DEF SubmitDoes

LEMMA CleanStays ==
  ASSUME IInv, CleanSoFar, [Next]_vars
  PROVE  CleanSoFar'
<1> SUFFICES ASSUME errors' = 0, faults' = 0, NEW x \in RowIds
             PROVE  Unbroken(x)'
  BY DEF CleanSoFar
<1>1. NoFailure /\ errors = 0 /\ faults = 0
  BY Numbered, FaultsCount DEF NoFailure, FaultsNat
<1>2. Unbroken(x)
  BY <1>1 DEF CleanSoFar
<1>3. ASSUME NEW w \in Workers PROVE ~CrashStep(w) /\ ~RedeliverStep(w)
  BY <1>1 DEF CrashStep, RedeliverStep
<1>4. CASE (\E u \in Urls : ExpireStep(u)) \/ UNCHANGED vars
  <2>1. UNCHANGED <<task, submit, row, topic, ledger, indexed>>
    BY <1>4 DEF ExpireStep, vars, kafka, postgres
  <2>2. Taken(x) /\ (SeedQueued(x) => Announced(x)')
    BY <2>1, AddsTakeNothing DEF SeedQueued, Announced
  <2> QED
    BY <1>2, <2>1, <2>2, SubmissionHandsOn
<1> QED
  BY <1>1, <1>2, <1>3, <1>4, AllSteps, CrawlersHandOn, ParsersHandOn, CleanersHandOn,
     RepublishHandsOn, SubmitsHandOn DEF SystemDoes

\* When all is quiet after a run without any failure, every URL that was not
\* skipped is in the index.
THEOREM CleanRunsIndex == Spec => []CleanRunIndexes
<1>1. Init => CleanSoFar
  <2> SUFFICES ASSUME Init, NEW x \in RowIds PROVE Unbroken(x)
    BY DEF CleanSoFar
  <2>1. row[x] = "none" /\ ledger = {} /\ \A w \in Crawlers : task[w].pc = "idle"
    BY DEF Init, RowIds, Workers, Idle, Holding
  <2> QED
    BY <2>1 DEF Unbroken, ClaimedBy, AtWork, WorksOn
<1>2. IInv /\ CleanSoFar /\ [Next]_vars => CleanSoFar'
  BY CleanStays
<1>3. CleanSoFar => CleanRunIndexes
  <2> SUFFICES ASSUME CleanSoFar, Quiet, faults = 0, errors = 0, NEW x \in Rows
               PROVE  row[x] = "skipped" \/ indexed[x[2]] >= 0
    BY DEF CleanRunIndexes
  <2>1. x \in RowIds /\ x[1] \in Jobs /\ row[x] # "none" /\ Unbroken(x)
    BY DEF Rows, RowIds, CleanSoFar
  <2>2. /\ ~SeedQueued(x) /\ ~Has("discovered", x) /\ ~Has("fetched", x) /\ ~Has("parsed", x)
        /\ \A w \in Workers : task[w].pc = "idle"
    BY <2>1 DEF Quiet, SeedQueued, Has, Topics, IsIdle, Idle, Holding
  <2>3. /\ ~LinkQueued(x)
        /\ ~AtWork(Crawlers, {"dedup", "fetch", "publish"}, x)
        /\ ~AtWork(Parsers, {"parse"}, x)
        /\ ~AtWork(Cleaners, {"upsert", "commit", "complete"}, x)
    BY <2>2 DEF LinkQueued, LinkQueuedBy, AtWork, WorksOn, Workers
  <2> QED
    BY <2>1, <2>2, <2>3 DEF Unbroken, Announced, Crawled, Out, Parsed, Cleaned
<1> QED
  BY <1>1, <1>2, <1>3, PipelineCorrect, PTL DEF Spec
=============================================================================
