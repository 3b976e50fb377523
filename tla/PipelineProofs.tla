--------------------------- MODULE PipelineProofs ---------------------------
(***************************************************************************)
(* Proofs about Pipeline, for any number of jobs, pages, links, workers,   *)
(* attempts, replays, errors and faults.                                   *)
(***************************************************************************)
EXTENDS Pipeline, FiniteSetTheorems, TLAPS

Ids == Jobs \X Urls \X Nat
Pcs == {"idle", "dedup", "fetch", "publish", "mark", "links", "queue", "publink", "report",
        "ack", "parse", "upsert", "commit", "complete", "sethash", "replay"}
Tasks == [pc : Pcs, msg : Message \cup {Nil}, links : SUBSET Urls, cur : Urls \cup {Nil}]
Submits == [pc : {"new", "select", "next", "queue", "publish", "closed"},
            todo : SUBSET Urls, cur : Urls \cup {Nil}]

\* The stores keep their types.
StoresOK ==
  /\ minted \in [Jobs \X Urls -> Nat]
  /\ ledger \subseteq Ids \X Stages
  /\ row \in [Jobs \X Urls -> RowStatus \cup {"none"}]
  /\ job \in [Jobs -> {"none", "running", "completed"}]
  /\ indexed \in [Urls -> -1..MaxDepth]
  /\ stored \subseteq Jobs \X Urls /\ seen \subseteq Jobs \X Urls /\ dedup \subseteq Urls
  /\ replays \subseteq Ids \X Nat /\ IsFiniteSet(replays)
  /\ task \in [Workers -> Tasks]
  /\ submit \in [Jobs -> Submits]
  /\ errors \in 0..MaxErrors /\ faults \in 0..MaxFaults

\* What is true of an event wherever it is: its row and its artifact are there,
\* the stages before it have claimed its id, and its attempts are numbered up
\* to the last, which no failure that is to be retried has.
Carries(m) == m.kind = "UrlFailed" /\ m.stage = "cleaner"
Good(m) ==
  /\ m \in Message
  /\ row[<<m.job, m.url>>] # "none"
  /\ m.attempt <= WorkerMaxAttempts
  /\ m.kind = "UrlFailed" => m.attempt < WorkerMaxAttempts
  /\ m.kind \in {"HtmlFetched", "PageParsed"} \/ Carries(m) => <<m.job, m.url>> \in stored
  /\ m.kind \in {"HtmlFetched", "PageParsed"} => <<IdOf(m), "crawler">> \in ledger
  /\ m.kind = "PageParsed" => <<IdOf(m), "parser">> \in ledger
  /\ Carries(m) => m.page # 0 /\ <<<<m.job, m.url, m.page>>, "parser">> \in ledger

\* The kind of event a topic is for; the DLQ takes all.
Fits(t, m) ==
  /\ t = "discovered" => m.kind = "UrlDiscovered"
  /\ t = "fetched" => m.kind = "HtmlFetched"
  /\ t = "parsed" => m.kind = "PageParsed"
  /\ t = "failed" => m.kind = "UrlFailed"
TopicsOK ==
  /\ DOMAIN topic = Topics
  /\ \A t \in Topics : \A m \in topic[t] : Good(m) /\ Fits(t, m)

\* A worker that is busy holds such an event, from its topic and claimed by
\* its stage; a crawler about to announce a page or a link has what it needs.
HandOK(w) ==
  task[w] # Idle =>
    /\ Good(task[w].msg)
    /\ Fits(Source(w), task[w].msg)
    /\ w \in Crawlers => <<IdOf(task[w].msg), "crawler">> \in ledger
    /\ w \in Parsers => <<IdOf(task[w].msg), "parser">> \in ledger
    /\ task[w].pc = "publish" => <<task[w].msg.job, task[w].msg.url>> \in stored
    /\ task[w].links # {} \/ task[w].pc \in {"queue", "publink"} =>
         task[w].msg.depth < MaxDepth
    /\ task[w].pc \in {"queue", "publink"} => task[w].cur \in Urls
    /\ task[w].pc = "publink" => row[<<task[w].msg.job, task[w].cur>>] # "none"
HandsOK == \A w \in Workers : HandOK(w)

\* A submission about to announce a URL has queued it, and knows its depth.
SubmitOK(j) ==
  /\ submit[j].pc \in {"queue", "publish"} => submit[j].cur \in Urls
  /\ submit[j].pc = "publish" => row[<<j, submit[j].cur>>] # "none"
  /\ j \in Incremental =>
       /\ \A u \in submit[j].todo : indexed[u] >= 0
       /\ submit[j].pc \in {"queue", "publish"} => indexed[submit[j].cur] >= 0
SubmitsOK == \A j \in Jobs : SubmitOK(j)

\* A stage claims after the stages before it.
LedgerOK ==
  \A id \in Ids : /\ <<id, "parser">> \in ledger => <<id, "crawler">> \in ledger
                  /\ <<id, "cleaner">> \in ledger => <<id, "parser">> \in ledger

IInv == StoresOK /\ TopicsOK /\ HandsOK /\ SubmitsOK /\ LedgerOK
-----------------------------------------------------------------------------
\* No step takes back a row, an object, a claim or an indexed page.
Grows == /\ ledger \subseteq ledger' /\ stored \subseteq stored'
         /\ \A x \in Jobs \X Urls : row[x] # "none" => row'[x] # "none"
         /\ \A u \in Urls : indexed[u] >= 0 => indexed'[u] >= 0

\* What is true of an event stays true of it.
LEMMA GoodStays ==
  ASSUME Grows, NEW m, Good(m)
  PROVE  Good(m)'
<1>1. <<m.job, m.url>> \in Jobs \X Urls
  BY DEF Good, Message
<1> QED
  BY <1>1 DEF Grows, Good, Carries, IdOf

\* What is true of a worker's hand stays true while its task does.
LEMMA HandStays ==
  ASSUME IInv, Grows, NEW v \in Workers, task'[v] = task[v]
  PROVE  HandOK(v)'
<1>1. task[v] # Idle => Good(task[v].msg) /\ Good(task[v].msg)'
  BY GoodStays DEF IInv, HandsOK, HandOK
<1>2. ASSUME task[v] # Idle, task[v].pc = "publink"
      PROVE  <<task[v].msg.job, task[v].cur>> \in Jobs \X Urls
  BY <1>1, <1>2 DEF IInv, HandsOK, HandOK, Good, Message
<1> QED
  BY <1>1, <1>2 DEF IInv, HandsOK, HandOK, Grows, Fits, Source, IdOf, Idle, Holding

\* What is true of a submission stays true while it stands still.
LEMMA SubmissionStays ==
  ASSUME IInv, Grows, NEW j \in Jobs, submit'[j] = submit[j]
  PROVE  SubmitOK(j)'
<1>1. SubmitOK(j) /\ submit[j] \in Submits
  BY DEF IInv, SubmitsOK, StoresOK
<1>2. submit[j].pc \in {"queue", "publish"} => <<j, submit[j].cur>> \in Jobs \X Urls
  BY <1>1 DEF SubmitOK
<1> QED
  BY <1>1, <1>2 DEF SubmitOK, Grows, Submits

\* A step keeps the invariant if the tasks and submissions it changes, the
\* messages it publishes and the stores are in order.
LEMMA Keeps ==
  ASSUME IInv, Grows, StoresOK', DOMAIN topic' = Topics,
         \A t \in Topics : \A m \in topic'[t] : m \in topic[t] \/ (Good(m) /\ Fits(t, m)),
         \A v \in Workers : task'[v] = task[v] \/ HandOK(v)',
         \A j \in Jobs : submit'[j] = submit[j] \/ SubmitOK(j)',
         LedgerOK'
  PROVE  IInv'
<1>1. TopicsOK'
  BY GoodStays DEF IInv, TopicsOK, Fits
<1>2. HandsOK'
  BY HandStays DEF HandsOK
<1>3. SubmitsOK'
  BY SubmissionStays DEF SubmitsOK
<1> QED
  BY <1>1, <1>2, <1>3 DEF IInv
-----------------------------------------------------------------------------
\* The steps of workers, by what they do.  Moved: the worker goes on with its
\* message.  Marked: it changes the row of its message or none.  Published: a
\* message in order is added to a topic, or none.
Moved(w, pc) == task' = [task EXCEPT ![w].pc = pc]
Marked(m) == \/ row' = row
             \/ \E s \in RowStatus : row' = [row EXCEPT ![<<m.job, m.url>>] = s]
Published == \/ topic' = topic
             \/ \E t \in Topics, m \in Message :
                  Good(m) /\ Fits(t, m) /\ topic' = [topic EXCEPT ![t] = @ \cup {m}]
MintedOK == minted' \in [Jobs \X Urls -> Nat]
Counted == errors' \in 0..MaxErrors /\ faults' \in 0..MaxFaults

\* A worker that moves changes the place in its task and nothing else.
LEMMA Moves ==
  ASSUME StoresOK, NEW w \in Workers, NEW pc \in Pcs, Moved(w, pc)
  PROVE  /\ task' \in [Workers -> Tasks]
         /\ \A v \in Workers \ {w} : task'[v] = task[v]
         /\ task'[w].pc = pc /\ task'[w].msg = task[w].msg
         /\ task'[w].links = task[w].links /\ task'[w].cur = task[w].cur
<1>1. task \in [Workers -> Tasks]
  BY DEF StoresOK
<1>2. task' = [task EXCEPT ![w] = [task[w] EXCEPT !.pc = pc]]
  BY DEF Moved
<1>3. [task[w] EXCEPT !.pc = pc] = [pc |-> pc, msg |-> task[w].msg, links |-> task[w].links,
                                    cur |-> task[w].cur]
  BY <1>1 DEF Tasks
<1> QED
  BY <1>1, <1>2, <1>3 DEF Tasks

\* Marking a row keeps its type and takes none back.
LEMMA Marks ==
  ASSUME StoresOK, NEW m \in Message, Marked(m)
  PROVE  /\ row' \in [Jobs \X Urls -> RowStatus \cup {"none"}]
         /\ \A x \in Jobs \X Urls : row[x] # "none" => row'[x] # "none"
<1>1. <<m.job, m.url>> \in Jobs \X Urls
  BY DEF Message
<1>2. row \in [Jobs \X Urls -> RowStatus \cup {"none"}]
  BY DEF StoresOK
<1>3. CASE row' = row
  BY <1>2, <1>3
<1>4. ASSUME NEW s \in RowStatus, row' = [row EXCEPT ![<<m.job, m.url>>] = s]
      PROVE  /\ row' \in [Jobs \X Urls -> RowStatus \cup {"none"}]
             /\ \A x \in Jobs \X Urls : row[x] # "none" => row'[x] # "none"
  <2>1. s # "none"
    BY DEF RowStatus
  <2> QED
    BY <1>1, <1>2, <1>4, <2>1
<1> QED
  BY <1>3, <1>4 DEF Marked

\* Publishing keeps the topics.
LEMMA Publishes ==
  ASSUME TopicsOK, Published
  PROVE  /\ DOMAIN topic' = Topics
         /\ \A t \in Topics : \A m \in topic'[t] : m \in topic[t] \/ (Good(m) /\ Fits(t, m))
  BY DEF TopicsOK, Published

\* A worker goes on with its message: it may publish, mark the message's row,
\* index a page, take or give back a dedup key.
LEMMA GoesOn ==
  ASSUME IInv, NEW w \in Workers, task[w].pc # "idle",
         NEW pc \in Pcs \ {"idle", "publish", "queue", "publink"}, Moved(w, pc),
         Marked(task[w].msg), Published, MintedOK, Counted,
         UNCHANGED <<ledger, stored, seen, replays, submit>>,
         job' \in [Jobs -> {"none", "running", "completed"}],
         indexed' \in [Urls -> -1..MaxDepth],
         \A u \in Urls : indexed[u] >= 0 => indexed'[u] >= 0,
         dedup' \subseteq Urls
  PROVE  IInv'
<1>0. StoresOK /\ TopicsOK /\ HandOK(w) /\ LedgerOK
  BY DEF IInv, HandsOK
<1>1. task[w] # Idle /\ Good(task[w].msg) /\ task[w].msg \in Message
  BY <1>0 DEF Idle, Holding, HandOK, Good
<1>2. /\ row' \in [Jobs \X Urls -> RowStatus \cup {"none"}]
      /\ \A x \in Jobs \X Urls : row[x] # "none" => row'[x] # "none"
  BY <1>0, <1>1, Marks
<1>3. Grows
  BY <1>2 DEF Grows
<1>4. /\ task' \in [Workers -> Tasks]
      /\ \A v \in Workers \ {w} : task'[v] = task[v]
      /\ task'[w].pc = pc /\ task'[w].msg = task[w].msg
      /\ task'[w].links = task[w].links /\ task'[w].cur = task[w].cur
  BY <1>0, Moves
<1>5. StoresOK'
  BY <1>0, <1>2, <1>4 DEF StoresOK, MintedOK, Counted
<1>6. Good(task[w].msg)'
  <2>1. PICK m : m = task[w].msg
    OBVIOUS
  <2>2. Good(m)' /\ task'[w].msg = m
    BY <1>1, <1>3, <1>4, <2>1, GoodStays
  <2> QED
    BY <2>2
<1>7. HandOK(w)'
  BY <1>0, <1>1, <1>4, <1>6 DEF HandOK, Fits, Source, IdOf
<1>8. LedgerOK'
  BY <1>0 DEF LedgerOK
<1> QED
  BY <1>0, <1>3, <1>4, <1>5, <1>7, <1>8, Keeps, Publishes

\* An idle worker takes a message of its topic, claims it if its stage has a
\* ledger, and may mark the row.
LEMMA Takes ==
  ASSUME IInv, NEW w \in Workers, NEW m \in topic[Source(w)], Source(w) \in Topics,
         NEW pc \in Pcs \ {"idle", "publish", "queue", "publink"},
         topic' = [topic EXCEPT ![Source(w)] = @ \ {m}],
         task' = [task EXCEPT ![w] = Holding(pc, m)],
         Marked(m), ledger \subseteq ledger', ledger' \subseteq Ids \X Stages, LedgerOK',
         w \in Crawlers => <<IdOf(m), "crawler">> \in ledger',
         w \in Parsers => <<IdOf(m), "parser">> \in ledger',
         replays' \subseteq Ids \X Nat, IsFiniteSet(replays'),
         UNCHANGED <<minted, job, indexed, stored, dedup, seen, submit, world>>
  PROVE  IInv'
<1>0. StoresOK /\ TopicsOK /\ Good(m) /\ Fits(Source(w), m) /\ m \in Message
  BY DEF IInv, TopicsOK, Good
<1>1. /\ row' \in [Jobs \X Urls -> RowStatus \cup {"none"}]
      /\ \A x \in Jobs \X Urls : row[x] # "none" => row'[x] # "none"
  BY <1>0, Marks
<1>2. Grows
  BY <1>1 DEF Grows
<1>3. [pc |-> pc, msg |-> m, links |-> {}, cur |-> Nil] \in Tasks
  BY <1>0 DEF Tasks
<1>4. /\ task' = [task EXCEPT ![w] = [pc |-> pc, msg |-> m, links |-> {}, cur |-> Nil]]
      /\ task \in [Workers -> Tasks]
  BY <1>0 DEF StoresOK, Holding
<1>5. /\ task' \in [Workers -> Tasks] /\ task'[w].pc = pc /\ task'[w].msg = m
      /\ task'[w].links = {} /\ \A v \in Workers \ {w} : task'[v] = task[v]
  <2>1. task'[w] = [pc |-> pc, msg |-> m, links |-> {}, cur |-> Nil]
    BY <1>4
  <2>2. \A v \in Workers \ {w} : task'[v] = task[v]
    BY <1>4
  <2>3. task' \in [Workers -> Tasks]
    BY <1>3, <1>4
  <2> QED
    BY <2>1, <2>2, <2>3
<1>6. StoresOK'
  BY <1>0, <1>1, <1>5 DEF StoresOK, world
<1>7. Good(m)'
  BY <1>0, <1>2, GoodStays
<1>8. HandOK(w)'
  BY <1>0, <1>5, <1>7 DEF HandOK, Fits, Source, IdOf
<1>9. DOMAIN topic' = Topics /\ \A t \in Topics : topic'[t] \subseteq topic[t]
  BY <1>0 DEF TopicsOK
<1> QED
  BY <1>2, <1>5, <1>6, <1>8, <1>9, Keeps

\* A worker is through with its message, or a crash is through with it; in a
\* crash the message goes back.
LEMMA Leaves ==
  ASSUME IInv, NEW w \in Workers, task' = [task EXCEPT ![w] = Idle], Published, Counted,
         UNCHANGED <<minted, postgres, stored, redis, submit>>
  PROVE  IInv'
<1>0. StoresOK /\ TopicsOK /\ LedgerOK
  BY DEF IInv
<1>1. Grows
  BY DEF Grows, postgres
<1>2. task \in [Workers -> Tasks] /\ Idle \in Tasks
  BY <1>0 DEF StoresOK, Tasks, Pcs, Idle, Holding
<1>3. /\ task' \in [Workers -> Tasks] /\ task'[w] = Idle
      /\ \A v \in Workers \ {w} : task'[v] = task[v]
  BY <1>2
<1>4. StoresOK'
  BY <1>0, <1>3 DEF StoresOK, Counted, postgres, redis
<1>5. HandOK(w)'
  BY <1>3 DEF HandOK, Idle, Holding
<1>6. LedgerOK'
  BY <1>0 DEF LedgerOK, postgres
<1> QED
  BY <1>0, <1>1, <1>3, <1>4, <1>5, <1>6, Keeps, Publishes

\* Messages come and go and no worker moves.
LEMMA TopicsChange ==
  ASSUME IInv, Counted, DOMAIN topic' = Topics,
         \A t \in Topics : \A m \in topic'[t] : m \in topic[t] \/ (Good(m) /\ Fits(t, m)),
         UNCHANGED <<minted, postgres, stored, redis, task, submit>>
  PROVE  IInv'
<1>1. Grows
  BY DEF Grows, postgres
<1>2. StoresOK' /\ LedgerOK'
  BY DEF IInv, StoresOK, LedgerOK, Counted, postgres, redis
<1> QED
  BY <1>1, <1>2, Keeps
-----------------------------------------------------------------------------
\* Which topic a worker consumes; every worker is of one kind.
LEMMA SourceOf ==
  ASSUME NEW w \in Workers
  PROVE  /\ Source(w) \in Topics
         /\ w \in Crawlers => Source(w) = "discovered" /\ w \notin Parsers
         /\ w \in Parsers => Source(w) = "fetched" /\ w \notin Crawlers
         /\ w \in Cleaners => Source(w) = "parsed" /\ w \notin Crawlers \cup Parsers
         /\ w \in Retriers => Source(w) = "failed" /\ w \notin Crawlers \cup Parsers
         /\ w \in Replayers => Source(w) = "dlq" /\ w \notin Crawlers \cup Parsers
  BY WorkersAssumption DEF Source, Workers, Topics

\* What a busy worker holds, and where it is from.
LEMMA Busy ==
  ASSUME IInv, NEW w \in Workers, task[w].pc # "idle"
  PROVE  /\ Good(task[w].msg) /\ task[w].msg \in Message
         /\ w \in Crawlers => task[w].msg.kind = "UrlDiscovered"
         /\ w \in Parsers => task[w].msg.kind = "HtmlFetched"
         /\ w \in Cleaners => task[w].msg.kind = "PageParsed"
<1>1. task[w] # Idle
  BY DEF Idle, Holding
<1> QED
  BY <1>1, SourceOf DEF IInv, HandsOK, HandOK, Fits, Good

\* A step that leaves errors and faults alone, or counts one of them.
LEMMA Counts ==
  ASSUME StoresOK, UNCHANGED world \/ Error \/ Fault
  PROVE  Counted
  BY LimitsAssumption DEF StoresOK, Counted, world, Error, Fault

\* A fresh id is counted.
LEMMA Mints ==
  ASSUME StoresOK, NEW j \in Jobs, NEW u \in Urls
  PROVE  /\ NewId(j, u) \in Nat \ {0}
         /\ Mint(j, u) => MintedOK
<1>1. minted[<<j, u>>] \in Nat
  BY DEF StoresOK
<1> QED
  BY <1>1 DEF StoresOK, NewId, Mint, MintedOK

\* A failure carries a page only if the cleaner reports it, and is to be
\* retried, so its attempt is not the last.
LEMMA FailureGood ==
  ASSUME IInv, NEW m, Good(m), NEW stage \in Stages, NEW force \in BOOLEAN,
         stage = "cleaner" => m.kind = "PageParsed", m.attempt < WorkerMaxAttempts
  PROVE  Failure(m, stage, force) \in Message /\ Good(Failure(m, stage, force))
<1>1. m \in Message /\ NewId(m.job, m.url) \in Nat \ {0}
  BY Mints DEF Good, Message, IInv
<1>2. PICK f : f = Failure(m, stage, force)
  OBVIOUS
<1>3. /\ f.kind = "UrlFailed" /\ f.job = m.job /\ f.url = m.url /\ f.attempt = m.attempt
      /\ f.stage = stage /\ f.page = IF stage = "cleaner" THEN m.n ELSE 0
  BY <1>2 DEF Failure
<1>4. f \in Message
  BY <1>1, <1>2 DEF Failure, Message
<1>5. Carries(f) => m.kind = "PageParsed" /\ f.page = m.n /\ m.n # 0
  BY <1>1, <1>3 DEF Carries, Message
<1> QED
  BY <1>2, <1>3, <1>4, <1>5 DEF Good, Carries, IdOf

\* What Report publishes is in order.
LEMMA Reports ==
  ASSUME IInv, NEW m, Good(m), NEW stage \in Stages, NEW force \in BOOLEAN,
         stage = "cleaner" => m.kind = "PageParsed", Report(m, stage, force)
  PROVE  Published /\ MintedOK
<1>1. m \in Message /\ m.attempt \in Nat /\ minted \in [Jobs \X Urls -> Nat]
  BY DEF Good, Message, IInv, StoresOK
<1>2. CASE m.attempt < WorkerMaxAttempts
  <2>1. Publish("failed", Failure(m, stage, force)) /\ Mint(m.job, m.url)
    BY <1>2 DEF Report, ShouldRetry
  <2>2. MintedOK
    BY <1>1, <2>1, Mints DEF Message, IInv
  <2>3. Failure(m, stage, force).kind = "UrlFailed"
    BY DEF Failure
  <2> QED
    BY <1>2, <2>1, <2>2, <2>3, FailureGood DEF Publish, Published, Fits, Topics
<1>3. CASE ~(m.attempt < WorkerMaxAttempts)
  BY <1>1, <1>3 DEF Report, ShouldRetry, Publish, Published, MintedOK, Fits, Topics
<1> QED
  BY <1>2, <1>3

\* A claimed message is in the hands of a worker whose stage has claimed it.
LEMMA HandsClaimed ==
  ASSUME IInv, NEW w \in Workers, task[w].pc # "idle"
  PROVE  /\ w \in Crawlers => <<IdOf(task[w].msg), "crawler">> \in ledger
         /\ w \in Parsers => <<IdOf(task[w].msg), "parser">> \in ledger
<1>1. task[w] # Idle
  BY DEF Idle, Holding
<1> QED
  BY <1>1 DEF IInv, HandsOK, HandOK

\* A worker that has published or not, and is then to commit its message.
LEMMA AcksAfter ==
  ASSUME IInv, NEW w \in Workers, task[w].pc # "idle", Moved(w, "ack"),
         Published, MintedOK \/ UNCHANGED minted, UNCHANGED world \/ Error \/ Fault,
         UNCHANGED <<postgres, stored, redis, submit>>
  PROVE  IInv'
<1>1. Marked(task[w].msg) /\ "ack" \in Pcs \ {"idle", "publish", "queue", "publink"}
  BY DEF Marked, Pcs, postgres
<1>2. Counted /\ MintedOK
  BY Counts DEF IInv, StoresOK, MintedOK
<1> QED
  BY <1>1, <1>2, GoesOn DEF IInv, StoresOK, postgres, redis

\* The commit of a message.
LEMMA Acks ==
  ASSUME IInv, NEW w \in Workers, task' = [task EXCEPT ![w] = Idle],
         UNCHANGED <<kafka, postgres, stored, redis, submit, world>>
  PROVE  IInv'
<1>1. Published /\ Counted
  BY Counts DEF Published, IInv, kafka
<1> QED
  BY <1>1, Leaves DEF kafka

\* A duplicate is taken off its topic.
LEMMA SkipKeeps ==
  ASSUME IInv, NEW t, NEW m, topic' = [topic EXCEPT ![t] = @ \ {m}],
         UNCHANGED <<minted, postgres, stored, redis, task, submit, world>>
  PROVE  IInv'
<1>1. /\ DOMAIN topic' = Topics
      /\ \A x \in Topics : topic'[x] \subseteq topic[x]
  BY DEF IInv, TopicsOK
<1>2. Counted
  BY Counts DEF IInv
<1> QED
  BY <1>1, <1>2, TopicsChange

\* A worker goes on and touches no store.
LEMMA GoesOnQuietly ==
  ASSUME IInv, NEW w \in Workers, task[w].pc # "idle",
         NEW pc \in Pcs \ {"idle", "publish", "queue", "publink"}, Moved(w, pc),
         UNCHANGED <<kafka, postgres, stored, redis, submit, world>>
  PROVE  IInv'
<1>1. Marked(task[w].msg) /\ Published
  BY DEF Marked, Published, postgres, kafka
<1>2. Counted /\ MintedOK
  BY Counts DEF IInv, StoresOK, MintedOK, kafka
<1> QED
  BY <1>1, <1>2, GoesOn DEF IInv, StoresOK, postgres, redis

\* The row of a failed message is marked before the failure is reported.
LEMMA MarksFailed ==
  ASSUME IInv, NEW w \in Workers, task[w].pc # "idle", Moved(w, "report"),
         row' = [row EXCEPT ![<<task[w].msg.job, task[w].msg.url>>] = "failed"],
         Error \/ Fault, UNCHANGED <<kafka, ledger, job, indexed, stored, redis, submit>>
  PROVE  IInv'
<1>1. Marked(task[w].msg) /\ Published /\ "report" \in Pcs \ {"idle", "publish", "queue", "publink"}
  BY DEF Marked, RowStatus, Published, kafka, Pcs
<1>2. Counted /\ MintedOK
  BY Counts DEF IInv, StoresOK, MintedOK, kafka
<1> QED
  BY <1>1, <1>2, GoesOn DEF IInv, StoresOK, redis

\* The except clause of the cleaner.
LEMMA CleanerFails ==
  ASSUME IInv, NEW w \in Cleaners, task[w].pc # "idle", Cleaner!Fail(w), Error \/ Fault
  PROVE  IInv'
<1>1. /\ Moved(w, "report")
      /\ row' = [row EXCEPT ![<<task[w].msg.job, task[w].msg.url>>] = "failed"]
      /\ UNCHANGED <<kafka, ledger, job, indexed, stored, redis, submit>>
  BY DEF Cleaner!Fail, Cleaner!Mark, Cleaner!Goto, Moved, Cleaner!kafka, kafka,
         Cleaner!redis, redis
<1> QED
  BY <1>1, MarksFailed DEF Workers
-----------------------------------------------------------------------------
\* The parser keeps the invariant.
LEMMA ParserKeeps ==
  ASSUME IInv, NEW w \in Parsers, Parser!ParserStep(w)
  PROVE  IInv'
<1>0. w \in Workers /\ Source(w) = "fetched" /\ "fetched" \in Topics /\ StoresOK
  BY SourceOf DEF Workers, IInv
<1>1. ASSUME NEW m \in topic["fetched"], Parser!Claim(w, m)
      PROVE  IInv'
  <2>1. /\ topic' = [topic EXCEPT !["fetched"] = @ \ {m}]
        /\ task' = [task EXCEPT ![w] = Holding("parse", m)]
        /\ ledger' = ledger \cup {<<IdOf(m), "parser">>}
        /\ UNCHANGED <<minted, row, job, indexed, stored, redis, submit, world>>
    BY <1>1 DEF Parser!Claim, Parser!Take, Parser!Holding, Holding, Parser!IdOf, IdOf,
                Parser!redis, redis, Parser!world, world
  <2>2. Good(m) /\ m.kind = "HtmlFetched"
    BY <1>0 DEF IInv, TopicsOK, Fits
  <2>3. IdOf(m) \in Ids /\ "parser" \in Stages
    BY <2>2 DEF Good, Message, IdOf, Ids, Stages
  <2>4. LedgerOK'
    BY <2>1, <2>2, <2>3 DEF IInv, LedgerOK, Good
  <2>5. ledger' \subseteq Ids \X Stages /\ ledger \subseteq ledger'
    BY <1>0, <2>1, <2>3 DEF StoresOK
  <2>6. "parse" \in Pcs \ {"idle", "publish", "queue", "publink"} /\ Marked(m)
    BY <2>1 DEF Pcs, Marked
  <2>7. w \notin Crawlers
    BY <1>0, SourceOf
  <2> QED
    BY <1>0, <2>1, <2>4, <2>5, <2>6, <2>7, Takes DEF StoresOK, redis
<1>2. ASSUME NEW m \in topic["fetched"], Parser!SkipDuplicate(w, "parser", m)
      PROVE  IInv'
  BY <1>2, SkipKeeps DEF Parser!SkipDuplicate, Parser!Source, Source, Parser!postgres,
     postgres, Parser!redis, redis, Parser!world, world
<1>3. CASE Parser!Parse(w)
  <2>1. /\ task[w].pc = "parse" /\ Moved(w, "ack")
        /\ topic' = [topic EXCEPT !["parsed"] = @ \cup {Parser!PageParsed(task[w].msg)}]
        /\ UNCHANGED <<minted, postgres, stored, redis, submit, world>>
    BY <1>3 DEF Parser!Parse, Parser!At, Parser!Goto, Moved, Parser!Publish,
                Parser!postgres, postgres, Parser!redis, redis, Parser!world, world
  <2>2. PICK m : m = task[w].msg
    OBVIOUS
  <2>3. Good(m) /\ m \in Message /\ m.kind = "HtmlFetched" /\ <<IdOf(m), "parser">> \in ledger
    BY <1>0, <2>1, <2>2, Busy, HandsClaimed
  <2>4. PICK x : x = Parser!PageParsed(m)
    OBVIOUS
  <2>5. x = [kind |-> "PageParsed", job |-> m.job, url |-> m.url, n |-> m.n,
             attempt |-> m.attempt, depth |-> m.depth, force |-> m.force,
             stage |-> m.stage, page |-> m.page]
    BY <2>3, <2>4 DEF Parser!PageParsed, Message
  <2>6. x \in Message /\ Good(x) /\ Fits("parsed", x)
    BY <2>3, <2>5 DEF Message, Good, Carries, Fits, IdOf
  <2>7. Published
    BY <2>1, <2>2, <2>4, <2>6 DEF Published, Topics
  <2> QED
    BY <1>0, <2>1, <2>7, AcksAfter
<1>4. CASE Parser!ParseFails(w)
  <2>1. /\ task[w].pc = "parse" /\ Moved(w, "ack") /\ Error
        /\ Report(task[w].msg, "parser", FALSE)
        /\ UNCHANGED <<postgres, stored, redis, submit>>
    BY <1>4 DEF Parser!ParseFails, Parser!At, Parser!Goto, Moved, Parser!Error, Error,
       Parser!Report, Report, Parser!ShouldRetry, ShouldRetry, Parser!Publish, Publish,
       Parser!Failure, Failure, Parser!NewId, NewId, Parser!Mint, Mint,
       Parser!postgres, postgres, Parser!redis, redis
  <2>2. Good(task[w].msg)
    BY <1>0, <2>1, Busy
  <2>3. Published /\ MintedOK
    BY <2>1, <2>2, Reports DEF Stages
  <2> QED
    BY <1>0, <2>1, <2>3, AcksAfter
<1>5. CASE Parser!Ack(w)
  BY <1>0, <1>5, Acks DEF Parser!Ack, Parser!Idle, Parser!Holding, Idle, Holding,
     Parser!kafka, kafka, Parser!postgres, postgres, Parser!redis, redis, Parser!world, world
<1> QED
  BY <1>1, <1>2, <1>3, <1>4, <1>5 DEF Parser!ParserStep
-----------------------------------------------------------------------------
\* The cleaner keeps the invariant.
LEMMA CleanerKeeps ==
  ASSUME IInv, NEW w \in Cleaners, Cleaner!CleanerStep(w)
  PROVE  IInv'
<1>0. w \in Workers /\ Source(w) = "parsed" /\ "parsed" \in Topics /\ StoresOK
  BY SourceOf DEF Workers, IInv
<1>1. ASSUME NEW m \in topic["parsed"], Cleaner!Claim(w, m)
      PROVE  IInv'
  <2>1. /\ topic' = [topic EXCEPT !["parsed"] = @ \ {m}]
        /\ task' = [task EXCEPT ![w] = Holding("upsert", m)]
        /\ ledger' = ledger \cup {<<IdOf(m), "cleaner">>}
        /\ UNCHANGED <<minted, row, job, indexed, stored, redis, submit, world>>
    BY <1>1 DEF Cleaner!Claim, Cleaner!Take, Cleaner!Holding, Holding, Cleaner!IdOf, IdOf,
                Cleaner!redis, redis, Cleaner!world, world
  <2>2. Good(m) /\ m.kind = "PageParsed"
    BY <1>0 DEF IInv, TopicsOK, Fits
  <2>3. IdOf(m) \in Ids /\ "cleaner" \in Stages
    BY <2>2 DEF Good, Message, IdOf, Ids, Stages
  <2>4. LedgerOK'
    BY <2>1, <2>2, <2>3 DEF IInv, LedgerOK, Good
  <2>5. ledger' \subseteq Ids \X Stages /\ ledger \subseteq ledger'
    BY <1>0, <2>1, <2>3 DEF StoresOK
  <2>6. "upsert" \in Pcs \ {"idle", "publish", "queue", "publink"} /\ Marked(m)
    BY <2>1 DEF Pcs, Marked
  <2>7. w \notin Crawlers /\ w \notin Parsers
    BY <1>0, SourceOf
  <2> QED
    BY <1>0, <2>1, <2>4, <2>5, <2>6, <2>7, Takes DEF StoresOK, redis
<1>2. ASSUME NEW m \in topic["parsed"], Cleaner!SkipDuplicate(w, "cleaner", m)
      PROVE  IInv'
  BY <1>2, SkipKeeps DEF Cleaner!SkipDuplicate, Cleaner!Source, Source, Cleaner!postgres,
     postgres, Cleaner!redis, redis, Cleaner!world, world
<1>3. CASE Cleaner!Flush(w)
  <2>1. PICK pc \in {"complete", "commit"} : Moved(w, pc)
    BY <1>3 DEF Cleaner!Flush, Cleaner!Goto, Moved
  <2>2. /\ task[w].pc = "upsert"
        /\ UNCHANGED <<kafka, postgres, stored, redis, submit, world>>
    BY <1>3 DEF Cleaner!Flush, Cleaner!At, Cleaner!kafka, kafka, Cleaner!postgres, postgres,
                Cleaner!redis, redis, Cleaner!world, world
  <2> QED
    BY <1>0, <2>1, <2>2, GoesOnQuietly DEF Pcs
<1>4. CASE Cleaner!CommitUpserts(w)
  <2>1. /\ task[w].pc \in {"commit", "complete"} /\ Moved(w, "sethash")
        /\ row' = [row EXCEPT ![<<task[w].msg.job, task[w].msg.url>>] = "parsed"]
        /\ UNCHANGED <<kafka, ledger, stored, redis, submit, world>>
    BY <1>4 DEF Cleaner!CommitUpserts, Cleaner!Goto, Moved, Cleaner!kafka, kafka,
                Cleaner!redis, redis, Cleaner!world, world
  <2>2. /\ indexed' = [indexed EXCEPT ![task[w].msg.url] =
                         IF @ = -1 THEN task[w].msg.depth ELSE @]
        /\ job' = job \/ job' = [job EXCEPT ![task[w].msg.job] = "completed"]
    BY <1>4 DEF Cleaner!CommitUpserts
  <2>3. task[w].msg \in Message
    BY <1>0, <2>1, Busy
  <2>4. job' \in [Jobs -> {"none", "running", "completed"}]
    BY <1>0, <2>2, <2>3 DEF StoresOK, Message
  <2>5. task[w].msg.url \in Urls /\ task[w].msg.depth \in 0..MaxDepth
    BY <2>3 DEF Message
  <2>6. /\ indexed' \in [Urls -> -1..MaxDepth]
        /\ \A u \in Urls : indexed[u] >= 0 => indexed'[u] >= 0
    <3>1. indexed \in [Urls -> -1..MaxDepth]
      BY <1>0 DEF StoresOK
    <3> QED
      BY <2>2, <2>5, <3>1, LimitsAssumption
  <2>7. Marked(task[w].msg)
    BY <2>1 DEF Marked, RowStatus
  <2>8. Published /\ MintedOK /\ Counted
    BY <1>0, <2>1, Counts DEF Published, MintedOK, StoresOK, kafka
  <2>9. "sethash" \in Pcs \ {"idle", "publish", "queue", "publink"}
    BY DEF Pcs
  <2> QED
    BY <1>0, <2>1, <2>4, <2>6, <2>7, <2>8, <2>9, GoesOn DEF StoresOK, redis
<1>5. CASE Cleaner!SetHash(w)
  BY <1>0, <1>5, GoesOnQuietly DEF Cleaner!SetHash, Cleaner!At, Cleaner!Goto, Moved, Pcs,
     Cleaner!kafka, kafka, Cleaner!postgres, postgres, Cleaner!redis, redis,
     Cleaner!world, world
<1>6. CASE Cleaner!UpsertFails(w)
  <2>1. task[w].pc = "upsert" /\ Error /\ Cleaner!Fail(w)
    BY <1>6 DEF Cleaner!UpsertFails, Cleaner!At, Cleaner!Error, Error
  <2> QED
    BY <1>0, <2>1, CleanerFails
<1>7. CASE Cleaner!ReportFailure(w)
  <2>1. /\ task[w].pc = "report" /\ Moved(w, "ack")
        /\ Report(task[w].msg, "cleaner", FALSE)
        /\ UNCHANGED <<postgres, stored, redis, submit, world>>
    BY <1>7 DEF Cleaner!ReportFailure, Cleaner!At, Cleaner!Goto, Moved, Cleaner!world, world,
       Cleaner!Report, Report, Cleaner!ShouldRetry, ShouldRetry, Cleaner!Publish, Publish,
       Cleaner!Failure, Failure, Cleaner!NewId, NewId, Cleaner!Mint, Mint,
       Cleaner!postgres, postgres, Cleaner!redis, redis
  <2>2. Good(task[w].msg) /\ task[w].msg.kind = "PageParsed"
    BY <1>0, <2>1, Busy
  <2>3. Published /\ MintedOK
    BY <2>1, <2>2, Reports DEF Stages
  <2> QED
    BY <1>0, <2>1, <2>3, AcksAfter
<1>8. CASE Cleaner!Ack(w)
  BY <1>0, <1>8, Acks DEF Cleaner!Ack, Cleaner!Idle, Cleaner!Holding, Idle, Holding,
     Cleaner!kafka, kafka, Cleaner!postgres, postgres, Cleaner!redis, redis,
     Cleaner!world, world
<1> QED
  BY <1>1, <1>2, <1>3, <1>4, <1>5, <1>6, <1>7, <1>8 DEF Cleaner!CleanerStep
-----------------------------------------------------------------------------
\* What the retry service publishes from a failure that is not its last: the
\* page the cleaner's failure carries, or a fresh discovery.
LEMMA ReplayedPageGood ==
  ASSUME IInv, NEW f, Good(f), Carries(f)
  PROVE  /\ Retry!ReplayedPage(f) \in Message /\ Good(Retry!ReplayedPage(f))
         /\ Fits("parsed", Retry!ReplayedPage(f))
<1>1. f \in Message /\ f.page \in Nat \ {0} /\ f.attempt < WorkerMaxAttempts
  BY DEF Good, Carries, Message
<1>2. PICK x : x = Retry!ReplayedPage(f)
  OBVIOUS
<1>3. x = [kind |-> "PageParsed", job |-> f.job, url |-> f.url, n |-> f.page,
           attempt |-> f.attempt + 1, depth |-> f.depth, force |-> f.force,
           stage |-> Nil, page |-> 0]
  BY <1>1, <1>2 DEF Retry!ReplayedPage, Message
<1>4. f.attempt \in Nat \ {0} /\ WorkerMaxAttempts \in Nat
  BY <1>1, LimitsAssumption DEF Message
<1>5. x.attempt \in Nat \ {0} /\ x.attempt <= WorkerMaxAttempts
  BY <1>1, <1>3, <1>4
<1>6. x \in Message
  BY <1>1, <1>3, <1>5 DEF Message
<1>7. IdOf(x) = <<f.job, f.url, f.page>> /\ x.kind = "PageParsed"
  BY <1>3 DEF IdOf
<1>8. /\ <<f.job, f.url, f.page>> \in Ids
      /\ <<<<f.job, f.url, f.page>>, "parser">> \in ledger
      /\ <<f.job, f.url>> \in stored /\ row[<<f.job, f.url>>] # "none"
  BY <1>1 DEF Good, Message, Ids
<1>9. <<<<f.job, f.url, f.page>>, "crawler">> \in ledger
  BY <1>8 DEF IInv, LedgerOK
<1>10. x.job = f.job /\ x.url = f.url /\ ~Carries(x)
  BY <1>3 DEF Carries
<1> QED
  BY <1>2, <1>5, <1>6, <1>7, <1>8, <1>9, <1>10 DEF Good, Fits

\* A discovery with a fresh id, of a URL whose row is there.
LEMMA DiscoveredGood ==
  ASSUME IInv, NEW j \in Jobs, NEW u \in Urls, row[<<j, u>>] # "none",
         NEW attempt \in Nat \ {0}, attempt <= WorkerMaxAttempts,
         NEW depth \in 0..MaxDepth, NEW force \in BOOLEAN
  PROVE  /\ Discovered(j, u, attempt, depth, force) \in Message
         /\ Good(Discovered(j, u, attempt, depth, force))
         /\ Fits("discovered", Discovered(j, u, attempt, depth, force))
<1>1. NewId(j, u) \in Nat \ {0}
  BY Mints DEF IInv
<1>2. PICK x : x = Discovered(j, u, attempt, depth, force)
  OBVIOUS
<1>3. x \in Message /\ x.kind = "UrlDiscovered" /\ x.job = j /\ x.url = u /\ x.attempt = attempt
  BY <1>1, <1>2 DEF Discovered, Message
<1> QED
  BY <1>2, <1>3 DEF Good, Carries, Fits

\* The retry service has an UrlFailed in hand and has published a message.
LEMMA Retries ==
  ASSUME IInv, NEW w \in Retriers, NEW f \in topic["failed"], NEW t \in Topics \ {"failed"},
         NEW x, Good(x), Fits(t, x), Retry!TakeAndPublish(w, f, t, x), MintedOK,
         UNCHANGED <<postgres, stored, redis, submit, world>>
  PROVE  IInv'
<1>0. /\ w \in Workers /\ Source(w) = "failed" /\ "failed" \in Topics /\ StoresOK
      /\ w \notin Crawlers \cup Parsers
  BY SourceOf DEF Workers, Topics, IInv
<1>1. Good(f) /\ f \in Message /\ f.kind = "UrlFailed"
  BY <1>0 DEF IInv, TopicsOK, Fits, Good
<1>2. /\ topic' = [topic EXCEPT !["failed"] = @ \ {f}, ![t] = @ \cup {x}]
      /\ task' = [task EXCEPT ![w] = Holding("ack", f)]
  BY DEF Retry!TakeAndPublish, Retry!Holding, Holding
<1>3. /\ DOMAIN topic' = Topics
      /\ \A y \in Topics : \A m \in topic'[y] : m \in topic[y] \/ (Good(m) /\ Fits(y, m))
  BY <1>2 DEF IInv, TopicsOK
<1>4. Holding("ack", f) \in Tasks
  BY <1>1 DEF Holding, Tasks, Pcs
<1>5. /\ task' \in [Workers -> Tasks] /\ task'[w] = Holding("ack", f)
      /\ \A v \in Workers \ {w} : task'[v] = task[v]
  BY <1>0, <1>2, <1>4 DEF StoresOK
<1>6. Grows
  BY DEF Grows, postgres
<1>7. Good(f)'
  BY <1>1, <1>6, GoodStays
<1>8. HandOK(w)'
  BY <1>0, <1>1, <1>5, <1>7 DEF HandOK, Holding, Fits, Source
<1>9. StoresOK' /\ LedgerOK'
  BY <1>0, <1>5, Counts DEF IInv, StoresOK, LedgerOK, MintedOK, Counted, postgres, redis
<1> QED
  BY <1>3, <1>5, <1>6, <1>8, <1>9, Keeps

\* The retry service keeps the invariant.
LEMMA RetryKeeps ==
  ASSUME IInv, NEW w \in Retriers, Retry!RetryStep(w)
  PROVE  IInv'
<1>0. w \in Workers /\ StoresOK /\ "failed" \in Topics
  BY DEF Workers, IInv, Topics
<1>1. \A f \in topic["failed"] : /\ Good(f) /\ f \in Message /\ f.kind = "UrlFailed"
                                 /\ f.attempt < WorkerMaxAttempts
  BY <1>0 DEF IInv, TopicsOK, Fits, Good
<1>2. ASSUME NEW f \in topic["failed"], Retry!RetryPage(w, f)
      PROVE  IInv'
  <2>1. /\ f.stage = "cleaner"
        /\ Retry!TakeAndPublish(w, f, "parsed", Retry!ReplayedPage(f))
        /\ UNCHANGED <<minted, postgres, stored, redis, submit, world>>
    BY <1>2 DEF Retry!RetryPage, Retry!postgres, postgres, Retry!redis, redis,
                Retry!world, world
  <2>2. MintedOK
    BY <1>0, <2>1 DEF StoresOK, MintedOK
  <2>3. Good(f) /\ Carries(f)
    BY <1>1, <2>1 DEF Carries
  <2> QED
    BY <2>1, <2>2, <2>3, ReplayedPageGood, Retries DEF Topics
<1>3. ASSUME NEW f \in topic["failed"], Retry!RetryCrawl(w, f)
      PROVE  IInv'
  <2>1. /\ Retry!TakeAndPublish(w, f, "discovered",
                                Discovered(f.job, f.url, f.attempt + 1, f.depth, f.force))
        /\ Mint(f.job, f.url)
        /\ UNCHANGED <<postgres, stored, redis, submit, world>>
    BY <1>3 DEF Retry!RetryCrawl, Retry!Discovered, Discovered, Retry!NewId, NewId,
       Retry!Mint, Mint, Retry!postgres, postgres, Retry!redis, redis, Retry!world, world
  <2>2. /\ f.job \in Jobs /\ f.url \in Urls /\ row[<<f.job, f.url>>] # "none"
        /\ f.depth \in 0..MaxDepth /\ f.force \in BOOLEAN
    BY <1>1 DEF Good, Message
  <2>3. f.attempt + 1 \in Nat \ {0} /\ f.attempt + 1 <= WorkerMaxAttempts
    <3>1. f.attempt \in Nat /\ WorkerMaxAttempts \in Nat /\ f.attempt < WorkerMaxAttempts
      BY <1>1, LimitsAssumption DEF Message
    <3> QED
      BY <3>1
  <2>4. MintedOK
    BY <1>0, <2>1, <2>2, Mints
  <2>5. /\ Good(Discovered(f.job, f.url, f.attempt + 1, f.depth, f.force))
        /\ Fits("discovered", Discovered(f.job, f.url, f.attempt + 1, f.depth, f.force))
    BY <2>2, <2>3, DiscoveredGood
  <2> QED
    BY <2>1, <2>4, <2>5, Retries DEF Topics
<1>4. ASSUME NEW f \in topic["failed"], Retry!Exhausted(w, f)
      PROVE  IInv'
  <2>1. /\ Retry!TakeAndPublish(w, f, "dlq", f)
        /\ UNCHANGED <<minted, postgres, stored, redis, submit, world>>
    BY <1>4 DEF Retry!Exhausted, Retry!postgres, postgres, Retry!redis, redis,
                Retry!world, world
  <2>2. MintedOK /\ Fits("dlq", f)
    BY <1>0, <2>1 DEF StoresOK, MintedOK, Fits
  <2> QED
    BY <1>1, <2>1, <2>2, Retries DEF Topics
<1>5. CASE Retry!Ack(w)
  BY <1>0, <1>5, Acks DEF Retry!Ack, Retry!Idle, Retry!Holding, Idle, Holding,
     Retry!kafka, kafka, Retry!postgres, postgres, Retry!redis, redis, Retry!world, world
<1> QED
  BY <1>2, <1>3, <1>4, <1>5 DEF Retry!RetryStep
-----------------------------------------------------------------------------
\* A replay that is published is in order: a page as it was, anything else as
\* the discovery of its URL.
LEMMA ReplayedGood ==
  ASSUME NEW m, Good(m)
  PROVE  /\ Good(DlqReplay!ReplayedUrl(m))
         /\ Fits("discovered", DlqReplay!ReplayedUrl(m))
<1>1. m \in Message
  BY DEF Good
<1>2. PICK x : x = DlqReplay!ReplayedUrl(m)
  OBVIOUS
<1>3. x = [kind |-> "UrlDiscovered", job |-> m.job, url |-> m.url, n |-> m.n,
           attempt |-> m.attempt, depth |-> m.depth, force |-> TRUE, stage |-> Nil,
           page |-> 0]
  BY <1>1, <1>2 DEF DlqReplay!ReplayedUrl, Message
<1>4. x \in Message
  BY <1>1, <1>3 DEF Message
<1> QED
  BY <1>2, <1>3, <1>4 DEF Good, Carries, Fits

\* Counting a replay keeps the counters finite and typed.
LEMMA CountsReplay ==
  ASSUME StoresOK, NEW id \in Ids, replays' = replays \cup {<<id, DlqReplay!Count(id) + 1>>}
  PROVE  replays' \subseteq Ids \X Nat /\ IsFiniteSet(replays')
<1>1. PICK S : S = {r \in replays : r[1] = id}
  OBVIOUS
<1>2. IsFiniteSet(replays) /\ replays \subseteq Ids \X Nat
  BY DEF StoresOK
<1>3. S \subseteq replays
  BY <1>1
<1>4. IsFiniteSet(S)
  BY <1>2, <1>3, FS_Subset
<1>5. Cardinality(S) \in Nat
  BY <1>4, FS_CardinalityType
<1>6. PICK k : k = DlqReplay!Count(id) + 1
  OBVIOUS
<1>7. DlqReplay!Count(id) = Cardinality(S)
  BY <1>1, Zenon DEF DlqReplay!Count, DlqReplay!Cardinality, Cardinality
<1>8. k \in Nat
  BY <1>5, <1>6, <1>7
<1>9. replays' = replays \cup {<<id, k>>}
  BY <1>6
<1>10. IsFiniteSet(replays \cup {<<id, k>>})
  BY <1>2, FS_AddElement
<1>11. PICK R : R = replays \cup {<<id, k>>}
  OBVIOUS
<1>12. IsFiniteSet(R) /\ R \subseteq Ids \X Nat
  BY <1>2, <1>8, <1>10, <1>11
<1>13. replays' = R
  BY <1>9, <1>11
<1> QED
  BY <1>12, <1>13

\* dlq-replay keeps the invariant.
LEMMA ReplayKeeps ==
  ASSUME IInv, NEW w \in Replayers, DlqReplay!ReplayStep(w) \/ DlqReplay!ReplayFails(w)
  PROVE  IInv'
<1>0. /\ w \in Workers /\ Source(w) = "dlq" /\ "dlq" \in Topics /\ StoresOK /\ LedgerOK
      /\ w \notin Crawlers /\ w \notin Parsers
  BY SourceOf DEF Workers, IInv
<1>1. ASSUME NEW m \in topic["dlq"], DlqReplay!CountReplay(w, m)
      PROVE  IInv'
  <2>1. PICK pc \in {"replay", "ack"} : task' = [task EXCEPT ![w] = Holding(pc, m)]
    BY <1>1 DEF DlqReplay!CountReplay, DlqReplay!Take, DlqReplay!Holding, Holding
  <2>2. /\ topic' = [topic EXCEPT !["dlq"] = @ \ {m}]
        /\ replays' = replays \cup {<<IdOf(m), DlqReplay!Count(IdOf(m)) + 1>>}
        /\ UNCHANGED <<minted, postgres, stored, dedup, seen, submit, world>>
    BY <1>1 DEF DlqReplay!CountReplay, DlqReplay!Take, DlqReplay!IdOf, IdOf,
                DlqReplay!postgres, postgres, DlqReplay!world, world
  <2>3. IdOf(m) \in Ids
    BY <1>0 DEF IInv, TopicsOK, Good, Message, IdOf, Ids
  <2>4. replays' \subseteq Ids \X Nat /\ IsFiniteSet(replays')
    BY <1>0, <2>2, <2>3, CountsReplay
  <2>5. Marked(m) /\ pc \in Pcs \ {"idle", "publish", "queue", "publink"}
    BY <2>2 DEF Marked, postgres, Pcs
  <2>6. LedgerOK' /\ ledger \subseteq ledger' /\ ledger' \subseteq Ids \X Stages
    BY <1>0, <2>2 DEF LedgerOK, postgres, StoresOK
  <2> QED
    BY <1>0, <2>1, <2>2, <2>4, <2>5, <2>6, Takes DEF postgres
<1>2. CASE DlqReplay!ReplayPage(w)
  <2>1. /\ task[w].pc = "replay" /\ task[w].msg.kind = "PageParsed" /\ Moved(w, "ack")
        /\ topic' = [topic EXCEPT !["parsed"] = @ \cup {task[w].msg}]
        /\ UNCHANGED <<minted, postgres, stored, redis, submit, world>>
    BY <1>2 DEF DlqReplay!ReplayPage, DlqReplay!At, DlqReplay!Goto, Moved,
       DlqReplay!Publish, DlqReplay!postgres, postgres, DlqReplay!redis, redis,
       DlqReplay!world, world
  <2>2. Good(task[w].msg) /\ task[w].msg \in Message /\ Fits("parsed", task[w].msg)
    BY <1>0, <2>1, Busy DEF Fits
  <2>3. Published
    BY <2>1, <2>2 DEF Published, Topics
  <2> QED
    BY <1>0, <2>1, <2>3, AcksAfter
<1>3. CASE DlqReplay!ReplayUrl(w)
  <2>1. /\ task[w].pc = "replay" /\ Moved(w, "ack")
        /\ topic' = [topic EXCEPT !["discovered"] = @ \cup {DlqReplay!ReplayedUrl(task[w].msg)}]
        /\ UNCHANGED <<minted, postgres, stored, redis, submit, world>>
    BY <1>3 DEF DlqReplay!ReplayUrl, DlqReplay!At, DlqReplay!Goto, Moved,
       DlqReplay!Publish, DlqReplay!postgres, postgres, DlqReplay!redis, redis,
       DlqReplay!world, world
  <2>2. PICK m : m = task[w].msg
    OBVIOUS
  <2>3. PICK x : x = DlqReplay!ReplayedUrl(m)
    OBVIOUS
  <2>4. Good(x) /\ Fits("discovered", x) /\ x \in Message
    BY <1>0, <2>1, <2>2, <2>3, Busy, ReplayedGood DEF Good
  <2>5. Published
    BY <2>1, <2>2, <2>3, <2>4 DEF Published, Topics
  <2> QED
    BY <1>0, <2>1, <2>5, AcksAfter
<1>4. CASE DlqReplay!Ack(w)
  BY <1>0, <1>4, Acks DEF DlqReplay!Ack, DlqReplay!Idle, DlqReplay!Holding, Idle, Holding,
     DlqReplay!kafka, kafka, DlqReplay!postgres, postgres, DlqReplay!redis, redis,
     DlqReplay!world, world
<1>5. CASE DlqReplay!ReplayFails(w)
  <2>1. /\ task[w].pc = "replay" /\ Moved(w, "ack") /\ Fault
        /\ UNCHANGED <<kafka, postgres, stored, redis, submit>>
    BY <1>5 DEF DlqReplay!ReplayFails, DlqReplay!At, DlqReplay!Goto, Moved,
       DlqReplay!Fault, Fault, DlqReplay!kafka, kafka, DlqReplay!postgres, postgres,
       DlqReplay!redis, redis
  <2>2. Published
    BY <2>1 DEF Published, kafka
  <2> QED
    BY <1>0, <2>1, <2>2, AcksAfter DEF kafka
<1> QED
  BY <1>1, <1>2, <1>3, <1>4, <1>5 DEF DlqReplay!ReplayStep
-----------------------------------------------------------------------------
\* A worker's task with the same message.
Held(w, pc, links, cur) ==
  task' = [task EXCEPT ![w] = [pc |-> pc, msg |-> task[w].msg, links |-> links, cur |-> cur]]

\* A worker goes on with its message, in whatever way a crawler does.
LEMMA Works ==
  ASSUME IInv, NEW w \in Workers, task[w].pc # "idle",
         NEW pc \in Pcs, NEW links \in SUBSET Urls, NEW cur \in Urls \cup {Nil},
         Held(w, pc, links, cur), Published, Grows, MintedOK,
         row' \in [Jobs \X Urls -> RowStatus \cup {"none"}],
         stored' \subseteq Jobs \X Urls, seen' \subseteq Jobs \X Urls,
         UNCHANGED <<ledger, job, indexed, dedup, replays, submit, world>>,
         pc = "publish" => <<task[w].msg.job, task[w].msg.url>> \in stored',
         links # {} \/ pc \in {"queue", "publink"} => task[w].msg.depth < MaxDepth,
         pc \in {"queue", "publink"} => cur \in Urls,
         pc = "publink" => row'[<<task[w].msg.job, cur>>] # "none"
  PROVE  IInv'
<1>0. StoresOK /\ TopicsOK /\ HandOK(w) /\ LedgerOK /\ Counted
  BY Counts DEF IInv, HandsOK
<1>1. PICK m : m = task[w].msg
  OBVIOUS
<1>2. Good(m) /\ m \in Message /\ task[w] # Idle
  BY <1>1, Busy DEF Idle, Holding
<1>3. [pc |-> pc, msg |-> m, links |-> links, cur |-> cur] \in Tasks
  BY <1>2 DEF Tasks
<1>4. task' = [task EXCEPT ![w] = [pc |-> pc, msg |-> m, links |-> links, cur |-> cur]]
  BY <1>1 DEF Held
<1>5. /\ task' \in [Workers -> Tasks] /\ \A v \in Workers \ {w} : task'[v] = task[v]
      /\ task'[w].pc = pc /\ task'[w].msg = m /\ task'[w].links = links /\ task'[w].cur = cur
  BY <1>0, <1>3, <1>4 DEF StoresOK
<1>6. StoresOK'
  BY <1>0, <1>5 DEF StoresOK, Counted, MintedOK
<1>7. Good(m)'
  BY <1>2, GoodStays
<1>8. /\ w \in Crawlers => <<IdOf(m), "crawler">> \in ledger'
      /\ w \in Parsers => <<IdOf(m), "parser">> \in ledger'
      /\ Fits(Source(w), m)
  BY <1>0, <1>1, <1>2 DEF HandOK
<1>9. HandOK(w)'
  BY <1>1, <1>5, <1>7, <1>8 DEF HandOK, Fits, Source, IdOf
<1>10. LedgerOK'
  BY <1>0 DEF LedgerOK
<1> QED
  BY <1>0, <1>5, <1>6, <1>9, <1>10, Keeps, Publishes

\* Moving on holds what was held.
LEMMA MovesHeld ==
  ASSUME StoresOK, NEW w \in Workers, NEW pc, Moved(w, pc)
  PROVE  /\ Held(w, pc, task[w].links, task[w].cur)
         /\ task[w].links \in SUBSET Urls /\ task[w].cur \in Urls \cup {Nil}
<1>1. task \in [Workers -> Tasks]
  BY DEF StoresOK
<1>2. task' = [task EXCEPT ![w] = [task[w] EXCEPT !.pc = pc]]
  BY DEF Moved
<1>3. [task[w] EXCEPT !.pc = pc] = [pc |-> pc, msg |-> task[w].msg, links |-> task[w].links,
                                    cur |-> task[w].cur]
  BY <1>1 DEF Tasks
<1> QED
  BY <1>1, <1>2, <1>3 DEF Tasks, Held

\* ensure_queued makes the row if there is none and takes none back.
LEMMA Queues ==
  ASSUME StoresOK, NEW j \in Jobs, NEW u \in Urls, QueueUrl(j, u)
  PROVE  /\ row' \in [Jobs \X Urls -> RowStatus \cup {"none"}]
         /\ \A x \in Jobs \X Urls : row[x] # "none" => row'[x] # "none"
         /\ row'[<<j, u>>] # "none"
<1>1. <<j, u>> \in Jobs \X Urls /\ row \in [Jobs \X Urls -> RowStatus \cup {"none"}]
  BY DEF StoresOK
<1> QED
  BY <1>1 DEF QueueUrl, RowStatus

\* The announcement of the page a crawler holds.
LEMMA FetchedGood ==
  ASSUME NEW m, Good(m), <<m.job, m.url>> \in stored, <<IdOf(m), "crawler">> \in ledger
  PROVE  /\ Good(Crawler!HtmlFetched(m)) /\ Fits("fetched", Crawler!HtmlFetched(m))
<1>1. m \in Message
  BY DEF Good
<1>2. PICK x : x = Crawler!HtmlFetched(m)
  OBVIOUS
<1>3. x = [kind |-> "HtmlFetched", job |-> m.job, url |-> m.url, n |-> m.n,
           attempt |-> m.attempt, depth |-> m.depth, force |-> FALSE, stage |-> m.stage,
           page |-> m.page]
  BY <1>1, <1>2 DEF Crawler!HtmlFetched, Message
<1>4. x \in Message /\ IdOf(x) = IdOf(m)
  BY <1>1, <1>3 DEF Message, IdOf
<1> QED
  BY <1>2, <1>3, <1>4 DEF Good, Carries, Fits

\* A crawler that returns without a fetch.
LEMMA SkipsKeep ==
  ASSUME IInv, NEW w \in Crawlers, task[w].pc # "idle", Crawler!Skip(w),
         UNCHANGED <<kafka, ledger, job, indexed, stored, redis, submit, world>>
  PROVE  IInv'
<1>1. /\ Moved(w, "ack")
      /\ row' = [row EXCEPT ![<<task[w].msg.job, task[w].msg.url>>] = "skipped"]
  BY DEF Crawler!Skip, Crawler!Mark, Crawler!Goto, Moved
<1>2. Marked(task[w].msg) /\ Published /\ "ack" \in Pcs \ {"idle", "publish", "queue", "publink"}
  BY <1>1 DEF Marked, RowStatus, Published, kafka, Pcs
<1>3. Counted /\ MintedOK
  BY Counts DEF IInv, StoresOK, MintedOK, kafka
<1> QED
  BY <1>1, <1>2, <1>3, GoesOn DEF IInv, StoresOK, redis, Workers

\* The except clause of the crawler.
LEMMA CrawlerFails ==
  ASSUME IInv, NEW w \in Crawlers, task[w].pc # "idle", Crawler!Fail(w), Error \/ Fault
  PROVE  IInv'
<1>1. /\ Moved(w, "report")
      /\ row' = [row EXCEPT ![<<task[w].msg.job, task[w].msg.url>>] = "failed"]
      /\ UNCHANGED <<kafka, ledger, job, indexed, stored, redis, submit>>
  BY DEF Crawler!Fail, Crawler!Mark, Crawler!Goto, Moved, Crawler!kafka, kafka,
         Crawler!redis, redis
<1> QED
  BY <1>1, MarksFailed DEF Workers

\* A crawler claims a discovery.
LEMMA CrawlerClaims ==
  ASSUME IInv, NEW w \in Crawlers, NEW m \in topic["discovered"], Crawler!Claim(w, m)
  PROVE  IInv'
<1>1. /\ topic' = [topic EXCEPT !["discovered"] = @ \ {m}]
      /\ task' = [task EXCEPT ![w] = Holding("dedup", m)]
      /\ ledger' = ledger \cup {<<IdOf(m), "crawler">>}
      /\ row' = [row EXCEPT ![<<m.job, m.url>>] = "claimed"]
      /\ UNCHANGED <<minted, job, indexed, stored, redis, submit, world>>
  BY DEF Crawler!Claim, Crawler!Take, Crawler!Holding, Holding, Crawler!IdOf, IdOf,
         Crawler!Mark, Crawler!redis, redis, Crawler!world, world
<1>2. /\ w \in Workers /\ Source(w) = "discovered" /\ "discovered" \in Topics
      /\ w \notin Parsers /\ StoresOK
  BY SourceOf DEF Workers, IInv
<1>3. IdOf(m) \in Ids /\ "crawler" \in Stages
  BY <1>2 DEF IInv, TopicsOK, Good, Message, IdOf, Ids, Stages
<1>4. LedgerOK'
  BY <1>1, <1>3 DEF IInv, LedgerOK
<1>5. ledger' \subseteq Ids \X Stages /\ ledger \subseteq ledger'
  BY <1>1, <1>2, <1>3 DEF StoresOK
<1>6. "dedup" \in Pcs \ {"idle", "publish", "queue", "publink"} /\ Marked(m)
  BY <1>1 DEF Pcs, Marked, RowStatus
<1> QED
  BY <1>1, <1>2, <1>4, <1>5, <1>6, Takes DEF StoresOK, redis

\* A crawler takes the dedup key of its URL, or gives it back.
LEMMA KeysKeep ==
  ASSUME IInv, NEW w \in Crawlers, Crawler!ReleaseKey(w) \/ Crawler!ClaimKey(w)
  PROVE  IInv'
<1>1. /\ task[w].pc = "dedup" /\ Moved(w, "fetch")
      /\ dedup' \subseteq dedup \cup {task[w].msg.url}
      /\ UNCHANGED <<kafka, postgres, stored, seen, replays, submit, world>>
  BY DEF Crawler!ReleaseKey, Crawler!ClaimKey, Crawler!At, Crawler!Goto, Moved,
     Crawler!kafka, kafka, Crawler!postgres, postgres, Crawler!world, world
<1>2. StoresOK /\ w \in Workers
  BY DEF IInv, Workers
<1>3. task[w].msg.url \in Urls
  BY <1>1, <1>2, Busy DEF Message
<1>4. dedup' \subseteq Urls
  BY <1>1, <1>2, <1>3 DEF StoresOK
<1>5. /\ Marked(task[w].msg) /\ Published
      /\ "fetch" \in Pcs \ {"idle", "publish", "queue", "publink"}
  BY <1>1 DEF Marked, Published, kafka, postgres, Pcs
<1>6. Counted /\ MintedOK
  BY <1>1, <1>2, Counts DEF StoresOK, MintedOK, kafka
<1> QED
  BY <1>1, <1>2, <1>4, <1>5, <1>6, GoesOn DEF StoresOK, postgres

\* A crawler stores the page.
LEMMA FetchKeeps ==
  ASSUME IInv, NEW w \in Crawlers, Crawler!Fetch(w)
  PROVE  IInv'
<1>1. /\ task[w].pc = "fetch" /\ Moved(w, "publish")
      /\ stored' = stored \cup {<<task[w].msg.job, task[w].msg.url>>}
      /\ UNCHANGED <<kafka, postgres, redis, submit, world>>
  BY DEF Crawler!Fetch, Crawler!Uploaded, Crawler!At, Crawler!Goto, Moved,
     Crawler!kafka, kafka, Crawler!postgres, postgres, Crawler!redis, redis,
     Crawler!world, world
<1>2. StoresOK /\ w \in Workers /\ task[w] # Idle /\ HandOK(w)
  BY <1>1 DEF IInv, HandsOK, Workers, Idle, Holding
<1>3. task[w].msg.job \in Jobs /\ task[w].msg.url \in Urls
  BY <1>1, <1>2, Busy DEF Message
<1>4. /\ Held(w, "publish", task[w].links, task[w].cur)
      /\ task[w].links \in SUBSET Urls /\ task[w].cur \in Urls \cup {Nil}
  BY <1>1, <1>2, MovesHeld
<1>5. Grows /\ Published /\ MintedOK /\ "publish" \in Pcs
  BY <1>1, <1>2 DEF Grows, Published, MintedOK, StoresOK, kafka, postgres, Pcs
<1>6. stored' \subseteq Jobs \X Urls
  BY <1>1, <1>2, <1>3 DEF StoresOK
<1>7. task[w].links # {} => task[w].msg.depth < MaxDepth
  BY <1>2 DEF HandOK
<1> QED
  BY <1>1, <1>2, <1>4, <1>5, <1>6, <1>7, Works DEF StoresOK, postgres, redis

\* A crawler announces the page it has stored.
LEMMA PublishKeeps ==
  ASSUME IInv, NEW w \in Crawlers, Crawler!PublishFetched(w)
  PROVE  IInv'
<1>1. /\ task[w].pc = "publish" /\ Moved(w, "mark")
      /\ topic' = [topic EXCEPT !["fetched"] = @ \cup {Crawler!HtmlFetched(task[w].msg)}]
      /\ UNCHANGED <<minted, postgres, stored, redis, submit, world>>
  BY DEF Crawler!PublishFetched, Crawler!Publish, Crawler!At, Crawler!Goto, Moved,
     Crawler!postgres, postgres, Crawler!redis, redis, Crawler!world, world
<1>2. StoresOK /\ w \in Workers /\ task[w] # Idle /\ HandOK(w)
  BY <1>1 DEF IInv, HandsOK, Workers, Idle, Holding
<1>3. /\ Good(task[w].msg) /\ <<task[w].msg.job, task[w].msg.url>> \in stored
      /\ <<IdOf(task[w].msg), "crawler">> \in ledger
  BY <1>1, <1>2 DEF HandOK
<1>4. PICK m : m = task[w].msg
  OBVIOUS
<1>5. PICK x : x = Crawler!HtmlFetched(m)
  OBVIOUS
<1>6. Good(x) /\ Fits("fetched", x) /\ x \in Message
  BY <1>3, <1>4, <1>5, FetchedGood DEF Good
<1>7. Published /\ Counted /\ MintedOK
  BY <1>1, <1>2, <1>4, <1>5, <1>6, Counts DEF Published, Topics, MintedOK, StoresOK
<1>8. Marked(task[w].msg) /\ "mark" \in Pcs \ {"idle", "publish", "queue", "publink"}
  BY <1>1 DEF Marked, postgres, Pcs
<1> QED
  BY <1>1, <1>2, <1>7, <1>8, GoesOn DEF StoresOK, postgres, redis

\* A crawler marks the row fetched and turns to the links.
LEMMA MarkFetchedKeeps ==
  ASSUME IInv, NEW w \in Crawlers, Crawler!MarkFetched(w)
  PROVE  IInv'
<1>1. PICK m, links : m = task[w].msg /\ links = Crawler!LinksToFollow(m)
  OBVIOUS
<1>2. /\ task[w].pc = "mark"
      /\ Held(w, "links", links, Nil)
      /\ row' = [row EXCEPT ![<<m.job, m.url>>] = "fetched"]
      /\ UNCHANGED <<kafka, ledger, job, indexed, stored, redis, submit, world>>
  BY <1>1 DEF Crawler!MarkFetched, Crawler!At, Crawler!Mark, Crawler!WithLinks, Held,
     Crawler!kafka, kafka, Crawler!redis, redis, Crawler!world, world
<1>3. StoresOK /\ w \in Workers /\ m \in Message
  BY <1>1, <1>2, Busy DEF IInv, Workers
<1>4. /\ links \in SUBSET Urls
      /\ links # {} => m.depth < MaxDepth
  <2>1. m.url \in Urls /\ m.depth \in 0..MaxDepth /\ MaxDepth \in Nat
    BY <1>3, LimitsAssumption DEF Message
  <2> QED
    BY <1>1, <2>1, LinksAssumption DEF Crawler!LinksToFollow
<1>5. /\ row' \in [Jobs \X Urls -> RowStatus \cup {"none"}]
      /\ \A x \in Jobs \X Urls : row[x] # "none" => row'[x] # "none"
  BY <1>2, <1>3, Marks DEF Marked, RowStatus
<1>6. Grows /\ Published /\ MintedOK /\ "links" \in Pcs
  BY <1>2, <1>3, <1>5 DEF Grows, Published, MintedOK, StoresOK, kafka, Pcs
<1> QED
  BY <1>1, <1>2, <1>3, <1>4, <1>5, <1>6, Works DEF StoresOK, redis

\* A crawler picks a link and marks it seen.
LEMMA SeenKeeps ==
  ASSUME IInv, NEW w \in Crawlers, NEW u \in Urls, Crawler!MarkLinkSeen(w, u)
  PROVE  IInv'
<1>1. PICK rest : rest = task[w].links \ {u}
  OBVIOUS
<1>2. /\ task[w].pc = "links" /\ u \in task[w].links
      /\ UNCHANGED <<kafka, postgres, stored, dedup, replays, submit, world>>
  BY DEF Crawler!MarkLinkSeen, Crawler!At, Crawler!kafka, kafka, Crawler!postgres, postgres,
         Crawler!world, world
<1>3. \/ Held(w, "queue", rest, u) /\ seen' = seen \cup {<<task[w].msg.job, u>>}
      \/ Held(w, "links", rest, Nil) /\ seen' = seen
  BY <1>1 DEF Crawler!MarkLinkSeen, Crawler!WithLinks, Held
<1>4. /\ StoresOK /\ w \in Workers /\ task[w] # Idle /\ HandOK(w)
      /\ task \in [Workers -> Tasks]
  BY <1>2 DEF IInv, HandsOK, StoresOK, Workers, Idle, Holding
<1>5. task[w].msg.job \in Jobs /\ task[w].msg.depth < MaxDepth
  BY <1>2, <1>4, Busy DEF Message, HandOK
<1>6. rest \in SUBSET Urls
  BY <1>1, <1>4 DEF Tasks
<1>7. Grows /\ Published /\ MintedOK /\ {"queue", "links"} \subseteq Pcs
  BY <1>2, <1>4 DEF Grows, Published, MintedOK, StoresOK, kafka, postgres, Pcs
<1>8. CASE Held(w, "queue", rest, u) /\ seen' = seen \cup {<<task[w].msg.job, u>>}
  <2>1. seen' \subseteq Jobs \X Urls
    BY <1>4, <1>5, <1>8 DEF StoresOK
  <2> QED
    BY <1>2, <1>4, <1>5, <1>6, <1>7, <1>8, <2>1, Works DEF StoresOK, postgres
<1>9. CASE Held(w, "links", rest, Nil) /\ seen' = seen
  BY <1>2, <1>4, <1>5, <1>6, <1>7, <1>9, Works DEF StoresOK, postgres
<1> QED
  BY <1>3, <1>8, <1>9

\* A crawler queues the link it has marked seen.
LEMMA QueueKeeps ==
  ASSUME IInv, NEW w \in Crawlers, Crawler!QueueLink(w)
  PROVE  IInv'
<1>1. /\ task[w].pc = "queue" /\ Moved(w, "publink")
      /\ QueueUrl(task[w].msg.job, task[w].cur)
      /\ UNCHANGED <<kafka, ledger, job, indexed, stored, redis, submit, world>>
  BY DEF Crawler!QueueLink, Crawler!At, Crawler!Goto, Moved, Crawler!QueueUrl, QueueUrl,
     Crawler!kafka, kafka, Crawler!redis, redis, Crawler!world, world
<1>2. StoresOK /\ w \in Workers /\ task[w] # Idle /\ HandOK(w)
  BY <1>1 DEF IInv, HandsOK, Workers, Idle, Holding
<1>3. /\ task[w].msg.job \in Jobs /\ task[w].cur \in Urls
      /\ task[w].msg.depth < MaxDepth
  BY <1>1, <1>2, Busy DEF Message, HandOK
<1>4. /\ row' \in [Jobs \X Urls -> RowStatus \cup {"none"}]
      /\ \A x \in Jobs \X Urls : row[x] # "none" => row'[x] # "none"
      /\ row'[<<task[w].msg.job, task[w].cur>>] # "none"
  BY <1>1, <1>2, <1>3, Queues
<1>5. /\ Held(w, "publink", task[w].links, task[w].cur)
      /\ task[w].links \in SUBSET Urls /\ task[w].cur \in Urls \cup {Nil}
  BY <1>1, <1>2, MovesHeld
<1>6. Grows /\ Published /\ MintedOK /\ "publink" \in Pcs
  BY <1>1, <1>2, <1>4 DEF Grows, Published, MintedOK, StoresOK, kafka, Pcs
<1> QED
  BY <1>1, <1>2, <1>3, <1>4, <1>5, <1>6, Works DEF StoresOK, redis

\* A crawler announces the link it has queued.
LEMMA LinkKeeps ==
  ASSUME IInv, NEW w \in Crawlers, Crawler!PublishLink(w)
  PROVE  IInv'
<1>1. PICK m, u : m = task[w].msg /\ u = task[w].cur
  OBVIOUS
<1>2. PICK x : x = Discovered(m.job, u, 1, m.depth + 1, FALSE)
  OBVIOUS
<1>3. /\ task[w].pc = "publink"
      /\ topic' = [topic EXCEPT !["discovered"] = @ \cup {x}]
      /\ Held(w, "links", task[w].links, Nil)
      /\ Mint(m.job, u)
      /\ UNCHANGED <<postgres, stored, redis, submit, world>>
  BY <1>1, <1>2 DEF Crawler!PublishLink, Crawler!WithLinks, Held, Crawler!At, Crawler!Publish, Crawler!Discovered,
     Discovered, Crawler!NewId, NewId, Crawler!Mint, Mint, Crawler!postgres, postgres,
     Crawler!redis, redis, Crawler!world, world
<1>4. /\ StoresOK /\ w \in Workers /\ task[w] # Idle /\ HandOK(w)
      /\ task \in [Workers -> Tasks]
  BY <1>3 DEF IInv, HandsOK, StoresOK, Workers, Idle, Holding
<1>5. /\ m.job \in Jobs /\ m.depth \in 0..MaxDepth /\ u \in Urls
      /\ m.depth < MaxDepth /\ row[<<m.job, u>>] # "none"
  BY <1>1, <1>3, <1>4, Busy DEF Message, HandOK
<1>6. m.depth + 1 \in 0..MaxDepth /\ 1 \in Nat \ {0} /\ 1 <= WorkerMaxAttempts
  <2>1. MaxDepth \in Nat /\ WorkerMaxAttempts \in Nat \ {0}
    BY LimitsAssumption
  <2> QED
    BY <1>5, <2>1
<1>7. x \in Message /\ Good(x) /\ Fits("discovered", x)
  BY <1>2, <1>5, <1>6, DiscoveredGood
<1>8. task[w].links \in SUBSET Urls
  BY <1>4 DEF Tasks
<1>9. Grows /\ Published /\ "links" \in Pcs
  BY <1>3, <1>7 DEF Grows, Published, postgres, Topics, Pcs
<1>10. MintedOK
  BY <1>3, <1>4, <1>5, Mints
<1> QED
  BY <1>1, <1>3, <1>4, <1>5, <1>8, <1>9, <1>10, Works DEF StoresOK, postgres, redis

\* The crawler keeps the invariant.
LEMMA CrawlerKeeps ==
  ASSUME IInv, NEW w \in Crawlers, Crawler!CrawlerStep(w) \/ Crawler!LateFailure(w)
  PROVE  IInv'
<1>0. w \in Workers /\ StoresOK
  BY DEF Workers, IInv
<1>1. ASSUME NEW m \in topic["discovered"], Crawler!SkipDuplicate(w, "crawler", m)
      PROVE  IInv'
  BY <1>1, SkipKeeps DEF Crawler!SkipDuplicate, Crawler!Source, Source, Crawler!postgres,
     postgres, Crawler!redis, redis, Crawler!world, world
<1>2. CASE Crawler!SkipKnown(w) \/ Crawler!SkipDisallowed(w) \/ Crawler!SkipUnchanged(w)
  <2>1. /\ task[w].pc \in {"dedup", "fetch"} /\ Crawler!Skip(w)
        /\ UNCHANGED <<kafka, ledger, job, indexed, stored, redis, submit, world>>
    BY <1>2 DEF Crawler!SkipKnown, Crawler!SkipDisallowed, Crawler!SkipUnchanged,
       Crawler!At, Crawler!kafka, kafka, Crawler!redis, redis, Crawler!world, world
  <2> QED
    BY <2>1, SkipsKeep
<1>3. CASE Crawler!FetchFails(w) \/ Crawler!LateFailure(w)
  <2>1. /\ task[w].pc # "idle" /\ Crawler!Fail(w) /\ (Error \/ Fault)
    BY <1>3 DEF Crawler!FetchFails, Crawler!LateFailure, Crawler!At, Crawler!Error, Error,
       Crawler!Fault, Fault
  <2> QED
    BY <2>1, CrawlerFails
<1>4. CASE Crawler!LinksDone(w)
  BY <1>0, <1>4, GoesOnQuietly DEF Crawler!LinksDone, Crawler!At, Crawler!Goto, Moved, Pcs,
     Crawler!kafka, kafka, Crawler!postgres, postgres, Crawler!redis, redis,
     Crawler!world, world
<1>5. CASE Crawler!ReportFailure(w)
  <2>1. /\ task[w].pc = "report" /\ Moved(w, "ack")
        /\ Report(task[w].msg, "crawler", task[w].msg.force)
        /\ UNCHANGED <<postgres, stored, redis, submit, world>>
    BY <1>5 DEF Crawler!ReportFailure, Crawler!At, Crawler!Goto, Moved, Crawler!world, world,
       Crawler!Report, Report, Crawler!ShouldRetry, ShouldRetry, Crawler!Publish, Publish,
       Crawler!Failure, Failure, Crawler!NewId, NewId, Crawler!Mint, Mint,
       Crawler!postgres, postgres, Crawler!redis, redis
  <2>2. Good(task[w].msg) /\ task[w].msg.force \in BOOLEAN
    BY <1>0, <2>1, Busy DEF Message
  <2>3. Published /\ MintedOK
    BY <2>1, <2>2, Reports DEF Stages
  <2> QED
    BY <1>0, <2>1, <2>3, AcksAfter
<1>6. CASE Crawler!Ack(w)
  BY <1>0, <1>6, Acks DEF Crawler!Ack, Crawler!Idle, Crawler!Holding, Idle, Holding,
     Crawler!kafka, kafka, Crawler!postgres, postgres, Crawler!redis, redis,
     Crawler!world, world
<1> QED
  BY <1>1, <1>2, <1>3, <1>4, <1>5, <1>6, CrawlerClaims, KeysKeep, FetchKeeps, PublishKeeps,
     MarkFetchedKeeps, SeenKeeps, QueueKeeps, LinkKeeps DEF Crawler!CrawlerStep
-----------------------------------------------------------------------------
\* A submission goes on.
LEMMA Submitting ==
  ASSUME IInv, NEW j \in Jobs, NEW pc \in {"new", "select", "next", "queue", "publish", "closed"},
         NEW todo \in SUBSET Urls, NEW cur \in Urls \cup {Nil},
         Submission!SubmitAt(j, pc, todo, cur), Published, Grows, MintedOK, Counted,
         row' \in [Jobs \X Urls -> RowStatus \cup {"none"}],
         job' \in [Jobs -> {"none", "running", "completed"}],
         seen' \subseteq Jobs \X Urls,
         UNCHANGED <<ledger, indexed, stored, dedup, replays, task>>,
         pc \in {"queue", "publish"} => cur \in Urls,
         pc = "publish" => row'[<<j, cur>>] # "none",
         j \in Incremental => /\ \A u \in todo : indexed[u] >= 0
                              /\ pc \in {"queue", "publish"} => indexed[cur] >= 0
  PROVE  IInv'
<1>0. StoresOK /\ TopicsOK /\ LedgerOK
  BY DEF IInv
<1>1. /\ submit \in [Jobs -> Submits]
      /\ submit' = [submit EXCEPT ![j] = [pc |-> pc, todo |-> todo, cur |-> cur]]
      /\ [pc |-> pc, todo |-> todo, cur |-> cur] \in Submits
  BY <1>0 DEF StoresOK, Submits, Submission!SubmitAt
<1>2. /\ submit' \in [Jobs -> Submits] /\ \A i \in Jobs \ {j} : submit'[i] = submit[i]
      /\ submit'[j].pc = pc /\ submit'[j].todo = todo /\ submit'[j].cur = cur
  BY <1>1
<1>3. StoresOK' /\ LedgerOK'
  BY <1>0, <1>2 DEF StoresOK, LedgerOK, Counted, MintedOK
<1>4. SubmitOK(j)'
  BY <1>2 DEF SubmitOK
<1> QED
  BY <1>0, <1>2, <1>3, <1>4, Keeps, Publishes

\* A submission that changes nothing but itself and the set of seen URLs.
LEMMA SubmitsQuietly ==
  ASSUME IInv, NEW j \in Jobs, NEW pc \in {"select", "next", "queue", "closed"},
         NEW todo \in SUBSET Urls, NEW cur \in Urls \cup {Nil},
         Submission!SubmitAt(j, pc, todo, cur), UNCHANGED world \/ Fault,
         UNCHANGED <<kafka, postgres, stored, dedup, replays, task>>,
         seen' \subseteq Jobs \X Urls,
         pc = "queue" => cur \in Urls,
         j \in Incremental => /\ \A u \in todo : indexed[u] >= 0
                              /\ pc = "queue" => indexed[cur] >= 0
  PROVE  IInv'
<1>1. Published /\ Grows /\ MintedOK /\ Counted
  BY Counts DEF IInv, StoresOK, Published, Grows, MintedOK, kafka, postgres
<1>2. /\ row' \in [Jobs \X Urls -> RowStatus \cup {"none"}]
      /\ job' \in [Jobs -> {"none", "running", "completed"}]
      /\ UNCHANGED <<ledger, indexed, stored, dedup, replays, task>>
  BY DEF IInv, StoresOK, postgres
<1>3. pc \in {"new", "select", "next", "queue", "publish", "closed"} /\ pc # "publish"
  OBVIOUS
<1> QED
  BY <1>1, <1>2, <1>3, Submitting

\* The first step of a submission.
LEMMA CreateKeeps ==
  ASSUME IInv, NEW j \in Jobs, Submission!CreateJob(j)
  PROVE  IInv'
<1>1. /\ job' = [job EXCEPT ![j] = "running"]
      /\ UNCHANGED <<kafka, ledger, row, indexed, stored, redis, task, world>>
  BY DEF Submission!CreateJob, Submission!kafka, kafka, Submission!redis, redis,
         Submission!world, world
<1>2. StoresOK /\ Seeds[j] \in SUBSET Urls
  BY SeedsAssumption DEF IInv
<1>3. Published /\ Grows /\ MintedOK /\ Counted
  BY <1>1, <1>2, Counts DEF StoresOK, Published, Grows, MintedOK, kafka
<1>4. /\ row' \in [Jobs \X Urls -> RowStatus \cup {"none"}]
      /\ job' \in [Jobs -> {"none", "running", "completed"}]
      /\ seen' \subseteq Jobs \X Urls
  BY <1>1, <1>2 DEF StoresOK, redis
<1>5. \/ j \in Incremental /\ Submission!SubmitAt(j, "select", {}, Nil)
      \/ j \notin Incremental /\ Submission!SubmitAt(j, "next", Seeds[j], Nil)
  BY DEF Submission!CreateJob
<1> QED
  BY <1>1, <1>2, <1>3, <1>4, <1>5, Submitting DEF redis

\* A submission announces the URL it has queued.
LEMMA SeedKeeps ==
  ASSUME IInv, NEW j \in Jobs, Submission!PublishSeed(j)
  PROVE  IInv'
<1>1. PICK u, todo, depth : /\ u = submit[j].cur /\ todo = submit[j].todo
                            /\ depth = IF j \in Incremental THEN indexed[u] ELSE 0
  OBVIOUS
<1>2. PICK x : x = Discovered(j, u, 1, depth, j \in Incremental)
  OBVIOUS
<1>3. /\ submit[j].pc = "publish"
      /\ topic' = [topic EXCEPT !["discovered"] = @ \cup {x}]
      /\ Mint(j, u)
      /\ Submission!SubmitAt(j, "next", todo, Nil)
      /\ UNCHANGED <<postgres, stored, redis, task, world>>
  BY <1>1, <1>2 DEF Submission!PublishSeed, Submission!AtSubmit, Submission!SeedDepth,
     Submission!Publish, Submission!Discovered, Discovered, Submission!NewId, NewId,
     Submission!Mint, Mint, Submission!postgres, postgres, Submission!redis, redis,
     Submission!world, world
<1>4. StoresOK /\ SubmitOK(j) /\ todo \in SUBSET Urls
  BY <1>1 DEF IInv, SubmitsOK, StoresOK, Submits
<1>5. /\ u \in Urls /\ row[<<j, u>>] # "none"
      /\ j \in Incremental => indexed[u] >= 0 /\ \A v \in todo : indexed[v] >= 0
  BY <1>1, <1>3, <1>4 DEF SubmitOK
<1>6. depth \in 0..MaxDepth /\ 1 \in Nat \ {0} /\ 1 <= WorkerMaxAttempts
  <2>1. MaxDepth \in Nat /\ WorkerMaxAttempts \in Nat \ {0} /\ indexed[u] \in -1..MaxDepth
    BY <1>4, <1>5, LimitsAssumption DEF StoresOK
  <2> QED
    BY <1>1, <1>5, <2>1
<1>7. (j \in Incremental) \in BOOLEAN
  OBVIOUS
<1>8. x \in Message /\ Good(x) /\ Fits("discovered", x)
  BY <1>2, <1>5, <1>6, <1>7, DiscoveredGood
<1>9. Published /\ Grows /\ Counted
  BY <1>3, <1>4, <1>8, Counts DEF Grows, Published, postgres, Topics
<1>10. MintedOK
  BY <1>3, <1>4, <1>5, Mints
<1> QED
  BY <1>3, <1>4, <1>5, <1>9, <1>10, Submitting DEF StoresOK, postgres, redis

\* Submissions keep the invariant.
LEMMA SubmitKeeps ==
  ASSUME IInv, NEW j \in Jobs, Submission!SubmitStep(j) \/ Submission!Abandon(j)
  PROVE  IInv'
<1>0. /\ StoresOK /\ SubmitOK(j) /\ submit[j].todo \in SUBSET Urls
      /\ submit[j].cur \in Urls \cup {Nil}
  BY DEF IInv, SubmitsOK, StoresOK, Submits
<1>1. CASE Submission!SelectStale(j)
  <2>1. PICK stale \in SUBSET {u \in Urls : indexed[u] >= 0} :
          Submission!SubmitAt(j, "next", stale, Nil)
    BY <1>1 DEF Submission!SelectStale
  <2>2. UNCHANGED <<kafka, postgres, stored, redis, task, world>>
    BY <1>1 DEF Submission!SelectStale, Submission!kafka, kafka, Submission!postgres,
       postgres, Submission!redis, redis, Submission!world, world
  <2>3. stale \in SUBSET Urls /\ \A u \in stale : indexed[u] >= 0
    BY <2>1
  <2> QED
    BY <1>0, <2>1, <2>2, <2>3, SubmitsQuietly DEF StoresOK, redis
<1>2. ASSUME NEW u \in Urls, Submission!MarkSeen(j, u)
      PROVE  IInv'
  <2>1. PICK rest : rest = submit[j].todo \ {u}
    OBVIOUS
  <2>2. /\ u \in submit[j].todo
        /\ UNCHANGED <<kafka, postgres, stored, dedup, replays, task, world>>
    BY <1>2 DEF Submission!MarkSeen, Submission!kafka, kafka, Submission!postgres,
       postgres, Submission!world, world
  <2>3. \/ seen' = seen \cup {<<j, u>>} /\ Submission!SubmitAt(j, "queue", rest, u)
        \/ seen' = seen /\ Submission!SubmitAt(j, "next", rest, Nil)
    BY <1>2, <2>1 DEF Submission!MarkSeen
  <2>4. /\ rest \in SUBSET Urls /\ seen' \subseteq Jobs \X Urls
        /\ j \in Incremental => indexed[u] >= 0 /\ \A v \in rest : indexed[v] >= 0
    BY <1>0, <2>1, <2>2, <2>3 DEF StoresOK, SubmitOK
  <2> QED
    BY <2>2, <2>3, <2>4, SubmitsQuietly
<1>3. CASE Submission!QueueSeed(j)
  <2>1. /\ submit[j].pc = "queue" /\ QueueUrl(j, submit[j].cur)
        /\ Submission!SubmitAt(j, "publish", submit[j].todo, submit[j].cur)
        /\ UNCHANGED <<kafka, ledger, job, indexed, stored, redis, task, world>>
    BY <1>3 DEF Submission!QueueSeed, Submission!AtSubmit, Submission!QueueUrl, QueueUrl,
       Submission!kafka, kafka, Submission!redis, redis, Submission!world, world
  <2>2. submit[j].cur \in Urls
    BY <1>0, <2>1 DEF SubmitOK
  <2>3. /\ row' \in [Jobs \X Urls -> RowStatus \cup {"none"}]
        /\ \A x \in Jobs \X Urls : row[x] # "none" => row'[x] # "none"
        /\ row'[<<j, submit[j].cur>>] # "none"
    BY <1>0, <2>1, <2>2, Queues
  <2>4. Published /\ Grows /\ MintedOK /\ Counted
    BY <1>0, <2>1, <2>3, Counts DEF StoresOK, Published, Grows, MintedOK, kafka
  <2>5. j \in Incremental => /\ \A u \in submit[j].todo : indexed[u] >= 0
                             /\ indexed[submit[j].cur] >= 0
    BY <1>0, <2>1 DEF SubmitOK
  <2> QED
    BY <1>0, <2>1, <2>2, <2>3, <2>4, <2>5, Submitting DEF StoresOK, redis
<1>4. CASE Submission!Answer(j)
  BY <1>0, <1>4, SubmitsQuietly DEF Submission!Answer, StoresOK, Submission!kafka, kafka,
     Submission!postgres, postgres, Submission!redis, redis, Submission!world, world
<1>5. CASE Submission!Abandon(j)
  BY <1>0, <1>5, SubmitsQuietly DEF Submission!Abandon, StoresOK, Submission!kafka, kafka,
     Submission!postgres, postgres, Submission!redis, redis, Submission!Fault, Fault
<1> QED
  BY <1>1, <1>2, <1>3, <1>4, <1>5, CreateKeeps, SeedKeeps DEF Submission!SubmitStep
-----------------------------------------------------------------------------
\* A crash or a rebalance gives the message in hand back to its topic.
LEMMA FaultsKeep ==
  ASSUME IInv, NEW w \in Workers, Crash(w) \/ Redeliver(w)
  PROVE  IInv'
<1>1. Good(task[w].msg) /\ Fits(Source(w), task[w].msg) /\ task[w].msg \in Message
  BY DEF Crash, Redeliver, IsIdle, IInv, HandsOK, HandOK, Good
<1>2. Published
  BY <1>1, SourceOf DEF Crash, Redeliver, Publish, Published
<1>3. Counted
  BY Counts DEF Crash, Redeliver, IInv
<1>4. CASE Crash(w)
  BY <1>2, <1>3, <1>4, Leaves DEF Crash
<1>5. CASE Redeliver(w)
  <2>1. TopicsOK
    BY DEF IInv
  <2> QED
    BY <1>2, <1>3, <1>5, <2>1, Publishes, TopicsChange DEF Redeliver
<1> QED
  BY <1>4, <1>5

\* The cache is not invalidated after the commit: the except clause again.
LEMMA SetHashFailsKeeps ==
  ASSUME IInv, NEW w \in Cleaners, Cleaner!SetHashFails(w)
  PROVE  IInv'
<1>1. task[w].pc # "idle" /\ Cleaner!Fail(w) /\ Fault
  BY DEF Cleaner!SetHashFails, Cleaner!At, Cleaner!Fault, Fault
<1> QED
  BY <1>1, CleanerFails

\* A dedup key expires.
LEMMA ExpiryKeeps ==
  ASSUME IInv, NEW u \in Urls, Crawler!ExpireKey(u)
  PROVE  IInv'
<1>1. /\ dedup' = dedup \ {u}
      /\ UNCHANGED <<kafka, postgres, stored, seen, replays, task, submit, world>>
  BY DEF Crawler!ExpireKey, Crawler!kafka, kafka, Crawler!postgres, postgres,
         Crawler!world, world
<1>2. StoresOK' /\ LedgerOK' /\ Grows
  BY <1>1 DEF IInv, StoresOK, LedgerOK, Grows, kafka, postgres, world
<1> QED
  BY <1>1, <1>2, Keeps DEF IInv, TopicsOK, kafka

\* The invariant holds at the start.
LEMMA InitKeeps == Init => IInv
<1> SUFFICES ASSUME Init PROVE IInv
  OBVIOUS
<1>1. Idle \in Tasks /\ \A w \in Workers : task[w] = Idle
  BY DEF Init, Idle, Holding, Tasks, Pcs
<1>2. replays \subseteq Ids \X Nat /\ IsFiniteSet(replays)
  BY FS_EmptySet DEF Init
<1>3. MaxErrors \in Nat /\ MaxFaults \in Nat /\ MaxDepth \in Nat
  BY LimitsAssumption
<1>4. submit \in [Jobs -> Submits] /\ task \in [Workers -> Tasks]
  BY <1>1 DEF Init, Submits
<1>5. indexed \in [Urls -> -1..MaxDepth] /\ errors \in 0..MaxErrors /\ faults \in 0..MaxFaults
  BY <1>3 DEF Init
<1>6. StoresOK
  BY <1>2, <1>4, <1>5 DEF Init, StoresOK
<1>7. TopicsOK /\ HandsOK /\ LedgerOK
  BY <1>1 DEF Init, TopicsOK, HandsOK, HandOK, LedgerOK
<1>8. SubmitsOK
  BY DEF Init, SubmitsOK, SubmitOK
<1> QED
  BY <1>6, <1>7, <1>8 DEF IInv

\* Every step keeps it.
LEMMA NextKeeps == IInv /\ [Next]_vars => IInv'
<1> SUFFICES ASSUME IInv, [Next]_vars PROVE IInv'
  OBVIOUS
<1>1. ASSUME NEW w \in Workers, Step(w)
      PROVE  IInv'
  BY <1>1, CrawlerKeeps, ParserKeeps, CleanerKeeps, RetryKeeps, ReplayKeeps DEF Step
<1>2. CASE Faults
  BY <1>2, FaultsKeep, CrawlerKeeps, SetHashFailsKeeps, ReplayKeeps, SubmitKeeps DEF Faults
<1>3. CASE UNCHANGED vars
  <2>1. UNCHANGED <<topic, minted, ledger, row, job, indexed, stored, dedup, seen, replays,
                    task, submit, errors, faults>>
    BY <1>3 DEF vars, kafka, postgres, redis, world
  <2>2. StoresOK' /\ LedgerOK' /\ Grows /\ DOMAIN topic' = Topics
    BY <2>1 DEF IInv, StoresOK, LedgerOK, Grows, TopicsOK
  <2> QED
    BY <2>1, <2>2, Keeps
<1> QED
  BY <1>1, <1>2, <1>3, SubmitKeeps, ExpiryKeeps DEF Next, Wait

\* The invariant is one of the specification.
THEOREM PipelineCorrect == Spec => []IInv
BY InitKeeps, NextKeeps, PTL DEF Spec
-----------------------------------------------------------------------------
\* What is waiting or in hand is in order.
LEMMA AllGood ==
  ASSUME IInv, NEW m \in Waiting \cup InHand
  PROVE  Good(m)
  BY DEF IInv, TopicsOK, HandsOK, HandOK, Waiting, InHand, IsIdle

\* The types of the stores, the messages and the workers' tasks.
THEOREM PipelineTypes == Spec => []TypeOK
<1>1. ASSUME IInv PROVE TypeOK
  <2>1. StoresOK /\ TopicsOK
    BY <1>1 DEF IInv
  <2>2. \A m \in Waiting : m \in Message
    BY <1>1, AllGood DEF Good
  <2>3. DOMAIN topic = Topics
    BY <2>1 DEF TopicsOK
  <2>4. \A w \in Workers : /\ ~IsIdle(w) => task[w].msg \in Message
                           /\ task[w].links \subseteq Urls /\ task[w].cur \in Urls \cup {Nil}
    BY <1>1, <2>1 DEF IInv, HandsOK, HandOK, Good, IsIdle, StoresOK, Tasks
  <2>5. \A j \in Jobs : submit[j].todo \subseteq Urls /\ submit[j].cur \in Urls \cup {Nil}
    BY <2>1 DEF StoresOK, Submits
  <2>6. /\ \A l \in ledger : l[1] \in Jobs \X Urls \X Nat /\ l[2] \in Stages
        /\ \A r \in replays : r[1] \in Jobs \X Urls \X Nat /\ r[2] \in Nat
    BY <2>1 DEF StoresOK, Ids
  <2> QED
    BY <2>1, <2>2, <2>3, <2>4, <2>5, <2>6 DEF TypeOK, StoresOK
<1> QED
  BY <1>1, PipelineCorrect, PTL

\* No parser or cleaner ever gets an event whose artifact is not uploaded.
THEOREM ArtifactsComeFirst == Spec => []ArtifactBeforeEvent
<1>1. IInv => ArtifactBeforeEvent
  BY AllGood DEF ArtifactBeforeEvent, Good
<1> QED
  BY <1>1, PipelineCorrect, PTL

\* No message names a URL whose crawl_job_urls row is not there.
THEOREM RowsComeFirst == Spec => []RowBeforeEvent
<1>1. IInv => RowBeforeEvent
  BY AllGood DEF RowBeforeEvent, Good
<1> QED
  BY <1>1, PipelineCorrect, PTL

\* An id is claimed by the stages in the order of the pipeline.
THEOREM ClaimsInOrder == Spec => []ClaimsFollowPipeline
<1>1. IInv => ClaimsFollowPipeline
  <2> SUFFICES ASSUME IInv, NEW l \in ledger
               PROVE  /\ l[2] = "parser" => <<l[1], "crawler">> \in ledger
                      /\ l[2] = "cleaner" => <<l[1], "parser">> \in ledger
    BY DEF ClaimsFollowPipeline
  <2>1. l \in Ids \X Stages
    BY DEF IInv, StoresOK
  <2>2. l[1] \in Ids /\ l = <<l[1], l[2]>>
    BY <2>1
  <2> QED
    BY <2>2 DEF IInv, LedgerOK
<1> QED
  BY <1>1, PipelineCorrect, PTL

\* No message has more attempts than a worker makes.
THEOREM AttemptsEnd == Spec => []AttemptsBounded
<1>1. IInv => AttemptsBounded
  BY AllGood DEF AttemptsBounded, Good
<1> QED
  BY <1>1, PipelineCorrect, PTL
-----------------------------------------------------------------------------
(***************************************************************************)
(* What each step of Pipeline does, in the variables themselves: the steps *)
(* of the services, which are written with operators of their own, brought *)
(* to a form that several proofs start from.  A worker's task is described *)
(* field by field.  AllSteps says that there is no other step.             *)
(***************************************************************************)
RowOf(m) == <<m.job, m.url>>
SetsRow(m, status) == row' = [row EXCEPT ![RowOf(m)] = status]
Adds(t, m) == topic' = [topic EXCEPT ![t] = @ \cup {m}]
Removes(t, m) == topic' = [topic EXCEPT ![t] = @ \ {m}]

\* Only worker w moves.
Others(w) == \A v \in Workers \ {w} : task'[v] = task[v]
Rests(w) == Others(w) /\ task'[w] = Idle
Holds(w, pc, m) == Others(w) /\ task'[w] = Holding(pc, m)
Gets(w, pc, m, links, cur) ==
  /\ Others(w)
  /\ task'[w].pc = pc /\ task'[w].msg = m /\ task'[w].links = links /\ task'[w].cur = cur
Goes(w, pc) == Gets(w, pc, task[w].msg, task[w].links, task[w].cur)

\* Worker w takes m and claims it for its stage.
ClaimStep(w, t, m, stage, pc) ==
  /\ task[w] = Idle /\ m \in topic[t] /\ Removes(t, m) /\ Holds(w, pc, m)
  /\ <<IdOf(m), stage>> \notin ledger
  /\ ledger' = ledger \cup {<<IdOf(m), stage>>}
  /\ UNCHANGED <<minted, job, indexed, stored, dedup, seen, replays, submit, errors, faults>>
\* A claimed message is taken off its topic.
DropStep(t, m, stage) ==
  /\ m \in topic[t] /\ <<IdOf(m), stage>> \in ledger /\ Removes(t, m)
  /\ UNCHANGED <<minted, ledger, row, job, indexed, stored, dedup, seen, replays, task, submit,
                 errors, faults>>
\* A worker moves on and touches no store; a replay that is not published is
\* a fault.
QuietStep(w) ==
  /\ \/ /\ \/ task[w].pc = "links" /\ Goes(w, "ack")
           \/ task[w].pc = "upsert" /\ Goes(w, "commit")
           \/ task[w].pc = "upsert" /\ Goes(w, "complete")
           \/ task[w].pc = "sethash" /\ Goes(w, "ack")
        /\ UNCHANGED faults
     \/ task[w].pc = "replay" /\ Goes(w, "ack") /\ faults' = faults + 1
  /\ UNCHANGED <<topic, minted, ledger, row, job, indexed, stored, dedup, seen, replays, submit,
                 errors>>
\* The message in hand is committed.
AckStep(w) ==
  /\ task[w].pc = "ack" /\ Rests(w)
  /\ UNCHANGED <<topic, minted, ledger, row, job, indexed, stored, dedup, seen, replays, submit,
                 errors, faults>>
\* A worker publishes x in topic t.
PublishStep(w, from, to, t, x) ==
  /\ task[w].pc = from /\ Goes(w, to) /\ Adds(t, x)
  /\ UNCHANGED <<minted, ledger, row, job, indexed, stored, dedup, seen, replays, submit,
                 errors, faults>>
\* The row of the message in hand is marked failed, after an error or a fault.
FailStep(w) ==
  /\ Goes(w, "report") /\ SetsRow(task[w].msg, "failed")
  /\ \/ task[w].pc \in {"fetch", "upsert"} /\ errors' = errors + 1 /\ UNCHANGED faults
     \/ /\ task[w].pc \in {"publish", "mark", "links", "queue", "publink", "sethash"}
        /\ faults' = faults + 1 /\ UNCHANGED errors
  /\ UNCHANGED <<topic, minted, ledger, job, indexed, stored, dedup, seen, replays, submit>>
\* The failure is reported: an UrlFailed, or the message to the DLQ.
ReportStep(w, stage) ==
  LET m == task[w].msg IN
  /\ \/ task[w].pc = "report" /\ UNCHANGED errors
     \/ task[w].pc = "parse" /\ errors' = errors + 1
  /\ Goes(w, "ack")
  /\ \/ /\ m.attempt < WorkerMaxAttempts
        /\ \E force \in {FALSE, m.force} : Adds("failed", Failure(m, stage, force))
        /\ minted' = [minted EXCEPT ![RowOf(m)] = @ + 1]
     \/ Adds("dlq", m) /\ UNCHANGED minted
  /\ UNCHANGED <<ledger, row, job, indexed, stored, dedup, seen, replays, submit, faults>>
-----------------------------------------------------------------------------
\* The crawler's own steps.
KeyStep(w) ==
  /\ task[w].pc = "dedup" /\ Goes(w, "fetch")
  /\ \/ task[w].msg.force /\ dedup' = dedup \ {task[w].msg.url}
     \/ /\ ~task[w].msg.force /\ task[w].msg.url \notin dedup
        /\ dedup' = dedup \cup {task[w].msg.url}
  /\ UNCHANGED <<topic, minted, ledger, row, job, indexed, stored, seen, replays, submit,
                 errors, faults>>
SkipStep(w) ==
  /\ task[w].pc \in {"dedup", "fetch"} /\ Goes(w, "ack") /\ SetsRow(task[w].msg, "skipped")
  /\ UNCHANGED <<topic, minted, ledger, job, indexed, stored, dedup, seen, replays, submit,
                 errors, faults>>
FetchStep(w) ==
  /\ task[w].pc = "fetch" /\ Goes(w, "publish") /\ stored' = stored \cup {RowOf(task[w].msg)}
  /\ UNCHANGED <<topic, minted, ledger, row, job, indexed, dedup, seen, replays, submit,
                 errors, faults>>
MarkStep(w) ==
  /\ task[w].pc = "mark" /\ SetsRow(task[w].msg, "fetched")
  /\ Gets(w, "links", task[w].msg, Crawler!LinksToFollow(task[w].msg), Nil)
  /\ UNCHANGED <<topic, minted, ledger, job, indexed, stored, dedup, seen, replays, submit,
                 errors, faults>>
SeeLinkStep(w, u) ==
  /\ task[w].pc = "links"
  /\ \/ /\ <<task[w].msg.job, u>> \notin seen /\ seen' = seen \cup {<<task[w].msg.job, u>>}
        /\ Gets(w, "queue", task[w].msg, task[w].links \ {u}, u)
     \/ /\ <<task[w].msg.job, u>> \in seen /\ UNCHANGED seen
        /\ Gets(w, "links", task[w].msg, task[w].links \ {u}, Nil)
  /\ UNCHANGED <<topic, minted, ledger, row, job, indexed, stored, dedup, replays, submit,
                 errors, faults>>
QueueLinkStep(w) ==
  /\ task[w].pc = "queue" /\ Goes(w, "publink") /\ QueueUrl(task[w].msg.job, task[w].cur)
  /\ UNCHANGED <<topic, minted, ledger, job, indexed, stored, dedup, seen, replays, submit,
                 errors, faults>>
PublishLinkStep(w) ==
  LET j == task[w].msg.job
      u == task[w].cur IN
  /\ task[w].pc = "publink"
  /\ Gets(w, "links", task[w].msg, task[w].links, Nil)
  /\ Adds("discovered", Discovered(j, u, 1, task[w].msg.depth + 1, FALSE))
  /\ minted' = [minted EXCEPT ![<<j, u>>] = @ + 1]
  /\ UNCHANGED <<ledger, row, job, indexed, stored, dedup, seen, replays, submit, errors, faults>>

\* The cleaner's commit.
CommitStep(w) ==
  LET m == task[w].msg IN
  /\ task[w].pc \in {"commit", "complete"} /\ Goes(w, "sethash") /\ SetsRow(m, "parsed")
  /\ indexed' = [indexed EXCEPT ![m.url] = IF @ = -1 THEN m.depth ELSE @]
  /\ job' = job \/ job' = [job EXCEPT ![m.job] = "completed"]
  /\ UNCHANGED <<topic, minted, ledger, stored, dedup, seen, replays, submit, errors, faults>>

\* The retry service takes the failure f and publishes x in topic t.
RetryStep(w, f, t, x) ==
  /\ task[w] = Idle /\ f \in topic["failed"] /\ Holds(w, "ack", f)
  /\ topic' = [topic EXCEPT !["failed"] = @ \ {f}, ![t] = @ \cup {x}]
  /\ UNCHANGED <<ledger, row, job, indexed, stored, dedup, seen, replays, submit, errors, faults>>

\* dlq-replay counts a replay of m, which it goes on with if there may be any.
CountStep(w, m) ==
  /\ task[w] = Idle /\ m \in topic["dlq"] /\ Removes("dlq", m)
  /\ Holds(w, "ack", m) \/ (Holds(w, "replay", m) /\ MaxReplays # 0)
  /\ \E k : replays' = replays \cup {<<IdOf(m), k>>}
  /\ UNCHANGED <<minted, ledger, row, job, indexed, stored, dedup, seen, submit, errors, faults>>
-----------------------------------------------------------------------------
\* The steps of a submission.
SubmitGets(j, pc, cur) ==
  /\ submit'[j].pc = pc /\ submit'[j].cur = cur
  /\ \A i \in Jobs \ {j} : submit'[i] = submit[i]
CreateStep(j) ==
  /\ submit[j].pc = "new" /\ job' = [job EXCEPT ![j] = "running"]
  /\ \E pc \in {"select", "next"} : SubmitGets(j, pc, Nil)
  /\ UNCHANGED <<topic, minted, ledger, row, indexed, stored, dedup, seen, replays, task,
                 errors, faults>>
RestStep(j) ==
  /\ submit[j].pc \in {"select", "next"} /\ \E pc \in {"next", "closed"} : SubmitGets(j, pc, Nil)
  /\ UNCHANGED <<topic, minted, ledger, row, job, indexed, stored, dedup, seen, replays, task,
                 errors, faults>>
SeeSeedStep(j, u) ==
  /\ submit[j].pc = "next" /\ <<j, u>> \notin seen /\ seen' = seen \cup {<<j, u>>}
  /\ SubmitGets(j, "queue", u)
  /\ UNCHANGED <<topic, minted, ledger, row, job, indexed, stored, dedup, replays, task,
                 errors, faults>>
QueueSeedStep(j) ==
  /\ submit[j].pc = "queue" /\ SubmitGets(j, "publish", submit[j].cur)
  /\ QueueUrl(j, submit[j].cur)
  /\ UNCHANGED <<topic, minted, ledger, job, indexed, stored, dedup, seen, replays, task,
                 errors, faults>>
PublishSeedStep(j) ==
  LET u == submit[j].cur IN
  /\ submit[j].pc = "publish" /\ SubmitGets(j, "next", Nil)
  /\ \E depth : Adds("discovered", Discovered(j, u, 1, depth, j \in Incremental))
  /\ minted' = [minted EXCEPT ![<<j, u>>] = @ + 1]
  /\ UNCHANGED <<ledger, row, job, indexed, stored, dedup, seen, replays, task, errors, faults>>
AbandonStep(j) ==
  /\ submit[j].pc \notin {"new", "closed"} /\ SubmitGets(j, "closed", Nil)
  /\ faults' = faults + 1
  /\ UNCHANGED <<topic, minted, ledger, row, job, indexed, stored, dedup, seen, replays, task,
                 errors>>

\* A crash or a rebalance gives the message in hand back; a key expires.
CrashStep(w) ==
  /\ task[w] # Idle /\ Adds(Source(w), task[w].msg) /\ Rests(w)
  /\ faults' = faults + 1
  /\ UNCHANGED <<minted, ledger, row, job, indexed, stored, dedup, seen, replays, submit, errors>>
RedeliverStep(w) ==
  /\ task[w] # Idle /\ Adds(Source(w), task[w].msg) /\ faults' = faults + 1
  /\ UNCHANGED <<minted, ledger, row, job, indexed, stored, dedup, seen, replays, task, submit,
                 errors>>
ExpireStep(u) ==
  /\ dedup' = dedup \ {u}
  /\ \A w \in Crawlers : task[w] # Idle => task[w].msg.url # u
  /\ UNCHANGED <<topic, minted, ledger, row, job, indexed, stored, seen, replays, task, submit,
                 errors, faults>>
-----------------------------------------------------------------------------
CrawlerDoes(w) ==
  \/ \E m : ClaimStep(w, "discovered", m, "crawler", "dedup") /\ SetsRow(m, "claimed")
  \/ \E m : DropStep("discovered", m, "crawler")
  \/ KeyStep(w) \/ SkipStep(w) \/ FetchStep(w)
  \/ PublishStep(w, "publish", "mark", "fetched", Crawler!HtmlFetched(task[w].msg))
  \/ MarkStep(w)
  \/ \E u \in Urls : SeeLinkStep(w, u)
  \/ QueueLinkStep(w) \/ PublishLinkStep(w)
  \/ QuietStep(w) \/ FailStep(w) \/ ReportStep(w, "crawler") \/ AckStep(w)
ParserDoes(w) ==
  \/ \E m : ClaimStep(w, "fetched", m, "parser", "parse") /\ UNCHANGED row
  \/ \E m : DropStep("fetched", m, "parser")
  \/ PublishStep(w, "parse", "ack", "parsed", Parser!PageParsed(task[w].msg))
  \/ ReportStep(w, "parser") \/ AckStep(w)
CleanerDoes(w) ==
  \/ \E m : ClaimStep(w, "parsed", m, "cleaner", "upsert") /\ UNCHANGED row
  \/ \E m : DropStep("parsed", m, "cleaner")
  \/ CommitStep(w) \/ QuietStep(w) \/ FailStep(w) \/ ReportStep(w, "cleaner") \/ AckStep(w)
RetryDoes(w) ==
  \/ \E f : /\ f.stage = "cleaner" /\ UNCHANGED minted
            /\ RetryStep(w, f, "parsed", Retry!ReplayedPage(f))
  \/ \E f : /\ minted' = [minted EXCEPT ![RowOf(f)] = @ + 1]
            /\ RetryStep(w, f, "discovered",
                         Discovered(f.job, f.url, f.attempt + 1, f.depth, f.force))
  \/ \E f : /\ f.attempt >= RetryMaxAttempts /\ UNCHANGED minted
            /\ RetryStep(w, f, "dlq", f)
  \/ AckStep(w)
ReplayDoes(w) ==
  \/ \E m : CountStep(w, m)
  \/ /\ task[w].msg.kind = "PageParsed"
     /\ PublishStep(w, "replay", "ack", "parsed", task[w].msg)
  \/ PublishStep(w, "replay", "ack", "discovered", DlqReplay!ReplayedUrl(task[w].msg))
  \/ QuietStep(w) \/ AckStep(w)
SubmitDoes(j) ==
  \/ CreateStep(j) \/ RestStep(j)
  \/ \E u \in Urls : SeeSeedStep(j, u)
  \/ QueueSeedStep(j) \/ PublishSeedStep(j) \/ AbandonStep(j)
-----------------------------------------------------------------------------
\* A task seen field by field.
LEMMA TaskMoves ==
  ASSUME IInv, NEW w \in Workers, NEW pc \in Pcs, task' = [task EXCEPT ![w].pc = pc]
  PROVE  Goes(w, pc)
BY Moves DEF IInv, Moved, Goes, Gets, Others

LEMMA TaskHolds ==
  ASSUME IInv, NEW w \in Workers, NEW pc, NEW m, task' = [task EXCEPT ![w] = Holding(pc, m)]
  PROVE  Holds(w, pc, m)
BY DEF IInv, StoresOK, Holds, Others

LEMMA TaskGets ==
  ASSUME IInv, NEW w \in Workers, NEW pc, NEW links, NEW cur,
         task' = [task EXCEPT ![w] = [pc |-> pc, msg |-> task[w].msg, links |-> links,
                                      cur |-> cur]]
  PROVE  Gets(w, pc, task[w].msg, links, cur)
<1>1. task \in [Workers -> Tasks]
  BY DEF IInv, StoresOK
<1> QED
  BY <1>1 DEF Gets, Others

LEMMA TaskRests ==
  ASSUME IInv, NEW w \in Workers, task' = [task EXCEPT ![w] = Idle]
  PROVE  Rests(w)
BY DEF IInv, StoresOK, Rests, Others

\* What is unchanged, variable by variable.
LEMMA ReportSteps ==
  ASSUME IInv, NEW w \in Workers, NEW stage \in Stages,
         NEW force \in {FALSE, task[w].msg.force},
         \/ task[w].pc = "report" /\ UNCHANGED errors
         \/ task[w].pc = "parse" /\ errors' = errors + 1,
         Report(task[w].msg, stage, force), task' = [task EXCEPT ![w].pc = "ack"],
         UNCHANGED <<postgres, stored, redis, submit, faults>>
  PROVE  ReportStep(w, stage)
<1>1. Goes(w, "ack")
  BY TaskMoves DEF Pcs
<1>2. UNCHANGED <<ledger, row, job, indexed, stored, dedup, seen, replays, submit, faults>>
  BY DEF postgres, redis
<1>3. CASE task[w].msg.attempt < WorkerMaxAttempts
  <2>1. /\ Adds("failed", Failure(task[w].msg, stage, force))
        /\ minted' = [minted EXCEPT ![RowOf(task[w].msg)] = @ + 1]
    BY <1>3 DEF Report, ShouldRetry, Publish, Adds, Mint, RowOf
  <2> QED
    BY <1>1, <1>2, <1>3, <2>1 DEF ReportStep
<1>4. CASE ~(task[w].msg.attempt < WorkerMaxAttempts)
  BY <1>1, <1>2, <1>4 DEF Report, ShouldRetry, Publish, Adds, ReportStep
<1> QED
  BY <1>3, <1>4
-----------------------------------------------------------------------------
\* The services' steps are the steps above.
LEMMA ParserSteps ==
  ASSUME IInv, NEW w \in Parsers, Parser!ParserStep(w)
  PROVE  ParserDoes(w)
<1>0. w \in Workers /\ Source(w) = "fetched"
  BY SourceOf DEF Workers
<1>1. ASSUME NEW m \in topic["fetched"], Parser!Claim(w, m)
      PROVE  ParserDoes(w)
  <2>1. task' = [task EXCEPT ![w] = Holding("parse", m)]
    BY <1>1 DEF Parser!Claim, Parser!Take, Parser!Holding, Holding
  <2>2. Holds(w, "parse", m)
    BY <1>0, <2>1, TaskHolds
  <2>3. ClaimStep(w, "fetched", m, "parser", "parse") /\ UNCHANGED row
    BY <1>1, <2>2 DEF Parser!Claim, Parser!IsIdle, Parser!Idle, Parser!Holding, Idle, Holding,
       Parser!Take, Removes, ClaimStep, Parser!Claimable, Parser!IdOf, IdOf, Parser!redis, Parser!world
  <2> QED
    BY <2>3 DEF ParserDoes
<1>2. ASSUME NEW m \in topic["fetched"], Parser!SkipDuplicate(w, "parser", m)
      PROVE  ParserDoes(w)
  <2>1. DropStep("fetched", m, "parser")
    BY <1>0, <1>2 DEF Parser!SkipDuplicate, Parser!Source, Source, Parser!Claimable, Parser!IdOf, IdOf,
       DropStep, Removes, Parser!postgres, Parser!redis, Parser!world
  <2> QED
    BY <2>1 DEF ParserDoes
<1>3. CASE Parser!Parse(w)
  <2>1. Goes(w, "ack")
    BY <1>0, <1>3, TaskMoves DEF Parser!Parse, Parser!Goto, Pcs
  <2> QED
    BY <1>3, <2>1 DEF Parser!Parse, Parser!At, Parser!Publish, Adds, PublishStep, ParserDoes,
       Parser!postgres, Parser!redis, Parser!world
<1>4. CASE Parser!ParseFails(w)
  <2>1. /\ Report(task[w].msg, "parser", FALSE) /\ task' = [task EXCEPT ![w].pc = "ack"]
        /\ \/ task[w].pc = "report" /\ UNCHANGED errors
           \/ task[w].pc = "parse" /\ errors' = errors + 1
        /\ UNCHANGED <<postgres, stored, redis, submit, faults>>
    BY <1>4 DEF Parser!ParseFails, Parser!At, Parser!Goto, Parser!Error, Parser!world,
       Parser!Report, Report, Parser!ShouldRetry, ShouldRetry, Parser!Publish, Publish,
       Parser!Failure, Failure, Parser!NewId, NewId, Parser!Mint, Mint,
       Parser!postgres, postgres, Parser!redis, redis
  <2>2. ReportStep(w, "parser")
    BY <1>0, <2>1, ReportSteps DEF Stages
  <2> QED
    BY <2>2 DEF ParserDoes
<1>5. CASE Parser!Ack(w)
  BY <1>0, <1>5, TaskRests DEF Parser!Ack, Parser!At, Parser!Idle, Parser!Holding, Idle, Holding, AckStep,
     ParserDoes,
     Parser!kafka, Parser!postgres, Parser!redis, Parser!world
<1> QED
  BY <1>1, <1>2, <1>3, <1>4, <1>5 DEF Parser!ParserStep

LEMMA CleanerSteps ==
  ASSUME IInv, NEW w \in Cleaners, Cleaner!CleanerStep(w) \/ Cleaner!SetHashFails(w)
  PROVE  CleanerDoes(w)
<1>0. w \in Workers /\ Source(w) = "parsed"
  BY SourceOf DEF Workers
<1>1. ASSUME NEW m \in topic["parsed"], Cleaner!Claim(w, m)
      PROVE  CleanerDoes(w)
  <2>1. task' = [task EXCEPT ![w] = Holding("upsert", m)]
    BY <1>1 DEF Cleaner!Claim, Cleaner!Take, Cleaner!Holding, Holding
  <2>2. Holds(w, "upsert", m)
    BY <1>0, <2>1, TaskHolds
  <2>3. ClaimStep(w, "parsed", m, "cleaner", "upsert") /\ UNCHANGED row
    BY <1>1, <2>2 DEF Cleaner!Claim, Cleaner!IsIdle, Cleaner!Idle, Cleaner!Holding, Idle,
       Holding, Cleaner!Take, Removes, ClaimStep, Cleaner!Claimable, Cleaner!IdOf, IdOf, Cleaner!redis,
       Cleaner!world
  <2> QED
    BY <2>3 DEF CleanerDoes
<1>2. ASSUME NEW m \in topic["parsed"], Cleaner!SkipDuplicate(w, "cleaner", m)
      PROVE  CleanerDoes(w)
  <2>1. DropStep("parsed", m, "cleaner")
    BY <1>0, <1>2 DEF Cleaner!SkipDuplicate, Cleaner!Source, Source, Cleaner!Claimable, Cleaner!IdOf, IdOf,
       DropStep, Removes, Cleaner!postgres, Cleaner!redis, Cleaner!world
  <2> QED
    BY <2>1 DEF CleanerDoes
<1>3. CASE Cleaner!Flush(w) \/ Cleaner!SetHash(w)
  <2>1. /\ \/ task[w].pc = "upsert" /\ task' = [task EXCEPT ![w].pc = "complete"]
           \/ task[w].pc = "upsert" /\ task' = [task EXCEPT ![w].pc = "commit"]
           \/ task[w].pc = "sethash" /\ task' = [task EXCEPT ![w].pc = "ack"]
        /\ UNCHANGED <<topic, minted, ledger, row, job, indexed, stored, dedup, seen, replays,
                       submit, errors, faults>>
    BY <1>3 DEF Cleaner!Flush, Cleaner!SetHash, Cleaner!At, Cleaner!Goto, Cleaner!kafka,
       Cleaner!postgres, Cleaner!redis, Cleaner!world
  <2>2. QuietStep(w)
    BY <1>0, <2>1, TaskMoves DEF QuietStep, Pcs
  <2> QED
    BY <2>2 DEF CleanerDoes
<1>4. CASE Cleaner!CommitUpserts(w)
  <2>1. Goes(w, "sethash")
    BY <1>0, <1>4, TaskMoves DEF Cleaner!CommitUpserts, Cleaner!Goto, Pcs
  <2>2. CommitStep(w)
    BY <1>4, <2>1 DEF Cleaner!CommitUpserts, CommitStep, SetsRow, RowOf, Cleaner!kafka,
       Cleaner!redis, Cleaner!world
  <2> QED
    BY <2>2 DEF CleanerDoes
<1>5. CASE Cleaner!UpsertFails(w) \/ Cleaner!SetHashFails(w)
  <2>1. Cleaner!Fail(w)
    BY <1>5 DEF Cleaner!UpsertFails, Cleaner!SetHashFails
  <2>2. Goes(w, "report")
    BY <1>0, <2>1, TaskMoves DEF Cleaner!Fail, Cleaner!Goto, Pcs
  <2>3. FailStep(w)
    BY <1>5, <2>1, <2>2 DEF Cleaner!UpsertFails, Cleaner!SetHashFails, Cleaner!At,
       Cleaner!Error, Cleaner!Fault, Cleaner!Fail, Cleaner!Mark, FailStep, SetsRow, RowOf,
       Cleaner!kafka, Cleaner!redis
  <2> QED
    BY <2>3 DEF CleanerDoes
<1>6. CASE Cleaner!ReportFailure(w)
  <2>1. /\ Report(task[w].msg, "cleaner", FALSE) /\ task' = [task EXCEPT ![w].pc = "ack"]
        /\ \/ task[w].pc = "report" /\ UNCHANGED errors
           \/ task[w].pc = "parse" /\ errors' = errors + 1
        /\ UNCHANGED <<postgres, stored, redis, submit, faults>>
    BY <1>6 DEF Cleaner!ReportFailure, Cleaner!At, Cleaner!Goto, Cleaner!Error, Cleaner!world,
       Cleaner!Report, Report, Cleaner!ShouldRetry, ShouldRetry, Cleaner!Publish, Publish,
       Cleaner!Failure, Failure, Cleaner!NewId, NewId, Cleaner!Mint, Mint,
       Cleaner!postgres, postgres, Cleaner!redis, redis
  <2>2. ReportStep(w, "cleaner")
    BY <1>0, <2>1, ReportSteps DEF Stages
  <2> QED
    BY <2>2 DEF CleanerDoes
<1>7. CASE Cleaner!Ack(w)
  BY <1>0, <1>7, TaskRests DEF Cleaner!Ack, Cleaner!At, Cleaner!Idle, Cleaner!Holding, Idle, Holding, AckStep,
     CleanerDoes,
     Cleaner!kafka, Cleaner!postgres, Cleaner!redis, Cleaner!world
<1> QED
  BY <1>1, <1>2, <1>3, <1>4, <1>5, <1>6, <1>7 DEF Cleaner!CleanerStep

LEMMA CrawlerSteps ==
  ASSUME IInv, NEW w \in Crawlers, Crawler!CrawlerStep(w) \/ Crawler!LateFailure(w)
  PROVE  CrawlerDoes(w)
<1>0. w \in Workers /\ Source(w) = "discovered"
  BY SourceOf DEF Workers
<1>1. ASSUME NEW m \in topic["discovered"], Crawler!Claim(w, m)
      PROVE  CrawlerDoes(w)
  <2>1. task' = [task EXCEPT ![w] = Holding("dedup", m)]
    BY <1>1 DEF Crawler!Claim, Crawler!Take, Crawler!Holding, Holding
  <2>2. Holds(w, "dedup", m)
    BY <1>0, <2>1, TaskHolds
  <2>3. ClaimStep(w, "discovered", m, "crawler", "dedup") /\ SetsRow(m, "claimed")
    BY <1>1, <2>2 DEF Crawler!Claim, Crawler!IsIdle, Crawler!Idle, Crawler!Holding, Idle,
       Holding, Crawler!Take, Removes, ClaimStep, Crawler!Claimable, Crawler!IdOf, IdOf, Crawler!Mark, SetsRow,
       RowOf, Crawler!redis, Crawler!world
  <2> QED
    BY <2>3 DEF CrawlerDoes
<1>2. ASSUME NEW m \in topic["discovered"], Crawler!SkipDuplicate(w, "crawler", m)
      PROVE  CrawlerDoes(w)
  <2>1. DropStep("discovered", m, "crawler")
    BY <1>0, <1>2 DEF Crawler!SkipDuplicate, Crawler!Source, Source, Crawler!Claimable,
       Crawler!IdOf, IdOf, DropStep, Removes, Crawler!postgres, Crawler!redis, Crawler!world
  <2> QED
    BY <2>1 DEF CrawlerDoes
<1>3. CASE Crawler!ReleaseKey(w) \/ Crawler!ClaimKey(w)
  <2>1. Goes(w, "fetch")
    BY <1>0, <1>3, TaskMoves DEF Crawler!ReleaseKey, Crawler!ClaimKey, Crawler!Goto, Pcs
  <2>2. KeyStep(w)
    BY <1>3, <2>1 DEF Crawler!ReleaseKey, Crawler!ClaimKey, Crawler!At, Crawler!KeyFree,
       KeyStep, Crawler!kafka, Crawler!postgres, Crawler!world
  <2> QED
    BY <2>2 DEF CrawlerDoes
<1>4. CASE Crawler!SkipKnown(w) \/ Crawler!SkipDisallowed(w) \/ Crawler!SkipUnchanged(w)
  <2>1. /\ task[w].pc \in {"dedup", "fetch"} /\ Crawler!Skip(w)
        /\ UNCHANGED <<kafka, ledger, job, indexed, stored, redis, submit, world>>
    BY <1>4 DEF Crawler!SkipKnown, Crawler!SkipDisallowed, Crawler!SkipUnchanged,
       Crawler!At, Crawler!kafka, kafka, Crawler!redis, redis, Crawler!world, world
  <2>2. Goes(w, "ack") /\ SetsRow(task[w].msg, "skipped")
    BY <1>0, <2>1, TaskMoves DEF Crawler!Skip, Crawler!Mark, Crawler!Goto, SetsRow, RowOf, Pcs
  <2>3. SkipStep(w)
    BY <2>1, <2>2 DEF SkipStep, kafka, redis, world
  <2> QED
    BY <2>3 DEF CrawlerDoes
<1>5. CASE Crawler!Fetch(w)
  <2>1. Goes(w, "publish")
    BY <1>0, <1>5, TaskMoves DEF Crawler!Fetch, Crawler!Goto, Pcs
  <2>2. FetchStep(w)
    BY <1>5, <2>1 DEF Crawler!Fetch, Crawler!At, Crawler!Uploaded, FetchStep, RowOf,
       Crawler!kafka, Crawler!postgres, Crawler!redis, Crawler!world
  <2> QED
    BY <2>2 DEF CrawlerDoes
<1>6. CASE Crawler!FetchFails(w) \/ Crawler!LateFailure(w)
  <2>1. Crawler!Fail(w)
    BY <1>6 DEF Crawler!FetchFails, Crawler!LateFailure
  <2>2. Goes(w, "report")
    BY <1>0, <2>1, TaskMoves DEF Crawler!Fail, Crawler!Goto, Pcs
  <2>3. FailStep(w)
    BY <1>6, <2>1, <2>2 DEF Crawler!FetchFails, Crawler!LateFailure, Crawler!At,
       Crawler!Error, Crawler!Fault, Crawler!Fail, Crawler!Mark, FailStep, SetsRow, RowOf,
       Crawler!kafka, Crawler!redis
  <2> QED
    BY <2>3 DEF CrawlerDoes
<1>7. CASE Crawler!PublishFetched(w)
  <2>1. Goes(w, "mark")
    BY <1>0, <1>7, TaskMoves DEF Crawler!PublishFetched, Crawler!Goto, Pcs
  <2>2. PublishStep(w, "publish", "mark", "fetched", Crawler!HtmlFetched(task[w].msg))
    BY <1>7, <2>1 DEF Crawler!PublishFetched, Crawler!At, Crawler!Publish, Adds, PublishStep,
       Crawler!postgres, Crawler!redis, Crawler!world
  <2> QED
    BY <2>2 DEF CrawlerDoes
<1>8. CASE Crawler!MarkFetched(w)
  <2>1. Gets(w, "links", task[w].msg, Crawler!LinksToFollow(task[w].msg), Nil)
    BY <1>0, <1>8, TaskGets DEF Crawler!MarkFetched, Crawler!WithLinks
  <2>2. MarkStep(w)
    BY <1>8, <2>1 DEF Crawler!MarkFetched, Crawler!At, Crawler!Mark, MarkStep, SetsRow, RowOf,
       Crawler!kafka, Crawler!redis, Crawler!world
  <2> QED
    BY <2>2 DEF CrawlerDoes
<1>9. ASSUME NEW u \in Urls, Crawler!MarkLinkSeen(w, u)
      PROVE  CrawlerDoes(w)
  <2>1. CASE Crawler!NewLink(task[w].msg.job, u)
    <3>1. Gets(w, "queue", task[w].msg, task[w].links \ {u}, u)
      BY <1>0, <1>9, <2>1, TaskGets DEF Crawler!MarkLinkSeen, Crawler!WithLinks
    <3>2. SeeLinkStep(w, u)
      BY <1>9, <2>1, <3>1 DEF Crawler!MarkLinkSeen, Crawler!At, Crawler!NewLink, SeeLinkStep,
         Crawler!kafka, Crawler!postgres, Crawler!world
    <3> QED
      BY <3>2 DEF CrawlerDoes
  <2>2. CASE ~Crawler!NewLink(task[w].msg.job, u)
    <3>1. Gets(w, "links", task[w].msg, task[w].links \ {u}, Nil)
      BY <1>0, <1>9, <2>2, TaskGets DEF Crawler!MarkLinkSeen, Crawler!WithLinks
    <3>2. SeeLinkStep(w, u)
      BY <1>9, <2>2, <3>1 DEF Crawler!MarkLinkSeen, Crawler!At, Crawler!NewLink, SeeLinkStep,
         Crawler!kafka, Crawler!postgres, Crawler!world
    <3> QED
      BY <3>2 DEF CrawlerDoes
  <2> QED
    BY <2>1, <2>2
<1>10. CASE Crawler!QueueLink(w)
  <2>1. Goes(w, "publink")
    BY <1>0, <1>10, TaskMoves DEF Crawler!QueueLink, Crawler!Goto, Pcs
  <2>2. QueueLinkStep(w)
    BY <1>10, <2>1 DEF Crawler!QueueLink, Crawler!At, Crawler!QueueUrl, QueueUrl,
       QueueLinkStep, Crawler!kafka, Crawler!redis, Crawler!world
  <2> QED
    BY <2>2 DEF CrawlerDoes
<1>11. CASE Crawler!PublishLink(w)
  <2>1. Gets(w, "links", task[w].msg, task[w].links, Nil)
    BY <1>0, <1>11, TaskGets DEF Crawler!PublishLink, Crawler!WithLinks
  <2>2. PublishLinkStep(w)
    BY <1>11, <2>1 DEF Crawler!PublishLink, Crawler!At, Crawler!Publish, Crawler!Discovered,
       Discovered, Crawler!NewId, NewId, Crawler!Mint, Adds, PublishLinkStep,
       Crawler!postgres, Crawler!redis, Crawler!world
  <2> QED
    BY <2>2 DEF CrawlerDoes
<1>12. CASE Crawler!LinksDone(w)
  <2>1. Goes(w, "ack")
    BY <1>0, <1>12, TaskMoves DEF Crawler!LinksDone, Crawler!Goto, Pcs
  <2>2. QuietStep(w)
    BY <1>12, <2>1 DEF Crawler!LinksDone, Crawler!At, QuietStep, Crawler!kafka,
       Crawler!postgres, Crawler!redis, Crawler!world
  <2> QED
    BY <2>2 DEF CrawlerDoes
<1>13. CASE Crawler!ReportFailure(w)
  <2>1. /\ task[w].pc = "report" /\ task' = [task EXCEPT ![w].pc = "ack"] /\ UNCHANGED errors
        /\ Report(task[w].msg, "crawler", task[w].msg.force)
        /\ UNCHANGED <<postgres, stored, redis, submit, faults>>
    BY <1>13 DEF Crawler!ReportFailure, Crawler!At, Crawler!Goto, Crawler!world,
       Crawler!Report, Report, Crawler!ShouldRetry, ShouldRetry, Crawler!Publish, Publish,
       Crawler!Failure, Failure, Crawler!NewId, NewId, Crawler!Mint, Mint,
       Crawler!postgres, postgres, Crawler!redis, redis
  <2>2. ReportStep(w, "crawler")
    BY <1>0, <2>1, ReportSteps DEF Stages
  <2> QED
    BY <2>2 DEF CrawlerDoes
<1>14. CASE Crawler!Ack(w)
  <2>1. AckStep(w)
    BY <1>0, <1>14, TaskRests DEF Crawler!Ack, Crawler!At, Crawler!Idle, Crawler!Holding, Idle,
       Holding, AckStep, Crawler!kafka, Crawler!postgres, Crawler!redis, Crawler!world
  <2> QED
    BY <2>1 DEF CrawlerDoes
<1> QED
  BY <1>1, <1>2, <1>3, <1>4, <1>5, <1>6, <1>7, <1>8, <1>9, <1>10, <1>11, <1>12, <1>13, <1>14
     DEF Crawler!CrawlerStep

LEMMA RetrySteps ==
  ASSUME IInv, NEW w \in Retriers, Retry!RetryStep(w)
  PROVE  RetryDoes(w)
<1>0. w \in Workers
  BY DEF Workers
<1>1. ASSUME NEW f \in topic["failed"], NEW t, NEW x, Retry!IsIdle(w),
             Retry!TakeAndPublish(w, f, t, x),
             UNCHANGED <<Retry!postgres, stored, Retry!redis, submit, Retry!world>>
      PROVE  RetryStep(w, f, t, x)
  <2>1. Holds(w, "ack", f)
    BY <1>0, <1>1, TaskHolds DEF Retry!TakeAndPublish, Retry!Holding, Holding
  <2> QED
    BY <1>1, <2>1 DEF Retry!TakeAndPublish, Retry!IsIdle, Retry!Idle, Retry!Holding, Idle,
       Holding, RetryStep, Retry!postgres, Retry!redis, Retry!world
<1>2. ASSUME NEW f \in topic["failed"], Retry!RetryPage(w, f)
      PROVE  RetryDoes(w)
  <2>1. RetryStep(w, f, "parsed", Retry!ReplayedPage(f))
    BY <1>1, <1>2 DEF Retry!RetryPage
  <2>2. f.stage = "cleaner" /\ UNCHANGED minted
    BY <1>2 DEF Retry!RetryPage
  <2> QED
    BY <2>1, <2>2 DEF RetryDoes
<1>3. ASSUME NEW f \in topic["failed"], Retry!RetryCrawl(w, f)
      PROVE  RetryDoes(w)
  <2>1. RetryStep(w, f, "discovered", Discovered(f.job, f.url, f.attempt + 1, f.depth, f.force))
    BY <1>1, <1>3 DEF Retry!RetryCrawl, Retry!Discovered, Discovered, Retry!NewId, NewId
  <2>2. minted' = [minted EXCEPT ![RowOf(f)] = @ + 1]
    BY <1>3 DEF Retry!RetryCrawl, Retry!Mint, RowOf
  <2> QED
    BY <2>1, <2>2 DEF RetryDoes
<1>4. ASSUME NEW f \in topic["failed"], Retry!Exhausted(w, f)
      PROVE  RetryDoes(w)
  <2>1. RetryStep(w, f, "dlq", f) /\ UNCHANGED minted
    BY <1>1, <1>4 DEF Retry!Exhausted
  <2>2. f.attempt \in Nat
    BY DEF IInv, TopicsOK, Good, Message, Topics
  <2>3. f.attempt >= RetryMaxAttempts
    BY <1>4, <2>2, LimitsAssumption DEF Retry!Exhausted, Retry!ShouldRetry
  <2> QED
    BY <2>1, <2>3 DEF RetryDoes
<1>5. CASE Retry!Ack(w)
  <2>1. AckStep(w)
    BY <1>0, <1>5, TaskRests DEF Retry!Ack, Retry!At, Retry!Idle, Retry!Holding, Idle, Holding,
       AckStep, Retry!kafka, Retry!postgres, Retry!redis, Retry!world
  <2> QED
    BY <2>1 DEF RetryDoes
<1> QED
  BY <1>2, <1>3, <1>4, <1>5 DEF Retry!RetryStep

LEMMA CountsNat ==
  ASSUME IInv, NEW id
  PROVE  DlqReplay!Count(id) \in Nat
<1>1. PICK S : S = {r \in replays : r[1] = id}
  OBVIOUS
<1>2. S \subseteq replays /\ IsFiniteSet(replays)
  BY <1>1 DEF IInv, StoresOK
<1>3. Cardinality(S) \in Nat
  BY <1>2, FS_Subset, FS_CardinalityType
<1>4. DlqReplay!Count(id) = Cardinality(S)
  BY <1>1, Zenon DEF DlqReplay!Count, DlqReplay!Cardinality, Cardinality
<1> QED
  BY <1>3, <1>4

LEMMA ReplaySteps ==
  ASSUME IInv, NEW w \in Replayers, DlqReplay!ReplayStep(w) \/ DlqReplay!ReplayFails(w)
  PROVE  ReplayDoes(w)
<1>0. w \in Workers
  BY DEF Workers
<1>1. ASSUME NEW m \in topic["dlq"], DlqReplay!CountReplay(w, m)
      PROVE  ReplayDoes(w)
  <2>1. PICK pc \in {"replay", "ack"} : /\ task' = [task EXCEPT ![w] = Holding(pc, m)]
                                        /\ pc = "replay" => MaxReplays # 0
    <3>1. PICK pc : /\ task' = [task EXCEPT ![w] = Holding(pc, m)]
                    /\ pc = IF DlqReplay!Count(IdOf(m)) + 1 <= MaxReplays
                            THEN "replay" ELSE "ack"
      BY <1>1 DEF DlqReplay!CountReplay, DlqReplay!UnderCap, DlqReplay!Take,
         DlqReplay!Holding, Holding, DlqReplay!IdOf, IdOf
    <3>2. DlqReplay!Count(IdOf(m)) \in Nat
      BY CountsNat
    <3>3. MaxReplays = 0 => ~(DlqReplay!Count(IdOf(m)) + 1 <= MaxReplays)
      BY <3>2
    <3> QED
      BY <3>1, <3>3
  <2>2. Holds(w, "ack", m) \/ (Holds(w, "replay", m) /\ MaxReplays # 0)
    <3>1. Holds(w, pc, m)
      BY <1>0, <2>1, TaskHolds
    <3> QED
      BY <2>1, <3>1
  <2>3. \E k : replays' = replays \cup {<<IdOf(m), k>>}
    BY <1>1 DEF DlqReplay!CountReplay, DlqReplay!IdOf, IdOf
  <2>4. CountStep(w, m)
    BY <1>1, <2>2, <2>3 DEF DlqReplay!CountReplay, DlqReplay!IsIdle, DlqReplay!Idle,
       DlqReplay!Holding, Idle, Holding, DlqReplay!Take, Removes, CountStep,
       DlqReplay!postgres, DlqReplay!world
  <2> QED
    BY <2>4 DEF ReplayDoes
<1>2. CASE DlqReplay!ReplayPage(w)
  <2>1. Goes(w, "ack")
    BY <1>0, <1>2, TaskMoves DEF DlqReplay!ReplayPage, DlqReplay!Goto, Pcs
  <2>2. PublishStep(w, "replay", "ack", "parsed", task[w].msg)
    BY <1>2, <2>1 DEF DlqReplay!ReplayPage, DlqReplay!At, DlqReplay!Publish, Adds, PublishStep,
       DlqReplay!postgres, DlqReplay!redis, DlqReplay!world
  <2>3. task[w].msg.kind = "PageParsed"
    BY <1>2 DEF DlqReplay!ReplayPage
  <2> QED
    BY <2>2, <2>3 DEF ReplayDoes
<1>3. CASE DlqReplay!ReplayUrl(w)
  <2>1. Goes(w, "ack")
    BY <1>0, <1>3, TaskMoves DEF DlqReplay!ReplayUrl, DlqReplay!Goto, Pcs
  <2>2. PublishStep(w, "replay", "ack", "discovered", DlqReplay!ReplayedUrl(task[w].msg))
    BY <1>3, <2>1 DEF DlqReplay!ReplayUrl, DlqReplay!At, DlqReplay!Publish, Adds, PublishStep,
       DlqReplay!postgres, DlqReplay!redis, DlqReplay!world
  <2> QED
    BY <2>2 DEF ReplayDoes
<1>4. CASE DlqReplay!ReplayFails(w)
  <2>1. Goes(w, "ack")
    BY <1>0, <1>4, TaskMoves DEF DlqReplay!ReplayFails, DlqReplay!Goto, Pcs
  <2>2. QuietStep(w)
    BY <1>4, <2>1 DEF DlqReplay!ReplayFails, DlqReplay!At, DlqReplay!Fault, QuietStep,
       DlqReplay!kafka, DlqReplay!postgres, DlqReplay!redis
  <2> QED
    BY <2>2 DEF ReplayDoes
<1>5. CASE DlqReplay!Ack(w)
  <2>1. AckStep(w)
    BY <1>0, <1>5, TaskRests DEF DlqReplay!Ack, DlqReplay!At, DlqReplay!Idle,
       DlqReplay!Holding, Idle, Holding, AckStep, DlqReplay!kafka, DlqReplay!postgres,
       DlqReplay!redis, DlqReplay!world
  <2> QED
    BY <2>1 DEF ReplayDoes
<1> QED
  BY <1>1, <1>2, <1>3, <1>4, <1>5 DEF DlqReplay!ReplayStep

LEMMA SubmitSteps ==
  ASSUME IInv, NEW j \in Jobs, Submission!SubmitStep(j) \/ Submission!Abandon(j)
  PROVE  SubmitDoes(j)
<1>0. submit \in [Jobs -> Submits]
  BY DEF IInv, StoresOK
<1>1. ASSUME NEW pc, NEW todo, NEW cur, Submission!SubmitAt(j, pc, todo, cur)
      PROVE  SubmitGets(j, pc, cur)
  BY <1>0, <1>1 DEF Submission!SubmitAt, SubmitGets
<1>2. CASE Submission!CreateJob(j)
  <2>1. \E pc \in {"select", "next"} : SubmitGets(j, pc, Nil)
    BY <1>1, <1>2 DEF Submission!CreateJob
  <2>2. CreateStep(j)
    BY <1>2, <2>1 DEF Submission!CreateJob, Submission!AtSubmit, CreateStep,
       Submission!kafka, Submission!redis, Submission!world
  <2> QED
    BY <2>2 DEF SubmitDoes
<1>3. CASE Submission!SelectStale(j) \/ Submission!Answer(j)
  <2>1. \E pc \in {"next", "closed"} : SubmitGets(j, pc, Nil)
    BY <1>1, <1>3 DEF Submission!SelectStale, Submission!Answer
  <2>2. RestStep(j)
    BY <1>3, <2>1 DEF Submission!SelectStale, Submission!Answer, Submission!AtSubmit, RestStep,
       Submission!kafka, Submission!postgres, Submission!redis, Submission!world
  <2> QED
    BY <2>2 DEF SubmitDoes
<1>4. ASSUME NEW u \in Urls, Submission!MarkSeen(j, u)
      PROVE  SubmitDoes(j)
  <2>1. CASE Submission!NewToJob(j, u)
    <3>1. SubmitGets(j, "queue", u)
      BY <1>1, <1>4, <2>1 DEF Submission!MarkSeen
    <3>2. SeeSeedStep(j, u)
      BY <1>4, <2>1, <3>1 DEF Submission!MarkSeen, Submission!NewToJob, Submission!AtSubmit,
         SeeSeedStep, Submission!kafka, Submission!postgres, Submission!world
    <3> QED
      BY <3>2 DEF SubmitDoes
  <2>2. CASE ~Submission!NewToJob(j, u)
    <3>1. SubmitGets(j, "next", Nil)
      BY <1>1, <1>4, <2>2 DEF Submission!MarkSeen
    <3>2. RestStep(j)
      BY <1>4, <2>2, <3>1 DEF Submission!MarkSeen, Submission!AtSubmit, RestStep,
         Submission!kafka, Submission!postgres, Submission!world
    <3> QED
      BY <3>2 DEF SubmitDoes
  <2> QED
    BY <2>1, <2>2
<1>5. CASE Submission!QueueSeed(j)
  <2>1. SubmitGets(j, "publish", submit[j].cur)
    BY <1>1, <1>5 DEF Submission!QueueSeed
  <2>2. QueueSeedStep(j)
    BY <1>5, <2>1 DEF Submission!QueueSeed, Submission!AtSubmit, Submission!QueueUrl, QueueUrl,
       QueueSeedStep, Submission!kafka, Submission!redis, Submission!world
  <2> QED
    BY <2>2 DEF SubmitDoes
<1>6. CASE Submission!PublishSeed(j)
  <2>1. SubmitGets(j, "next", Nil)
    BY <1>1, <1>6 DEF Submission!PublishSeed
  <2>2. \E depth : Adds("discovered",
                        Discovered(j, submit[j].cur, 1, depth, j \in Incremental))
    BY <1>6 DEF Submission!PublishSeed, Submission!Publish, Submission!Discovered, Discovered,
       Submission!NewId, NewId, Adds
  <2>3. PublishSeedStep(j)
    BY <1>6, <2>1, <2>2 DEF Submission!PublishSeed, Submission!AtSubmit, Submission!Mint,
       PublishSeedStep, Submission!postgres, Submission!redis, Submission!world
  <2> QED
    BY <2>3 DEF SubmitDoes
<1>7. CASE Submission!Abandon(j)
  <2>1. SubmitGets(j, "closed", Nil)
    BY <1>1, <1>7 DEF Submission!Abandon
  <2>2. AbandonStep(j)
    BY <1>7, <2>1 DEF Submission!Abandon, Submission!Fault, AbandonStep, Submission!kafka,
       Submission!postgres, Submission!redis
  <2> QED
    BY <2>2 DEF SubmitDoes
<1> QED
  BY <1>2, <1>3, <1>4, <1>5, <1>6, <1>7 DEF Submission!SubmitStep
-----------------------------------------------------------------------------
\* Every step is one of these.
SystemDoes == \/ \E w \in Crawlers : CrawlerDoes(w)
              \/ \E w \in Parsers : ParserDoes(w)
              \/ \E w \in Cleaners : CleanerDoes(w)
              \/ \E w \in Retriers : RetryDoes(w)
              \/ \E w \in Replayers : ReplayDoes(w)
              \/ \E j \in Jobs : SubmitDoes(j)
              \/ \E w \in Workers : CrashStep(w) \/ RedeliverStep(w)
              \/ \E u \in Urls : ExpireStep(u)

LEMMA AllSteps ==
  ASSUME IInv, [Next]_vars
  PROVE  SystemDoes \/ UNCHANGED vars
<1>1. ASSUME NEW w \in Workers, Step(w)
      PROVE  SystemDoes
  BY <1>1, CrawlerSteps, ParserSteps, CleanerSteps, RetrySteps, ReplaySteps
     DEF Step, SystemDoes
<1>2. ASSUME NEW w \in Workers, Crash(w) \/ Redeliver(w)
      PROVE  SystemDoes
  <2>1. CASE Crash(w)
    <3>1. CrashStep(w)
      BY <2>1, TaskRests DEF Crash, IsIdle, Fault, Publish, CrashStep, Adds, postgres, redis
    <3> QED
      BY <3>1 DEF SystemDoes
  <2>2. CASE Redeliver(w)
    <3>1. RedeliverStep(w)
      BY <2>2 DEF Redeliver, IsIdle, Fault, Publish, RedeliverStep, Adds, postgres, redis
    <3> QED
      BY <3>1 DEF SystemDoes
  <2> QED
    BY <1>2, <2>1, <2>2
<1>3. CASE \E w \in Crawlers : Crawler!LateFailure(w)
  BY <1>3, CrawlerSteps DEF SystemDoes
<1>4. CASE \E w \in Cleaners : Cleaner!SetHashFails(w)
  BY <1>4, CleanerSteps DEF SystemDoes
<1>5. CASE \E w \in Replayers : DlqReplay!ReplayFails(w)
  BY <1>5, ReplaySteps DEF SystemDoes
<1>6. ASSUME NEW j \in Jobs, Submission!SubmitStep(j) \/ Submission!Abandon(j)
      PROVE  SystemDoes
  BY <1>6, SubmitSteps DEF SystemDoes
<1>7. ASSUME NEW u \in Urls, Crawler!ExpireKey(u)
      PROVE  SystemDoes
  <2>1. ExpireStep(u)
    BY <1>7 DEF Crawler!ExpireKey, Crawler!IsIdle, Crawler!Idle, Crawler!Holding, Idle, Holding,
       ExpireStep, Crawler!kafka, Crawler!postgres, Crawler!world
  <2> QED
    BY <2>1 DEF SystemDoes
<1> QED
  BY <1>1, <1>2, <1>3, <1>4, <1>5, <1>6, <1>7 DEF Next, Faults, Wait
=============================================================================
