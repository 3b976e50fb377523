------------------------------ MODULE Crawler ------------------------------
(***************************************************************************)
(* CrawlerWorker: claims an UrlDiscovered, takes the URL's dedup key,      *)
(* fetches and stores the page, publishes HtmlFetched, marks the row, and  *)
(* queues the links it found.  Rate limiting and robots.txt only delay or  *)
(* refuse the fetch.                                                       *)
(***************************************************************************)
EXTENDS ArgusState

\* The claim and the row's "claimed" are one transaction.
Claim(w, m) ==
  /\ IsIdle(w)
  /\ m \in topic["discovered"]
  /\ Claimable(m, "crawler")
  /\ Take(w, "discovered", m, "dedup")
  /\ ledger' = ledger \cup {<<IdOf(m), "crawler">>}
  /\ Mark(m, "claimed")
  /\ UNCHANGED <<minted, job, indexed, stored, redis, submit, world>>

\* Every return without a fetch marks the row skipped and publishes nothing.
SkipUnmarked(w) == UNCHANGED row /\ Goto(w, "ack")
Skip(w) == Mark(task[w].msg, "skipped") /\ Goto(w, "ack")

\* UrlDedupStore.try_claim: SET NX EX.
EveryKeyFree(u) == TRUE
KeyFree(u) == u \notin dedup

\* force_recrawl deletes the key of the URL and does not set it.
ReleaseKey(w) ==
  /\ At(w, "dedup") /\ task[w].msg.force
  /\ dedup' = dedup \ {task[w].msg.url}
  /\ Goto(w, "fetch")
  /\ UNCHANGED <<kafka, postgres, stored, seen, replays, submit, world>>

ClaimKey(w) ==
  /\ At(w, "dedup") /\ ~task[w].msg.force /\ KeyFree(task[w].msg.url)
  /\ dedup' = dedup \cup {task[w].msg.url}
  /\ Goto(w, "fetch")
  /\ UNCHANGED <<kafka, postgres, stored, seen, replays, submit, world>>

\* url_duplicate_skipped
SkipKnown(w) ==
  /\ At(w, "dedup") /\ ~task[w].msg.force /\ ~KeyFree(task[w].msg.url)
  /\ Skip(w)
  /\ UNCHANGED <<kafka, ledger, job, indexed, stored, redis, submit, world>>

\* robots_disallowed
SkipDisallowed(w) ==
  /\ At(w, "fetch")
  /\ Skip(w)
  /\ UNCHANGED <<kafka, ledger, job, indexed, stored, redis, submit, world>>

\* url_unchanged: the fetched page has the hash the urls table or its cache
\* holds, so there is one.
SkipUnchanged(w) ==
  /\ At(w, "fetch") /\ indexed[task[w].msg.url] >= 0
  /\ Skip(w)
  /\ UNCHANGED <<kafka, ledger, job, indexed, stored, redis, submit, world>>

\* storage.upload; the object is overwritten if it is there.
NotUploaded(m) == stored
Uploaded(m) == stored \cup {<<m.job, m.url>>}
Fetch(w) ==
  /\ At(w, "fetch")
  /\ stored' = Uploaded(task[w].msg)
  /\ Goto(w, "publish")
  /\ UNCHANGED <<kafka, postgres, redis, submit, world>>

\* HtmlFetched keeps the event id and the attempt.
HtmlFetched(m) == [m EXCEPT !.kind = "HtmlFetched", !.force = FALSE]
PublishFetched(w) ==
  /\ At(w, "publish")
  /\ Publish("fetched", HtmlFetched(task[w].msg))
  /\ Goto(w, "mark")
  /\ UNCHANGED <<minted, postgres, stored, redis, submit, world>>

\* The row is marked after the event is out, then the links are extracted.
WithLinks(w, pc, links, cur) ==
  task' = [task EXCEPT ![w] = [pc |-> pc, msg |-> task[w].msg, links |-> links, cur |-> cur]]
LinksToFollow(m) == IF m.depth >= MaxDepth THEN {} ELSE Links[m.url]
MarkFetched(w) ==
  /\ At(w, "mark")
  /\ Mark(task[w].msg, "fetched")
  /\ WithLinks(w, "links", LinksToFollow(task[w].msg), Nil)
  /\ UNCHANGED <<kafka, ledger, job, indexed, stored, redis, submit, world>>

EveryLink(j, u) == TRUE
NewLink(j, u) == <<j, u>> \notin seen
MarkLinkSeen(w, u) ==
  LET j == task[w].msg.job IN
  /\ At(w, "links") /\ u \in task[w].links
  /\ IF NewLink(j, u)
     THEN /\ seen' = seen \cup {<<j, u>>}
          /\ WithLinks(w, "queue", task[w].links \ {u}, u)
     ELSE /\ WithLinks(w, "links", task[w].links \ {u}, Nil)
          /\ UNCHANGED seen
  /\ UNCHANGED <<kafka, postgres, stored, dedup, replays, submit, world>>

QueueLink(w) ==
  /\ At(w, "queue")
  /\ QueueUrl(task[w].msg.job, task[w].cur)
  /\ Goto(w, "publink")
  /\ UNCHANGED <<kafka, ledger, job, indexed, stored, redis, submit, world>>

PublishLink(w) ==
  LET m == task[w].msg IN
  /\ At(w, "publink")
  /\ Publish("discovered", Discovered(m.job, task[w].cur, 1, m.depth + 1, FALSE))
  /\ Mint(m.job, task[w].cur)
  /\ WithLinks(w, "links", task[w].links, Nil)
  /\ UNCHANGED <<postgres, stored, redis, submit, world>>

LinksDone(w) ==
  /\ At(w, "links") /\ task[w].links = {}
  /\ Goto(w, "ack")
  /\ UNCHANGED <<kafka, postgres, stored, redis, submit, world>>

\* The except clause: the row is marked failed, then the failure published.
Fail(w) ==
  /\ Mark(task[w].msg, "failed")
  /\ Goto(w, "report")
  /\ UNCHANGED <<kafka, ledger, job, indexed, stored, redis, submit>>

\* page.goto raises, or the status is 400 or more.
FetchFails(w) == At(w, "fetch") /\ Error /\ Fail(w)
\* A store or the broker fails later in the same try block: the HtmlFetched
\* and some links may already be out.
LateFailure(w) == task[w].pc \in {"publish", "mark", "links", "queue", "publink"}
                  /\ Fault /\ Fail(w)

ReportFailure(w) ==
  /\ At(w, "report")
  /\ Report(task[w].msg, "crawler", task[w].msg.force)
  /\ Goto(w, "ack")
  /\ UNCHANGED <<postgres, stored, redis, submit, world>>

\* The dedup key expires.  Its TTL, an hour, outlasts a fetch: never while a
\* crawler that set it is still at work on the URL.
ExpireKey(u) ==
  /\ u \in dedup
  /\ ~\E w \in Crawlers : ~IsIdle(w) /\ task[w].msg.url = u
  /\ dedup' = dedup \ {u}
  /\ UNCHANGED <<kafka, postgres, stored, seen, replays, task, submit, world>>

CrawlerStep(w) ==
  \/ \E m \in topic["discovered"] : Claim(w, m) \/ SkipDuplicate(w, "crawler", m)
  \/ ReleaseKey(w) \/ ClaimKey(w) \/ SkipKnown(w)
  \/ SkipDisallowed(w) \/ SkipUnchanged(w) \/ Fetch(w) \/ FetchFails(w)
  \/ PublishFetched(w) \/ MarkFetched(w)
  \/ \E u \in Urls : MarkLinkSeen(w, u)
  \/ QueueLink(w) \/ PublishLink(w) \/ LinksDone(w)
  \/ ReportFailure(w) \/ Ack(w)
=============================================================================
