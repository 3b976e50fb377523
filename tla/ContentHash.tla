---------------------------- MODULE ContentHash ----------------------------
(***************************************************************************)
(* What Argus keeps of the content of one URL: the urls, html_artifacts    *)
(* and pages rows, the hash that ContentHashStore caches in Redis, and an  *)
(* HTML object per job.  A visit is one pass of the URL through crawler,   *)
(* parser and cleaner.  Visits overlap when a forced recrawl deletes the   *)
(* dedup key or the key expires, and cleaners when a rebalance hands a     *)
(* partition on; each access to a store is a step.                         *)
(***************************************************************************)
EXTENDS Naturals, FiniteSets

CONSTANTS
  Contents,    \* what the site may serve, told apart by checksum
  Jobs,
  Visits,
  JobOf,       \* JobOf[v]: the job visit v belongs to
  NoHash,      \* no key, no row, no object
  MaxChanges,  \* bound: changes of the site
  MaxFaults    \* bound: visits that fail or crash on their way

ASSUME JobOfAssumption == \A v \in Visits : JobOf[v] \in Jobs
ASSUME NoHashAssumption == NoHash \notin Contents
ASSUME ContentBounds == MaxChanges \in Nat /\ MaxFaults \in Nat

VARIABLES
  site,          \* what the URL serves now
  cache,         \* the Redis key argus:hash:<url>
  content_hash,  \* urls.content_hash
  artifact,      \* html_artifacts: the job in storage_key, and the checksum
  text,          \* the content the pages row has been extracted from
  object,        \* object[j]: the MinIO object <j>/<url>.html
  visit,         \* visit[v]: where v is, and what it has read
  latest,        \* history: the visit that fetched last
  kept,          \* history: the checksums committed so far
  alone,         \* history: did latest begin at rest and undisturbed, and none since
  disturbed,     \* history: since the cache was empty at rest, have two visits
                 \* been under way together, or a set_hash failed
  crossed,       \* history: has a cleaner read the row before another's commit
  overwritten,   \* history: has an object changed before a parser had read it
  changes, faults

urlRows == <<content_hash, artifact, text>>
history == <<latest, kept, alone, disturbed, crossed, overwritten>>
contentVars ==
  <<site, cache, urlRows, object, visit, history, changes, faults>>
-----------------------------------------------------------------------------
Waiting == [pc |-> "new", html |-> NoHash, known |-> NoHash, page |-> NoHash]
Over == {"new", "unchanged", "indexed", "failed"}
UnderWay(v) == visit[v].pc \notin Over
AtRest == \A v \in Visits : ~UnderWay(v)
Move(v, pc) == visit' = [visit EXCEPT ![v].pc = pc]

\* The cleaner's transaction holds the lock of the urls row until it commits.
Locked == \E v \in Visits : visit[v].pc = "commit"

ContentInit ==
  /\ site \in Contents
  /\ cache = NoHash /\ content_hash = NoHash /\ artifact = NoHash /\ text = NoHash
  /\ object = [j \in Jobs |-> NoHash]
  /\ visit = [v \in Visits |-> Waiting]
  /\ latest = NoHash /\ kept = {} /\ alone = FALSE
  /\ disturbed = FALSE /\ crossed = FALSE /\ overwritten = FALSE
  /\ changes = 0 /\ faults = 0

Change(x) ==
  /\ x # site /\ changes < MaxChanges
  /\ site' = x /\ changes' = changes + 1
  /\ UNCHANGED <<cache, urlRows, object, visit, history, faults>>

\* The crawler has the page and its checksum.
Fetch(v) ==
  /\ visit[v].pc = "new"
  /\ visit' = [visit EXCEPT ![v].pc = "cached", ![v].html = site]
  /\ latest' = v
  /\ alone' = (AtRest /\ ~disturbed)
  /\ disturbed' = (disturbed \/ ~AtRest)
  /\ UNCHANGED <<site, cache, urlRows, object, kept, crossed, overwritten, changes, faults>>

\* ContentHashStore.get_hash: the cache, or else the row, which then goes into
\* the cache with a time to live.
GetCached(v) ==
  /\ visit[v].pc = "cached"
  /\ visit' = [visit EXCEPT ![v].pc = IF cache = NoHash THEN "select" ELSE "compare",
                            ![v].known = cache]
  /\ UNCHANGED <<site, cache, urlRows, object, history, changes, faults>>

SelectHash(v) ==
  /\ visit[v].pc = "select"
  /\ visit' = [visit EXCEPT ![v].pc = IF content_hash = NoHash THEN "compare" ELSE "fill",
                            ![v].known = content_hash]
  /\ UNCHANGED <<site, cache, urlRows, object, history, changes, faults>>

FillCache(v) ==
  /\ visit[v].pc = "fill"
  /\ cache' = visit[v].known
  /\ Move(v, "compare")
  /\ UNCHANGED <<site, urlRows, object, history, changes, faults>>

\* url_unchanged: last_crawled_at and the job's row are marked, no event goes out.
SkipUnchanged(v) ==
  /\ visit[v].pc = "compare" /\ visit[v].known = visit[v].html
  /\ Move(v, "unchanged")
  /\ UNCHANGED <<site, cache, urlRows, object, history, changes, faults>>

\* storage.upload overwrites the object of the job, and HtmlFetched is out.
SharedKey(v) == Jobs
StorageKey(v) == {JobOf[v]}
CacheEarly(v) == visit[v].html
CacheAfterUpload(v) == cache
Upload(v) ==
  /\ visit[v].pc = "compare" /\ visit[v].known # visit[v].html
  /\ object' = [j \in Jobs |-> IF j \in StorageKey(v) THEN visit[v].html ELSE object[j]]
  /\ cache' = CacheAfterUpload(v)
  /\ overwritten' = (overwritten \/ \E w \in Visits \ {v} :
                                      visit[w].pc = "parse" /\ JobOf[w] = JobOf[v])
  /\ Move(v, "parse")
  /\ UNCHANGED <<site, urlRows, latest, kept, alone, disturbed, crossed, changes, faults>>

\* The parser downloads whatever the object holds by then; the checksum it
\* passes on is the event's.
Parse(v) ==
  /\ visit[v].pc = "parse"
  /\ visit' = [visit EXCEPT ![v].pc = "clean", ![v].page = object[JobOf[v]]]
  /\ UNCHANGED <<site, cache, urlRows, object, history, changes, faults>>

\* _upsert_url reads the row.
ReadRow(v) ==
  /\ visit[v].pc = "clean"
  /\ visit' = [visit EXCEPT ![v].pc = "update", ![v].known = content_hash]
  /\ crossed' = (crossed \/ \E w \in Visits : visit[w].pc \in {"update", "commit"})
  /\ UNCHANGED <<site, cache, urlRows, object, latest, kept, alone, disturbed, overwritten,
                 changes, faults>>

\* The flush before the next query takes the row's lock.
Update(v) ==
  /\ visit[v].pc = "update" /\ ~Locked
  /\ visit[v].known = NoHash => content_hash = NoHash
  /\ Move(v, "commit")
  /\ UNCHANGED <<site, cache, urlRows, object, history, changes, faults>>

\* Another cleaner has inserted the row since: the unique constraint fails.
InsertFails(v) ==
  /\ visit[v].pc = "update" /\ ~Locked
  /\ visit[v].known = NoHash /\ content_hash # NoHash
  /\ Move(v, "failed")
  /\ UNCHANGED <<site, cache, urlRows, object, history, changes, faults>>

\* The UPDATE of urls leaves out a content_hash that equals the one read; the
\* artifact and the page are read under the lock.
HashOnInsert(v) == IF visit[v].known = NoHash THEN visit[v].html ELSE content_hash
NewHash(v) == IF visit[v].known = visit[v].html THEN content_hash ELSE visit[v].html
KeepText(v) == text
NewText(v) == visit[v].page
CommitRows(v) ==
  /\ visit[v].pc = "commit"
  /\ content_hash' = NewHash(v)
  /\ artifact' = [job |-> JobOf[v], checksum |-> visit[v].html]
  /\ text' = NewText(v)
  /\ kept' = kept \cup {visit[v].html}
  /\ Move(v, "sethash")
  /\ UNCHANGED <<site, cache, object, latest, alone, disturbed, crossed, overwritten,
                 changes, faults>>

\* set_hash comes after the commit.
KeepCache(v) == cache
CachedHash(v) == visit[v].html
SetHash(v) ==
  /\ visit[v].pc = "sethash"
  /\ cache' = CachedHash(v)
  /\ Move(v, "indexed")
  /\ UNCHANGED <<site, urlRows, object, history, changes, faults>>

\* An exception or a crash ends the visit; an open transaction rolls back.
Fail(v) ==
  /\ UnderWay(v) /\ faults < MaxFaults
  /\ faults' = faults + 1
  /\ Move(v, "failed")
  /\ disturbed' = (disturbed \/ visit[v].pc = "sethash")
  /\ UNCHANGED <<site, cache, urlRows, object, latest, kept, alone, crossed, overwritten, changes>>

\* The key's time to live ends.
ExpireHash ==
  /\ cache # NoHash
  /\ cache' = NoHash
  /\ disturbed' = (disturbed /\ ~AtRest)
  /\ UNCHANGED <<site, urlRows, object, visit, latest, kept, alone, crossed, overwritten,
                 changes, faults>>

VisitStep(v) == \/ Fetch(v) \/ GetCached(v) \/ SelectHash(v) \/ FillCache(v)
                \/ SkipUnchanged(v) \/ Upload(v) \/ Parse(v)
                \/ ReadRow(v) \/ Update(v) \/ InsertFails(v) \/ CommitRows(v) \/ SetHash(v)
                \/ Fail(v)
ContentNext == \/ \E v \in Visits : VisitStep(v)
               \/ \E x \in Contents : Change(x)
               \/ ExpireHash

ContentSpec == ContentInit /\ [][ContentNext]_contentVars
-----------------------------------------------------------------------------
Hashes == Contents \cup {NoHash}
Artifacts == [job : Jobs, checksum : Contents]
Places == Over \cup {"cached", "select", "fill", "compare", "parse", "clean", "update",
                     "commit", "sethash"}

\* The three rows of the URL are there together or not at all.
ContentTypeOK ==
  /\ site \in Contents /\ cache \in Hashes
  /\ \/ content_hash = NoHash /\ artifact = NoHash /\ text = NoHash
     \/ content_hash \in Contents /\ artifact \in Artifacts /\ text \in Contents
  /\ object \in [Jobs -> Hashes]
  /\ visit \in [Visits -> [pc : Places, html : Hashes, known : Hashes, page : Hashes]]
  /\ latest \in Visits \cup {NoHash}
  /\ kept \subseteq Contents /\ alone \in BOOLEAN
  /\ disturbed \in BOOLEAN /\ crossed \in BOOLEAN /\ overwritten \in BOOLEAN
  /\ changes \in Nat /\ faults \in Nat

\* The hash by which the next crawl is judged is the artifact's, however the
\* visits of all jobs interleave and fail: unless two cleaners have crossed, the
\* second of which then leaves out the column it believes unchanged.
RowsAgree ==
  ~crossed /\ content_hash # NoHash => content_hash = artifact.checksum

\* The page row was extracted from the HTML the checksum belongs to, although
\* the parser reads the object by its key only: jobs do not share objects.
TextHasChecksum ==
  ~overwritten /\ content_hash # NoHash => text = artifact.checksum

\* No content is skipped as unchanged that was never committed to the index,
\* whatever the cache has gone through: it is only told of commits.
SkippedWasKept ==
  \A v \in Visits : visit[v].pc = "unchanged" => visit[v].html \in kept

\* A visit that goes its way alone and does not fail leaves everything in
\* agreement with what it has fetched: the rows, the cache if it is not empty,
\* and the object if the visit has uploaded one.  An overlap of visits or a
\* failed set_hash before it is forgotten when the cache expires at rest, but
\* for crossed cleaners and overwritten objects.
VisitSettles ==
  /\ AtRest /\ alone /\ ~crossed /\ ~overwritten
  /\ latest # NoHash /\ visit[latest].pc # "failed"
  => LET html == visit[latest].html IN
     /\ content_hash = html /\ artifact.checksum = html /\ text = html
     /\ cache \in {NoHash, html}
     /\ visit[latest].pc = "indexed" => /\ artifact.job = JobOf[latest]
                                       /\ object[artifact.job] = html
=============================================================================
