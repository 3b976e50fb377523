------------------------- MODULE ContentHashProofs -------------------------
(***************************************************************************)
(* Proofs about ContentHash, for any number of contents, jobs and visits.  *)
(***************************************************************************)
EXTENDS ContentHash, TLAPS

\* What a visit holds by the time it uses it.
Uploaded(v) == visit[v].pc \in {"parse", "clean", "update", "commit", "sethash", "indexed"}
Parsed(v) == visit[v].pc \in {"clean", "update", "commit"}
Holds(v) ==
  /\ visit[v].pc # "new" => visit[v].html \in Contents
  /\ visit[v].pc = "fill" => visit[v].known \in Contents
  /\ Uploaded(v) => object[JobOf[v]] \in Contents
  /\ Parsed(v) => visit[v].page \in Contents
  /\ visit[v].known # NoHash \/ visit[v].pc = "sethash" => content_hash # NoHash
TInv == ContentTypeOK /\ (\A v \in Visits : Holds(v)) /\ (cache # NoHash => content_hash # NoHash)

\* Every hash that is stored anywhere has been committed, or is NoHash.
KeptHashes == kept \cup {NoHash}
KeptInv ==
  /\ cache \in KeptHashes /\ content_hash \in KeptHashes
  /\ \A v \in Visits :
       /\ visit[v].known \in KeptHashes
       /\ visit[v].pc \in {"sethash", "unchanged"} => visit[v].html \in kept

\* Cleaners that have not crossed know the row as it is, and are one at most.
Cleaning(v) == visit[v].pc \in {"update", "commit"}
RowsInv ==
  ~crossed =>
    /\ \A v, w \in Visits : Cleaning(v) /\ Cleaning(w) => v = w
    /\ \A v \in Visits : Cleaning(v) => visit[v].known = content_hash
    /\ content_hash # NoHash => content_hash = artifact.checksum

\* Parsers whose objects have not been overwritten read what was fetched.
TextInv ==
  ~overwritten =>
    /\ \A v \in Visits : /\ visit[v].pc = "parse" => object[JobOf[v]] = visit[v].html
                         /\ Parsed(v) => visit[v].page = visit[v].html
    /\ content_hash # NoHash => text = artifact.checksum

\* While nothing has been disturbed the visit under way is the latest and is
\* alone, and the cache holds what the row holds until the row is committed
\* anew; a visit alone ends with the row saying what it has fetched.
Current(hash) == hash \in {NoHash, content_hash}
Quiet ==
  ~disturbed =>
    /\ \A v \in Visits : /\ UnderWay(v) => alone /\ v = latest
                         /\ visit[v].pc = "fill" => visit[v].known = content_hash
                         /\ visit[v].pc = "compare" => Current(visit[v].known)
    /\ (\A v \in Visits : visit[v].pc # "sethash") => Current(cache)
Alone ==
  alone =>
    /\ latest \in Visits /\ visit[latest].pc # "new"
    /\ \A v \in Visits : UnderWay(v) => v = latest
    /\ visit[latest].pc # "failed" => ~disturbed
    /\ visit[latest].pc \in {"unchanged", "sethash", "indexed"} =>
         content_hash = visit[latest].html
    /\ visit[latest].pc \in {"sethash", "indexed"} => artifact.job = JobOf[latest]
    /\ Uploaded(latest) => object[JobOf[latest]] = visit[latest].html
SettledInv == ~crossed => Quiet /\ Alone

IInv == TInv /\ KeptInv /\ RowsInv /\ TextInv /\ SettledInv
-----------------------------------------------------------------------------
\* What a step makes of a visit, field by field; it changes no other.
After(v, pc, html, known, page) ==
  /\ visit'[v].pc = pc /\ visit'[v].html = html
  /\ visit'[v].known = known /\ visit'[v].page = page
  /\ \A w \in Visits \ {v} : visit'[w] = visit[w]
  /\ visit' \in [Visits -> [pc : Places, html : Hashes, known : Hashes, page : Hashes]]

\* A visit that is replaced by a record of the right kind.
LEMMA Turning ==
  ASSUME ContentTypeOK, NEW v \in Visits, NEW pc \in Places, NEW html \in Hashes,
         NEW known \in Hashes, NEW page \in Hashes,
         visit' = [visit EXCEPT ![v] = [pc |-> pc, html |-> html, known |-> known, page |-> page]]
  PROVE  After(v, pc, html, known, page)
<1>1. visit \in [Visits -> [pc : Places, html : Hashes, known : Hashes, page : Hashes]]
  BY DEF ContentTypeOK
<1>2. visit'[v] = [pc |-> pc, html |-> html, known |-> known, page |-> page]
  BY <1>1
<1> QED
  BY <1>1, <1>2 DEF After

\* A step that moves a visit on and leaves what it has read.
LEMMA Moving ==
  ASSUME ContentTypeOK, NEW v \in Visits, NEW pc \in Places, Move(v, pc)
  PROVE  After(v, pc, visit[v].html, visit[v].known, visit[v].page)
<1>1. visit \in [Visits -> [pc : Places, html : Hashes, known : Hashes, page : Hashes]]
  BY DEF ContentTypeOK
<1>2. visit[v] = [pc |-> visit[v].pc, html |-> visit[v].html,
                  known |-> visit[v].known, page |-> visit[v].page]
  BY <1>1
<1>3. visit' = [visit EXCEPT ![v] = [visit[v] EXCEPT !.pc = pc]]
  BY DEF Move
<1>4. [visit[v] EXCEPT !.pc = pc] = [pc |-> pc, html |-> visit[v].html,
                                     known |-> visit[v].known, page |-> visit[v].page]
  BY <1>1, <1>2
<1> QED
  BY <1>1, <1>3, <1>4, Turning

\* What each step of a visit makes of it.
LEMMA Turns ==
  ASSUME TInv, NEW v \in Visits
  PROVE  LET x == visit[v] IN
    /\ Fetch(v) => After(v, "cached", site, x.known, x.page)
    /\ GetCached(v) =>
         After(v, IF cache = NoHash THEN "select" ELSE "compare", x.html, cache, x.page)
    /\ SelectHash(v) =>
         After(v, IF content_hash = NoHash THEN "compare" ELSE "fill",
               x.html, content_hash, x.page)
    /\ FillCache(v) => After(v, "compare", x.html, x.known, x.page)
    /\ SkipUnchanged(v) => After(v, "unchanged", x.html, x.known, x.page)
    /\ Upload(v) => After(v, "parse", x.html, x.known, x.page)
    /\ Parse(v) => After(v, "clean", x.html, x.known, object[JobOf[v]])
    /\ ReadRow(v) => After(v, "update", x.html, content_hash, x.page)
    /\ Update(v) => After(v, "commit", x.html, x.known, x.page)
    /\ InsertFails(v) => After(v, "failed", x.html, x.known, x.page)
    /\ CommitRows(v) => After(v, "sethash", x.html, x.known, x.page)
    /\ SetHash(v) => After(v, "indexed", x.html, x.known, x.page)
    /\ Fail(v) => After(v, "failed", x.html, x.known, x.page)
<1>1. /\ visit \in [Visits -> [pc : Places, html : Hashes, known : Hashes, page : Hashes]]
      /\ site \in Hashes /\ cache \in Hashes /\ content_hash \in Hashes
      /\ object[JobOf[v]] \in Hashes
  BY JobOfAssumption DEF TInv, ContentTypeOK, Hashes
<1>2. visit[v] = [pc |-> visit[v].pc, html |-> visit[v].html,
                  known |-> visit[v].known, page |-> visit[v].page]
  BY <1>1
<1>3. {"cached", "select", "fill", "compare", "parse", "clean", "update", "commit",
       "sethash", "new", "unchanged", "indexed", "failed"} \subseteq Places
  BY DEF Places, Over
<1>4. Fetch(v) => After(v, "cached", site, visit[v].known, visit[v].page)
  <2>1. Fetch(v) => visit' = [visit EXCEPT ![v] = [pc |-> "cached", html |-> site,
                                known |-> visit[v].known, page |-> visit[v].page]]
    BY <1>1, <1>2 DEF Fetch
  <2> QED
    BY <1>1, <1>3, <2>1, Turning DEF TInv
<1>5. ASSUME NEW pc, pc = IF cache = NoHash THEN "select" ELSE "compare"
      PROVE  GetCached(v) => After(v, pc, visit[v].html, cache, visit[v].page)
  <2>1. GetCached(v) => visit' = [visit EXCEPT ![v] = [pc |-> pc, html |-> visit[v].html,
                                    known |-> cache, page |-> visit[v].page]]
    BY <1>1, <1>2, <1>5 DEF GetCached
  <2>2. pc \in Places
    BY <1>3, <1>5
  <2> QED
    BY <1>1, <2>1, <2>2, Turning DEF TInv
<1>6. ASSUME NEW pc, pc = IF content_hash = NoHash THEN "compare" ELSE "fill"
      PROVE  SelectHash(v) => After(v, pc, visit[v].html, content_hash, visit[v].page)
  <2>1. SelectHash(v) => visit' = [visit EXCEPT ![v] = [pc |-> pc, html |-> visit[v].html,
                                     known |-> content_hash, page |-> visit[v].page]]
    BY <1>1, <1>2, <1>6 DEF SelectHash
  <2>2. pc \in Places
    BY <1>3, <1>6
  <2> QED
    BY <1>1, <2>1, <2>2, Turning DEF TInv
<1>7. Parse(v) => After(v, "clean", visit[v].html, visit[v].known, object[JobOf[v]])
  <2>1. Parse(v) => visit' = [visit EXCEPT ![v] = [pc |-> "clean", html |-> visit[v].html,
                                known |-> visit[v].known, page |-> object[JobOf[v]]]]
    BY <1>1, <1>2 DEF Parse
  <2> QED
    BY <1>1, <1>3, <2>1, Turning DEF TInv
<1>8. ReadRow(v) => After(v, "update", visit[v].html, content_hash, visit[v].page)
  <2>1. ReadRow(v) => visit' = [visit EXCEPT ![v] = [pc |-> "update", html |-> visit[v].html,
                                  known |-> content_hash, page |-> visit[v].page]]
    BY <1>1, <1>2 DEF ReadRow
  <2> QED
    BY <1>1, <1>3, <2>1, Turning DEF TInv
<1>9. \A pc \in Places :
        Move(v, pc) => After(v, pc, visit[v].html, visit[v].known, visit[v].page)
  BY Moving DEF TInv
<1>10. /\ FillCache(v) => Move(v, "compare")
       /\ SkipUnchanged(v) => Move(v, "unchanged")
       /\ Upload(v) => Move(v, "parse")
       /\ Update(v) => Move(v, "commit")
       /\ InsertFails(v) => Move(v, "failed")
       /\ CommitRows(v) => Move(v, "sethash")
       /\ SetHash(v) => Move(v, "indexed")
       /\ Fail(v) => Move(v, "failed")
  BY DEF FillCache, SkipUnchanged, Upload, Update, InsertFails, CommitRows, SetHash,
     Fail
<1> QED
  BY <1>3, <1>4, <1>5, <1>6, <1>7, <1>8, <1>9, <1>10
-----------------------------------------------------------------------------
\* Every step keeps the types.
LEMMA TypeStep ==
  ASSUME TInv, [ContentNext]_contentVars
  PROVE  TInv'
<1>1. ASSUME NEW v \in Visits, Fetch(v)
      PROVE  TInv'
  <2>1. ContentTypeOK'
    BY <1>1, Turns DEF Fetch, After, TInv, ContentTypeOK, Hashes, urlRows, history
  <2>2. ASSUME NEW w \in Visits
        PROVE  Holds(w)'
    <3>1. After(v, "cached", site, visit[v].known, visit[v].page)
      BY <1>1, Turns
    <3>2. visit[v].pc = "new" /\ site \in Contents /\ UNCHANGED <<content_hash, object>>
      BY <1>1 DEF Fetch, TInv, ContentTypeOK, urlRows
    <3> QED
      BY <2>2, <3>1, <3>2 DEF After, TInv, Holds, Uploaded, Parsed
  <2>3. cache' # NoHash => content_hash' # NoHash
    BY <1>1, NoHashAssumption DEF Fetch, TInv, ContentTypeOK, Hashes, Holds, urlRows
  <2> QED
    BY <2>1, <2>2, <2>3 DEF TInv
<1>2. ASSUME NEW v \in Visits, GetCached(v)
      PROVE  TInv'
  <2>1. PICK pc : pc = IF cache = NoHash THEN "select" ELSE "compare"
    OBVIOUS
  <2>2. After(v, pc, visit[v].html, cache, visit[v].page)
    BY <1>2, <2>1, Turns
  <2>3. visit[v].pc = "cached" /\ UNCHANGED <<site, cache, urlRows, object, history, changes, faults>>
    BY <1>2 DEF GetCached
  <2>4. pc \in {"select", "compare", "fill"} /\ (pc = "fill" => cache \in Contents)
    BY <2>1 DEF TInv, ContentTypeOK, Hashes
  <2>5. ContentTypeOK'
    BY <2>2, <2>3 DEF After, TInv, ContentTypeOK, urlRows, history
  <2>6. ASSUME NEW w \in Visits
        PROVE  Holds(w)'
    BY <2>2, <2>3, <2>4, <2>6 DEF After, TInv, Holds, Uploaded, Parsed, urlRows
  <2> QED
    BY <2>3, <2>5, <2>6 DEF TInv, urlRows
<1>3. ASSUME NEW v \in Visits, SelectHash(v)
      PROVE  TInv'
  <2>1. PICK pc : pc = IF content_hash = NoHash THEN "compare" ELSE "fill"
    OBVIOUS
  <2>2. After(v, pc, visit[v].html, content_hash, visit[v].page)
    BY <1>3, <2>1, Turns
  <2>3. visit[v].pc = "select" /\ UNCHANGED <<site, cache, urlRows, object, history, changes, faults>>
    BY <1>3 DEF SelectHash
  <2>4. pc \in {"select", "compare", "fill"} /\ (pc = "fill" => content_hash \in Contents)
    BY <2>1 DEF TInv, ContentTypeOK, Hashes
  <2>5. ContentTypeOK'
    BY <2>2, <2>3 DEF After, TInv, ContentTypeOK, urlRows, history
  <2>6. ASSUME NEW w \in Visits
        PROVE  Holds(w)'
    BY <2>2, <2>3, <2>4, <2>6 DEF After, TInv, Holds, Uploaded, Parsed, urlRows
  <2> QED
    BY <2>3, <2>5, <2>6 DEF TInv, urlRows
<1>4. ASSUME NEW v \in Visits, FillCache(v)
      PROVE  TInv'
  BY <1>4, Turns, JobOfAssumption, ContentBounds DEF FillCache, After, TInv,
     ContentTypeOK, Holds, Uploaded, Parsed, urlRows, history
<1>5. ASSUME NEW v \in Visits, SkipUnchanged(v)
      PROVE  TInv'
  BY <1>5, Turns, JobOfAssumption, ContentBounds DEF SkipUnchanged, After, TInv,
     ContentTypeOK, Holds, Uploaded, Parsed, urlRows, history
<1>6. ASSUME NEW v \in Visits, Upload(v)
      PROVE  TInv'
  <2>1. ContentTypeOK'
    BY <1>6, Turns DEF Upload, StorageKey, CacheAfterUpload, After, TInv,
       ContentTypeOK, Hashes, urlRows, history
  <2>2. ASSUME NEW w \in Visits
        PROVE  Holds(w)'
    BY <1>6, <2>2, Turns, JobOfAssumption DEF Upload, StorageKey, CacheAfterUpload,
       After, TInv, ContentTypeOK, Hashes, Holds, Uploaded, Parsed, urlRows
  <2>3. cache' # NoHash => content_hash' # NoHash
    BY <1>6, NoHashAssumption DEF Upload, StorageKey, CacheAfterUpload, TInv,
       ContentTypeOK, Hashes, Holds, urlRows
  <2> QED
    BY <2>1, <2>2, <2>3 DEF TInv
<1>7. ASSUME NEW v \in Visits, Parse(v)
      PROVE  TInv'
  <2>1. ContentTypeOK'
    BY <1>7, Turns DEF Parse, After, TInv, ContentTypeOK, Hashes, urlRows, history
  <2>2. ASSUME NEW w \in Visits
        PROVE  Holds(w)'
    <3>1. After(v, "clean", visit[v].html, visit[v].known, object[JobOf[v]])
      BY <1>7, Turns
    <3>2. visit[v].pc = "parse" /\ object[JobOf[v]] \in Contents /\ UNCHANGED <<content_hash, object>>
      BY <1>7 DEF Parse, TInv, Holds, Uploaded, urlRows
    <3> QED
      BY <2>2, <3>1, <3>2 DEF After, TInv, Holds, Uploaded, Parsed
  <2>3. cache' # NoHash => content_hash' # NoHash
    BY <1>7, NoHashAssumption DEF Parse, TInv, ContentTypeOK, Hashes, Holds, urlRows
  <2> QED
    BY <2>1, <2>2, <2>3 DEF TInv
<1>8. ASSUME NEW v \in Visits, ReadRow(v)
      PROVE  TInv'
  <2>1. ContentTypeOK'
    BY <1>8, Turns DEF ReadRow, After, TInv, ContentTypeOK, Hashes, urlRows, history
  <2>2. ASSUME NEW w \in Visits
        PROVE  Holds(w)'
    <3>1. After(v, "update", visit[v].html, content_hash, visit[v].page)
      BY <1>8, Turns
    <3>2. visit[v].pc = "clean" /\ UNCHANGED <<content_hash, object>>
      BY <1>8 DEF ReadRow, urlRows
    <3> QED
      BY <2>2, <3>1, <3>2 DEF After, TInv, Holds, Uploaded, Parsed
  <2>3. cache' # NoHash => content_hash' # NoHash
    BY <1>8, NoHashAssumption DEF ReadRow, TInv, ContentTypeOK, Hashes, Holds, urlRows
  <2> QED
    BY <2>1, <2>2, <2>3 DEF TInv
<1>9. ASSUME NEW v \in Visits, Update(v)
      PROVE  TInv'
  BY <1>9, Turns, JobOfAssumption, ContentBounds DEF Update, After, TInv,
     ContentTypeOK, Holds, Uploaded, Parsed, urlRows, history
<1>10. ASSUME NEW v \in Visits, InsertFails(v)
       PROVE  TInv'
  BY <1>10, Turns, JobOfAssumption, ContentBounds DEF InsertFails, After, TInv,
     ContentTypeOK, Holds, Uploaded, Parsed, urlRows, history
<1>11. ASSUME NEW v \in Visits, CommitRows(v)
       PROVE  TInv'
  <2>1. After(v, "sethash", visit[v].html, visit[v].known, visit[v].page)
    BY <1>11, Turns
  <2>2. visit[v].pc = "commit" /\ visit[v].html \in Contents /\ visit[v].page \in Contents
    BY <1>11 DEF CommitRows, TInv, Holds, Parsed
  <2>3. content_hash' \in Contents /\ artifact' \in Artifacts /\ text' \in Contents
    <3>1. visit[v].known = visit[v].html => content_hash \in Contents
      BY <2>2, NoHashAssumption DEF TInv, ContentTypeOK, Holds
    <3> QED
      BY <1>11, <2>2, <3>1, JobOfAssumption DEF CommitRows, NewHash, NewText, Artifacts
  <2>4. ContentTypeOK'
    BY <1>11, <2>1, <2>2, <2>3 DEF CommitRows, After, TInv, ContentTypeOK
  <2>5. ASSUME NEW w \in Visits
        PROVE  Holds(w)'
    BY <1>11, <2>1, <2>2, <2>3, NoHashAssumption DEF CommitRows, After, TInv, Holds,
       Uploaded, Parsed
  <2> QED
    BY <2>3, <2>4, <2>5, NoHashAssumption DEF TInv
<1>12. ASSUME NEW v \in Visits, SetHash(v)
       PROVE  TInv'
  <2>1. ContentTypeOK'
    BY <1>12, Turns DEF SetHash, CachedHash, After, TInv, ContentTypeOK, Hashes,
       urlRows, history
  <2>2. ASSUME NEW w \in Visits
        PROVE  Holds(w)'
    BY <1>12, <2>2, Turns, JobOfAssumption DEF SetHash, CachedHash, After, TInv,
       ContentTypeOK, Hashes, Holds, Uploaded, Parsed, urlRows
  <2>3. cache' # NoHash => content_hash' # NoHash
    BY <1>12, NoHashAssumption DEF SetHash, CachedHash, TInv, ContentTypeOK, Hashes,
       Holds, urlRows
  <2> QED
    BY <2>1, <2>2, <2>3 DEF TInv
<1>13. ASSUME NEW v \in Visits, Fail(v)
       PROVE  TInv'
  <2>1. ContentTypeOK'
    BY <1>13, Turns DEF Fail, UnderWay, Over, After, TInv, ContentTypeOK, Hashes,
       urlRows, history
  <2>2. ASSUME NEW w \in Visits
        PROVE  Holds(w)'
    BY <1>13, <2>2, Turns, JobOfAssumption DEF Fail, UnderWay, Over, After, TInv,
       ContentTypeOK, Hashes, Holds, Uploaded, Parsed, urlRows
  <2>3. cache' # NoHash => content_hash' # NoHash
    BY <1>13, NoHashAssumption DEF Fail, UnderWay, Over, TInv, ContentTypeOK, Hashes,
       Holds, urlRows
  <2> QED
    BY <2>1, <2>2, <2>3 DEF TInv
<1>14. ASSUME NEW x \in Contents, Change(x)
       PROVE  TInv'
  BY <1>14 DEF Change, After, TInv, ContentTypeOK, Holds, Uploaded, Parsed, urlRows,
     history
<1>15. CASE ExpireHash
  BY <1>15 DEF ExpireHash, TInv, ContentTypeOK, Hashes, Holds, Uploaded, Parsed,
     urlRows, history
<1>16. CASE UNCHANGED contentVars
  BY <1>16 DEF contentVars, After, TInv, ContentTypeOK, Holds, Uploaded, Parsed,
     urlRows, history
<1> QED
  BY <1>1, <1>2, <1>3, <1>4, <1>5, <1>6, <1>7, <1>8, <1>9, <1>10, <1>11, <1>12, <1>13,
     <1>14, <1>15, <1>16 DEF ContentNext, VisitStep

\* Hashes that are passed on have been committed.
LEMMA KeptStep ==
  ASSUME TInv, KeptInv, [ContentNext]_contentVars
  PROVE  KeptInv'
<1>1. ASSUME NEW v \in Visits, Fetch(v)
      PROVE  KeptInv'
  <2>1. After(v, "cached", site, visit[v].known, visit[v].page)
    BY <1>1, Turns
  <2> QED
    BY <1>1, <2>1 DEF Fetch, After, KeptInv, KeptHashes, urlRows, history
<1>2. ASSUME NEW v \in Visits, GetCached(v)
      PROVE  KeptInv'
  <2>1. /\ visit'[v].pc \in {"select", "compare"} /\ visit'[v].known = cache
        /\ \A w \in Visits \ {v} : visit'[w] = visit[w]
    BY <1>2, Turns DEF After
  <2>2. UNCHANGED <<cache, content_hash, kept>>
    BY <1>2 DEF GetCached, urlRows, history
  <2> QED
    BY <2>1, <2>2 DEF KeptInv, KeptHashes
<1>3. ASSUME NEW v \in Visits, SelectHash(v)
      PROVE  KeptInv'
  <2>1. /\ visit'[v].pc \in {"compare", "fill"} /\ visit'[v].known = content_hash
        /\ \A w \in Visits \ {v} : visit'[w] = visit[w]
    BY <1>3, Turns DEF After
  <2>2. UNCHANGED <<cache, content_hash, kept>>
    BY <1>3 DEF SelectHash, urlRows, history
  <2> QED
    BY <2>1, <2>2 DEF KeptInv, KeptHashes
<1>4. ASSUME NEW v \in Visits, FillCache(v)
      PROVE  KeptInv'
  <2>1. After(v, "compare", visit[v].html, visit[v].known, visit[v].page)
    BY <1>4, Turns
  <2> QED
    BY <1>4, <2>1 DEF FillCache, After, KeptInv, KeptHashes, urlRows, history
<1>5. ASSUME NEW v \in Visits, SkipUnchanged(v)
      PROVE  KeptInv'
  <2>1. After(v, "unchanged", visit[v].html, visit[v].known, visit[v].page)
    BY <1>5, Turns
  <2>2. visit[v].html \in Contents /\ visit[v].html = visit[v].known
    BY <1>5 DEF SkipUnchanged, TInv, Holds
  <2>3. visit[v].html \in kept
    BY <2>2, NoHashAssumption DEF KeptInv, KeptHashes
  <2> QED
    BY <1>5, <2>1, <2>3 DEF SkipUnchanged, After, KeptInv, KeptHashes, urlRows, history
<1>6. ASSUME NEW v \in Visits, Upload(v)
      PROVE  KeptInv'
  <2>1. After(v, "parse", visit[v].html, visit[v].known, visit[v].page)
    BY <1>6, Turns
  <2> QED
    BY <1>6, <2>1 DEF Upload, After, KeptInv, KeptHashes, urlRows, history, CacheAfterUpload
<1>7. ASSUME NEW v \in Visits, Parse(v)
      PROVE  KeptInv'
  <2>1. After(v, "clean", visit[v].html, visit[v].known, object[JobOf[v]])
    BY <1>7, Turns
  <2> QED
    BY <1>7, <2>1 DEF Parse, After, KeptInv, KeptHashes, urlRows, history
<1>8. ASSUME NEW v \in Visits, ReadRow(v)
      PROVE  KeptInv'
  <2>1. After(v, "update", visit[v].html, content_hash, visit[v].page)
    BY <1>8, Turns
  <2> QED
    BY <1>8, <2>1 DEF ReadRow, After, KeptInv, KeptHashes, urlRows, history
<1>9. ASSUME NEW v \in Visits, Update(v)
      PROVE  KeptInv'
  BY <1>9, Turns DEF Update, After, KeptInv, KeptHashes, urlRows, history
<1>10. ASSUME NEW v \in Visits, InsertFails(v)
       PROVE  KeptInv'
  BY <1>10, Turns DEF InsertFails, After, KeptInv, KeptHashes, urlRows, history
<1>11. ASSUME NEW v \in Visits, CommitRows(v)
       PROVE  KeptInv'
  BY <1>11, Turns DEF CommitRows, After, KeptInv, KeptHashes, urlRows, history, NewHash
<1>12. ASSUME NEW v \in Visits, SetHash(v)
       PROVE  KeptInv'
  BY <1>12, Turns DEF SetHash, After, KeptInv, KeptHashes, urlRows, history, CachedHash
<1>13. ASSUME NEW v \in Visits, Fail(v)
       PROVE  KeptInv'
  BY <1>13, Turns DEF Fail, After, KeptInv, KeptHashes, urlRows, history
<1>14. ASSUME NEW x \in Contents, Change(x)
       PROVE  KeptInv'
  BY <1>14 DEF Change, After, KeptInv, KeptHashes, urlRows, history
<1>15. CASE ExpireHash
  BY <1>15 DEF ExpireHash, After, KeptInv, KeptHashes, urlRows, history
<1>16. CASE UNCHANGED contentVars
  BY <1>16 DEF contentVars, After, KeptInv, KeptHashes, urlRows, history
<1> QED
  BY <1>1, <1>2, <1>3, <1>4, <1>5, <1>6, <1>7, <1>8, <1>9, <1>10, <1>11, <1>12, <1>13,
     <1>14, <1>15, <1>16 DEF ContentNext, VisitStep

\* While cleaners have not crossed, the one at work knows the row.
LEMMA RowsStep ==
  ASSUME TInv, RowsInv, [ContentNext]_contentVars
  PROVE  RowsInv'
<1>1. ASSUME NEW v \in Visits, Fetch(v)
      PROVE  RowsInv'
  <2>1. After(v, "cached", site, visit[v].known, visit[v].page)
    BY <1>1, Turns
  <2>2. UNCHANGED <<content_hash, artifact, crossed>>
    BY <1>1 DEF Fetch, urlRows, history
  <2> QED
    BY <2>1, <2>2 DEF After, RowsInv, Cleaning
<1>2. ASSUME NEW v \in Visits, GetCached(v)
      PROVE  RowsInv'
  <2>1. /\ visit'[v].pc \in {"select", "compare"}
        /\ \A w \in Visits \ {v} : visit'[w] = visit[w]
    BY <1>2, Turns DEF After
  <2>2. UNCHANGED <<content_hash, artifact, crossed>>
    BY <1>2 DEF GetCached, urlRows, history
  <2> QED
    BY <2>1, <2>2 DEF RowsInv, Cleaning
<1>3. ASSUME NEW v \in Visits, SelectHash(v)
      PROVE  RowsInv'
  <2>1. /\ visit'[v].pc \in {"compare", "fill"}
        /\ \A w \in Visits \ {v} : visit'[w] = visit[w]
    BY <1>3, Turns DEF After
  <2>2. UNCHANGED <<content_hash, artifact, crossed>>
    BY <1>3 DEF SelectHash, urlRows, history
  <2> QED
    BY <2>1, <2>2 DEF RowsInv, Cleaning
<1>4. ASSUME NEW v \in Visits, FillCache(v)
      PROVE  RowsInv'
  BY <1>4, Turns DEF FillCache, After, RowsInv, Cleaning, urlRows, history
<1>5. ASSUME NEW v \in Visits, SkipUnchanged(v)
      PROVE  RowsInv'
  BY <1>5, Turns DEF SkipUnchanged, After, RowsInv, Cleaning, urlRows, history
<1>6. ASSUME NEW v \in Visits, Upload(v)
      PROVE  RowsInv'
  BY <1>6, Turns DEF Upload, After, RowsInv, Cleaning, urlRows, history
<1>7. ASSUME NEW v \in Visits, Parse(v)
      PROVE  RowsInv'
  <2>1. After(v, "clean", visit[v].html, visit[v].known, object[JobOf[v]])
    BY <1>7, Turns
  <2>2. UNCHANGED <<content_hash, artifact, crossed>>
    BY <1>7 DEF Parse, urlRows, history
  <2> QED
    BY <2>1, <2>2 DEF After, RowsInv, Cleaning
<1>8. ASSUME NEW v \in Visits, ReadRow(v)
      PROVE  RowsInv'
  <2>1. After(v, "update", visit[v].html, content_hash, visit[v].page)
    BY <1>8, Turns
  <2>2. UNCHANGED <<content_hash, artifact>>
    BY <1>8 DEF ReadRow, urlRows
  <2>3. ASSUME ~crossed'
        PROVE  ~crossed /\ \A w \in Visits : ~Cleaning(w)
    BY <1>8, <2>3 DEF ReadRow, Cleaning
  <2> QED
    BY <2>1, <2>2, <2>3 DEF After, RowsInv, Cleaning
<1>9. ASSUME NEW v \in Visits, Update(v)
      PROVE  RowsInv'
  BY <1>9, Turns DEF Update, After, RowsInv, Cleaning, urlRows, history
<1>10. ASSUME NEW v \in Visits, InsertFails(v)
       PROVE  RowsInv'
  BY <1>10, Turns DEF InsertFails, After, RowsInv, Cleaning, urlRows, history
<1>11. ASSUME NEW v \in Visits, CommitRows(v)
       PROVE  RowsInv'
  BY <1>11, Turns DEF CommitRows, After, RowsInv, Cleaning, urlRows, history, NewHash
<1>12. ASSUME NEW v \in Visits, SetHash(v)
       PROVE  RowsInv'
  BY <1>12, Turns DEF SetHash, After, RowsInv, Cleaning, urlRows, history
<1>13. ASSUME NEW v \in Visits, Fail(v)
       PROVE  RowsInv'
  BY <1>13, Turns DEF Fail, After, RowsInv, Cleaning, urlRows, history
<1>14. ASSUME NEW x \in Contents, Change(x)
       PROVE  RowsInv'
  BY <1>14 DEF Change, After, RowsInv, Cleaning, urlRows, history
<1>15. CASE ExpireHash
  BY <1>15 DEF ExpireHash, After, RowsInv, Cleaning, urlRows, history
<1>16. CASE UNCHANGED contentVars
  BY <1>16 DEF contentVars, After, RowsInv, Cleaning, urlRows, history
<1> QED
  BY <1>1, <1>2, <1>3, <1>4, <1>5, <1>6, <1>7, <1>8, <1>9, <1>10, <1>11, <1>12, <1>13,
     <1>14, <1>15, <1>16 DEF ContentNext, VisitStep

\* While no object has been overwritten, what is parsed is what was fetched.
LEMMA TextStep ==
  ASSUME TInv, TextInv, [ContentNext]_contentVars
  PROVE  TextInv'
<1>1. ASSUME NEW v \in Visits, Fetch(v)
      PROVE  TextInv'
  BY <1>1, Turns, JobOfAssumption DEF Fetch, After, TextInv, Parsed, urlRows, history
<1>2. ASSUME NEW v \in Visits, GetCached(v)
      PROVE  TextInv'
  <2>1. /\ visit'[v].pc \in {"select", "compare"}
        /\ \A w \in Visits \ {v} : visit'[w] = visit[w]
    BY <1>2, Turns DEF After
  <2>2. UNCHANGED <<content_hash, artifact, text, object, overwritten>>
    BY <1>2 DEF GetCached, urlRows, history
  <2> QED
    BY <2>1, <2>2 DEF TextInv, Parsed
<1>3. ASSUME NEW v \in Visits, SelectHash(v)
      PROVE  TextInv'
  <2>1. /\ visit'[v].pc \in {"compare", "fill"}
        /\ \A w \in Visits \ {v} : visit'[w] = visit[w]
    BY <1>3, Turns DEF After
  <2>2. UNCHANGED <<content_hash, artifact, text, object, overwritten>>
    BY <1>3 DEF SelectHash, urlRows, history
  <2> QED
    BY <2>1, <2>2 DEF TextInv, Parsed
<1>4. ASSUME NEW v \in Visits, FillCache(v)
      PROVE  TextInv'
  BY <1>4, Turns, JobOfAssumption DEF FillCache, After, TextInv, Parsed, urlRows,
     history
<1>5. ASSUME NEW v \in Visits, SkipUnchanged(v)
      PROVE  TextInv'
  BY <1>5, Turns, JobOfAssumption DEF SkipUnchanged, After, TextInv, Parsed, urlRows,
     history
<1>6. ASSUME NEW v \in Visits, Upload(v)
      PROVE  TextInv'
  <2>1. After(v, "parse", visit[v].html, visit[v].known, visit[v].page)
    BY <1>6, Turns
  <2>2. UNCHANGED <<content_hash, artifact, text>>
    BY <1>6 DEF Upload, urlRows
  <2>3. \A j \in Jobs : object'[j] = IF j = JobOf[v] THEN visit[v].html ELSE object[j]
    BY <1>6, Zenon DEF Upload, StorageKey
  <2>4. ASSUME ~overwritten'
        PROVE  ~overwritten /\ \A w \in Visits \ {v} : visit[w].pc = "parse" => JobOf[w] # JobOf[v]
    BY <1>6, <2>4 DEF Upload
  <2> QED
    BY <2>1, <2>2, <2>3, <2>4, JobOfAssumption DEF After, TextInv, Parsed
<1>7. ASSUME NEW v \in Visits, Parse(v)
      PROVE  TextInv'
  <2>1. After(v, "clean", visit[v].html, visit[v].known, object[JobOf[v]])
    BY <1>7, Turns
  <2>2. visit[v].pc = "parse" /\ UNCHANGED <<content_hash, artifact, text, object, overwritten>>
    BY <1>7 DEF Parse, urlRows, history
  <2> QED
    BY <2>1, <2>2 DEF After, TextInv, Parsed
<1>8. ASSUME NEW v \in Visits, ReadRow(v)
      PROVE  TextInv'
  <2>1. After(v, "update", visit[v].html, content_hash, visit[v].page)
    BY <1>8, Turns
  <2>2. visit[v].pc = "clean" /\ UNCHANGED <<content_hash, artifact, text, object, overwritten>>
    BY <1>8 DEF ReadRow, urlRows
  <2> QED
    BY <2>1, <2>2 DEF After, TextInv, Parsed
<1>9. ASSUME NEW v \in Visits, Update(v)
      PROVE  TextInv'
  BY <1>9, Turns, JobOfAssumption DEF Update, After, TextInv, Parsed, urlRows, history
<1>10. ASSUME NEW v \in Visits, InsertFails(v)
       PROVE  TextInv'
  BY <1>10, Turns, JobOfAssumption DEF InsertFails, After, TextInv, Parsed, urlRows,
     history
<1>11. ASSUME NEW v \in Visits, CommitRows(v)
       PROVE  TextInv'
  BY <1>11, Turns, JobOfAssumption DEF CommitRows, After, TextInv, Parsed, urlRows,
     history, NewText
<1>12. ASSUME NEW v \in Visits, SetHash(v)
       PROVE  TextInv'
  BY <1>12, Turns, JobOfAssumption DEF SetHash, After, TextInv, Parsed, urlRows, history
<1>13. ASSUME NEW v \in Visits, Fail(v)
       PROVE  TextInv'
  BY <1>13, Turns, JobOfAssumption DEF Fail, After, TextInv, Parsed, urlRows, history
<1>14. ASSUME NEW x \in Contents, Change(x)
       PROVE  TextInv'
  BY <1>14 DEF Change, After, TextInv, Parsed, urlRows, history
<1>15. CASE ExpireHash
  BY <1>15 DEF ExpireHash, After, TextInv, Parsed, urlRows, history
<1>16. CASE UNCHANGED contentVars
  BY <1>16 DEF contentVars, After, TextInv, Parsed, urlRows, history
<1> QED
  BY <1>1, <1>2, <1>3, <1>4, <1>5, <1>6, <1>7, <1>8, <1>9, <1>10, <1>11, <1>12, <1>13,
     <1>14, <1>15, <1>16 DEF ContentNext, VisitStep

\* A visit alone moves all copies of the hash together.
LEMMA SettledStep ==
  ASSUME TInv, RowsInv, SettledInv, [ContentNext]_contentVars
  PROVE  SettledInv'
<1> SUFFICES ASSUME ~crossed' PROVE Quiet' /\ Alone'
  BY DEF SettledInv
<1>0. ~crossed /\ Quiet /\ Alone
  <2>1. crossed => crossed'
    BY DEF ContentNext, VisitStep, Fetch, GetCached, SelectHash, FillCache,
       SkipUnchanged,
           Upload, Parse, ReadRow, Update, InsertFails, CommitRows, SetHash, Fail, Change,
           ExpireHash, contentVars, history
  <2> QED
    BY <2>1 DEF SettledInv
<1>1. ASSUME NEW v \in Visits, Fetch(v)
      PROVE  Quiet' /\ Alone'
  <2>1. After(v, "cached", site, visit[v].known, visit[v].page)
    BY <1>0, <1>1, Turns
  <2>2. /\ visit[v].pc = "new" /\ latest' = v
        /\ alone' <=> AtRest /\ ~disturbed
        /\ disturbed' <=> disturbed \/ ~AtRest
        /\ UNCHANGED <<content_hash, artifact, cache, object>>
    BY <1>0, <1>1 DEF Fetch, urlRows
  <2>3. AtRest /\ ~disturbed => /\ \A w \in Visits : ~UnderWay(w)
                                /\ Current(cache)
    BY <1>0, <1>0 DEF AtRest, UnderWay, Over, Quiet
  <2>4. ASSUME NEW w \in Visits, AtRest, ~disturbed, UnderWay(w)'
        PROVE  w = v
    BY <2>1, <2>3, <2>4 DEF After, UnderWay
  <2>8. Quiet'
    BY <2>1, <2>2, <2>3, <2>4 DEF After, Quiet, Current, UnderWay, Over
  <2>9. Alone'
    BY <2>1, <2>2, <2>3, <2>4 DEF After, Alone, Uploaded
  <2> QED
    BY <2>8, <2>9
<1>2. ASSUME NEW v \in Visits, GetCached(v)
      PROVE  Quiet' /\ Alone'
  <2>0. PICK pc : pc = IF cache = NoHash THEN "select" ELSE "compare"
    OBVIOUS
  <2>1. After(v, pc, visit[v].html, cache, visit[v].page) /\ pc \in {"select", "compare", "fill"}
    BY <1>0, <1>2, <2>0, Turns
  <2>2. pc # "fill"
    BY <2>0
  <2>8. Quiet'
    BY <1>0, <1>2, <2>1, <2>2 DEF GetCached, After, Quiet, Alone, Current, UnderWay,
       Over, urlRows, history
  <2>9. Alone'
    BY <1>0, <1>2, <2>1, <2>2 DEF GetCached, After, Quiet, Alone, Current, UnderWay,
       Over, Uploaded, urlRows, history
  <2> QED
    BY <2>8, <2>9
<1>3. ASSUME NEW v \in Visits, SelectHash(v)
      PROVE  Quiet' /\ Alone'
  <2>0. PICK pc : pc = IF content_hash = NoHash THEN "compare" ELSE "fill"
    OBVIOUS
  <2>1. After(v, pc, visit[v].html, content_hash, visit[v].page) /\ pc \in {"select", "compare", "fill"}
    BY <1>0, <1>3, <2>0, Turns
  <2>8. Quiet'
    BY <1>0, <1>3, <2>1 DEF SelectHash, After, Quiet, Alone, Current, UnderWay,
       Over, urlRows, history
  <2>9. Alone'
    BY <1>0, <1>3, <2>1 DEF SelectHash, After, Quiet, Alone, Current, UnderWay,
       Over, Uploaded, urlRows, history
  <2> QED
    BY <2>8, <2>9
<1>4. ASSUME NEW v \in Visits, FillCache(v)
      PROVE  Quiet' /\ Alone'
  <2>1. After(v, "compare", visit[v].html, visit[v].known, visit[v].page)
    BY <1>0, <1>4, Turns
  <2>8. Quiet'
    BY <1>0, <1>4, <2>1 DEF FillCache, After, Quiet, Alone, Current, UnderWay, Over,
       urlRows, history
  <2>9. Alone'
    BY <1>0, <1>4, <2>1 DEF FillCache, After, Quiet, Alone, Current, UnderWay, Over,
       Uploaded, urlRows, history
  <2> QED
    BY <2>8, <2>9
<1>5. ASSUME NEW v \in Visits, SkipUnchanged(v)
      PROVE  Quiet' /\ Alone'
  <2>1. After(v, "unchanged", visit[v].html, visit[v].known, visit[v].page)
    BY <1>0, <1>5, Turns
  <2>2. alone /\ v = latest => visit[v].html = content_hash
    BY <1>0, <1>5, NoHashAssumption DEF SkipUnchanged, TInv, Holds, Quiet, Alone,
       Current
  <2>8. Quiet'
    BY <1>0, <1>5, <2>1 DEF SkipUnchanged, After, Quiet, Alone, Current, UnderWay,
       Over, urlRows, history
  <2>9. Alone'
    BY <1>0, <1>5, <2>1, <2>2 DEF SkipUnchanged, After, Quiet, Alone, Current,
       UnderWay, Over, Uploaded, urlRows, history
  <2> QED
    BY <2>8, <2>9
<1>6. ASSUME NEW v \in Visits, Upload(v)
      PROVE  Quiet' /\ Alone'
  <2>1. After(v, "parse", visit[v].html, visit[v].known, visit[v].page)
    BY <1>0, <1>6, Turns
  <2>2. \A j \in Jobs : object'[j] = IF j = JobOf[v] THEN visit[v].html ELSE object[j]
    BY <1>0, <1>6, Zenon DEF Upload, StorageKey
  <2>3. ASSUME alone
        PROVE  v = latest
    BY <1>0, <1>6, <2>3 DEF Upload, Alone, UnderWay, Over
  <2>8. Quiet'
    BY <1>0, <1>6, <2>1 DEF Upload, After, Quiet, Alone, Current, UnderWay, Over,
       urlRows, history, CacheAfterUpload
  <2>9. Alone'
    BY <1>0, <1>6, <2>1, <2>2, <2>3, JobOfAssumption DEF Upload, After, Quiet, Alone,
       Current, UnderWay, Over, Uploaded, urlRows, history
  <2> QED
    BY <2>8, <2>9
<1>7. ASSUME NEW v \in Visits, Parse(v)
      PROVE  Quiet' /\ Alone'
  <2>1. After(v, "clean", visit[v].html, visit[v].known, object[JobOf[v]])
    BY <1>0, <1>7, Turns
  <2>8. Quiet'
    BY <1>0, <1>7, <2>1 DEF Parse, After, Quiet, Alone, Current, UnderWay, Over,
       urlRows, history
  <2>9. Alone'
    BY <1>0, <1>7, <2>1 DEF Parse, After, Quiet, Alone, Current, UnderWay, Over,
       Uploaded, urlRows, history
  <2> QED
    BY <2>8, <2>9
<1>8. ASSUME NEW v \in Visits, ReadRow(v)
      PROVE  Quiet' /\ Alone'
  <2>1. After(v, "update", visit[v].html, content_hash, visit[v].page)
    BY <1>0, <1>8, Turns
  <2>8. Quiet'
    BY <1>0, <1>8, <2>1 DEF ReadRow, After, Quiet, Alone, Current, UnderWay, Over,
       urlRows, history
  <2>9. Alone'
    BY <1>0, <1>8, <2>1 DEF ReadRow, After, Quiet, Alone, Current, UnderWay, Over,
       Uploaded, urlRows, history
  <2> QED
    BY <2>8, <2>9
<1>9. ASSUME NEW v \in Visits, Update(v)
      PROVE  Quiet' /\ Alone'
  <2>1. After(v, "commit", visit[v].html, visit[v].known, visit[v].page)
    BY <1>0, <1>9, Turns
  <2>8. Quiet'
    BY <1>0, <1>9, <2>1 DEF Update, After, Quiet, Alone, Current, UnderWay, Over,
       urlRows, history
  <2>9. Alone'
    BY <1>0, <1>9, <2>1 DEF Update, After, Quiet, Alone, Current, UnderWay, Over,
       Uploaded, urlRows, history
  <2> QED
    BY <2>8, <2>9
<1>10. ASSUME NEW v \in Visits, InsertFails(v)
       PROVE  Quiet' /\ Alone'
  <2>1. After(v, "failed", visit[v].html, visit[v].known, visit[v].page)
    BY <1>0, <1>10, Turns
  <2>8. Quiet'
    BY <1>0, <1>10, <2>1 DEF InsertFails, After, Quiet, Alone, Current, UnderWay,
       Over, urlRows, history
  <2>9. Alone'
    BY <1>0, <1>10, <2>1 DEF InsertFails, After, Quiet, Alone, Current, UnderWay,
       Over, Uploaded, urlRows, history
  <2> QED
    BY <2>8, <2>9
<1>11. ASSUME NEW v \in Visits, CommitRows(v)
       PROVE  Quiet' /\ Alone'
  <2>1. After(v, "sethash", visit[v].html, visit[v].known, visit[v].page)
    BY <1>0, <1>11, Turns
  <2>2. content_hash' = visit[v].html
    BY <1>0, <1>11 DEF CommitRows, NewHash, RowsInv, Cleaning
  <2>3. artifact'.job = JobOf[v]
    BY <1>0, <1>11 DEF CommitRows
  <2>8. Quiet'
    BY <1>0, <1>11, <2>1 DEF CommitRows, After, Quiet, Alone, Current, UnderWay, Over,
       urlRows, history, NewHash
  <2>9. Alone'
    BY <1>0, <1>11, <2>1, <2>2, <2>3 DEF CommitRows, After, Quiet, Alone, Current,
       UnderWay, Over, Uploaded, urlRows, history, NewHash
  <2> QED
    BY <2>8, <2>9
<1>12. ASSUME NEW v \in Visits, SetHash(v)
       PROVE  Quiet' /\ Alone'
  <2>1. After(v, "indexed", visit[v].html, visit[v].known, visit[v].page)
    BY <1>0, <1>12, Turns
  <2>8. Quiet'
    BY <1>0, <1>12, <2>1 DEF SetHash, After, Quiet, Alone, Current, UnderWay, Over,
       urlRows, history, CachedHash
  <2>9. Alone'
    BY <1>0, <1>12, <2>1 DEF SetHash, After, Quiet, Alone, Current, UnderWay, Over,
       Uploaded, urlRows, history
  <2> QED
    BY <2>8, <2>9
<1>13. ASSUME NEW v \in Visits, Fail(v)
       PROVE  Quiet' /\ Alone'
  <2>1. After(v, "failed", visit[v].html, visit[v].known, visit[v].page)
    BY <1>0, <1>13, Turns
  <2>8. Quiet'
    BY <1>0, <1>13, <2>1 DEF Fail, After, Quiet, Alone, Current, UnderWay, Over,
       urlRows, history
  <2>9. Alone'
    BY <1>0, <1>13, <2>1 DEF Fail, After, Quiet, Alone, Current, UnderWay, Over,
       Uploaded, urlRows, history
  <2> QED
    BY <2>8, <2>9
<1>14. ASSUME NEW x \in Contents, Change(x)
       PROVE  Quiet' /\ Alone'
  BY <1>0, <1>14 DEF Change, Quiet, Alone, Current, UnderWay, Uploaded, urlRows, history
<1>15. CASE ExpireHash
  <2>1. UNCHANGED <<urlRows, object, visit, latest, alone>> /\ cache' = NoHash
    BY <1>15 DEF ExpireHash
  <2>2. disturbed' <=> disturbed /\ ~AtRest
    BY <1>15 DEF ExpireHash
  <2>3. AtRest => \A v \in Visits : visit[v].pc \notin {"fill", "compare"} /\ ~UnderWay(v)
    BY DEF AtRest, UnderWay, Over
  <2>8. Quiet'
    BY <1>0, <2>1, <2>2, <2>3 DEF Quiet, Current, UnderWay, urlRows
  <2>9. Alone'
    BY <1>0, <2>1, <2>2 DEF Alone, UnderWay, Uploaded, urlRows
  <2> QED
    BY <2>8, <2>9
<1>16. CASE UNCHANGED contentVars
  BY <1>0, <1>16 DEF contentVars, Quiet, Alone, Current, UnderWay, Uploaded, urlRows,
     history
<1> QED
  BY <1>1, <1>2, <1>3, <1>4, <1>5, <1>6, <1>7, <1>8, <1>9, <1>10, <1>11, <1>12, <1>13,
     <1>14, <1>15, <1>16 DEF ContentNext, VisitStep

\* Initially nothing is stored and no visit has begun.
LEMMA InvInit == ContentInit => IInv
<1> SUFFICES ASSUME ContentInit PROVE IInv
  OBVIOUS
<1>1. \A v \in Visits : visit[v] = Waiting
  BY DEF ContentInit
<1>2. TInv
  BY <1>1 DEF ContentInit, TInv, ContentTypeOK, Holds, Uploaded, Parsed, Waiting,
              Hashes, Places, Over
<1>3. KeptInv /\ RowsInv /\ TextInv /\ SettledInv
  BY <1>1 DEF ContentInit, KeptInv, KeptHashes, RowsInv, Cleaning, TextInv, Parsed,
              SettledInv, Quiet, Alone, Current, Waiting, UnderWay, Over
<1> QED
  BY <1>2, <1>3 DEF IInv

\* Every step keeps the invariant.
LEMMA InvStep == IInv /\ [ContentNext]_contentVars => IInv'
  BY TypeStep, KeptStep, RowsStep, TextStep, SettledStep DEF IInv

\* Every behaviour has the invariant.
LEMMA Invariance == ContentSpec => []IInv
  BY InvInit, InvStep, PTL DEF ContentSpec
-----------------------------------------------------------------------------
\* The rows of a URL are there together or not at all, whatever the number of
\* jobs and visits and wherever they fail.
THEOREM ContentTypeCorrect == ContentSpec => []ContentTypeOK
<1>1. IInv => ContentTypeOK
  BY DEF IInv, TInv
<1> QED
  BY <1>1, Invariance, PTL

\* _upsert_url and _upsert_artifact leave the same checksum in both rows for
\* any interleaving of cleaners that do not cross.
THEOREM HashRowsAgree == ContentSpec => []RowsAgree
<1>1. IInv => RowsAgree
  BY DEF IInv, RowsInv, RowsAgree
<1> QED
  BY <1>1, Invariance, PTL

\* storage_key keeps the objects of jobs apart, so the page row is extracted
\* from the HTML its artifact's checksum belongs to.
THEOREM TextMatchesChecksum == ContentSpec => []TextHasChecksum
<1>1. IInv => TextHasChecksum
  BY DEF IInv, TextInv, TextHasChecksum
<1> QED
  BY <1>1, Invariance, PTL

\* get_hash never answers with a hash that was not committed, through expiries
\* of the cache and failures anywhere: what is skipped has been kept.
THEOREM SkippedContentKept == ContentSpec => []SkippedWasKept
<1>1. IInv => SkippedWasKept
  BY DEF IInv, KeptInv, SkippedWasKept
<1> QED
  BY <1>1, Invariance, PTL

\* A visit alone leaves rows, cache and object in agreement.
THEOREM VisitsSettle == ContentSpec => []VisitSettles
<1>1. IInv => VisitSettles
  <2> SUFFICES ASSUME IInv, AtRest, alone, ~crossed, ~overwritten, visit[latest].pc # "failed"
               PROVE  LET html == visit[latest].html IN
                      /\ content_hash = html /\ artifact.checksum = html /\ text = html
                      /\ cache \in {NoHash, html}
                      /\ visit[latest].pc = "indexed" => /\ artifact.job = JobOf[latest]
                                                        /\ object[artifact.job] = html
    BY DEF VisitSettles
  <2>1. Quiet /\ Alone
    BY DEF IInv, SettledInv
  <2>2. latest \in Visits /\ visit[latest].pc \in {"unchanged", "indexed"} /\ ~disturbed
    BY <2>1 DEF Alone, AtRest, UnderWay, Over
  <2>3. content_hash = visit[latest].html /\ content_hash \in Contents
    BY <2>1, <2>2 DEF Alone, IInv, TInv, Holds
  <2>4. artifact.checksum = content_hash /\ text = content_hash
    BY <2>3, NoHashAssumption DEF IInv, RowsInv, TextInv
  <2>5. cache \in {NoHash, content_hash}
    BY <2>1, <2>2 DEF Quiet, Current, AtRest, UnderWay, Over
  <2>6. visit[latest].pc = "indexed" =>
          artifact.job = JobOf[latest] /\ object[JobOf[latest]] = visit[latest].html
    BY <2>1 DEF Alone, Uploaded
  <2> QED
    BY <2>3, <2>4, <2>5, <2>6
<1> QED
  BY <1>1, Invariance, PTL
=============================================================================
