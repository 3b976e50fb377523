------------------------------ MODULE Cleaner ------------------------------
(***************************************************************************)
(* CleanerWorker: claims a PageParsed, upserts url, artifact and page,     *)
(* marks the row parsed and refreshes the job's status in one transaction, *)
(* then caches the content hash.                                           *)
(***************************************************************************)
EXTENDS ArgusState

Claim(w, m) ==
  /\ IsIdle(w)
  /\ m \in topic["parsed"]
  /\ Claimable(m, "cleaner")
  /\ Take(w, "parsed", m, "upsert")
  /\ ledger' = ledger \cup {<<IdOf(m), "cleaner">>}
  /\ UNCHANGED <<minted, row, job, indexed, stored, redis, submit, world>>

\* refresh_job_status under READ COMMITTED: the count sees the transaction's
\* own flushed row as parsed and of the other rows what is committed by now.
AllTerminal(m) ==
  \A u \in Urls \ {m.url} : row[<<m.job, u>>] \in Terminal \cup {"none"}

\* The upserts and the row's UPDATE are flushed, taking their locks, before
\* the job and the counts are read.
Flush(w) ==
  LET m == task[w].msg IN
  /\ At(w, "upsert")
  /\ ~UrlLocked(m.url)
  /\ Goto(w, IF job[m.job] = "running" /\ AllTerminal(m) THEN "complete" ELSE "commit")
  /\ UNCHANGED <<kafka, postgres, stored, redis, submit, world>>

\* The commit makes the upserts, the row and the job's status visible.  The
\* urls row is inserted with the depth of the event and never changes it.
CommitUpserts(w) ==
  LET m == task[w].msg IN
  /\ task[w].pc \in {"commit", "complete"}
  /\ indexed' = [indexed EXCEPT ![m.url] = IF @ = -1 THEN m.depth ELSE @]
  /\ row' = [row EXCEPT ![<<m.job, m.url>>] = "parsed"]
  /\ job' = IF At(w, "complete") THEN [job EXCEPT ![m.job] = "completed"] ELSE job
  /\ Goto(w, "sethash")
  /\ UNCHANGED <<kafka, ledger, stored, redis, submit, world>>

\* ContentHashStore.set_hash writes a cache of the urls table.
SetHash(w) ==
  /\ At(w, "sethash")
  /\ Goto(w, "ack")
  /\ UNCHANGED <<kafka, postgres, stored, redis, submit, world>>

Fail(w) ==
  /\ Mark(task[w].msg, "failed")
  /\ Goto(w, "report")
  /\ UNCHANGED <<kafka, ledger, job, indexed, stored, redis, submit>>

\* A statement of the transaction fails: two cleaners insert the same url, a
\* value does not fit its column.
UpsertFails(w) == At(w, "upsert") /\ Error /\ Fail(w)
\* Redis fails after the commit, in the same try block.
SetHashFails(w) == At(w, "sethash") /\ Fault /\ Fail(w)

ReportFailure(w) ==
  /\ At(w, "report")
  /\ Report(task[w].msg, "cleaner", FALSE)
  /\ Goto(w, "ack")
  /\ UNCHANGED <<postgres, stored, redis, submit, world>>

CleanerStep(w) ==
  \/ \E m \in topic["parsed"] : Claim(w, m) \/ SkipDuplicate(w, "cleaner", m)
  \/ Flush(w) \/ CommitUpserts(w) \/ SetHash(w) \/ UpsertFails(w)
  \/ ReportFailure(w) \/ Ack(w)
=============================================================================
