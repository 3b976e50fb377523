----------------------------- MODULE Submission -----------------------------
(***************************************************************************)
(* The scheduler's submit_job_internal: the job row is committed running,  *)
(* then each seed (or, in an incremental job, each stale URL) goes through *)
(* mark_seen, queue_url and publish, three stores one after the other.     *)
(***************************************************************************)
EXTENDS ArgusState

AtSubmit(j, pc) == submit[j].pc = pc
SubmitAt(j, pc, todo, cur) ==
  submit' = [submit EXCEPT ![j] = [pc |-> pc, todo |-> todo, cur |-> cur]]

\* The job is running before any of its URLs is queued.
CreateJob(j) ==
  /\ AtSubmit(j, "new")
  /\ job' = [job EXCEPT ![j] = "running"]
  /\ IF j \in Incremental THEN SubmitAt(j, "select", {}, Nil)
                          ELSE SubmitAt(j, "next", Seeds[j], Nil)
  /\ UNCHANGED <<kafka, ledger, row, indexed, stored, redis, task, world>>

\* Which of the known URLs are stale is the clock's choice.
SelectStale(j) ==
  /\ AtSubmit(j, "select")
  /\ \E stale \in SUBSET {u \in Urls : indexed[u] >= 0} : SubmitAt(j, "next", stale, Nil)
  /\ UNCHANGED <<kafka, postgres, stored, redis, task, world>>

\* mark_seen: SADD tells whether the URL is new to the job.
NewToJob(j, u) == <<j, u>> \notin seen
MarkSeen(j, u) ==
  /\ AtSubmit(j, "next") /\ u \in submit[j].todo
  /\ IF NewToJob(j, u)
     THEN /\ seen' = seen \cup {<<j, u>>}
          /\ SubmitAt(j, "queue", submit[j].todo \ {u}, u)
     ELSE /\ SubmitAt(j, "next", submit[j].todo \ {u}, Nil)
          /\ UNCHANGED seen
  /\ UNCHANGED <<kafka, postgres, stored, dedup, replays, task, world>>

QueueSeed(j) ==
  /\ AtSubmit(j, "queue")
  /\ QueueUrl(j, submit[j].cur)
  /\ SubmitAt(j, "publish", submit[j].todo, submit[j].cur)
  /\ UNCHANGED <<kafka, ledger, job, indexed, stored, redis, task, world>>

\* A stale URL keeps the depth the urls table has for it and is forced.
KnownDepth(j, u) == indexed[u]
SeedDepth(j, u) == IF j \in Incremental THEN indexed[u] ELSE 0
PublishSeed(j) ==
  LET u == submit[j].cur IN
  /\ AtSubmit(j, "publish")
  /\ Publish("discovered", Discovered(j, u, 1, SeedDepth(j, u), j \in Incremental))
  /\ Mint(j, u)
  /\ SubmitAt(j, "next", submit[j].todo, Nil)
  /\ UNCHANGED <<postgres, stored, redis, task, world>>

\* The answer to the client: a count, or 400 when nothing was queued, with the
\* job row left as it is.  urls_queued, a cache of the count, is not modelled.
Answer(j) ==
  /\ AtSubmit(j, "next") /\ submit[j].todo = {}
  /\ SubmitAt(j, "closed", {}, Nil)
  /\ UNCHANGED <<kafka, postgres, stored, redis, task, world>>

\* The scheduler dies, or a store fails, in the middle: nothing resumes it.
Abandon(j) ==
  /\ submit[j].pc \notin {"new", "closed"}
  /\ Fault
  /\ SubmitAt(j, "closed", {}, Nil)
  /\ UNCHANGED <<kafka, postgres, stored, redis, task>>

SubmitStep(j) == \/ CreateJob(j) \/ SelectStale(j)
                 \/ \E u \in Urls : MarkSeen(j, u)
                 \/ QueueSeed(j) \/ PublishSeed(j) \/ Answer(j)
=============================================================================
