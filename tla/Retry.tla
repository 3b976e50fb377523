------------------------------- MODULE Retry -------------------------------
(***************************************************************************)
(* RetryWorker: turns an UrlFailed into the next attempt after a delay, or *)
(* sends it to the DLQ.  It keeps no ledger: a redelivered UrlFailed is    *)
(* republished again.  Taking the message and sleeping change no store, so *)
(* they are one step with the publish.                                     *)
(***************************************************************************)
EXTENDS ArgusState

TakeAndPublish(w, f, t, m) ==
  /\ topic' = [topic EXCEPT !["failed"] = @ \ {f}, ![t] = @ \cup {m}]
  /\ task' = [task EXCEPT ![w] = Holding("ack", f)]

\* The page_payload of a cleaner's failure, one attempt later, under the id
\* the payload has.
ReplayedPage(f) ==
  [f EXCEPT !.kind = "PageParsed", !.n = f.page, !.attempt = @ + 1, !.stage = Nil, !.page = 0]

RetryPage(w, f) ==
  /\ IsIdle(w) /\ ShouldRetry(f.attempt, RetryMaxAttempts)
  /\ f.stage = "cleaner"
  /\ TakeAndPublish(w, f, "parsed", ReplayedPage(f))
  /\ UNCHANGED <<minted, postgres, stored, redis, submit, world>>

RetryCrawl(w, f) ==
  /\ IsIdle(w) /\ ShouldRetry(f.attempt, RetryMaxAttempts)
  /\ f.stage # "cleaner"
  /\ TakeAndPublish(w, f, "discovered",
                    Discovered(f.job, f.url, f.attempt + 1, f.depth, f.force))
  /\ Mint(f.job, f.url)
  /\ UNCHANGED <<postgres, stored, redis, submit, world>>

\* retry_exhausted
Exhausted(w, f) ==
  /\ IsIdle(w) /\ ~ShouldRetry(f.attempt, RetryMaxAttempts)
  /\ TakeAndPublish(w, f, "dlq", f)
  /\ UNCHANGED <<minted, postgres, stored, redis, submit, world>>

RetryStep(w) ==
  \/ \E f \in topic["failed"] : RetryPage(w, f) \/ RetryCrawl(w, f) \/ Exhausted(w, f)
  \/ Ack(w)
=============================================================================
