----------------------------- MODULE DlqReplay -----------------------------
(***************************************************************************)
(* DlqReplayConsumer: counts the replays of an event id in Redis and       *)
(* republishes the payload, under its own id, up to the cap.  The counter  *)
(* outlives the run: its 24 hour expiry is not modelled.                   *)
(***************************************************************************)
EXTENDS ArgusState

Count(id) == Cardinality({r \in replays : r[1] = id})

UnderCap(k) == k <= MaxReplays

\* INCR comes first: a crash before the publish uses up a replay.
CountReplay(w, m) ==
  LET k == Count(IdOf(m)) + 1 IN
  /\ IsIdle(w) /\ m \in topic["dlq"]
  /\ replays' = replays \cup {<<IdOf(m), k>>}
  /\ Take(w, "dlq", m, IF UnderCap(k) THEN "replay" ELSE "ack")
  /\ UNCHANGED <<minted, postgres, stored, dedup, seen, submit, world>>

\* A payload with extracted_links is a PageParsed; any other one is read as an
\* UrlDiscovered, forced.
ReplayPage(w) ==
  /\ At(w, "replay") /\ task[w].msg.kind = "PageParsed"
  /\ Publish("parsed", task[w].msg)
  /\ Goto(w, "ack")
  /\ UNCHANGED <<minted, postgres, stored, redis, submit, world>>

ReplayedUrl(m) ==
  [m EXCEPT !.kind = "UrlDiscovered", !.force = TRUE, !.stage = Nil, !.page = 0]
ReplayUrl(w) ==
  /\ At(w, "replay") /\ task[w].msg.kind # "PageParsed"
  /\ Publish("discovered", ReplayedUrl(task[w].msg))
  /\ Goto(w, "ack")
  /\ UNCHANGED <<minted, postgres, stored, redis, submit, world>>

\* The publish raises: the error is counted and the message committed.
ReplayFails(w) ==
  /\ At(w, "replay")
  /\ Fault
  /\ Goto(w, "ack")
  /\ UNCHANGED <<kafka, postgres, stored, redis, submit>>

ReplayStep(w) ==
  \/ \E m \in topic["dlq"] : CountReplay(w, m)
  \/ ReplayPage(w) \/ ReplayUrl(w) \/ Ack(w)
=============================================================================
