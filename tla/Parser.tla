------------------------------- MODULE Parser -------------------------------
(***************************************************************************)
(* ParserWorker: claims an HtmlFetched, downloads and extracts the page,   *)
(* publishes PageParsed.  It touches no row, not even when it fails.       *)
(***************************************************************************)
EXTENDS ArgusState

Claim(w, m) ==
  /\ IsIdle(w)
  /\ m \in topic["fetched"]
  /\ Claimable(m, "parser")
  /\ Take(w, "fetched", m, "parse")
  /\ ledger' = ledger \cup {<<IdOf(m), "parser">>}
  /\ UNCHANGED <<minted, row, job, indexed, stored, redis, submit, world>>

\* PageParsed keeps the event id and the attempt.
FreshPageParsed(m) == [m EXCEPT !.kind = "PageParsed", !.n = NewId(m.job, m.url)]
PageParsed(m) == [m EXCEPT !.kind = "PageParsed"]
Parse(w) ==
  /\ At(w, "parse")
  /\ Publish("parsed", PageParsed(task[w].msg))
  /\ Goto(w, "ack")
  /\ UNCHANGED <<minted, postgres, stored, redis, submit, world>>

\* Download, extraction or publish raises; force_recrawl keeps its default.
ParseFails(w) ==
  /\ At(w, "parse")
  /\ Error
  /\ Report(task[w].msg, "parser", FALSE)
  /\ Goto(w, "ack")
  /\ UNCHANGED <<postgres, stored, redis, submit>>

ParserStep(w) ==
  \/ \E m \in topic["fetched"] : Claim(w, m) \/ SkipDuplicate(w, "parser", m)
  \/ Parse(w) \/ ParseFails(w) \/ Ack(w)
=============================================================================
