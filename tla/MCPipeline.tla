----------------------------- MODULE MCPipeline -----------------------------
(* Small instances of Pipeline for TLC: one page that links to itself, two *)
(* that link to each other or to a third, and their jobs.                  *)
EXTENDS Pipeline, TLC

CONSTANTS j1, j2, a, b, c

OneSeed == j1 :> {a}
TwoSeeds == j1 :> {a, b}
TwoJobs == j1 :> {a} @@ j2 :> {a}
SelfLink == a :> {a}
NoLink == a :> {}
Loop == a :> {b} @@ b :> {a}
SharedLink == a :> {b, c} @@ b :> {c} @@ c :> {}

\* Workers of one service are interchangeable.
Symmetry == Permutations(Crawlers) \cup Permutations(Cleaners)
=============================================================================
