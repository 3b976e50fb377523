------------------------------ MODULE MCStores ------------------------------
(***************************************************************************)
(* Small instances of CronSchedules, ContentHash and UrlKeys.  They share  *)
(* no state: focus says which of them this behaviour exercises, and the    *)
(* others stay as they are initially.                                      *)
(***************************************************************************)
EXTENDS CronSchedules, ContentHash, UrlKeys, TLC

CONSTANTS j1, j2, v1, v2, v3, a, b

VARIABLE focus

PathsOfPages == {<<>>, <<a>>, <<b>>, <<a, b>>}
QueriesOfPages == {<<>>, <<1>>, <<1, 2>>}
PlainPages == {p \in Pages : p.port = 80 /\ p.query = <<>> /\ p.path \in {<<>>, <<a, b>>}}
TwoJobs == v1 :> j1 @@ v2 :> j1 @@ v3 :> j2

\* Requests and runs that are under way together: all that may be while there
\* is one schedule, one at a time when there are two.
Load == Cardinality({r \in Requests : req[r] # Idle})
        + Cardinality({s \in Schedules : run[s] # "idle"})
MaxLoad == IF Cardinality(born) < 2 THEN 3 ELSE 1

SomePage == CHOOSE p \in PlainPages : p.path = <<>>

MCInit == /\ focus \in {"cron", "content", "urls"} /\ Init /\ ContentInit /\ UrlInit
          /\ focus # "urls" => page = SomePage
CronNext == focus = "cron" /\ Next /\ Load' <= MaxLoad' /\ UNCHANGED <<contentVars, urlVars>>
HashNext == focus = "content" /\ ContentNext /\ UNCHANGED <<vars, urlVars>>
SpellingNext == focus = "urls" /\ UrlNext /\ UNCHANGED <<vars, contentVars>>
MCNext == (CronNext \/ HashNext \/ SpellingNext) /\ UNCHANGED focus
MCSpec == MCInit /\ [][MCNext]_<<vars, contentVars, urlVars, focus>>

Symmetry == Permutations(Schedules) \cup Permutations(Requests) \cup Permutations(Valid)
=============================================================================
