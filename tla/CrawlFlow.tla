----------------------------- MODULE CrawlFlow -----------------------------
(***************************************************************************)
(* What the pipeline promises about the pages of its jobs, with no topics, *)
(* workers, retries or ledger: a page is announced to a job that has been  *)
(* created, fetched for a job it has been announced to, and indexed only   *)
(* from what has been fetched.  Nothing of this is ever taken back, and a  *)
(* job completes, once and for all, with the indexing of one of its pages. *)
(***************************************************************************)
CONSTANTS Jobs, Urls

VARIABLES status,   \* status[j]: "none", "running" or "completed"
          known,    \* pairs of job and URL that have been announced
          fetched,  \* pairs whose HTML is in storage
          index     \* URLs with a page in the index

flowVars == <<status, known, fetched, index>>

Init == /\ status = [j \in Jobs |-> "none"]
        /\ known = {} /\ fetched = {} /\ index = {}

Create(j) == /\ status[j] = "none"
             /\ status' = [status EXCEPT ![j] = "running"]
             /\ UNCHANGED <<known, fetched, index>>

Announce(j, u) == /\ status[j] # "none"
                  /\ known' = known \cup {<<j, u>>}
                  /\ UNCHANGED <<status, fetched, index>>

Fetch(j, u) == /\ <<j, u>> \in known
               /\ fetched' = fetched \cup {<<j, u>>}
               /\ UNCHANGED <<status, known, index>>

Index(j, u) == /\ <<j, u>> \in fetched
               /\ index' = index \cup {u}
               /\ \/ UNCHANGED status
                  \/ status' = [status EXCEPT ![j] = "completed"]
               /\ UNCHANGED <<known, fetched>>

Next == \/ \E j \in Jobs : Create(j)
        \/ \E j \in Jobs, u \in Urls : Announce(j, u) \/ Fetch(j, u) \/ Index(j, u)

Spec == Init /\ [][Next]_flowVars
=============================================================================
