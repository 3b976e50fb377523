--------------------------- MODULE CronSchedules ---------------------------
(***************************************************************************)
(* Cron schedules of the scheduler service: rows of scheduled_crawl_jobs   *)
(* in Postgres and entries of an APScheduler that lives in memory.  The    *)
(* HTTP requests that create, patch and delete schedules are coroutines of *)
(* one process: each change of either store is a step, and between two     *)
(* steps of a request, any other request or a triggered run may go on.     *)
(* Postgres may fail at any access to it; the request then ends with an    *)
(* error where it is, and what it has changed so far stays changed.        *)
(***************************************************************************)
EXTENDS FiniteSets

CONSTANTS
  Schedules,   \* schedule ids, each given to one schedule only
  Crons,       \* cron expressions a client may send
  Valid,       \* those with five fields that CronTrigger accepts
  Requests,    \* requests that may be in flight together
  Nil          \* no row, no entry, field left out of a patch

ASSUME ValidAssumption == Valid \subseteq Crons

VARIABLES
  row,         \* row[s]: the committed row of s, or Nil
  born,        \* ids that have been given out
  entry,       \* entry[s]: the cron APScheduler runs s by, or Nil
  req,         \* req[r]: what request r is doing
  run,         \* run[s]: where the run of s is that APScheduler has started
  up,          \* is the process running (after load_from_db)
  doubt,       \* history: doubt[s], have requests on s overlapped, or has one
               \* failed halfway, with no startup or good request after it
  stopped      \* history: stopped[s], has a request on its own disabled or
               \* deleted s, with nobody asking to enable it after that

vars == <<row, born, entry, req, run, up, doubt, stopped>>

Rows == [enabled : BOOLEAN, cron : Crons]
Patches == [enabled : BOOLEAN \cup {Nil}, cron : Crons \cup {Nil}]
ASSUME NilAssumption == Nil \notin Schedules \cup Crons \cup BOOLEAN \cup Rows \cup Patches

\* seen: the row as the request has read it.  patch: what a PATCH asks for.
\* alone: has no other request on the same schedule been in flight with it.
Idle == [pc |-> "idle", id |-> Nil, alone |-> FALSE, seen |-> Nil, patch |-> Nil]
Finish(r) == req' = [req EXCEPT ![r] = Idle]
Goto(r, pc) == req' = [req EXCEPT ![r].pc = pc]

On(s) == {r \in Requests : req[r].id = s}

\* A request on s begins.
Begin(r, s, pc, seen, patch) ==
  /\ up /\ req[r] = Idle
  /\ req' = [q \in Requests |->
               IF q = r THEN [pc |-> pc, id |-> s, alone |-> On(s) = {},
                              seen |-> seen, patch |-> patch]
               ELSE IF q \in On(s) THEN [req[q] EXCEPT !.alone = FALSE] ELSE req[q]]
  /\ doubt' = [doubt EXCEPT ![s] = @ \/ On(s) # {}]

\* A request ends with an error after it has changed one of the stores.
Fails(r) ==
  /\ Finish(r)
  /\ doubt' = [doubt EXCEPT ![req[r].id] = TRUE]
  /\ UNCHANGED stopped

\* A request ends that has changed both stores: if it was alone, they agree.
Succeeds(r, stops) ==
  /\ Finish(r)
  /\ doubt' = [doubt EXCEPT ![req[r].id] = @ /\ ~req[r].alone]
  /\ stopped' = [stopped EXCEPT ![req[r].id] = @ \/ (req[r].alone /\ stops)]

Init ==
  /\ row = [s \in Schedules |-> Nil]
  /\ born = {}
  /\ entry = [s \in Schedules |-> Nil]
  /\ req = [r \in Requests |-> Idle]
  /\ run = [s \in Schedules |-> "idle"]
  /\ up = FALSE
  /\ doubt = [s \in Schedules |-> FALSE]
  /\ stopped = [s \in Schedules |-> FALSE]
-----------------------------------------------------------------------------
\* APSchedulerJobScheduler.schedule_cron raises on an invalid expression; its
\* add_job replaces an entry of the same id.
SkipValidation(s, cron) == [entry EXCEPT ![s] = cron]
ScheduleCron(s, cron) == IF cron \in Valid THEN [entry EXCEPT ![s] = cron] ELSE entry
Cancel(s) == [entry EXCEPT ![s] = Nil]

\* POST /schedules: the row is committed before its cron is looked at.
Create(r, s, cron) ==
  /\ s \notin born
  /\ Begin(r, s, "refresh", Nil, Nil)
  /\ row' = [row EXCEPT ![s] = [enabled |-> TRUE, cron |-> cron]]
  /\ born' = born \cup {s}
  /\ UNCHANGED <<entry, run, up, stopped>>

\* The commit answers and session.refresh reads the row again.  The answer may
\* be lost and the read may fail, as it does if the row has gone: the row has
\* then been changed, and the entry is not.
Refresh(r) ==
  LET s == req[r].id IN
  /\ req[r].pc = "refresh"
  /\ \/ /\ row[s] # Nil
        /\ req' = [req EXCEPT ![r].pc = "apply", ![r].seen = row[s]]
        /\ UNCHANGED <<doubt, stopped>>
     \/ Fails(r)
  /\ UNCHANGED <<row, born, entry, run, up>>

\* What a request that has read its row does to the entry.  A create has no
\* patch and schedules whatever it has read.
Removes(seen, patch) == patch # Nil /\ ~seen.enabled
AddsNewCron(seen, patch) == patch # Nil => seen.enabled /\ patch.cron # Nil
Adds(seen, patch) ==
  patch # Nil => seen.enabled /\ (patch.cron # Nil \/ patch.enabled = TRUE)

\* An invalid expression makes the request fail.  When the UPDATE fails that
\* schedule_cron ends with, of next_run_at, the entry has been added by then.
Apply(r) ==
  LET s == req[r].id
      seen == req[r].seen
      patch == req[r].patch
  IN
  /\ req[r].pc = "apply"
  /\ \/ Removes(seen, patch) /\ entry' = Cancel(s) /\ Succeeds(r, TRUE)
     \/ /\ Adds(seen, patch)
        /\ entry' = ScheduleCron(s, seen.cron)
        /\ IF seen.cron \in Valid THEN Succeeds(r, FALSE) ELSE Fails(r)
     \/ /\ ~Removes(seen, patch) /\ ~Adds(seen, patch)
        /\ Finish(r) /\ UNCHANGED <<entry, doubt, stopped>>
  /\ UNCHANGED <<row, born, run, up>>

\* PATCH /schedules/{id}: 404 if the row is not there.
PatchRead(r, s, patch) ==
  /\ row[s] # Nil
  /\ Begin(r, s, "write", row[s], patch)
  /\ stopped' = [stopped EXCEPT ![s] = @ /\ patch.enabled # TRUE]
  /\ UNCHANGED <<row, born, entry, run, up>>

\* The UPDATE names the columns that differ from what was read.  It may fail,
\* as it does if a delete came between, and then nothing has been changed.
Updated(x, seen, patch) ==
  [enabled |-> IF patch.enabled \in {Nil, seen.enabled} THEN x.enabled ELSE patch.enabled,
   cron |-> IF patch.cron \in {Nil, seen.cron} THEN x.cron ELSE patch.cron]
PatchWrite(r) ==
  LET s == req[r].id IN
  /\ req[r].pc = "write"
  /\ \/ /\ row[s] # Nil
        /\ row' = [row EXCEPT ![s] = Updated(@, req[r].seen, req[r].patch)]
        /\ Goto(r, "refresh")
     \/ Finish(r) /\ UNCHANGED row
  /\ UNCHANGED <<born, entry, run, up, doubt, stopped>>

\* DELETE /schedules/{id}: the entry goes first, then the row.
DeleteCancel(r, s) ==
  /\ s \in born
  /\ Begin(r, s, "delete", Nil, Nil)
  /\ entry' = Cancel(s)
  /\ UNCHANGED <<row, born, run, up, stopped>>

\* 404 if the row has gone; an error of the read or of the commit leaves a row
\* that has lost its entry.
DeleteRow(r) ==
  /\ req[r].pc = "delete"
  /\ \/ row' = [row EXCEPT ![req[r].id] = Nil] /\ Succeeds(r, TRUE)
     \/ Fails(r) /\ UNCHANGED row
  /\ UNCHANGED <<born, entry, run, up>>
-----------------------------------------------------------------------------
\* APScheduler triggers an entry when its time comes, which is at any moment
\* here, unless the last run of the same id is still going on (max_instances).
Triggered(s) == run[s] = "idle" /\ entry[s] # Nil
Trigger(s) ==
  /\ up /\ Triggered(s)
  /\ run' = [run EXCEPT ![s] = "get"]
  /\ UNCHANGED <<row, born, entry, req, up, doubt, stopped>>

\* _run_job reads the row to stamp last_run_at and next_run_at; a run whose
\* row has gone skips the stamp, not the job.  If the read fails the run ends.
GetRow(s) ==
  /\ run[s] = "get"
  /\ run' \in {[run EXCEPT ![s] = IF row[s] = Nil THEN "submit" ELSE "stamp"],
               [run EXCEPT ![s] = "idle"]}
  /\ UNCHANGED <<row, born, entry, req, up, doubt, stopped>>

\* The UPDATE may fail, as it does if a delete came between: the run ends.
Stamp(s) ==
  /\ run[s] = "stamp"
  /\ \/ row[s] # Nil /\ run' = [run EXCEPT ![s] = "submit"]
     \/ run' = [run EXCEPT ![s] = "idle"]
  /\ UNCHANGED <<row, born, entry, req, up, doubt, stopped>>

\* The callback submits the job of the entry (Submission), or raises.
Submit(s) ==
  /\ run[s] = "submit"
  /\ run' = [run EXCEPT ![s] = "idle"]
  /\ UNCHANGED <<row, born, entry, req, up, doubt, stopped>>
-----------------------------------------------------------------------------
\* load_from_db at startup, before any request is served.  An enabled row with
\* an invalid expression makes it raise, and the process does not come up.
EnabledRows == {s \in Schedules : row[s] # Nil /\ row[s].enabled}
AllRows(s) == row[s] # Nil
Loaded(s) == s \in EnabledRows
Start ==
  /\ ~up
  /\ \A s \in Schedules : Loaded(s) => row[s].cron \in Valid
  /\ up' = TRUE
  /\ entry' = [s \in Schedules |-> IF Loaded(s) THEN row[s].cron ELSE Nil]
  /\ doubt' = [s \in Schedules |-> FALSE]
  /\ UNCHANGED <<row, born, req, run, stopped>>

\* The process ends in the middle of whatever it does.
Crash ==
  /\ up
  /\ up' = FALSE
  /\ entry' = [s \in Schedules |-> Nil]
  /\ req' = [r \in Requests |-> Idle]
  /\ run' = [s \in Schedules |-> "idle"]
  /\ UNCHANGED <<row, born, doubt, stopped>>

Next ==
  \/ \E r \in Requests, s \in Schedules :
       \/ \E cron \in Crons : Create(r, s, cron)
       \/ \E patch \in Patches : PatchRead(r, s, patch)
       \/ DeleteCancel(r, s)
  \/ \E r \in Requests : Refresh(r) \/ Apply(r) \/ PatchWrite(r) \/ DeleteRow(r)
  \/ \E s \in Schedules : Trigger(s) \/ GetRow(s) \/ Stamp(s) \/ Submit(s)
  \/ Start \/ Crash

Spec == Init /\ [][Next]_vars
-----------------------------------------------------------------------------
\* What a request may be doing, and what it then knows.
Tasks ==
  {Idle}
  \cup [pc : {"refresh"}, id : Schedules, alone : BOOLEAN, seen : Rows \cup {Nil},
        patch : Patches \cup {Nil}]
  \cup [pc : {"write"}, id : Schedules, alone : BOOLEAN, seen : Rows, patch : Patches]
  \cup [pc : {"apply"}, id : Schedules, alone : BOOLEAN, seen : Rows, patch : Patches \cup {Nil}]
  \cup [pc : {"delete"}, id : Schedules, alone : BOOLEAN, seen : {Nil}, patch : {Nil}]

\* Only valid expressions get into APScheduler's table, and a request that
\* writes or applies knows the row it has read.
TypeOK ==
  /\ row \in [Schedules -> Rows \cup {Nil}]
  /\ born \subseteq Schedules
  /\ entry \in [Schedules -> Valid \cup {Nil}]
  /\ req \in [Requests -> Tasks]
  /\ run \in [Schedules -> {"idle", "get", "stamp", "submit"}]
  /\ up \in BOOLEAN
  /\ doubt \in [Schedules -> BOOLEAN]
  /\ stopped \in [Schedules -> BOOLEAN]

\* What APScheduler should run s by, going by its row.
Wanted(s) == IF s \in EnabledRows THEN row[s].cron ELSE Nil

\* An enabled schedule runs by the cron of its row, and a disabled or deleted
\* one does not run, once the requests on it are over.  Not so, in the code,
\* after requests on it have overlapped (patch_schedule applies what it has read
\* earlier) or one has failed halfway (an error of Postgres, an invalid cron):
\* but then one request more, on its own, that goes through to the entry puts
\* both stores right whatever they were, and so does a restart.
EntriesFollowRows ==
  \A s \in Schedules : up /\ On(s) = {} /\ ~doubt[s] => entry[s] = Wanted(s)

\* A schedule that a request on its own has disabled or deleted is not run
\* again until somebody asks to enable it: no crawl of it begins, whatever else
\* is asked of it after that, with requests that overlap, failures and restarts.
NoRunAfterDisable ==
  [][\A s \in Schedules : stopped[s] /\ run[s] = "idle" => run'[s] = "idle"]_vars
=============================================================================
