------------------------ MODULE CronSchedulesProofs ------------------------
(***************************************************************************)
(* Proofs about CronSchedules: its type invariant, that entries follow     *)
(* rows, and that what has been disabled is not run, for any number of     *)
(* schedules, expressions and requests, with failures of Postgres and      *)
(* crashes at any step.                                                    *)
(***************************************************************************)
EXTENDS CronSchedules, TLAPS

\* What a request on its own knows, whatever it found: the row as it is; and
\* what its own first step has done.
Knows(r, s) ==
  /\ req[r].pc \in {"refresh", "write", "apply"} => row[s] # Nil
  /\ req[r].pc \in {"write", "apply"} => req[r].seen = row[s]
  /\ req[r].pc \in {"refresh", "apply"} /\ req[r].patch = Nil => s \in EnabledRows
  /\ req[r].pc = "delete" => entry[s] = Nil
Alone(s) == \A r \in On(s) : req[r].alone => On(s) = {r} /\ Knows(r, s)

\* s runs as its row says.
Agrees(s) == entry[s] = Wanted(s)

\* Where there is no doubt, the entry agrees before the row is written, and
\* after it unless the request goes on to cancel or to schedule.
Prepared(s, patch) ==
  patch # Nil /\ patch.cron = Nil /\ patch.enabled # TRUE /\ s \in EnabledRows => Agrees(s)
Ready(r, s) ==
  /\ req[r].pc = "write" => Agrees(s)
  /\ req[r].pc \in {"refresh", "apply"} => Prepared(s, req[r].patch)
Certain(s) == up /\ ~doubt[s] => /\ On(s) = {} => Agrees(s)
                                /\ \A r \in On(s) : req[r].alone /\ Ready(r, s)

\* An id is given out before anything is stored under it, and a process that
\* is down has neither entries nor requests.
Unborn(s) == s \notin born => row[s] = Nil /\ entry[s] = Nil /\ On(s) = {}
Down(s) == ~up => entry[s] = Nil /\ On(s) = {}

ScheduleInv(s) == Unborn(s) /\ Down(s) /\ Alone(s) /\ Certain(s)
IInv == TypeOK /\ \A s \in Schedules : ScheduleInv(s)
-----------------------------------------------------------------------------
\* What schedule_cron leaves in APScheduler's table is a valid expression.
LEMMA ScheduleCronType ==
  ASSUME TypeOK, NEW s \in Schedules, NEW cron
  PROVE  ScheduleCron(s, cron) \in [Schedules -> Valid \cup {Nil}]
  BY DEF ScheduleCron, TypeOK

\* The types hold initially.
LEMMA TypeInit == Init => TypeOK
  BY DEF Init, TypeOK, Tasks

\* The request a step reads is of the kind its pc says.
LEMMA TaskTypes ==
  ASSUME TypeOK, NEW r \in Requests
  PROVE  /\ req[r].pc = "refresh" => req[r] \in
              [pc : {"refresh"}, id : Schedules, alone : BOOLEAN,
               seen : Rows \cup {Nil}, patch : Patches \cup {Nil}]
         /\ req[r].pc = "write" => req[r] \in
              [pc : {"write"}, id : Schedules, alone : BOOLEAN, seen : Rows, patch : Patches]
         /\ req[r].pc = "apply" => req[r] \in
              [pc : {"apply"}, id : Schedules, alone : BOOLEAN,
               seen : Rows, patch : Patches \cup {Nil}]
         /\ req[r].pc = "delete" => req[r] \in
              [pc : {"delete"}, id : Schedules, alone : BOOLEAN, seen : {Nil}, patch : {Nil}]
  BY DEF TypeOK, Tasks, Idle

\* A request that is no longer alone is of the same kind.
LEMMA CompanyType ==
  ASSUME NEW task \in Tasks, task # Idle
  PROVE  [task EXCEPT !.alone = FALSE] \in Tasks
<1>1. CASE task \in [pc : {"refresh"}, id : Schedules, alone : BOOLEAN,
                     seen : Rows \cup {Nil}, patch : Patches \cup {Nil}]
  BY <1>1 DEF Tasks
<1>2. CASE task \in [pc : {"write"}, id : Schedules, alone : BOOLEAN, seen : Rows, patch : Patches]
  BY <1>2 DEF Tasks
<1>3. CASE task \in [pc : {"apply"}, id : Schedules, alone : BOOLEAN,
                     seen : Rows, patch : Patches \cup {Nil}]
  BY <1>3 DEF Tasks
<1>4. CASE task \in [pc : {"delete"}, id : Schedules, alone : BOOLEAN, seen : {Nil}, patch : {Nil}]
  BY <1>4 DEF Tasks
<1> QED
  BY <1>1, <1>2, <1>3, <1>4 DEF Tasks

\* A request that begins on s keeps the types.
LEMMA BeginType ==
  ASSUME TypeOK, NEW r \in Requests, NEW s \in Schedules, NEW pc, NEW seen, NEW patch,
         \A alone \in BOOLEAN :
           [pc |-> pc, id |-> s, alone |-> alone, seen |-> seen, patch |-> patch] \in Tasks,
         Begin(r, s, pc, seen, patch)
  PROVE  /\ req' \in [Requests -> Tasks]
         /\ doubt' \in [Schedules -> BOOLEAN]
<1>1. req \in [Requests -> Tasks] /\ doubt \in [Schedules -> BOOLEAN]
  BY DEF TypeOK
<1>2. (doubt[s] \/ On(s) # {}) \in BOOLEAN /\ (On(s) = {}) \in BOOLEAN
  OBVIOUS
<1>3. \A q \in On(s) : [req[q] EXCEPT !.alone = FALSE] \in Tasks
  <2>1. \A q \in On(s) : q \in Requests /\ req[q] # Idle
    BY NilAssumption DEF On, Idle
  <2> QED
    BY <1>1, <2>1, CompanyType
<1> QED
  BY <1>1, <1>2, <1>3 DEF Begin

\* So does a request that ends, with an error or without.
LEMMA EndType ==
  ASSUME TypeOK, NEW r \in Requests, Fails(r) \/ \E stops \in BOOLEAN : Succeeds(r, stops)
  PROVE  /\ req' \in [Requests -> Tasks]
         /\ doubt' \in [Schedules -> BOOLEAN] /\ stopped' \in [Schedules -> BOOLEAN]
<1>1. /\ req \in [Requests -> Tasks] /\ Idle \in Tasks
      /\ doubt \in [Schedules -> BOOLEAN] /\ stopped \in [Schedules -> BOOLEAN]
  BY DEF TypeOK, Tasks
<1>2. req' \in [Requests -> Tasks]
  BY <1>1 DEF Fails, Succeeds, Finish
<1>3. CASE Fails(r)
  BY <1>1, <1>2, <1>3 DEF Fails
<1>4. ASSUME NEW stops \in BOOLEAN, Succeeds(r, stops)
      PROVE  doubt' \in [Schedules -> BOOLEAN] /\ stopped' \in [Schedules -> BOOLEAN]
  <2>1. PICK s, d, t : /\ s = req[r].id
                       /\ d = (doubt[s] /\ ~req[r].alone)
                       /\ t = (stopped[s] \/ (req[r].alone /\ stops))
    OBVIOUS
  <2>2. d \in BOOLEAN /\ t \in BOOLEAN
    BY <2>1
  <2>3. doubt' = [doubt EXCEPT ![s] = d] /\ stopped' = [stopped EXCEPT ![s] = t]
    BY <1>4, <2>1 DEF Succeeds
  <2> QED
    BY <1>1, <2>2, <2>3
<1> QED
  BY <1>2, <1>3, <1>4

\* What PatchWrite stores is a row.
LEMMA PatchKeepsRow ==
  ASSUME NEW x \in Rows, NEW seen, NEW patch \in Patches
  PROVE  Updated(x, seen, patch) \in Rows
<1>1. patch.enabled \notin {Nil, seen.enabled} => patch.enabled \in BOOLEAN
  BY DEF Patches
<1>2. patch.cron \notin {Nil, seen.cron} => patch.cron \in Crons
  BY DEF Patches
<1> QED
  BY <1>1, <1>2 DEF Updated, Rows

\* A run keeps to itself: it reads rows, and changes neither row nor entry.
RunStep(s) == Trigger(s) \/ GetRow(s) \/ Stamp(s) \/ Submit(s)
\* The steps of a run change nothing but the run.
LEMMA RunChangesRun ==
  ASSUME NEW s, RunStep(s)
  PROVE  UNCHANGED <<row, born, entry, req, up, doubt, stopped>>
  BY DEF RunStep, Trigger, GetRow, Stamp, Submit

\* Every step keeps the types.
LEMMA TypeStep == TypeOK /\ [Next]_vars => TypeOK'
<1> SUFFICES ASSUME TypeOK, [Next]_vars
             PROVE  TypeOK'
  OBVIOUS
<1>0. /\ row \in [Schedules -> Rows \cup {Nil}] /\ entry \in [Schedules -> Valid \cup {Nil}]
      /\ req \in [Requests -> Tasks] /\ born \subseteq Schedules /\ up \in BOOLEAN
      /\ doubt \in [Schedules -> BOOLEAN] /\ stopped \in [Schedules -> BOOLEAN]
      /\ run \in [Schedules -> {"idle", "get", "stamp", "submit"}] /\ Idle \in Tasks
  BY DEF TypeOK, Tasks
<1>1. ASSUME NEW r \in Requests, NEW s \in Schedules, NEW cron \in Crons, Create(r, s, cron)
      PROVE  TypeOK'
  <2>1. [enabled |-> TRUE, cron |-> cron] \in Rows
    BY DEF Rows
  <2>2. \A alone \in BOOLEAN :
          [pc |-> "refresh", id |-> s, alone |-> alone, seen |-> Nil, patch |-> Nil] \in Tasks
    BY DEF Tasks
  <2>3. req' \in [Requests -> Tasks] /\ doubt' \in [Schedules -> BOOLEAN]
    BY <1>1, <2>2, BeginType DEF Create
  <2> QED
    BY <1>0, <1>1, <2>1, <2>3 DEF Create, TypeOK
<1>2. ASSUME NEW r \in Requests, NEW s \in Schedules, NEW patch \in Patches, PatchRead(r, s, patch)
      PROVE  TypeOK'
  <2>1. \A alone \in BOOLEAN :
          [pc |-> "write", id |-> s, alone |-> alone, seen |-> row[s], patch |-> patch] \in Tasks
    BY <1>0, <1>2 DEF PatchRead, Tasks
  <2>2. req' \in [Requests -> Tasks] /\ doubt' \in [Schedules -> BOOLEAN]
    BY <1>2, <2>1, BeginType DEF PatchRead
  <2>3. stopped' \in [Schedules -> BOOLEAN]
    <3>1. (stopped[s] /\ patch.enabled # TRUE) \in BOOLEAN
      OBVIOUS
    <3> QED
      BY <1>0, <1>2, <3>1 DEF PatchRead
  <2> QED
    BY <1>0, <1>2, <2>2, <2>3 DEF PatchRead, TypeOK
<1>3. ASSUME NEW r \in Requests, NEW s \in Schedules, DeleteCancel(r, s)
      PROVE  TypeOK'
  <2>1. \A alone \in BOOLEAN :
          [pc |-> "delete", id |-> s, alone |-> alone, seen |-> Nil, patch |-> Nil] \in Tasks
    BY DEF Tasks
  <2>2. req' \in [Requests -> Tasks] /\ doubt' \in [Schedules -> BOOLEAN]
    BY <1>3, <2>1, BeginType DEF DeleteCancel
  <2> QED
    BY <1>0, <1>3, <2>2 DEF DeleteCancel, Cancel, TypeOK
<1>4. ASSUME NEW r \in Requests, Refresh(r)
      PROVE  TypeOK'
  <2> DEFINE s == req[r].id
             task == [req[r] EXCEPT !.pc = "apply", !.seen = row[s]]
  <2>1. CASE /\ row[s] # Nil
             /\ req' = [req EXCEPT ![r].pc = "apply", ![r].seen = row[s]]
             /\ UNCHANGED <<doubt, stopped>>
    <3>1. req[r] \in [pc : {"refresh"}, id : Schedules, alone : BOOLEAN,
                      seen : Rows \cup {Nil}, patch : Patches \cup {Nil}]
      BY <1>4, TaskTypes DEF Refresh
    <3>2. task \in Tasks
      BY <1>0, <2>1, <3>1 DEF Tasks
    <3>3. req' = [req EXCEPT ![r] = task]
      BY <1>0, <2>1
    <3>4. req' \in [Requests -> Tasks]
      BY <1>0, <3>2, <3>3
    <3> QED
      BY <1>0, <1>4, <2>1, <3>4 DEF Refresh, TypeOK
  <2>2. CASE Fails(r)
    BY <1>0, <1>4, <2>2, EndType DEF Refresh, TypeOK
  <2> QED
    BY <1>4, <2>1, <2>2 DEF Refresh
<1>5. ASSUME NEW r \in Requests, Apply(r)
      PROVE  TypeOK'
  <2>1. req[r].id \in Schedules
    BY <1>5, TaskTypes DEF Apply
  <2>2. entry' = ScheduleCron(req[r].id, req[r].seen.cron)
          \/ entry' = Cancel(req[r].id) \/ entry' = entry
    BY <1>5 DEF Apply
  <2>3. entry' \in [Schedules -> Valid \cup {Nil}]
    BY <1>0, <2>1, <2>2 DEF ScheduleCron, Cancel
  <2>4. /\ req' \in [Requests -> Tasks]
        /\ doubt' \in [Schedules -> BOOLEAN] /\ stopped' \in [Schedules -> BOOLEAN]
    <3>1. CASE Fails(r) \/ Succeeds(r, TRUE) \/ Succeeds(r, FALSE)
      BY <3>1, EndType
    <3>2. CASE Finish(r) /\ UNCHANGED <<doubt, stopped>>
      BY <1>0, <3>2 DEF Finish
    <3> QED
      BY <1>5, <3>1, <3>2 DEF Apply
  <2> QED
    BY <1>0, <1>5, <2>3, <2>4 DEF Apply, TypeOK
<1>6. ASSUME NEW r \in Requests, PatchWrite(r)
      PROVE  TypeOK'
  <2> DEFINE s == req[r].id
  <2>1. req[r] \in [pc : {"write"}, id : Schedules, alone : BOOLEAN, seen : Rows, patch : Patches]
    BY <1>6, TaskTypes DEF PatchWrite
  <2>2. CASE Finish(r) /\ UNCHANGED row
    BY <1>0, <1>6, <2>2 DEF PatchWrite, Finish, TypeOK
  <2>3. CASE /\ row[s] # Nil
             /\ row' = [row EXCEPT ![s] = Updated(row[s], req[r].seen, req[r].patch)]
             /\ req' = [req EXCEPT ![r] = [req[r] EXCEPT !.pc = "refresh"]]
    <3>1. Updated(row[s], req[r].seen, req[r].patch) \in Rows
      BY <1>0, <2>1, <2>3, PatchKeepsRow
    <3>2. [req[r] EXCEPT !.pc = "refresh"] \in Tasks
      BY <2>1 DEF Tasks
    <3>3. row' \in [Schedules -> Rows \cup {Nil}] /\ req' \in [Requests -> Tasks]
      BY <1>0, <2>3, <3>1, <3>2
    <3> QED
      BY <1>0, <1>6, <3>3 DEF PatchWrite, TypeOK
  <2> QED
    BY <1>0, <1>6, <2>2, <2>3 DEF PatchWrite, Goto
<1>7. ASSUME NEW r \in Requests, DeleteRow(r)
      PROVE  TypeOK'
  <2>1. /\ req' \in [Requests -> Tasks]
        /\ doubt' \in [Schedules -> BOOLEAN] /\ stopped' \in [Schedules -> BOOLEAN]
    BY <1>7, EndType DEF DeleteRow
  <2> QED
    BY <1>0, <1>7, <2>1 DEF DeleteRow, TypeOK
<1>8. CASE Start
  BY <1>0, <1>8 DEF Start, Loaded, EnabledRows, TypeOK, Rows
<1>9. CASE Crash
  BY <1>0, <1>9 DEF Crash, TypeOK
<1>10. CASE UNCHANGED vars
  BY <1>10 DEF vars, TypeOK
<1>11. ASSUME NEW s \in Schedules, RunStep(s)
       PROVE  TypeOK'
  <2>1. run' \in [Schedules -> {"idle", "get", "stamp", "submit"}]
    BY <1>0, <1>11 DEF RunStep, Trigger, GetRow, Stamp, Submit
  <2> QED
    BY <1>0, <1>11, <2>1, RunChangesRun DEF TypeOK
<1> QED
  BY <1>1, <1>2, <1>3, <1>4, <1>5, <1>6, <1>7, <1>8, <1>9, <1>10, <1>11 DEF Next, RunStep

\* A behaviour of the service keeps the types: what APScheduler runs is always
\* a valid expression, though rows with any expression are committed.
THEOREM CronTypeCorrect == Spec => []TypeOK
BY TypeInit, TypeStep, PTL DEF Spec
-----------------------------------------------------------------------------
\* The invariant of a schedule is not disturbed by a step on another one.
LEMMA Frame ==
  ASSUME NEW t \in Schedules, ScheduleInv(t), up' = up,
         row'[t] = row[t], entry'[t] = entry[t], doubt'[t] = doubt[t],
         t \in born' <=> t \in born, On(t)' = On(t),
         \A q \in On(t) : req'[q] = req[q]
  PROVE  ScheduleInv(t)'
<1>1. (Agrees(t)' <=> Agrees(t)) /\ (t \in EnabledRows' <=> t \in EnabledRows)
  BY DEF Agrees, EnabledRows, Wanted
<1>2. \A q \in On(t) : (Knows(q, t)' <=> Knows(q, t)) /\ (Ready(q, t)' <=> Ready(q, t))
  BY <1>1 DEF Knows, Ready, Prepared
<1> QED
  BY <1>1, <1>2 DEF ScheduleInv, Unborn, Down, Alone, Certain

\* A request that begins on s disturbs no other schedule.  On s it makes the
\* others there have company, and must find what it needs if there are none.
LEMMA BeginInv ==
  ASSUME IInv, NEW r \in Requests, NEW s \in Schedules, NEW pc, NEW seen, NEW patch,
         Begin(r, s, pc, seen, patch), up' = up, s \in born',
         \A t \in Schedules \ {s} :
           row'[t] = row[t] /\ entry'[t] = entry[t] /\ (t \in born' <=> t \in born),
         On(s) = {} => Knows(r, s)' /\ (~doubt[s] => Ready(r, s)')
  PROVE  \A t \in Schedules : ScheduleInv(t)'
<1>0. /\ \A q \in Requests : req'[q] =
            IF q = r THEN [pc |-> pc, id |-> s, alone |-> On(s) = {}, seen |-> seen, patch |-> patch]
            ELSE IF q \in On(s) THEN [req[q] EXCEPT !.alone = FALSE] ELSE req[q]
      /\ doubt' = [doubt EXCEPT ![s] = @ \/ On(s) # {}]
      /\ up /\ req[r] = Idle /\ DOMAIN doubt = Schedules
  BY DEF Begin, IInv, TypeOK
<1>1. req'[r].id = s /\ req[r].id = Nil /\ req'[r].alone = (On(s) = {})
  <2>1. PICK b \in BOOLEAN : b = (On(s) = {})
    OBVIOUS
  <2>2. req'[r] = [pc |-> pc, id |-> s, alone |-> b, seen |-> seen, patch |-> patch]
    BY <1>0, <2>1
  <2>3. req'[r].id = s /\ req'[r].alone = b
    BY <2>2
  <2> QED
    BY <1>0, <2>1, <2>3 DEF Idle
<1>2. \A q \in Requests \ {r} : q \notin On(s) => req'[q] = req[q]
  BY <1>0
<1>3. \A q \in On(s) : q \in Requests \ {r} /\ req'[q].id = s /\ req'[q].alone = FALSE
  <2>1. \A q \in On(s) : q \in Requests /\ q # r /\ req[q].id = s
    BY <1>1, NilAssumption DEF On
  <2>2. \A q \in On(s) : req'[q] = [req[q] EXCEPT !.alone = FALSE]
    BY <1>0, <2>1
  <2>3. \A q \in On(s) : req[q] \in Tasks
    BY <2>1 DEF IInv, TypeOK
  <2>4. \A task \in Tasks : /\ [task EXCEPT !.alone = FALSE].id = task.id
                            /\ [task EXCEPT !.alone = FALSE].alone = FALSE
    BY DEF Tasks, Idle
  <2> QED
    BY <2>1, <2>2, <2>3, <2>4
<1>4. ASSUME NEW t \in Schedules, t # s
      PROVE  ScheduleInv(t)'
  <2>1. \A q \in On(t) : q \in Requests \ {r} /\ q \notin On(s)
    BY <1>1, <1>4, NilAssumption DEF On
  <2>2. On(t)' = On(t) /\ \A q \in On(t) : req'[q] = req[q]
    <3>1. \A q \in On(t) : req'[q] = req[q]
      BY <1>2, <2>1
    <3>2. \A q \in Requests : req'[q].id = t => q \in On(t)
      BY <1>1, <1>2, <1>3, <1>4 DEF On
    <3> QED
      BY <3>1, <3>2 DEF On
  <2>3. doubt'[t] = doubt[t]
    BY <1>0, <1>4
  <2> QED
    BY <1>4, <2>2, <2>3, Frame DEF IInv
<1>5. ScheduleInv(s)'
  <2>1. On(s)' = On(s) \cup {r}
    <3>1. \A q \in Requests : q \in On(s)' <=> req'[q].id = s
      BY DEF On
    <3>2. On(s) \cup {r} \subseteq On(s)'
      BY <1>1, <1>3, <3>1
    <3>3. ASSUME NEW q \in Requests \ {r}, q \notin On(s)
          PROVE  q \notin On(s)'
      BY <1>2, <3>1, <3>3 DEF On
    <3>4. On(s)' \subseteq Requests
      BY DEF On
    <3> QED
      BY <3>2, <3>3, <3>4
  <2>2. doubt'[s] <=> (doubt[s] \/ On(s) # {})
    BY <1>0
  <2>3. Alone(s)'
    <3>1. SUFFICES ASSUME NEW q \in On(s)', req'[q].alone
                   PROVE  On(s)' = {q} /\ Knows(q, s)'
      BY DEF Alone
    <3>2. q = r /\ On(s) = {}
      BY <1>1, <1>3, <2>1, <3>1
    <3> QED
      BY <2>1, <3>2
  <2>4. Certain(s)'
    BY <1>1, <2>1, <2>2 DEF Certain
  <2> QED
    BY <1>0, <2>1, <2>3, <2>4 DEF ScheduleInv, Unborn, Down
<1> QED
  BY <1>4, <1>5

\* A step of a request that goes on, on s, disturbs no other schedule; on s it
\* need only leave, when it is alone there, what its next step needs.
LEMMA GoOnInv ==
  ASSUME IInv, NEW r \in Requests, NEW s \in Schedules, req[r].id = s, NEW task,
         req' = [req EXCEPT ![r] = task], task.id = s, task.alone = req[r].alone,
         UNCHANGED <<born, up, doubt>>,
         \A t \in Schedules \ {s} : row'[t] = row[t] /\ entry'[t] = entry[t],
         Knows(r, s) => Knows(r, s)' /\ (Ready(r, s) => Ready(r, s)')
  PROVE  \A t \in Schedules : ScheduleInv(t)'
<1>0. req'[r] = task /\ \A q \in Requests \ {r} : req'[q] = req[q]
  BY DEF IInv, TypeOK
<1>1. \A t \in Schedules : On(t)' = On(t)
  BY <1>0 DEF On
<1>2. ASSUME NEW t \in Schedules, t # s
      PROVE  ScheduleInv(t)'
  <2>1. \A q \in On(t) : req'[q] = req[q]
    BY <1>0, <1>2 DEF On
  <2> QED
    BY <1>1, <1>2, <2>1, Frame DEF IInv
<1>3. ScheduleInv(s)'
  <2>1. ScheduleInv(s) /\ r \in On(s) /\ On(s)' = On(s)
    BY <1>1 DEF IInv, On
  <2>2. \A q \in On(s) : req'[q].alone = req[q].alone /\ q \in Requests
    BY <1>0 DEF On
  <2>3. s \in born /\ up
    BY <2>1 DEF ScheduleInv, Unborn, Down
  <2>4. Alone(s)'
    <3>1. SUFFICES ASSUME NEW q \in On(s), req[q].alone
                   PROVE  On(s) = {q} /\ Knows(q, s)'
      BY <2>1, <2>2 DEF Alone
    <3>2. On(s) = {q} /\ Knows(q, s)
      BY <2>1, <3>1 DEF ScheduleInv, Alone
    <3> QED
      BY <2>1, <3>2
  <2>5. Certain(s)'
    <3>1. SUFFICES ASSUME ~doubt[s]
                   PROVE  \A q \in On(s) : req'[q].alone /\ Ready(q, s)'
      BY <2>1 DEF Certain
    <3>2. \A q \in On(s) : req[q].alone /\ Ready(q, s)
      BY <2>1, <2>3, <3>1 DEF ScheduleInv, Certain
    <3>3. On(s) = {r} /\ Knows(r, s) /\ Ready(r, s)
      BY <2>1, <3>2 DEF ScheduleInv, Alone
    <3> QED
      BY <2>2, <3>2, <3>3
  <2> QED
    BY <2>1, <2>3, <2>4, <2>5 DEF ScheduleInv, Unborn, Down
<1> QED
  BY <1>2, <1>3

\* The last step of a request on s, with an error or without, disturbs no other
\* schedule; on s it must leave the stores in agreement if it leaves no doubt.
LEMMA EndInv ==
  ASSUME IInv, NEW r \in Requests, NEW s \in Schedules, req[r].id = s, Finish(r),
         UNCHANGED <<born, up>>,
         \A t \in Schedules \ {s} :
           row'[t] = row[t] /\ entry'[t] = entry[t] /\ doubt'[t] = doubt[t],
         ~doubt'[s] => req[r].alone \/ ~doubt[s],
         ~doubt'[s] /\ req[r].alone /\ Knows(r, s) /\ (~doubt[s] => Ready(r, s)) => Agrees(s)'
  PROVE  \A t \in Schedules : ScheduleInv(t)'
<1>0. req'[r] = Idle /\ Idle.id = Nil /\ \A q \in Requests \ {r} : req'[q] = req[q]
  BY DEF IInv, TypeOK, Finish, Idle
<1>1. \A t \in Schedules : On(t)' = On(t) \ {r}
  BY <1>0, NilAssumption DEF On
<1>2. ASSUME NEW t \in Schedules, t # s
      PROVE  ScheduleInv(t)'
  <2>1. On(t)' = On(t) /\ \A q \in On(t) : req'[q] = req[q]
    BY <1>0, <1>1, <1>2 DEF On
  <2> QED
    BY <1>2, <2>1, Frame DEF IInv
<1>3. ScheduleInv(s)'
  <2>1. ScheduleInv(s) /\ r \in On(s) /\ On(s)' = On(s) \ {r}
    BY <1>1 DEF IInv, On
  <2>2. s \in born /\ up
    BY <2>1 DEF ScheduleInv, Unborn, Down
  <2>3. Alone(s)'
    <3>1. ASSUME NEW q \in On(s) \ {r}, req'[q].alone
          PROVE  FALSE
      <4>1. req[q].alone /\ q \in On(s)
        BY <1>0, <3>1 DEF On
      <4> QED
        BY <2>1, <3>1, <4>1 DEF ScheduleInv, Alone
    <3> QED
      BY <2>1, <3>1 DEF Alone
  <2>4. ASSUME ~doubt'[s]
        PROVE  On(s)' = {} /\ Agrees(s)'
    <3>1. req[r].alone /\ (~doubt[s] => Ready(r, s))
      BY <2>1, <2>2, <2>4 DEF ScheduleInv, Certain
    <3>2. On(s) = {r} /\ Knows(r, s)
      BY <2>1, <3>1 DEF ScheduleInv, Alone
    <3> QED
      BY <2>1, <2>4, <3>1, <3>2
  <2> QED
    BY <2>1, <2>2, <2>3, <2>4 DEF ScheduleInv, Unborn, Down, Certain
<1> QED
  BY <1>2, <1>3

\* A request that fails leaves s in doubt, and that is all there is to it.
LEMMA FailInv ==
  ASSUME IInv, NEW r \in Requests, NEW s \in Schedules, req[r].id = s, Fails(r),
         UNCHANGED <<row, born, up>>, \A t \in Schedules \ {s} : entry'[t] = entry[t]
  PROVE  \A t \in Schedules : ScheduleInv(t)'
<1>1. /\ Finish(r) /\ doubt'[s] = TRUE
      /\ \A t \in Schedules \ {s} : doubt'[t] = doubt[t]
  BY DEF Fails, IInv, TypeOK
<1> QED
  BY <1>1, EndInv

\* A request that succeeds, having been alone, must have made the stores agree.
LEMMA SuccessInv ==
  ASSUME IInv, NEW r \in Requests, NEW s \in Schedules, req[r].id = s,
         NEW stops, Succeeds(r, stops), UNCHANGED <<born, up>>,
         \A t \in Schedules \ {s} : row'[t] = row[t] /\ entry'[t] = entry[t],
         Knows(r, s) => Agrees(s)'
  PROVE  \A t \in Schedules : ScheduleInv(t)'
<1>1. /\ Finish(r) /\ (doubt'[s] <=> (doubt[s] /\ ~req[r].alone))
      /\ \A t \in Schedules \ {s} : doubt'[t] = doubt[t]
  BY DEF Succeeds, IInv, TypeOK
<1> QED
  BY <1>1, EndInv

\* Every step keeps the invariant of every schedule.
LEMMA InvStep ==
  ASSUME IInv, [Next]_vars
  PROVE  \A t \in Schedules : ScheduleInv(t)'
<1>0. /\ row \in [Schedules -> Rows \cup {Nil}] /\ entry \in [Schedules -> Valid \cup {Nil}]
      /\ DOMAIN req = Requests
  BY DEF IInv, TypeOK
<1>1. ASSUME NEW r \in Requests, NEW s \in Schedules, NEW cron \in Crons, Create(r, s, cron)
      PROVE  \A t \in Schedules : ScheduleInv(t)'
  <2>1. Begin(r, s, "refresh", Nil, Nil) /\ up' = up /\ s \in born'
    BY <1>1 DEF Create
  <2>2. \A t \in Schedules \ {s} :
          row'[t] = row[t] /\ entry'[t] = entry[t] /\ (t \in born' <=> t \in born)
    BY <1>0, <1>1 DEF Create
  <2>3. req'[r].pc = "refresh" /\ req'[r].patch = Nil
    BY <2>1 DEF Begin
  <2>4. row'[s] # Nil /\ row'[s].enabled
    <3>1. PICK b \in BOOLEAN : b = TRUE
      OBVIOUS
    <3>2. row'[s] = [enabled |-> b, cron |-> cron] /\ row'[s] \in Rows
      BY <1>0, <1>1, <3>1 DEF Create, Rows
    <3>3. row'[s].enabled = b
      BY <3>2
    <3> QED
      BY <3>1, <3>2, <3>3, NilAssumption
  <2>5. Knows(r, s)' /\ Ready(r, s)'
    BY <2>3, <2>4 DEF Knows, Ready, Prepared, EnabledRows
  <2> QED
    BY <2>1, <2>2, <2>5, BeginInv
<1>2. ASSUME NEW r \in Requests, NEW s \in Schedules, NEW patch \in Patches, PatchRead(r, s, patch)
      PROVE  \A t \in Schedules : ScheduleInv(t)'
  <2>1. Begin(r, s, "write", row[s], patch) /\ UNCHANGED <<row, born, entry, up>>
    BY <1>2 DEF PatchRead
  <2>2. s \in born
    BY <1>2 DEF PatchRead, IInv, ScheduleInv, Unborn
  <2>3. req'[r].pc = "write" /\ req'[r].seen = row[s]
    BY <2>1 DEF Begin
  <2>4. ASSUME ~doubt[s], On(s) = {}
        PROVE  Agrees(s)'
    <3>1. Agrees(s)
      BY <2>1, <2>4 DEF Begin, IInv, ScheduleInv, Certain
    <3> QED
      BY <2>1, <3>1 DEF Agrees, EnabledRows, Wanted
  <2>5. Knows(r, s)' /\ (On(s) = {} /\ ~doubt[s] => Ready(r, s)')
    BY <1>2, <2>1, <2>3, <2>4 DEF PatchRead, Knows, Ready
  <2> QED
    BY <2>1, <2>2, <2>5, BeginInv
<1>3. ASSUME NEW r \in Requests, NEW s \in Schedules, DeleteCancel(r, s)
      PROVE  \A t \in Schedules : ScheduleInv(t)'
  <2>1. /\ Begin(r, s, "delete", Nil, Nil) /\ UNCHANGED <<row, born, up>> /\ s \in born
        /\ entry' = [entry EXCEPT ![s] = Nil]
    BY <1>3 DEF DeleteCancel, Cancel
  <2>2. req'[r].pc = "delete"
    BY <2>1 DEF Begin
  <2>3. Knows(r, s)' /\ Ready(r, s)'
    BY <1>0, <2>1, <2>2 DEF Knows, Ready
  <2>4. \A t \in Schedules \ {s} : entry'[t] = entry[t]
    BY <1>0, <2>1
  <2> QED
    BY <2>1, <2>3, <2>4, BeginInv
<1>4. ASSUME NEW r \in Requests, Refresh(r)
      PROVE  \A t \in Schedules : ScheduleInv(t)'
  <2>1. PICK s \in Schedules : s = req[r].id
    BY <1>4, TaskTypes DEF Refresh, IInv
  <2>2. PICK task : task = [req[r] EXCEPT !.pc = "apply", !.seen = row[s]]
    OBVIOUS
  <2>3. /\ req[r].pc = "refresh" /\ UNCHANGED <<row, born, entry, up>>
        /\ \/ row[s] # Nil /\ UNCHANGED doubt /\ req' = [req EXCEPT ![r] = task]
           \/ Fails(r)
    BY <1>0, <1>4, <2>1, <2>2 DEF Refresh
  <2>4. CASE row[s] # Nil /\ UNCHANGED doubt /\ req' = [req EXCEPT ![r] = task]
    <3>1. /\ task.pc = "apply" /\ task.id = s /\ task.alone = req[r].alone
          /\ task.seen = row[s] /\ task.patch = req[r].patch
      BY <2>1, <2>2, <2>3, TaskTypes DEF IInv
    <3>2. row'[s] = row[s] /\ req'[r] = task /\ (s \in EnabledRows' <=> s \in EnabledRows)
      BY <1>0, <2>3, <2>4 DEF EnabledRows
    <3>3. Prepared(s, task.patch)' <=> Prepared(s, task.patch)
      BY <2>3, <3>2 DEF Prepared, Agrees, EnabledRows, Wanted
    <3>4. Knows(r, s) => Knows(r, s)'
      BY <2>3, <2>4, <3>1, <3>2 DEF Knows
    <3>5. Ready(r, s) => Ready(r, s)'
      BY <2>3, <3>1, <3>2, <3>3 DEF Ready
    <3>6. \A t \in Schedules \ {s} : row'[t] = row[t] /\ entry'[t] = entry[t]
      BY <2>3
    <3> QED
      BY <2>1, <2>3, <2>4, <3>1, <3>4, <3>5, <3>6, GoOnInv
  <2>5. CASE Fails(r)
    BY <2>1, <2>3, <2>5, FailInv
  <2> QED
    BY <2>3, <2>4, <2>5
<1>5. ASSUME NEW r \in Requests, Apply(r)
      PROVE  \A t \in Schedules : ScheduleInv(t)'
  <2>1. PICK s \in Schedules : s = req[r].id
    BY <1>5, TaskTypes DEF Apply, IInv
  <2>2. PICK seen, patch : seen = req[r].seen /\ patch = req[r].patch
    OBVIOUS
  <2>3. req[r].pc = "apply" /\ UNCHANGED <<row, born, up>>
    BY <1>5 DEF Apply
  <2>4. \A t \in Schedules \ {s} : row'[t] = row[t] /\ entry'[t] = entry[t]
    BY <1>0, <1>5, <2>1, <2>3 DEF Apply, Cancel, ScheduleCron
  <2>5. ASSUME Knows(r, s)
        PROVE  /\ row[s] # Nil /\ row'[s] = row[s] /\ seen = row[s]
               /\ patch = Nil => row[s].enabled
               /\ s \in EnabledRows <=> row[s].enabled
    BY <2>2, <2>3, <2>5 DEF Knows, EnabledRows
  <2>6. CASE Removes(seen, patch) /\ entry' = Cancel(s) /\ Succeeds(r, TRUE)
    <3>1. Knows(r, s) => Agrees(s)'
      BY <1>0, <2>3, <2>5, <2>6 DEF Removes, Cancel, Agrees, Wanted, EnabledRows
    <3> QED
      BY <2>1, <2>3, <2>4, <2>6, <3>1, SuccessInv
  <2>7. CASE Adds(seen, patch) /\ entry' = ScheduleCron(s, seen.cron)
    <3>1. CASE seen.cron \in Valid /\ Succeeds(r, FALSE)
      <4>1. entry'[s] = seen.cron
        BY <1>0, <2>7, <3>1 DEF ScheduleCron
      <4>2. Knows(r, s) => Agrees(s)'
        BY <2>3, <2>5, <2>7, <4>1 DEF Adds, Agrees, Wanted, EnabledRows
      <4> QED
        BY <2>1, <2>3, <2>4, <3>1, <4>2, SuccessInv
    <3>2. CASE Fails(r)
      BY <2>1, <2>3, <2>4, <3>2, FailInv
    <3> QED
      BY <1>5, <2>1, <2>2, <2>7, <3>1, <3>2 DEF Apply, Adds, Removes
  <2>8. CASE /\ ~Removes(seen, patch) /\ ~Adds(seen, patch)
             /\ Finish(r) /\ UNCHANGED <<entry, doubt, stopped>>
    <3>1. ASSUME ~doubt[s], Knows(r, s), Ready(r, s)
          PROVE  Agrees(s)'
      <4>1. Prepared(s, patch) /\ s \in EnabledRows
        BY <2>2, <2>3, <2>5, <2>8, <3>1 DEF Ready, Removes, Adds
      <4>2. Agrees(s)
        BY <2>5, <2>8, <3>1, <4>1 DEF Prepared, Adds
      <4> QED
        BY <2>3, <2>8, <4>2 DEF Agrees, Wanted, EnabledRows
    <3> QED
      BY <2>1, <2>3, <2>4, <2>8, <3>1, EndInv
  <2> QED
    <3>1. \/ Removes(seen, patch) /\ entry' = Cancel(s) /\ Succeeds(r, TRUE)
          \/ Adds(seen, patch) /\ entry' = ScheduleCron(s, seen.cron)
          \/ /\ ~Removes(seen, patch) /\ ~Adds(seen, patch)
             /\ Finish(r) /\ UNCHANGED <<entry, doubt, stopped>>
      BY <1>5, <2>1, <2>2 DEF Apply
    <3> QED
      BY <2>6, <2>7, <2>8, <3>1
<1>6. ASSUME NEW r \in Requests, PatchWrite(r)
      PROVE  \A t \in Schedules : ScheduleInv(t)'
  <2>1. PICK s \in Schedules : s = req[r].id
    BY <1>6, TaskTypes DEF PatchWrite, IInv
  <2>2. PICK seen, patch : seen = req[r].seen /\ patch = req[r].patch
    OBVIOUS
  <2>3. PICK task : task = [req[r] EXCEPT !.pc = "refresh"]
    OBVIOUS
  <2>4. /\ req[r].pc = "write" /\ UNCHANGED <<born, entry, up, doubt>>
        /\ \/ /\ row[s] # Nil /\ row' = [row EXCEPT ![s] = Updated(row[s], seen, patch)]
              /\ req' = [req EXCEPT ![r] = task]
           \/ Finish(r) /\ UNCHANGED row
    BY <1>0, <1>6, <2>1, <2>2, <2>3 DEF PatchWrite, Goto
  <2>5. CASE /\ row[s] # Nil /\ row' = [row EXCEPT ![s] = Updated(row[s], seen, patch)]
             /\ req' = [req EXCEPT ![r] = task]
    <3>1. /\ task.pc = "refresh" /\ task.id = s /\ task.alone = req[r].alone
          /\ task.patch = patch /\ patch \in Patches
      BY <2>1, <2>2, <2>3, <2>4, TaskTypes DEF IInv
    <3>2. row[s] \in Rows /\ row'[s] = Updated(row[s], seen, patch) /\ req'[r] = task
      BY <1>0, <2>5
    <3>3. row'[s] \in Rows /\ row'[s] # Nil /\ patch # Nil
      BY <3>1, <3>2, PatchKeepsRow, NilAssumption
    <3>4. ASSUME seen = row[s], patch.cron = Nil, patch.enabled # TRUE, row'[s].enabled
          PROVE  row'[s] = row[s]
      <4>1. patch.enabled = Nil
        <5>1. row'[s].enabled =
                IF patch.enabled \in {Nil, row[s].enabled} THEN row[s].enabled ELSE patch.enabled
          BY <3>2, <3>4 DEF Updated
        <5>2. patch.enabled = FALSE => row'[s].enabled = FALSE
          <6>1. FALSE # Nil
            BY NilAssumption
          <6> QED
            BY <5>1, <6>1
        <5>3. patch.enabled \in {TRUE, FALSE, Nil}
          BY <3>1 DEF Patches
        <5> QED
          BY <3>4, <5>2, <5>3
      <4>2. row'[s] = [enabled |-> row[s].enabled, cron |-> row[s].cron]
        BY <3>2, <3>4, <4>1 DEF Updated
      <4> QED
        BY <3>2, <4>2 DEF Rows
    <3>5. ASSUME Knows(r, s), Ready(r, s)
          PROVE  Prepared(s, patch)'
      <4>1. seen = row[s] /\ Agrees(s)
        BY <2>2, <2>4, <3>5 DEF Knows, Ready
      <4> QED
        BY <2>4, <3>4, <4>1 DEF Prepared, Agrees, EnabledRows, Wanted
    <3>6. Knows(r, s)'
      BY <3>1, <3>2, <3>3 DEF Knows
    <3>7. Knows(r, s) /\ Ready(r, s) => Ready(r, s)'
      BY <3>1, <3>2, <3>5 DEF Ready
    <3>8. \A t \in Schedules \ {s} : row'[t] = row[t] /\ entry'[t] = entry[t]
      BY <1>0, <2>4, <2>5
    <3> QED
      BY <2>1, <2>4, <2>5, <3>1, <3>6, <3>7, <3>8, GoOnInv
  <2>6. CASE Finish(r) /\ UNCHANGED row
    <3>1. Ready(r, s) => Agrees(s)'
      BY <2>4, <2>6 DEF Ready, Agrees, Wanted, EnabledRows
    <3> QED
      BY <2>1, <2>4, <2>6, <3>1, EndInv
  <2> QED
    BY <2>4, <2>5, <2>6
<1>7. ASSUME NEW r \in Requests, DeleteRow(r)
      PROVE  \A t \in Schedules : ScheduleInv(t)'
  <2>1. PICK s \in Schedules : s = req[r].id
    BY <1>7, TaskTypes DEF DeleteRow, IInv
  <2>2. /\ req[r].pc = "delete" /\ UNCHANGED <<born, entry, up>>
        /\ \/ row' = [row EXCEPT ![s] = Nil] /\ Succeeds(r, TRUE)
           \/ Fails(r) /\ UNCHANGED row
    BY <1>7, <2>1 DEF DeleteRow
  <2>3. CASE row' = [row EXCEPT ![s] = Nil] /\ Succeeds(r, TRUE)
    <3>1. Knows(r, s) => Agrees(s)'
      BY <1>0, <2>2, <2>3 DEF Knows, Agrees, EnabledRows, Wanted
    <3>2. \A t \in Schedules \ {s} : row'[t] = row[t] /\ entry'[t] = entry[t]
      BY <1>0, <2>2, <2>3
    <3> QED
      BY <2>1, <2>2, <2>3, <3>1, <3>2, SuccessInv
  <2>4. CASE Fails(r) /\ UNCHANGED row
    BY <2>1, <2>2, <2>4, FailInv
  <2> QED
    BY <2>2, <2>3, <2>4
<1>8. CASE Start
  <2>1. SUFFICES ASSUME NEW t \in Schedules
                 PROVE  ScheduleInv(t)'
    OBVIOUS
  <2>2. On(t) = {} /\ On(t)' = {} /\ ~up /\ up'
    BY <1>8 DEF Start, On, IInv, ScheduleInv, Down
  <2>3. entry'[t] = Wanted(t) /\ Wanted(t)' = Wanted(t) /\ row' = row /\ born' = born
    BY <1>8 DEF Start, Loaded, Wanted, EnabledRows
  <2>4. t \notin born => row[t] = Nil /\ entry'[t] = Nil
    BY <2>3 DEF IInv, ScheduleInv, Unborn, Wanted, EnabledRows
  <2> QED
    BY <2>2, <2>3, <2>4 DEF ScheduleInv, Unborn, Down, Alone, Certain, Agrees
<1>9. CASE Crash
  <2>1. SUFFICES ASSUME NEW t \in Schedules
                 PROVE  ScheduleInv(t)'
    OBVIOUS
  <2>2. On(t)' = {} /\ ~up' /\ entry'[t] = Nil /\ row' = row /\ born' = born
    BY <1>9, NilAssumption DEF Crash, On, Idle
  <2> QED
    BY <2>2 DEF IInv, ScheduleInv, Unborn, Down, Alone, Certain
<1>10. CASE UNCHANGED vars
  BY <1>10, Frame DEF vars, IInv, On
<1>11. ASSUME NEW s \in Schedules, RunStep(s)
       PROVE  \A t \in Schedules : ScheduleInv(t)'
  BY <1>11, RunChangesRun, Frame DEF IInv, On
<1> QED
  BY <1>1, <1>2, <1>3, <1>4, <1>5, <1>6, <1>7, <1>8, <1>9, <1>10, <1>11 DEF Next, RunStep

\* The invariant holds initially: nothing is stored, and the process is down.
LEMMA InvInit == Init => IInv
<1> SUFFICES ASSUME Init PROVE IInv
  OBVIOUS
<1>1. \A s \in Schedules : On(s) = {}
  BY NilAssumption DEF Init, On, Idle
<1> QED
  BY <1>1, TypeInit DEF Init, IInv, ScheduleInv, Unborn, Down, Alone, Certain

\* Whatever the number of schedules, expressions and requests, with crashes and
\* with errors of Postgres at any step of create, patch_schedule and
\* delete_schedule: where no request on a schedule is under way, APScheduler
\* runs it as its row says, unless requests have overlapped on it or one has
\* failed halfway and no startup and no good request on its own came after.
THEOREM EntriesFollow == Spec => []EntriesFollowRows
<1>1. IInv /\ [Next]_vars => IInv'
  BY InvStep, TypeStep DEF IInv
<1>2. IInv => EntriesFollowRows
  BY DEF IInv, ScheduleInv, Certain, EntriesFollowRows, Agrees
<1> QED
  BY <1>1, <1>2, InvInit, PTL DEF Spec
-----------------------------------------------------------------------------
\* What keeps a stopped schedule stopped: its row is not enabled, and none of
\* the requests on it, however many there are, will make it so or schedule it.
Harmless(r) ==
  \/ req[r].pc = "delete"
  \/ /\ req[r].patch \in Patches /\ req[r].patch.enabled # TRUE
     /\ req[r].pc = "apply" => ~req[r].seen.enabled
StopInv(s) ==
  stopped[s] => /\ s \in born /\ entry[s] = Nil /\ s \notin EnabledRows
                /\ \A r \in On(s) : Harmless(r)

\* It is not disturbed by a step that leaves s to itself, or that adds to s, or
\* moves on, one harmless request.
LEMMA StopFrame ==
  ASSUME NEW t \in Schedules, StopInv(t), stopped'[t] => stopped[t], born \subseteq born',
         stopped[t] => entry'[t] = Nil /\ t \notin EnabledRows',
         \A q \in On(t)' : \/ Harmless(q)'
                          \/ /\ q \in On(t) /\ req'[q].pc = req[q].pc
                             /\ req'[q].patch = req[q].patch /\ req'[q].seen = req[q].seen
  PROVE  StopInv(t)'
<1> SUFFICES ASSUME stopped'[t], NEW q \in On(t)'
             PROVE  Harmless(q)'
  BY DEF StopInv
<1>1. stopped[t]
  OBVIOUS
<1> QED
  BY <1>1 DEF StopInv, Harmless

\* Nor by the beginning of a request that is harmless or ends the stop.
LEMMA BeginStop ==
  ASSUME IInv, \A t \in Schedules : StopInv(t),
         NEW r \in Requests, NEW s \in Schedules, NEW pc, NEW seen, NEW patch,
         Begin(r, s, pc, seen, patch), born \subseteq born',
         \A t \in Schedules : stopped'[t] => stopped[t],
         \A t \in Schedules : stopped'[t] => entry'[t] \in {entry[t], Nil} /\ row'[t] = row[t],
         stopped'[s] => pc = "delete" \/ (pc = "write" /\ patch \in Patches /\ patch.enabled # TRUE)
  PROVE  \A t \in Schedules : StopInv(t)'
<1>0. \A q \in Requests : req'[q] =
            IF q = r THEN [pc |-> pc, id |-> s, alone |-> On(s) = {}, seen |-> seen, patch |-> patch]
            ELSE IF q \in On(s) THEN [req[q] EXCEPT !.alone = FALSE] ELSE req[q]
  BY DEF Begin
<1>1. req'[r].id = s /\ req'[r].pc = pc /\ req'[r].patch = patch
  <2>1. PICK b \in BOOLEAN : b = (On(s) = {})
    OBVIOUS
  <2>2. req'[r] = [pc |-> pc, id |-> s, alone |-> b, seen |-> seen, patch |-> patch]
    BY <1>0, <2>1
  <2> QED
    BY <2>2
<1>2. \A q \in Requests \ {r} : /\ req'[q].pc = req[q].pc /\ req'[q].id = req[q].id
                               /\ req'[q].patch = req[q].patch /\ req'[q].seen = req[q].seen
  <2>1. \A task \in Tasks : /\ [task EXCEPT !.alone = FALSE].id = task.id
                            /\ [task EXCEPT !.alone = FALSE].pc = task.pc
                            /\ [task EXCEPT !.alone = FALSE].patch = task.patch
                            /\ [task EXCEPT !.alone = FALSE].seen = task.seen
    BY DEF Tasks, Idle
  <2>2. \A q \in Requests : req[q] \in Tasks
    BY DEF IInv, TypeOK
  <2> QED
    BY <1>0, <2>1, <2>2
<1> SUFFICES ASSUME NEW t \in Schedules, stopped'[t]
             PROVE  StopInv(t)'
  BY DEF StopInv
<1>3. stopped[t] /\ entry'[t] = Nil /\ row'[t] = row[t] /\ t \notin EnabledRows
  BY DEF StopInv
<1>4. t \notin EnabledRows'
  BY <1>3 DEF EnabledRows
<1>5. ASSUME NEW q \in On(t)'
      PROVE  \/ Harmless(q)'
             \/ /\ q \in On(t) /\ req'[q].pc = req[q].pc
                /\ req'[q].patch = req[q].patch /\ req'[q].seen = req[q].seen
  <2>1. q \in Requests /\ req'[q].id = t
    BY DEF On
  <2>2. CASE q = r
    BY <1>1, <2>1, <2>2 DEF Harmless
  <2>3. CASE q # r
    BY <1>2, <2>1, <2>3 DEF On
  <2> QED
    BY <2>2, <2>3
<1> QED
  BY <1>3, <1>4, <1>5, StopFrame

\* Nor by the end of a request, which stops s only if it was alone and has left
\* a row that is not enabled, and no entry.
LEMMA EndStop ==
  ASSUME IInv, \A t \in Schedules : StopInv(t),
         NEW r \in Requests, NEW s \in Schedules, req[r].id = s, Finish(r), born' = born,
         \A t \in Schedules \ {s} : row'[t] = row[t] /\ entry'[t] = entry[t] /\ stopped'[t] = stopped[t],
         stopped[s] => entry'[s] = Nil /\ s \notin EnabledRows',
         stopped'[s] => \/ stopped[s]
                        \/ req[r].alone /\ (Knows(r, s) => entry'[s] = Nil /\ s \notin EnabledRows')
  PROVE  \A t \in Schedules : StopInv(t)'
<1>0. req'[r] = Idle /\ Idle.id = Nil /\ \A q \in Requests \ {r} : req'[q] = req[q]
  BY DEF IInv, TypeOK, Finish, Idle
<1>1. \A t \in Schedules : On(t)' = On(t) \ {r} /\ \A q \in On(t) \ {r} : req'[q] = req[q]
  BY <1>0, NilAssumption DEF On
<1>2. ASSUME NEW t \in Schedules, t # s
      PROVE  StopInv(t)'
  <2>1. t \in EnabledRows' <=> t \in EnabledRows
    BY <1>2 DEF EnabledRows
  <2>2. stopped[t] => entry'[t] = Nil /\ t \notin EnabledRows'
    BY <1>2, <2>1 DEF StopInv
  <2> QED
    BY <1>1, <1>2, <2>2, StopFrame
<1>3. StopInv(s)'
  <2>1. CASE stopped[s]
    BY <1>1, <2>1, StopFrame
  <2>2. CASE ~stopped[s] /\ stopped'[s]
    <3>1. r \in On(s) /\ req[r].alone /\ ScheduleInv(s)
      BY <2>2 DEF On, IInv
    <3>2. On(s) = {r} /\ Knows(r, s) /\ s \in born
      BY <3>1 DEF ScheduleInv, Alone, Unborn
    <3> QED
      BY <1>1, <2>2, <3>2 DEF StopInv
  <2> QED
    BY <2>1, <2>2 DEF StopInv
<1> QED
  BY <1>2, <1>3

\* Every step keeps it.
LEMMA StopStep ==
  ASSUME IInv, \A t \in Schedules : StopInv(t), [Next]_vars
  PROVE  \A t \in Schedules : StopInv(t)'
<1>0. /\ row \in [Schedules -> Rows \cup {Nil}] /\ entry \in [Schedules -> Valid \cup {Nil}]
      /\ req \in [Requests -> Tasks] /\ DOMAIN stopped = Schedules
  BY DEF IInv, TypeOK
<1>1. ASSUME NEW r \in Requests, NEW s \in Schedules, NEW cron \in Crons, Create(r, s, cron)
      PROVE  \A t \in Schedules : StopInv(t)'
  <2>1. Begin(r, s, "refresh", Nil, Nil) /\ stopped' = stopped /\ entry' = entry
    BY <1>1 DEF Create
  <2>2. ~stopped[s]
    BY <1>1 DEF Create, StopInv
  <2>3. \A t \in Schedules \ {s} : row'[t] = row[t]
    BY <1>0, <1>1 DEF Create
  <2>4. born \subseteq born'
    BY <1>1 DEF Create
  <2> QED
    BY <2>1, <2>2, <2>3, <2>4, BeginStop
<1>2. ASSUME NEW r \in Requests, NEW s \in Schedules, NEW patch \in Patches, PatchRead(r, s, patch)
      PROVE  \A t \in Schedules : StopInv(t)'
  <2>1. /\ Begin(r, s, "write", row[s], patch) /\ UNCHANGED <<row, born, entry>>
        /\ stopped' = [stopped EXCEPT ![s] = stopped[s] /\ patch.enabled # TRUE]
    BY <1>2 DEF PatchRead
  <2>2. \A t \in Schedules : stopped'[t] => stopped[t]
    BY <1>0, <2>1
  <2>3. stopped'[s] => patch.enabled # TRUE
    BY <1>0, <2>1
  <2> QED
    BY <2>1, <2>2, <2>3, BeginStop
<1>3. ASSUME NEW r \in Requests, NEW s \in Schedules, DeleteCancel(r, s)
      PROVE  \A t \in Schedules : StopInv(t)'
  <2>1. /\ Begin(r, s, "delete", Nil, Nil) /\ UNCHANGED <<row, born, stopped>>
        /\ entry' = [entry EXCEPT ![s] = Nil]
    BY <1>3 DEF DeleteCancel, Cancel
  <2>2. \A t \in Schedules : entry'[t] \in {entry[t], Nil}
    BY <1>0, <2>1
  <2> QED
    BY <2>1, <2>2, BeginStop
<1>4. ASSUME NEW r \in Requests, NEW s \in Schedules, s = req[r].id, Fails(r),
             UNCHANGED <<row, born>>, entry' = entry
      PROVE  \A t \in Schedules : StopInv(t)'
  <2>1. Finish(r) /\ stopped' = stopped
    BY <1>4 DEF Fails
  <2>2. stopped[s] => entry'[s] = Nil /\ s \notin EnabledRows'
    BY <1>4 DEF StopInv, EnabledRows
  <2> QED
    BY <1>4, <2>1, <2>2, EndStop
<1>5. ASSUME NEW r \in Requests, Refresh(r)
      PROVE  \A t \in Schedules : StopInv(t)'
  <2>1. PICK s \in Schedules : s = req[r].id
    BY <1>5, TaskTypes DEF Refresh, IInv
  <2>2. PICK task : task = [req[r] EXCEPT !.pc = "apply", !.seen = row[s]]
    OBVIOUS
  <2>3. /\ req[r].pc = "refresh" /\ UNCHANGED <<row, born, entry>>
        /\ \/ row[s] # Nil /\ UNCHANGED stopped /\ req' = [req EXCEPT ![r] = task]
           \/ Fails(r)
    BY <1>0, <1>5, <2>1, <2>2 DEF Refresh
  <2>4. ASSUME row[s] # Nil, UNCHANGED stopped, req' = [req EXCEPT ![r] = task],
               NEW t \in Schedules, stopped[t]
        PROVE  StopInv(t)'
    <3>1. /\ task.pc = "apply" /\ task.id = s /\ task.seen = row[s] /\ task.patch = req[r].patch
      BY <2>1, <2>2, <2>3, TaskTypes DEF IInv
    <3>2. req'[r] = task /\ \A q \in Requests \ {r} : req'[q] = req[q]
      BY <1>0, <2>4
    <3>3. On(t)' = On(t) /\ (r \in On(t) => t = s)
      BY <2>1, <3>1, <3>2 DEF On
    <3>4. entry'[t] = Nil /\ t \notin EnabledRows /\ t \notin EnabledRows'
      BY <2>3, <2>4 DEF StopInv, EnabledRows
    <3>5. r \in On(t) => Harmless(r)'
      <4>1. r \in On(t) => Harmless(r) /\ t = s /\ ~row[s].enabled
        BY <2>4, <3>3, <3>4 DEF StopInv, EnabledRows
      <4> QED
        BY <2>3, <3>1, <3>2, <4>1 DEF Harmless
    <3>6. \A q \in On(t)' : Harmless(q)' \/ (q \in On(t) /\ req'[q] = req[q])
      BY <3>2, <3>3, <3>5 DEF On
    <3>7. stopped'[t] => stopped[t]
      BY <2>4
    <3> QED
      BY <2>3, <3>4, <3>6, <3>7, StopFrame
  <2>5. CASE Fails(r)
    BY <1>4, <2>1, <2>3, <2>5
  <2> QED
    BY <2>3, <2>4, <2>5 DEF StopInv
<1>6. ASSUME NEW r \in Requests, Apply(r)
      PROVE  \A t \in Schedules : StopInv(t)'
  <2>1. PICK s \in Schedules : s = req[r].id
    BY <1>6, TaskTypes DEF Apply, IInv
  <2>2. PICK seen, patch : seen = req[r].seen /\ patch = req[r].patch
    OBVIOUS
  <2>3. req[r].pc = "apply" /\ UNCHANGED <<row, born>> /\ EnabledRows' = EnabledRows
    BY <1>6 DEF Apply, EnabledRows
  <2>4. \A t \in Schedules \ {s} : row'[t] = row[t] /\ entry'[t] = entry[t]
    BY <1>0, <1>6, <2>1, <2>3 DEF Apply, Cancel, ScheduleCron
  <2>5. stopped[s] => /\ entry[s] = Nil /\ s \notin EnabledRows
                      /\ patch \in Patches /\ patch # Nil /\ ~seen.enabled
    <3>1. stopped[s] => entry[s] = Nil /\ s \notin EnabledRows /\ Harmless(r)
      BY <2>1 DEF StopInv, On
    <3> QED
      BY <2>2, <2>3, <3>1, NilAssumption DEF Harmless
  <2>6. CASE Removes(seen, patch) /\ entry' = Cancel(s) /\ Succeeds(r, TRUE)
    <3>1. Finish(r) /\ entry'[s] = Nil
      BY <1>0, <2>6 DEF Cancel, Succeeds
    <3>2. Knows(r, s) => s \notin EnabledRows'
      BY <2>2, <2>3, <2>6 DEF Knows, Removes, EnabledRows
    <3>3. /\ stopped'[s] => stopped[s] \/ req[r].alone
          /\ \A t \in Schedules \ {s} : stopped'[t] = stopped[t]
      BY <1>0, <2>1, <2>6 DEF Succeeds
    <3> QED
      BY <2>1, <2>3, <2>4, <2>5, <3>1, <3>2, <3>3, EndStop
  <2>7. CASE ~Removes(seen, patch)
    <3>1. ~stopped[s]
      BY <2>5, <2>7 DEF Removes
    <3>2. Finish(r) /\ \A t \in Schedules : stopped'[t] = stopped[t]
      <4>1. ASSUME Succeeds(r, FALSE)
            PROVE  Finish(r) /\ \A t \in Schedules : stopped'[t] = stopped[t]
        <5>1. stopped' = [stopped EXCEPT ![s] = stopped[s] \/ (req[r].alone /\ FALSE)]
          BY <2>1, <4>1 DEF Succeeds
        <5>2. (stopped[s] \/ (req[r].alone /\ FALSE)) = stopped[s]
          <6>1. stopped[s] \in BOOLEAN
            BY DEF IInv, TypeOK
          <6> QED
            BY <6>1
        <5> QED
          BY <1>0, <4>1, <5>1, <5>2 DEF Succeeds
      <4>2. Fails(r) => Finish(r) /\ stopped' = stopped
        BY DEF Fails
      <4>3. Succeeds(r, FALSE) \/ Fails(r) \/ (Finish(r) /\ stopped' = stopped)
        BY <1>6, <2>2, <2>7 DEF Apply
      <4> QED
        BY <4>1, <4>2, <4>3
    <3> QED
      BY <2>1, <2>3, <2>4, <3>1, <3>2, EndStop
  <2> QED
    <3>1. Removes(seen, patch) => entry' = Cancel(s) /\ Succeeds(r, TRUE)
      BY <1>6, <2>1, <2>2 DEF Apply, Adds, Removes
    <3> QED
      BY <2>6, <2>7, <3>1
<1>7. ASSUME NEW r \in Requests, PatchWrite(r)
      PROVE  \A t \in Schedules : StopInv(t)'
  <2>1. PICK s \in Schedules : s = req[r].id
    BY <1>7, TaskTypes DEF PatchWrite, IInv
  <2>2. PICK seen, patch : seen = req[r].seen /\ patch = req[r].patch
    OBVIOUS
  <2>3. PICK task : task = [req[r] EXCEPT !.pc = "refresh"]
    OBVIOUS
  <2>4. /\ req[r].pc = "write" /\ UNCHANGED <<born, entry, stopped>>
        /\ \/ /\ row[s] # Nil /\ row' = [row EXCEPT ![s] = Updated(row[s], seen, patch)]
              /\ req' = [req EXCEPT ![r] = task]
           \/ Finish(r) /\ UNCHANGED row
    BY <1>0, <1>7, <2>1, <2>2, <2>3 DEF PatchWrite, Goto
  <2>5. ASSUME row[s] # Nil, row' = [row EXCEPT ![s] = Updated(row[s], seen, patch)],
               req' = [req EXCEPT ![r] = task], NEW t \in Schedules, stopped[t]
        PROVE  StopInv(t)'
    <3>1. /\ task.pc = "refresh" /\ task.id = s /\ task.patch = patch /\ patch \in Patches
      BY <2>1, <2>2, <2>3, <2>4, TaskTypes DEF IInv
    <3>2. req'[r] = task /\ \A q \in Requests \ {r} : req'[q] = req[q]
      BY <1>0, <2>5
    <3>3. On(t)' = On(t) /\ (r \in On(t) <=> t = s)
      BY <2>1, <3>1, <3>2 DEF On
    <3>4. entry'[t] = Nil /\ t \notin EnabledRows /\ \A q \in On(t) : Harmless(q)
      BY <2>4, <2>5 DEF StopInv
    <3>5. t = s => patch.enabled # TRUE /\ ~row[s].enabled
      BY <2>2, <2>4, <2>5, <3>3, <3>4 DEF Harmless, EnabledRows
    <3>6. t \notin EnabledRows'
      <4>1. CASE t = s
        <5>1. row'[s] = Updated(row[s], seen, patch)
          BY <1>0, <2>5
        <5>2. row'[s].enabled =
                IF patch.enabled \in {Nil, seen.enabled} THEN row[s].enabled ELSE patch.enabled
          BY <5>1 DEF Updated
        <5>3. patch.enabled \in {TRUE, FALSE, Nil}
          BY <3>1 DEF Patches
        <5>4. ~row'[s].enabled
          BY <3>5, <4>1, <5>2, <5>3
        <5> QED
          BY <4>1, <5>4 DEF EnabledRows
      <4>2. CASE t # s
        BY <1>0, <2>5, <3>4, <4>2 DEF EnabledRows
      <4> QED
        BY <4>1, <4>2
    <3>7. r \in On(t) => Harmless(r)'
      BY <3>1, <3>2, <3>3, <3>5 DEF Harmless
    <3>8. \A q \in On(t)' : Harmless(q)' \/ (q \in On(t) /\ req'[q] = req[q])
      BY <3>2, <3>3, <3>7 DEF On
    <3>9. stopped'[t] => stopped[t]
      BY <2>4
    <3> QED
      BY <2>4, <3>4, <3>6, <3>8, <3>9, StopFrame
  <2>6. CASE Finish(r) /\ UNCHANGED row
    <3>1. stopped[s] => entry'[s] = Nil /\ s \notin EnabledRows'
      BY <2>4, <2>6 DEF StopInv, EnabledRows
    <3> QED
      BY <2>1, <2>4, <2>6, <3>1, EndStop
  <2> QED
    BY <2>4, <2>5, <2>6 DEF StopInv
<1>8. ASSUME NEW r \in Requests, DeleteRow(r)
      PROVE  \A t \in Schedules : StopInv(t)'
  <2>1. PICK s \in Schedules : s = req[r].id
    BY <1>8, TaskTypes DEF DeleteRow, IInv
  <2>2. /\ req[r].pc = "delete" /\ UNCHANGED <<born, entry>>
        /\ \/ row' = [row EXCEPT ![s] = Nil] /\ Succeeds(r, TRUE)
           \/ Fails(r) /\ UNCHANGED row
    BY <1>8, <2>1 DEF DeleteRow
  <2>3. CASE row' = [row EXCEPT ![s] = Nil] /\ Succeeds(r, TRUE)
    <3>1. Finish(r) /\ s \notin EnabledRows' /\ \A t \in Schedules \ {s} : row'[t] = row[t]
      BY <1>0, <2>3 DEF Succeeds, EnabledRows
    <3>2. (Knows(r, s) => entry'[s] = Nil) /\ (stopped[s] => entry'[s] = Nil)
      BY <2>2 DEF Knows, StopInv
    <3>3. /\ stopped'[s] => stopped[s] \/ req[r].alone
          /\ \A t \in Schedules \ {s} : stopped'[t] = stopped[t]
      BY <1>0, <2>1, <2>3 DEF Succeeds
    <3> QED
      BY <2>1, <2>2, <3>1, <3>2, <3>3, EndStop
  <2>4. CASE Fails(r) /\ UNCHANGED row
    BY <1>4, <2>1, <2>2, <2>4
  <2> QED
    BY <2>2, <2>3, <2>4
<1>9. ASSUME UNCHANGED <<row, born, req, stopped>>,
             \A t \in Schedules : t \notin EnabledRows => entry'[t] \in {entry[t], Nil}
      PROVE  \A t \in Schedules : StopInv(t)'
  <2> SUFFICES ASSUME NEW t \in Schedules
               PROVE  StopInv(t)'
    OBVIOUS
  <2>1. On(t)' = On(t) /\ EnabledRows' = EnabledRows
    BY <1>9 DEF On, EnabledRows
  <2>2. stopped[t] => entry'[t] = Nil
    BY <1>9 DEF StopInv
  <2> QED
    BY <1>9, <2>1, <2>2 DEF StopInv, Harmless
<1>10. CASE Start
  BY <1>9, <1>10 DEF Start, Loaded
<1>11. CASE Crash
  <2> SUFFICES ASSUME NEW t \in Schedules
               PROVE  StopInv(t)'
    OBVIOUS
  <2>1. On(t)' = {} /\ entry'[t] = Nil /\ UNCHANGED <<born, stopped>> /\ EnabledRows' = EnabledRows
    BY <1>11, NilAssumption DEF Crash, On, Idle, EnabledRows
  <2> QED
    BY <2>1 DEF StopInv
<1>12. CASE UNCHANGED vars
  BY <1>9, <1>12 DEF vars
<1>13. ASSUME NEW s \in Schedules, RunStep(s)
       PROVE  \A t \in Schedules : StopInv(t)'
  BY <1>9, <1>13, RunChangesRun
<1> QED
  BY <1>1, <1>2, <1>3, <1>5, <1>6, <1>7, <1>8, <1>10, <1>11, <1>12, <1>13 DEF Next, RunStep

\* No step begins a run of a schedule that has no entry.
LEMMA RunNeedsEntry ==
  ASSUME TypeOK, [Next]_vars, NEW s \in Schedules, entry[s] = Nil, run[s] = "idle"
  PROVE  run'[s] = "idle"
<1>0. run \in [Schedules -> {"idle", "get", "stamp", "submit"}]
  BY DEF TypeOK
<1>1. ASSUME NEW t \in Schedules, RunStep(t)
      PROVE  run'[s] = "idle"
  BY <1>0, <1>1 DEF RunStep, Trigger, Triggered, GetRow, Stamp, Submit
<1>2. CASE Crash
  BY <1>2 DEF Crash
<1>3. CASE UNCHANGED run
  BY <1>3
<1> QED
  BY <1>1, <1>2, <1>3
  DEF Next, vars, RunStep, Create, PatchRead, DeleteCancel, Refresh, Apply, PatchWrite,
      DeleteRow, Start

\* With any number of schedules and requests: once a PATCH or a DELETE on its
\* own has stopped a schedule, _run_job does not begin for it until somebody
\* asks to enable it, whatever other requests overlap or fail on it after that,
\* and through restarts.
THEOREM DisabledStaysQuiet == Spec => NoRunAfterDisable
<1> DEFINE SInv == IInv /\ \A t \in Schedules : StopInv(t)
<1>1. Init => SInv
  BY InvInit DEF Init, StopInv
<1>2. SInv /\ [Next]_vars => SInv'
  BY InvStep, StopStep, TypeStep DEF IInv
<1>3. SInv /\ [Next]_vars =>
        [\A s \in Schedules : stopped[s] /\ run[s] = "idle" => run'[s] = "idle"]_vars
  BY RunNeedsEntry DEF IInv, StopInv
<1> QED
  BY <1>1, <1>2, <1>3, PTL DEF Spec, NoRunAfterDisable
=============================================================================
