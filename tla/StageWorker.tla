---------------------------- MODULE StageWorker ----------------------------
(***************************************************************************)
(* One Kafka consumer group of the pipeline, as every worker runs it:      *)
(* consume_with_backpressure polls a message, awaits the handler and then  *)
(* commits; the handler of an idempotent stage (crawler, parser, cleaner)  *)
(* first claims (event_id, stage) in the ledger, in a transaction of its   *)
(* own, and returns if the claim was already there.  Retry and dlq-replay  *)
(* run the same loop without a ledger: Idempotent = FALSE.                 *)
(*                                                                         *)
(* The broker is modelled from how kafka_client.py uses it: per-partition  *)
(* logs, one committed offset per partition, and eager rebalances, after   *)
(* which the new owner of a partition reads on from the committed offset   *)
(* while the old one may still be in the middle of a message.              *)
(***************************************************************************)
EXTENDS Integers, Sequences, FiniteSets

CONSTANTS
  Consumers,      \* the members the group may have
  Partitions,     \* the partitions of the consumed topic
  Events,         \* the event ids producers publish
  Idempotent,     \* TRUE for a stage with a ledger
  None,           \* no owner, no message
  MaxLog,         \* bound: messages published per partition
  MaxCrashes,     \* bound: consumer crashes
  MaxRebalances   \* bound: rebalances no unowned partition calls for

ASSUME IdempotentAssumption == Idempotent \in BOOLEAN
ASSUME NoneAssumption == None \notin Consumers
ASSUME BoundsAssumption == MaxLog \in Nat /\ MaxCrashes \in Nat /\ MaxRebalances \in Nat

VARIABLES
  log,        \* log[p]: the events published to p, in offset order
  committed,  \* committed[p]: how many messages of p the group has committed
  position,   \* position[p]: how many messages of p its owner has been given
  owner,      \* owner[p]: the consumer p is assigned to, or None
  pc,         \* pc[c]: where consumer c is in its loop
  hand,       \* hand[c]: the message c is working on, or None
  ledger,     \* processed_events rows of this stage
  done,       \* done[e]: how often the effects of e have been applied
  crashes,
  rebalances

vars == <<log, committed, position, owner, pc, hand, ledger, done, crashes, rebalances>>
broker == <<log, committed, position, owner>>
bounds == <<crashes, rebalances>>

Messages == [part : Partitions, off : Nat \ {0}]

TypeOK ==
  /\ log \in [Partitions -> Seq(Events)]
  /\ committed \in [Partitions -> Nat]
  /\ position \in [Partitions -> Nat]
  /\ owner \in [Partitions -> Consumers \cup {None}]
  /\ pc \in [Consumers -> {"idle", "claim", "handle", "commit", "down"}]
  /\ hand \in [Consumers -> Messages \cup {None}]
  /\ ledger \in SUBSET Events
  /\ done \in [Events -> Nat]
  /\ crashes \in 0..MaxCrashes
  /\ rebalances \in 0..MaxRebalances

Live == {c \in Consumers : pc[c] # "down"}
EventOf(m) == log[m.part][m.off]
Unowned == {p \in Partitions : owner[p] = None}

Init ==
  /\ log = [p \in Partitions |-> << >>]
  /\ committed = [p \in Partitions |-> 0]
  /\ position = [p \in Partitions |-> 0]
  /\ owner = [p \in Partitions |-> None]
  /\ pc = [c \in Consumers |-> "idle"]
  /\ hand = [c \in Consumers |-> None]
  /\ ledger = {}
  /\ done = [e \in Events |-> 0]
  /\ crashes = 0
  /\ rebalances = 0
-----------------------------------------------------------------------------
(* A producer publishes e.  The same event id may be published again: the  *)
(* cleaner's retry and the DLQ replay republish a payload with its id.     *)
Publish(p, e) ==
  /\ Len(log[p]) < MaxLog
  /\ log' = [log EXCEPT ![p] = Append(@, e)]
  /\ UNCHANGED <<committed, position, owner, pc, hand, ledger, done, bounds>>

CommitUnhandled == "commit"
NextStepAfterPoll == IF Idempotent THEN "claim" ELSE "handle"

SameOffsetAgain(p) == position[p]
NextOffset(p) == position[p] + 1

\* The loop takes the next message of a partition it owns.
Poll(c, p) ==
  /\ pc[c] = "idle"
  /\ owner[p] = c
  /\ position[p] < Len(log[p])
  /\ position' = [position EXCEPT ![p] = @ + 1]
  /\ hand' = [hand EXCEPT ![c] = [part |-> p, off |-> NextOffset(p)]]
  /\ pc' = [pc EXCEPT ![c] = NextStepAfterPoll]
  /\ UNCHANGED <<log, committed, owner, ledger, done, bounds>>

\* try_claim: INSERT ... ON CONFLICT DO NOTHING RETURNING gives a row.
ProcessAlways(e) == TRUE
ShouldProcess(e) == e \notin ledger

\* The claim is committed before any effect of the event.
ReturnAfterClaim == "commit"
NextStepAfterClaim == "handle"
Claim(c) ==
  /\ pc[c] = "claim"
  /\ ShouldProcess(EventOf(hand[c]))
  /\ ledger' = ledger \cup {EventOf(hand[c])}
  /\ pc' = [pc EXCEPT ![c] = NextStepAfterClaim]
  /\ UNCHANGED <<broker, hand, done, bounds>>

\* event_duplicate_skipped: the handler returns and the loop commits.
NextStepAfterSkip == "commit"
SkipDuplicate(c) ==
  /\ pc[c] = "claim"
  /\ ~ShouldProcess(EventOf(hand[c]))
  /\ pc' = [pc EXCEPT ![c] = NextStepAfterSkip]
  /\ UNCHANGED <<broker, hand, ledger, done, bounds>>

\* The handler's work, to its normal return.
Handle(c) ==
  /\ pc[c] = "handle"
  /\ done' = [done EXCEPT ![EventOf(hand[c])] = @ + 1]
  /\ pc' = [pc EXCEPT ![c] = "commit"]
  /\ UNCHANGED <<broker, hand, ledger, bounds>>

\* consumer.commit() without arguments: the positions of all the partitions
\* assigned to the caller now, whatever message it has just handled.
CommitToEnd(c, p) == IF owner[p] = c THEN Len(log[p]) ELSE committed[p]
CommitInHand(c, p) == IF hand[c].part = p THEN hand[c].off ELSE committed[p]
CommitOneShort(c, p) == IF owner[p] = c /\ position[p] > 0 THEN position[p] - 1 ELSE committed[p]
CommitUpTo(c, p) == IF owner[p] = c THEN position[p] ELSE committed[p]
Commit(c) ==
  /\ pc[c] = "commit"
  /\ committed' = [p \in Partitions |-> CommitUpTo(c, p)]
  /\ pc' = [pc EXCEPT ![c] = "idle"]
  /\ hand' = [hand EXCEPT ![c] = None]
  /\ UNCHANGED <<log, position, owner, ledger, done, bounds>>

\* The process dies, or an exception leaves the handler (or a commit of an
\* old generation) and ends consume_with_backpressure.
Crash(c) ==
  /\ pc[c] # "down"
  /\ crashes < MaxCrashes
  /\ crashes' = crashes + 1
  /\ pc' = [pc EXCEPT ![c] = "down"]
  /\ hand' = [hand EXCEPT ![c] = None]
  /\ owner' = [p \in Partitions |-> IF owner[p] = c THEN None ELSE owner[p]]
  /\ UNCHANGED <<log, committed, position, ledger, done, rebalances>>

Restart(c) ==
  /\ pc[c] = "down"
  /\ pc' = [pc EXCEPT ![c] = "idle"]
  /\ UNCHANGED <<broker, hand, ledger, done, bounds>>

\* The group assigns every partition anew.  Handlers are not told: there is
\* no rebalance listener, so a message in hand is worked on to its end.
ResumeFrom(p) == committed[p]
Rebalance(f) ==
  /\ Unowned # {} \/ rebalances < MaxRebalances
  /\ rebalances' = IF Unowned # {} THEN rebalances ELSE rebalances + 1
  /\ owner' = f
  /\ position' = [p \in Partitions |-> ResumeFrom(p)]
  /\ UNCHANGED <<log, committed, pc, hand, ledger, done, crashes>>

Step(c) == \/ \E p \in Partitions : Poll(c, p)
           \/ Claim(c) \/ SkipDuplicate(c) \/ Handle(c) \/ Commit(c)

Next ==
  \/ \E p \in Partitions, e \in Events : Publish(p, e)
  \/ \E c \in Consumers : Step(c) \/ Crash(c) \/ Restart(c)
  \/ \E f \in [Partitions -> Live] : Rebalance(f)

Spec == Init /\ [][Next]_vars

\* A running worker's loop goes on, and the coordinator reassigns the
\* partitions of a dead member.  Nothing restarts a dead worker: the compose
\* file states no restart policy.
Fairness ==
  /\ \A c \in Consumers : WF_vars(Step(c))
  /\ WF_vars(Unowned # {} /\ \E f \in [Partitions -> Live] : Rebalance(f))
FairSpec == Spec /\ Fairness
-----------------------------------------------------------------------------
Handling(e) == \E c \in Consumers : pc[c] = "handle" /\ EventOf(hand[c]) = e
Settled(e) == IF Idempotent THEN e \in ledger ELSE done[e] > 0

\* The effects of an event are applied at most once per stage, however often
\* it is published, redelivered or claimed by two consumers together
\* (IdempotencyService over uq_processed_events_event_stage).
AtMostOnce == Idempotent => \A e \in Events : done[e] <= 1

\* No offset is committed over a message nobody has claimed (idempotent
\* stages) or finished (retry, dlq-replay): commit_message's at-least-once
\* delivery, although commit() names no message and the assignment may have
\* changed since the poll.
CommittedSettled ==
  \A p \in Partitions : \A i \in 1..committed[p] :
    i \in DOMAIN log[p] /\ Settled(log[p][i])

\* A claimed event that is neither applied nor being applied was in the hands
\* of a crashed worker, one such event per crash.
LossNeedsCrash ==
  Idempotent =>
    Cardinality({e \in ledger : done[e] = 0 /\ ~Handling(e)}) <= crashes

\* The group's committed offset of a partition never goes back, whoever
\* commits and whatever rebalances come between.
CommitsAdvance ==
  [][\A p \in Partitions : committed'[p] >= committed[p]]_vars

\* Every published message is eventually committed as long as one member of
\* the group survives: a crash or a rebalance in mid-message delays it only.
Drained ==
  \A p \in Partitions : \A i \in 1..MaxLog :
    Len(log[p]) >= i ~> committed[p] >= i

\* The ledger's promise, stated without Kafka in EffectOnce.
Effect(e) == IF e \notin ledger THEN "none"
             ELSE IF done[e] > 0 THEN "applied"
             ELSE IF Handling(e) THEN "claimed"
             ELSE "lost"
Abstract == INSTANCE EffectOnce WITH effect <- [e \in Events |-> Effect(e)],
                                     failures <- crashes
ImplementsEffectOnce == Abstract!Spec

\* "Ensures exactly-once side effects per (event_id, stage)."
\* (application/idempotency.py:11): once the group has committed an event and
\* nobody is working on it, its effects have happened once.
ExactlyOnce ==
  \A p \in Partitions : \A i \in 1..committed[p] :
    ~Handling(log[p][i]) => done[log[p][i]] = 1
=============================================================================
