------------------------- MODULE StageWorkerProofs -------------------------
(***************************************************************************)
(* What a consumer group of the pipeline guarantees for every number of    *)
(* consumers, partitions, events, crashes and rebalances, proved in three  *)
(* layers of inductive invariants: the shape of the state, what the ledger *)
(* says about effects, and what a committed offset says about the ledger.  *)
(***************************************************************************)
EXTENDS StageWorker, FiniteSetTheorems, TLAPS

Busy == {"claim", "handle", "commit"}

\* A busy consumer has a published message in hand, and offsets are ordered.
ShapeInv ==
  /\ TypeOK
  /\ \A c \in Consumers : pc[c] \in Busy =>
       hand[c] \in Messages /\ hand[c].off <= Len(log[hand[c].part])
  /\ \A c \in Consumers : pc[c] = "claim" => Idempotent
  /\ \A p \in Partitions : committed[p] <= position[p] /\ position[p] <= Len(log[p])

\* Effects follow the claim, and a claimed event has one handler at most.
LedgerInv ==
  Idempotent =>
    /\ \A e \in Events : e \notin ledger => done[e] = 0
    /\ \A c \in Consumers : pc[c] = "handle" =>
         EventOf(hand[c]) \in ledger /\ done[EventOf(hand[c])] = 0
    /\ \A c, d \in Consumers :
         pc[c] = "handle" /\ pc[d] = "handle" /\ EventOf(hand[c]) = EventOf(hand[d]) => c = d
    /\ \A e \in Events : done[e] <= 1

\* A consumer commits only after its message is settled.
ReadyToCommit ==
  \A c \in Consumers : pc[c] = "commit" => Settled(EventOf(hand[c]))

\* Everything the owner of a partition was given is settled, or in its hands.
GivenSettled ==
  \A p \in Partitions, c \in Consumers : owner[p] = c =>
    \A i \in 1..position[p] :
      \/ Settled(log[p][i])
      \/ pc[c] \in {"claim", "handle"} /\ hand[c] = [part |-> p, off |-> i]

SettleInv == ReadyToCommit /\ GivenSettled /\ CommittedSettled
-----------------------------------------------------------------------------
\* Init and every step keep the types of the variables, the message in hand
\* inside the log, and committed <= position <= published.
LEMMA ShapeInit == Init => ShapeInv
BY BoundsAssumption DEF Init, ShapeInv, TypeOK, Busy

\* Every step of the group keeps its shape.
LEMMA ShapeStep == ShapeInv /\ [Next]_vars => ShapeInv'
<1> SUFFICES ASSUME ShapeInv, [Next]_vars PROVE ShapeInv'
  OBVIOUS
<1> USE DEF ShapeInv, TypeOK, Busy, Messages, broker, bounds
<1>1. ASSUME NEW p \in Partitions, NEW e \in Events, Publish(p, e)
      PROVE  ShapeInv'
  BY <1>1 DEF Publish
<1>2. ASSUME NEW c \in Consumers, NEW p \in Partitions, Poll(c, p)
      PROVE  ShapeInv'
  BY <1>2, IdempotentAssumption DEF Poll, NextStepAfterPoll, NextOffset
<1>3. ASSUME NEW c \in Consumers, Claim(c) PROVE ShapeInv'
  <2>1. EventOf(hand[c]) \in Events
    BY <1>3 DEF Claim, EventOf
  <2>2. UNCHANGED <<log, committed, position, owner, hand, done, crashes, rebalances>>
    BY <1>3 DEF Claim
  <2>3. ledger' \in SUBSET Events /\ pc' = [pc EXCEPT ![c] = "handle"] /\ pc[c] = "claim"
    BY <1>3, <2>1 DEF Claim, NextStepAfterClaim
  <2> QED
    BY <2>2, <2>3
<1>4. ASSUME NEW c \in Consumers, SkipDuplicate(c) PROVE ShapeInv'
  BY <1>4 DEF SkipDuplicate, NextStepAfterSkip
<1>5. ASSUME NEW c \in Consumers, Handle(c) PROVE ShapeInv'
  <2>1. UNCHANGED <<log, committed, position, owner, hand, ledger, crashes, rebalances>>
    BY <1>5 DEF Handle
  <2>2. done' \in [Events -> Nat] /\ pc' = [pc EXCEPT ![c] = "commit"] /\ pc[c] = "handle"
    BY <1>5 DEF Handle, EventOf
  <2> QED
    BY <2>1, <2>2
<1>6. ASSUME NEW c \in Consumers, Commit(c) PROVE ShapeInv'
  BY <1>6 DEF Commit, CommitUpTo
<1>7. ASSUME NEW c \in Consumers, Crash(c) PROVE ShapeInv'
  BY <1>7, BoundsAssumption DEF Crash
<1>8. ASSUME NEW c \in Consumers, Restart(c) PROVE ShapeInv'
  BY <1>8 DEF Restart
<1>9. ASSUME NEW f \in [Partitions -> Live], Rebalance(f) PROVE ShapeInv'
  BY <1>9, BoundsAssumption DEF Rebalance, ResumeFrom, Live
<1>10. CASE UNCHANGED vars
  BY <1>10 DEF vars
<1> QED
  BY <1>1, <1>2, <1>3, <1>4, <1>5, <1>6, <1>7, <1>8, <1>9, <1>10 DEF Next, Step
-----------------------------------------------------------------------------
\* No event of an idempotent stage has effects before its claim, or twice.
LEMMA LedgerInit == Init => LedgerInv
BY DEF Init, LedgerInv

\* Every step keeps what the ledger says of the handlers.
LEMMA LedgerStep == ShapeInv /\ LedgerInv /\ [Next]_vars => LedgerInv'
<1> SUFFICES ASSUME ShapeInv, LedgerInv, [Next]_vars, Idempotent PROVE LedgerInv'
  BY DEF LedgerInv
<1> USE DEF LedgerInv, TypeOK, Messages, EventOf
<1>0. TypeOK /\ \A c \in Consumers : pc[c] \in Busy =>
         hand[c] \in Messages /\ hand[c].off <= Len(log[hand[c].part])
  BY DEF ShapeInv
<1>1. ASSUME NEW p \in Partitions, NEW e \in Events, Publish(p, e)
      PROVE  LedgerInv'
  <2>1. \A q \in Partitions : \A i \in 1..Len(log[q]) : log'[q][i] = log[q][i]
    BY <1>0, <1>1 DEF Publish
  <2>2. \A c \in Consumers : pc[c] = "handle" =>
          log'[hand[c].part][hand[c].off] = log[hand[c].part][hand[c].off]
    BY <1>0, <2>1 DEF Busy
  <2>3. UNCHANGED <<pc, hand, ledger, done>>
    BY <1>1 DEF Publish
  <2> QED
    BY <2>2, <2>3
<1>2. ASSUME NEW c \in Consumers, NEW p \in Partitions, Poll(c, p)
      PROVE  LedgerInv'
  BY <1>0, <1>2 DEF Poll, NextStepAfterPoll, NextOffset
<1>3. ASSUME NEW c \in Consumers, Claim(c) PROVE LedgerInv'
  <2>1. EventOf(hand[c]) \in Events
    BY <1>0, <1>3 DEF Claim, Busy
  <2> QED
    BY <1>0, <1>3, <2>1 DEF Claim, NextStepAfterClaim, ShouldProcess, broker
<1>4. ASSUME NEW c \in Consumers, SkipDuplicate(c) PROVE LedgerInv'
  BY <1>0, <1>4 DEF SkipDuplicate, NextStepAfterSkip, broker
<1>5. ASSUME NEW c \in Consumers, Handle(c) PROVE LedgerInv'
  <2>1. EventOf(hand[c]) \in Events
    BY <1>0, <1>5 DEF Handle, Busy
  <2> QED
    BY <1>0, <1>5, <2>1 DEF Handle, broker
<1>6. ASSUME NEW c \in Consumers, Commit(c) PROVE LedgerInv'
  BY <1>0, <1>6 DEF Commit
<1>7. ASSUME NEW c \in Consumers, Crash(c) PROVE LedgerInv'
  BY <1>0, <1>7 DEF Crash
<1>8. ASSUME NEW c \in Consumers, Restart(c) PROVE LedgerInv'
  BY <1>0, <1>8 DEF Restart, broker
<1>9. ASSUME NEW f \in [Partitions -> Live], Rebalance(f) PROVE LedgerInv'
  BY <1>0, <1>9 DEF Rebalance
<1>10. CASE UNCHANGED vars
  BY <1>10 DEF vars
<1> QED
  BY <1>1, <1>2, <1>3, <1>4, <1>5, <1>6, <1>7, <1>8, <1>9, <1>10 DEF Next, Step
-----------------------------------------------------------------------------
\* What an owner was given before the message in its hands is settled.
LEMMA SettleInit == Init => SettleInv
BY NoneAssumption
   DEF Init, SettleInv, ReadyToCommit, GivenSettled, CommittedSettled

\* The log is append-only, and a settled event stays settled.
LEMMA PublishKeeps ==
  ASSUME ShapeInv, NEW p \in Partitions, NEW e \in Events, Publish(p, e)
  PROVE  \A q \in Partitions : \A i \in 1..Len(log[q]) :
           log'[q][i] = log[q][i] /\ i \in DOMAIN log'[q]
BY DEF ShapeInv, TypeOK, Publish

\* Every step keeps what has been given out settled or in hand.
LEMMA SettleStep == ShapeInv /\ LedgerInv /\ SettleInv /\ [Next]_vars => SettleInv'
<1> SUFFICES ASSUME ShapeInv, LedgerInv, SettleInv, [Next]_vars PROVE SettleInv'
  OBVIOUS
<1>0. /\ TypeOK
      /\ \A c \in Consumers : pc[c] \in Busy =>
           hand[c] \in Messages /\ hand[c].off <= Len(log[hand[c].part])
      /\ \A c \in Consumers : pc[c] = "claim" => Idempotent
      /\ \A p \in Partitions : committed[p] <= position[p] /\ position[p] <= Len(log[p])
  BY DEF ShapeInv
<1>00. ReadyToCommit /\ GivenSettled /\ CommittedSettled
  BY DEF SettleInv
<1> USE DEF TypeOK, Messages
<1>1. ASSUME NEW p \in Partitions, NEW e \in Events, Publish(p, e)
      PROVE  SettleInv'
  <2>1. \A q \in Partitions : \A i \in 1..Len(log[q]) :
          log'[q][i] = log[q][i] /\ i \in DOMAIN log'[q]
    BY <1>1, PublishKeeps
  <2>2. UNCHANGED <<committed, position, owner, pc, hand, ledger, done>>
    BY <1>1 DEF Publish
  <2>3. ReadyToCommit'
    <3> SUFFICES ASSUME NEW c \in Consumers, pc[c] = "commit"
                 PROVE  Settled(EventOf(hand[c]))'
      BY <2>2 DEF ReadyToCommit
    <3>1. EventOf(hand[c])' = EventOf(hand[c])
      BY <1>0, <2>1, <2>2 DEF EventOf, Busy
    <3> QED
      BY <1>00, <2>2, <3>1 DEF ReadyToCommit, Settled
  <2>4. GivenSettled'
    <3> SUFFICES ASSUME NEW q \in Partitions, NEW c \in Consumers, owner[q] = c,
                        NEW i \in 1..position[q]
                 PROVE  \/ Settled(log[q][i])'
                        \/ pc[c] \in {"claim", "handle"} /\ hand[c] = [part |-> q, off |-> i]
      BY <2>2 DEF GivenSettled
    <3>1. log'[q][i] = log[q][i]
      BY <1>0, <2>1
    <3> QED
      BY <1>00, <2>2, <3>1 DEF GivenSettled, Settled
  <2>5. CommittedSettled'
    <3> SUFFICES ASSUME NEW q \in Partitions, NEW i \in 1..committed[q]
                 PROVE  i \in DOMAIN log'[q] /\ Settled(log[q][i])'
      BY <2>2 DEF CommittedSettled
    <3>1. log'[q][i] = log[q][i] /\ i \in DOMAIN log'[q]
      BY <1>0, <2>1
    <3> QED
      BY <1>00, <2>2, <3>1 DEF CommittedSettled, Settled
  <2> QED
    BY <2>3, <2>4, <2>5 DEF SettleInv
<1>2. ASSUME NEW c \in Consumers, NEW p \in Partitions, Poll(c, p)
      PROVE  SettleInv'
  <2>1. UNCHANGED <<log, committed, owner, ledger, done>>
    BY <1>2 DEF Poll
  <2>2. ReadyToCommit'
    BY <1>0, <1>00, <1>2 DEF Poll, NextStepAfterPoll, NextOffset, ReadyToCommit, Settled, EventOf
  <2>3. GivenSettled'
    <3>1. /\ pc[c] = "idle" /\ owner[p] = c /\ position' = [position EXCEPT ![p] = @ + 1]
          /\ hand' = [hand EXCEPT ![c] = [part |-> p, off |-> position[p] + 1]]
          /\ pc' = [pc EXCEPT ![c] = NextStepAfterPoll]
      BY <1>2 DEF Poll, NextOffset
    <3>2. pc'[c] \in {"claim", "handle"} /\ hand'[c] = [part |-> p, off |-> position[p] + 1]
      BY <1>0, <3>1 DEF NextStepAfterPoll
    <3> SUFFICES ASSUME NEW q \in Partitions, NEW d \in Consumers, owner[q] = d,
                        NEW i \in 1..position'[q]
                 PROVE  \/ Settled(log[q][i])
                        \/ pc'[d] \in {"claim", "handle"} /\ hand'[d] = [part |-> q, off |-> i]
      BY <2>1 DEF GivenSettled, Settled
    <3>3. CASE i \in 1..position[q]
      <4>1. \/ Settled(log[q][i])
            \/ pc[d] \in {"claim", "handle"} /\ hand[d] = [part |-> q, off |-> i]
        BY <1>00, <3>3 DEF GivenSettled
      <4>2. d # c => pc'[d] = pc[d] /\ hand'[d] = hand[d]
        BY <1>0, <3>1
      <4> QED
        BY <3>1, <4>1, <4>2
    <3>4. CASE i \notin 1..position[q]
      <4>1. position \in [Partitions -> Nat]
        BY <1>0
      <4>2. position'[q] = IF q = p THEN position[p] + 1 ELSE position[q]
        BY <3>1, <4>1
      <4>3. q = p /\ i = position[p] + 1
        BY <3>4, <4>1, <4>2
      <4> QED
        BY <3>1, <3>2, <4>3
    <3> QED
      BY <3>3, <3>4
  <2>4. CommittedSettled'
    BY <1>00, <2>1 DEF CommittedSettled, Settled
  <2> QED
    BY <2>2, <2>3, <2>4 DEF SettleInv
<1>3. ASSUME NEW c \in Consumers, Claim(c) PROVE SettleInv'
  <2>1. UNCHANGED <<log, committed, position, owner, hand, done>> /\ ledger \subseteq ledger'
    BY <1>3 DEF Claim, broker
  <2>2. pc' = [pc EXCEPT ![c] = "handle"] /\ pc[c] = "claim"
    BY <1>3 DEF Claim, NextStepAfterClaim
  <2>3. \A d \in Consumers : /\ pc'[d] = "commit" => pc[d] = "commit"
                             /\ pc[d] \in {"claim", "handle"} => pc'[d] \in {"claim", "handle"}
    BY <1>0, <2>2
  <2>4. \A e : Settled(e) => Settled(e)'
    BY <2>1 DEF Settled
  <2>5. ReadyToCommit'
    <3> SUFFICES ASSUME NEW d \in Consumers, pc'[d] = "commit"
                 PROVE  Settled(EventOf(hand[d]))'
      BY DEF ReadyToCommit
    <3>1. EventOf(hand[d])' = EventOf(hand[d])
      BY <2>1 DEF EventOf
    <3> QED
      BY <1>00, <2>1, <2>3, <3>1 DEF ReadyToCommit, Settled
  <2>6. GivenSettled'
    <3> SUFFICES ASSUME NEW q \in Partitions, NEW d \in Consumers, owner[q] = d,
                        NEW i \in 1..position[q]
                 PROVE  \/ Settled(log[q][i])'
                        \/ pc'[d] \in {"claim", "handle"} /\ hand[d] = [part |-> q, off |-> i]
      BY <2>1 DEF GivenSettled
    <3> QED
      BY <1>00, <2>1, <2>3 DEF GivenSettled, Settled
  <2>7. CommittedSettled'
    BY <1>00, <2>1 DEF CommittedSettled, Settled
  <2> QED
    BY <2>5, <2>6, <2>7 DEF SettleInv
<1>4. ASSUME NEW c \in Consumers, SkipDuplicate(c) PROVE SettleInv'
  BY <1>0, <1>00, <1>4
     DEF SkipDuplicate, ShouldProcess, NextStepAfterSkip, broker,
         SettleInv, ReadyToCommit, GivenSettled, CommittedSettled, Settled, EventOf
<1>5. ASSUME NEW c \in Consumers, Handle(c) PROVE SettleInv'
  <2>1. UNCHANGED <<log, committed, position, owner, hand, ledger>>
    BY <1>5 DEF Handle, broker
  <2>2. \A e \in Events : done'[e] \in Nat /\ done'[e] >= done[e]
    BY <1>0, <1>5 DEF Handle
  <2>3. EventOf(hand[c]) \in Events
    BY <1>0, <1>5 DEF Handle, EventOf, Busy
  <2>4. \A e \in Events : Settled(e) => Settled(e)'
    BY <1>0, <2>1, <2>2 DEF Settled
  <2>5. Settled(EventOf(hand[c]))'
    BY <1>0, <1>5, <2>1, <2>3 DEF Handle, Settled, LedgerInv, EventOf
  <2>6. pc' = [pc EXCEPT ![c] = "commit"]
    BY <1>5 DEF Handle
  <2>7. ReadyToCommit'
    <3> SUFFICES ASSUME NEW d \in Consumers, pc'[d] = "commit"
                 PROVE  Settled(EventOf(hand[d]))'
      BY DEF ReadyToCommit
    <3>1. CASE d = c
      BY <2>5, <3>1
    <3>2. CASE d # c
      <4>1. Settled(EventOf(hand[d])) /\ EventOf(hand[d]) \in Events
        BY <1>0, <1>00, <2>6, <3>2 DEF ReadyToCommit, EventOf, Busy
      <4> QED
        BY <2>1, <2>4, <4>1 DEF EventOf, Settled
    <3> QED
      BY <3>1, <3>2
  <2>8. \A q \in Partitions : \A i \in 1..position[q] :
          log[q][i] \in Events /\ (Settled(log[q][i]) => Settled(log[q][i])')
    BY <1>0, <2>1, <2>4 DEF Settled
  <2>9. GivenSettled'
    <3> SUFFICES ASSUME NEW q \in Partitions, NEW d \in Consumers, owner[q] = d,
                        NEW i \in 1..position[q]
                 PROVE  \/ Settled(log[q][i])'
                        \/ pc'[d] \in {"claim", "handle"} /\ hand[d] = [part |-> q, off |-> i]
      BY <2>1 DEF GivenSettled
    <3>1. CASE Settled(log[q][i])
      BY <2>8, <3>1
    <3>2. CASE pc[d] \in {"claim", "handle"} /\ hand[d] = [part |-> q, off |-> i]
      <4>1. CASE d = c
        BY <2>1, <2>5, <3>2, <4>1 DEF EventOf
      <4>2. CASE d # c
        BY <1>0, <2>6, <3>2, <4>2
      <4> QED
        BY <4>1, <4>2
    <3> QED
      BY <1>00, <3>1, <3>2 DEF GivenSettled
  <2>10. CommittedSettled'
    BY <1>0, <1>00, <2>1, <2>8 DEF CommittedSettled
  <2> QED
    BY <2>7, <2>9, <2>10 DEF SettleInv
<1>6. ASSUME NEW c \in Consumers, Commit(c) PROVE SettleInv'
  <2>1. UNCHANGED <<log, position, owner, ledger, done>>
    BY <1>6 DEF Commit
  <2>2. ReadyToCommit' /\ GivenSettled'
    <3>1. /\ pc[c] = "commit" /\ pc' = [pc EXCEPT ![c] = "idle"]
          /\ hand' = [hand EXCEPT ![c] = None]
      BY <1>6 DEF Commit
    <3>2. /\ pc'[c] = "idle"
          /\ \A d \in Consumers \ {c} : pc'[d] = pc[d] /\ hand'[d] = hand[d]
      BY <1>0, <3>1
    <3>3. ReadyToCommit'
      BY <1>00, <2>1, <3>2 DEF ReadyToCommit, Settled, EventOf
    <3>4. GivenSettled'
      BY <1>00, <2>1, <3>1, <3>2 DEF GivenSettled, Settled
    <3> QED
      BY <3>3, <3>4
  <2>3. CommittedSettled'
    <3> SUFFICES ASSUME NEW q \in Partitions, NEW i \in 1..committed'[q]
                 PROVE  i \in DOMAIN log[q] /\ Settled(log[q][i])
      BY <2>1 DEF CommittedSettled, Settled
    <3>1. CASE owner[q] = c
      <4>1. i \in 1..position[q] /\ pc[c] = "commit"
        BY <1>0, <1>6, <3>1 DEF Commit, CommitUpTo
      <4>2. i \in DOMAIN log[q]
        BY <1>0, <4>1
      <4> QED
        BY <1>00, <3>1, <4>1, <4>2 DEF GivenSettled
    <3>2. CASE owner[q] # c
      BY <1>0, <1>00, <1>6, <3>2 DEF Commit, CommitUpTo, CommittedSettled
    <3> QED
      BY <3>1, <3>2
  <2> QED
    BY <2>2, <2>3 DEF SettleInv
<1>7. ASSUME NEW c \in Consumers, Crash(c) PROVE SettleInv'
  BY <1>0, <1>00, <1>7, NoneAssumption
     DEF Crash, SettleInv, ReadyToCommit, GivenSettled, CommittedSettled, Settled, EventOf
<1>8. ASSUME NEW c \in Consumers, Restart(c) PROVE SettleInv'
  BY <1>0, <1>00, <1>8
     DEF Restart, broker, SettleInv, ReadyToCommit, GivenSettled, CommittedSettled, Settled, EventOf
<1>9. ASSUME NEW f \in [Partitions -> Live], Rebalance(f) PROVE SettleInv'
  BY <1>0, <1>00, <1>9
     DEF Rebalance, ResumeFrom, SettleInv, ReadyToCommit, GivenSettled, CommittedSettled,
         Settled, EventOf
<1>10. CASE UNCHANGED vars
  BY <1>00, <1>10
     DEF vars, SettleInv, ReadyToCommit, GivenSettled, CommittedSettled, Settled, EventOf
<1> QED
  BY <1>1, <1>2, <1>3, <1>4, <1>5, <1>6, <1>7, <1>8, <1>9, <1>10 DEF Next, Step
-----------------------------------------------------------------------------
\* The three layers together are inductive.
LEMMA Inductive == Spec => [](ShapeInv /\ LedgerInv /\ SettleInv)
<1>1. Init => ShapeInv /\ LedgerInv /\ SettleInv
  BY ShapeInit, LedgerInit, SettleInit
<1>2. ShapeInv /\ LedgerInv /\ SettleInv /\ [Next]_vars
        => (ShapeInv /\ LedgerInv /\ SettleInv)'
  BY ShapeStep, LedgerStep, SettleStep
<1> QED
  BY <1>1, <1>2, PTL DEF Spec

\* Every variable keeps its type, for any number of consumers and messages.
THEOREM TypeCorrect == Spec => []TypeOK
<1>1. ShapeInv => TypeOK
  BY DEF ShapeInv
<1> QED
  BY <1>1, Inductive, PTL

\* In a stage with a ledger, the effects of an event are applied once at most:
\* IdempotencyService claims before the handler works.
THEOREM EffectsAtMostOnce == Spec => []AtMostOnce
<1>1. LedgerInv => AtMostOnce
  BY DEF LedgerInv, AtMostOnce
<1> QED
  BY <1>1, Inductive, PTL

\* commit_message covers settled messages only, although commit() names none
\* and a rebalance may have changed the assignment since the poll.
THEOREM CommitsCoverSettled == Spec => []CommittedSettled
<1>1. SettleInv => CommittedSettled
  BY DEF SettleInv
<1> QED
  BY <1>1, Inductive, PTL

\* The committed offset of a partition never goes back.
THEOREM CommitsNeverGoBack == Spec => CommitsAdvance
<1>1. ShapeInv /\ [Next]_vars => [\A p \in Partitions : committed'[p] >= committed[p]]_vars
  <2> SUFFICES ASSUME ShapeInv, Next PROVE \A p \in Partitions : committed'[p] >= committed[p]
    OBVIOUS
  <2>1. \A p \in Partitions : committed[p] \in Nat /\ position[p] \in Nat
                             /\ committed[p] <= position[p]
    BY DEF ShapeInv, TypeOK
  <2>2. ASSUME NEW c \in Consumers, Commit(c)
        PROVE  \A p \in Partitions : committed'[p] >= committed[p]
    BY <2>1, <2>2 DEF Commit, CommitUpTo
  <2>3. ASSUME UNCHANGED committed PROVE \A p \in Partitions : committed'[p] >= committed[p]
    BY <2>1, <2>3
  <2> QED
    BY <2>2, <2>3 DEF Next, Step, Publish, Poll, Claim, SkipDuplicate, Handle, Crash,
                      Restart, Rebalance, broker
<1> QED
  BY <1>1, Inductive, PTL DEF CommitsAdvance, Spec
-----------------------------------------------------------------------------
\* An event is being handled by c exactly when it is the one in c's hands.
LEMMA HandlerIsUnique ==
  ASSUME LedgerInv, Idempotent, NEW c \in Consumers, pc[c] = "handle",
         NEW d \in Consumers \ {c}, pc[d] = "handle"
  PROVE  EventOf(hand[d]) # EventOf(hand[c])
BY DEF LedgerInv

\* The group implements the ledger's promise: a claim maps to Claim, the end
\* of a handler to Apply, a crash to Lose or FailIdle, the rest stutters.
LEMMA EffectStep ==
  ASSUME ShapeInv, LedgerInv, Idempotent, Next
  PROVE  Abstract!Next \/ UNCHANGED Abstract!vars
<1> DEFINE effect == [e \in Events |-> Effect(e)]
<1>0. /\ TypeOK
      /\ \A c \in Consumers : pc[c] \in Busy =>
           hand[c] \in Messages /\ hand[c].off <= Len(log[hand[c].part])
      /\ \A e \in Events : e \notin ledger => done[e] = 0
      /\ \A c \in Consumers : pc[c] = "handle" =>
           EventOf(hand[c]) \in ledger /\ done[EventOf(hand[c])] = 0
  BY DEF ShapeInv, LedgerInv
<1>00. \A c \in Consumers : pc[c] \in Busy => EventOf(hand[c]) \in Events
  BY <1>0 DEF TypeOK, Messages, EventOf
<1> USE DEF TypeOK
<1>s. ASSUME UNCHANGED <<ledger, done, crashes>>,
             \A e \in Events : Handling(e)' <=> Handling(e)
      PROVE  UNCHANGED Abstract!vars
  BY <1>s DEF Abstract!vars, Effect
<1>1. ASSUME NEW p \in Partitions, NEW e \in Events, Publish(p, e)
      PROVE  UNCHANGED Abstract!vars
  <2>1. \A c \in Consumers : pc[c] = "handle" => EventOf(hand[c])' = EventOf(hand[c])
    <3>1. \A c \in Consumers : pc[c] = "handle" =>
            log'[hand[c].part][hand[c].off] = log[hand[c].part][hand[c].off]
      BY <1>0, <1>1, PublishKeeps DEF Busy, Messages
    <3> QED
      BY <1>1, <3>1 DEF Publish, EventOf
  <2> QED
    BY <1>1, <1>s, <2>1 DEF Publish, Handling, bounds
<1>2. ASSUME NEW c \in Consumers, NEW p \in Partitions, Poll(c, p)
      PROVE  UNCHANGED Abstract!vars
  BY <1>0, <1>2, <1>s DEF Poll, NextStepAfterPoll, NextOffset, Handling, EventOf, bounds
<1>3. ASSUME NEW c \in Consumers, Claim(c) PROVE Abstract!Next
  <2>0. PICK e \in Events : e = EventOf(hand[c])
    BY <1>00, <1>3 DEF Claim, Busy
  <2>1. e \notin ledger /\ ledger' = ledger \cup {e}
    BY <1>3, <2>0 DEF Claim, ShouldProcess
  <2>2. UNCHANGED <<log, hand, done, crashes>> /\ pc' = [pc EXCEPT ![c] = "handle"]
    BY <1>3 DEF Claim, NextStepAfterClaim, broker, bounds
  <2>3. Handling(e)' /\ done[e] = 0
    BY <1>0, <2>0, <2>1, <2>2 DEF Handling, EventOf
  <2>4. \A x \in Events \ {e} : Handling(x)' <=> Handling(x)
    BY <1>0, <1>3, <2>0, <2>2 DEF Handling, EventOf, Claim, NextStepAfterClaim
  <2>5. Effect(e) = "none" /\ Effect(e)' = "claimed"
    BY <2>1, <2>2, <2>3 DEF Effect
  <2>6. \A x \in Events \ {e} : Effect(x)' = Effect(x)
    BY <2>1, <2>2, <2>4 DEF Effect
  <2>7. effect[e] = "none" /\ effect' = [effect EXCEPT ![e] = "claimed"]
    BY <2>5, <2>6
  <2> QED
    BY <2>2, <2>7 DEF Abstract!Next, Abstract!Claim
<1>4. ASSUME NEW c \in Consumers, SkipDuplicate(c) PROVE UNCHANGED Abstract!vars
  BY <1>0, <1>4, <1>s DEF SkipDuplicate, NextStepAfterSkip, Handling, EventOf, broker, bounds
<1>5. ASSUME NEW c \in Consumers, Handle(c) PROVE Abstract!Next
  <2>0. PICK e \in Events : e = EventOf(hand[c])
    BY <1>00, <1>5 DEF Handle, Busy
  <2>1. e \in ledger /\ done[e] = 0 /\ Handling(e)
    BY <1>0, <1>5, <2>0 DEF Handle, Handling
  <2>2. /\ UNCHANGED <<log, hand, ledger, crashes>>
        /\ pc' = [pc EXCEPT ![c] = "commit"]
        /\ done' = [done EXCEPT ![e] = @ + 1]
    BY <1>5, <2>0 DEF Handle, broker, bounds
  <2>3. \A x \in Events \ {e} : Handling(x)' <=> Handling(x)
    BY <1>0, <1>5, <2>0, <2>2 DEF Handling, EventOf, Handle
  <2>4. Effect(e) = "claimed" /\ Effect(e)' = "applied"
    BY <1>0, <2>1, <2>2 DEF Effect
  <2>5. \A x \in Events \ {e} : Effect(x)' = Effect(x)
    BY <1>0, <2>2, <2>3 DEF Effect
  <2>6. effect[e] = "claimed" /\ effect' = [effect EXCEPT ![e] = "applied"]
    BY <2>4, <2>5
  <2> QED
    BY <2>2, <2>6 DEF Abstract!Next, Abstract!Apply
<1>6. ASSUME NEW c \in Consumers, Commit(c) PROVE UNCHANGED Abstract!vars
  BY <1>0, <1>6, <1>s DEF Commit, Handling, EventOf, bounds
<1>7. ASSUME NEW c \in Consumers, Crash(c) PROVE Abstract!Next
  <2>1. /\ UNCHANGED <<log, ledger, done>> /\ crashes' = crashes + 1
        /\ pc' = [pc EXCEPT ![c] = "down"] /\ hand' = [hand EXCEPT ![c] = None]
    BY <1>7 DEF Crash
  <2>2. CASE pc[c] = "handle"
    <3>0. PICK e \in Events : e = EventOf(hand[c])
      BY <1>00, <2>2 DEF Busy
    <3>1. e \in ledger /\ done[e] = 0 /\ Handling(e)
      BY <1>0, <2>2, <3>0 DEF Handling
    <3>2. ~Handling(e)'
      <4> SUFFICES ASSUME NEW d \in Consumers, pc'[d] = "handle",
                          log[hand'[d].part][hand'[d].off] = e
                   PROVE  FALSE
        BY <2>1 DEF Handling, EventOf
      <4>1. d # c /\ pc[d] = "handle" /\ EventOf(hand[d]) = e
        BY <1>0, <2>1 DEF EventOf
      <4> QED
        BY <2>2, <3>0, <4>1, HandlerIsUnique
    <3>3. \A x \in Events \ {e} : Handling(x)' <=> Handling(x)
      BY <1>0, <2>1, <3>0 DEF Handling, EventOf
    <3>4. Effect(e) = "claimed" /\ Effect(e)' = "lost"
      BY <2>1, <3>1, <3>2 DEF Effect
    <3>5. \A x \in Events \ {e} : Effect(x)' = Effect(x)
      BY <2>1, <3>3 DEF Effect
    <3>6. effect[e] = "claimed" /\ effect' = [effect EXCEPT ![e] = "lost"]
      BY <3>4, <3>5
    <3> QED
      BY <2>1, <3>6 DEF Abstract!Next, Abstract!Lose
  <2>3. CASE pc[c] # "handle"
    <3>1. \A x \in Events : Handling(x)' <=> Handling(x)
      BY <1>0, <2>1, <2>3 DEF Handling, EventOf
    <3>2. effect' = effect
      BY <2>1, <3>1 DEF Effect
    <3> QED
      BY <2>1, <3>2 DEF Abstract!Next, Abstract!FailIdle
  <2> QED
    BY <2>2, <2>3
<1>8. ASSUME NEW c \in Consumers, Restart(c) PROVE UNCHANGED Abstract!vars
  BY <1>0, <1>8, <1>s DEF Restart, Handling, EventOf, broker, bounds
<1>9. ASSUME NEW f \in [Partitions -> Live], Rebalance(f) PROVE UNCHANGED Abstract!vars
  BY <1>9, <1>s DEF Rebalance, Handling, EventOf
<1> QED
  BY <1>1, <1>2, <1>3, <1>4, <1>5, <1>6, <1>7, <1>8, <1>9 DEF Next, Step

\* A stage with a ledger implements EffectOnce: seen from outside, an event is
\* claimed once, then applied once, or lost to a crash of the worker that held
\* it; redelivery, rebalances and republished events are invisible.
THEOREM LedgerImplementsEffectOnce ==
  ASSUME Idempotent PROVE Spec => ImplementsEffectOnce
<1>1. Init => Abstract!Init
  BY DEF Init, Abstract!Init, Effect
<1>2. ShapeInv /\ LedgerInv /\ [Next]_vars => [Abstract!Next]_(Abstract!vars)
  <2>1. ASSUME UNCHANGED vars PROVE UNCHANGED Abstract!vars
    BY <2>1 DEF vars, Abstract!vars, Effect, Handling, EventOf
  <2> QED
    BY <2>1, EffectStep
<1> QED
  BY <1>1, <1>2, Inductive, PTL DEF Spec, Abstract!Spec, ImplementsEffectOnce
-----------------------------------------------------------------------------
\* The events that are lost, and the bound on their number.  That the set is
\* finite, whatever Events is, comes with the bound.
Lost == {e \in ledger : done[e] = 0 /\ ~Handling(e)}
LossInv == Idempotent => IsFiniteSet(Lost) /\ Cardinality(Lost) <= crashes

\* A step of EffectOnce loses no event, or one with a failure.
LEMMA LossStep ==
  ASSUME ShapeInv, LedgerInv, Idempotent, Next
  PROVE  \/ Lost' \subseteq Lost /\ crashes' >= crashes
         \/ \E e : Lost' \subseteq Lost \cup {e} /\ crashes' = crashes + 1
<1> DEFINE effect == [e \in Events |-> Effect(e)]
<1>1. crashes \in Nat /\ ledger \subseteq Events /\ ledger' \subseteq Events
  BY ShapeStep, BoundsAssumption DEF ShapeInv, TypeOK
<1>2. done \in [Events -> Nat] /\ done' \in [Events -> Nat]
  BY ShapeStep DEF ShapeInv, TypeOK
<1>3. \A e \in Events : e \in Lost <=> Effect(e) = "lost"
  BY <1>2 DEF Lost, Effect
<1>4. \A e \in Events : e \in Lost' <=> Effect(e)' = "lost"
  BY <1>2 DEF Lost, Effect
<1>5. CASE UNCHANGED Abstract!vars
  <2>1. \A e \in Events : Effect(e)' = Effect(e)
    BY <1>5 DEF Abstract!vars
  <2> QED
    BY <1>1, <1>3, <1>4, <1>5, <2>1 DEF Lost, Abstract!vars
<1>6. ASSUME NEW e \in Events, Abstract!Claim(e) \/ Abstract!Apply(e) \/ Abstract!Lose(e)
      PROVE  /\ \A x \in Events \ {e} : Effect(x)' = Effect(x)
             /\ \/ crashes' = crashes + 1
                \/ crashes' = crashes /\ Effect(e)' # "lost"
  <2>1. PICK s \in {"claimed", "applied", "lost"} : effect' = [effect EXCEPT ![e] = s]
    BY <1>6 DEF Abstract!Claim, Abstract!Apply, Abstract!Lose
  <2>2. /\ \A x \in Events \ {e} : Effect(x)' = Effect(x)
        /\ Effect(e)' = s
    <3>1. \A x \in Events : effect'[x] = Effect(x)' /\ effect[x] = Effect(x)
      OBVIOUS
    <3> QED
      BY <2>1, <3>1
  <2>3. crashes' = crashes + 1 \/ (crashes' = crashes /\ s # "lost")
    <3>1. ASSUME Abstract!Claim(e) \/ Abstract!Apply(e) PROVE Effect(e)' # "lost"
      <4>1. PICK r \in {"claimed", "applied"} : effect' = [effect EXCEPT ![e] = r]
        BY <3>1 DEF Abstract!Claim, Abstract!Apply
      <4>2. effect'[e] = r /\ effect'[e] = Effect(e)'
        BY <4>1
      <4> QED
        BY <4>2
    <3> QED
      BY <1>6, <2>2, <3>1 DEF Abstract!Claim, Abstract!Apply, Abstract!Lose
  <2> QED
    BY <2>2, <2>3
<1>7. ASSUME NEW e \in Events, Abstract!Claim(e) \/ Abstract!Apply(e) \/ Abstract!Lose(e)
      PROVE  \/ Lost' \subseteq Lost /\ crashes' >= crashes
             \/ Lost' \subseteq Lost \cup {e} /\ crashes' = crashes + 1
  <2>1. Lost' \subseteq Lost \cup {e} /\ (Effect(e)' # "lost" => Lost' \subseteq Lost)
    BY <1>1, <1>3, <1>4, <1>6, <1>7 DEF Lost
  <2> QED
    BY <1>1, <1>6, <1>7, <2>1
<1>8. CASE Abstract!FailIdle
  <2>1. effect' = effect /\ crashes' = crashes + 1
    BY <1>8 DEF Abstract!FailIdle
  <2>2. \A e \in Events : effect'[e] = Effect(e)' /\ effect[e] = Effect(e)
    OBVIOUS
  <2>3. \A e \in Events : Effect(e)' = Effect(e)
    BY <2>1, <2>2
  <2> QED
    BY <1>1, <1>3, <1>4, <2>1, <2>3 DEF Lost
<1> QED
  BY <1>5, <1>7, <1>8, EffectStep DEF Abstract!Next

\* The bound is inductive on top of the first two layers.
LEMMA LossStays == ShapeInv /\ LedgerInv /\ LossInv /\ [Next]_vars => LossInv'
<1> SUFFICES ASSUME ShapeInv, LedgerInv, LossInv, [Next]_vars, Idempotent PROVE LossInv'
  BY DEF LossInv
<1>1. crashes \in Nat /\ IsFiniteSet(Lost) /\ Cardinality(Lost) <= crashes
  BY BoundsAssumption DEF ShapeInv, TypeOK, LossInv
<1>2. ASSUME NEW S, IsFiniteSet(S), Lost' \subseteq S, NEW n \in Nat, crashes' = n,
             Cardinality(S) <= n
      PROVE  LossInv'
  <2>1. IsFiniteSet(Lost') /\ Cardinality(Lost') <= Cardinality(S)
    BY <1>2, FS_Subset
  <2>2. Cardinality(Lost') \in Nat /\ Cardinality(S) \in Nat
    BY <1>2, <2>1, FS_CardinalityType
  <2> QED
    BY <1>2, <2>1, <2>2 DEF LossInv
<1>3. CASE UNCHANGED vars
  <2>1. Lost' = Lost /\ crashes' = crashes
    BY <1>3 DEF vars, Lost, Handling, EventOf
  <2> QED
    BY <1>1, <1>2, <2>1
<1>4. ASSUME Lost' \subseteq Lost, crashes' >= crashes, Next PROVE LossInv'
  <2>1. crashes' \in Nat
    BY <1>4, ShapeStep, BoundsAssumption DEF ShapeInv, TypeOK
  <2>2. Cardinality(Lost) \in Nat
    BY <1>1, FS_CardinalityType
  <2> QED
    BY <1>1, <1>2, <1>4, <2>1, <2>2
<1>5. ASSUME NEW e, Lost' \subseteq Lost \cup {e}, crashes' = crashes + 1 PROVE LossInv'
  <2>0. Cardinality(Lost) \in Nat
    BY <1>1, FS_CardinalityType
  <2>1. /\ IsFiniteSet(Lost \cup {e})
        /\ \/ Cardinality(Lost \cup {e}) = Cardinality(Lost)
           \/ Cardinality(Lost \cup {e}) = Cardinality(Lost) + 1
    BY <1>1, FS_AddElement
  <2>2. Cardinality(Lost \cup {e}) <= crashes + 1 /\ crashes + 1 \in Nat
    BY <1>1, <2>0, <2>1
  <2> QED
    BY <1>2, <1>5, <2>1, <2>2
<1> QED
  BY <1>3, <1>4, <1>5, LossStep

\* An event that is claimed and never applied was in the hands of a worker that
\* crashed: the group loses one event per crash at most, however many rebalances
\* and redeliveries there are.
THEOREM LossesNeedCrashes == Spec => []LossNeedsCrash
<1>1. Init => LossInv
  <2>1. Init => Lost = {} /\ crashes = 0
    BY DEF Init, Lost
  <2> QED
    BY <2>1, FS_EmptySet DEF LossInv
<1>2. LossInv => LossNeedsCrash
  BY DEF LossInv, LossNeedsCrash, Lost
<1> QED
  BY <1>1, <1>2, LossStays, Inductive, PTL DEF Spec
=============================================================================
