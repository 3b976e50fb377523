----------------------------- MODULE EffectOnce -----------------------------
(***************************************************************************)
(* What the idempotency ledger of a pipeline stage promises about the side *)
(* effects of an event, with no Kafka, no consumers and no offsets: an     *)
(* event is claimed at most once, a claimed event is applied at most once, *)
(* and each failure of a worker loses at most one claimed event for good.  *)
(***************************************************************************)
EXTENDS Naturals

CONSTANT Events

VARIABLES effect,   \* effect[e]: how far the effects of e have come
          failures  \* how many times a worker has failed

vars == <<effect, failures>>

Init == /\ effect = [e \in Events |-> "none"]
        /\ failures = 0

Claim(e) == /\ effect[e] = "none"
            /\ effect' = [effect EXCEPT ![e] = "claimed"]
            /\ UNCHANGED failures

Apply(e) == /\ effect[e] = "claimed"
            /\ effect' = [effect EXCEPT ![e] = "applied"]
            /\ UNCHANGED failures

\* A worker fails in the middle of e: nobody will ever apply it.
Lose(e) == /\ effect[e] = "claimed"
           /\ effect' = [effect EXCEPT ![e] = "lost"]
           /\ failures' = failures + 1

\* A worker fails while it has no claimed event in its hands.
FailIdle == /\ failures' = failures + 1
            /\ UNCHANGED effect

Next == \/ \E e \in Events : Claim(e) \/ Apply(e) \/ Lose(e)
        \/ FailIdle

Spec == Init /\ [][Next]_vars
=============================================================================
