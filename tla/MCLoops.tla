------------------------------ MODULE MCLoops ------------------------------
(* The two loops whose progress is checked: a consumer group without a     *)
(* ledger, and acquire of the rate limiter.  They share no state; focus    *)
(* says which of them moves in a behaviour, so that TLC explores one after *)
(* the other and not their product.                                        *)
EXTENDS StageWorker, RateLimiter, TLC

CONSTANTS c1, c2
VARIABLE focus

Clocks == c1 :> 0 @@ c2 :> 1

loopsVars == <<vars, limiterVars, focus>>
LoopsInit == focus \in {"group", "limiter"} /\ Init /\ LimiterInit

Group(A) == focus = "group" /\ A /\ UNCHANGED <<limiterVars, focus>>
Limiter(A) == focus = "limiter" /\ A /\ UNCHANGED <<vars, focus>>
LoopsNext == Group(Next) \/ Limiter(LimiterNext)

\* Fairness of StageWorker and LimiterFairness of RateLimiter, each while its
\* component is the one that moves.
LoopsFairness ==
  /\ \A c \in Consumers : WF_loopsVars(Group(Step(c)))
  /\ WF_loopsVars(Group(Unowned # {} /\ \E f \in [Partitions -> Live] : Rebalance(f)))
  /\ WF_loopsVars(Limiter(Tick))
  /\ \A c \in Crawlers : WF_loopsVars(Limiter(AskAgain(c) \/ Grant(c) \/ Refuse(c)))

LoopsSpec == LoopsInit /\ [][LoopsNext]_loopsVars /\ LoopsFairness
=============================================================================
