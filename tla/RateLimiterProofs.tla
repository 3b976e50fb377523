------------------------- MODULE RateLimiterProofs -------------------------
(***************************************************************************)
(* The token bucket keeps its promise for any rate, burst, number of       *)
(* crawlers, clock skew and lag.                                           *)
(***************************************************************************)
EXTENDS RateLimiter, TLAPS

\* What is known of a script under way: its time is the caller's clock at a
\* moment not longer ago than the lag.
CallerInv ==
  \A c \in Crawlers : caller[c].pc = "asking" =>
    /\ caller[c].stamp = caller[c].asked + Ahead[c]
    /\ caller[c].asked <= now /\ now <= caller[c].asked + MaxLag

\* The key outlives a refill, by any caller's clock.
BucketInv ==
  bucket # Nil => /\ bucket.last <= now + MaxSkew
                  /\ Rate * (bucket.expires - MaxLag - bucket.last) >= Burst

\* What the bucket still holds and what it has given since the window began
\* have been in it at the beginning or been earned since.
BudgetInv ==
  /\ start <= now
  /\ ordered /\ permits > 0 =>
       IF bucket = Nil THEN Token * permits <= Rate * (now - start)
       ELSE Token * permits + bucket.tokens <= Burst + Rate * (bucket.last - start + MaxLag)

LimiterInv == LimiterTypeOK /\ CallerInv /\ BucketInv /\ BudgetInv
-----------------------------------------------------------------------------
(* Arithmetic *)

\* burst / rate, rounded up, is time enough to earn the burst.
LEMMA RefillTime == ASSUME NEW b \in Nat, NEW r \in Nat \ {0}
                    PROVE  /\ (b + r - 1) \div r \in Int
                           /\ r * ((b + r - 1) \div r) >= b
  BY SMT

\* More time earns no less.
LEMMA TimesMonotone == ASSUME NEW r \in Nat, NEW a \in Int, NEW b \in Int, a <= b
                       PROVE  r * a <= r * b
  BY SMT

\* A permit out of a bucket that has one: the budget goes on with the time.
LEMMA Spend ==
  ASSUME NEW p \in Nat, NEW held \in Int, NEW last \in Int, NEW stamp \in Int, NEW s \in Int,
         NEW got \in Int, Token \in Nat, Rate \in Nat, Burst \in Nat, MaxLag \in Nat,
         Token * p + held <= Burst + Rate * (last - s + MaxLag),
         got <= held + Rate * (stamp - last)
  PROVE  Token * (p + 1) + (got - Token) <= Burst + Rate * (stamp - s + MaxLag)
  BY SMT
-----------------------------------------------------------------------------
\* A refill stays within the bucket.
LEMMA RefilledType ==
  ASSUME LimiterTypeOK, NEW stamp \in Int
  PROVE  Refilled(stamp) \in 0..Burst
<1>1. CASE bucket = Nil
  BY <1>1, RateAssumption DEF Refilled
<1>2. CASE bucket # Nil
  <2>1. bucket.tokens \in 0..Burst /\ bucket.last \in Int
    BY <1>2 DEF LimiterTypeOK, Buckets
  <2>2. Most(0, stamp - bucket.last) \in Nat
    BY <2>1 DEF Most
  <2>3. Rate * Most(0, stamp - bucket.last) \in Nat
    BY <2>2, RateAssumption
  <2> QED
    BY <1>2, <2>1, <2>3, RateAssumption DEF Refilled, Least
<1> QED BY <1>1, <1>2

\* A bucket that is there gives a caller whose clock is not behind at most
\* what it holds and what it has earned.
LEMMA RefilledBound ==
  ASSUME LimiterTypeOK, NEW stamp \in Int, bucket # Nil, stamp >= bucket.last
  PROVE  Refilled(stamp) <= bucket.tokens + Rate * (stamp - bucket.last)
<1>1. bucket.tokens \in 0..Burst /\ bucket.last \in Int
  BY DEF LimiterTypeOK, Buckets
<1>2. Most(0, stamp - bucket.last) = stamp - bucket.last
  BY <1>1 DEF Most
<1>3. Rate * (stamp - bucket.last) \in Int
  BY <1>1, RateAssumption
<1> QED
  BY <1>1, <1>2, <1>3, RateAssumption DEF Refilled, Least

\* The types of what a caller keeps.
LEMMA StampType ==
  ASSUME LimiterTypeOK, NEW c \in Crawlers
  PROVE  caller[c].stamp \in Int /\ caller[c].asked \in Nat /\ caller[c].wake \in Int
  BY DEF LimiterTypeOK

\* A script runs with a time close to now.
LEMMA StampBound ==
  ASSUME LimiterInv, NEW c \in Crawlers, caller[c].pc = "asking"
  PROVE  /\ caller[c].stamp \in Int
         /\ caller[c].stamp >= now - MaxLag
         /\ caller[c].stamp <= now + MaxSkew
<1>1. Ahead[c] \in 0..MaxSkew
  BY ClockAssumption
<1>2. /\ caller[c].stamp = caller[c].asked + Ahead[c]
      /\ caller[c].asked <= now /\ now <= caller[c].asked + MaxLag
  BY DEF LimiterInv, CallerInv
<1>3. now \in Nat /\ caller[c].asked \in Nat /\ MaxLag \in Nat /\ MaxSkew \in Nat
  BY StampType, ClockAssumption, GraceAssumption DEF LimiterInv, LimiterTypeOK
<1> QED BY <1>1, <1>2, <1>3
-----------------------------------------------------------------------------
\* The limiter starts within its account.
LEMMA LimiterInitInv == LimiterInit => LimiterInv
<1> SUFFICES ASSUME LimiterInit PROVE LimiterInv
  OBVIOUS
<1>1. LimiterTypeOK
  BY DEF LimiterInit, LimiterTypeOK, Resting
<1>2. CallerInv
  BY DEF LimiterInit, CallerInv, Resting
<1>3. BucketInv /\ BudgetInv
  BY DEF LimiterInit, BucketInv, BudgetInv
<1> QED BY <1>1, <1>2, <1>3 DEF LimiterInv

\* Reading the clock and going to sleep change the caller only.
LEMMA AcquireInv ==
  ASSUME LimiterInv, NEW c \in Crawlers, Acquire(c) \/ AskAgain(c)
  PROVE  LimiterInv'
<1>1. /\ ReadClock(c) /\ calls' \in Nat
      /\ UNCHANGED <<now, bucket, start, permits, ordered>>
  BY DEF Acquire, AskAgain, LimiterInv, LimiterTypeOK
<1>2. now \in Nat /\ Ahead[c] \in Int /\ MaxLag \in Nat
  BY ClockAssumption, GraceAssumption DEF LimiterInv, LimiterTypeOK
<1>3. LimiterTypeOK'
  BY <1>1, <1>2 DEF LimiterInv, LimiterTypeOK, ReadClock, Reading
<1>4. CallerInv'
  BY <1>1, <1>2 DEF LimiterInv, LimiterTypeOK, CallerInv, ReadClock, Reading
<1>5. BucketInv' /\ BudgetInv'
  BY <1>1 DEF LimiterInv, BucketInv, BudgetInv
<1> QED BY <1>3, <1>4, <1>5 DEF LimiterInv

\* A refusal changes no account.
LEMMA RefuseInv ==
  ASSUME LimiterInv, NEW c \in Crawlers, Refuse(c)
  PROVE  LimiterInv'
<1>1. caller[c].stamp \in Int
  BY StampType DEF LimiterInv
<1>2. Refilled(caller[c].stamp) \in Int
  BY <1>1, RefilledType DEF LimiterInv
<1>3. PICK t \in Int : caller' = [caller EXCEPT ![c].pc = "asleep", ![c].wake = now + Wait(t)]
  BY <1>2 DEF Refuse
<1>4. now + Wait(t) \in Int
  BY RateAssumption DEF Wait, LimiterInv, LimiterTypeOK
<1>5. UNCHANGED <<now, bucket, calls, start, permits, ordered>>
  BY DEF Refuse
<1>6. LimiterTypeOK'
  BY <1>3, <1>4, <1>5 DEF LimiterInv, LimiterTypeOK
<1>7. CallerInv'
  BY <1>3, <1>5 DEF LimiterInv, LimiterTypeOK, CallerInv
<1>8. BucketInv' /\ BudgetInv'
  BY <1>5 DEF LimiterInv, BucketInv, BudgetInv
<1> QED BY <1>6, <1>7, <1>8 DEF LimiterInv

\* A permit is taken from what the bucket holds or has earned.
LEMMA GrantInv ==
  ASSUME LimiterInv, NEW c \in Crawlers, Grant(c)
  PROVE  LimiterInv'
<1>1. PICK stamp : stamp = caller[c].stamp
  OBVIOUS
<1>2. /\ stamp \in Int /\ stamp >= now - MaxLag /\ stamp <= now + MaxSkew
  BY <1>1, StampBound DEF Grant
<1>3. PICK got \in 0..Burst : got = Refilled(stamp)
  BY <1>2, RefilledType DEF LimiterInv
<1>4. PICK ttl \in Int : ttl = TimeToLive
  <2>1. (Burst + Rate - 1) \div Rate \in Int
    BY RefillTime, RateAssumption
  <2>2. TimeToLive \in Int
    BY <2>1, GraceAssumption DEF TimeToLive
  <2> QED BY <2>2
<1>5. /\ got >= Token
      /\ bucket' = [tokens |-> got - Token, last |-> stamp, expires |-> now + ttl]
      /\ caller' = [caller EXCEPT ![c] = Resting]
      /\ permits' = permits + 1
      /\ ordered' = (ordered /\ (bucket = Nil \/ stamp >= bucket.last))
      /\ UNCHANGED <<now, calls, start>>
  BY <1>1, <1>3, <1>4 DEF Grant, Spent
<1>6. /\ now \in Nat /\ start \in Nat /\ permits \in Nat /\ MaxLag \in Nat /\ MaxSkew \in Nat
      /\ Token \in Nat \ {0} /\ Rate \in Nat \ {0} /\ Burst \in Nat
  BY RateAssumption, ClockAssumption, GraceAssumption DEF LimiterInv, LimiterTypeOK
<1>7. bucket' # Nil /\ bucket'.tokens = got - Token /\ bucket'.last = stamp
      /\ bucket'.expires = now + ttl
  <2>1. bucket' \in Buckets
    BY <1>2, <1>3, <1>4, <1>5, <1>6 DEF Buckets
  <2> QED BY <1>5, <2>1, NilAssumption
<1>8. LimiterTypeOK'
  <2>1. bucket' \in Buckets /\ bucket'.tokens \in 0..Burst
    BY <1>2, <1>3, <1>4, <1>5, <1>6, <1>7 DEF Buckets
  <2>2. caller' \in [Crawlers -> [pc : {"idle", "asking", "asleep"}, stamp : Int, asked : Nat, wake : Int]]
    BY <1>5 DEF LimiterInv, LimiterTypeOK, Resting
  <2>3. ordered' \in BOOLEAN /\ now' \in Nat /\ calls' \in Nat /\ start' \in Nat /\ permits' \in Nat
    BY <1>5, <1>6 DEF LimiterInv, LimiterTypeOK
  <2> QED BY <2>1, <2>2, <2>3 DEF LimiterTypeOK
<1>9. CallerInv'
  BY <1>5 DEF LimiterInv, LimiterTypeOK, CallerInv, Resting
<1>10. BucketInv'
  <2>1. ttl = ((Burst + Rate - 1) \div Rate) + Grace
    BY <1>4 DEF TimeToLive
  <2>2. /\ (Burst + Rate - 1) \div Rate \in Int
        /\ Rate * ((Burst + Rate - 1) \div Rate) >= Burst
    BY <1>6, RefillTime
  <2>3. now + ttl - MaxLag - stamp >= (Burst + Rate - 1) \div Rate
    BY <1>2, <1>6, <2>1, <2>2, GraceAssumption
  <2>4. Rate * (now + ttl - MaxLag - stamp) >= Burst
    <3>1. PICK left \in Int : left = now + ttl - MaxLag - stamp
      BY <1>2, <1>4, <1>6
    <3>2. PICK refill \in Int : refill = (Burst + Rate - 1) \div Rate
      BY <2>2
    <3>3. refill <= left /\ Rate * refill >= Burst
      BY <2>2, <2>3, <3>1, <3>2
    <3>4. Rate * refill <= Rate * left
      BY <1>6, <3>3, TimesMonotone
    <3>5. Rate * refill \in Int /\ Rate * left \in Int
      BY <1>6
    <3>6. Rate * left >= Burst
      BY <1>6, <3>3, <3>4, <3>5
    <3> QED BY <3>1, <3>6
  <2>5. bucket'.expires - MaxLag - bucket'.last = now + ttl - MaxLag - stamp
    BY <1>2, <1>4, <1>6, <1>7
  <2>6. Rate * (bucket'.expires - MaxLag - bucket'.last) >= Burst
    BY <2>4, <2>5
  <2>7. bucket'.last <= now' + MaxSkew
    BY <1>2, <1>5, <1>7
  <2> QED BY <2>6, <2>7 DEF BucketInv
<1>11. BudgetInv'
  <2>1. start <= now
    BY DEF LimiterInv, BudgetInv
  <2>2. ASSUME ordered, bucket = Nil \/ stamp >= bucket.last
        PROVE  Token * (permits + 1) + (got - Token) <= Burst + Rate * (stamp - start + MaxLag)
    <3>1. CASE permits = 0
      <4>1. Rate * (stamp - start + MaxLag) >= 0
        BY <1>2, <1>6, <2>1
      <4> QED BY <3>1, <4>1, <1>2, <1>3, <1>6
    <3>2. CASE permits > 0 /\ bucket = Nil
      <4>1. Token * permits <= Rate * (now - start)
        BY <2>2, <3>2 DEF LimiterInv, BudgetInv
      <4>2. Rate * (now - start) <= Rate * (stamp - start + MaxLag)
        BY <1>2, <1>6, TimesMonotone
      <4>3. Token * (permits + 1) = Token * permits + Token
        BY <1>6
      <4>4. /\ Token * permits \in Int /\ Rate * (now - start) \in Int
            /\ Rate * (stamp - start + MaxLag) \in Int
        BY <1>2, <1>6
      <4> QED BY <4>1, <4>2, <4>3, <4>4, <1>3, <1>6
    <3>3. CASE permits > 0 /\ bucket # Nil
      <4>1. bucket.tokens \in Int /\ bucket.last \in Int
        BY <3>3 DEF LimiterInv, LimiterTypeOK, Buckets
      <4>2. Token * permits + bucket.tokens <= Burst + Rate * (bucket.last - start + MaxLag)
        BY <2>2, <3>3 DEF LimiterInv, BudgetInv
      <4>3. got <= bucket.tokens + Rate * (stamp - bucket.last)
        BY <1>2, <1>3, <2>2, <3>3, RefilledBound DEF LimiterInv
      <4> QED BY <4>1, <4>2, <4>3, <1>2, <1>3, <1>6, Spend
    <3> QED BY <1>6, <3>1, <3>2, <3>3
  <2> QED BY <1>5, <1>7, <2>1, <2>2 DEF BudgetInv
<1> QED BY <1>8, <1>9, <1>10, <1>11 DEF LimiterInv

\* When the key expires, what it has given since the window began has been
\* earned again.
LEMMA ExpireInv ==
  ASSUME LimiterInv, ExpireBucket
  PROVE  LimiterInv'
<1>1. /\ bucket # Nil /\ now >= bucket.expires /\ bucket' = Nil
      /\ UNCHANGED <<now, caller, calls, start, permits, ordered>>
  BY DEF ExpireBucket
<1>2. LimiterTypeOK' /\ CallerInv' /\ BucketInv'
  BY <1>1 DEF LimiterInv, LimiterTypeOK, CallerInv, BucketInv
<1>3. ASSUME ordered, permits > 0
      PROVE  Token * permits <= Rate * (now - start)
  <2>1. /\ bucket.tokens \in Nat /\ bucket.last \in Int /\ bucket.expires \in Int
        /\ now \in Nat /\ start \in Nat /\ permits \in Nat
        /\ Token \in Nat /\ Rate \in Nat /\ Burst \in Nat /\ MaxLag \in Nat
    BY <1>1, RateAssumption, GraceAssumption DEF LimiterInv, LimiterTypeOK, Buckets
  <2>2. Token * permits + bucket.tokens <= Burst + Rate * (bucket.last - start + MaxLag)
    BY <1>1, <1>3 DEF LimiterInv, BudgetInv
  <2>3. Rate * (bucket.expires - MaxLag - bucket.last) >= Burst
    BY <1>1 DEF LimiterInv, BucketInv
  <2>4. Rate * (bucket.expires - start) <= Rate * (now - start)
    BY <1>1, <2>1, TimesMonotone
  <2>5. Rate * (bucket.expires - start) =
          Rate * (bucket.expires - MaxLag - bucket.last) + Rate * (bucket.last - start + MaxLag)
    BY <2>1
  <2>6. /\ Token * permits \in Int /\ Rate * (bucket.expires - start) \in Int
        /\ Rate * (bucket.expires - MaxLag - bucket.last) \in Int
        /\ Rate * (bucket.last - start + MaxLag) \in Int /\ Rate * (now - start) \in Int
    BY <2>1
  <2> QED BY <2>1, <2>2, <2>3, <2>4, <2>5, <2>6
<1>4. BudgetInv'
  BY <1>1, <1>3 DEF LimiterInv, BudgetInv
<1> QED BY <1>2, <1>4 DEF LimiterInv

\* Time passing earns only, and no script waits beyond the lag.
LEMMA TickInv ==
  ASSUME LimiterInv, Tick
  PROVE  LimiterInv'
<1>1. /\ now' = now + 1
      /\ \A c \in Crawlers : caller[c].pc = "asking" => now < caller[c].asked + MaxLag
      /\ UNCHANGED <<bucket, caller, calls, start, permits, ordered>>
  BY DEF Tick
<1>2. /\ now \in Nat /\ start \in Nat /\ permits \in Nat /\ MaxSkew \in Nat /\ MaxLag \in Nat
      /\ Rate \in Nat /\ Token \in Nat
  BY RateAssumption, ClockAssumption, GraceAssumption DEF LimiterInv, LimiterTypeOK
<1>3. LimiterTypeOK'
  BY <1>1, <1>2 DEF LimiterInv, LimiterTypeOK
<1>4. CallerInv'
  <2> SUFFICES ASSUME NEW c \in Crawlers, caller[c].pc = "asking"
               PROVE  /\ caller[c].stamp = caller[c].asked + Ahead[c]
                      /\ caller[c].asked <= now + 1 /\ now + 1 <= caller[c].asked + MaxLag
    BY <1>1 DEF CallerInv
  <2>1. caller[c].asked \in Nat
    BY StampType DEF LimiterInv
  <2> QED BY <1>1, <1>2, <2>1 DEF LimiterInv, CallerInv
<1>5. BucketInv'
  <2> SUFFICES ASSUME bucket # Nil
               PROVE  /\ bucket.last <= now + 1 + MaxSkew
                      /\ Rate * (bucket.expires - MaxLag - bucket.last) >= Burst
    BY <1>1 DEF BucketInv
  <2>1. bucket.last \in Int
    BY DEF LimiterInv, LimiterTypeOK, Buckets
  <2>2. /\ bucket.last <= now + MaxSkew
        /\ Rate * (bucket.expires - MaxLag - bucket.last) >= Burst
    BY DEF LimiterInv, BucketInv
  <2>3. bucket.last <= now + 1 + MaxSkew
    BY <1>2, <2>1, <2>2
  <2> QED BY <2>2, <2>3
<1>6. BudgetInv'
  <2>1. Rate * (now - start) <= Rate * (now + 1 - start)
    BY <1>2, TimesMonotone
  <2>2. /\ Rate * (now - start) \in Int /\ Rate * (now + 1 - start) \in Int
        /\ Token * permits \in Int
    BY <1>2
  <2>3. start <= now + 1
    BY <1>2 DEF LimiterInv, BudgetInv
  <2>4. ASSUME ordered, permits > 0, bucket = Nil
        PROVE  Token * permits <= Rate * (now + 1 - start)
    BY <2>1, <2>2, <2>4 DEF LimiterInv, BudgetInv
  <2>5. CASE bucket = Nil
    <3>1. /\ bucket' = Nil /\ now' = now + 1 /\ start' = start
          /\ permits' = permits /\ ordered' = ordered
      BY <1>1, <2>5
    <3>2. start' <= now'
      BY <2>3, <3>1
    <3>3. ASSUME ordered', permits' > 0
          PROVE  Token * permits' <= Rate * (now' - start')
      <4>1. ordered
        BY <3>1, <3>3, Zenon
      <4>2. permits > 0
        BY <3>1, <3>3
      <4>3. Token * permits <= Rate * (now + 1 - start)
        BY <2>4, <2>5, <4>1, <4>2
      <4>4. permits' = permits /\ now' - start' = now + 1 - start
        BY <3>1, <1>2
      <4> QED BY <4>3, <4>4
    <3> QED BY <3>1, <3>2, <3>3 DEF BudgetInv
  <2>6. CASE bucket # Nil
    <3>1. ASSUME ordered, permits > 0
          PROVE  Token * permits + bucket.tokens <= Burst + Rate * (bucket.last - start + MaxLag)
      BY <2>6, <3>1 DEF LimiterInv, BudgetInv
    <3>2. /\ bucket' # Nil /\ now' = now + 1 /\ start' = start
          /\ bucket'.tokens = bucket.tokens /\ bucket'.last = bucket.last
          /\ permits' = permits /\ ordered' = ordered
      BY <1>1, <2>6
    <3>3. start' <= now'
      BY <2>3, <3>2
    <3> QED BY <3>1, <3>2, <3>3 DEF BudgetInv
  <2> QED BY <2>5, <2>6
<1> QED BY <1>3, <1>4, <1>5, <1>6 DEF LimiterInv

\* A new window starts with an empty account.
LEMMA WindowInv ==
  ASSUME LimiterInv, OpenWindow
  PROVE  LimiterInv'
<1>1. /\ start' = now /\ permits' = 0 /\ ordered' = TRUE
      /\ UNCHANGED <<now, bucket, caller, calls>>
  BY DEF OpenWindow
<1>2. now \in Nat
  BY DEF LimiterInv, LimiterTypeOK
<1>3. LimiterTypeOK' /\ CallerInv' /\ BucketInv'
  BY <1>1 DEF LimiterInv, LimiterTypeOK, CallerInv, BucketInv
<1>4. BudgetInv'
  BY <1>1, <1>2 DEF BudgetInv
<1> QED BY <1>3, <1>4 DEF LimiterInv
-----------------------------------------------------------------------------
\* Every step of the limiter keeps its account.
LEMMA LimiterStepInv == LimiterInv /\ [LimiterNext]_limiterVars => LimiterInv'
<1> SUFFICES ASSUME LimiterInv, [LimiterNext]_limiterVars PROVE LimiterInv'
  OBVIOUS
<1>1. ASSUME NEW c \in Crawlers, LimiterStep(c) PROVE LimiterInv'
  BY <1>1, AcquireInv, RefuseInv, GrantInv DEF LimiterStep
<1>2. CASE ExpireBucket BY <1>2, ExpireInv
<1>3. CASE Tick BY <1>3, TickInv
<1>4. CASE OpenWindow BY <1>4, WindowInv
<1>5. CASE UNCHANGED limiterVars
  BY <1>5 DEF limiterVars, LimiterInv, LimiterTypeOK, CallerInv, BucketInv, BudgetInv
<1> QED BY <1>1, <1>2, <1>3, <1>4, <1>5 DEF LimiterNext

\* The account bounds the permits.
LEMMA BudgetBounds == LimiterInv => PermitsBounded
<1> SUFFICES ASSUME LimiterInv, ordered
             PROVE  Token * permits <= Burst + Rate * (now - start + MaxLag + MaxSkew)
  BY DEF PermitsBounded
<1>1. /\ now \in Nat /\ start \in Nat /\ start <= now /\ permits \in Nat
      /\ Token \in Nat /\ Rate \in Nat /\ Burst \in Nat /\ MaxLag \in Nat /\ MaxSkew \in Nat
  BY RateAssumption, ClockAssumption, GraceAssumption DEF LimiterInv, LimiterTypeOK, BudgetInv
<1>2. Rate * (now - start + MaxLag + MaxSkew) \in Nat /\ Token * permits \in Nat
  BY <1>1
<1>3. CASE permits = 0
  BY <1>1, <1>2, <1>3
<1>4. CASE permits > 0 /\ bucket = Nil
  <2>1. Token * permits <= Rate * (now - start)
    BY <1>4 DEF LimiterInv, BudgetInv
  <2>2. Rate * (now - start) <= Rate * (now - start + MaxLag + MaxSkew)
    BY <1>1, TimesMonotone
  <2>3. Rate * (now - start) \in Int
    BY <1>1
  <2> QED BY <1>1, <1>2, <2>1, <2>2, <2>3
<1>5. CASE permits > 0 /\ bucket # Nil
  <2>1. bucket.tokens \in Nat /\ bucket.last \in Int /\ bucket.last <= now + MaxSkew
    BY <1>5 DEF LimiterInv, LimiterTypeOK, Buckets, BucketInv
  <2>2. Token * permits + bucket.tokens <= Burst + Rate * (bucket.last - start + MaxLag)
    BY <1>5 DEF LimiterInv, BudgetInv
  <2>3. Rate * (bucket.last - start + MaxLag) <= Rate * (now - start + MaxLag + MaxSkew)
    BY <1>1, <2>1, TimesMonotone
  <2>4. Rate * (bucket.last - start + MaxLag) \in Int
    BY <1>1, <2>1
  <2> QED BY <1>1, <1>2, <2>1, <2>2, <2>3, <2>4
<1> QED BY <1>1, <1>3, <1>4, <1>5

\* The bucket stays between empty and full.
THEOREM LimiterTypeCorrect == LimiterSpec => []LimiterTypeOK
<1>1. LimiterInv => LimiterTypeOK
  BY DEF LimiterInv
<1> QED BY LimiterInitInv, LimiterStepInv, <1>1, PTL DEF LimiterSpec

\* No window of time sees more permits than burst and rate allow, give or take
\* lag and skew, while scripts run in the order of their clocks: the expiry of
\* the key included, which resets the bucket to full.
THEOREM PermitsAreBounded == LimiterSpec => []PermitsBounded
BY LimiterInitInv, LimiterStepInv, BudgetBounds, PTL DEF LimiterSpec
=============================================================================
