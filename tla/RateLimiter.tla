---------------------------- MODULE RateLimiter ----------------------------
(***************************************************************************)
(* RedisTokenBucketRateLimiter: the crawlers' token bucket for one domain, *)
(* a Redis hash updated by a script that takes the time from its caller.   *)
(* A tick is a second; tokens are counted in fractions of 1/Token, so that *)
(* a rate below one is an integer too.                                     *)
(***************************************************************************)
EXTENDS Integers

CONSTANTS
  Crawlers,
  Token,     \* how many fractions make a token
  Rate,      \* RATE_LIMIT_TOKENS_PER_SECOND, in fractions
  Burst,     \* RATE_LIMIT_BURST, in fractions
  Grace,     \* the seconds EXPIRE adds to the time a refill takes
  Ahead,     \* Ahead[c]: how far the clock of c is ahead of the slowest one
  MaxSkew,   \* no clock is further ahead than this
  MaxLag,    \* bound: from time.time() to the run of the script
  Nil,       \* no key
  LastCall,  \* bound: acquire is called until then
  MaxTime,   \* bound on the time
  MaxCalls   \* bound on the calls of acquire

ASSUME RateAssumption ==
  /\ Token \in Nat \ {0} /\ Rate \in Nat \ {0} /\ Burst \in Nat /\ Burst >= Token
ASSUME ClockAssumption ==
  /\ MaxSkew \in Nat /\ Ahead \in [Crawlers -> 0..MaxSkew]
ASSUME GraceAssumption ==
  /\ MaxLag \in Nat /\ Grace \in Nat /\ MaxLag + MaxSkew <= Grace
ASSUME LimitAssumption == LastCall \in Nat /\ MaxTime \in Nat /\ MaxCalls \in Nat
Buckets == [tokens : Int, last : Int, expires : Int]
ASSUME NilAssumption == Nil \notin Buckets

VARIABLES
  now,      \* the time, by the slowest of the callers' clocks
  bucket,   \* the hash argus:ratelimit:<domain>, with the time it expires
  caller,   \* caller[c]: where crawler c is in acquire
  calls,    \* calls of acquire so far
  start,    \* history: when the window began in which permits are counted
  permits,  \* history: permits given since then
  ordered   \* history: since then no script ran with a time before the last

limiterVars == <<now, bucket, caller, calls, start, permits, ordered>>
-----------------------------------------------------------------------------
Least(a, b) == IF a <= b THEN a ELSE b
Most(a, b) == IF a >= b THEN a ELSE b

\* The script's first half: what the bucket holds for a caller whose clock
\* says stamp.  A clock behind `last` earns nothing.
RefilledUncapped(stamp) ==
  IF bucket = Nil THEN Burst ELSE bucket.tokens + Rate * Most(0, stamp - bucket.last)
Refilled(stamp) ==
  IF bucket = Nil THEN Burst
  ELSE Least(Burst, bucket.tokens + Rate * Most(0, stamp - bucket.last))

\* math.ceil(burst / rate) + 60
TimeToLive == ((Burst + Rate - 1) \div Rate) + Grace

\* (1 - tokens) / rate, of which Redis returns the integer part; a sleep of
\* 10 ms takes no tick.
Wait(tokens) == (Token - tokens) \div Rate

\* HMSET and EXPIRE after a token is taken.
SpentKeepingTime(stamp) ==
  [tokens |-> Refilled(stamp) - Token, last |-> IF bucket = Nil THEN stamp ELSE bucket.last,
   expires |-> now + TimeToLive]
Spent(stamp) ==
  [tokens |-> Refilled(stamp) - Token, last |-> stamp, expires |-> now + TimeToLive]

Resting == [pc |-> "idle", stamp |-> 0, asked |-> 0, wake |-> 0]

LimiterInit ==
  /\ now = 0
  /\ bucket = Nil
  /\ caller = [c \in Crawlers |-> Resting]
  /\ calls = 0
  /\ start = 0 /\ permits = 0 /\ ordered = TRUE

\* The loop of acquire reads the clock and sends the script.
FirstReading(c) == IF caller[c].pc = "idle" THEN now + Ahead[c] ELSE caller[c].stamp
Reading(c) == now + Ahead[c]
ReadClock(c) ==
  caller' = [caller EXCEPT ![c] =
               [pc |-> "asking", stamp |-> Reading(c), asked |-> now, wake |-> 0]]

Acquire(c) ==
  /\ caller[c].pc = "idle"
  /\ calls < MaxCalls /\ now <= LastCall
  /\ ReadClock(c)
  /\ calls' = calls + 1
  /\ UNCHANGED <<now, bucket, start, permits, ordered>>

AskAgain(c) ==
  /\ caller[c].pc = "asleep" /\ now >= caller[c].wake
  /\ ReadClock(c)
  /\ UNCHANGED <<now, bucket, calls, start, permits, ordered>>

\* The script takes a token and writes the caller's time into the bucket.
Grant(c) ==
  LET stamp == caller[c].stamp IN
  /\ caller[c].pc = "asking"
  /\ Refilled(stamp) >= Token
  /\ bucket' = Spent(stamp)
  /\ caller' = [caller EXCEPT ![c] = Resting]
  /\ permits' = permits + 1
  /\ ordered' = (ordered /\ (bucket = Nil \/ stamp >= bucket.last))
  /\ UNCHANGED <<now, calls, start>>

\* The script refuses and writes nothing.
Refuse(c) ==
  LET tokens == Refilled(caller[c].stamp) IN
  /\ caller[c].pc = "asking"
  /\ tokens < Token
  /\ caller' = [caller EXCEPT ![c].pc = "asleep", ![c].wake = now + Wait(tokens)]
  /\ UNCHANGED <<now, bucket, calls, start, permits, ordered>>

\* Redis drops the key at its time to live.
ExpireBucket ==
  /\ bucket # Nil /\ now >= bucket.expires
  /\ bucket' = Nil
  /\ UNCHANGED <<now, caller, calls, start, permits, ordered>>

Tick ==
  /\ now < MaxTime
  /\ \A c \in Crawlers : caller[c].pc = "asking" => now < caller[c].asked + MaxLag
  /\ now' = now + 1
  /\ UNCHANGED <<bucket, caller, calls, start, permits, ordered>>

\* History only: the window to be judged begins now.
OpenWindow ==
  /\ start' = now /\ permits' = 0 /\ ordered' = TRUE
  /\ UNCHANGED <<now, bucket, caller, calls>>

LimiterStep(c) == Acquire(c) \/ AskAgain(c) \/ Grant(c) \/ Refuse(c)
LimiterNext == \/ \E c \in Crawlers : LimiterStep(c)
               \/ ExpireBucket \/ Tick \/ OpenWindow

LimiterSpec == LimiterInit /\ [][LimiterNext]_limiterVars

\* Time goes on, and so does the coroutine of a caller.
LimiterFairness == /\ WF_limiterVars(Tick)
                   /\ \A c \in Crawlers : WF_limiterVars(AskAgain(c) \/ Grant(c) \/ Refuse(c))
-----------------------------------------------------------------------------
\* The bucket never holds less than nothing or more than the burst.
LimiterTypeOK ==
  /\ now \in Nat /\ calls \in Nat /\ start \in Nat /\ permits \in Nat
  /\ ordered \in BOOLEAN
  /\ bucket = Nil \/ (bucket \in Buckets /\ bucket.tokens \in 0..Burst)
  /\ caller \in [Crawlers -> [pc : {"idle", "asking", "asleep"}, stamp : Int, asked : Nat, wake : Int]]

\* The promise of the bucket, for all crawlers together and any stretch of
\* time: no more permits than the burst and what the rate has earned since,
\* give or take the lag of the requests and the skew of the clocks -- unless a
\* script has run with a time before the one in the bucket, which lets the next
\* caller earn the time between the two again.
PermitsBounded ==
  ordered => Token * permits <= Burst + Rate * (now - start + MaxLag + MaxSkew)

\* Every call of acquire returns, however the callers compete.
Served == \A c \in Crawlers : caller[c].pc # "idle" ~> caller[c].pc = "idle"
=============================================================================
