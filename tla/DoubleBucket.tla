---------------------------- MODULE DoubleBucket ----------------------------
(***************************************************************************)
(* The arithmetic of the token bucket, src/services/rate_limiter.py, as    *)
(* the script computes it: refill_rate, tokens and the wait are doubles.   *)
(* They are passed to the script and kept in the hash as decimal digits,   *)
(* enough of them to give back the same double.  One caller, whose clock   *)
(* is right, and a key that does not expire: RedisRateLimiter has the      *)
(* rest, with exact tokens.                                                *)
(***************************************************************************)
EXTENDS Doubles

\* The three are natural numbers, and Limit and Window below Base and positive.
CONSTANTS Limit,   \* limit_per_minute, at least Window / 64 (see Places)
          Window,  \* window_seconds
          MaxTime  \* bound on the clock

VARIABLES now,     \* the time, in seconds
          tokens,  \* the double in the hash
          last,    \* last_refill
          since    \* the calls admitted (history variable)

doubleVars == <<now, tokens, last, since>>

One == Natural(1)

RefillRate == Quotient(Limit, Window)

DoubleInit == now = 0 /\ tokens = Natural(Limit) /\ last = 0 /\ since = 0

\* The tokens a script run at time t finds.
HeldAt(t) ==
    LET sum == Plus(tokens, Times(t - last, RefillRate))
    IN  IF t <= last THEN tokens
        ELSE IF Below(sum, Natural(Limit)) THEN sum ELSE Natural(Limit)

Admits(t) == ~Below(HeldAt(t), One)

\* math.ceil(missing / refill_rate), which is at most Window + 1.
SecondsFor(missing) ==
    LET Enough(n) == QuotientAtMost(missing, RefillRate, n)
    IN  CHOOSE n \in 1..(Window + 1) : Enough(n) /\ (n = 1 \/ ~Enough(n - 1))

\* Mutant of WaitSeconds: what the bucket holds is not deducted.
WaitForWhole(held) == SecondsFor(One)

\* The wait in the message, for a call that finds held < 1.
WaitSeconds(held) == SecondsFor(Minus(One, held))

\* Mutant of Acquire: last_refill is written only by the first call.
AcquireKeepsTime ==
    /\ Admits(now)
    /\ tokens' = Minus(HeldAt(now), One)
    /\ since' = since + 1
    /\ UNCHANGED <<now, last>>

Acquire ==
    /\ Admits(now)
    /\ tokens' = Minus(HeldAt(now), One)
    /\ last' = now
    /\ since' = since + 1
    /\ UNCHANGED now

Elapse == now < MaxTime /\ now' = now + 1 /\ UNCHANGED <<tokens, last, since>>

DoubleNext == Acquire \/ Elapse

DoubleSpec == DoubleInit /\ [][DoubleNext]_doubleVars

-----------------------------------------------------------------------------
\* A caller that is told to wait and is the only one to come back is told a
\* time that is at most one second off: a second later it is admitted, and it
\* would not have been two seconds earlier.  Three roundings come in between.
\* At the time it is told ("Calculate wait time until next token is available",
\* rate_limiter.py:81) it may be rejected again: a rounded sum misses one token
\* by the last digit.
HintWithinASecond ==
    ~Admits(now) =>
        LET wait == WaitSeconds(HeldAt(now))
        IN  /\ Admits(now + wait + 1)
            /\ \A s \in 0..(wait - 2) : ~Admits(now + s)

Full == Natural(Limit)

\* The nearest multiple of 1/Window token, in these units.
Nearest == IF tokens = Full THEN Limit * Window
           ELSE Sum(Multiple(Window, tokens), Power(59))[Units]

Exact == INSTANCE TokenBucket WITH tokens <- Nearest, Skew <- 0, start <- 0

\* Rounding only turns calls away: no digit it adds ever admits a call that the
\* bucket with exact tokens does not, however many refills are added up.  This is
\* what lets TokenBucket and RedisRateLimiter have exact tokens.
RoundingIsSafe == Exact!BucketSpec
=============================================================================
