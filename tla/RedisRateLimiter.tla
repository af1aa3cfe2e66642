-------------------------- MODULE RedisRateLimiter --------------------------
(***************************************************************************)
(* src/services/rate_limiter.py and its only caller, MockLLM.complete: a   *)
(* token bucket in a Redis hash, read and written by one Lua script, that  *)
(* Redis deletes when no call was admitted for Window + Buffer seconds.    *)
(*                                                                         *)
(* The script gets its time from the caller (int(time.time())): Skew       *)
(* covers the difference between the hosts' clocks, the cut to whole       *)
(* seconds and the delay between reading the clock and running the script. *)
(* Redis itself counts the time to live.  TokenBucket explains the unit of *)
(* tokens and the rounding left out here; DoubleBucket has it, and what a  *)
(* rejected call is told.                                                  *)
(***************************************************************************)
EXTENDS TokenBucket

CONSTANTS Buffer,   \* what the time to live adds to the window
          Callers   \* the worker processes that call the LLM

ASSUME LimiterAssumption == Buffer \in Nat

VARIABLES expires,  \* when Redis deletes the key (0: it was never written)
          calling   \* the callers inside the with block of MockLLM.complete

limiterVars == <<bucketVars, expires, calling>>

LimiterInit == BucketInit /\ expires = 0 /\ calling = {}

\* HMGET returns nothing: the key was never written or has expired.
Absent == now >= expires

\* The tokens a script run at caller time t finds, and the time of the refill.
Held(t) == IF Absent THEN Capacity ELSE Refilled(t)

\* Mutant of RefilledTo: the time of the refill is not kept.
NotRefilledTo(t) == IF Absent THEN t ELSE last

RefilledTo(t) == IF Absent \/ t > last THEN t ELSE last

\* Mutant of TimeToLive: the key may expire before the bucket is full again.
ShortTimeToLive == Window - 1

TimeToLive == Window + Buffer

\* The script admits the call, which enters the provider.  A call that finds
\* less than one token changes nothing, not even the refill it computed.
Acquire(c) ==
    \E t \in Readings :
        /\ c \notin calling
        /\ Held(t) >= Window
        /\ tokens' = Held(t) - Window
        /\ last' = RefilledTo(t)
        /\ expires' = now + TimeToLive
        /\ since' = since + 1
        /\ calling' = calling \cup {c}
        /\ UNCHANGED <<now, start>>

\* The provider answers or fails; RateLimitToken.__exit__ does nothing.
Finish(c) ==
    /\ c \in calling
    /\ calling' = calling \ {c}
    /\ UNCHANGED <<bucketVars, expires>>

Elapse == Tick /\ UNCHANGED <<expires, calling>>

StartOver == Observe /\ UNCHANGED <<expires, calling>>

LimiterNext == (\E c \in Callers : Acquire(c) \/ Finish(c)) \/ Elapse \/ StartOver

LimiterSpec == LimiterInit /\ [][LimiterNext]_limiterVars

-----------------------------------------------------------------------------
LimiterTypeOK ==
    /\ BucketTypeOK
    /\ expires \in Nat
    /\ calling \subseteq Callers

\* LimiterTypeOK, and what makes a bucket that was never written or has expired
\* as good as a full one.
LimiterInductive ==
    /\ LimiterTypeOK
    /\ last <= now + Skew
    /\ expires = 0 => tokens = Capacity /\ last = 0
    /\ expires > 0 => last <= expires - TimeToLive + Skew
=============================================================================
