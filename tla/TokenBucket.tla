---------------------------- MODULE TokenBucket -----------------------------
(***************************************************************************)
(* What the rate limiter promises: a token bucket that is never forgotten. *)
(* Capacity Limit tokens, refilled with Limit tokens per Window seconds,   *)
(* one token per LLM call.  Calls name a time of their own, at most Skew   *)
(* seconds away from the true time.                                        *)
(*                                                                         *)
(* Tokens are counted in units of 1/Window token, so that one second       *)
(* refills Limit units and one call costs Window units.  The doubles of    *)
(* the code are off by their rounding, which decides only calls that find  *)
(* one token, and turns some of them away: a step less, never another one  *)
(* (DoubleBucket, RoundingIsSafe).                                         *)
(***************************************************************************)
EXTENDS Integers

CONSTANTS Limit,   \* tokens in a full bucket
          Window,  \* seconds in which an empty bucket fills up
          Skew,    \* how far a caller's time may be off
          MaxTime  \* bound on the clock

ASSUME BucketAssumption ==
    /\ Limit \in Nat \ {0}
    /\ Window \in Nat \ {0}
    /\ Skew \in Nat
    /\ MaxTime \in Nat

VARIABLES now,     \* the true time, in seconds
          tokens,  \* what the last admitted call left, in units
          last,    \* the time up to which tokens was refilled
          start,   \* when an observer, who may start over at any time,
                   \* began to count the admitted calls (history variable)
          since    \* how many it has counted (history variable)

bucketVars == <<now, tokens, last, start, since>>

Capacity == Limit * Window

\* The times a caller may take for the present.
Readings == {t \in (now - Skew)..(now + Skew) : t >= 0}

\* Mutant of Refilled: the refill is not capped.
RefilledUncapped(t) == IF t <= last THEN tokens ELSE tokens + (t - last) * Limit

\* The bucket as a call that names time t sees it.
Refilled(t) ==
    IF t <= last THEN tokens
    ELSE IF tokens + (t - last) * Limit < Capacity
         THEN tokens + (t - last) * Limit
         ELSE Capacity

BucketInit ==
    /\ now = 0
    /\ tokens = Capacity
    /\ last = 0
    /\ start = 0
    /\ since = 0

\* A call is admitted; a call that is not changes nothing.
Admit(t) ==
    /\ Refilled(t) >= Window
    /\ tokens' = Refilled(t) - Window
    /\ last' = IF t > last THEN t ELSE last
    /\ since' = since + 1
    /\ UNCHANGED <<now, start>>

Tick ==
    /\ now < MaxTime
    /\ now' = now + 1
    /\ UNCHANGED <<tokens, last, start, since>>

\* The observer starts over.
Observe == start' = now /\ since' = 0 /\ UNCHANGED <<now, tokens, last>>

BucketNext == (\E t \in Readings : Admit(t)) \/ Tick \/ Observe

BucketSpec == BucketInit /\ [][BucketNext]_bucketVars

-----------------------------------------------------------------------------
BucketTypeOK ==
    /\ now \in Nat
    /\ tokens \in 0..Capacity
    /\ last \in Nat
    /\ start \in Nat
    /\ since \in Nat

\* From any moment on, the admitted calls are at most a full bucket and what
\* has been refilled since, give or take the skew of two clocks.
RateBounded == since * Window <= Capacity + Limit * (now - start + 2 * Skew)

\* RateBounded made inductive.
BucketInductive ==
    /\ BucketTypeOK
    /\ start <= now
    /\ last <= now + Skew
    /\ since > 0 => /\ last >= start - Skew
                    /\ since * Window + tokens <= Capacity + Limit * (last - start + Skew)
=============================================================================
