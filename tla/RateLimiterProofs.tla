------------------------- MODULE RateLimiterProofs --------------------------
(***************************************************************************)
(* What the token bucket promises and that the Redis limiter keeps it, for *)
(* every limit, window, skew, time to live and set of callers.             *)
(***************************************************************************)
EXTENDS RedisRateLimiter, TLAPS

-----------------------------------------------------------------------------
(* The abstract bucket                                                     *)

\* The numbers the assumptions give: a bucket holds at least one token.
LEMMA CapacityType == Capacity \in Nat /\ Capacity >= Window /\ Limit \in Nat /\ Window \in Nat
<1>1. Limit \in Nat /\ Window \in Nat /\ Limit >= 1 /\ Window >= 1
  BY BucketAssumption
<1>2. Limit * Window \in Nat
  BY <1>1
<1>3. Limit * Window >= Window
  BY <1>1
<1> QED
  BY <1>1, <1>2, <1>3 DEF Capacity

\* A refill never exceeds the capacity, nor what the elapsed time yields.
LEMMA RefillBounds ==
    ASSUME BucketTypeOK, NEW t \in Nat
    PROVE  /\ Refilled(t) \in 0..Capacity
           /\ t > last => /\ (t - last) * Limit \in Nat
                          /\ Refilled(t) <= tokens + (t - last) * Limit
           /\ t <= last => Refilled(t) = tokens
<1>1. tokens \in Nat /\ tokens <= Capacity /\ last \in Nat
  BY CapacityType DEF BucketTypeOK
<1>2. CASE t <= last
  BY <1>1, <1>2, CapacityType DEF Refilled
<1>3. CASE t > last
  <2>1. (t - last) * Limit \in Nat
    BY <1>1, <1>3, CapacityType
  <2> DEFINE gain == (t - last) * Limit
  <2>2. gain \in Nat
    BY <2>1
  <2>3. Refilled(t) = IF tokens + gain < Capacity THEN tokens + gain ELSE Capacity
    BY <1>1, <1>3 DEF Refilled
  <2> HIDE DEF gain
  <2>4. Refilled(t) \in 0..Capacity /\ Refilled(t) <= tokens + gain
    BY <1>1, <2>2, <2>3, CapacityType
  <2> QED
    BY <1>1, <1>3, <2>1, <2>4 DEF gain
<1> QED
  BY <1>1, <1>2, <1>3

\* An admission at time t keeps the invariant.
LEMMA AdmitKeepsBucket ==
    ASSUME BucketInductive, NEW t \in Readings, Admit(t)
    PROVE  BucketInductive'
<1>1. /\ now \in Nat /\ tokens \in Nat /\ tokens <= Capacity /\ last \in Nat
      /\ start \in Nat /\ since \in Nat /\ start <= now /\ last <= now + Skew
      /\ Skew \in Nat /\ Limit \in Nat /\ Window \in Nat /\ Capacity \in Nat
  BY CapacityType, BucketAssumption DEF BucketInductive, BucketTypeOK
<1>2. t \in Nat /\ now - Skew <= t /\ t <= now + Skew
  BY <1>1 DEF Readings
<1> DEFINE held == Refilled(t)
<1>3. /\ held \in Nat /\ held <= Capacity
      /\ t > last => (t - last) * Limit \in Nat /\ held <= tokens + (t - last) * Limit
      /\ t <= last => held = tokens
  BY <1>1, <1>2, RefillBounds DEF BucketInductive
<1>4. /\ held >= Window /\ tokens' = held - Window /\ since' = since + 1
      /\ last' = (IF t > last THEN t ELSE last) /\ now' = now /\ start' = start
  BY DEF Admit
<1> HIDE DEF held
<1>5. BucketTypeOK'
  BY <1>1, <1>2, <1>3, <1>4, CapacityType DEF BucketTypeOK, Capacity
<1>6. last' <= now' + Skew /\ last' >= t /\ last' >= start' - Skew /\ last' \in Nat
  BY <1>1, <1>2, <1>4
<1>7. since' * Window + tokens' = since * Window + held
  <2>1. (since + 1) * Window = since * Window + Window
    BY <1>1
  <2>2. since * Window \in Nat
    BY <1>1
  <2> QED
    BY <1>1, <1>3, <1>4, <2>1, <2>2
<1>8. since' * Window + tokens' <= Capacity + Limit * (last' - start' + Skew)
  <2>1. CASE since = 0
    <3>1. Limit * (last' - start' + Skew) >= 0
      BY <1>1, <1>4, <1>6
    <3>2. since * Window = 0
      BY <1>1, <2>1
    <3>3. Limit * (last' - start' + Skew) \in Int
      BY <1>1, <1>4, <1>6
    <3> QED
      BY <1>1, <1>3, <1>7, <3>1, <3>2, <3>3
  <2>2. CASE since > 0 /\ t <= last
    <3>1. since * Window + tokens <= Capacity + Limit * (last - start + Skew)
      BY <2>2 DEF BucketInductive
    <3>2. last' = last /\ held = tokens
      BY <1>1, <1>2, <1>3, <1>4, <2>2
    <3> QED
      BY <1>4, <1>7, <3>1, <3>2
  <2>3. CASE since > 0 /\ t > last
    <3>1. since * Window + tokens <= Capacity + Limit * (last - start + Skew)
      BY <2>3 DEF BucketInductive
    <3>2. last' = t
      BY <1>4, <2>3
    <3>3. Limit * (t - start + Skew) = Limit * (last - start + Skew) + (t - last) * Limit
      BY <1>1, <1>2
    <3>4. /\ Limit * (last - start + Skew) \in Int
          /\ (t - last) * Limit \in Int
          /\ since * Window \in Nat
      BY <1>1, <1>2
    <3>5. since * Window + held <= Capacity + Limit * (t - start + Skew)
      BY <1>1, <1>3, <2>3, <3>1, <3>3, <3>4
    <3> QED
      BY <1>4, <1>7, <3>2, <3>5
  <2> QED
    BY <1>1, <1>2, <2>1, <2>2, <2>3
<1> QED
  BY <1>1, <1>4, <1>5, <1>6, <1>8, CapacityType DEF BucketInductive, Capacity

\* Every step of the abstract bucket keeps its inductive invariant.
LEMMA BucketStep ==
    ASSUME BucketInductive, [BucketNext]_bucketVars
    PROVE  BucketInductive'
<1>1. ASSUME NEW t \in Readings, Admit(t)
      PROVE  BucketInductive'
  BY <1>1, AdmitKeepsBucket
<1>2. CASE Tick
  BY <1>2, CapacityType, BucketAssumption DEF Tick, BucketInductive, BucketTypeOK, Capacity
<1>3. CASE Observe
  BY <1>3, CapacityType, BucketAssumption DEF Observe, BucketInductive, BucketTypeOK, Capacity
<1>4. CASE UNCHANGED bucketVars
  BY <1>4 DEF bucketVars, BucketInductive, BucketTypeOK, Capacity
<1> QED
  BY <1>1, <1>2, <1>3, <1>4 DEF BucketNext

\* The full bucket nobody has used satisfies it.
LEMMA BucketInitInductive == BucketInit => BucketInductive
  BY CapacityType, BucketAssumption DEF BucketInit, BucketInductive, BucketTypeOK

\* BucketInductive bounds what an observer counts.
LEMMA InductiveBoundsRate == BucketInductive => RateBounded
<1> SUFFICES ASSUME BucketInductive PROVE RateBounded
  OBVIOUS
<1>1. /\ now \in Nat /\ tokens \in Nat /\ last \in Nat /\ start \in Nat /\ since \in Nat
      /\ start <= now /\ last <= now + Skew /\ Skew \in Nat /\ Limit \in Nat
      /\ Window \in Nat /\ Capacity \in Nat
  BY CapacityType, BucketAssumption DEF BucketInductive, BucketTypeOK
<1>2. Limit * (now - start + 2 * Skew) \in Nat
  BY <1>1
<1>3. CASE since = 0
  BY <1>1, <1>2, <1>3 DEF RateBounded
<1>4. CASE since > 0
  <2>1. since * Window + tokens <= Capacity + Limit * (last - start + Skew)
    BY <1>4 DEF BucketInductive
  <2>2. last - start + Skew <= now - start + 2 * Skew
    BY <1>1
  <2>3. Limit * (last - start + Skew) <= Limit * (now - start + 2 * Skew)
    BY <1>1, <2>2
  <2>4. since * Window \in Nat /\ Limit * (last - start + Skew) \in Int
    BY <1>1
  <2> QED
    BY <1>1, <1>2, <2>1, <2>3, <2>4 DEF RateBounded
<1> QED
  BY <1>1, <1>3, <1>4

\* The abstract bucket admits, in every interval, at most a full bucket and
\* the refill of the interval.
THEOREM BucketRate == BucketSpec => []RateBounded
<1>1. BucketInit => BucketInductive
  BY BucketInitInductive
<1>2. BucketInductive /\ [BucketNext]_bucketVars => BucketInductive'
  BY BucketStep
<1>3. BucketInductive => RateBounded
  BY InductiveBoundsRate
<1> QED
  BY <1>1, <1>2, <1>3, PTL DEF BucketSpec

-----------------------------------------------------------------------------
(* The Redis limiter                                                       *)

\* What the assumptions and LimiterInductive say about the numbers.
LEMMA LimiterTypes ==
    ASSUME LimiterInductive
    PROVE  /\ now \in Nat /\ tokens \in Nat /\ tokens <= Capacity /\ last \in Nat
           /\ start \in Nat /\ since \in Nat /\ expires \in Nat /\ calling \subseteq Callers
           /\ last <= now + Skew
           /\ Limit \in Nat /\ Window \in Nat /\ Window >= 1 /\ Skew \in Nat
           /\ Buffer \in Nat /\ Capacity \in Nat /\ Capacity >= Window
           /\ TimeToLive \in Nat /\ TimeToLive = Window + Buffer
BY CapacityType, BucketAssumption, LimiterAssumption
   DEF LimiterInductive, LimiterTypeOK, BucketTypeOK, TimeToLive

\* The limiter starts with a key that was never written, a full bucket.
LEMMA LimiterInitInductive == LimiterInit => LimiterInductive
  BY CapacityType, BucketAssumption
     DEF LimiterInit, BucketInit, LimiterInductive, LimiterTypeOK, BucketTypeOK

\* An admission leaves a bucket whose refill time fits its new time to live.
LEMMA AcquireKeepsLimiter ==
    ASSUME LimiterInductive, NEW c \in Callers, Acquire(c)
    PROVE  LimiterInductive'
<1>1. PICK t \in Readings :
          /\ Held(t) >= Window
          /\ tokens' = Held(t) - Window
          /\ last' = RefilledTo(t)
          /\ expires' = now + TimeToLive
          /\ since' = since + 1
          /\ calling' = calling \cup {c}
          /\ UNCHANGED <<now, start>>
  BY DEF Acquire
<1>2. t \in Nat /\ now - Skew <= t /\ t <= now + Skew
  BY LimiterTypes DEF Readings
<1>3. Held(t) \in 0..Capacity
  BY <1>2, RefillBounds, LimiterTypes DEF Held, LimiterInductive, LimiterTypeOK
<1>4. RefilledTo(t) \in Nat /\ RefilledTo(t) <= now + Skew
  BY <1>2, LimiterTypes DEF RefilledTo
<1>5. LimiterTypeOK'
  BY <1>1, <1>3, <1>4, LimiterTypes DEF LimiterTypeOK, BucketTypeOK, Capacity
<1>6. (last <= now + Skew)'
  BY <1>1, <1>4
<1>7. expires' > 0 /\ last' <= expires' - TimeToLive + Skew
  BY <1>1, <1>4, LimiterTypes
<1> QED
  BY <1>5, <1>6, <1>7, LimiterTypes DEF LimiterInductive, TimeToLive

\* Every step of the Redis limiter keeps its inductive invariant.
LEMMA LimiterStep ==
    ASSUME LimiterInductive, [LimiterNext]_limiterVars
    PROVE  LimiterInductive'
<1>1. ASSUME NEW c \in Callers, Acquire(c)
      PROVE  LimiterInductive'
  BY <1>1, AcquireKeepsLimiter
<1>2. ASSUME NEW c \in Callers, Finish(c)
      PROVE  LimiterInductive'
  BY <1>2, LimiterTypes
     DEF Finish, bucketVars, LimiterInductive, LimiterTypeOK, BucketTypeOK, Capacity, TimeToLive
<1>3. CASE Elapse
  BY <1>3, LimiterTypes
     DEF Elapse, Tick, LimiterInductive, LimiterTypeOK, BucketTypeOK, Capacity, TimeToLive
<1>4. CASE StartOver
  BY <1>4, LimiterTypes
     DEF StartOver, Observe, LimiterInductive, LimiterTypeOK, BucketTypeOK, Capacity, TimeToLive
<1>5. CASE UNCHANGED limiterVars
  BY <1>5
     DEF limiterVars, bucketVars, LimiterInductive, LimiterTypeOK, BucketTypeOK, Capacity, TimeToLive
<1> QED
  BY <1>1, <1>2, <1>3, <1>4, <1>5 DEF LimiterNext

\* A bucket that Redis has deleted, or that was never written, would be full
\* by now: forgetting it forgets nothing.  This is what Buffer is for.
LEMMA ForgottenIsFull ==
    ASSUME LimiterInductive, 2 * Skew <= Buffer, Absent, NEW t \in Readings
    PROVE  Refilled(t) = Capacity /\ t >= last
<1>1. t \in Nat /\ now - Skew <= t
  BY LimiterTypes DEF Readings
<1>2. CASE expires = 0
  <2>1. tokens = Capacity /\ last = 0
    BY <1>2 DEF LimiterInductive
  <2>2. t > last => (t - last) * Limit \in Nat
    BY <1>1, LimiterTypes
  <2> QED
    BY <1>1, <2>1, <2>2, LimiterTypes DEF Refilled
<1>3. CASE expires > 0
  <2>1. t - last >= Window
    BY <1>1, <1>3, LimiterTypes DEF Absent, LimiterInductive
  <2>2. t - last \in Nat /\ t > last
    BY <1>1, <2>1, LimiterTypes
  <2>3. (t - last) * Limit >= Capacity
    BY <2>1, <2>2, LimiterTypes DEF Capacity
  <2>4. (t - last) * Limit \in Nat
    BY <2>2, LimiterTypes
  <2> QED
    BY <1>1, <2>2, <2>3, <2>4, LimiterTypes DEF Refilled
<1> QED
  BY <1>2, <1>3, LimiterTypes

\* What the script does is an admission of the bucket that never expires.
LEMMA AcquireAdmits ==
    ASSUME LimiterInductive, 2 * Skew <= Buffer, NEW c \in Callers, Acquire(c)
    PROVE  \E t \in Readings : Admit(t)
<1>1. PICK t \in Readings :
          /\ Held(t) >= Window
          /\ tokens' = Held(t) - Window
          /\ last' = RefilledTo(t)
          /\ since' = since + 1
          /\ UNCHANGED <<now, start>>
  BY DEF Acquire
<1>2. t \in Nat
  BY LimiterTypes DEF Readings
<1>3. Held(t) = Refilled(t)
  BY ForgottenIsFull DEF Held
<1>4. RefilledTo(t) = IF t > last THEN t ELSE last
  BY <1>2, ForgottenIsFull, LimiterTypes DEF RefilledTo
<1>5. Admit(t)
  BY <1>1, <1>3, <1>4 DEF Admit
<1> QED
  BY <1>5

\* Every variable of the Redis limiter has its type.
THEOREM LimiterTypeCorrect == LimiterSpec => []LimiterTypeOK
<1>1. LimiterInit => LimiterInductive
  BY LimiterInitInductive
<1>2. LimiterInductive /\ [LimiterNext]_limiterVars => LimiterInductive'
  BY LimiterStep
<1>3. LimiterInductive => LimiterTypeOK
  BY DEF LimiterInductive
<1> QED
  BY <1>1, <1>2, <1>3, PTL DEF LimiterSpec

\* The Redis limiter, which deletes an idle bucket, implements the bucket that
\* is never forgotten whenever the buffer covers the skew of two clocks.
THEOREM LimiterImplementsBucket ==
    ASSUME 2 * Skew <= Buffer
    PROVE  LimiterSpec => BucketSpec
<1>1. LimiterInit => LimiterInductive /\ BucketInit
  BY LimiterInitInductive DEF LimiterInit
<1>2. LimiterInductive /\ [LimiterNext]_limiterVars => LimiterInductive'
  BY LimiterStep
<1>3. ASSUME LimiterInductive, [LimiterNext]_limiterVars
      PROVE  [BucketNext]_bucketVars
  <2>1. ASSUME NEW c \in Callers, Acquire(c)
        PROVE  BucketNext
    BY <1>3, <2>1, AcquireAdmits DEF BucketNext
  <2>2. ASSUME NEW c \in Callers, Finish(c)
        PROVE  UNCHANGED bucketVars
    BY <2>2 DEF Finish
  <2>3. CASE Elapse
    BY <2>3 DEF Elapse, BucketNext
  <2>4. CASE StartOver
    BY <2>4 DEF StartOver, BucketNext
  <2>5. CASE UNCHANGED limiterVars
    BY <2>5 DEF limiterVars
  <2> QED
    BY <1>3, <2>1, <2>2, <2>3, <2>4, <2>5 DEF LimiterNext
<1> QED
  BY <1>1, <1>2, <1>3, PTL DEF LimiterSpec, BucketSpec

\* The LLM calls admitted since any moment are at most a full bucket and the
\* refill since then, give or take the skew, whatever expires meanwhile.
THEOREM LimiterRate ==
    ASSUME 2 * Skew <= Buffer
    PROVE  LimiterSpec => []RateBounded
  BY LimiterImplementsBucket, BucketRate, PTL

\* What README.md:99-100 and DESIGN.md:10 call a cap, as it is: an interval of
\* a window admits at most two full buckets and the skew of two clocks, the
\* first bucket at once and the other as it is refilled (see CappedPerWindow).
THEOREM TwicePerWindow ==
    ASSUME 2 * Skew <= Buffer
    PROVE  LimiterSpec =>
             [](now - start <= Window => since * Window <= 2 * Capacity + 2 * Skew * Limit)
<1>1. LimiterInductive /\ RateBounded =>
        (now - start <= Window => since * Window <= 2 * Capacity + 2 * Skew * Limit)
  <2> SUFFICES ASSUME LimiterInductive, RateBounded, now - start <= Window
               PROVE  since * Window <= 2 * Capacity + 2 * Skew * Limit
    OBVIOUS
  <2>1. now - start + 2 * Skew <= Window + 2 * Skew /\ now - start + 2 * Skew \in Int
    BY LimiterTypes
  <2>2. Limit * (now - start + 2 * Skew) <= Limit * (Window + 2 * Skew)
    BY <2>1, LimiterTypes
  <2>3. Limit * (Window + 2 * Skew) = Capacity + 2 * Skew * Limit
    BY LimiterTypes DEF Capacity
  <2>4. /\ since * Window \in Int /\ Capacity \in Int /\ 2 * Skew * Limit \in Int
        /\ Limit * (now - start + 2 * Skew) \in Int /\ Limit * (Window + 2 * Skew) \in Int
    BY <2>1, LimiterTypes
  <2> QED
    BY <2>2, <2>3, <2>4 DEF RateBounded
<1>2. LimiterInit => LimiterInductive
  BY LimiterInitInductive
<1>3. LimiterInductive /\ [LimiterNext]_limiterVars => LimiterInductive'
  BY LimiterStep
<1> QED
  BY <1>1, <1>2, <1>3, LimiterRate, PTL DEF LimiterSpec

=============================================================================
