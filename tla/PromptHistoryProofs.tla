------------------------ MODULE PromptHistoryProofs -------------------------
(***************************************************************************)
(* Tasks are conserved, and a request nothing went wrong with is settled   *)
(* once and for all: what PromptHistory says, for every number of keys,    *)
(* calls, workers, retries and faults.                                     *)
(***************************************************************************)
EXTENDS PromptHistory, PromptServiceProofs, FiniteSetTheorems

-----------------------------------------------------------------------------
(* HistoryInductive, with TypeOK, is inductive.                            *)

\* A history contains the calls under way and no call that has yet to start.
HistoryOK ==
    /\ accepted \in SUBSET Calls
    /\ IsFiniteSet(accepted)
    /\ \A c \in accepted : cpc[c] # "new"
    /\ \A k \in Keys : UnderWay(k) \subseteq accepted
    /\ \A k \in Keys : IsFiniteSet(Copies(k))

\* A task reaches its claim, and the read of a completed answer, only once
\* the document exists.
ClaimsExist ==
    \A w \in Workers :
        wpc[w] \in {"check", "claim"} => doc[job[w].key].status # "absent"

\* The steps of a task that met a settled document, or failed.
Troubled == {"check", "recheck", "failRead", "failWrite"}

NoTask(k) == Copies(k) = {} /\ Holding(k) = {} /\ UnderWay(k) = {}

\* While nothing has gone wrong with request k, its one task never meets a
\* settled document, nothing is in circulation once it is settled, and there
\* is no document before a call was accepted.
SmoothNow(k) ==
    /\ doc[k].status # "failed"
    /\ doc[k].status = "completed" => NoTask(k)
    /\ doc[k].status # "absent" => AcceptedFor(k) # {}
    /\ \A w \in Holding(k) : wpc[w] \notin Troubled

Smooth == \A k \in Keys : Alone(k) => SmoothNow(k)

HistoryInductive == HistoryOK /\ TasksAccounted /\ ClaimsExist /\ Smooth

-----------------------------------------------------------------------------
(* Copies of messages                                                      *)

\* The copies for request k in queue q, written as one set of pairs.
LEMMA CopiesAre ==
    ASSUME NEW q, NEW k
    PROVE  CopiesIn(q, k) = {x \in Message \X Nat :
                                x[1].key = k /\ x[2] \in 1..q[x[1]]}
<1> DEFINE P == {x \in Message \X Nat : x[1].key = k /\ x[2] \in 1..q[x[1]]}
<1>1. \A x : x \in CopiesIn(q, k) <=>
                \E m \in Message : m.key = k /\ \E i \in 1..q[m] : x = <<m, i>>
  BY DEF CopiesIn
<1>2. \A x : x \in P <=>
                \E m \in Message : m.key = k /\ \E i \in 1..q[m] : x = <<m, i>>
  <2>1. ASSUME NEW m \in Message, m.key = k, NEW i \in 1..q[m]
        PROVE  <<m, i>> \in P
    BY <2>1
  <2>2. ASSUME NEW x \in P
        PROVE  \E m \in Message : m.key = k /\ \E i \in 1..q[m] : x = <<m, i>>
    BY <2>2
  <2> QED
    BY <2>1, <2>2
<1> QED
  BY <1>1, <1>2

\* No message for k waits when there are no copies, and conversely.
LEMMA NoCopies ==
    ASSUME TypeOK, NEW k
    PROVE  Copies(k) = {} <=> \A m \in Message : m.key = k => queue[m] = 0
<1>1. queue \in [Message -> Nat]
  BY DEF TypeOK, StoresTypeOK
<1>2. ASSUME NEW m \in Message, m.key = k, queue[m] # 0
      PROVE  <<m, 1>> \in Copies(k)
  BY <1>1, <1>2, CopiesAre DEF Copies
<1>3. ASSUME \A m \in Message : m.key = k => queue[m] = 0
      PROVE  Copies(k) = {}
  BY <1>1, <1>3, CopiesAre DEF Copies
<1> QED
  BY <1>2, <1>3

\* A publication adds one copy.
LEMMA PublishCopies ==
    ASSUME TypeOK, NEW m \in Message, Publish(m), NEW k \in Keys, IsFiniteSet(Copies(k))
    PROVE  /\ IsFiniteSet(Copies(k)')
           /\ m.key = k => Cardinality(Copies(k)') = Cardinality(Copies(k)) + 1
           /\ m.key # k => Copies(k)' = Copies(k)
<1> DEFINE C == Copies(k)
           x == <<m, queue[m] + 1>>
<1>1. queue \in [Message -> Nat]
  BY DEF TypeOK, StoresTypeOK
<1>2. queue' = [queue EXCEPT ![m] = queue[m] + 1]
  BY DEF Publish
<1>3. Cardinality(C) \in Nat
  BY FS_CardinalityType
<1>4. CASE m.key = k
  <2>1. x \notin C
    BY <1>1, CopiesAre DEF Copies
  <2>2. Copies(k)' = C \cup {x}
    <3>1. C \subseteq Message \X Nat /\ Copies(k)' \subseteq Message \X Nat
          /\ x \in Message \X Nat
      BY <1>1, CopiesAre DEF Copies
    <3>2. ASSUME NEW y \in Message \X Nat
          PROVE  y \in Copies(k)' <=> y \in C \/ y = x
      <4>1. /\ y \in C <=> y[1].key = k /\ y[2] \in 1..queue[y[1]]
            /\ y \in Copies(k)' <=> y[1].key = k /\ y[2] \in 1..queue'[y[1]]
        BY CopiesAre DEF Copies
      <4>2. y = x <=> y[1] = m /\ y[2] = queue[m] + 1
        OBVIOUS
      <4>3. CASE y[1] = m
        BY <1>1, <1>2, <1>4, <4>1, <4>2, <4>3
      <4>4. CASE y[1] # m
        BY <1>1, <1>2, <4>1, <4>2, <4>4
      <4> QED
        BY <4>3, <4>4
    <3> QED
      BY <3>1, <3>2
  <2> QED
    BY <2>1, <2>2, <1>4, FS_AddElement
<1>5. CASE m.key # k
  <2>1. Copies(k)' = C
    BY <1>1, <1>2, <1>5, CopiesAre DEF Copies
  <2> QED
    BY <2>1, <1>3, <1>5
<1> QED
  BY <1>4, <1>5

\* A delivery removes one copy.
LEMMA DeliverCopies ==
    ASSUME TypeOK, NEW m \in Message, queue[m] > 0, queue' = [queue EXCEPT ![m] = @ - 1],
           NEW k \in Keys, IsFiniteSet(Copies(k))
    PROVE  /\ IsFiniteSet(Copies(k)')
           /\ m.key = k => Cardinality(Copies(k)') = Cardinality(Copies(k)) - 1
           /\ m.key # k => Copies(k)' = Copies(k)
<1> DEFINE C == Copies(k)
           x == <<m, queue[m]>>
<1>1. queue \in [Message -> Nat]
  BY DEF TypeOK, StoresTypeOK
<1>3. Cardinality(C) \in Nat
  BY FS_CardinalityType
<1>4. CASE m.key = k
  <2>1. x \in C
    BY <1>1, <1>4, CopiesAre DEF Copies
  <2>2. Copies(k)' = C \ {x}
    <3>1. C \subseteq Message \X Nat /\ Copies(k)' \subseteq Message \X Nat
          /\ x \in Message \X Nat
      BY <1>1, CopiesAre DEF Copies
    <3>2. ASSUME NEW y \in Message \X Nat
          PROVE  y \in Copies(k)' <=> y \in C /\ y # x
      <4>1. /\ y \in C <=> y[1].key = k /\ y[2] \in 1..queue[y[1]]
            /\ y \in Copies(k)' <=> y[1].key = k /\ y[2] \in 1..queue'[y[1]]
        BY CopiesAre DEF Copies
      <4>2. y = x <=> y[1] = m /\ y[2] = queue[m]
        OBVIOUS
      <4>3. CASE y[1] = m
        BY <1>1, <1>4, <4>1, <4>2, <4>3
      <4>4. CASE y[1] # m
        BY <1>1, <4>1, <4>2, <4>4
      <4> QED
        BY <4>3, <4>4
    <3> QED
      BY <3>1, <3>2
  <2> QED
    BY <2>1, <2>2, <1>4, FS_RemoveElement
<1>5. CASE m.key # k
  <2>1. Copies(k)' = C
    BY <1>1, <1>5, CopiesAre DEF Copies
  <2> QED
    BY <2>1, <1>3, <1>5
<1> QED
  BY <1>4, <1>5
-----------------------------------------------------------------------------
(* Tasks are conserved                                                     *)

\* The sets that are counted are finite.
LEMMA CountedSets ==
    ASSUME HistoryOK, NEW k \in Keys
    PROVE  /\ IsFiniteSet(Copies(k)) /\ Cardinality(Copies(k)) \in Nat
           /\ IsFiniteSet(Holding(k)) /\ Cardinality(Holding(k)) \in Nat
           /\ IsFiniteSet(UnderWay(k)) /\ Cardinality(UnderWay(k)) \in Nat
           /\ IsFiniteSet(AcceptedFor(k)) /\ Cardinality(AcceptedFor(k)) \in Nat
<1>1. Holding(k) \subseteq Workers /\ UnderWay(k) \subseteq accepted
      /\ AcceptedFor(k) \subseteq accepted
  BY DEF Holding, HistoryOK, AcceptedFor
<1>2. IsFiniteSet(Holding(k)) /\ IsFiniteSet(UnderWay(k)) /\ IsFiniteSet(AcceptedFor(k))
  BY <1>1, FiniteAssumption, FS_Subset DEF HistoryOK
<1> QED
  BY <1>2, FS_CardinalityType DEF HistoryOK

\* The bound of TasksAccounted for one request.
Accounted(k) == Tasks(k) <= Cardinality(AcceptedFor(k)) + faults

\* A step keeps the bound when the tasks it adds are accounted for.
LEMMA AccountStep ==
    ASSUME NEW k, Accounted(k), faults \in Nat, faults' \in Nat,
           NEW c \in Nat, c = Cardinality(Copies(k)),
           NEW h \in Nat, h = Cardinality(Holding(k)),
           NEW u \in Nat, u = Cardinality(UnderWay(k)),
           NEW a \in Nat, a = Cardinality(AcceptedFor(k)),
           NEW cc \in Nat, cc = Cardinality(Copies(k)'),
           NEW hh \in Nat, hh = Cardinality(Holding(k)'),
           NEW uu \in Nat, uu = Cardinality(UnderWay(k)'),
           NEW aa \in Nat, aa = Cardinality(AcceptedFor(k)'),
           (cc - c) + (hh - h) + (uu - u) <= (aa - a) + (faults' - faults)
    PROVE  Accounted(k)'
<1>1. c + h + u <= a + faults
  BY DEF Accounted, Tasks
<1>2. cc + hh + uu <= aa + faults'
  BY <1>1
<1> QED
  BY <1>2 DEF Accounted, Tasks

\* A subset of a counted set counts no more.
LEMMA FewerCounted ==
    ASSUME NEW S, IsFiniteSet(S), NEW T, T \subseteq S
    PROVE  IsFiniteSet(T) /\ Cardinality(T) \in Nat /\ Cardinality(T) <= Cardinality(S)
  BY FS_Subset, FS_CardinalityType

\* The steps of a worker that put nothing into the broker and take nothing
\* from it.
InnerTaskStep(w) ==
    /\ TaskStep(w)
    /\ \A m \in Message : ~Deliver(w, m)
    /\ ~Retry(w) /\ ~Crash(w) /\ ~Redeliver(w)

\* What a worker's step leaves of the history and of the other workers.
LEMMA TaskFrame ==
    ASSUME TypeOK, NEW w \in Workers, TaskStep(w), UNCHANGED routerVars,
           accepted' = accepted \cup {c \in Calls : Accepted(c)}
    PROVE  /\ accepted' = accepted
           /\ \A k : UnderWay(k)' = UnderWay(k) /\ AcceptedFor(k)' = AcceptedFor(k)
           /\ \A v \in Workers \ {w} : wpc'[v] = wpc[v] /\ job'[v] = job[v]
           /\ faults' \in Nat /\ faults \in Nat /\ faults <= faults'
<1>1. accepted' = accepted
  BY DEF Accepted, routerVars
<1>2. \A k : UnderWay(k)' = UnderWay(k) /\ AcceptedFor(k)' = AcceptedFor(k)
  BY <1>1 DEF UnderWay, AcceptedFor, routerVars
<1>3. \A v \in Workers \ {w} : wpc'[v] = wpc[v] /\ job'[v] = job[v]
  BY DEF TaskStep, TaskProceeds, TaskFails, Deliver, Find, Insert, Check, Claim, Recheck,
      Lookup, CompleteHit, Generate, Transient, Store, Complete, Retry, FailRead, FailWrite,
      Ack, RetryLost, Raise, ReplyLost, FailHandlerRaises, Crash, Redeliver, GoOn, Carry,
      Release, workerVars, TypeOK, WorkerTypeOK
<1>4. faults \in Nat
  BY StoresAssumption DEF TypeOK, StoresTypeOK
<1>5. faults' \in {faults, faults + 1}
  BY DEF TaskStep, TaskProceeds, TaskFails, Deliver, Find, Insert, Check, Claim, Recheck,
      Lookup, CompleteHit, Generate, Transient, Store, Complete, Retry, FailRead, FailWrite,
      Ack, RetryLost, Raise, ReplyLost, FailHandlerRaises, Crash, Redeliver, storeVars,
      Fetch, Fault
<1> QED
  BY <1>1, <1>2, <1>3, <1>4, <1>5

\* Within its task a worker goes from step to step for the same request, or
\* ends the task; the broker is not involved.
LEMMA InnerFrame ==
    ASSUME TypeOK, NEW w \in Workers, InnerTaskStep(w)
    PROVE  /\ queue' = queue
           /\ job'[w] = job[w] \/ job'[w] = NoJob
           /\ wpc'[w] = "ack" \/ wpc'[w] = "idle" \/ wpc[w] # "ack"
           /\ job[w] # NoJob
<1>1. job[w] # NoJob
  BY DEF InnerTaskStep, TaskStep, TaskProceeds, TaskFails, Find, Insert, Check, Claim,
      Recheck, Lookup, CompleteHit, Generate, Transient, Store, Complete, FailRead,
      FailWrite, Ack, RetryLost, Raise, ReplyLost, FailHandlerRaises, TryBlock,
      TypeOK, WorkerTypeOK
<1>2. queue' = queue
  BY DEF InnerTaskStep, TaskStep, TaskProceeds, TaskFails, Find, Insert, Check, Claim,
      Recheck, Lookup, CompleteHit, Generate, Transient, Store, Complete, FailRead,
      FailWrite, Ack, RetryLost, Raise, ReplyLost, FailHandlerRaises, storeVars
<1>3. job'[w] = job[w] \/ job'[w] = NoJob
  BY DEF InnerTaskStep, TaskStep, TaskProceeds, TaskFails, Find, Insert, Check, Claim,
      Recheck, Lookup, CompleteHit, Generate, Transient, Store, Complete, FailRead,
      FailWrite, Ack, RetryLost, Raise, ReplyLost, FailHandlerRaises, GoOn, Carry, Release,
      TypeOK, WorkerTypeOK
<1>4. wpc'[w] = "ack" \/ wpc'[w] = "idle" \/ wpc[w] # "ack"
  BY DEF InnerTaskStep, TaskStep, TaskProceeds, TaskFails, Find, Insert, Check, Claim,
      Recheck, Lookup, CompleteHit, Generate, Transient, Store, Complete, FailRead,
      FailWrite, Ack, RetryLost, Raise, ReplyLost, FailHandlerRaises, TryBlock, Release,
      TypeOK, WorkerTypeOK
<1> QED
  BY <1>1, <1>2, <1>3, <1>4
\* A worker's step keeps the number of tasks within the bound.
LEMMA TaskKeepsAccounts ==
    ASSUME TypeOK, HistoryOK, TasksAccounted, NEW w \in Workers, TaskStep(w),
           UNCHANGED routerVars, accepted' = accepted \cup {c \in Calls : Accepted(c)}
    PROVE  HistoryOK' /\ TasksAccounted'
<1>f. /\ accepted' = accepted
      /\ \A k : UnderWay(k)' = UnderWay(k) /\ AcceptedFor(k)' = AcceptedFor(k)
      /\ \A v \in Workers \ {w} : wpc'[v] = wpc[v] /\ job'[v] = job[v]
      /\ faults' \in Nat /\ faults \in Nat /\ faults <= faults'
  BY TaskFrame
<1>o. ASSUME NEW k \in Keys PROVE Accounted(k)
  BY DEF TasksAccounted, Accounted
<1>j. job[w] # NoJob => job[w] \in Message
  BY DEF TypeOK, WorkerTypeOK
<1>k. ASSUME NEW k \in Keys
      PROVE  IsFiniteSet(Copies(k)') /\ Accounted(k)'
  <2> DEFINE H == Holding(k)
             Done == IsFiniteSet(Copies(k)') /\ Accounted(k)'
  <2>c. IsFiniteSet(Copies(k)) /\ Cardinality(Copies(k)) \in Nat
        /\ IsFiniteSet(H) /\ Cardinality(H) \in Nat
        /\ Cardinality(UnderWay(k)) \in Nat /\ Cardinality(AcceptedFor(k)) \in Nat
    BY CountedSets
  <2>u. UnderWay(k)' = UnderWay(k) /\ AcceptedFor(k)' = AcceptedFor(k)
    BY <1>f
  <2>q. queue' = queue => Copies(k)' = Copies(k)
    BY DEF Copies
  <2>s. ASSUME IsFiniteSet(Copies(k)'), IsFiniteSet(H'),
               \A c, h, cc, hh \in Nat :
                  /\ c = Cardinality(Copies(k)) /\ cc = Cardinality(Copies(k)')
                  /\ h = Cardinality(H) /\ hh = Cardinality(H')
                  => (cc - c) + (hh - h) <= faults' - faults
        PROVE  Done
    <3>1. PICK c \in Nat, h \in Nat, u \in Nat, a \in Nat :
             /\ c = Cardinality(Copies(k)) /\ h = Cardinality(H)
             /\ u = Cardinality(UnderWay(k)) /\ a = Cardinality(AcceptedFor(k))
      BY <2>c
    <3>2. PICK cc \in Nat, hh \in Nat :
             cc = Cardinality(Copies(k)') /\ hh = Cardinality(H')
      BY <2>s, FS_CardinalityType
    <3>3. u = Cardinality(UnderWay(k)') /\ a = Cardinality(AcceptedFor(k)')
      BY <3>1, <2>u
    <3>4. (cc - c) + (hh - h) + (u - u) <= (a - a) + (faults' - faults)
      BY <2>s, <3>1, <3>2, <1>f
    <3>5. Accounted(k)
      BY <1>o
    <3>6. Accounted(k)'
      BY <3>1, <3>2, <3>3, <3>4, <3>5, <1>f, AccountStep
    <3> QED
      BY <2>s, <3>6
  <2>1. ASSUME NEW m \in Message, Deliver(w, m)
        PROVE  Done
    <3>1. wpc[w] = "idle" /\ wpc'[w] = "find" /\ job[w] = NoJob /\ job'[w] = m /\ m # NoJob
          /\ faults' = faults
      BY <2>1, NoJobAssumption DEF Deliver, TypeOK, WorkerTypeOK
    <3>2. queue[m] > 0 /\ queue' = [queue EXCEPT ![m] = @ - 1]
      BY <2>1 DEF Deliver
    <3>3. IsFiniteSet(Copies(k)')
          /\ (m.key = k => Cardinality(Copies(k)') = Cardinality(Copies(k)) - 1)
          /\ (m.key # k => Cardinality(Copies(k)') = Cardinality(Copies(k)))
      BY <3>2, <2>c, DeliverCopies
    <3>4. IsFiniteSet(H')
          /\ (m.key = k => Cardinality(H') = Cardinality(H) + 1)
          /\ (m.key # k => Cardinality(H') = Cardinality(H))
      <4>1. H' = (IF m.key = k THEN H \cup {w} ELSE H) /\ w \notin H
        BY <1>f, <3>1 DEF Holding
      <4> HIDE DEF H
      <4> QED
        BY <4>1, <2>c, FS_AddElement
    <3> HIDE DEF H, Done
    <3>5. ASSUME NEW c \in Nat, NEW h \in Nat, NEW cc \in Nat, NEW hh \in Nat,
                 c = Cardinality(Copies(k)), cc = Cardinality(Copies(k)'),
                 h = Cardinality(H), hh = Cardinality(H')
          PROVE  (cc - c) + (hh - h) <= faults' - faults
      BY <1>f, <3>1, <3>3, <3>4, <3>5
    <3> QED
      BY <3>3, <3>4, <3>5, <2>s
  <2>2. ASSUME Retry(w)
        PROVE  Done
    <3>1. job' = job /\ wpc[w] = "retry" /\ wpc'[w] = "ack" /\ job[w] # NoJob /\ faults' = faults
      BY <2>2 DEF Retry, GoOn, Carry, TypeOK, WorkerTypeOK
    <3>2. IsFiniteSet(H')
          /\ (job[w].key = k => Cardinality(H') = Cardinality(H) - 1)
          /\ (job[w].key # k => Cardinality(H') = Cardinality(H))
      <4>1. H' = H \ {w} /\ (w \in H <=> job[w].key = k)
        BY <1>f, <3>1 DEF Holding
      <4>2. w \notin H => H \ {w} = H
        OBVIOUS
      <4> HIDE DEF H
      <4> QED
        BY <4>1, <4>2, <2>c, FS_RemoveElement
    <3>3. IsFiniteSet(Copies(k)')
          /\ (job[w].key = k => Cardinality(Copies(k)') \in
                                  {Cardinality(Copies(k)), Cardinality(Copies(k)) + 1})
          /\ (job[w].key # k => Cardinality(Copies(k)') = Cardinality(Copies(k)))
      <4>1. CASE queue' = queue
        BY <4>1, <2>q, <2>c
      <4>2. CASE job[w].retries < MaxRetries /\ Publish([job[w] EXCEPT !.retries = @ + 1])
        <5> DEFINE m == [job[w] EXCEPT !.retries = @ + 1]
        <5>1. m \in Message /\ m.key = job[w].key
          BY <1>j, <3>1, <4>2, StoresAssumption DEF Message
        <5>2. Publish(m)
          BY <4>2
        <5> HIDE DEF m
        <5> QED
          BY <5>1, <5>2, <2>c, PublishCopies
      <4> QED
        BY <2>2, <4>1, <4>2 DEF Retry
    <3> HIDE DEF H, Done
    <3>4. ASSUME NEW c \in Nat, NEW h \in Nat, NEW cc \in Nat, NEW hh \in Nat,
                 c = Cardinality(Copies(k)), cc = Cardinality(Copies(k)'),
                 h = Cardinality(H), hh = Cardinality(H')
          PROVE  (cc - c) + (hh - h) <= faults' - faults
      BY <1>f, <3>1, <3>2, <3>3, <3>4
    <3> QED
      BY <3>2, <3>3, <3>4, <2>s
  <2>3. ASSUME Crash(w) \/ Redeliver(w)
        PROVE  Done
    <3>1. job[w] # NoJob /\ Publish(job[w]) /\ faults' = faults + 1
      BY <2>3 DEF Crash, Redeliver, Fault, TypeOK, WorkerTypeOK
    <3>2. IsFiniteSet(Copies(k)')
          /\ Cardinality(Copies(k)') \in {Cardinality(Copies(k)), Cardinality(Copies(k)) + 1}
      BY <3>1, <1>j, <2>c, PublishCopies
    <3>3. \/ wpc'[w] = "idle" /\ job'[w] = NoJob
          \/ wpc'[w] = wpc[w] /\ job'[w] = job[w]
      BY <2>3 DEF Crash, Redeliver, Release, workerVars, TypeOK, WorkerTypeOK
    <3>4. H' \subseteq H
      BY <1>f, <3>3 DEF Holding
    <3> HIDE DEF H, Done
    <3>5. IsFiniteSet(H') /\ Cardinality(H') \in Nat /\ Cardinality(H') <= Cardinality(H)
      BY <3>4, <2>c, FewerCounted
    <3>6. ASSUME NEW c \in Nat, NEW h \in Nat, NEW cc \in Nat, NEW hh \in Nat,
                 c = Cardinality(Copies(k)), cc = Cardinality(Copies(k)'),
                 h = Cardinality(H), hh = Cardinality(H')
          PROVE  (cc - c) + (hh - h) <= faults' - faults
      BY <1>f, <3>1, <3>2, <3>5, <3>6
    <3> QED
      BY <3>2, <3>5, <3>6, <2>s
  <2>4. ASSUME InnerTaskStep(w)
        PROVE  Done
    <3>1. queue' = queue /\ job[w] # NoJob /\ (job'[w] = job[w] \/ job'[w] = NoJob)
          /\ (wpc'[w] = "ack" \/ wpc'[w] = "idle" \/ wpc[w] # "ack")
      BY <2>4, InnerFrame
    <3>2. wpc'[w] = "idle" => job'[w] = NoJob
      BY <2>4, StepTypes DEF Next, TypeOK, WorkerTypeOK, InnerTaskStep
    <3>3. H' \subseteq H
      BY <1>f, <3>1, <3>2 DEF Holding
    <3> HIDE DEF H, Done
    <3>4. IsFiniteSet(H') /\ Cardinality(H') \in Nat /\ Cardinality(H') <= Cardinality(H)
      BY <3>3, <2>c, FewerCounted
    <3>5. Copies(k)' = Copies(k) /\ IsFiniteSet(Copies(k)')
      BY <3>1, <2>q, <2>c
    <3>6. ASSUME NEW c \in Nat, NEW h \in Nat, NEW cc \in Nat, NEW hh \in Nat,
                 c = Cardinality(Copies(k)), cc = Cardinality(Copies(k)'),
                 h = Cardinality(H), hh = Cardinality(H')
          PROVE  (cc - c) + (hh - h) <= faults' - faults
      BY <1>f, <3>4, <3>5, <3>6
    <3> QED
      BY <3>4, <3>5, <3>6, <2>s
  <2> QED
    BY <2>1, <2>2, <2>3, <2>4 DEF InnerTaskStep
<1>h. HistoryOK'
  BY <1>f, <1>k DEF HistoryOK, routerVars
<1> QED
  BY <1>h, <1>k DEF TasksAccounted, Accounted

-----------------------------------------------------------------------------
\* The steps of a call at which it is under way.
Ways == {"lookup", "persist", "upsert", "enqueue"}

\* What a call's step leaves of the history, the workers and the other calls.
LEMMA CallFrame ==
    ASSUME TypeOK, NEW c \in Calls, CallStep(c), UNCHANGED workerVars,
           accepted' = accepted \cup {b \in Calls : Accepted(b)}
    PROVE  /\ \A b \in Calls \ {c} : cpc'[b] = cpc[b]
           /\ cpc'[c] # "new"
           /\ req' = req
           /\ accepted' = (IF Accepted(c) THEN accepted \cup {c} ELSE accepted)
           /\ \A k : Holding(k)' = Holding(k)
           /\ faults' \in Nat /\ faults \in Nat /\ faults <= faults'
<1> USE DEF CallStep, CallProceeds, PostFind, PostLookup, PostPersist, PostUpsert,
      PostEnqueue, GetStatus, EnqueueDirectly, CallFails
<1>1. \A b \in Calls \ {c} : cpc'[b] = cpc[b]
  BY DEF Respond, RespondFrom, LookupNext, Goto, TypeOK, RouterTypeOK
<1>2. cpc'[c] # "new"
  BY DEF Respond, RespondFrom, LookupNext, Goto, TypeOK, RouterTypeOK
<1>3. req' = req
  OBVIOUS
<1>4. \A b \in Calls \ {c} : ~Accepted(b)
  BY <1>1 DEF Accepted
<1>5. accepted' = (IF Accepted(c) THEN accepted \cup {c} ELSE accepted)
  BY <1>4
<1>6. \A k : Holding(k)' = Holding(k)
  BY DEF Holding, workerVars
<1>7. faults \in Nat
  BY StoresAssumption DEF TypeOK, StoresTypeOK
<1>8. faults' \in {faults, faults + 1}
  BY DEF RespondFrom, Fetch, Fault, storeVars
<1> QED
  BY <1>1, <1>2, <1>3, <1>5, <1>6, <1>7, <1>8

\* A call goes to the cache, publishes a task itself, publishes the task of
\* the request it upserted, or leaves the broker alone.
LEMMA CallKinds ==
    ASSUME TypeOK, NEW c \in Calls, CallStep(c), UNCHANGED workerVars
    PROVE  \/ /\ cpc[c] = "new" /\ cpc'[c] = "lookup" /\ queue' = queue
              /\ PostFind(c)
           \/ EnqueueDirectly(c) /\ cpc'[c] = "done"
           \/ PostEnqueue(c) /\ cpc'[c] = "done"
           \/ /\ queue' = queue
              /\ cpc'[c] \in Ways => cpc[c] \in Ways
              /\ cpc'[c] = "lookup" => cpc[c] # "new"
<1>1. CASE PostFind(c)
  BY <1>1 DEF PostFind, RespondFrom, Respond, LookupNext, Goto, TypeOK, RouterTypeOK, Ways
<1>2. CASE EnqueueDirectly(c)
  BY <1>2 DEF EnqueueDirectly, Respond, Goto, TypeOK, RouterTypeOK
<1>3. CASE PostEnqueue(c)
  BY <1>3 DEF PostEnqueue, Respond, Goto, TypeOK, RouterTypeOK
<1>4. CASE PostLookup(c) \/ PostPersist(c) \/ PostUpsert(c) \/ GetStatus(c) \/ CallFails(c)
  BY <1>4 DEF PostLookup, PostPersist, PostUpsert, GetStatus, CallFails, RespondFrom,
     Respond, Goto, TypeOK, RouterTypeOK, Ways, storeVars
<1> QED
  BY <1>1, <1>2, <1>3, <1>4 DEF CallStep, CallProceeds

\* A call's step keeps the number of tasks within the bound.
LEMMA CallKeepsAccounts ==
    ASSUME TypeOK, HistoryOK, TasksAccounted, NEW c \in Calls, CallStep(c),
           UNCHANGED workerVars, accepted' = accepted \cup {b \in Calls : Accepted(b)}
    PROVE  HistoryOK' /\ TasksAccounted'
<1>f. /\ \A b \in Calls \ {c} : cpc'[b] = cpc[b]
      /\ cpc'[c] # "new"
      /\ req' = req
      /\ accepted' = (IF Accepted(c) THEN accepted \cup {c} ELSE accepted)
      /\ \A k : Holding(k)' = Holding(k)
      /\ faults' \in Nat /\ faults \in Nat /\ faults <= faults'
  BY CallFrame
<1>m. LET m == [key |-> req[c].key, text |-> req[c].text, retries |-> 0]
      IN  m \in Message /\ m.key = req[c].key
  BY StoresAssumption DEF TypeOK, RouterTypeOK, Request, Message
<1>h. /\ accepted' \in SUBSET Calls
      /\ IsFiniteSet(accepted')
      /\ \A b \in accepted' : cpc'[b] # "new"
  <2>1. accepted \in SUBSET Calls /\ IsFiniteSet(accepted) /\ \A b \in accepted : cpc[b] # "new"
    BY DEF HistoryOK
  <2>2. IsFiniteSet(accepted \cup {c})
    BY <2>1, FS_AddElement
  <2>3. IsFiniteSet(accepted')
    BY <1>f, <2>1, <2>2
  <2>4. \A b \in accepted' : cpc'[b] # "new"
    BY <1>f, <2>1
  <2> QED
    BY <1>f, <2>1, <2>3, <2>4
<1>w. ASSUME NEW k \in Keys PROVE UnderWay(k)' \subseteq accepted'
  <2>1. cpc'[c] \in Ways => cpc[c] \in Ways \/ Accepted(c)
    BY CallKinds DEF Accepted, Ways
  <2> QED
    BY <1>f, <2>1 DEF UnderWay, HistoryOK, Ways
<1>k. ASSUME NEW k \in Keys
      PROVE  IsFiniteSet(Copies(k)') /\ Accounted(k)'
  <2> DEFINE C == Copies(k)
             U == UnderWay(k)
             A == AcceptedFor(k)
             mine == req[c].key = k
             Done == IsFiniteSet(C') /\ Accounted(k)'
  <2> SUFFICES Done
    OBVIOUS
  <2>c. IsFiniteSet(C) /\ Cardinality(C) \in Nat
        /\ Cardinality(Holding(k)) \in Nat
        /\ IsFiniteSet(U) /\ Cardinality(U) \in Nat
        /\ IsFiniteSet(A) /\ Cardinality(A) \in Nat
    BY CountedSets
  <2>o. Accounted(k)
    BY DEF TasksAccounted, Accounted
  <2>q. queue' = queue => C' = C
    BY DEF Copies
  <2>a. /\ IsFiniteSet(A')
        /\ Accepted(c) /\ mine => Cardinality(A') = Cardinality(A) + 1
        /\ ~(Accepted(c) /\ mine) => A' = A
    <3>1. Accepted(c) => c \notin accepted
      BY DEF Accepted, HistoryOK
    <3>2. A' = (IF Accepted(c) /\ mine THEN A \cup {c} ELSE A)
      BY <1>f DEF AcceptedFor
    <3>3. Accepted(c) => c \notin A
      BY <3>1 DEF AcceptedFor
    <3> HIDE DEF A, mine
    <3> QED
      BY <3>2, <3>3, <2>c, FS_AddElement
  <2>s. ASSUME IsFiniteSet(C'), IsFiniteSet(U'),
               \A p, u, a, pp, uu, aa \in Nat :
                  /\ p = Cardinality(C) /\ pp = Cardinality(C')
                  /\ u = Cardinality(U) /\ uu = Cardinality(U')
                  /\ a = Cardinality(A) /\ aa = Cardinality(A')
                  => (pp - p) + (uu - u) <= aa - a
        PROVE  Done
    <3>1. PICK p \in Nat, h \in Nat, u \in Nat, a \in Nat :
             /\ p = Cardinality(C) /\ h = Cardinality(Holding(k))
             /\ u = Cardinality(U) /\ a = Cardinality(A)
      BY <2>c
    <3>2. PICK pp \in Nat, uu \in Nat, aa \in Nat :
             pp = Cardinality(C') /\ uu = Cardinality(U') /\ aa = Cardinality(A')
      BY <2>s, <2>a, FS_CardinalityType
    <3>3. h = Cardinality(Holding(k)')
      BY <3>1, <1>f
    <3>4. (pp - p) + (h - h) + (uu - u) <= (aa - a) + (faults' - faults)
      <4>1. (pp - p) + (uu - u) <= aa - a
        BY <2>s, <3>1, <3>2
      <4> QED
        BY <4>1, <1>f
    <3>5. Accounted(k)'
      BY <3>1, <3>2, <3>3, <3>4, <2>o, <1>f, AccountStep
    <3> QED
      BY <2>s, <3>5
  <2>1. CASE cpc[c] = "new" /\ cpc'[c] = "lookup" /\ queue' = queue
    <3>1. U' = (IF mine THEN U \cup {c} ELSE U) /\ c \notin U
      BY <1>f, <2>1 DEF UnderWay
    <3>2. Accepted(c)
      BY <2>1 DEF Accepted
    <3> HIDE DEF C, U, A, mine, Done
    <3>3. IsFiniteSet(U') /\ (mine => Cardinality(U') = Cardinality(U) + 1) /\ (~mine => U' = U)
      BY <3>1, <2>c, FS_AddElement
    <3> QED
      BY <2>1, <2>a, <2>c, <2>q, <2>s, <3>2, <3>3
  <2>2. CASE EnqueueDirectly(c) /\ cpc'[c] = "done"
    <3> DEFINE m == [key |-> req[c].key, text |-> req[c].text, retries |-> 0]
    <3>1. U' = U
      BY <1>f, <2>2 DEF UnderWay, EnqueueDirectly
    <3>2. Publish(m) /\ m \in Message /\ m.key = req[c].key
      BY <2>2, <1>m DEF EnqueueDirectly
    <3>3. queue' # queue
      <4>1. queue \in [Message -> Nat]
        BY DEF TypeOK, StoresTypeOK
      <4>2. queue'[m] = queue[m] + 1
        BY <3>2, <4>1 DEF Publish
      <4> HIDE DEF m
      <4> QED
        BY <3>2, <4>1, <4>2
    <3>4. Accepted(c)
      BY <2>2, <3>3 DEF Accepted, EnqueueDirectly
    <3> HIDE DEF m
    <3>5. IsFiniteSet(C') /\ (mine => Cardinality(C') = Cardinality(C) + 1)
          /\ (~mine => Cardinality(C') = Cardinality(C))
      BY <3>2, <2>c, PublishCopies
    <3> HIDE DEF C, U, A, mine, Done
    <3> QED
      BY <2>a, <2>c, <2>s, <3>1, <3>4, <3>5
  <2>3. CASE PostEnqueue(c) /\ cpc'[c] = "done"
    <3> DEFINE m == [key |-> req[c].key, text |-> req[c].text, retries |-> 0]
    <3>1. U' = U \ {c} /\ (c \in U <=> mine)
      BY <1>f, <2>3 DEF UnderWay, PostEnqueue
    <3>2. Publish(m) /\ m \in Message /\ m.key = req[c].key
      BY <2>3, <1>m DEF PostEnqueue
    <3>3. ~Accepted(c)
      BY <2>3 DEF Accepted, PostEnqueue
    <3> HIDE DEF m
    <3>4. IsFiniteSet(C') /\ (mine => Cardinality(C') = Cardinality(C) + 1)
          /\ (~mine => Cardinality(C') = Cardinality(C))
      BY <3>2, <2>c, PublishCopies
    <3>5. c \notin U => U \ {c} = U
      OBVIOUS
    <3> HIDE DEF C, U, A, mine, Done
    <3>6. IsFiniteSet(U') /\ (mine => Cardinality(U') = Cardinality(U) - 1) /\ (~mine => U' = U)
      BY <3>1, <3>5, <2>c, FS_RemoveElement
    <3> QED
      BY <2>a, <2>c, <2>s, <3>3, <3>4, <3>6
  <2>4. CASE /\ queue' = queue
             /\ cpc'[c] \in Ways => cpc[c] \in Ways
             /\ cpc'[c] = "lookup" => cpc[c] # "new"
    <3>1. U' \subseteq U
      BY <1>f, <2>4 DEF UnderWay, Ways
    <3>2. ~Accepted(c)
      BY <2>4 DEF Accepted
    <3> HIDE DEF C, U, A, mine, Done
    <3>3. IsFiniteSet(U') /\ Cardinality(U') \in Nat /\ Cardinality(U') <= Cardinality(U)
      BY <3>1, <2>c, FewerCounted
    <3> QED
      BY <2>4, <2>a, <2>c, <2>q, <2>s, <3>2, <3>3
  <2> QED
    BY <2>1, <2>2, <2>3, <2>4, CallKinds
<1> QED
  BY <1>h, <1>w, <1>k DEF HistoryOK, TasksAccounted, Accounted
-----------------------------------------------------------------------------
(* Requests nothing went wrong with                                        *)

\* A finite set that counts one at most has no two elements.
LEMMA AtMostOne ==
    ASSUME NEW S, IsFiniteSet(S), Cardinality(S) <= 1, NEW x \in S
    PROVE  S = {x} /\ Cardinality(S) = 1
<1>1. IsFiniteSet(S \ {x}) /\ Cardinality(S \ {x}) = Cardinality(S) - 1
  BY FS_RemoveElement
<1>2. Cardinality(S) \in Nat /\ Cardinality(S \ {x}) \in Nat
  BY <1>1, FS_CardinalityType
<1>3. Cardinality(S) = 1 /\ Cardinality(S \ {x}) = 0
  BY <1>1, <1>2
<1>4. S \ {x} = {}
  BY <1>1, <1>3, FS_EmptySet
<1> QED
  BY <1>3, <1>4

\* While nothing has gone wrong with request k it has one task at most, and
\* none before a call was accepted.
LEMMA SoleTask ==
    ASSUME TypeOK, HistoryOK, NEW k \in Keys, Accounted(k), Alone(k)
    PROVE  /\ Copies(k) # {} => Holding(k) = {} /\ UnderWay(k) = {}
           /\ \A w \in Holding(k) : Holding(k) = {w} /\ Copies(k) = {} /\ UnderWay(k) = {}
           /\ \A c \in UnderWay(k) : UnderWay(k) = {c} /\ Copies(k) = {} /\ Holding(k) = {}
           /\ AcceptedFor(k) = {} => NoTask(k)
<1> DEFINE C == Copies(k)
           H == Holding(k)
           U == UnderWay(k)
           A == AcceptedFor(k)
<1>1. IsFiniteSet(C) /\ IsFiniteSet(H) /\ IsFiniteSet(U) /\ IsFiniteSet(A)
      /\ Cardinality(C) \in Nat /\ Cardinality(H) \in Nat
      /\ Cardinality(U) \in Nat /\ Cardinality(A) \in Nat
  BY CountedSets
<1>2. Cardinality(C) + Cardinality(H) + Cardinality(U) <= Cardinality(A) /\ Cardinality(A) <= 1
  <2>1. Cardinality(C) + Cardinality(H) + Cardinality(U) <= Cardinality(A) + faults
        /\ faults = 0 /\ Cardinality(A) <= 1
    BY DEF Accounted, Tasks, Alone
  <2> HIDE DEF C, H, U, A
  <2> QED
    BY <1>1, <2>1
<1> HIDE DEF C, H, U, A
<1>3. (Cardinality(C) = 0 <=> C = {}) /\ (Cardinality(H) = 0 <=> H = {})
      /\ (Cardinality(U) = 0 <=> U = {}) /\ (Cardinality(A) = 0 <=> A = {})
  BY <1>1, FS_EmptySet
<1>4. Cardinality(C) <= 1 /\ Cardinality(H) <= 1 /\ Cardinality(U) <= 1
  BY <1>1, <1>2
<1>5. C # {} => H = {} /\ U = {}
  BY <1>1, <1>2, <1>3
<1>6. ASSUME NEW w \in H PROVE H = {w} /\ C = {} /\ U = {}
  <2>1. H = {w} /\ Cardinality(H) = 1
    BY <1>1, <1>4, AtMostOne
  <2> QED
    BY <1>1, <1>2, <1>3, <2>1
<1>7. ASSUME NEW c \in U PROVE U = {c} /\ C = {} /\ H = {}
  <2>1. U = {c} /\ Cardinality(U) = 1
    BY <1>1, <1>4, AtMostOne
  <2> QED
    BY <1>1, <1>2, <1>3, <2>1
<1>8. A = {} => C = {} /\ H = {} /\ U = {}
  BY <1>1, <1>2, <1>3
<1> QED
  BY <1>5, <1>6, <1>7, <1>8 DEF C, H, U, A, NoTask

\* A request that is alone after a step was alone before it, and the step met
\* no fault.
LEMMA AloneBefore ==
    ASSUME HistoryOK, HistoryOK', NEW k \in Keys, Alone(k)', faults \in Nat, faults <= faults',
           AcceptedFor(k) \subseteq AcceptedFor(k)'
    PROVE  Alone(k) /\ faults = 0 /\ faults' = 0
<1>1. faults' = 0 /\ Cardinality(AcceptedFor(k)') <= 1
  BY DEF Alone
<1>2. IsFiniteSet(AcceptedFor(k)')
  <2>1. AcceptedFor(k)' \subseteq accepted' /\ IsFiniteSet(accepted')
    BY DEF AcceptedFor, HistoryOK
  <2> QED
    BY <2>1, FS_Subset
<1>3. Cardinality(AcceptedFor(k)) <= Cardinality(AcceptedFor(k)')
      /\ Cardinality(AcceptedFor(k)) \in Nat /\ Cardinality(AcceptedFor(k)') \in Nat
  BY <1>2, FS_Subset, FS_CardinalityType
<1> QED
  BY <1>1, <1>3 DEF Alone

\* Steps that leave the document and bring no new task keep it.
LEMMA QuietSmooth ==
    ASSUME NEW k, SmoothNow(k), doc'[k] = doc[k], Copies(k) = {} => Copies(k)' = {},
           Holding(k)' \subseteq Holding(k), UnderWay(k)' \subseteq UnderWay(k),
           AcceptedFor(k) \subseteq AcceptedFor(k)',
           \A w \in Holding(k)' : wpc'[w] = wpc[w]
    PROVE  SmoothNow(k)'
  BY DEF SmoothNow, NoTask

\* Steps that leave the request unsettled keep it, unless a task fails.
LEMMA OpenSmooth ==
    ASSUME NEW k, doc'[k].status \notin {"completed", "failed"}, AcceptedFor(k)' # {},
           \A w \in Holding(k)' : wpc'[w] \notin Troubled
    PROVE  SmoothNow(k)'
  BY DEF SmoothNow

\* What a write does to the status.
LEMMA WriteStatus ==
    ASSUME NEW d \in Doc, NEW p \in Points \cup {NoPoint}, NEW n \in Nat
    PROVE  /\ Received.status = "received"
           /\ Enqueued(n).status = "queued"
           /\ Claimed(d, n).status = "processing"
           /\ \A s \in {"queued", "processing"} : TransientError(d, s, n).status = s
           /\ MarkedFailed(d, n).status = "failed"
           /\ CompletedFromCache(d, p).status = "completed"
           /\ CompletedFromLLM(d, p, n).status = "completed"
           /\ Persisted(d, p, n).status = "completed"
  BY DEF AbsentDoc, Received, Enqueued, Claimed, TransientError, MarkedFailed,
         CompletedFromCache, CompletedFromLLM, Persisted, Doc
\* A worker's step keeps a request nothing went wrong with smooth.
LEMMA TaskKeepsSmooth ==
    ASSUME TypeOK, HistoryOK, TasksAccounted, ClaimsExist, Smooth, HistoryOK',
           NEW w \in Workers, TaskStep(w), UNCHANGED routerVars,
           accepted' = accepted \cup {c \in Calls : Accepted(c)},
           NEW k \in Keys, Alone(k)'
    PROVE  SmoothNow(k)'
<1>f. /\ accepted' = accepted
      /\ UnderWay(k)' = UnderWay(k) /\ AcceptedFor(k)' = AcceptedFor(k)
      /\ \A v \in Workers \ {w} : wpc'[v] = wpc[v] /\ job'[v] = job[v]
      /\ faults' \in Nat /\ faults \in Nat /\ faults <= faults'
  BY TaskFrame
<1>a. Alone(k) /\ faults = 0 /\ faults' = 0
  BY <1>f, AloneBefore
<1>s. SmoothNow(k)
  BY <1>a DEF Smooth
<1>o. /\ Copies(k) # {} => Holding(k) = {} /\ UnderWay(k) = {}
      /\ \A v \in Holding(k) : Holding(k) = {v} /\ Copies(k) = {} /\ UnderWay(k) = {}
      /\ AcceptedFor(k) = {} => NoTask(k)
  BY <1>a, SoleTask DEF TasksAccounted, Accounted
<1>c. IsFiniteSet(Copies(k))
  BY DEF HistoryOK
<1>j. job[w] # NoJob => job[w] \in Message
  BY DEF TypeOK, WorkerTypeOK
<1>d. doc[k] \in Doc
  BY DEF TypeOK, StoresTypeOK
<1>1. ASSUME NEW m \in Message, Deliver(w, m)
      PROVE  SmoothNow(k)'
  <2>1. wpc[w] = "idle" /\ wpc'[w] = "find" /\ job[w] = NoJob /\ job'[w] = m /\ m # NoJob
        /\ doc' = doc /\ queue[m] > 0 /\ queue' = [queue EXCEPT ![m] = @ - 1]
    BY <1>1, NoJobAssumption DEF Deliver, TypeOK, WorkerTypeOK
  <2>2. CASE m.key # k
    <3>1. Copies(k)' = Copies(k)
      BY <2>1, <2>2, <1>c, DeliverCopies
    <3>2. Holding(k)' \subseteq Holding(k) /\ \A v \in Holding(k)' : wpc'[v] = wpc[v]
      BY <1>f, <2>1, <2>2 DEF Holding
    <3> QED
      BY <1>f, <1>s, <2>1, <3>1, <3>2, QuietSmooth
  <2>3. CASE m.key = k
    <3>1. Copies(k) # {}
      BY <2>1, <2>3, NoCopies
    <3>2. Holding(k)' \subseteq Holding(k) \cup {w} /\ Holding(k) = {}
      BY <1>f, <1>o, <2>1, <3>1 DEF Holding
    <3>3. doc'[k].status \notin {"completed", "failed"} /\ AcceptedFor(k)' # {}
      BY <1>f, <1>s, <1>o, <2>1, <3>1 DEF SmoothNow, NoTask
    <3> QED
      BY <2>1, <3>2, <3>3, OpenSmooth DEF Troubled
  <2> QED
    BY <2>2, <2>3
<1>2. ASSUME Retry(w)
      PROVE  SmoothNow(k)'
  <2>1. job' = job /\ wpc[w] = "retry" /\ wpc'[w] = "ack" /\ job[w] # NoJob /\ doc' = doc
    BY <1>2 DEF Retry, GoOn, Carry, TypeOK, WorkerTypeOK
  <2>2. Holding(k)' \subseteq Holding(k) /\ \A v \in Holding(k)' : wpc'[v] = wpc[v]
    BY <1>f, <2>1 DEF Holding
  <2>3. CASE job[w].key # k
    <3> DEFINE m == [job[w] EXCEPT !.retries = @ + 1]
    <3>1. CASE queue' = queue
      BY <3>1, <1>f, <1>s, <2>1, <2>2, QuietSmooth DEF Copies
    <3>2. CASE job[w].retries < MaxRetries /\ Publish(m)
      <4>1. m \in Message /\ m.key = job[w].key
        BY <1>j, <2>1, <3>2, StoresAssumption DEF Message
      <4> HIDE DEF m
      <4>2. Copies(k)' = Copies(k)
        BY <4>1, <2>3, <3>2, <1>c, PublishCopies
      <4> QED
        BY <4>2, <1>f, <1>s, <2>1, <2>2, QuietSmooth
    <3> QED
      BY <1>2, <3>1, <3>2 DEF Retry
  <2>4. CASE job[w].key = k
    <3>1. w \in Holding(k)
      BY <2>1, <2>4 DEF Holding
    <3>2. doc'[k].status \notin {"completed", "failed"} /\ AcceptedFor(k)' # {}
      BY <1>f, <1>s, <1>o, <2>1, <3>1 DEF SmoothNow, NoTask
    <3> QED
      BY <1>s, <2>2, <3>2, OpenSmooth DEF SmoothNow
  <2> QED
    BY <2>3, <2>4
<1>3. ~Crash(w) /\ ~Redeliver(w) /\ ~Raise(w) /\ ~ReplyLost(w) /\ ~RetryLost(w)
      /\ ~FailHandlerRaises(w)
  BY <1>a DEF Crash, Redeliver, Raise, ReplyLost, RetryLost, FailHandlerRaises, Fault
<1>4. ASSUME InnerTaskStep(w)
      PROVE  SmoothNow(k)'
  <2>1. queue' = queue /\ job[w] # NoJob /\ (job'[w] = job[w] \/ job'[w] = NoJob)
        /\ (wpc'[w] = "ack" \/ wpc'[w] = "idle" \/ wpc[w] # "ack")
    BY <1>4, InnerFrame
  <2>2. Copies(k)' = Copies(k)
    BY <2>1 DEF Copies
  <2>3. wpc'[w] = "idle" => job'[w] = NoJob
    BY <1>4, StepTypes DEF Next, TypeOK, WorkerTypeOK, InnerTaskStep
  <2>4. CASE job[w].key # k \/ wpc[w] = "ack"
    <3>1. Holding(k)' \subseteq Holding(k) /\ \A v \in Holding(k)' : wpc'[v] = wpc[v]
      BY <1>f, <2>1, <2>3, <2>4 DEF Holding
    <3>2. doc'[k] = doc[k]
      BY <1>4, <1>3, <2>4
      DEF InnerTaskStep, TaskStep, TaskProceeds, TaskFails, Find, Insert, Check, Claim,
          Recheck, Lookup, CompleteHit, Generate, Transient, Store, Complete, FailRead,
          FailWrite, Ack, Write, storeVars, TypeOK, StoresTypeOK
    <3> QED
      BY <1>f, <1>s, <2>2, <3>1, <3>2, QuietSmooth
  <2>5. CASE job[w].key = k /\ wpc[w] # "ack"
    <3>1. w \in Holding(k)
      BY <2>1, <2>5 DEF Holding
    <3>2. /\ Holding(k) = {w} /\ Copies(k) = {} /\ UnderWay(k) = {}
          /\ AcceptedFor(k)' # {}
          /\ doc[k].status \notin {"completed", "failed"}
          /\ wpc[w] \notin Troubled
      BY <1>f, <1>s, <1>o, <3>1 DEF SmoothNow, NoTask
    <3>3. \A v \in Holding(k)' : v = w
      BY <1>f, <3>2 DEF Holding
    <3>w. ASSUME NEW d, Write(k, d)
          PROVE  doc'[k] = d
      BY <3>w DEF Write, TypeOK, StoresTypeOK
    <3>open. ASSUME doc'[k].status \notin {"completed", "failed"}, wpc'[w] \notin Troubled
             PROVE  SmoothNow(k)'
      BY <3>open, <3>2, <3>3, OpenSmooth
    <3>done. ASSUME doc'[k].status = "completed", wpc'[w] = "ack"
             PROVE  SmoothNow(k)'
      <4>1. Holding(k)' = {}
        BY <3>done, <3>3 DEF Holding
      <4> QED
        BY <3>done, <4>1, <1>f, <2>2, <3>2 DEF SmoothNow, NoTask
    <3>t. ASSUME NEW l, wpc' = [wpc EXCEPT ![w] = l]
          PROVE  wpc'[w] = l
      BY <3>t DEF TypeOK, WorkerTypeOK
    <3>4. CASE Find(w)
      BY <3>4, <2>5, <3>2, <3>t, <3>open DEF Find, GoOn, Carry, Troubled, storeVars
    <3>5. CASE Insert(w)
      <4>1. wpc'[w] \in {"find", "claim"}
        BY <3>5, <3>t DEF Insert, GoOn, Carry
      <4>2. doc'[k] = doc[k] \/ doc'[k] = Received
        BY <3>5, <2>5, <3>w DEF Insert
      <4> QED
        BY <4>1, <4>2, <3>2, <3>open, <1>d, WriteStatus DEF Troubled
    <3>6. CASE Check(w) \/ Recheck(w) \/ FailRead(w) \/ FailWrite(w)
      BY <3>6, <3>2 DEF Check, Recheck, FailRead, FailWrite, Troubled
    <3>7. CASE Claim(w)
      <4>1. doc[k].status \in Claimable
        BY <3>7, <2>5, <3>2, <1>d DEF Claim, ClaimsExist, Claimable, Doc, Status
      <4>2. wpc'[w] = "lookup" /\ doc'[k] = Claimed(doc[k], job[w].retries)
        BY <3>7, <2>5, <3>t, <3>w, <4>1 DEF Claim, GoOn, Carry
      <4>3. job[w].retries \in Nat
        BY <1>j, <2>1, StoresAssumption DEF Message
      <4> QED
        BY <4>2, <4>3, <1>d, WriteStatus, <3>open DEF Troubled
    <3>8. CASE Lookup(w) \/ Generate(w) \/ Store(w)
      <4>1. wpc'[w] \in {"call", "hit", "store", "complete"}
        BY <3>8, <3>t DEF Lookup, Generate, Store, GoOn, Carry
      <4>2. doc' = doc
        BY <3>8 DEF Lookup, Generate, Store, storeVars
      <4> QED
        BY <4>1, <4>2, <3>2, <3>open DEF Troubled
    <3>9. CASE Transient(w)
      <4>1. wpc'[w] = "retry"
        BY <3>9, <3>t DEF Transient, GoOn, Carry
      <4>2. \E s \in {"queued", "processing"} : doc'[k] = TransientError(doc[k], s, job[w].retries)
        BY <3>9, <2>5, <3>w DEF Transient
      <4>3. job[w].retries \in Nat
        BY <1>j, <2>1, StoresAssumption DEF Message
      <4> QED
        BY <4>1, <4>2, <4>3, <1>d, WriteStatus, <3>open DEF Troubled
    <3>10. CASE CompleteHit(w) \/ Complete(w)
      <4>1. wpc'[w] = "ack"
        BY <3>10, <3>t DEF CompleteHit, Complete, GoOn, Carry
      <4>2. \/ doc'[k] = CompletedFromCache(doc[k], point[w])
            \/ doc'[k] = CompletedFromLLM(doc[k], point[w], job[w].retries)
        BY <3>10, <2>5, <3>w DEF CompleteHit, Complete
      <4>3. job[w].retries \in Nat /\ point[w] \in Points \cup {NoPoint}
        BY <1>j, <2>1, StoresAssumption DEF Message, TypeOK, WorkerTypeOK
      <4> QED
        BY <4>1, <4>2, <4>3, <1>d, WriteStatus, <3>done
    <3>11. ~Ack(w)
      BY <2>5 DEF Ack
    <3> QED
      BY <1>4, <1>3, <3>4, <3>5, <3>6, <3>7, <3>8, <3>9, <3>10, <3>11
      DEF InnerTaskStep, TaskStep, TaskProceeds, TaskFails
  <2> QED
    BY <2>4, <2>5
<1> QED
  BY <1>1, <1>2, <1>3, <1>4 DEF InnerTaskStep
\* A call's step keeps a request nothing went wrong with smooth.
LEMMA CallKeepsSmooth ==
    ASSUME TypeOK, HistoryOK, TasksAccounted, Smooth, HistoryOK',
           NEW c \in Calls, CallStep(c), UNCHANGED workerVars,
           accepted' = accepted \cup {b \in Calls : Accepted(b)},
           NEW k \in Keys, Alone(k)'
    PROVE  SmoothNow(k)'
<1>f. /\ \A b \in Calls \ {c} : cpc'[b] = cpc[b]
      /\ cpc'[c] # "new"
      /\ req' = req
      /\ accepted' = (IF Accepted(c) THEN accepted \cup {c} ELSE accepted)
      /\ Holding(k)' = Holding(k)
      /\ faults' \in Nat /\ faults \in Nat /\ faults <= faults'
  BY CallFrame
<1>g. AcceptedFor(k) \subseteq AcceptedFor(k)' /\ wpc' = wpc
  BY <1>f DEF AcceptedFor, workerVars
<1>a. Alone(k) /\ faults = 0 /\ faults' = 0
  BY <1>f, <1>g, AloneBefore
<1>s. SmoothNow(k)
  BY <1>a DEF Smooth
<1>o. /\ Copies(k) # {} => Holding(k) = {} /\ UnderWay(k) = {}
      /\ \A b \in UnderWay(k) : UnderWay(k) = {b} /\ Copies(k) = {} /\ Holding(k) = {}
      /\ AcceptedFor(k) = {} => NoTask(k)
  BY <1>a, SoleTask DEF TasksAccounted, Accounted
<1>c. IsFiniteSet(Copies(k))
  BY DEF HistoryOK
<1>d. doc[k] \in Doc
  BY DEF TypeOK, StoresTypeOK
<1>h. \A v \in Holding(k)' : wpc'[v] \notin Troubled
  BY <1>f, <1>g, <1>s DEF SmoothNow
<1>m. LET m == [key |-> req[c].key, text |-> req[c].text, retries |-> 0]
      IN  m \in Message /\ m.key = req[c].key
  BY StoresAssumption DEF TypeOK, RouterTypeOK, Request, Message
<1>n. ASSUME Accepted(c), req[c].key = k
      PROVE  doc[k].status \notin {"completed", "failed"}
  <2> DEFINE A == AcceptedFor(k)
  <2>1. c \notin accepted
    BY <1>n DEF Accepted, HistoryOK
  <2>2. AcceptedFor(k)' = A \cup {c} /\ c \notin A
    BY <1>f, <1>n, <2>1 DEF AcceptedFor
  <2>3. IsFiniteSet(A) /\ Cardinality(A) \in Nat
    BY CountedSets
  <2>4. Cardinality(A \cup {c}) = Cardinality(A) + 1
    BY <2>2, <2>3, FS_AddElement
  <2>5. Cardinality(A \cup {c}) <= 1
    BY <2>2 DEF Alone
  <2>6. Cardinality(A) = 0
    <3> HIDE DEF A
    <3> QED
      BY <2>3, <2>4, <2>5
  <2>7. A = {}
    BY <2>3, <2>6, FS_EmptySet
  <2> QED
    BY <2>7, <1>s DEF SmoothNow
<1>e. ASSUME Accepted(c), req[c].key = k, doc' = doc
      PROVE  SmoothNow(k)'
  <2>1. doc'[k].status \notin {"completed", "failed"}
    BY <1>e, <1>n
  <2>2. c \in AcceptedFor(k)'
    BY <1>e, <1>f DEF AcceptedFor
  <2> QED
    BY <1>h, <2>1, <2>2, OpenSmooth
<1>q. ASSUME Copies(k)' = Copies(k), doc'[k] = doc[k], UnderWay(k)' \subseteq UnderWay(k)
      PROVE  SmoothNow(k)'
  BY <1>q, <1>f, <1>g, <1>s, QuietSmooth
<1>u. ASSUME req[c].key = k, cpc[c] \in Ways
      PROVE  /\ UnderWay(k) = {c} /\ Copies(k) = {} /\ Holding(k) = {}
             /\ doc[k].status \notin {"completed", "failed"}
             /\ AcceptedFor(k)' # {}
  <2>1. c \in UnderWay(k)
    BY <1>u DEF UnderWay, Ways
  <2> QED
    BY <2>1, <1>g, <1>o, <1>s DEF SmoothNow, NoTask
<1>w. ASSUME NEW d, Write(req[c].key, d)
      PROVE  (req[c].key = k => doc'[k] = d) /\ (req[c].key # k => doc'[k] = doc[k])
  BY <1>w DEF Write, TypeOK, StoresTypeOK
<1>x. queue' = queue => Copies(k)' = Copies(k)
  BY DEF Copies
<1>y. req[c].key # k => UnderWay(k)' \subseteq UnderWay(k)
  BY <1>f DEF UnderWay
<1>t. ASSUME NEW l, cpc' = [cpc EXCEPT ![c] = l]
      PROVE  cpc'[c] = l
  BY <1>t DEF TypeOK, RouterTypeOK
<1>1. ASSUME PostFind(c)
      PROVE  SmoothNow(k)'
  <2>1. cpc[c] = "new" /\ doc' = doc /\ queue' = queue
    BY <1>1 DEF PostFind
  <2>2. CASE req[c].key = k /\ cpc'[c] \in Ways
    <3>1. Accepted(c)
      BY <1>1, <1>t, <2>2 DEF PostFind, RespondFrom, Respond, LookupNext, Goto, Accepted, Ways
    <3> QED
      BY <1>e, <2>1, <2>2, <3>1
  <2>3. CASE req[c].key = k /\ cpc'[c] \notin Ways
    <3>1. UnderWay(k)' \subseteq UnderWay(k)
      BY <1>f, <2>3 DEF UnderWay, Ways
    <3> QED
      BY <1>q, <1>x, <2>1, <3>1
  <2>4. CASE req[c].key # k
    BY <1>q, <1>x, <1>y, <2>1, <2>4
  <2> QED
    BY <2>2, <2>3, <2>4
<1>2. ASSUME PostLookup(c)
      PROVE  SmoothNow(k)'
  <2>1. cpc[c] = "lookup" /\ doc' = doc /\ queue' = queue
    BY <1>2 DEF PostLookup, storeVars
  <2>2. CASE req[c].key = k
    BY <1>h, <1>u, <2>1, <2>2, OpenSmooth DEF Ways
  <2> QED
    BY <1>q, <1>x, <1>y, <2>1, <2>2
<1>3. ASSUME PostPersist(c)
      PROVE  SmoothNow(k)'
  <2>1. cpc[c] = "persist" /\ cpc'[c] = "done" /\ queue' = queue
        /\ Write(req[c].key, Persisted(doc[req[c].key], hit[c], seen[c]))
    BY <1>3, <1>t DEF PostPersist, Respond, Goto
  <2>2. CASE req[c].key = k
    <3>0. doc'[k] = Persisted(doc[k], hit[c], seen[c])
          /\ hit[c] \in Points \cup {NoPoint} /\ seen[c] \in Nat
      BY <1>w, <2>1, <2>2 DEF TypeOK, RouterTypeOK
    <3>1. doc'[k].status = "completed"
      BY <1>d, <3>0, WriteStatus
    <3>2. UnderWay(k) = {c} /\ Copies(k) = {} /\ Holding(k) = {} /\ AcceptedFor(k)' # {}
      BY <1>u, <2>1, <2>2 DEF Ways
    <3>3. UnderWay(k)' = {}
      BY <1>f, <2>1, <3>2 DEF UnderWay
    <3> QED
      BY <1>f, <1>h, <1>x, <2>1, <3>1, <3>2, <3>3 DEF SmoothNow, NoTask
  <2> QED
    BY <1>q, <1>x, <1>y, <1>w, <2>1, <2>2
<1>4. ASSUME PostUpsert(c)
      PROVE  SmoothNow(k)'
  <2>1. cpc[c] = "upsert" /\ queue' = queue /\ Write(req[c].key, Enqueued(seen[c]))
    BY <1>4 DEF PostUpsert
  <2>2. CASE req[c].key = k
    <3>1. doc'[k].status = "queued"
      BY <1>d, <1>w, <2>1, <2>2, WriteStatus DEF TypeOK, RouterTypeOK
    <3> QED
      BY <1>h, <1>u, <2>1, <2>2, <3>1, OpenSmooth DEF Ways
  <2> QED
    BY <1>q, <1>x, <1>y, <1>w, <2>1, <2>2
<1>5. ASSUME PostEnqueue(c) \/ EnqueueDirectly(c)
      PROVE  SmoothNow(k)'
  <2> DEFINE m == [key |-> req[c].key, text |-> req[c].text, retries |-> 0]
  <2>1. doc' = doc /\ Publish(m) /\ m \in Message /\ m.key = req[c].key
    BY <1>5, <1>m DEF PostEnqueue, EnqueueDirectly
  <2>2. CASE req[c].key # k
    <3> HIDE DEF m
    <3>1. Copies(k)' = Copies(k)
      BY <2>1, <2>2, <1>c, PublishCopies
    <3> QED
      BY <1>q, <1>y, <2>1, <2>2, <3>1
  <2>3. CASE req[c].key = k /\ PostEnqueue(c)
    BY <1>h, <1>u, <2>1, <2>3, OpenSmooth DEF Ways, PostEnqueue
  <2>4. CASE req[c].key = k /\ EnqueueDirectly(c)
    <3>1. queue' # queue
      <4>1. queue \in [Message -> Nat]
        BY DEF TypeOK, StoresTypeOK
      <4>2. queue'[m] = queue[m] + 1
        BY <2>1, <4>1 DEF Publish
      <4> HIDE DEF m
      <4> QED
        BY <2>1, <4>1, <4>2
    <3>2. Accepted(c)
      BY <2>4, <3>1, <1>t DEF Accepted, EnqueueDirectly, Respond, Goto
    <3> QED
      BY <1>e, <2>1, <2>4, <3>2
  <2> QED
    BY <1>5, <2>2, <2>3, <2>4
<1>6. ASSUME GetStatus(c)
      PROVE  SmoothNow(k)'
  <2>1. doc' = doc /\ queue' = queue /\ cpc'[c] = "done"
    BY <1>6, <1>t DEF GetStatus, RespondFrom, Respond, Goto
  <2>2. UnderWay(k)' \subseteq UnderWay(k)
    BY <1>f, <2>1 DEF UnderWay
  <2> QED
    BY <1>q, <1>x, <2>1, <2>2
<1>7. ~CallFails(c)
  BY <1>a DEF CallFails, Fault
<1> QED
  BY <1>1, <1>2, <1>3, <1>4, <1>5, <1>6, <1>7 DEF CallStep, CallProceeds

-----------------------------------------------------------------------------
\* Documents are never removed.
LEMMA DocsStay ==
    ASSUME TypeOK, NEW k \in Keys, doc[k].status # "absent", [Next]_vars
    PROVE  doc'[k].status # "absent"
<1>d. \A i \in Keys : doc[i] \in Doc
  BY DEF TypeOK, StoresTypeOK
<1>n. doc'[k] = doc[k] => doc'[k].status # "absent"
  OBVIOUS
<1>w. ASSUME NEW i, NEW d, Write(i, d), d.status # "absent"
      PROVE  doc'[k].status # "absent"
  BY <1>w DEF Write, TypeOK, StoresTypeOK
<1>1. ASSUME NEW c \in Calls, CallStep(c)
      PROVE  doc'[k].status # "absent"
  <2>1. seen[c] \in Nat /\ hit[c] \in Points \cup {NoPoint} /\ req[c].key \in Keys
    BY DEF TypeOK, RouterTypeOK, Request
  <2>2. CASE PostPersist(c)
    BY <2>1, <2>2, <1>d, <1>w, WriteStatus DEF PostPersist
  <2>3. CASE PostUpsert(c)
    BY <2>1, <2>3, <1>d, <1>w, WriteStatus DEF PostUpsert
  <2>4. CASE doc' = doc
    BY <2>4, <1>n
  <2> QED
    BY <1>1, <2>2, <2>3, <2>4
    DEF CallStep, CallProceeds, PostFind, PostLookup, PostEnqueue, GetStatus,
        EnqueueDirectly, CallFails, storeVars
<1>2. ASSUME NEW w \in Workers, TaskStep(w)
      PROVE  doc'[k].status # "absent"
  <2> DEFINE i == job[w].key
  <2>1. wpc[w] # "idle" => i \in Keys /\ job[w].retries \in Nat
    BY StoresAssumption DEF TypeOK, WorkerTypeOK, Message
  <2>2. point[w] \in Points \cup {NoPoint} /\ rc[w] \in Nat
    BY DEF TypeOK, WorkerTypeOK
  <2>3. CASE Insert(w)
    BY <2>3, <2>1, <1>d, <1>n, <1>w, WriteStatus DEF Insert
  <2>4. CASE Claim(w)
    BY <2>4, <2>1, <1>d, <1>n, <1>w, WriteStatus DEF Claim
  <2>5. CASE CompleteHit(w)
    BY <2>5, <2>1, <2>2, <1>d, <1>w, WriteStatus DEF CompleteHit
  <2>6. CASE Transient(w)
    <3>1. PICK s \in {"queued", "processing"} :
             Write(i, TransientError(doc[i], s, job[w].retries))
      BY <2>6 DEF Transient
    <3>2. TransientError(doc[i], s, job[w].retries).status = s
      BY <2>1, <2>6, <1>d, WriteStatus DEF Transient
    <3> QED
      BY <3>1, <3>2, <1>w
  <2>7. CASE Complete(w)
    BY <2>7, <2>1, <2>2, <1>d, <1>w, WriteStatus DEF Complete
  <2>8. CASE FailWrite(w)
    BY <2>8, <2>1, <2>2, <1>d, <1>w, WriteStatus DEF FailWrite
  <2>9. CASE ReplyLost(w)
    <3>1. CASE wpc[w] = "hit" /\ Write(i, CompletedFromCache(doc[i], point[w]))
      BY <3>1, <2>1, <2>2, <1>d, <1>w, WriteStatus
    <3>2. CASE wpc[w] = "complete" /\ Write(i, CompletedFromLLM(doc[i], point[w], job[w].retries))
      BY <3>2, <2>1, <2>2, <1>d, <1>w, WriteStatus
    <3>3. CASE wpc[w] = "call" /\ \E s \in {"queued", "processing"} :
                  Write(i, TransientError(doc[i], s, job[w].retries))
      <4>1. PICK s \in {"queued", "processing"} :
               Write(i, TransientError(doc[i], s, job[w].retries))
        BY <3>3
      <4>2. TransientError(doc[i], s, job[w].retries).status = s
        BY <2>1, <3>3, <1>d, WriteStatus
      <4> QED
        BY <4>1, <4>2, <1>w
    <3> QED
      BY <2>9, <3>1, <3>2, <3>3 DEF ReplyLost
  <2>10. CASE doc' = doc
    BY <2>10, <1>n
  <2> QED
    BY <1>2, <2>3, <2>4, <2>5, <2>6, <2>7, <2>8, <2>9, <2>10
    DEF TaskStep, TaskProceeds, TaskFails, Deliver, Find, Check, Recheck, Lookup,
        Generate, Store, Retry, FailRead, Ack, RetryLost, Raise, FailHandlerRaises,
        Crash, Redeliver, storeVars
<1>3. CASE doc' = doc
  BY <1>3, <1>n
<1> QED
  BY <1>1, <1>2, <1>3 DEF Next, AnswersAge, vars, storeVars

\* A task that is about to claim found or inserted the document.
LEMMA StepClaims ==
    ASSUME TypeOK, ClaimsExist, [Next]_vars
    PROVE  ClaimsExist'
<1> USE DEF ClaimsExist
<1>d. \A k \in Keys : doc[k].status # "absent" => doc'[k].status # "absent"
  BY DocsStay
<1>k. \A w \in Workers : wpc[w] \in {"check", "claim"} => job[w].key \in Keys
  BY NoJobAssumption DEF TypeOK, WorkerTypeOK, Message
<1>1. ASSUME NEW w \in Workers, TaskStep(w), NEW v \in Workers, wpc'[v] \in {"check", "claim"}
      PROVE  doc'[job'[v].key].status # "absent"
  <2>1. CASE v # w
    <3>1. wpc'[v] = wpc[v] /\ job'[v] = job[v]
      BY <1>1, <2>1
      DEF TaskStep, TaskProceeds, TaskFails, Deliver, Find, Insert, Check, Claim, Recheck,
          Lookup, CompleteHit, Generate, Transient, Store, Complete, Retry, FailRead, FailWrite,
          Ack, RetryLost, Raise, ReplyLost, FailHandlerRaises, Crash, Redeliver, GoOn, Carry,
          Release, workerVars, TypeOK, WorkerTypeOK
    <3> QED
      BY <1>1, <1>d, <1>k, <3>1
  <2>2. CASE v = w
    <3>1. CASE Find(w) \/ Insert(w) \/ Check(w)
      <4>1. wpc[w] \in {"find", "insert", "check"} /\ job'[w] = job[w] /\ job[w].key \in Keys
        BY <3>1, NoJobAssumption
        DEF Find, Insert, Check, GoOn, Carry, TypeOK, WorkerTypeOK, Message
      <4>2. CASE doc[job[w].key].status # "absent"
        BY <2>2, <4>1, <4>2, <1>d
      <4>3. CASE doc[job[w].key].status = "absent"
        <5>1. ~Check(w)
          BY <4>3 DEF Check
        <5>2. ~Find(w)
          BY <1>1, <2>2, <4>3 DEF Find, GoOn, Carry, TypeOK, WorkerTypeOK
        <5>3. CASE Insert(w)
          <6>1. doc'[job[w].key] = Received
            BY <5>3, <4>1, <4>3 DEF Insert, Write, TypeOK, StoresTypeOK
          <6> QED
            BY <6>1, <2>2, <4>1 DEF Received, AbsentDoc
        <5> QED
          BY <3>1, <5>1, <5>2, <5>3
      <4> QED
        BY <4>2, <4>3
    <3>2. CASE Redeliver(w)
      BY <3>2, <1>1, <1>d, <1>k, <2>2 DEF Redeliver, workerVars
    <3>3. CASE ~Find(w) /\ ~Insert(w) /\ ~Check(w) /\ ~Redeliver(w)
      BY <3>3, <1>1, <2>2
      DEF TaskStep, TaskProceeds, TaskFails, Deliver, Claim, Recheck,
          Lookup, CompleteHit, Generate, Transient, Store, Complete, Retry, FailRead, FailWrite,
          Ack, RetryLost, Raise, ReplyLost, FailHandlerRaises, Crash, GoOn, Carry,
          Release, TypeOK, WorkerTypeOK
    <3> QED
      BY <3>1, <3>2, <3>3
  <2> QED
    BY <2>1, <2>2
<1>2. ASSUME UNCHANGED workerVars
      PROVE  ClaimsExist'
  BY <1>2, <1>d, <1>k DEF workerVars
<1> QED
  BY <1>1, <1>2 DEF Next, vars

-----------------------------------------------------------------------------
(* A delivery ends                                                         *)

\* An upper bound of the steps the task of worker w has yet to take.  The
\* second find_one of a task that lost the race to insert the document, which
\* is the one way back in the task, finds it.
StepsLeft(w) ==
    CASE wpc[w] = "find"      -> IF doc[job[w].key].status = "absent" THEN 13 ELSE 11
      [] wpc[w] = "insert"    -> 12
      [] wpc[w] = "check"     -> 10
      [] wpc[w] = "claim"     -> 9
      [] wpc[w] = "lookup"    -> 8
      [] wpc[w] = "call"      -> 7
      [] wpc[w] = "store"     -> 6
      [] wpc[w] = "hit"       -> 5
      [] wpc[w] = "complete"  -> 5
      [] wpc[w] = "retry"     -> 4
      [] wpc[w] = "recheck"   -> 4
      [] wpc[w] = "failRead"  -> 3
      [] wpc[w] = "failWrite" -> 2
      [] wpc[w] = "ack"       -> 1
      [] wpc[w] = "idle"      -> 0

\* What worker w does brings its task nearer to its end.
LEMMA OwnStepLeft ==
    ASSUME TypeOK, NEW w \in Workers, wpc[w] # "idle", TaskStep(w), [Next]_vars, ~Redeliver(w)
    PROVE  StepsLeft(w)' < StepsLeft(w)
<1>1. job[w].key \in Keys /\ wpc[w] \in WorkerSteps
  BY NoJobAssumption DEF TypeOK, WorkerTypeOK, Message
<1>2. CASE Find(w)
  <2>1. wpc[w] = "find" /\ StepsLeft(w) = IF doc[job[w].key].status = "absent" THEN 13 ELSE 11
    BY <1>2 DEF Find, StepsLeft
  <2>2. wpc'[w] \in IF doc[job[w].key].status = "absent" THEN {"insert"} ELSE {"check", "claim"}
    BY <1>2 DEF Find, GoOn, Carry, TypeOK, WorkerTypeOK
  <2> QED
    BY <2>1, <2>2 DEF StepsLeft
<1>3. CASE Insert(w)
  <2>1. wpc[w] = "insert" /\ StepsLeft(w) = 12
    BY <1>3 DEF Insert, StepsLeft
  <2>2. CASE wpc'[w] = "find"
    <3>1. doc[job[w].key].status # "absent" /\ job'[w] = job[w]
      BY <1>3, <2>2 DEF Insert, GoOn, Carry, TypeOK, WorkerTypeOK
    <3>2. doc'[job'[w].key].status # "absent"
      BY <1>1, <3>1, DocsStay
    <3>3. StepsLeft(w)' = 11
      BY <2>2, <3>2 DEF StepsLeft
    <3> QED
      BY <2>1, <3>3
  <2>3. CASE wpc'[w] = "claim"
    BY <2>1, <2>3 DEF StepsLeft
  <2> QED
    BY <1>3, <2>2, <2>3 DEF Insert, GoOn, Carry, TypeOK, WorkerTypeOK
<1>4. CASE Raise(w)
  <2>1. wpc[w] \in TryBlock /\ wpc'[w] = "failRead"
    BY <1>4 DEF Raise, GoOn, Carry, TypeOK, WorkerTypeOK
  <2>2. StepsLeft(w) \in 4..13 /\ StepsLeft(w)' = 3
    BY <2>1 DEF StepsLeft, TryBlock
  <2> QED
    BY <2>2
<1>5. CASE Crash(w)
  <2>1. wpc'[w] = "idle"
    BY <1>5 DEF Crash, Release, TypeOK, WorkerTypeOK
  <2>2. StepsLeft(w) \in 1..13 /\ StepsLeft(w)' = 0
    BY <1>1, <2>1 DEF StepsLeft, WorkerSteps, TryBlock
  <2> QED
    BY <2>2
<1>6. CASE ~Find(w) /\ ~Insert(w) /\ ~Raise(w) /\ ~Crash(w)
  <2>1. \/ wpc[w] = "check" /\ wpc'[w] \in {"claim", "ack"}
        \/ wpc[w] = "claim" /\ wpc'[w] \in {"lookup", "recheck"}
        \/ wpc[w] = "recheck" /\ wpc'[w] \in {"failRead", "ack"}
        \/ wpc[w] = "lookup" /\ wpc'[w] \in {"call", "hit"}
        \/ wpc[w] = "call" /\ wpc'[w] \in {"store", "retry", "failRead"}
        \/ wpc[w] = "store" /\ wpc'[w] = "complete"
        \/ wpc[w] \in {"hit", "complete"} /\ wpc'[w] \in {"ack", "failRead"}
        \/ wpc[w] = "retry" /\ wpc'[w] = "ack"
        \/ wpc[w] = "failRead" /\ wpc'[w] \in {"failWrite", "ack"}
        \/ wpc[w] = "failWrite" /\ wpc'[w] = "ack"
        \/ wpc[w] = "ack" /\ wpc'[w] = "idle"
    BY <1>6
    DEF TaskStep, TaskProceeds, TaskFails, Deliver, Check, Claim, Recheck, Lookup, CompleteHit,
        Generate, Transient, Store, Complete, Retry, FailRead, FailWrite, Ack, RetryLost,
        ReplyLost, FailHandlerRaises, GoOn, Carry, Release, TypeOK, WorkerTypeOK
  <2> QED
    BY <2>1 DEF StepsLeft
<1> QED
  BY <1>2, <1>3, <1>4, <1>5, <1>6

\* What anybody else does takes it no further from its end.
LEMMA OthersStepLeft ==
    ASSUME TypeOK, NEW w \in Workers, wpc[w] # "idle", [Next]_vars,
           wpc'[w] = wpc[w], job'[w] = job[w]
    PROVE  StepsLeft(w)' <= StepsLeft(w)
<1>1. job[w].key \in Keys /\ wpc[w] \in WorkerSteps
  BY NoJobAssumption DEF TypeOK, WorkerTypeOK, Message
<1>2. doc[job[w].key].status # "absent" => doc'[job'[w].key].status # "absent"
  BY <1>1, DocsStay
<1>3. CASE wpc[w] = "find"
  <2>1. /\ StepsLeft(w) = IF doc[job[w].key].status = "absent" THEN 13 ELSE 11
        /\ StepsLeft(w)' = IF doc'[job'[w].key].status = "absent" THEN 13 ELSE 11
    BY <1>3 DEF StepsLeft
  <2> QED
    BY <1>2, <2>1
<1>4. CASE wpc[w] # "find"
  <2>1. StepsLeft(w)' = StepsLeft(w) /\ StepsLeft(w) \in 0..13
    BY <1>1, <1>4 DEF StepsLeft, WorkerSteps, TryBlock
  <2> QED
    BY <2>1
<1> QED
  BY <1>3, <1>4

\* A task that has been delivered takes at most thirteen steps, whatever the
\* other workers and the calls do to its document meanwhile and whatever
\* fails: a worker is never kept busy for ever by one delivery.
THEOREM DeliveriesEnd ==
    Spec => [][\A w \in Workers : wpc[w] # "idle" =>
                  \/ StepsLeft(w)' < StepsLeft(w)
                  \/ /\ wpc'[w] = wpc[w] /\ job'[w] = job[w]
                     /\ StepsLeft(w)' <= StepsLeft(w)]_vars
<1>1. TypeOK /\ [Next]_vars
      => [\A w \in Workers : wpc[w] # "idle" =>
             \/ StepsLeft(w)' < StepsLeft(w)
             \/ /\ wpc'[w] = wpc[w] /\ job'[w] = job[w]
                /\ StepsLeft(w)' <= StepsLeft(w)]_vars
  <2> SUFFICES ASSUME TypeOK, Next, NEW w \in Workers, wpc[w] # "idle",
                      ~(StepsLeft(w)' < StepsLeft(w))
               PROVE  wpc'[w] = wpc[w] /\ job'[w] = job[w]
    BY OthersStepLeft
  <2>1. CASE UNCHANGED workerVars
    BY <2>1 DEF workerVars
  <2>2. ASSUME NEW v \in Workers, TaskStep(v), v # w
        PROVE  wpc'[w] = wpc[w] /\ job'[w] = job[w]
    BY <2>2
    DEF TaskStep, TaskProceeds, TaskFails, Deliver, Find, Insert, Check, Claim, Recheck,
        Lookup, CompleteHit, Generate, Transient, Store, Complete, Retry, FailRead, FailWrite,
        Ack, RetryLost, Raise, ReplyLost, FailHandlerRaises, Crash, Redeliver, GoOn, Carry,
        Release, workerVars, TypeOK, WorkerTypeOK
  <2>3. CASE TaskStep(w)
    <3>1. Redeliver(w)
      BY <2>3, OwnStepLeft
    <3> QED
      BY <3>1 DEF Redeliver, workerVars
  <2> QED
    BY <2>1, <2>2, <2>3 DEF Next, AnswersAge
<1> QED
  BY <1>1, TypeCorrect, PTL DEF Spec

-----------------------------------------------------------------------------
(* The theorems                                                            *)

\* The history variable only watches: the service behaves as it does without.
LEMMA HistoryWatches == HSpec => Spec
<1>1. HInit => Init
  BY DEF HInit
<1>2. [HNext]_hvars => [Next]_vars
  BY DEF HNext, hvars
<1> QED
  BY <1>1, <1>2, PTL DEF HSpec, Spec

\* Nothing is accepted and nothing in circulation at the start.
LEMMA InitHistory == HInit => HistoryInductive
<1> SUFFICES ASSUME HInit PROVE HistoryInductive
  OBVIOUS
<1>1. TypeOK
  BY InitTypes DEF HInit
<1>2. ASSUME NEW k \in Keys
      PROVE  /\ Copies(k) = {} /\ Holding(k) = {} /\ UnderWay(k) = {} /\ AcceptedFor(k) = {}
             /\ doc[k].status = "absent"
  <2>1. Copies(k) = {}
    BY <1>1, NoCopies DEF HInit, Init, StoresInit
  <2>2. Holding(k) = {} /\ UnderWay(k) = {} /\ AcceptedFor(k) = {}
    BY DEF HInit, Init, WorkerInit, RouterInit, Holding, UnderWay, AcceptedFor
  <2>3. doc[k].status = "absent"
    BY DEF HInit, Init, StoresInit, AbsentDoc
  <2> QED
    BY <2>1, <2>2, <2>3
<1>3. IsFiniteSet({}) /\ Cardinality({}) = 0
  BY FS_EmptySet
<1>4. HistoryOK
  BY <1>2, <1>3 DEF HistoryOK, HInit
<1>5. TasksAccounted
  <2>1. faults = 0
    BY DEF HInit, Init, StoresInit
  <2> QED
    BY <1>2, <1>3, <2>1 DEF TasksAccounted, Tasks
<1>6. ClaimsExist
  BY DEF ClaimsExist, HInit, Init, WorkerInit
<1>7. Smooth
  BY <1>2 DEF Smooth, SmoothNow
<1> QED
  BY <1>4, <1>5, <1>6, <1>7 DEF HistoryInductive

\* Every step keeps the inductive invariant.
LEMMA HistoryStep ==
    ASSUME TypeOK, HistoryInductive, [HNext]_hvars
    PROVE  HistoryInductive'
<1> USE DEF HistoryInductive
<1>n. [Next]_vars
  BY DEF HNext, hvars
<1>c. ClaimsExist'
  BY <1>n, StepClaims
<1>1. ASSUME NEW c \in Calls, CallStep(c), UNCHANGED workerVars,
             accepted' = accepted \cup {b \in Calls : Accepted(b)}
      PROVE  HistoryInductive'
  <2>1. HistoryOK' /\ TasksAccounted'
    BY <1>1, CallKeepsAccounts
  <2>2. ASSUME NEW k \in Keys, Alone(k)' PROVE SmoothNow(k)'
    BY <1>1, <2>1, <2>2, CallKeepsSmooth
  <2> QED
    BY <1>c, <2>1, <2>2 DEF Smooth
<1>2. ASSUME NEW w \in Workers, TaskStep(w), UNCHANGED routerVars,
             accepted' = accepted \cup {b \in Calls : Accepted(b)}
      PROVE  HistoryInductive'
  <2>1. HistoryOK' /\ TasksAccounted'
    BY <1>2, TaskKeepsAccounts
  <2>2. ASSUME NEW k \in Keys, Alone(k)' PROVE SmoothNow(k)'
    BY <1>2, <2>1, <2>2, TaskKeepsSmooth
  <2> QED
    BY <1>c, <2>1, <2>2 DEF Smooth
<1>3. ASSUME UNCHANGED <<routerVars, workerVars, doc, queue, faults, accepted>>
      PROVE  HistoryInductive'
  <2>1. \A k : Copies(k)' = Copies(k) /\ Holding(k)' = Holding(k)
               /\ UnderWay(k)' = UnderWay(k) /\ AcceptedFor(k)' = AcceptedFor(k)
    BY <1>3 DEF Copies, Holding, UnderWay, AcceptedFor, routerVars, workerVars
  <2>2. HistoryOK' /\ TasksAccounted'
    BY <1>3, <2>1 DEF HistoryOK, TasksAccounted, Tasks, routerVars
  <2>3. Smooth'
    BY <1>3, <2>1 DEF Smooth, SmoothNow, Alone, NoTask, workerVars
  <2> QED
    BY <1>c, <2>2, <2>3
<1>4. CASE AnswersAge /\ UNCHANGED <<routerVars, workerVars>>
           /\ accepted' = accepted \cup {b \in Calls : Accepted(b)}
  <2>1. accepted' = accepted
    BY <1>4 DEF Accepted, routerVars
  <2> QED
    BY <1>3, <1>4, <2>1 DEF AnswersAge
<1>5. CASE UNCHANGED hvars
  BY <1>3, <1>5 DEF hvars, vars, storeVars
<1> QED
  BY <1>1, <1>2, <1>4, <1>5 DEF HNext, Next

\* The inductive invariant holds.
LEMMA HistoryHolds == HSpec => [](TypeOK /\ HistoryInductive)
<1>1. TypeOK /\ HistoryInductive /\ [HNext]_hvars => HistoryInductive'
  BY HistoryStep
<1> QED
  BY <1>1, InitHistory, HistoryWatches, TypeCorrect, PTL DEF HSpec

\* Through every interleaving, crash, redelivery and retry, the waiting
\* messages, running tasks and calls under way for a request are at most its
\* accepted calls and the faults so far: for every number of each.
THEOREM TasksConserved == HSpec => []TasksAccounted
<1>1. HistoryInductive => TasksAccounted
  BY DEF HistoryInductive
<1> QED
  BY <1>1, HistoryHolds, PTL

\* Hence the claim of tasks.py is exclusive, whatever its filter admits, for a
\* request nothing went wrong with: one worker at most has a task for it.
THEOREM ExclusiveWhenAlone ==
    HSpec => [](\A k \in Keys : Alone(k) => \A v, w \in Holding(k) : v = w)
<1>1. TypeOK /\ HistoryInductive =>
        \A k \in Keys : Alone(k) => \A v, w \in Holding(k) : v = w
  <2> SUFFICES ASSUME TypeOK, HistoryInductive, NEW k \in Keys, Alone(k),
                      NEW v \in Holding(k), NEW w \in Holding(k)
               PROVE  v = w
    OBVIOUS
  <2>1. Holding(k) = {v}
    BY SoleTask DEF HistoryInductive, TasksAccounted, Accounted
  <2> QED
    BY <2>1
<1> QED
  BY <1>1, HistoryHolds, PTL

\* A request that failed met a fault or was accepted more than once, for every
\* number of provider errors and retries.
THEOREM ProviderErrorsNeverFail == HSpec => []FailureHasCause
<1>1. HistoryInductive => FailureHasCause
  BY DEF HistoryInductive, Smooth, SmoothNow, FailureHasCause
<1> QED
  BY <1>1, HistoryHolds, PTL

\* A step writes a document only for a call under way or a task that has not
\* ended.
LEMMA WritersHold ==
    ASSUME TypeOK, NEW k \in Keys, [Next]_vars, Holding(k) = {}, UnderWay(k) = {}
    PROVE  doc'[k] = doc[k]
<1>w. ASSUME NEW i, NEW d, Write(i, d), i # k
      PROVE  doc'[k] = doc[k]
  BY <1>w DEF Write, TypeOK, StoresTypeOK
<1>1. ASSUME NEW c \in Calls, CallStep(c)
      PROVE  doc'[k] = doc[k]
  <2>1. cpc[c] \in {"persist", "upsert"} => req[c].key # k
    BY DEF UnderWay
  <2> QED
    BY <1>1, <1>w, <2>1
    DEF CallStep, CallProceeds, PostFind, PostLookup, PostPersist, PostUpsert, PostEnqueue,
        GetStatus, EnqueueDirectly, CallFails, storeVars
<1>2. ASSUME NEW w \in Workers, TaskStep(w)
      PROVE  doc'[k] = doc[k]
  <2>1. wpc[w] \notin {"idle", "ack"} => job[w].key # k
    BY DEF Holding, TypeOK, WorkerTypeOK
  <2> QED
    BY <1>2, <1>w, <2>1
    DEF TaskStep, TaskProceeds, TaskFails, Deliver, Find, Insert, Check, Claim, Recheck,
        Lookup, CompleteHit, Generate, Transient, Store, Complete, Retry, FailRead, FailWrite,
        Ack, RetryLost, Raise, ReplyLost, FailHandlerRaises, Crash, Redeliver, storeVars
<1> QED
  BY <1>1, <1>2 DEF Next, AnswersAge, vars, storeVars

\* The document of a settled request nothing went wrong with never changes
\* again while that is so: where the service is idempotent.
THEOREM SettledForGood == HSpec => SettledIsFinal
<1>1. TypeOK /\ HistoryInductive /\ [HNext]_hvars
      => [\A k \in Keys : Alone(k) /\ Settled(k) => doc'[k] = doc[k]]_hvars
  <2> SUFFICES ASSUME TypeOK, HistoryInductive, HNext, NEW k \in Keys, Alone(k), Settled(k)
               PROVE  doc'[k] = doc[k]
    OBVIOUS
  <2>1. NoTask(k)
    BY DEF HistoryInductive, Smooth, SmoothNow, Settled
  <2> QED
    BY <2>1, WritersHold DEF NoTask, HNext
<1> QED
  BY <1>1, HistoryHolds, PTL DEF HSpec, SettledIsFinal
=============================================================================
