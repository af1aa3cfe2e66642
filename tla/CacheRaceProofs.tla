--------------------------- MODULE CacheRaceProofs ---------------------------
(***************************************************************************)
(* The service and the semantic cache, for every number of workers: the    *)
(* look-then-generate race is bounded, and the calls and workers are       *)
(* clients of the cache that SemanticCache implements.                     *)
(***************************************************************************)
EXTENDS PromptServiceProofs, PromptCacheUse, FiniteSetTheorems

USE DEF cacheVars, CacheTypeOK

-----------------------------------------------------------------------------
(* DuplicatesBounded is preserved by every step                            *)

\* Sets of points and of workers are finite, and a subset is no larger.
LEMMA FiniteParts ==
    /\ \A A \in SUBSET Points : IsFiniteSet(A) /\ Cardinality(A) \in Nat
    /\ \A G \in SUBSET Workers : IsFiniteSet(G) /\ Cardinality(G) \in Nat
    /\ \A G, H \in SUBSET Workers : G \subseteq H => Cardinality(G) <= Cardinality(H)
<1>1. \A A \in SUBSET Points : IsFiniteSet(A) /\ Cardinality(A) \in Nat
  BY FiniteAssumption, FS_Subset, FS_CardinalityType
<1>2. \A G \in SUBSET Workers : IsFiniteSet(G) /\ Cardinality(G) \in Nat
  BY FiniteAssumption, FS_Subset, FS_CardinalityType
<1>3. \A G, H \in SUBSET Workers : G \subseteq H => Cardinality(G) <= Cardinality(H)
  BY <1>2, FS_Subset
<1> QED
  BY <1>1, <1>2, <1>3

\* The answers to a text and the workers generating one are such sets.
LEMMA RaceSets ==
    \A t : AnswersTo(t) \in SUBSET Points /\ Generating(t) \in SUBSET Workers
  BY DEF AnswersTo, Generating

\* An answer to a text is a hit for it.
LEMMA AnswersHit ==
    ASSUME NEW t \in Texts
    PROVE  AnswersTo(t) \subseteq Hits(t)
  BY PromptsAssumption DEF AnswersTo, Hits, Stored

\* The bound for one text.
RaceBound(t) ==
    AnswersTo(t) # {} /\ Hits(t) \cap stale = {} =>
        Cardinality(AnswersTo(t)) + Cardinality(Generating(t)) <= Cardinality(Workers)

\* A step that stores no answer to t and starts generating none keeps it.
LEMMA NoNewAnswer ==
    ASSUME NEW t \in Texts, RaceBound(t),
           AnswersTo(t)' = AnswersTo(t), Hits(t) \subseteq Hits(t)', stale \subseteq stale',
           Generating(t)' \subseteq Generating(t)
    PROVE  RaceBound(t)'
<1> SUFFICES ASSUME AnswersTo(t)' # {}, Hits(t)' \cap stale' = {}
             PROVE  Cardinality(AnswersTo(t)') + Cardinality(Generating(t)')
                        <= Cardinality(Workers)
  BY DEF RaceBound
<1> DEFINE a == Cardinality(AnswersTo(t))
           g == Cardinality(Generating(t))
           h == Cardinality(Generating(t)')
           n == Cardinality(Workers)
<1>1. a \in Nat /\ g \in Nat /\ h \in Nat /\ n \in Nat /\ h <= g
  BY FiniteParts, RaceSets
<1>2. a + g <= n
  BY DEF RaceBound
<1> HIDE DEF a, g, h, n
<1>3. a + h <= n
  BY <1>1, <1>2
<1> QED
  BY <1>3 DEF a, h, n

\* Steps that change neither the points nor who is generating keep the bound.
LEMMA QuietBound ==
    ASSUME DuplicatesBounded, points' = points, stale \subseteq stale',
           \A t \in Texts : Generating(t)' \subseteq Generating(t)
    PROVE  DuplicatesBounded'
<1>1. ASSUME NEW t \in Texts
      PROVE  RaceBound(t)'
  <2>1. AnswersTo(t)' = AnswersTo(t) /\ Hits(t)' = Hits(t)
    BY DEF AnswersTo, Hits, Stored
  <2> QED
    BY <2>1, NoNewAnswer DEF DuplicatesBounded, RaceBound
<1> QED
  BY <1>1 DEF DuplicatesBounded, RaceBound

\* A worker that looked and found nothing starts generating only when there is
\* no answer yet or a stale one stands in front.
LEMMA LookupBound ==
    ASSUME TypeOK, DuplicatesBounded, NEW w \in Workers, Lookup(w)
    PROVE  DuplicatesBounded'
<1>1. PICK r \in Points \cup {NoPoint} :
        LookupReturns(job[w].text, r) /\ Carry(w, IF r = NoPoint THEN "call" ELSE "hit", r, 0)
  BY DEF Lookup
<1>2. points' = points /\ stale' = stale /\ job' = job
  BY <1>1 DEF Lookup, storeVars, Carry
<1>3. \A u \in Workers \ {w} : wpc'[u] = wpc[u]
  BY <1>1 DEF Carry, TypeOK, WorkerTypeOK
<1>4. wpc'[w] = IF r = NoPoint THEN "call" ELSE "hit"
  BY <1>1 DEF Carry, TypeOK, WorkerTypeOK
<1>5. ASSUME NEW t \in Texts
      PROVE  RaceBound(t)'
  <2>1. AnswersTo(t)' = AnswersTo(t) /\ Hits(t)' = Hits(t)
    BY <1>2 DEF AnswersTo, Hits, Stored
  <2>2. CASE t = job[w].text /\ r = NoPoint
    <3>1. Hits(t) = {} \/ Hits(t) \cap stale # {}
      BY <1>1, <2>2, PromptsAssumption DEF LookupReturns, Hits, Stored
    <3> QED
      BY <1>2, <2>1, <3>1, AnswersHit DEF RaceBound
  <2>3. CASE ~(t = job[w].text /\ r = NoPoint)
    <3>1. Generating(t)' \subseteq Generating(t)
      BY <1>2, <1>3, <1>4, <2>3 DEF Generating
    <3> QED
      BY <1>2, <2>1, <3>1, NoNewAnswer DEF DuplicatesBounded, RaceBound
  <2> QED
    BY <2>2, <2>3
<1> QED
  BY <1>5 DEF DuplicatesBounded, RaceBound

\* A worker that stores its answer stops generating one.
LEMMA StoreBound ==
    ASSUME TypeOK, DuplicatesBounded, NEW w \in Workers, Store(w)
    PROVE  DuplicatesBounded'
<1>1. PICK p \in Points : Add(p, job[w].text) /\ Carry(w, "complete", p, 0)
  BY DEF Store
<1>2. /\ job' = job /\ stale' = stale /\ p \notin Stored
      /\ \A u \in Workers \ {w} : wpc'[u] = wpc[u]
      /\ wpc[w] = "store" /\ wpc'[w] = "complete"
  BY <1>1 DEF Store, Add, Carry, TypeOK, WorkerTypeOK
<1>3. job[w].text \in Texts
  BY <1>2 DEF TypeOK, WorkerTypeOK, Message
<1>4. \A q \in Points : points'[q] = IF q = p THEN job[w].text ELSE points[q]
  BY <1>1 DEF Add, TypeOK, StoresTypeOK
<1>5. points[p] = NoText
  BY <1>1 DEF Add, Stored
<1>6. ASSUME NEW t \in Texts
      PROVE  RaceBound(t)'
  <2>1. Hits(t) \subseteq Hits(t)'
    BY <1>3, <1>4, <1>5, PromptsAssumption DEF Hits, Stored
  <2>2. CASE t # job[w].text
    <3>1. AnswersTo(t)' = AnswersTo(t)
      BY <1>4, <1>5, <2>2, PromptsAssumption DEF AnswersTo
    <3>2. Generating(t)' \subseteq Generating(t)
      BY <1>2 DEF Generating
    <3> QED
      BY <1>2, <2>1, <3>1, <3>2, NoNewAnswer DEF DuplicatesBounded, RaceBound
  <2>3. CASE t = job[w].text
    <3> DEFINE A == AnswersTo(t)
               G == Generating(t)
    <3>1. AnswersTo(t)' = A \cup {p} /\ p \notin A
      BY <1>4, <1>5, <2>3, PromptsAssumption DEF AnswersTo
    <3>2. Generating(t)' = G \ {w} /\ w \in G
      BY <1>2, <2>3 DEF Generating
    <3> SUFFICES ASSUME Hits(t)' \cap stale' = {}
                 PROVE  Cardinality(A \cup {p}) + Cardinality(G \ {w}) <= Cardinality(Workers)
      BY <3>1, <3>2 DEF RaceBound
    <3>3. IsFiniteSet(A) /\ IsFiniteSet(G) /\ G \subseteq Workers
          /\ Cardinality(A) \in Nat /\ Cardinality(G) \in Nat /\ Cardinality(Workers) \in Nat
          /\ Cardinality(G) <= Cardinality(Workers)
      BY RaceSets, FiniteParts
    <3>4. Cardinality(A \cup {p}) = Cardinality(A) + 1
      BY <3>1, <3>3, FS_AddElement
    <3>5. Cardinality(G \ {w}) = Cardinality(G) - 1
      BY <3>2, <3>3, FS_RemoveElement
    <3>6. CASE A = {}
      <4>1. Cardinality(A) = 0
        BY <3>6, FS_EmptySet
      <4> HIDE DEF A, G
      <4> QED
        BY <3>3, <3>4, <3>5, <4>1
    <3>7. CASE A # {}
      <4>1. Cardinality(A) + Cardinality(G) <= Cardinality(Workers)
        BY <1>2, <2>1, <3>7 DEF DuplicatesBounded
      <4> HIDE DEF A, G
      <4> QED
        BY <3>3, <3>4, <3>5, <4>1
    <3> QED
      BY <3>6, <3>7
  <2> QED
    BY <2>2, <2>3
<1> QED
  BY <1>6 DEF DuplicatesBounded, RaceBound

\* Every step of the service keeps the bound.
LEMMA StepKeepsBound ==
    ASSUME TypeOK, DuplicatesBounded, [Next]_vars
    PROVE  DuplicatesBounded'
<1>1. ASSUME NEW c \in Calls, CallStep(c), UNCHANGED workerVars
      PROVE  DuplicatesBounded'
  <2>1. points' = points /\ stale' = stale
    BY <1>1 DEF CallStep, CallProceeds, PostFind, PostLookup, PostPersist, PostUpsert,
       PostEnqueue, GetStatus, EnqueueDirectly, CallFails, storeVars
  <2> QED
    BY <1>1, <2>1, QuietBound DEF Generating, workerVars
<1>2. ASSUME NEW w \in Workers, TaskStep(w)
      PROVE  DuplicatesBounded'
  <2>1. CASE Lookup(w)
    BY <2>1, LookupBound
  <2>2. CASE Store(w)
    BY <2>2, StoreBound
  <2>3. CASE ~Lookup(w) /\ ~Store(w)
    <3>1. points' = points /\ stale' = stale
      BY <1>2, <2>3
      DEF TaskStep, TaskProceeds, TaskFails, Deliver, Find, Insert, Check, Claim, Recheck,
          CompleteHit, Generate, Transient, Complete, Retry, FailRead, FailWrite, Ack,
          RetryLost, Raise, ReplyLost, FailHandlerRaises, Crash, Redeliver, storeVars
    <3>2. \A u \in Workers \ {w} : wpc'[u] = wpc[u] /\ job'[u] = job[u]
      BY <1>2, <2>3
      DEF TaskStep, TaskProceeds, TaskFails, Deliver, Find, Insert, Check, Claim, Recheck,
          CompleteHit, Generate, Transient, Complete, Retry, FailRead, FailWrite, Ack,
          RetryLost, Raise, ReplyLost, FailHandlerRaises, Crash, Redeliver, GoOn, Carry,
          Release, workerVars, TypeOK, WorkerTypeOK
    <3>3. wpc'[w] \in {"call", "store"} => wpc[w] \in {"call", "store"} /\ job'[w] = job[w]
      BY <1>2, <2>3
      DEF TaskStep, TaskProceeds, TaskFails, Deliver, Find, Insert, Check, Claim, Recheck,
          CompleteHit, Generate, Transient, Complete, Retry, FailRead, FailWrite, Ack,
          RetryLost, Raise, ReplyLost, FailHandlerRaises, Crash, Redeliver, GoOn, Carry,
          Release, workerVars, TypeOK, WorkerTypeOK
    <3> QED
      BY <3>1, <3>2, <3>3, QuietBound DEF Generating
  <2> QED
    BY <2>1, <2>2, <2>3
<1>3. ASSUME AnswersAge, UNCHANGED workerVars
      PROVE  DuplicatesBounded'
  BY <1>3, QuietBound DEF AnswersAge, GrowStale, Generating, workerVars
<1>4. CASE UNCHANGED vars
  BY <1>4, QuietBound DEF vars, storeVars, workerVars, Generating
<1> QED
  BY <1>1, <1>2, <1>3, <1>4 DEF Next

\* However many workers, calls, crashes, retries and redeliveries there are:
\* once a text has an answer and no stale one hides it, its answers and the
\* workers still generating one are at most as many as there are workers.
THEOREM RaceBounded == Spec => []DuplicatesBounded
<1>1. Init => DuplicatesBounded
  BY PromptsAssumption DEF Init, StoresInit, CacheInit, DuplicatesBounded, AnswersTo
<1>2. TypeOK /\ DuplicatesBounded /\ [Next]_vars => DuplicatesBounded'
  BY StepKeepsBound
<1> QED
  BY <1>1, <1>2, TypeCorrect, PTL DEF Spec

-----------------------------------------------------------------------------
(* UsesAtomicCache: every step is a step of the atomic cache or a stutter  *)

\* What a call asks and was told, before and after a step.
LEMMA UseByCall ==
    ASSUME NEW c \in Calls
    PROVE  /\ Asked[c] = IF CallLooks(c) THEN req[c].text ELSE NoText
           /\ Outcome[c] = CASE cpc[c] = "persist" -> hit[c]
                             [] cpc[c] = "upsert"  -> NoPoint
                             [] OTHER              -> Open
           /\ Asked'[c] = IF CallLooks(c)' THEN req'[c].text ELSE NoText
           /\ Outcome'[c] = CASE cpc'[c] = "persist" -> hit'[c]
                              [] cpc'[c] = "upsert"  -> NoPoint
                              [] OTHER               -> Open
  BY DEF Asked, Outcome

\* What a worker asks and was told, before and after a step.
LEMMA UseByTask ==
    ASSUME NEW w \in Workers
    PROVE  /\ Asked[w] = IF TaskLooks(w) THEN job[w].text ELSE NoText
           /\ Outcome[w] = CASE wpc[w] = "hit"               -> point[w]
                             [] wpc[w] \in {"call", "store"} -> NoPoint
                             [] OTHER                        -> Open
           /\ Asked'[w] = IF TaskLooks(w)' THEN job'[w].text ELSE NoText
           /\ Outcome'[w] = CASE wpc'[w] = "hit"               -> point'[w]
                              [] wpc'[w] \in {"call", "store"} -> NoPoint
                              [] OTHER                         -> Open
<1>1. w \notin Calls
  BY CacheUseAssumption
<1> QED
  BY <1>1 DEF Asked, Outcome

\* Nobody but x asks or is told anything in this step.
OnlyUseOf(x) ==
    \A y \in Calls \cup Workers : y # x => Asked'[y] = Asked[y] /\ Outcome'[y] = Outcome[y]

\* A step that leaves every other client alone changes one place of each.
LEMMA UseOfOne ==
    ASSUME NEW x \in Calls \cup Workers, NEW a, NEW g, OnlyUseOf(x),
           Asked'[x] = a, Outcome'[x] = g
    PROVE  /\ Asked' = [Asked EXCEPT ![x] = a]
           /\ Outcome' = [Outcome EXCEPT ![x] = g]
           /\ a = Asked[x] => Asked' = Asked
           /\ g = Outcome[x] => Outcome' = Outcome
<1> DEFINE X == Calls \cup Workers
<1>1. /\ Asked = [y \in X |-> Asked[y]] /\ Asked' = [y \in X |-> Asked'[y]]
      /\ Outcome = [y \in X |-> Outcome[y]] /\ Outcome' = [y \in X |-> Outcome'[y]]
  BY DEF Asked, Outcome
<1> HIDE DEF X
<1>2. x \in X /\ \A y \in X : y # x => Asked'[y] = Asked[y] /\ Outcome'[y] = Outcome[y]
  BY DEF X, OnlyUseOf
<1> QED
  BY <1>1, <1>2

\* The atomic cache reads its points as the service does.
LEMMA SameCache ==
    /\ \A t, r : LookupReturns(t, r) <=> Used!LookupReturns(t, r)
    /\ \A p, t : Add(p, t) <=> Used!Add(p, t)
    /\ GrowStale <=> Used!GrowStale
  BY DEF LookupReturns, Used!LookupReturns, Hits, Used!Hits, Stored, Used!Stored,
         Add, Used!Add, GrowStale, Used!GrowStale

\* A step of a call leaves the other calls and all workers alone.
LEMMA CallUseFrame ==
    ASSUME TypeOK, NEW c \in Calls, CallStep(c), UNCHANGED workerVars
    PROVE  /\ points' = points /\ stale' = stale
           /\ req' = req
           /\ OnlyUseOf(c)
<1>1. points' = points /\ stale' = stale /\ req' = req
  BY DEF CallStep, CallProceeds, PostFind, PostLookup, PostPersist, PostUpsert,
     PostEnqueue, GetStatus, EnqueueDirectly, CallFails, storeVars
<1>2. \A y \in Calls : y # c => cpc'[y] = cpc[y] /\ hit'[y] = hit[y]
  BY DEF CallStep, CallProceeds, PostFind, PostLookup, PostPersist, PostUpsert, PostEnqueue,
     GetStatus, EnqueueDirectly, CallFails, RespondFrom, Respond, LookupNext, Goto,
     TypeOK, RouterTypeOK
<1>3. ASSUME NEW y \in Calls, y # c
      PROVE  Asked'[y] = Asked[y] /\ Outcome'[y] = Outcome[y]
  BY <1>1, <1>2, <1>3, UseByCall DEF CallLooks
<1>4. ASSUME NEW y \in Workers
      PROVE  Asked'[y] = Asked[y] /\ Outcome'[y] = Outcome[y]
  BY UseByTask DEF TaskLooks, workerVars
<1> QED
  BY <1>1, <1>3, <1>4 DEF OnlyUseOf

\* A step of a worker leaves the calls and the other workers alone.
LEMMA TaskUseFrame ==
    ASSUME TypeOK, NEW w \in Workers, TaskStep(w), UNCHANGED routerVars
    PROVE  /\ ~Store(w) => points' = points /\ stale' = stale
           /\ OnlyUseOf(w)
<1>1. ~Store(w) => points' = points /\ stale' = stale
  BY DEF TaskStep, TaskProceeds, TaskFails, Deliver, Find, Insert, Check, Claim, Recheck,
     Lookup, CompleteHit, Generate, Transient, Complete, Retry, FailRead, FailWrite, Ack,
     RetryLost, Raise, ReplyLost, FailHandlerRaises, Crash, Redeliver, storeVars
<1>2. \A y \in Workers : y # w => wpc'[y] = wpc[y] /\ job'[y] = job[y] /\ point'[y] = point[y]
  BY DEF TaskStep, TaskProceeds, TaskFails, Deliver, Find, Insert, Check, Claim, Recheck,
     Lookup, Store, CompleteHit, Generate, Transient, Complete, Retry, FailRead, FailWrite,
     Ack, RetryLost, Raise, ReplyLost, FailHandlerRaises, Crash, Redeliver, GoOn, Carry,
     Release, workerVars, TypeOK, WorkerTypeOK
<1>3. ASSUME NEW y \in Workers, y # w
      PROVE  Asked'[y] = Asked[y] /\ Outcome'[y] = Outcome[y]
  BY <1>2, <1>3, UseByTask DEF TaskLooks
<1>4. ASSUME NEW y \in Calls
      PROVE  Asked'[y] = Asked[y] /\ Outcome'[y] = Outcome[y]
  BY UseByCall DEF CallLooks, routerVars
<1>5. \A y \in Calls : y # w
  BY CacheUseAssumption
<1> QED
  BY <1>1, <1>3, <1>4 DEF OnlyUseOf

\* What a client's step has to do to be a step of a client of the atomic cache.
LEMMA UseSteps ==
    ASSUME NEW x \in Calls \cup Workers, OnlyUseOf(x)
    PROVE  /\ /\ points' = points /\ stale' = stale
              /\ Asked'[x] = Asked[x] /\ Outcome'[x] = Outcome[x]
              => UNCHANGED Used!atomicVars
           /\ /\ points' = points /\ stale' = stale
              /\ Asked[x] = NoText /\ Asked'[x] \in Texts /\ Outcome'[x] = Outcome[x]
              => Used!AtomicNext
           /\ /\ points' = points /\ stale' = stale
              /\ Asked[x] # NoText /\ Asked'[x] = Asked[x]
              /\ Outcome[x] = Open /\ Outcome'[x] \in Points \cup {NoPoint}
              /\ LookupReturns(Asked[x], Outcome'[x])
              => Used!AtomicNext
           /\ /\ Asked[x] # NoText /\ Asked'[x] = NoText /\ Outcome'[x] = Open
              /\ \/ points' = points /\ stale' = stale
                 \/ Outcome[x] = NoPoint /\ \E p \in Points : Add(p, Asked[x])
              => Used!AtomicNext
<1>1. /\ Asked' = [Asked EXCEPT ![x] = Asked'[x]]
      /\ Outcome' = [Outcome EXCEPT ![x] = Outcome'[x]]
      /\ Asked'[x] = Asked[x] => Asked' = Asked
      /\ Outcome'[x] = Outcome[x] => Outcome' = Outcome
  <2> DEFINE a == Asked'[x]
             g == Outcome'[x]
  <2>1. a = Asked'[x] /\ g = Outcome'[x]
    OBVIOUS
  <2> HIDE DEF a, g
  <2> QED
    BY <2>1, UseOfOne
<1>2. ASSUME points' = points, stale' = stale, Asked'[x] = Asked[x], Outcome'[x] = Outcome[x]
      PROVE  UNCHANGED Used!atomicVars
  BY <1>1, <1>2 DEF Used!atomicVars
<1>3. ASSUME points' = points, stale' = stale, Outcome'[x] = Outcome[x],
             Asked[x] = NoText, Asked'[x] \in Texts
      PROVE  Used!AtomicNext
  <2>1. Used!Ask(x)
    BY <1>1, <1>3 DEF Used!Ask
  <2> QED
    BY <2>1 DEF Used!AtomicNext
<1>4. ASSUME points' = points, stale' = stale,
             Asked'[x] = Asked[x], Asked[x] # NoText, Outcome[x] = Open,
             Outcome'[x] \in Points \cup {NoPoint}, LookupReturns(Asked[x], Outcome'[x])
      PROVE  Used!AtomicNext
  <2>1. Used!LookupReturns(Asked[x], Outcome'[x])
    BY <1>4, SameCache
  <2>2. Used!Return(x)
    BY <1>1, <1>4, <2>1 DEF Used!Return
  <2> QED
    BY <2>2 DEF Used!AtomicNext
<1>5. ASSUME Asked[x] # NoText, Asked'[x] = NoText, Outcome'[x] = Open,
             \/ points' = points /\ stale' = stale
             \/ Outcome[x] = NoPoint /\ \E p \in Points : Add(p, Asked[x])
      PROVE  Used!AtomicNext
  <2>1. (\E p \in Points : Add(p, Asked[x])) => \E p \in Points : Used!Add(p, Asked[x])
    BY SameCache
  <2>2. Used!Leave(x)
    BY <1>1, <1>5, <2>1 DEF Used!Leave
  <2> QED
    BY <2>2 DEF Used!AtomicNext
<1> QED
  BY <1>2, <1>3, <1>4, <1>5

\* A step of a call asks, returns, leaves or is not visible to the cache.
LEMMA CallRefines ==
    ASSUME TypeOK, NEW c \in Calls, CallStep(c), UNCHANGED workerVars
    PROVE  [Used!AtomicNext]_(Used!atomicVars)
<1>1. /\ OnlyUseOf(c) /\ points' = points /\ stale' = stale /\ req' = req
      /\ req[c].text \in Texts /\ NoText \notin Texts
      /\ cpc[c] \in {"new", "lookup", "persist", "upsert", "enqueue", "done"}
  BY CallUseFrame, PromptsAssumption DEF TypeOK, RouterTypeOK, Request
<1>2. CASE PostFind(c)
  <2>1. cpc[c] = "new" /\ cpc'[c] \in {"lookup", "done"}
    BY <1>2 DEF PostFind, RespondFrom, Respond, LookupNext, Goto, TypeOK, RouterTypeOK
  <2>2. Asked[c] = NoText /\ Outcome[c] = Open /\ Outcome'[c] = Open
    BY <2>1, UseByCall DEF CallLooks
  <2>3. Asked'[c] = IF cpc'[c] = "lookup" THEN req[c].text ELSE NoText
    BY <1>1, <2>1, UseByCall DEF CallLooks
  <2> QED
    BY <1>1, <2>2, <2>3, UseSteps
<1>3. CASE PostLookup(c)
  <2>1. PICK r \in Points \cup {NoPoint} :
          /\ LookupReturns(req[c].text, r)
          /\ Goto(c, IF r = NoPoint THEN "upsert" ELSE "persist")
          /\ hit' = [hit EXCEPT ![c] = r]
    BY <1>3 DEF PostLookup
  <2>2. /\ cpc[c] = "lookup" /\ hit'[c] = r
        /\ cpc'[c] = IF r = NoPoint THEN "upsert" ELSE "persist"
    BY <1>3, <2>1 DEF PostLookup, Goto, TypeOK, RouterTypeOK
  <2>3. Asked[c] = req[c].text /\ Asked'[c] = req[c].text /\ Outcome[c] = Open /\ Outcome'[c] = r
    BY <1>1, <2>2, UseByCall DEF CallLooks
  <2> QED
    BY <1>1, <2>1, <2>3, UseSteps
<1>4. CASE CallLooks(c) /\ (PostPersist(c) \/ PostUpsert(c) \/ CallFails(c))
  <2>1. cpc'[c] \in {"enqueue", "done"}
    BY <1>4 DEF PostPersist, PostUpsert, CallFails, Respond, Goto, TypeOK, RouterTypeOK
  <2>2. Asked[c] = req[c].text /\ Asked'[c] = NoText /\ Outcome'[c] = Open
    BY <1>4, <2>1, UseByCall DEF CallLooks
  <2> QED
    BY <1>1, <2>2, UseSteps
<1>5. CASE \/ PostEnqueue(c) \/ GetStatus(c) \/ EnqueueDirectly(c)
           \/ ~CallLooks(c) /\ CallFails(c)
  <2>1. cpc'[c] = "done" /\ ~CallLooks(c)
    BY <1>5 DEF PostEnqueue, GetStatus, EnqueueDirectly, CallFails, RespondFrom, Respond, Goto,
       CallLooks, TypeOK, RouterTypeOK
  <2>2. Asked[c] = NoText /\ Asked'[c] = NoText /\ Outcome[c] = Open /\ Outcome'[c] = Open
    BY <2>1, UseByCall DEF CallLooks
  <2> QED
    BY <1>1, <2>2, UseSteps
<1>6. (PostPersist(c) \/ PostUpsert(c)) => CallLooks(c)
  BY DEF PostPersist, PostUpsert, CallLooks
<1> QED
  BY <1>2, <1>3, <1>4, <1>5, <1>6 DEF CallStep, CallProceeds

\* A step of a worker asks, returns, leaves - with an answer when it stores
\* one - or is not visible to the cache.
LEMMA TaskRefines ==
    ASSUME TypeOK, NEW w \in Workers, TaskStep(w), UNCHANGED routerVars
    PROVE  [Used!AtomicNext]_(Used!atomicVars)
<1>1. /\ OnlyUseOf(w) /\ NoText \notin Texts /\ wpc[w] \in WorkerSteps
      /\ ~Store(w) => points' = points /\ stale' = stale
      /\ wpc[w] # "idle" => job[w].text \in Texts
  BY TaskUseFrame, PromptsAssumption DEF TypeOK, WorkerTypeOK, Message
<1>2. CASE Claim(w)
  <2>1. wpc[w] = "claim" /\ wpc'[w] \in {"lookup", "recheck"} /\ job' = job /\ ~Store(w)
    BY <1>2 DEF Claim, GoOn, Carry, Store, TypeOK, WorkerTypeOK
  <2>2. Asked[w] = NoText /\ Outcome[w] = Open /\ Outcome'[w] = Open
    BY <2>1, UseByTask DEF TaskLooks
  <2>3. Asked'[w] = IF wpc'[w] = "lookup" THEN job[w].text ELSE NoText
    BY <2>1, UseByTask DEF TaskLooks
  <2> QED
    BY <1>1, <2>1, <2>2, <2>3, UseSteps
<1>3. CASE Lookup(w)
  <2>1. PICK r \in Points \cup {NoPoint} :
          /\ LookupReturns(job[w].text, r)
          /\ Carry(w, IF r = NoPoint THEN "call" ELSE "hit", r, 0)
    BY <1>3 DEF Lookup
  <2>2. /\ wpc[w] = "lookup" /\ job' = job /\ point'[w] = r /\ ~Store(w)
        /\ wpc'[w] = IF r = NoPoint THEN "call" ELSE "hit"
    BY <1>3, <2>1 DEF Lookup, Carry, Store, TypeOK, WorkerTypeOK
  <2>3. Asked[w] = job[w].text /\ Asked'[w] = job[w].text /\ Outcome[w] = Open /\ Outcome'[w] = r
    BY <2>2, UseByTask DEF TaskLooks
  <2> QED
    BY <1>1, <2>1, <2>2, <2>3, UseSteps
<1>4. CASE Generate(w)
  <2>1. wpc[w] = "call" /\ wpc'[w] = "store" /\ job' = job /\ ~Store(w)
    BY <1>4 DEF Generate, GoOn, Carry, Store, TypeOK, WorkerTypeOK
  <2>2. Asked'[w] = Asked[w] /\ Outcome'[w] = Outcome[w]
    BY <2>1, UseByTask DEF TaskLooks
  <2> QED
    BY <1>1, <2>1, <2>2, UseSteps
<1>5. CASE Store(w)
  <2>1. PICK p \in Points : Add(p, job[w].text) /\ Carry(w, "complete", p, 0)
    BY <1>5 DEF Store
  <2>2. wpc[w] = "store" /\ wpc'[w] = "complete"
    BY <1>5, <2>1 DEF Store, Carry, TypeOK, WorkerTypeOK
  <2>3. /\ Asked[w] = job[w].text /\ Asked'[w] = NoText
        /\ Outcome[w] = NoPoint /\ Outcome'[w] = Open
    BY <2>2, UseByTask DEF TaskLooks
  <2> QED
    BY <1>1, <2>1, <2>2, <2>3, UseSteps
<1>6. CASE Redeliver(w)
  <2>1. wpc' = wpc /\ job' = job /\ point' = point /\ points' = points /\ stale' = stale
    BY <1>6 DEF Redeliver, workerVars
  <2>2. Asked'[w] = Asked[w] /\ Outcome'[w] = Outcome[w]
    BY <2>1, UseByTask DEF TaskLooks
  <2> QED
    BY <1>1, <2>1, <2>2, UseSteps
<1>7. CASE ~(Claim(w) \/ Lookup(w) \/ Generate(w) \/ Store(w) \/ Redeliver(w))
  <2>1. /\ wpc'[w] \notin {"lookup", "hit", "call", "store"}
        /\ points' = points /\ stale' = stale
    BY <1>1, <1>7
    DEF TaskStep, TaskProceeds, TaskFails, Deliver, Find, Insert, Check, Recheck,
        CompleteHit, Transient, Complete, Retry, FailRead, FailWrite, Ack,
        RetryLost, Raise, ReplyLost, FailHandlerRaises, Crash, GoOn, Carry, Release,
        TypeOK, WorkerTypeOK
  <2>2. Asked'[w] = NoText /\ Outcome'[w] = Open
    BY <2>1, UseByTask DEF TaskLooks
  <2>3. CASE TaskLooks(w)
    <3>1. Asked[w] = job[w].text /\ job[w].text \in Texts
      BY <1>1, <2>3, UseByTask DEF TaskLooks
    <3> QED
      BY <1>1, <2>1, <2>2, <3>1, UseSteps
  <2>4. CASE ~TaskLooks(w)
    <3>1. Asked[w] = NoText /\ Outcome[w] = Open
      BY <2>4, UseByTask DEF TaskLooks
    <3> QED
      BY <1>1, <2>1, <2>2, <3>1, UseSteps
  <2> QED
    BY <2>3, <2>4
<1> QED
  BY <1>2, <1>3, <1>4, <1>5, <1>6, <1>7

\* Every step of the service is a step of the atomic cache or not visible in it.
LEMMA ServiceRefines ==
    ASSUME TypeOK, [Next]_vars
    PROVE  [Used!AtomicNext]_(Used!atomicVars)
<1>1. ASSUME AnswersAge, UNCHANGED <<routerVars, workerVars>>
      PROVE  Used!AtomicNext
  <2>1. Asked' = Asked /\ Outcome' = Outcome
    BY <1>1 DEF Asked, Outcome, CallLooks, TaskLooks, routerVars, workerVars
  <2>2. Used!GrowStale
    BY <1>1, SameCache DEF AnswersAge
  <2> QED
    BY <2>1, <2>2 DEF Used!AtomicNext
<1>2. CASE UNCHANGED vars
  BY <1>2 DEF vars, storeVars, routerVars, workerVars, Used!atomicVars,
     Asked, Outcome, CallLooks, TaskLooks
<1> QED
  BY <1>1, <1>2, CallRefines, TaskRefines DEF Next

\* The service as a whole is a client of the cache: for every number of calls,
\* workers, retries and faults, each answer stored in Qdrant was stored by
\* somebody who had looked for one to the same text and was told there is
\* none, and each outcome that is used is one the cache returned.  With
\* CacheIsAtomic this justifies modelling the cache as PromptService does.
THEOREM ServiceUsesCache == Spec => UsesAtomicCache
<1>1. Init => Used!AtomicInit
  <2> SUFFICES ASSUME Init
               PROVE  Used!AtomicInit
    OBVIOUS
  <2>1. /\ \A c \in Calls : cpc[c] = "new"
        /\ \A w \in Workers : wpc[w] = "idle"
    BY DEF Init, RouterInit, WorkerInit
  <2>2. ASSUME NEW x \in Calls \cup Workers
        PROVE  Asked[x] = NoText /\ Outcome[x] = Open
    BY <2>1, UseByCall, UseByTask DEF CallLooks, TaskLooks
  <2>3. Asked = [x \in Calls \cup Workers |-> NoText]
    BY <2>2 DEF Asked
  <2>4. Outcome = [x \in Calls \cup Workers |-> Open]
    BY <2>2 DEF Outcome
  <2> QED
    BY <2>3, <2>4 DEF Init, StoresInit, CacheInit, Used!AtomicInit, Used!CacheInit
<1>2. TypeOK /\ [Next]_vars => [Used!AtomicNext]_(Used!atomicVars)
  BY ServiceRefines
<1> QED
  BY <1>1, <1>2, TypeCorrect, PTL DEF Spec, UsesAtomicCache, Used!AtomicSpec
=============================================================================
