------------------------- MODULE PromptServiceProofs ------------------------
(***************************************************************************)
(* What PromptService guarantees for every set of keys, texts, points,     *)
(* calls and workers and every bound on retries and faults.                *)
(***************************************************************************)
EXTENDS PromptService, TLAPS

USE DEF cacheVars, CacheTypeOK

-----------------------------------------------------------------------------
(* Type correctness                                                        *)

\* Every write turns a document into a document.
LEMMA WritesAreDocs ==
    ASSUME NEW d \in Doc, NEW p \in Points \cup {NoPoint}, NEW n \in Nat
    PROVE  /\ AbsentDoc \in Doc
           /\ Received \in Doc
           /\ Claimed(d, n) \in Doc
           /\ CompletedFromCache(d, p) \in Doc
           /\ CompletedFromLLM(d, p, n) \in Doc
           /\ TransientError(d, "queued", n) \in Doc
           /\ TransientError(d, "processing", n) \in Doc
           /\ MarkedFailed(d, n) \in Doc
           /\ Enqueued(n) \in Doc
           /\ Persisted(d, p, n) \in Doc
<1>1. AbsentDoc \in Doc
  BY DEF AbsentDoc, Doc, Status
<1>2. Received \in Doc /\ Enqueued(n) \in Doc
  BY <1>1 DEF Received, Enqueued, AbsentDoc, Doc, Status
<1>3. ASSUME NEW s \in Status, NEW b \in BOOLEAN, NEW i \in Nat
      PROVE  [d EXCEPT !.status = s, !.retries = i, !.error = b] \in Doc
  BY DEF Doc
<1>4. Claimed(d, n) \in Doc
  BY <1>3 DEF Claimed, Status
<1>5. ASSUME NEW s \in Status, NEW b \in BOOLEAN, NEW i \in Nat
      PROVE  [d EXCEPT !.status = s, !.error = b, !.retries = i] \in Doc
  BY DEF Doc
<1>6. n + 1 \in Nat
  OBVIOUS
<1>7. /\ TransientError(d, "queued", n) \in Doc
      /\ TransientError(d, "processing", n) \in Doc
  BY <1>3, <1>6 DEF TransientError, Status
<1>8. MarkedFailed(d, n) \in Doc
  BY <1>5, <1>6 DEF MarkedFailed, Status
<1>9. CompletedFromCache(d, p) \in Doc /\ CompletedFromLLM(d, p, n) \in Doc
  BY DEF CompletedFromCache, CompletedFromLLM, Doc, Status
<1>10. Persisted(d, p, n) \in Doc
  BY DEF Persisted, Doc, Status
<1> QED
  BY <1>1, <1>2, <1>4, <1>7, <1>8, <1>9, <1>10

\* A key's document and its fields have their types.
LEMMA DocTypes ==
    ASSUME StoresTypeOK, NEW k \in Keys
    PROVE  /\ doc[k] \in Doc
           /\ doc[k].status \in Status \cup {"absent"}
           /\ doc[k].entry \in Points \cup {NoPoint}
           /\ doc[k].retries \in Nat
           /\ doc[k].error \in BOOLEAN
  BY DEF StoresTypeOK, Doc

\* Fetch returns a point or nothing and may use up a fault.
LEMMA FetchTypes ==
    ASSUME StoresTypeOK, NEW p \in Points \cup {NoPoint}, NEW r, Fetch(p, r)
    PROVE  r \in {p, NoPoint} /\ faults' \in 0..MaxFaults
  BY StoresAssumption DEF StoresTypeOK, Fetch, Fault

\* A fault stays within the bound on faults.
LEMMA FaultTypes ==
    ASSUME StoresTypeOK, Fault
    PROVE  faults' \in 0..MaxFaults
  BY StoresAssumption DEF StoresTypeOK, Fault

\* Publishing and delivering keep the queue a multiset of messages.
LEMMA PublishTypes ==
    ASSUME StoresTypeOK, NEW m \in Message, Publish(m)
    PROVE  queue' \in [Message -> Nat]
  BY DEF StoresTypeOK, Publish

\* The empty stores, new calls and idle workers have their types.
LEMMA InitTypes == Init => TypeOK
<1> SUFFICES ASSUME Init PROVE TypeOK
  OBVIOUS
<1>1. StoresTypeOK
  BY StoresAssumption, WritesAreDocs
  DEF Init, StoresInit, CacheInit, StoresTypeOK, AbsentDoc, Doc, Status
<1>2. RouterTypeOK
  BY DEF Init, RouterInit, RouterTypeOK, NoReply, Reply
<1>3. WorkerTypeOK
  BY DEF Init, WorkerInit, WorkerTypeOK, WorkerSteps
<1> QED
  BY <1>1, <1>2, <1>3 DEF TypeOK

-----------------------------------------------------------------------------
\* Every step of an API call keeps the types.
LEMMA CallTypes ==
    ASSUME TypeOK, NEW c \in Calls, CallStep(c), UNCHANGED workerVars
    PROVE  TypeOK'
<1> DEFINE k == req[c].key
           d == doc[k]
<1> USE DEF TypeOK
<1>w. WorkerTypeOK'
  BY DEF WorkerTypeOK, workerVars
<1>k. k \in Keys /\ req[c].text \in Texts /\ seen[c] \in Nat
      /\ hit[c] \in Points \cup {NoPoint}
  BY DEF RouterTypeOK, Request
<1>d. d \in Doc /\ d.status \in Status \cup {"absent"}
      /\ d.entry \in Points \cup {NoPoint} /\ d.retries \in Nat
  BY <1>k, DocTypes
<1>respond. ASSUME NEW s \in Status \cup {"none", "error", "not_found"},
                   NEW p \in Points \cup {NoPoint}, Respond(c, s, p), req' = req
            PROVE  RouterTypeOK'
  BY <1>respond DEF Respond, Goto, RouterTypeOK, Reply
<1>next. ASSUME LookupNext(c, d), req' = req
         PROVE  RouterTypeOK'
  BY <1>next, <1>d DEF LookupNext, Goto, RouterTypeOK
<1>status. d.status \in {"queued", "processing", "failed", "completed"}
           => d.status \in Status \cup {"none", "error", "not_found"}
  BY DEF Status
<1>from. ASSUME RespondFrom(c, d), d.status \notin {"absent", "received"},
                UNCHANGED <<req, doc, queue, cacheVars, dropped>>
         PROVE  RouterTypeOK' /\ StoresTypeOK'
  <2>1. PICK r \in {d.entry, NoPoint} : Fetch(d.entry, r) /\ Respond(c, d.status, r)
    BY <1>from DEF RespondFrom
  <2>2. faults' \in 0..MaxFaults
    BY <2>1, <1>d, FetchTypes
  <2>3. d.status \in Status \cup {"none", "error", "not_found"}
    BY <1>from, <1>d
  <2>4. r \in Points \cup {NoPoint}
    BY <2>1, <1>d
  <2> QED
    BY <2>1, <2>2, <2>3, <2>4, <1>from, <1>respond DEF StoresTypeOK
<1>1. CASE PostFind(c)
  <2>1. CASE RespondFrom(c, d) /\ d.status \in {"queued", "processing", "failed"}
    BY <2>1, <1>1, <1>from, <1>w DEF PostFind
  <2>2. CASE LookupNext(c, d) /\ UNCHANGED faults
    BY <2>2, <1>1, <1>next, <1>w DEF PostFind, StoresTypeOK
  <2>3. ASSUME NEW r \in {d.entry, NoPoint}, Fetch(d.entry, r),
               LookupNext(c, d) \/ Respond(c, "completed", r)
        PROVE  TypeOK'
    <3>1. faults' \in 0..MaxFaults
      BY <2>3, <1>d, FetchTypes
    <3>2. StoresTypeOK'
      BY <3>1, <1>1 DEF PostFind, StoresTypeOK
    <3>3. RouterTypeOK'
      BY <2>3, <1>1, <1>d, <1>next, <1>respond DEF PostFind, Status
    <3> QED
      BY <3>2, <3>3, <1>w
  <2> QED
    BY <2>1, <2>2, <2>3, <1>1 DEF PostFind
<1>2. CASE PostLookup(c)
  BY <1>2, <1>w DEF PostLookup, Goto, RouterTypeOK, StoresTypeOK, storeVars
<1>3. CASE PostPersist(c)
  <2>1. Persisted(doc[k], hit[c], seen[c]) \in Doc
    BY <1>k, <1>d, WritesAreDocs
  <2>2. StoresTypeOK'
    BY <2>1, <1>3, <1>k DEF PostPersist, Write, StoresTypeOK
  <2>3. RouterTypeOK'
    BY <1>3, <1>k, <1>respond DEF PostPersist, Status
  <2> QED
    BY <2>2, <2>3, <1>w
<1>4. CASE PostUpsert(c)
  <2>1. Enqueued(seen[c]) \in Doc
    BY <1>k, <1>d, WritesAreDocs
  <2>2. StoresTypeOK'
    BY <2>1, <1>4, <1>k DEF PostUpsert, Write, StoresTypeOK
  <2>3. RouterTypeOK'
    BY <1>4 DEF PostUpsert, Goto, RouterTypeOK
  <2> QED
    BY <2>2, <2>3, <1>w
<1>publish. [key |-> k, text |-> req[c].text, retries |-> 0] \in Message
  BY <1>k, StoresAssumption DEF Message
<1>5. CASE PostEnqueue(c)
  <2>1. StoresTypeOK'
    BY <1>5, <1>publish, PublishTypes DEF PostEnqueue, StoresTypeOK
  <2>2. RouterTypeOK'
    BY <1>5, <1>respond DEF PostEnqueue, Status
  <2> QED
    BY <2>1, <2>2, <1>w
<1>6. CASE GetStatus(c)
  <2>1. CASE d.status \in {"absent", "received"}
    <3>1. RouterTypeOK'
      BY <2>1, <1>6, <1>respond DEF GetStatus
    <3> QED
      BY <2>1, <3>1, <1>6, <1>w DEF GetStatus, StoresTypeOK
  <2>2. CASE d.status \notin {"absent", "received"}
    BY <2>2, <1>6, <1>from, <1>w DEF GetStatus
  <2> QED
    BY <2>1, <2>2
<1>7. CASE EnqueueDirectly(c)
  <2>1. StoresTypeOK'
    BY <1>7, <1>publish, PublishTypes DEF EnqueueDirectly, StoresTypeOK
  <2>2. RouterTypeOK'
    BY <1>7, <1>respond DEF EnqueueDirectly, Status
  <2> QED
    BY <2>1, <2>2, <1>w
<1>8. CASE CallFails(c)
  <2>1. faults' \in 0..MaxFaults
    BY <1>8, FaultTypes DEF CallFails
  <2>2. StoresTypeOK'
    BY <2>1, <1>8, <1>k DEF CallFails, Drop, StoresTypeOK
  <2>3. RouterTypeOK'
    BY <1>8, <1>respond DEF CallFails
  <2> QED
    BY <2>2, <2>3, <1>w
<1> QED
  BY <1>1, <1>2, <1>3, <1>4, <1>5, <1>6, <1>7, <1>8 DEF CallStep, CallProceeds

\* Every step of a worker keeps the types.
LEMMA TaskTypes ==
    ASSUME TypeOK, NEW w \in Workers, TaskStep(w), UNCHANGED routerVars
    PROVE  TypeOK'
<1> DEFINE m == job[w]
           k == m.key
<1> USE DEF TypeOK
<1>r. RouterTypeOK'
  BY DEF RouterTypeOK, routerVars
<1>m. ASSUME wpc[w] # "idle"
      PROVE  /\ m \in Message
             /\ k \in Keys /\ m.text \in Texts
             /\ m.retries \in 0..MaxRetries /\ m.retries \in Nat
             /\ doc[k] \in Doc
  <2>1. m \in Message
    BY <1>m DEF WorkerTypeOK
  <2> QED
    BY <2>1, StoresAssumption, DocTypes DEF Message
<1>carry. ASSUME NEW l \in WorkerSteps \ {"idle"}, NEW p \in Points \cup {NoPoint},
                 NEW n \in Nat, Carry(w, l, p, n), wpc[w] # "idle"
          PROVE  WorkerTypeOK'
  BY <1>carry DEF Carry, WorkerTypeOK
<1>go. ASSUME NEW l \in WorkerSteps \ {"idle"}, GoOn(w, l), wpc[w] # "idle"
       PROVE  WorkerTypeOK'
  BY <1>go, <1>carry DEF GoOn
<1>release. ASSUME Release(w)
            PROVE  WorkerTypeOK'
  BY <1>release DEF Release, WorkerTypeOK, WorkerSteps
<1>write. ASSUME wpc[w] # "idle", NEW d \in Doc, Write(k, d),
                 UNCHANGED <<queue, cacheVars, dropped>>, faults' \in 0..MaxFaults
          PROVE  StoresTypeOK'
  BY <1>write, <1>m DEF Write, StoresTypeOK
<1>steps. /\ {"find", "insert", "check", "claim", "recheck", "lookup", "hit", "call",
               "store", "complete", "retry", "failRead", "failWrite", "ack"}
                \subseteq WorkerSteps \ {"idle"}
          /\ "idle" \notin TryBlock
  BY DEF WorkerSteps, TryBlock
<1>1. ASSUME NEW n \in Message, Deliver(w, n)
      PROVE  TypeOK'
  <2>1. StoresTypeOK'
    BY <1>1 DEF Deliver, StoresTypeOK
  <2>2. WorkerTypeOK'
    BY <1>1, <1>steps, NoJobAssumption DEF Deliver, WorkerTypeOK
  <2> QED
    BY <2>1, <2>2, <1>r
<1>2. CASE Find(w)
  <2>1. StoresTypeOK'
    BY <1>2 DEF Find, StoresTypeOK, storeVars
  <2>2. doc[k].entry \in Points \cup {NoPoint}
    BY <1>2, <1>m, DocTypes DEF Find
  <2>3. WorkerTypeOK'
    BY <1>2, <2>2, <1>carry, <1>go, <1>steps DEF Find
  <2> QED
    BY <2>1, <2>3, <1>r
<1>3. CASE Insert(w)
  <2>1. Received \in Doc
    BY <1>3, <1>m, WritesAreDocs DEF Insert
  <2>2. StoresTypeOK'
    BY <1>3, <2>1, <1>m DEF Insert, Write, StoresTypeOK
  <2>3. WorkerTypeOK'
    BY <1>3, <1>go, <1>steps DEF Insert
  <2> QED
    BY <2>2, <2>3, <1>r
<1>4. CASE Check(w)
  <2>1. PICK r \in {point[w], NoPoint} :
          Fetch(point[w], r) /\ GoOn(w, IF r = NoPoint THEN "claim" ELSE "ack")
    BY <1>4 DEF Check
  <2>2. faults' \in 0..MaxFaults
    BY <2>1, FetchTypes DEF WorkerTypeOK
  <2>3. WorkerTypeOK'
    BY <1>4, <2>1, <1>go, <1>steps DEF Check
  <2> QED
    BY <1>4, <2>2, <2>3, <1>r DEF Check, StoresTypeOK
<1>5. CASE Claim(w)
  <2>1. Claimed(doc[k], m.retries) \in Doc
    BY <1>5, <1>m, WritesAreDocs DEF Claim
  <2>2. StoresTypeOK'
    BY <1>5, <2>1, <1>m DEF Claim, Write, StoresTypeOK
  <2>3. WorkerTypeOK'
    BY <1>5, <1>go, <1>steps DEF Claim
  <2> QED
    BY <2>2, <2>3, <1>r
<1>6. CASE Recheck(w)
  <2> DEFINE p == IF doc[k].status = "completed" THEN doc[k].entry ELSE NoPoint
  <2>1. PICK r \in {p, NoPoint} :
          Fetch(p, r) /\ GoOn(w, IF r = NoPoint THEN "failRead" ELSE "ack")
    BY <1>6 DEF Recheck
  <2>2. p \in Points \cup {NoPoint}
    BY <1>6, <1>m, DocTypes DEF Recheck
  <2>3. faults' \in 0..MaxFaults
    BY <2>1, <2>2, FetchTypes
  <2>4. WorkerTypeOK'
    BY <1>6, <2>1, <1>go, <1>steps DEF Recheck
  <2> QED
    BY <1>6, <2>3, <2>4, <1>r DEF Recheck, StoresTypeOK
<1>7. CASE Lookup(w)
  <2>1. WorkerTypeOK'
    BY <1>7, <1>carry, <1>steps DEF Lookup
  <2> QED
    BY <1>7, <2>1, <1>r DEF Lookup, StoresTypeOK, storeVars
<1>8. CASE CompleteHit(w)
  <2>1. CompletedFromCache(doc[k], point[w]) \in Doc
    BY <1>8, <1>m, WritesAreDocs DEF CompleteHit, WorkerTypeOK
  <2> QED
    BY <1>8, <2>1, <1>write, <1>go, <1>steps, <1>r DEF CompleteHit, StoresTypeOK
<1>9. CASE Generate(w)
  BY <1>9, <1>go, <1>steps, <1>r DEF Generate, StoresTypeOK, storeVars
<1>10. CASE Transient(w)
  <2>1. PICK s \in {"queued", "processing"} : Write(k, TransientError(doc[k], s, m.retries))
    BY <1>10 DEF Transient
  <2>2. TransientError(doc[k], s, m.retries) \in Doc
    BY <1>10, <1>m, WritesAreDocs DEF Transient
  <2> QED
    BY <1>10, <2>1, <2>2, <1>write, <1>go, <1>steps, <1>r DEF Transient, StoresTypeOK
<1>11. CASE Store(w)
  <2>1. PICK p \in Points : Add(p, m.text) /\ Carry(w, "complete", p, 0)
    BY <1>11 DEF Store
  <2>2. StoresTypeOK'
    BY <1>11, <2>1, <1>m DEF Store, Add, StoresTypeOK
  <2>3. WorkerTypeOK'
    BY <1>11, <2>1, <1>carry, <1>steps DEF Store
  <2> QED
    BY <2>2, <2>3, <1>r
<1>12. CASE Complete(w)
  <2>1. CompletedFromLLM(doc[k], point[w], m.retries) \in Doc
    BY <1>12, <1>m, WritesAreDocs DEF Complete, WorkerTypeOK
  <2> QED
    BY <1>12, <2>1, <1>write, <1>go, <1>steps, <1>r DEF Complete, StoresTypeOK
<1>13. CASE Retry(w)
  <2>1. WorkerTypeOK'
    BY <1>13, <1>go, <1>steps DEF Retry
  <2>2. CASE m.retries < MaxRetries
    <3>1. [m EXCEPT !.retries = @ + 1] \in Message
      BY <1>13, <2>2, <1>m, StoresAssumption DEF Retry, Message
    <3> QED
      BY <1>13, <2>1, <2>2, <3>1, <1>r, PublishTypes DEF Retry, StoresTypeOK
  <2>3. CASE ~(m.retries < MaxRetries)
    BY <1>13, <2>1, <2>3, <1>r DEF Retry, StoresTypeOK
  <2> QED
    BY <2>2, <2>3
<1>14. CASE FailRead(w)
  <2>1. doc[k].retries \in Nat
    BY <1>14, <1>m, DocTypes DEF FailRead
  <2> QED
    BY <1>14, <2>1, <1>carry, <1>steps, <1>r DEF FailRead, StoresTypeOK, storeVars
<1>15. CASE FailWrite(w)
  <2>1. MarkedFailed(doc[k], rc[w]) \in Doc
    BY <1>15, <1>m, WritesAreDocs DEF FailWrite, WorkerTypeOK
  <2> QED
    BY <1>15, <2>1, <1>write, <1>go, <1>steps, <1>r DEF FailWrite, StoresTypeOK
<1>16. CASE Ack(w)
  BY <1>16, <1>release, <1>r DEF Ack, StoresTypeOK, storeVars
<1>drop. ASSUME wpc[w] # "idle", Fault, Drop(k), UNCHANGED <<doc, queue, cacheVars>>
         PROVE  StoresTypeOK'
  BY <1>drop, <1>m, FaultTypes DEF Drop, StoresTypeOK
<1>17. CASE RetryLost(w)
  BY <1>17, <1>drop, <1>go, <1>steps, <1>r DEF RetryLost
<1>18. CASE Raise(w)
  <2>1. StoresTypeOK'
    BY <1>18, FaultTypes DEF Raise, StoresTypeOK
  <2> QED
    BY <1>18, <2>1, <1>go, <1>steps, <1>r DEF Raise
<1>19. CASE FailHandlerRaises(w)
  BY <1>19, <1>drop, <1>go, <1>steps, <1>r DEF FailHandlerRaises
<1>20. CASE Crash(w)
  <2>1. StoresTypeOK'
    BY <1>20, <1>m, FaultTypes, PublishTypes DEF Crash, StoresTypeOK
  <2> QED
    BY <1>20, <2>1, <1>release, <1>r DEF Crash
<1>21. CASE ReplyLost(w)
  <2>1. faults' \in 0..MaxFaults
    BY <1>21, FaultTypes DEF ReplyLost
  <2>2. PICK e \in Doc : Write(k, e)
    BY <1>21, <1>m, WritesAreDocs DEF ReplyLost, WorkerTypeOK
  <2>3. wpc[w] # "idle"
    BY <1>21 DEF ReplyLost
  <2> QED
    BY <1>21, <2>1, <2>2, <2>3, <1>write, <1>go, <1>steps, <1>r DEF ReplyLost
<1>22. CASE Redeliver(w)
  <2>1. StoresTypeOK'
    BY <1>22, <1>m, FaultTypes, PublishTypes DEF Redeliver, StoresTypeOK
  <2>2. WorkerTypeOK'
    BY <1>22 DEF Redeliver, WorkerTypeOK, workerVars
  <2> QED
    BY <2>1, <2>2, <1>r
<1> QED
  BY <1>1, <1>2, <1>3, <1>4, <1>5, <1>6, <1>7, <1>8, <1>9, <1>10, <1>11, <1>12,
     <1>13, <1>14, <1>15, <1>16, <1>17, <1>18, <1>19, <1>20, <1>21, <1>22
  DEF TaskStep, TaskProceeds, TaskFails

\* A step that changes nothing keeps the types.
LEMMA StutterTypes ==
    ASSUME TypeOK, UNCHANGED vars
    PROVE  TypeOK'
  BY DEF TypeOK, StoresTypeOK, RouterTypeOK, WorkerTypeOK, vars, storeVars,
         routerVars, workerVars

\* Every step of the service keeps the types.
LEMMA StepTypes ==
    ASSUME TypeOK, [Next]_vars
    PROVE  TypeOK'
<1>1. ASSUME NEW c \in Calls, CallStep(c), UNCHANGED workerVars
      PROVE  TypeOK'
  BY <1>1, CallTypes
<1>2. ASSUME NEW w \in Workers, TaskStep(w), UNCHANGED routerVars
      PROVE  TypeOK'
  BY <1>2, TaskTypes
<1>3. ASSUME AnswersAge, UNCHANGED <<routerVars, workerVars>>
      PROVE  TypeOK'
  <2>1. PICK S \in SUBSET (Stored \ stale) : stale' = stale \cup S
    BY <1>3 DEF AnswersAge, GrowStale
  <2>2. stale' \in SUBSET Points
    BY <2>1 DEF Stored, TypeOK, StoresTypeOK
  <2> QED
    BY <1>3, <2>2 DEF AnswersAge, GrowStale, TypeOK, StoresTypeOK, RouterTypeOK,
                      WorkerTypeOK, routerVars, workerVars
<1> QED
  BY <1>1, <1>2, <1>3, StutterTypes DEF Next

\* Every variable keeps its type, and a worker holds a message exactly while
\* it runs a task.
THEOREM TypeCorrect == Spec => []TypeOK
<1>1. Init => TypeOK
  BY InitTypes
<1>2. TypeOK /\ [Next]_vars => TypeOK'
  BY StepTypes
<1> QED
  BY <1>1, <1>2, PTL DEF Spec

-----------------------------------------------------------------------------
(* Durability: NoOrphan, with TypeOK, is inductive.                        *)

\* Whoever has request k in hand keeps it when one worker takes a step that
\* consumes no message, unless that worker was the one.
LEMMA OthersKeepHand ==
    ASSUME NEW w \in Workers, NEW k \in Keys, UNCHANGED routerVars,
           \A u \in Workers \ {w} : wpc'[u] = wpc[u] /\ job'[u] = job[u],
           \A m \in Message : queue[m] > 0 => queue'[m] > 0,
           InHand(k),
           WorksFor(w, k) => InHand(k)'
    PROVE  InHand(k)'
<1>1. ASSUME NEW c \in Calls, cpc[c] = "enqueue", req[c].key = k
      PROVE  InHand(k)'
  BY <1>1 DEF InHand, routerVars
<1>2. ASSUME NEW m \in Message, m.key = k, queue[m] > 0
      PROVE  InHand(k)'
  BY <1>2 DEF InHand
<1>3. ASSUME NEW u \in Workers, WorksFor(u, k)
      PROVE  InHand(k)'
  <2>1. CASE u = w
    BY <1>3, <2>1
  <2>2. CASE u # w
    BY <1>3, <2>2 DEF InHand, WorksFor
  <2> QED
    BY <2>1, <2>2
<1> QED
  BY <1>1, <1>2, <1>3 DEF InHand

\* A worker at an obliged step has its request in hand.
LEMMA ObligedHand ==
    ASSUME NEW w \in Workers, wpc[w] \in Obliged, job[w] # NoJob
    PROVE  InHand(job[w].key)
  BY DEF InHand, WorksFor

\* A published message puts its request in hand.
LEMMA PublishedHand ==
    ASSUME TypeOK, NEW m \in Message, Publish(m)
    PROVE  /\ \A k \in Keys : m.key = k => InHand(k)'
           /\ \A n \in Message : queue[n] > 0 => queue'[n] > 0
  BY DEF InHand, Publish, TypeOK, StoresTypeOK

\* Every step of an API call keeps every request from being orphaned.
LEMMA CallKeepsNoOrphan ==
    ASSUME TypeOK, NoOrphan, NEW c \in Calls, CallStep(c), UNCHANGED workerVars
    PROVE  NoOrphan'
<1> SUFFICES ASSUME NEW k \in Keys, Unsettled(k)'
             PROVE  InHand(k)' \/ Exhausted(k)' \/ k \in dropped'
  BY DEF NoOrphan
<1>k. req[c] \in Request /\ req[c].key \in Keys
  BY DEF TypeOK, RouterTypeOK, Request
\* A step that leaves the document, the broker and c's publication alone.
<1>hand. ASSUME InHand(k), cpc[c] # "enqueue", req' = req, queue' = queue,
                \A b \in Calls \ {c} : cpc'[b] = cpc[b]
         PROVE  InHand(k)'
  BY <1>hand DEF InHand, WorksFor, workerVars
<1>quiet. ASSUME cpc[c] # "enqueue", req' = req, queue' = queue, dropped' = dropped,
                 doc'[k] = doc[k], \A b \in Calls \ {c} : cpc'[b] = cpc[b]
          PROVE  InHand(k)' \/ Exhausted(k)' \/ k \in dropped'
  BY <1>quiet, <1>hand DEF NoOrphan, Unsettled, Exhausted
<1>goto. ASSUME NEW l, Goto(c, l)
         PROVE  \A b \in Calls \ {c} : cpc'[b] = cpc[b]
  BY <1>goto DEF Goto, TypeOK, RouterTypeOK
<1>1. CASE PostFind(c)
  <2>1. \A b \in Calls \ {c} : cpc'[b] = cpc[b]
    BY <1>1, <1>goto DEF PostFind, RespondFrom, Respond, LookupNext
  <2> QED
    BY <1>1, <2>1, <1>quiet DEF PostFind
<1>2. CASE PostLookup(c)
  BY <1>2, <1>goto, <1>quiet DEF PostLookup, storeVars
<1>3. CASE PostPersist(c)
  <2>1. \A b \in Calls \ {c} : cpc'[b] = cpc[b]
    BY <1>3, <1>goto DEF PostPersist, Respond
  <2>2. doc'[req[c].key].status = "completed"
    BY <1>3, <1>k, DocTypes DEF PostPersist, Write, Persisted, TypeOK, StoresTypeOK, Doc
  <2>3. k # req[c].key
    BY <2>2 DEF Unsettled
  <2>4. doc'[k] = doc[k]
    BY <1>3, <2>3 DEF PostPersist, Write, TypeOK, StoresTypeOK
  <2> QED
    BY <1>3, <2>1, <2>4, <1>quiet DEF PostPersist
<1>4. CASE PostUpsert(c)
  <2>1. CASE k = req[c].key
    BY <1>4, <2>1 DEF PostUpsert, Goto, InHand, TypeOK, RouterTypeOK
  <2>2. CASE k # req[c].key
    <3>1. doc'[k] = doc[k]
      BY <1>4, <2>2 DEF PostUpsert, Write, TypeOK, StoresTypeOK
    <3> QED
      BY <1>4, <3>1, <1>goto, <1>quiet DEF PostUpsert
  <2> QED
    BY <2>1, <2>2
\* c publishes a task for its key.
<1>publish. ASSUME Publish([key |-> req[c].key, text |-> req[c].text, retries |-> 0]),
                   \A b \in Calls \ {c} : cpc'[b] = cpc[b],
                   UNCHANGED <<req, doc, dropped>>
            PROVE  InHand(k)' \/ Exhausted(k)' \/ k \in dropped'
  <2>1. [key |-> req[c].key, text |-> req[c].text, retries |-> 0] \in Message
    BY <1>k, StoresAssumption DEF Message, Request
  <2>2. PICK m \in Message : Publish(m) /\ m.key = req[c].key
    BY <1>publish, <2>1
  <2>3. CASE k = req[c].key
    BY <2>2, <2>3, PublishedHand
  <2>4. ASSUME InHand(k), k # req[c].key
        PROVE  InHand(k)'
    <3>1. \A n \in Message : queue[n] > 0 => queue'[n] > 0
      BY <2>2, PublishedHand
    <3> QED
      BY <2>4, <3>1, <1>publish DEF InHand, WorksFor, workerVars
  <2> QED
    BY <2>3, <2>4, <1>publish DEF NoOrphan, Unsettled, Exhausted
<1>5. CASE PostEnqueue(c)
  <2>1. \A b \in Calls \ {c} : cpc'[b] = cpc[b]
    BY <1>5, <1>goto DEF PostEnqueue, Respond
  <2> QED
    BY <1>5, <2>1, <1>publish DEF PostEnqueue
<1>6. CASE GetStatus(c)
  <2>1. \A b \in Calls \ {c} : cpc'[b] = cpc[b]
    BY <1>6, <1>goto DEF GetStatus, RespondFrom, Respond
  <2> QED
    BY <1>6, <2>1, <1>quiet DEF GetStatus
<1>7. CASE EnqueueDirectly(c)
  <2>1. \A b \in Calls \ {c} : cpc'[b] = cpc[b]
    BY <1>7, <1>goto DEF EnqueueDirectly, Respond
  <2> QED
    BY <1>7, <2>1, <1>publish DEF EnqueueDirectly
<1>8. CASE CallFails(c)
  <2>1. \A b \in Calls \ {c} : cpc'[b] = cpc[b]
    BY <1>8, <1>goto DEF CallFails, Respond
  <2>2. CASE cpc[c] # "enqueue"
    BY <1>8, <2>1, <2>2, <1>quiet DEF CallFails
  <2>3. CASE cpc[c] = "enqueue" /\ k = req[c].key
    BY <1>8, <2>3 DEF CallFails, Drop
  <2>4. CASE cpc[c] = "enqueue" /\ k # req[c].key
    <3>1. dropped' = dropped \cup {req[c].key}
      BY <1>8, <2>4 DEF CallFails, Drop
    <3>2. InHand(k) => InHand(k)'
      BY <1>8, <2>1, <2>4 DEF CallFails, InHand, WorksFor, workerVars
    <3> QED
      BY <1>8, <3>1, <3>2 DEF CallFails, NoOrphan, Unsettled, Exhausted
  <2> QED
    BY <2>2, <2>3, <2>4
<1> QED
  BY <1>1, <1>2, <1>3, <1>4, <1>5, <1>6, <1>7, <1>8 DEF CallStep, CallProceeds

\* Every step of a worker keeps every request from being orphaned.
LEMMA TaskKeepsNoOrphan ==
    ASSUME TypeOK, NoOrphan, NEW w \in Workers, TaskStep(w), UNCHANGED routerVars
    PROVE  NoOrphan'
<1> SUFFICES ASSUME NEW k \in Keys, Unsettled(k)'
             PROVE  InHand(k)' \/ Exhausted(k)' \/ k \in dropped'
  BY DEF NoOrphan
<1>others. ASSUME NEW u \in Workers \ {w},
                  \/ \E l, p, n : Carry(w, l, p, n)
                  \/ \E l : GoOn(w, l)
                  \/ Release(w)
                  \/ \E m \in Message : Deliver(w, m)
           PROVE  wpc'[u] = wpc[u] /\ job'[u] = job[u]
  BY <1>others DEF Carry, GoOn, Release, Deliver, TypeOK, WorkerTypeOK
<1>job. ASSUME wpc[w] # "idle"
        PROVE  job[w] \in Message /\ job[w] # NoJob /\ job[w].key \in Keys
  BY <1>job, NoJobAssumption DEF TypeOK, WorkerTypeOK, Message
\* After a step to l, w still works for the request of its message.
<1>works. ASSUME NEW l \in Obliged, wpc[w] # "idle", job[w].key = k,
                 GoOn(w, l) \/ \E p, n : Carry(w, l, p, n)
          PROVE  InHand(k)'
  <2>1. wpc'[w] = l /\ job' = job
    BY <1>works DEF GoOn, Carry, TypeOK, WorkerTypeOK
  <2> QED
    BY <2>1, <1>works, <1>job DEF InHand, WorksFor
\* A step that leaves document k and the broker alone and after which w, if it
\* worked for k, still does.
<1>quiet. ASSUME NEW l, GoOn(w, l) \/ \E p, n : Carry(w, l, p, n),
                 doc'[k] = doc[k], queue' = queue, dropped \subseteq dropped',
                 WorksFor(w, k) => InHand(k)'
          PROVE  InHand(k)' \/ Exhausted(k)' \/ k \in dropped'
  <2>1. \A u \in Workers \ {w} : wpc'[u] = wpc[u] /\ job'[u] = job[u]
    BY <1>quiet, <1>others
  <2>2. InHand(k) => InHand(k)'
    BY <1>quiet, <2>1, OthersKeepHand
  <2> QED
    BY <1>quiet, <2>2 DEF NoOrphan, Unsettled, Exhausted
\* A write to the document of w's request leaves the others alone.
<1>write. ASSUME NEW d, Write(job[w].key, d), k # job[w].key
          PROVE  doc'[k] = doc[k]
  BY <1>write DEF Write, TypeOK, StoresTypeOK
<1>wrote. ASSUME NEW d, Write(job[w].key, d), k = job[w].key
          PROVE  doc'[k] = d
  BY <1>wrote DEF Write, TypeOK, StoresTypeOK
<1>mine. WorksFor(w, k) => wpc[w] # "idle" /\ job[w].key = k
  BY DEF WorksFor, TypeOK, WorkerTypeOK
<1>steps. {"find", "insert", "claim", "lookup", "hit", "call", "store", "complete",
           "failRead", "failWrite"} = Obliged
  BY DEF Obliged, TryBlock
<1>1. ASSUME NEW m \in Message, Deliver(w, m)
      PROVE  InHand(k)' \/ Exhausted(k)' \/ k \in dropped'
  <2>1. \A u \in Workers \ {w} : wpc'[u] = wpc[u] /\ job'[u] = job[u]
    BY <1>1, <1>others
  <2>2. wpc'[w] = "find" /\ job'[w] = m
    BY <1>1 DEF Deliver, TypeOK, WorkerTypeOK
  <2>3. CASE m.key = k
    BY <2>2, <2>3, <1>steps, NoJobAssumption DEF InHand, WorksFor
  <2>4. CASE m.key # k
    <3>1. \A n \in Message : n # m => queue'[n] = queue[n]
      BY <1>1 DEF Deliver, TypeOK, StoresTypeOK
    <3>2. ~WorksFor(w, k)
      BY <1>1, <1>mine DEF Deliver
    <3>3. InHand(k) => InHand(k)'
      BY <2>1, <2>4, <3>1, <3>2 DEF InHand, WorksFor, routerVars
    <3> QED
      BY <1>1, <3>3 DEF Deliver, NoOrphan, Unsettled, Exhausted
  <2> QED
    BY <2>3, <2>4
<1>2. CASE Find(w)
  <2>1. PICK l, p : (GoOn(w, l) \/ Carry(w, l, p, 0)) /\ l \in {"insert", "check", "claim"}
                    /\ (l = "check" => doc[job[w].key].status = "completed")
    BY <1>2 DEF Find
  <2>2. CASE l # "check"
    <3>1. WorksFor(w, k) => InHand(k)'
      BY <1>2, <2>1, <2>2, <1>works, <1>mine, <1>steps DEF Find
    <3> QED
      BY <1>2, <2>1, <3>1, <1>quiet DEF Find, storeVars
  <2>3. CASE l = "check"
    <3>1. ~WorksFor(w, k)
      BY <1>2, <2>1, <2>3, <1>mine DEF Find, Unsettled, storeVars
    <3> QED
      BY <1>2, <2>1, <3>1, <1>quiet DEF Find, storeVars
  <2> QED
    BY <2>2, <2>3
<1>3. CASE Insert(w)
  <2>1. PICK l \in {"claim", "find"} : GoOn(w, l)
    BY <1>3 DEF Insert
  <2>2. job[w].key = k => InHand(k)'
    BY <1>3, <2>1, <1>works, <1>steps DEF Insert
  <2>3. job[w].key # k => doc'[k] = doc[k]
    BY <1>3, <1>write DEF Insert
  <2> QED
    BY <1>3, <2>1, <2>2, <2>3, <1>mine, <1>quiet DEF Insert
<1>4. CASE Check(w)
  <2>1. PICK l \in {"claim", "ack"} : GoOn(w, l)
    BY <1>4 DEF Check
  <2>2. ~WorksFor(w, k)
    BY <1>4 DEF Check, WorksFor, Obliged, TryBlock
  <2> QED
    BY <1>4, <2>1, <2>2, <1>quiet DEF Check
<1>5. CASE Claim(w)
  <2>1. CASE doc[job[w].key].status \in Claimable
    <3>1. GoOn(w, "lookup")
      BY <1>5, <2>1 DEF Claim
    <3>2. job[w].key = k => InHand(k)'
      BY <1>5, <3>1, <1>works, <1>steps DEF Claim
    <3>3. job[w].key # k => doc'[k] = doc[k]
      BY <1>5, <1>write DEF Claim
    <3> QED
      BY <1>5, <3>1, <3>2, <3>3, <1>mine, <1>quiet DEF Claim
  <2>2. CASE doc[job[w].key].status \notin Claimable
    <3>1. GoOn(w, "recheck") /\ doc' = doc
      BY <1>5, <2>2 DEF Claim
    <3>2. ~WorksFor(w, k)
      BY <2>2, <3>1, <1>mine DEF Unsettled, Claimable
    <3> QED
      BY <1>5, <3>1, <3>2, <1>quiet DEF Claim
  <2> QED
    BY <2>1, <2>2
<1>6. CASE Recheck(w)
  <2>1. PICK l \in {"failRead", "ack"} : GoOn(w, l)
    BY <1>6 DEF Recheck
  <2>2. ~WorksFor(w, k)
    BY <1>6 DEF Recheck, WorksFor, Obliged
  <2> QED
    BY <1>6, <2>1, <2>2, <1>quiet DEF Recheck
<1>7. CASE Lookup(w)
  <2>1. PICK l \in {"call", "hit"} : \E p : Carry(w, l, p, 0)
    BY <1>7 DEF Lookup
  <2>2. WorksFor(w, k) => InHand(k)'
    BY <1>7, <2>1, <1>works, <1>mine, <1>steps DEF Lookup
  <2> QED
    BY <1>7, <2>1, <2>2, <1>quiet DEF Lookup, storeVars
\* A step that settles w's request and leaves the broker alone.
<1>settle. ASSUME NEW d \in Doc, Write(job[w].key, d), d.status \in {"completed", "failed"},
                  GoOn(w, "ack"), queue' = queue, dropped' = dropped
           PROVE  InHand(k)' \/ Exhausted(k)' \/ k \in dropped'
  <2>1. k # job[w].key
    BY <1>settle, <1>wrote DEF Unsettled
  <2>2. doc'[k] = doc[k]
    BY <2>1, <1>settle, <1>write
  <2>3. ~WorksFor(w, k)
    BY <2>1, <1>mine
  <2> QED
    BY <1>settle, <2>2, <2>3, <1>quiet
<1>doc. ASSUME wpc[w] # "idle"
        PROVE  doc[job[w].key] \in Doc /\ job[w].retries \in Nat
  BY <1>doc, <1>job, DocTypes, StoresAssumption DEF TypeOK, Message
<1>8. CASE CompleteHit(w)
  <2>1. CompletedFromCache(doc[job[w].key], point[w]) \in Doc
    BY <1>8, <1>doc, WritesAreDocs DEF CompleteHit, TypeOK, WorkerTypeOK
  <2>2. CompletedFromCache(doc[job[w].key], point[w]).status = "completed"
    BY <1>8, <1>doc DEF CompleteHit, CompletedFromCache, Doc
  <2> QED
    BY <1>8, <2>1, <2>2, <1>settle DEF CompleteHit
<1>9. CASE Generate(w)
  <2>1. WorksFor(w, k) => InHand(k)'
    BY <1>9, <1>works, <1>mine, <1>steps DEF Generate
  <2> QED
    BY <1>9, <2>1, <1>quiet DEF Generate, storeVars
<1>10. CASE Transient(w)
  <2>1. PICK s \in {"queued", "processing"} :
          Write(job[w].key, TransientError(doc[job[w].key], s, job[w].retries))
    BY <1>10 DEF Transient
  <2>2. CASE job[w].key # k
    <3>1. doc'[k] = doc[k]
      BY <2>1, <2>2, <1>write
    <3> QED
      BY <1>10, <2>2, <3>1, <1>mine, <1>quiet DEF Transient
  <2>3. CASE job[w].key = k
    <3>1. wpc'[w] = "retry" /\ job' = job
      BY <1>10 DEF Transient, GoOn, Carry, TypeOK, WorkerTypeOK
    <3>2. CASE job[w].retries < MaxRetries
      BY <1>10, <2>3, <3>1, <3>2, <1>job DEF Transient, InHand, WorksFor
    <3>3. CASE ~(job[w].retries < MaxRetries)
      <4>1. doc'[k] = TransientError(doc[k], s, job[w].retries)
        BY <2>1, <2>3, <1>wrote
      <4>2. doc'[k].retries = job[w].retries + 1 /\ doc'[k].error = TRUE
        BY <1>10, <2>3, <4>1, <1>doc DEF Transient, TransientError, Doc
      <4>3. doc'[k].retries > MaxRetries
        BY <1>10, <3>3, <4>2, <1>doc, StoresAssumption DEF Transient
      <4> QED
        BY <4>2, <4>3 DEF Exhausted
    <3> QED
      BY <3>2, <3>3
  <2> QED
    BY <2>2, <2>3
<1>11. CASE Store(w)
  <2>1. PICK p : Carry(w, "complete", p, 0)
    BY <1>11 DEF Store
  <2>2. WorksFor(w, k) => InHand(k)'
    BY <1>11, <2>1, <1>works, <1>mine, <1>steps DEF Store
  <2> QED
    BY <1>11, <2>1, <2>2, <1>quiet DEF Store
<1>12. CASE Complete(w)
  <2>1. CompletedFromLLM(doc[job[w].key], point[w], job[w].retries) \in Doc
    BY <1>12, <1>doc, WritesAreDocs DEF Complete, TypeOK, WorkerTypeOK
  <2>2. CompletedFromLLM(doc[job[w].key], point[w], job[w].retries).status = "completed"
    BY <1>12, <1>doc DEF Complete, CompletedFromLLM, Doc
  <2> QED
    BY <1>12, <2>1, <2>2, <1>settle DEF Complete
<1>13. CASE Retry(w)
  <2>1. CASE job[w].retries < MaxRetries
    <3>1. [job[w] EXCEPT !.retries = @ + 1] \in Message
      BY <1>13, <2>1, <1>job, StoresAssumption DEF Retry, Message
    <3>2. PICK m \in Message : Publish(m) /\ m.key = job[w].key
      BY <1>13, <2>1, <3>1, <1>job DEF Retry, Message
    <3>3. /\ m.key = k => InHand(k)'
          /\ \A n \in Message : queue[n] > 0 => queue'[n] > 0
      BY <3>2, PublishedHand
    <3>4. \A u \in Workers \ {w} : wpc'[u] = wpc[u] /\ job'[u] = job[u]
      BY <1>13, <1>others DEF Retry
    <3>5. InHand(k) => InHand(k)'
      BY <3>2, <3>3, <3>4, <1>mine, OthersKeepHand
    <3> QED
      BY <1>13, <3>5 DEF Retry, NoOrphan, Unsettled, Exhausted
  <2>2. CASE ~(job[w].retries < MaxRetries)
    <3>1. ~WorksFor(w, k)
      BY <1>13, <2>2 DEF Retry, WorksFor, Obliged, TryBlock
    <3> QED
      BY <1>13, <2>2, <3>1, <1>quiet DEF Retry
  <2> QED
    BY <2>1, <2>2
<1>14. CASE FailRead(w)
  <2>1. WorksFor(w, k) => InHand(k)'
    BY <1>14, <1>works, <1>mine, <1>steps DEF FailRead
  <2> QED
    BY <1>14, <2>1, <1>quiet DEF FailRead, storeVars
<1>15. CASE FailWrite(w)
  <2>1. MarkedFailed(doc[job[w].key], rc[w]) \in Doc
    BY <1>15, <1>doc, WritesAreDocs DEF FailWrite, TypeOK, WorkerTypeOK
  <2>2. MarkedFailed(doc[job[w].key], rc[w]).status = "failed"
    BY <1>15, <1>doc DEF FailWrite, MarkedFailed, Doc
  <2> QED
    BY <1>15, <2>1, <2>2, <1>settle DEF FailWrite
<1>16. CASE Ack(w)
  <2>1. \A u \in Workers \ {w} : wpc'[u] = wpc[u] /\ job'[u] = job[u]
    BY <1>16, <1>others DEF Ack
  <2>2. ~WorksFor(w, k)
    BY <1>16 DEF Ack, WorksFor, Obliged, TryBlock
  <2>3. InHand(k) => InHand(k)'
    BY <1>16, <2>1, <2>2, OthersKeepHand DEF Ack, storeVars
  <2> QED
    BY <1>16, <2>3 DEF Ack, storeVars, NoOrphan, Unsettled, Exhausted
\* A step that gives w's request up.
<1>drop. ASSUME Drop(job[w].key), GoOn(w, "ack"), UNCHANGED <<doc, queue>>
         PROVE  InHand(k)' \/ Exhausted(k)' \/ k \in dropped'
  <2>1. CASE job[w].key = k
    BY <1>drop, <2>1 DEF Drop
  <2>2. CASE job[w].key # k
    BY <1>drop, <2>2, <1>mine, <1>quiet DEF Drop
  <2> QED
    BY <2>1, <2>2
<1>17. CASE RetryLost(w)
  BY <1>17, <1>drop DEF RetryLost
<1>18. CASE Raise(w)
  <2>1. WorksFor(w, k) => InHand(k)'
    BY <1>18, <1>works, <1>mine, <1>steps DEF Raise
  <2> QED
    BY <1>18, <2>1, <1>quiet DEF Raise
<1>19. CASE FailHandlerRaises(w)
  BY <1>19, <1>drop DEF FailHandlerRaises
<1>20. CASE Crash(w)
  <2>1. PICK m \in Message : Publish(m) /\ m.key = job[w].key
    BY <1>20, <1>job DEF Crash
  <2>2. /\ m.key = k => InHand(k)'
        /\ \A n \in Message : queue[n] > 0 => queue'[n] > 0
    BY <2>1, PublishedHand
  <2>3. \A u \in Workers \ {w} : wpc'[u] = wpc[u] /\ job'[u] = job[u]
    BY <1>20, <1>others DEF Crash
  <2>4. InHand(k) => InHand(k)'
    BY <2>1, <2>2, <2>3, <1>mine, OthersKeepHand
  <2> QED
    BY <1>20, <2>4 DEF Crash, NoOrphan, Unsettled, Exhausted
<1>21. CASE ReplyLost(w)
  <2>1. PICK d : Write(job[w].key, d)
    BY <1>21 DEF ReplyLost
  <2>2. CASE job[w].key = k
    BY <1>21, <2>2, <1>works, <1>steps DEF ReplyLost
  <2>3. CASE job[w].key # k
    <3>1. doc'[k] = doc[k]
      BY <2>1, <2>3, <1>write
    <3> QED
      BY <1>21, <2>3, <3>1, <1>mine, <1>quiet DEF ReplyLost
  <2> QED
    BY <2>2, <2>3
<1>22. CASE Redeliver(w)
  <2>1. PICK m \in Message : Publish(m)
    BY <1>22, <1>job DEF Redeliver
  <2>2. \A n \in Message : queue[n] > 0 => queue'[n] > 0
    BY <2>1, PublishedHand
  <2>3. InHand(k) => InHand(k)'
    BY <1>22, <2>2 DEF Redeliver, InHand, WorksFor, workerVars, routerVars
  <2> QED
    BY <1>22, <2>3 DEF Redeliver, NoOrphan, Unsettled, Exhausted
<1> QED
  BY <1>1, <1>2, <1>3, <1>4, <1>5, <1>6, <1>7, <1>8, <1>9, <1>10, <1>11, <1>12,
     <1>13, <1>14, <1>15, <1>16, <1>17, <1>18, <1>19, <1>20, <1>21, <1>22
  DEF TaskStep, TaskProceeds, TaskFails

\* Every step of the service leaves no unsettled request in nobody's hands.
LEMMA StepKeepsNoOrphan ==
    ASSUME TypeOK, NoOrphan, [Next]_vars
    PROVE  NoOrphan'
<1>1. ASSUME NEW c \in Calls, CallStep(c), UNCHANGED workerVars
      PROVE  NoOrphan'
  BY <1>1, CallKeepsNoOrphan
<1>2. ASSUME NEW w \in Workers, TaskStep(w), UNCHANGED routerVars
      PROVE  NoOrphan'
  BY <1>2, TaskKeepsNoOrphan
<1>3. ASSUME UNCHANGED <<doc, queue, dropped, routerVars, workerVars>>
      PROVE  NoOrphan'
  BY <1>3 DEF NoOrphan, Unsettled, InHand, WorksFor, Exhausted, routerVars, workerVars
<1> QED
  BY <1>1, <1>2, <1>3 DEF Next, AnswersAge, vars, storeVars

\* No interleaving of calls and tasks, no crash and no redelivery leaves an
\* unsettled request that nobody has in hand, other than one whose retries are
\* used up or whose task was dropped: however many keys, calls, workers,
\* retries and faults there are.
THEOREM Durability == Spec => []NoOrphan
<1>1. Init => NoOrphan
  BY DEF Init, StoresInit, NoOrphan, Unsettled, AbsentDoc
<1>2. NoOrphan /\ TypeOK /\ [Next]_vars => NoOrphan'
  BY StepKeepsNoOrphan
<1> QED
  BY <1>1, <1>2, TypeCorrect, PTL DEF Spec

-----------------------------------------------------------------------------
(* The exceptions of NoOrphan: none is met without its cause               *)

\* An unsettled document with an error shows the number of the attempt that
\* met it, and tasks are dropped by faults only.
CausesShown ==
    /\ \A k \in Keys : Unsettled(k) /\ doc[k].error => doc[k].retries \in 1..(MaxRetries + 1)
    /\ dropped # {} => faults > 0

\* A write that settles the document, clears its error or counts an attempt
\* that has just met one keeps it so.
LEMMA WriteShowsCauses ==
    ASSUME TypeOK, CausesShown, NEW k \in Keys, NEW d, Write(k, d),
           \/ d.status \in {"completed", "failed"}
           \/ ~d.error
           \/ d.retries \in 1..(MaxRetries + 1)
    PROVE  \A i \in Keys :
               (Unsettled(i) /\ doc[i].error => doc[i].retries \in 1..(MaxRetries + 1))'
<1>1. ASSUME NEW i \in Keys
      PROVE  doc'[i] = IF i = k THEN d ELSE doc[i]
  BY DEF Write, TypeOK, StoresTypeOK
<1> QED
  BY <1>1 DEF CausesShown, Unsettled

\* A step that changes no document keeps the documents' part of it.
LEMMA QuietShowsCauses ==
    ASSUME CausesShown, doc' = doc
    PROVE  \A i \in Keys :
               (Unsettled(i) /\ doc[i].error => doc[i].retries \in 1..(MaxRetries + 1))'
  BY DEF CausesShown, Unsettled

\* Every step that drops a task is a fault, and faults are never undone.
LEMMA DropsAreFaults ==
    ASSUME TypeOK, [Next]_vars
    PROVE  faults' >= faults /\ (dropped' = dropped \/ faults' > faults)
<1>1. faults \in Nat /\ faults + 1 > faults /\ faults >= faults
  BY StoresAssumption DEF TypeOK, StoresTypeOK
<1>2. ASSUME NEW c \in Calls, CallStep(c)
      PROVE  /\ faults' = faults \/ faults' = faults + 1
             /\ dropped' = dropped \/ faults' = faults + 1
  BY <1>2 DEF CallStep, CallProceeds, PostFind, PostLookup, PostPersist, PostUpsert,
     PostEnqueue, GetStatus, EnqueueDirectly, CallFails, RespondFrom, Fetch, Fault, storeVars
<1>3. ASSUME NEW w \in Workers, TaskStep(w)
      PROVE  /\ faults' = faults \/ faults' = faults + 1
             /\ dropped' = dropped \/ faults' = faults + 1
  BY <1>3
  DEF TaskStep, TaskProceeds, TaskFails, Deliver, Find, Insert, Check, Claim, Recheck,
      Lookup, Store, CompleteHit, Generate, Transient, Complete, Retry, FailRead, FailWrite,
      Ack, RetryLost, Raise, ReplyLost, FailHandlerRaises, Crash, Redeliver, Fetch, Fault,
      storeVars
<1> QED
  BY <1>1, <1>2, <1>3 DEF Next, AnswersAge, vars, storeVars

\* A call writes a document without an error or a completed one.
LEMMA CallShowsCauses ==
    ASSUME TypeOK, CausesShown, NEW c \in Calls, CallStep(c)
    PROVE  \A i \in Keys :
               (Unsettled(i) /\ doc[i].error => doc[i].retries \in 1..(MaxRetries + 1))'
<1>1. req[c].key \in Keys /\ doc[req[c].key] \in Doc
  BY DocTypes DEF TypeOK, RouterTypeOK, Request
<1>2. CASE PostPersist(c)
  <2>1. Persisted(doc[req[c].key], hit[c], seen[c]).status = "completed"
    BY <1>1 DEF Persisted, Doc
  <2> QED
    BY <1>1, <1>2, <2>1, WriteShowsCauses DEF PostPersist
<1>3. CASE PostUpsert(c)
  <2>1. ~Enqueued(seen[c]).error
    BY DEF Enqueued, AbsentDoc
  <2> QED
    BY <1>1, <1>3, <2>1, WriteShowsCauses DEF PostUpsert
<1>4. CASE UNCHANGED doc
  BY <1>4, QuietShowsCauses
<1> QED
  BY <1>2, <1>3, <1>4
  DEF CallStep, CallProceeds, PostFind, PostLookup, PostEnqueue, GetStatus,
      EnqueueDirectly, CallFails, storeVars

\* A task clears the error when it claims, and sets it with the number of the
\* attempt or together with a status that settles the request.
LEMMA TaskShowsCauses ==
    ASSUME TypeOK, CausesShown, NEW w \in Workers, TaskStep(w)
    PROVE  \A i \in Keys :
               (Unsettled(i) /\ doc[i].error => doc[i].retries \in 1..(MaxRetries + 1))'
<1> DEFINE k == job[w].key
           n == job[w].retries
<1>1. CASE UNCHANGED doc
  BY <1>1, QuietShowsCauses
<1>2. CASE ~UNCHANGED doc
  <2>1. wpc[w] # "idle"
    BY <1>2
    DEF TaskStep, TaskProceeds, TaskFails, Deliver, Find, Insert, Check, Claim, Recheck,
        Lookup, Store, CompleteHit, Generate, Transient, Complete, Retry, FailRead,
        FailWrite, Ack, RetryLost, Raise, ReplyLost, FailHandlerRaises, Crash, Redeliver,
        storeVars
  <2>2. k \in Keys /\ n \in 0..MaxRetries /\ doc[k] \in Doc
    BY <2>1, NoJobAssumption, DocTypes DEF TypeOK, WorkerTypeOK, Message
  <2>3. n + 1 \in 1..(MaxRetries + 1)
    BY <2>2, StoresAssumption
  <2> HIDE DEF k, n
  <2>4. ~Received.error /\ ~Claimed(doc[k], n).error
    BY <2>2 DEF Received, AbsentDoc, Claimed, Doc
  <2>5. \A p, i : /\ CompletedFromCache(doc[k], p).status = "completed"
                  /\ CompletedFromLLM(doc[k], p, i).status = "completed"
                  /\ MarkedFailed(doc[k], i).status = "failed"
    BY <2>2 DEF CompletedFromCache, CompletedFromLLM, MarkedFailed, Doc
  <2>6. \A s : TransientError(doc[k], s, n).retries \in 1..(MaxRetries + 1)
    BY <2>2, <2>3 DEF TransientError, Doc
  <2>7. PICK d : Write(k, d) /\ \/ d.status \in {"completed", "failed"}
                                \/ ~d.error
                                \/ d.retries \in 1..(MaxRetries + 1)
    BY <1>2, <2>4, <2>5, <2>6
    DEF k, n, TaskStep, TaskProceeds, TaskFails, Deliver, Find, Insert, Check, Claim, Recheck,
        Lookup, Store, CompleteHit, Generate, Transient, Complete, Retry, FailRead,
        FailWrite, Ack, RetryLost, Raise, ReplyLost, FailHandlerRaises, Crash, Redeliver,
        storeVars
  <2> QED
    BY <2>2, <2>7, WriteShowsCauses
<1> QED
  BY <1>1, <1>2

\* CausesShown, with TypeOK, is inductive.
LEMMA CausesHold == Spec => [](TypeOK /\ CausesShown)
<1>1. Init => CausesShown
  BY DEF Init, StoresInit, CausesShown, Unsettled, AbsentDoc
<1>2. TypeOK /\ CausesShown /\ [Next]_vars => CausesShown'
  <2> SUFFICES ASSUME TypeOK, CausesShown, [Next]_vars
               PROVE  CausesShown'
    OBVIOUS
  <2>1. (dropped # {} => faults > 0)'
    <3>1. faults \in Nat /\ faults' \in Nat
      BY StepTypes, StoresAssumption DEF TypeOK, StoresTypeOK
    <3> QED
      BY <3>1, DropsAreFaults DEF CausesShown
  <2>2. UNCHANGED doc \/ (\E c \in Calls : CallStep(c)) \/ (\E w \in Workers : TaskStep(w))
    BY DEF Next, AnswersAge, vars, storeVars
  <2> QED
    BY <2>1, <2>2, QuietShowsCauses, CallShowsCauses, TaskShowsCauses DEF CausesShown
<1> QED
  BY <1>1, <1>2, TypeCorrect, PTL DEF Spec

\* Retries are used up, where NoOrphan says so, by the attempt after the last
\* permitted one and by nothing else: counts of failures (tasks.py:385-399) or
\* of earlier submissions never pass for it.
THEOREM ExhaustedIsExact ==
    Spec => [](\A k \in Keys : Unsettled(k) /\ Exhausted(k) => doc[k].retries = MaxRetries + 1)
<1>1. CausesShown => \A k \in Keys : Unsettled(k) /\ Exhausted(k) => doc[k].retries = MaxRetries + 1
  BY StoresAssumption DEF CausesShown, Exhausted
<1> QED
  BY <1>1, CausesHold, PTL

\* DESIGN.md:78, "ensures tasks aren't lost", is true while no remote call
\* raises and no process dies.
THEOREM LossNeedsFault ==
    Spec => [](faults = 0 => \A k \in Keys : Unsettled(k) => InHand(k) \/ Exhausted(k))
<1>1. NoOrphan /\ CausesShown =>
        (faults = 0 => \A k \in Keys : Unsettled(k) => InHand(k) \/ Exhausted(k))
  BY DEF NoOrphan, CausesShown
<1> QED
  BY <1>1, Durability, CausesHold, PTL

\* No call is under way, no message waits and no worker has a task.
AtRest ==
    /\ \A c \in Calls : cpc[c] \in {"new", "done"}
    /\ \A m \in Message : queue[m] = 0
    /\ \A w \in Workers : wpc[w] = "idle"

\* The half of EventuallySettled that needs no fairness: when the service has
\* come to rest, every request is settled, used up its retries or was dropped.
THEOREM RestIsSettled ==
    Spec => [](AtRest => \A k \in Keys : Unsettled(k) => Exhausted(k) \/ k \in dropped)
<1>1. TypeOK /\ NoOrphan =>
        (AtRest => \A k \in Keys : Unsettled(k) => Exhausted(k) \/ k \in dropped)
  BY DEF TypeOK, WorkerTypeOK, NoOrphan, InHand, WorksFor, AtRest
<1> QED
  BY <1>1, TypeCorrect, Durability, PTL

-----------------------------------------------------------------------------
(* Settled requests                                                        *)

\* A step of a worker that is not past its claim of a settled request leaves
\* the request settled.
LEMMA TaskKeepsSettled ==
    ASSUME TypeOK, NEW w \in Workers, TaskStep(w),
           NEW k \in Keys, Settled(k), ~Committed(k)
    PROVE  Settled(k)'
<1>job. ASSUME wpc[w] # "idle"
        PROVE  /\ job[w] # NoJob /\ job[w].key \in Keys
               /\ doc[job[w].key] \in Doc
  BY <1>job, NoJobAssumption, DocTypes DEF TypeOK, WorkerTypeOK, Message
<1>same. ASSUME doc'[k] = doc[k]
         PROVE  Settled(k)'
  BY <1>same DEF Settled
<1>write. ASSUME NEW d, Write(job[w].key, d), k # job[w].key
          PROVE  Settled(k)'
  BY <1>write, <1>same DEF Write, TypeOK, StoresTypeOK
<1>past. ASSUME wpc[w] \in {"lookup", "hit", "call", "store", "complete"}
         PROVE  k # job[w].key
  BY <1>past, <1>job DEF Committed
<1>1. CASE Insert(w)
  BY <1>1, <1>same, <1>write DEF Insert, Settled
<1>2. CASE Claim(w)
  BY <1>2, <1>same, <1>write DEF Claim, Claimable, Settled
<1>3. CASE CompleteHit(w)
  BY <1>3, <1>past, <1>write DEF CompleteHit
<1>4. CASE Transient(w)
  BY <1>4, <1>past, <1>write DEF Transient
<1>5. CASE Complete(w)
  BY <1>5, <1>past, <1>write DEF Complete
<1>6. CASE FailWrite(w)
  <2>1. CASE k = job[w].key
    <3>1. doc'[k] = MarkedFailed(doc[k], rc[w])
      BY <1>6, <2>1, <1>job DEF FailWrite, Write, TypeOK, StoresTypeOK
    <3>2. doc'[k].status = "failed"
      BY <1>6, <2>1, <3>1, <1>job DEF FailWrite, MarkedFailed, Doc
    <3> QED
      BY <3>2 DEF Settled
  <2> QED
    BY <1>6, <2>1, <1>write DEF FailWrite
<1>7. CASE ReplyLost(w)
  BY <1>7, <1>past, <1>write DEF ReplyLost
<1>8. CASE UNCHANGED doc
  BY <1>8, <1>same
<1> QED
  BY <1>1, <1>2, <1>3, <1>4, <1>5, <1>6, <1>7, <1>8
  DEF TaskStep, TaskProceeds, TaskFails, Deliver, Find, Check, Recheck, Lookup,
      Generate, Store, Retry, FailRead, Ack, RetryLost, Raise, FailHandlerRaises,
      Crash, Redeliver, storeVars

\* A step of a call that has not looked at a settled document yet leaves it
\* settled.
LEMMA CallKeepsSettled ==
    ASSUME TypeOK, NEW c \in Calls, CallStep(c),
           NEW k \in Keys, Settled(k), ~Committed(k)
    PROVE  Settled(k)'
<1>same. ASSUME doc'[k] = doc[k]
         PROVE  Settled(k)'
  BY <1>same DEF Settled
<1>past. ASSUME cpc[c] \in {"lookup", "persist", "upsert"}
         PROVE  k # req[c].key
  BY <1>past DEF Committed
<1>1. CASE PostPersist(c)
  BY <1>1, <1>past, <1>same DEF PostPersist, Write, TypeOK, StoresTypeOK
<1>2. CASE PostUpsert(c)
  BY <1>2, <1>past, <1>same DEF PostUpsert, Write, TypeOK, StoresTypeOK
<1>3. CASE UNCHANGED doc
  BY <1>3, <1>same
<1> QED
  BY <1>1, <1>2, <1>3
  DEF CallStep, CallProceeds, PostFind, PostLookup, PostEnqueue, GetStatus,
      EnqueueDirectly, CallFails, storeVars

\* Once a request is settled and no task or call is past its look at it, no
\* redelivered, retried or duplicated task opens it again.
THEOREM NoReopening == Spec => SettledStaysSettled
<1>1. TypeOK /\ [Next]_vars
      => [\A k \in Keys : Settled(k) /\ ~Committed(k) => Settled(k)']_vars
  <2> SUFFICES ASSUME TypeOK, Next, NEW k \in Keys, Settled(k), ~Committed(k)
               PROVE  Settled(k)'
    OBVIOUS
  <2> QED
    BY TaskKeepsSettled, CallKeepsSettled DEF Next, AnswersAge, Settled
<1> QED
  BY <1>1, TypeCorrect, PTL DEF Spec, SettledStaysSettled

-----------------------------------------------------------------------------
(* Answers: AnswersInductive, with TypeOK, is inductive.                   *)

\* Stored points are never removed or overwritten, so what answers a request
\* goes on answering it.
LEMMA AnswersPersist ==
    ASSUME \A p \in Stored : points'[p] = points[p], NoText \notin Texts
    PROVE  \A k \in Keys, p \in Points : Answers(k, p) => Answers(k, p)'
  BY DEF Answers, Stored

\* A cache hit for a text submitted under k answers k.
LEMMA HitsAnswer ==
    ASSUME NEW k \in Keys, NEW t \in TextsOf[k], NEW p, LookupReturns(t, p), p # NoPoint
    PROVE  p \in Points /\ Answers(k, p)
  BY DEF LookupReturns, Hits, Answers, Stored

\* The document of k after a write is consistent if its point answers k.
Consistent(k, d) ==
    /\ d.status = "completed" => d.entry # NoPoint
    /\ d.entry # NoPoint => Answers(k, d.entry)

\* What a write does to status and entry.
LEMMA WriteFields ==
    ASSUME NEW d \in Doc, NEW p \in Points, NEW n \in Nat
    PROVE  /\ AbsentDoc.entry = NoPoint /\ AbsentDoc.status # "completed"
           /\ Received.entry = NoPoint /\ Received.status # "completed"
           /\ Enqueued(n).entry = NoPoint /\ Enqueued(n).status # "completed"
           /\ Claimed(d, n).entry = d.entry /\ Claimed(d, n).status # "completed"
           /\ \A s \in {"queued", "processing"} :
                 /\ TransientError(d, s, n).entry = d.entry
                 /\ TransientError(d, s, n).status # "completed"
           /\ MarkedFailed(d, n).entry = d.entry /\ MarkedFailed(d, n).status # "completed"
           /\ CompletedFromCache(d, p).entry = p
           /\ CompletedFromLLM(d, p, n).entry = p
           /\ Persisted(d, p, n).entry = p
  BY DEF AbsentDoc, Received, Enqueued, Claimed, TransientError, MarkedFailed,
         CompletedFromCache, CompletedFromLLM, Persisted, Doc

\* The parts of AnswersInductive, one per owner of the state.
DocsAnswer == \A k \in Keys : Consistent(k, doc[k])

RepliesAnswer == \A c \in Calls : reply[c].entry # NoPoint => Answers(req[c].key, reply[c].entry)

TasksAnswer ==
    \A w \in Workers :
        /\ job[w] # NoJob => job[w].text \in TextsOf[job[w].key]
        /\ wpc[w] \in {"hit", "complete"} => Answers(job[w].key, point[w])

HitsInHandAnswer == \A c \in Calls : cpc[c] = "persist" => Answers(req[c].key, hit[c])

MessagesOwnText == \A m \in Message : queue[m] > 0 => m.text \in TextsOf[m.key]

\* What AnswersInductive says of documents, replies, tasks, calls and messages.
LEMMA AnswersParts ==
    AnswersInductive <=> /\ DocsAnswer /\ RepliesAnswer /\ TasksAnswer
                         /\ HitsInHandAnswer /\ MessagesOwnText
  BY DEF AnswersInductive, AnswersItsPrompt, DocsAnswer, Consistent, RepliesAnswer,
         TasksAnswer, HitsInHandAnswer, MessagesOwnText

\* What Fetch returns for the point of a consistent document answers its key.
LEMMA FetchAnswers ==
    ASSUME NEW k \in Keys, NEW p \in Points \cup {NoPoint}, NEW r, Fetch(p, r),
           p # NoPoint => Answers(k, p)
    PROVE  r \in Points \cup {NoPoint} /\ (r # NoPoint => Answers(k, r))
  BY DEF Fetch

\* Every step of an API call keeps AnswersInductive.
LEMMA CallAnswers ==
    ASSUME TypeOK, AnswersInductive, NEW c \in Calls, CallStep(c), UNCHANGED workerVars
    PROVE  AnswersInductive'
<1> DEFINE k == req[c].key
           d == doc[k]
<1>i. DocsAnswer /\ RepliesAnswer /\ TasksAnswer /\ HitsInHandAnswer /\ MessagesOwnText
  BY AnswersParts
<1>whole. ASSUME DocsAnswer', RepliesAnswer', TasksAnswer', HitsInHandAnswer', MessagesOwnText'
          PROVE  AnswersInductive'
  BY <1>whole DEF AnswersInductive, AnswersItsPrompt, DocsAnswer, Consistent, RepliesAnswer,
                  TasksAnswer, HitsInHandAnswer, MessagesOwnText
<1>k. /\ req[c] \in Request /\ k \in Keys /\ req[c].text \in TextsOf[k]
      /\ seen[c] \in Nat /\ hit[c] \in Points \cup {NoPoint} /\ d \in Doc
      /\ d.entry \in Points \cup {NoPoint} /\ d.retries \in Nat
  BY DocTypes DEF TypeOK, RouterTypeOK, Request
<1>points. points' = points /\ req' = req
  BY DEF CallStep, CallProceeds, PostFind, PostLookup, PostPersist, PostUpsert,
         PostEnqueue, GetStatus, EnqueueDirectly, CallFails, storeVars
<1>stay. \A l, p : Answers(l, p)' <=> Answers(l, p)
  BY <1>points DEF Answers, Stored
<1>tasks. TasksAnswer'
  BY <1>i, <1>stay DEF TasksAnswer, workerVars
<1>docs. ASSUME NEW e, Write(k, e), Consistent(k, e)
         PROVE  DocsAnswer'
  BY <1>docs, <1>i, <1>k, <1>stay DEF DocsAnswer, Consistent, Write, TypeOK, StoresTypeOK
<1>same. ASSUME doc' = doc
         PROVE  DocsAnswer'
  BY <1>same, <1>i, <1>stay DEF DocsAnswer, Consistent
<1>queue. ASSUME queue' = queue
          PROVE  MessagesOwnText'
  BY <1>queue, <1>i DEF MessagesOwnText
<1>publish. ASSUME Publish([key |-> k, text |-> req[c].text, retries |-> 0])
            PROVE  MessagesOwnText'
  <2> DEFINE m == [key |-> k, text |-> req[c].text, retries |-> 0]
  <2>1. \A n \in Message : queue'[n] > 0 => queue[n] > 0 \/ n = m
    BY <1>publish DEF Publish, TypeOK, StoresTypeOK
  <2>2. m.text \in TextsOf[m.key]
    BY <1>k
  <2> HIDE DEF m
  <2> QED
    BY <2>1, <2>2, <1>i DEF MessagesOwnText
<1>respond. ASSUME NEW s, NEW p \in Points \cup {NoPoint}, Respond(c, s, p),
                   p # NoPoint => Answers(k, p)
            PROVE  RepliesAnswer' /\ HitsInHandAnswer'
  <2>1. reply'[c].entry = p /\ cpc'[c] = "done"
    BY <1>respond DEF Respond, Goto, TypeOK, RouterTypeOK
  <2>2. \A b \in Calls \ {c} : reply'[b] = reply[b] /\ cpc'[b] = cpc[b] /\ hit'[b] = hit[b]
    BY <1>respond DEF Respond, Goto, TypeOK, RouterTypeOK
  <2>3. RepliesAnswer'
    BY <2>1, <2>2, <1>respond, <1>i, <1>points, <1>stay DEF RepliesAnswer
  <2>4. HitsInHandAnswer'
    BY <2>1, <2>2, <1>i, <1>points, <1>stay DEF HitsInHandAnswer
  <2> QED
    BY <2>3, <2>4
<1>goto. ASSUME NEW l \in {"lookup", "upsert", "enqueue"}, Goto(c, l), UNCHANGED <<hit, reply>>
         PROVE  RepliesAnswer' /\ HitsInHandAnswer'
  BY <1>goto, <1>i, <1>points, <1>stay
  DEF Goto, RepliesAnswer, HitsInHandAnswer, TypeOK, RouterTypeOK
<1>entry. d.entry # NoPoint => Answers(k, d.entry)
  BY <1>i, <1>k DEF DocsAnswer, Consistent
<1>from. ASSUME RespondFrom(c, d)
         PROVE  RepliesAnswer' /\ HitsInHandAnswer'
  <2>1. PICK r : Fetch(d.entry, r) /\ Respond(c, d.status, r)
    BY <1>from DEF RespondFrom
  <2>2. r \in Points \cup {NoPoint} /\ (r # NoPoint => Answers(k, r))
    BY <2>1, <1>k, <1>entry, FetchAnswers
  <2> QED
    BY <2>1, <2>2, <1>respond
<1>1. CASE PostFind(c)
  <2>1. DocsAnswer' /\ MessagesOwnText'
    BY <1>1, <1>same, <1>queue DEF PostFind
  <2>2. CASE RespondFrom(c, d)
    BY <2>1, <2>2, <1>from, <1>tasks, <1>whole
  <2>3. CASE LookupNext(c, d)
    BY <2>1, <2>3, <1>goto, <1>tasks, <1>whole DEF LookupNext
  <2>4. ASSUME NEW r, Fetch(d.entry, r), Respond(c, "completed", r)
        PROVE  AnswersInductive'
    <3>1. r \in Points \cup {NoPoint} /\ (r # NoPoint => Answers(k, r))
      BY <2>4, <1>k, <1>entry, FetchAnswers
    <3> QED
      BY <2>1, <2>4, <3>1, <1>respond, <1>tasks, <1>whole
  <2> QED
    BY <1>1, <2>2, <2>3, <2>4 DEF PostFind
<1>2. CASE PostLookup(c)
  <2>1. DocsAnswer' /\ MessagesOwnText'
    BY <1>2, <1>same, <1>queue DEF PostLookup, storeVars
  <2>2. PICK p : /\ LookupReturns(req[c].text, p)
                 /\ Goto(c, IF p = NoPoint THEN "upsert" ELSE "persist")
                 /\ hit' = [hit EXCEPT ![c] = p]
    BY <1>2 DEF PostLookup
  <2>3. p # NoPoint => Answers(k, p)
    BY <2>2, <1>k, HitsAnswer
  <2>4. HitsInHandAnswer'
    BY <2>2, <2>3, <1>i, <1>points, <1>stay
    DEF HitsInHandAnswer, Goto, TypeOK, RouterTypeOK
  <2>5. RepliesAnswer'
    BY <1>2, <1>i, <1>points, <1>stay DEF PostLookup, RepliesAnswer
  <2> QED
    BY <2>1, <2>4, <2>5, <1>tasks, <1>whole
<1>3. CASE PostPersist(c)
  <2>1. Answers(k, hit[c]) /\ hit[c] \in Points
    BY <1>3, <1>i DEF PostPersist, HitsInHandAnswer, Answers, Stored
  <2>2. Persisted(d, hit[c], seen[c]).entry = hit[c]
    BY <2>1, <1>k, WriteFields
  <2>3. Consistent(k, Persisted(d, hit[c], seen[c]))
    BY <2>1, <2>2, PromptsAssumption DEF Consistent
  <2>4. DocsAnswer'
    BY <1>3, <2>3, <1>docs DEF PostPersist
  <2>5. RepliesAnswer' /\ HitsInHandAnswer'
    BY <1>3, <2>1, <1>respond DEF PostPersist
  <2> QED
    BY <1>3, <2>4, <2>5, <1>tasks, <1>queue, <1>whole DEF PostPersist
<1>4. CASE PostUpsert(c)
  <2>1. Enqueued(seen[c]).entry = NoPoint /\ Enqueued(seen[c]).status # "completed"
    BY DEF Enqueued, AbsentDoc
  <2>2. DocsAnswer'
    BY <1>4, <2>1, <1>docs DEF PostUpsert, Consistent
  <2> QED
    BY <1>4, <2>2, <1>goto, <1>tasks, <1>queue, <1>whole DEF PostUpsert
<1>5. CASE PostEnqueue(c)
  <2>1. RepliesAnswer' /\ HitsInHandAnswer'
    BY <1>5, <1>respond DEF PostEnqueue
  <2> QED
    BY <1>5, <2>1, <1>same, <1>publish, <1>tasks, <1>whole DEF PostEnqueue
<1>6. CASE GetStatus(c)
  <2>1. DocsAnswer' /\ MessagesOwnText'
    BY <1>6, <1>same, <1>queue DEF GetStatus
  <2>2. RepliesAnswer' /\ HitsInHandAnswer'
    BY <1>6, <1>respond, <1>from DEF GetStatus
  <2> QED
    BY <2>1, <2>2, <1>tasks, <1>whole
<1>7. CASE EnqueueDirectly(c)
  <2>1. RepliesAnswer' /\ HitsInHandAnswer'
    BY <1>7, <1>respond DEF EnqueueDirectly
  <2> QED
    BY <1>7, <2>1, <1>same, <1>publish, <1>tasks, <1>whole DEF EnqueueDirectly
<1>8. CASE CallFails(c)
  <2>1. RepliesAnswer' /\ HitsInHandAnswer'
    BY <1>8, <1>respond DEF CallFails
  <2> QED
    BY <1>8, <2>1, <1>same, <1>queue, <1>tasks, <1>whole DEF CallFails
<1> QED
  BY <1>1, <1>2, <1>3, <1>4, <1>5, <1>6, <1>7, <1>8 DEF CallStep, CallProceeds

\* Every step of a worker keeps AnswersInductive.
LEMMA TaskAnswers ==
    ASSUME TypeOK, AnswersInductive, NEW w \in Workers, TaskStep(w), UNCHANGED routerVars
    PROVE  AnswersInductive'
<1> DEFINE m == job[w]
           k == m.key
           d == doc[k]
<1>i. DocsAnswer /\ RepliesAnswer /\ TasksAnswer /\ HitsInHandAnswer /\ MessagesOwnText
  BY AnswersParts
<1>whole. ASSUME DocsAnswer', RepliesAnswer', TasksAnswer', HitsInHandAnswer', MessagesOwnText'
          PROVE  AnswersInductive'
  BY <1>whole DEF AnswersInductive, AnswersItsPrompt, DocsAnswer, Consistent, RepliesAnswer,
                  TasksAnswer, HitsInHandAnswer, MessagesOwnText
<1>m. ASSUME wpc[w] # "idle"
      PROVE  /\ m \in Message /\ k \in Keys /\ m.text \in TextsOf[k] /\ m.retries \in Nat
             /\ d \in Doc /\ point[w] \in Points \cup {NoPoint} /\ rc[w] \in Nat
             /\ d.entry \in Points \cup {NoPoint}
  <2>1. m \in Message /\ m # NoJob /\ point[w] \in Points \cup {NoPoint} /\ rc[w] \in Nat
    BY <1>m, NoJobAssumption DEF TypeOK, WorkerTypeOK
  <2>2. m.text \in TextsOf[k]
    BY <2>1, <1>i DEF TasksAnswer
  <2> QED
    BY <2>1, <2>2, StoresAssumption, DocTypes DEF TypeOK, Message
\* Points are only ever added.
<1>kept. \A p \in Stored : points'[p] = points[p]
  BY DEF TaskStep, TaskProceeds, TaskFails, Deliver, Find, Insert, Check, Claim, Recheck,
         Lookup, CompleteHit, Generate, Transient, Store, Complete, Retry, FailRead,
         FailWrite, Ack, RetryLost, Raise, ReplyLost, FailHandlerRaises, Crash,
         Redeliver, storeVars, Add, Stored, TypeOK, StoresTypeOK
<1>stay. \A l \in Keys, p \in Points : Answers(l, p) => Answers(l, p)'
  BY <1>kept, PromptsAssumption, AnswersPersist
<1>calls. RepliesAnswer' /\ HitsInHandAnswer'
  <2>1. \A c \in Calls : /\ req[c].key \in Keys
                         /\ reply[c].entry \in Points \cup {NoPoint}
    BY DEF TypeOK, RouterTypeOK, Request, Reply
  <2>2. RepliesAnswer'
    BY <2>1, <1>i, <1>stay DEF RepliesAnswer, routerVars
  <2>3. HitsInHandAnswer'
    BY <2>1, <1>i, <1>stay DEF HitsInHandAnswer, routerVars, Answers, Stored
  <2> QED
    BY <2>2, <2>3
<1>same. ASSUME doc' = doc
         PROVE  DocsAnswer'
  BY <1>same, <1>i, <1>stay, DocTypes DEF DocsAnswer, Consistent, TypeOK
<1>docs. ASSUME NEW e \in Doc, wpc[w] # "idle", Write(k, e), Consistent(k, e)
         PROVE  DocsAnswer'
  <2>1. \A l \in Keys : /\ Consistent(l, doc'[l])
                        /\ doc'[l].entry \in Points \cup {NoPoint}
    BY <1>docs, <1>i, <1>m, DocTypes DEF DocsAnswer, Write, TypeOK, StoresTypeOK, Doc
  <2> QED
    BY <2>1, <1>stay DEF DocsAnswer, Consistent
<1>entry. wpc[w] # "idle" => Consistent(k, d)
  BY <1>i, <1>m DEF DocsAnswer
<1>queue. ASSUME queue' = queue
          PROVE  MessagesOwnText'
  BY <1>queue, <1>i DEF MessagesOwnText
<1>publish. ASSUME NEW n \in Message, Publish(n), n.text \in TextsOf[n.key]
            PROVE  MessagesOwnText'
  BY <1>publish, <1>i DEF MessagesOwnText, Publish, TypeOK, StoresTypeOK
\* w goes on to a step; what it then holds answers.
<1>carry. ASSUME NEW l, NEW p \in Points \cup {NoPoint}, NEW n, Carry(w, l, p, n),
                 l \in {"hit", "complete"} => p \in Points /\ Answers(k, p)',
                 wpc[w] # "idle"
          PROVE  TasksAnswer'
  <2>1. wpc'[w] = l /\ point'[w] = p /\ job' = job
    BY <1>carry DEF Carry, TypeOK, WorkerTypeOK
  <2>2. \A u \in Workers \ {w} : wpc'[u] = wpc[u] /\ point'[u] = point[u]
    BY <1>carry DEF Carry, TypeOK, WorkerTypeOK
  <2>3. ASSUME NEW u \in Workers \ {w}, wpc[u] \in {"hit", "complete"}
        PROVE  Answers(job[u].key, point[u])'
    <3>1. job[u].key \in Keys
      BY <2>3 DEF TypeOK, WorkerTypeOK, Message
    <3>2. Answers(job[u].key, point[u]) /\ point[u] \in Points
      BY <2>3, <1>i DEF TasksAnswer, Answers, Stored
    <3> QED
      BY <2>1, <2>2, <3>1, <3>2, <1>stay
  <2>4. l \in {"hit", "complete"} => Answers(job[w].key, point[w])'
    BY <2>1, <1>carry
  <2> QED
    BY <2>1, <2>2, <2>3, <2>4, <1>i DEF TasksAnswer
<1>go. ASSUME NEW l, GoOn(w, l), l \notin {"hit", "complete"}, wpc[w] # "idle"
       PROVE  TasksAnswer'
  BY <1>go, <1>carry DEF GoOn
<1>others. ASSUME \A u \in Workers \ {w} : wpc'[u] = wpc[u] /\ point'[u] = point[u]
                                           /\ job'[u] = job[u],
                  wpc'[w] \notin {"hit", "complete"},
                  job'[w] # NoJob => job'[w].text \in TextsOf[job'[w].key]
           PROVE  TasksAnswer'
  <2>1. ASSUME NEW u \in Workers \ {w}, wpc[u] \in {"hit", "complete"}
        PROVE  Answers(job[u].key, point[u])'
    <3>1. job[u].key \in Keys
      BY <2>1 DEF TypeOK, WorkerTypeOK, Message
    <3>2. Answers(job[u].key, point[u]) /\ point[u] \in Points
      BY <2>1, <1>i DEF TasksAnswer, Answers, Stored
    <3> QED
      BY <1>others, <3>1, <3>2, <1>stay
  <2> QED
    BY <2>1, <1>others, <1>i DEF TasksAnswer
<1>1. ASSUME NEW n \in Message, Deliver(w, n)
      PROVE  AnswersInductive'
  <2>1. n.text \in TextsOf[n.key]
    BY <1>1, <1>i DEF Deliver, MessagesOwnText
  <2>2. TasksAnswer'
    BY <1>1, <2>1, <1>others DEF Deliver, TypeOK, WorkerTypeOK
  <2>3. MessagesOwnText'
    BY <1>1, <1>i DEF Deliver, MessagesOwnText, TypeOK, StoresTypeOK
  <2> QED
    BY <1>1, <2>2, <2>3, <1>calls, <1>same, <1>whole DEF Deliver
<1>2. CASE Find(w)
  <2>1. TasksAnswer'
    BY <1>2, <1>m, <1>go, <1>carry DEF Find
  <2> QED
    BY <1>2, <2>1, <1>calls, <1>same, <1>queue, <1>whole DEF Find, storeVars
<1>3. CASE Insert(w)
  <2>1. Received \in Doc /\ Consistent(k, Received)
    BY <1>3, <1>m, WritesAreDocs DEF Insert, Consistent, Received, AbsentDoc
  <2>2. DocsAnswer'
    BY <1>3, <2>1, <1>docs, <1>same DEF Insert
  <2>3. TasksAnswer'
    BY <1>3, <1>go DEF Insert
  <2> QED
    BY <1>3, <2>2, <2>3, <1>calls, <1>queue, <1>whole DEF Insert
<1>4. CASE Check(w)
  <2>1. TasksAnswer'
    BY <1>4, <1>go DEF Check
  <2> QED
    BY <1>4, <2>1, <1>calls, <1>same, <1>queue, <1>whole DEF Check
<1>5. CASE Claim(w)
  <2>1. Claimed(d, m.retries) \in Doc /\ Claimed(d, m.retries).entry = d.entry
        /\ Claimed(d, m.retries).status # "completed"
    BY <1>5, <1>m, WritesAreDocs DEF Claim, Claimed, Doc
  <2>2. Consistent(k, Claimed(d, m.retries))
    BY <1>5, <2>1, <1>entry DEF Claim, Consistent
  <2>3. DocsAnswer'
    BY <1>5, <2>1, <2>2, <1>docs, <1>same DEF Claim
  <2>4. TasksAnswer'
    BY <1>5, <1>go DEF Claim
  <2> QED
    BY <1>5, <2>3, <2>4, <1>calls, <1>queue, <1>whole DEF Claim
<1>6. CASE Recheck(w)
  <2>1. TasksAnswer'
    BY <1>6, <1>go DEF Recheck
  <2> QED
    BY <1>6, <2>1, <1>calls, <1>same, <1>queue, <1>whole DEF Recheck
<1>7. CASE Lookup(w)
  <2>1. PICK p \in Points \cup {NoPoint} :
          LookupReturns(m.text, p) /\ Carry(w, IF p = NoPoint THEN "call" ELSE "hit", p, 0)
    BY <1>7 DEF Lookup
  <2>2. p # NoPoint => p \in Points /\ Answers(k, p)
    BY <1>7, <1>m, <2>1, HitsAnswer DEF Lookup
  <2>3. TasksAnswer'
    <3>1. CASE p = NoPoint
      <4>1. Carry(w, "call", p, 0)
        BY <2>1, <3>1
      <4> QED
        BY <1>7, <4>1, <1>carry DEF Lookup
    <3>2. CASE p # NoPoint
      <4>1. Carry(w, "hit", p, 0) /\ p \in Points
        BY <2>1, <2>2, <3>2
      <4>2. Answers(k, p)'
        BY <1>7, <2>2, <3>2 DEF Lookup, storeVars, Carry, Answers, Stored
      <4> QED
        BY <1>7, <4>1, <4>2, <1>carry DEF Lookup
    <3> QED
      BY <3>1, <3>2
  <2> QED
    BY <1>7, <2>3, <1>calls, <1>same, <1>queue, <1>whole DEF Lookup, storeVars
\* The worker writes its point into the document.
<1>complete. ASSUME wpc[w] \in {"hit", "complete"}, NEW e \in Doc, Write(k, e),
                    e.entry = point[w], GoOn(w, "ack"), queue' = queue
             PROVE  AnswersInductive'
  <2>1. Answers(k, point[w]) /\ point[w] # NoPoint
    BY <1>complete, <1>i, PromptsAssumption DEF TasksAnswer, Answers, Stored
  <2>2. DocsAnswer'
    BY <1>complete, <2>1, <1>docs DEF Consistent
  <2>3. TasksAnswer'
    BY <1>complete, <1>go
  <2> QED
    BY <1>complete, <2>2, <2>3, <1>calls, <1>queue, <1>whole
<1>8. CASE CompleteHit(w)
  <2>1. CompletedFromCache(d, point[w]) \in Doc
        /\ CompletedFromCache(d, point[w]).entry = point[w]
    BY <1>8, <1>m, WritesAreDocs DEF CompleteHit, CompletedFromCache, Doc
  <2> QED
    BY <1>8, <2>1, <1>complete DEF CompleteHit
<1>9. CASE Generate(w)
  BY <1>9, <1>go, <1>calls, <1>same, <1>queue, <1>whole DEF Generate, storeVars
<1>10. CASE Transient(w)
  <2>1. PICK s \in {"queued", "processing"} : Write(k, TransientError(d, s, m.retries))
    BY <1>10 DEF Transient
  <2>2. TransientError(d, s, m.retries) \in Doc
    BY <1>10, <1>m, WritesAreDocs DEF Transient
  <2>3. Consistent(k, TransientError(d, s, m.retries))
    BY <1>10, <1>m, <1>entry DEF Transient, Consistent, TransientError, Doc
  <2> QED
    BY <1>10, <2>1, <2>2, <2>3, <1>docs, <1>go, <1>calls, <1>queue, <1>whole DEF Transient
<1>11. CASE Store(w)
  <2>1. PICK p \in Points : Add(p, m.text) /\ Carry(w, "complete", p, 0)
    BY <1>11 DEF Store
  <2>2. points'[p] = m.text
    BY <2>1 DEF Add, TypeOK, StoresTypeOK
  <2>3. m.text \in Texts /\ m.text \in TextsOf[k]
    BY <1>11, <1>m DEF Store, Message
  <2>4. p \in Stored'
    BY <2>2, <2>3, PromptsAssumption DEF Stored
  <2>5. <<m.text, m.text>> \in Similar
    BY <2>3, PromptsAssumption
  <2>6. Answers(k, p)'
    BY <2>2, <2>3, <2>4, <2>5, <2>1 DEF Answers, Carry
  <2>7. TasksAnswer'
    BY <1>11, <2>1, <2>6, <1>carry DEF Store
  <2> QED
    BY <1>11, <2>7, <1>calls, <1>same, <1>queue, <1>whole DEF Store
<1>12. CASE Complete(w)
  <2>1. CompletedFromLLM(d, point[w], m.retries) \in Doc
        /\ CompletedFromLLM(d, point[w], m.retries).entry = point[w]
    BY <1>12, <1>m, WritesAreDocs DEF Complete, CompletedFromLLM, Doc
  <2> QED
    BY <1>12, <2>1, <1>complete DEF Complete
<1>13. CASE Retry(w)
  <2>1. TasksAnswer' /\ DocsAnswer'
    BY <1>13, <1>go, <1>same DEF Retry
  <2>2. CASE m.retries < MaxRetries
    <3>1. [m EXCEPT !.retries = @ + 1] \in Message
      BY <1>13, <2>2, <1>m, StoresAssumption DEF Retry, Message
    <3>2. PICK n \in Message : Publish(n) /\ n.text \in TextsOf[n.key]
      BY <1>13, <2>2, <3>1, <1>m DEF Retry, Message
    <3> QED
      BY <2>1, <3>2, <1>publish, <1>calls, <1>whole
  <2>3. CASE ~(m.retries < MaxRetries)
    BY <1>13, <2>1, <2>3, <1>queue, <1>calls, <1>whole DEF Retry
  <2> QED
    BY <2>2, <2>3
<1>14. CASE FailRead(w)
  BY <1>14, <1>carry, <1>calls, <1>same, <1>queue, <1>whole DEF FailRead, storeVars
<1>15. CASE FailWrite(w)
  <2>1. MarkedFailed(d, rc[w]) \in Doc
    BY <1>15, <1>m, WritesAreDocs DEF FailWrite
  <2>2. Consistent(k, MarkedFailed(d, rc[w]))
    BY <1>15, <1>m, <1>entry DEF FailWrite, Consistent, MarkedFailed, Doc
  <2> QED
    BY <1>15, <2>1, <2>2, <1>docs, <1>go, <1>calls, <1>queue, <1>whole DEF FailWrite
<1>release. ASSUME Release(w)
            PROVE  TasksAnswer'
  BY <1>release, <1>others DEF Release, TypeOK, WorkerTypeOK
<1>16. CASE Ack(w)
  BY <1>16, <1>release, <1>calls, <1>same, <1>queue, <1>whole DEF Ack, storeVars
<1>17. CASE RetryLost(w)
  BY <1>17, <1>go, <1>calls, <1>same, <1>queue, <1>whole DEF RetryLost
<1>18. CASE Raise(w)
  <2>1. wpc[w] # "idle"
    BY <1>18 DEF Raise, TryBlock
  <2> QED
    BY <1>18, <2>1, <1>go, <1>calls, <1>same, <1>queue, <1>whole DEF Raise
<1>19. CASE FailHandlerRaises(w)
  BY <1>19, <1>go, <1>calls, <1>same, <1>queue, <1>whole DEF FailHandlerRaises
<1>20. CASE Crash(w)
  <2>1. MessagesOwnText'
    BY <1>20, <1>m, <1>publish DEF Crash
  <2> QED
    BY <1>20, <2>1, <1>release, <1>calls, <1>same, <1>whole DEF Crash
<1>21. CASE ReplyLost(w)
  <2>1. wpc[w] \in {"hit", "complete"} => point[w] # NoPoint /\ Answers(k, point[w])
    BY <1>i, PromptsAssumption DEF TasksAnswer, Answers, Stored
  <2>2. PICK e \in Doc : Write(k, e) /\ Consistent(k, e)
    <3>1. CASE wpc[w] = "hit"
      <4>1. CompletedFromCache(d, point[w]) \in Doc
            /\ CompletedFromCache(d, point[w]).entry = point[w]
        BY <3>1, <1>m, WritesAreDocs DEF CompletedFromCache, Doc
      <4> QED
        BY <1>21, <2>1, <3>1, <4>1 DEF ReplyLost, Consistent
    <3>2. CASE wpc[w] = "complete"
      <4>1. CompletedFromLLM(d, point[w], m.retries) \in Doc
            /\ CompletedFromLLM(d, point[w], m.retries).entry = point[w]
        BY <3>2, <1>m, WritesAreDocs DEF CompletedFromLLM, Doc
      <4> QED
        BY <1>21, <2>1, <3>2, <4>1 DEF ReplyLost, Consistent
    <3>3. CASE wpc[w] = "call"
      <4>1. PICK s \in {"queued", "processing"} : Write(k, TransientError(d, s, m.retries))
        BY <1>21, <3>3 DEF ReplyLost
      <4>2. TransientError(d, s, m.retries) \in Doc
        BY <3>3, <1>m, WritesAreDocs
      <4>3. Consistent(k, TransientError(d, s, m.retries))
        BY <3>3, <1>m, <1>entry DEF Consistent, TransientError, Doc
      <4> QED
        BY <4>1, <4>2, <4>3
    <3> QED
      BY <1>21, <3>1, <3>2, <3>3 DEF ReplyLost
  <2>3. DocsAnswer'
    BY <1>21, <2>2, <1>docs DEF ReplyLost
  <2>4. TasksAnswer'
    BY <1>21, <1>go DEF ReplyLost
  <2> QED
    BY <1>21, <2>3, <2>4, <1>calls, <1>queue, <1>whole DEF ReplyLost
<1>22. CASE Redeliver(w)
  <2>1. MessagesOwnText'
    BY <1>22, <1>m, <1>publish DEF Redeliver
  <2>2. TasksAnswer'
    BY <1>22, <1>i DEF Redeliver, TasksAnswer, workerVars, Answers, Stored
  <2> QED
    BY <1>22, <2>1, <2>2, <1>calls, <1>same, <1>whole DEF Redeliver
<1> QED
  BY <1>1, <1>2, <1>3, <1>4, <1>5, <1>6, <1>7, <1>8, <1>9, <1>10, <1>11, <1>12,
     <1>13, <1>14, <1>15, <1>16, <1>17, <1>18, <1>19, <1>20, <1>21, <1>22
  DEF TaskStep, TaskProceeds, TaskFails

\* Every step of the service keeps AnswersInductive.
LEMMA StepAnswers ==
    ASSUME TypeOK, AnswersInductive, [Next]_vars
    PROVE  AnswersInductive'
<1>1. ASSUME NEW c \in Calls, CallStep(c), UNCHANGED workerVars
      PROVE  AnswersInductive'
  BY <1>1, CallAnswers
<1>2. ASSUME NEW w \in Workers, TaskStep(w), UNCHANGED routerVars
      PROVE  AnswersInductive'
  BY <1>2, TaskAnswers
<1>3. ASSUME UNCHANGED <<doc, queue, points, routerVars, workerVars>>
      PROVE  AnswersInductive'
  BY <1>3 DEF AnswersInductive, AnswersItsPrompt, Answers, Stored, routerVars, workerVars
<1> QED
  BY <1>1, <1>2, <1>3 DEF Next, AnswersAge, GrowStale, vars, storeVars

\* Whatever answer a document names or a client is sent is stored, and was
\* given to a prompt above the similarity threshold of one submitted under
\* that key: for every similarity relation, and through crashes, retries and
\* races between calls and tasks.
THEOREM AnswersCorrect == Spec => []AnswersItsPrompt
<1>1. Init => AnswersInductive
  BY NoJobAssumption
  DEF Init, StoresInit, RouterInit, WorkerInit, AnswersInductive, AnswersItsPrompt,
      AbsentDoc, NoReply
<1>2. AnswersInductive /\ TypeOK /\ [Next]_vars => AnswersInductive'
  BY StepAnswers
<1>3. AnswersInductive => AnswersItsPrompt
  BY DEF AnswersInductive
<1> QED
  BY <1>1, <1>2, <1>3, TypeCorrect, PTL DEF Spec
=============================================================================
