--------------------------- MODULE PromptService ----------------------------
(***************************************************************************)
(* The whole service: API calls and Celery workers interleaving over the   *)
(* documents, the broker and the semantic cache, and the properties that   *)
(* make it correct.                                                        *)
(***************************************************************************)
EXTENDS ProcessRouter, ProcessTask, FiniteSets

ASSUME FiniteAssumption == IsFiniteSet(Points) /\ IsFiniteSet(Workers)

vars == <<routerVars, workerVars, storeVars>>

Init == StoresInit /\ RouterInit /\ WorkerInit

Next ==
    \/ \E c \in Calls : CallStep(c) /\ UNCHANGED workerVars
    \/ \E w \in Workers : TaskStep(w) /\ UNCHANGED routerVars
    \/ AnswersAge /\ UNCHANGED <<routerVars, workerVars>>

\* A thread that serves a call goes on serving it, and a worker process that
\* is not killed goes on working (Celery replaces the ones that are).
\* Clients need not call, and nothing has to fail.
Fairness ==
    /\ \A c \in Calls : WF_vars(CallProceeds(c) /\ UNCHANGED workerVars)
    /\ \A w \in Workers : WF_vars(TaskProceeds(w) /\ UNCHANGED routerVars)

Spec == Init /\ [][Next]_vars

FairSpec == Spec /\ Fairness

-----------------------------------------------------------------------------
TypeOK == StoresTypeOK /\ RouterTypeOK /\ WorkerTypeOK

Unsettled(k) == doc[k].status \in {"received", "queued", "processing"}

Settled(k) == doc[k].status \in {"completed", "failed"}

\* The steps at which a worker has yet to bring an unsettled request further.
\* At "check" and "recheck" it saw a settled one; at "ack" it is done.
Obliged == (TryBlock \ {"recheck"}) \cup {"failRead", "failWrite"}

WorksFor(w, k) ==
    /\ job[w] # NoJob
    /\ job[w].key = k
    /\ \/ wpc[w] \in Obliged
       \/ wpc[w] = "retry" /\ job[w].retries < MaxRetries

\* Somebody still has to act on request k.
InHand(k) ==
    \/ \E c \in Calls : cpc[c] = "enqueue" /\ req[c].key = k
    \/ \E m \in Message : m.key = k /\ queue[m] > 0
    \/ \E w \in Workers : WorksFor(w, k)

\* The last permitted attempt at request k met a provider error.
Exhausted(k) == doc[k].retries > MaxRetries /\ doc[k].error

\* An unsettled request is in somebody's hands - about to be published,
\* waiting in the broker, held by a worker that has yet to act on it - or its
\* retries are used up, or a publication or a failure handler raised.  Worker
\* crashes, redeliveries and concurrent tasks for the request never lose it.
NoOrphan == \A k \in Keys : Unsettled(k) => InHand(k) \/ Exhausted(k) \/ k \in dropped

\* An answer shown with a document or sent to a client is a stored response
\* to a prompt close enough to one submitted under that key: no document says
\* "completed" before its answer is stored and no cache hit crosses prompts.
Answers(k, p) == p \in Stored /\ \E t \in TextsOf[k] : <<points[p], t>> \in Similar

AnswersItsPrompt ==
    /\ \A k \in Keys :
          /\ doc[k].status = "completed" => doc[k].entry # NoPoint
          /\ doc[k].entry # NoPoint => Answers(k, doc[k].entry)
    /\ \A c \in Calls : reply[c].entry # NoPoint => Answers(req[c].key, reply[c].entry)

\* AnswersItsPrompt made inductive: what a worker or a call is about to write
\* answers too, and tasks carry a text submitted under their key.
AnswersInductive ==
    /\ AnswersItsPrompt
    /\ \A w \in Workers :
          /\ job[w] # NoJob => job[w].text \in TextsOf[job[w].key]
          /\ wpc[w] \in {"hit", "complete"} => Answers(job[w].key, point[w])
    /\ \A c \in Calls : cpc[c] = "persist" => Answers(req[c].key, hit[c])
    /\ \A m \in Message : queue[m] > 0 => m.text \in TextsOf[m.key]

\* The worker looks into the cache again "to avoid duplicate LLM calls" and
\* then calls the LLM: the check and the call are not atomic, but once a text
\* has a stored answer the race can add at most one per worker, in total, no
\* matter how many calls, crashes and redeliveries follow - as long as no
\* answer the lookup may prefer is older than the lookback window.
AnswersTo(t) == {p \in Points : points[p] = t}

Generating(t) ==
    {w \in Workers : wpc[w] \in {"call", "store"} /\ job[w].text = t}

DuplicatesBounded ==
    \A t \in Texts : AnswersTo(t) # {} /\ Hits(t) \cap stale = {} =>
        Cardinality(AnswersTo(t)) + Cardinality(Generating(t)) <= Cardinality(Workers)

\* A task past its claim of request k, or a call past its look at document k,
\* which may write what it decided then.
Committed(k) ==
    \/ \E w \in Workers :
          /\ job[w] # NoJob /\ job[w].key = k
          /\ wpc[w] \in {"lookup", "hit", "call", "store", "complete"}
    \/ \E c \in Calls : req[c].key = k /\ cpc[c] \in {"lookup", "persist", "upsert"}

\* Once a request is settled and nobody is committed to it, redelivered,
\* retried or duplicated tasks for it cannot open it again.
SettledStaysSettled ==
    [][\A k \in Keys : Settled(k) /\ ~Committed(k) => Settled(k)']_vars

\* Every request that is accepted is completed or failed in the end, unless
\* its retries are used up or its task was dropped.
EventuallySettled ==
    \A k \in Keys : Unsettled(k) ~> (Settled(k) \/ Exhausted(k) \/ k \in dropped)
=============================================================================
