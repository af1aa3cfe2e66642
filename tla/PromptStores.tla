---------------------------- MODULE PromptStores ----------------------------
(***************************************************************************)
(* What the API processes and the Celery workers share: the MongoDB        *)
(* documents, the broker's messages and the Qdrant points, with the        *)
(* operations both sides use.                                              *)
(***************************************************************************)
EXTENDS PromptRequests, AnswerCache

CONSTANTS Keys,        \* the (user_id, prompt_id) pairs
          TextsOf,     \* TextsOf[k]: the texts clients submit under key k
          MaxRetries,  \* max_retries of the task
          MaxFaults    \* bound: crashes and failed remote calls per behaviour

ASSUME StoresAssumption ==
    /\ TextsOf \in [Keys -> SUBSET Texts]
    /\ MaxRetries \in Nat
    /\ MaxFaults \in Nat

VARIABLES doc,      \* doc[k]: the document of key k
          queue,    \* queue[m]: how many copies of message m wait for delivery
          faults,   \* how many faults have happened
          dropped   \* keys whose task was given up without a document update
                    \* (a history variable: no action reads it)

cacheVars == <<points, stale>>

storeVars == <<doc, queue, cacheVars, faults, dropped>>

\* A task message: the payload and the retry counter of the Celery request.
Message == [key : Keys, text : Texts, retries : 0..MaxRetries]

StoresTypeOK ==
    /\ doc \in [Keys -> Doc]
    /\ queue \in [Message -> Nat]
    /\ CacheTypeOK
    /\ faults \in 0..MaxFaults
    /\ dropped \in SUBSET Keys

StoresInit ==
    /\ doc = [k \in Keys |-> AbsentDoc]
    /\ queue = [m \in Message |-> 0]
    /\ CacheInit
    /\ faults = 0
    /\ dropped = {}

\* Something goes wrong: a process dies or a remote call raises.
Fault == faults < MaxFaults /\ faults' = faults + 1

\* apply_async.  The broker keeps three priority queues and holds retries
\* back for their countdown, so a worker may receive any waiting message.
Publish(m) == queue' = [queue EXCEPT ![m] = @ + 1]

Write(k, d) == doc' = [doc EXCEPT ![k] = d]

Drop(k) == dropped' = dropped \cup {k}

\* retrieve by id of p returns r: the point, nothing when p is not stored, or
\* an exception, which every caller treats as nothing.
Fetch(p, r) ==
    \/ r = (IF p \in Stored THEN p ELSE NoPoint) /\ UNCHANGED faults
    \/ p # NoPoint /\ r = NoPoint /\ Fault

\* Stored answers get older than the lookback window.
AnswersAge == GrowStale /\ UNCHANGED <<doc, queue, faults, dropped>>
=============================================================================
