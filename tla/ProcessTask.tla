---------------------------- MODULE ProcessTask -----------------------------
(***************************************************************************)
(* The Celery task prompt.process (src/worker/tasks.py) as run by a set of *)
(* worker processes, one message at a time, one action per access to       *)
(* MongoDB, Qdrant, the LLM or the broker; only the read of an answer by   *)
(* id and record_hit, which nobody sees, go with the access before them.   *)
(*                                                                         *)
(* With task_acks_late and task_reject_on_worker_lost (src/worker/app.py)  *)
(* a worker holds its message unacknowledged until the task has returned   *)
(* or raised; when the process dies first the message is delivered again.  *)
(***************************************************************************)
EXTENDS PromptStores

CONSTANTS Workers,  \* worker processes
          NoJob     \* the message of a worker that holds none

ASSUME NoJobAssumption == NoJob \notin Message

VARIABLES wpc,    \* wpc[w]: the next step of the task worker w runs
          job,    \* job[w]: the message w has not acknowledged
          point,  \* point[w]: the point id w read or stored
          rc      \* rc[w]: retry_count as _mark_failed read it

workerVars == <<wpc, job, point, rc>>

\* The steps inside the task's try block: an exception there fails the request.
TryBlock == {"find", "insert", "claim", "recheck", "lookup", "hit", "call",
             "store", "complete"}

WorkerSteps == TryBlock \cup {"idle", "check", "retry", "failRead", "failWrite", "ack"}

WorkerTypeOK ==
    /\ wpc \in [Workers -> WorkerSteps]
    /\ job \in [Workers -> Message \cup {NoJob}]
    /\ point \in [Workers -> Points \cup {NoPoint}]
    /\ rc \in [Workers -> Nat]
    /\ \A w \in Workers : wpc[w] = "idle" <=> job[w] = NoJob

WorkerInit ==
    /\ wpc = [w \in Workers |-> "idle"]
    /\ job = [w \in Workers |-> NoJob]
    /\ point = [w \in Workers |-> NoPoint]
    /\ rc = [w \in Workers |-> 0]

\* Worker w goes on to a step of the task, carrying point p and count n.
Carry(w, label, p, n) ==
    /\ wpc' = [wpc EXCEPT ![w] = label]
    /\ point' = [point EXCEPT ![w] = p]
    /\ rc' = [rc EXCEPT ![w] = n]
    /\ UNCHANGED job

GoOn(w, label) == Carry(w, label, NoPoint, 0)

\* Mutant of Release: the worker keeps the message it gave up.
ReleaseKeepsJob(w) ==
    /\ wpc' = [wpc EXCEPT ![w] = "idle"]
    /\ UNCHANGED job
    /\ point' = [point EXCEPT ![w] = NoPoint]
    /\ rc' = [rc EXCEPT ![w] = 0]

\* The worker is left without a message.
Release(w) ==
    /\ wpc' = [wpc EXCEPT ![w] = "idle"]
    /\ job' = [job EXCEPT ![w] = NoJob]
    /\ point' = [point EXCEPT ![w] = NoPoint]
    /\ rc' = [rc EXCEPT ![w] = 0]

\* Mutant of Deliver: the message stays in its queue until it is acknowledged.
DeliverKeepsCopy(w, m) ==
    /\ wpc[w] = "idle"
    /\ queue[m] > 0
    /\ wpc' = [wpc EXCEPT ![w] = "find"]
    /\ job' = [job EXCEPT ![w] = m]
    /\ UNCHANGED <<point, rc, storeVars>>

Deliver(w, m) ==
    /\ wpc[w] = "idle"
    /\ queue[m] > 0
    /\ queue' = [queue EXCEPT ![m] = @ - 1]
    /\ wpc' = [wpc EXCEPT ![w] = "find"]
    /\ job' = [job EXCEPT ![w] = m]
    /\ UNCHANGED <<point, rc, doc, cacheVars, faults, dropped>>

\* find_one, and the write of prompt_text and priority to a found document.
Find(w) ==
    LET d == doc[job[w].key]
    IN  /\ wpc[w] = "find"
        /\ IF d.status = "absent" THEN GoOn(w, "insert")
           ELSE IF d.status = "completed" /\ d.entry # NoPoint
                THEN Carry(w, "check", d.entry, 0)
                ELSE GoOn(w, "claim")
        /\ UNCHANGED storeVars

\* insert_one.  On DuplicateKeyError the document is fetched again; documents
\* are never deleted, so the second find_one does not return None.
Insert(w) ==
    LET k == job[w].key
    IN  /\ wpc[w] = "insert"
        /\ \/ /\ doc[k].status = "absent"
              /\ Write(k, Received)
              /\ GoOn(w, "claim")
           \/ doc[k].status # "absent" /\ GoOn(w, "find") /\ UNCHANGED doc
        /\ UNCHANGED <<queue, cacheVars, faults, dropped>>

\* The request was completed already: its answer is the result, unless it
\* cannot be read.
Check(w) ==
    /\ wpc[w] = "check"
    /\ \E r \in {point[w], NoPoint} :
          /\ Fetch(point[w], r)
          /\ GoOn(w, IF r = NoPoint THEN "claim" ELSE "ack")
    /\ UNCHANGED <<doc, queue, cacheVars, dropped>>

\* find_one_and_update to "processing".
Claim(w) ==
    LET k == job[w].key
    IN  /\ wpc[w] = "claim"
        /\ \/ /\ doc[k].status \in Claimable
              /\ Write(k, Claimed(doc[k], job[w].retries))
              /\ GoOn(w, "lookup")
           \/ doc[k].status \notin Claimable /\ GoOn(w, "recheck") /\ UNCHANGED doc
        /\ UNCHANGED <<queue, cacheVars, faults, dropped>>

\* The claim matched nothing: return the completed result or raise
\* RuntimeError, which the task's own handler catches.
Recheck(w) ==
    LET d == doc[job[w].key]
        p == IF d.status = "completed" THEN d.entry ELSE NoPoint
    IN  /\ wpc[w] = "recheck"
        /\ \E r \in {p, NoPoint} :
              /\ Fetch(p, r)
              /\ GoOn(w, IF r = NoPoint THEN "failRead" ELSE "ack")
        /\ UNCHANGED <<doc, queue, cacheVars, dropped>>

\* Mutant of Lookup: the worker does not look before it calls the LLM.
LookupSkipped(w) ==
    /\ wpc[w] = "lookup"
    /\ GoOn(w, "call")
    /\ UNCHANGED storeVars

\* Embed the text and search the semantic cache.
Lookup(w) ==
    /\ wpc[w] = "lookup"
    /\ \E r \in Points \cup {NoPoint} :
          /\ LookupReturns(job[w].text, r)
          /\ Carry(w, IF r = NoPoint THEN "call" ELSE "hit", r, 0)
    /\ UNCHANGED storeVars

CompleteHit(w) ==
    LET k == job[w].key
    IN  /\ wpc[w] = "hit"
        /\ Write(k, CompletedFromCache(doc[k], point[w]))
        /\ GoOn(w, "ack")
        /\ UNCHANGED <<queue, cacheVars, faults, dropped>>

\* MockLLM.complete answers.
Generate(w) ==
    /\ wpc[w] = "call"
    /\ GoOn(w, "store")
    /\ UNCHANGED storeVars

\* MockLLM.complete raises RateLimitExceeded or ProviderError; the document
\* is written whatever its status has become.
Transient(w) ==
    LET k == job[w].key
    IN  /\ wpc[w] = "call"
        /\ \E s \in {"queued", "processing"} :
              Write(k, TransientError(doc[k], s, job[w].retries))
        /\ GoOn(w, "retry")
        /\ UNCHANGED <<queue, cacheVars, faults, dropped>>

\* The answer is stored under a fresh uuid4.
Store(w) ==
    /\ wpc[w] = "store"
    /\ \E p \in Points : Add(p, job[w].text) /\ Carry(w, "complete", p, 0)
    /\ UNCHANGED <<doc, queue, faults, dropped>>

Complete(w) ==
    LET k == job[w].key
    IN  /\ wpc[w] = "complete"
        /\ Write(k, CompletedFromLLM(doc[k], point[w], job[w].retries))
        /\ GoOn(w, "ack")
        /\ UNCHANGED <<queue, cacheVars, faults, dropped>>

\* Mutant of Retry: the worker publishes the retry and tries again itself.
RetryInPlaceToo(w) ==
    /\ wpc[w] = "retry"
    /\ IF job[w].retries < MaxRetries
       THEN Publish([job[w] EXCEPT !.retries = @ + 1]) /\ GoOn(w, "call")
       ELSE UNCHANGED queue /\ GoOn(w, "ack")
    /\ UNCHANGED <<doc, cacheVars, faults, dropped>>

\* self.retry publishes the task again, or raises the provider's exception
\* once max_retries is reached; nothing writes the document after that.
Retry(w) ==
    /\ wpc[w] = "retry"
    /\ IF job[w].retries < MaxRetries
       THEN Publish([job[w] EXCEPT !.retries = @ + 1])
       ELSE UNCHANGED queue
    /\ GoOn(w, "ack")
    /\ UNCHANGED <<doc, cacheVars, faults, dropped>>

\* The publication of the retry raises: Celery rejects the message without
\* requeueing it.
RetryLost(w) ==
    /\ wpc[w] = "retry"
    /\ job[w].retries < MaxRetries
    /\ Fault
    /\ Drop(job[w].key)
    /\ GoOn(w, "ack")
    /\ UNCHANGED <<doc, queue, cacheVars>>

\* MongoDB, Qdrant or the rate limiter's Redis raises inside the try block.
Raise(w) ==
    /\ wpc[w] \in TryBlock
    /\ Fault
    /\ GoOn(w, "failRead")
    /\ UNCHANGED <<doc, queue, cacheVars, dropped>>

\* The last update of the task takes effect and raises all the same, its reply
\* being lost.  At the other steps of the try block this is Raise a step later.
ReplyLost(w) ==
    LET k == job[w].key
    IN  /\ \/ /\ wpc[w] = "hit"
              /\ Write(k, CompletedFromCache(doc[k], point[w]))
           \/ /\ wpc[w] = "complete"
              /\ Write(k, CompletedFromLLM(doc[k], point[w], job[w].retries))
           \/ /\ wpc[w] = "call"
              /\ \E s \in {"queued", "processing"} :
                    Write(k, TransientError(doc[k], s, job[w].retries))
        /\ Fault
        /\ GoOn(w, "failRead")
        /\ UNCHANGED <<queue, cacheVars, dropped>>

\* _mark_failed reads the document ...
FailRead(w) ==
    /\ wpc[w] = "failRead"
    /\ Carry(w, "failWrite", NoPoint, doc[job[w].key].retries)
    /\ UNCHANGED storeVars

\* ... and writes it (upsert), whatever it has become; the task then raises
\* and its message is acknowledged.
FailWrite(w) ==
    LET k == job[w].key
    IN  /\ wpc[w] = "failWrite"
        /\ Write(k, MarkedFailed(doc[k], rc[w]))
        /\ GoOn(w, "ack")
        /\ UNCHANGED <<queue, cacheVars, faults, dropped>>

\* MongoDB raises in _mark_failed: the message is acknowledged all the same.
FailHandlerRaises(w) ==
    /\ wpc[w] \in {"failRead", "failWrite"}
    /\ Fault
    /\ Drop(job[w].key)
    /\ GoOn(w, "ack")
    /\ UNCHANGED <<doc, queue, cacheVars>>

Ack(w) ==
    /\ wpc[w] = "ack"
    /\ Release(w)
    /\ UNCHANGED storeVars

\* Mutant of Crash: the message was acknowledged when it was delivered.
CrashAckedEarly(w) ==
    /\ wpc[w] # "idle"
    /\ Fault
    /\ Release(w)
    /\ UNCHANGED <<doc, queue, cacheVars, dropped>>

\* The worker process dies; its message goes back to its queue.
Crash(w) ==
    /\ wpc[w] # "idle"
    /\ Fault
    /\ Publish(job[w])
    /\ Release(w)
    /\ UNCHANGED <<doc, cacheVars, dropped>>

\* The visibility timeout passes while the worker still runs the task: the
\* message is delivered once more.
Redeliver(w) ==
    /\ wpc[w] # "idle"
    /\ Fault
    /\ Publish(job[w])
    /\ UNCHANGED <<workerVars, doc, cacheVars, dropped>>

\* The steps a live worker keeps taking.
TaskProceeds(w) ==
    \/ \E m \in Message : Deliver(w, m)
    \/ Find(w) \/ Insert(w) \/ Check(w) \/ Claim(w) \/ Recheck(w)
    \/ Lookup(w) \/ CompleteHit(w) \/ Generate(w) \/ Transient(w)
    \/ Store(w) \/ Complete(w) \/ Retry(w) \/ FailRead(w) \/ FailWrite(w)
    \/ Ack(w)

TaskFails(w) ==
    \/ RetryLost(w) \/ Raise(w) \/ ReplyLost(w) \/ FailHandlerRaises(w)
    \/ Crash(w) \/ Redeliver(w)

TaskStep(w) == TaskProceeds(w) \/ TaskFails(w)
=============================================================================
