# A TLA+ model of the prompt processing system

The program takes prompts over HTTP, answers them from a semantic cache or has a
Celery worker ask a rate-limited LLM, and keeps the state of every request in
MongoDB. This directory holds its formal model: TLA+ modules translated from the
source, TLC configurations that check them on small instances, and theorems that
TLAPS checks for every instance. `PROJECT.json` lists the components, the runs,
the source lines behind every definition, the hazards and the theorems.

    tlc -workers 2 -config MCRace.cfg MCPromptHistory.tla
    tlapm PromptServiceProofs.tla

## Inventory

| component | state | operations | talks to |
|---|---|---|---|
| request documents (`models/`) | one document per (user_id, prompt_id) | the ten writes of the router and the task | - |
| process API (`api/routers/process.py`) | per call: what it read | POST, GET | documents, cache, broker |
| Celery task (`worker/tasks.py`) | per worker: message, step, point id | `prompt.process`, `_mark_failed` | documents, cache, LLM, broker |
| broker (`worker/app.py`, `api/services.py`) | messages waiting or not acknowledged | enqueue, deliver, acknowledge, redeliver, retry | workers |
| semantic cache (`services/semantic_cache.py`, `qdrant_client.py`) | points with text, answer, hit count, age | lookup, get, store, record_hit | - |
| rate limiter (`services/rate_limiter.py`, `mock_llm.py`) | tokens and refill time in a Redis hash with a time to live | acquire, the with block of `complete` | - |
| embeddings (`services/embeddings.py`) | a lazily loaded model and its lock | embed | - |
| startup and wiring (`api/main.py`, `api/dependencies/services.py`, `models/mongodb.py`) | objects kept by `lru_cache`, the Qdrant collection, the unique index | first use of a service, start of the API, import of the tasks | documents, cache |
| health (`api/routers/health.py`) | - | GET: four pings and a verdict | all |
| metrics (`services/metrics.py`, `api/routers/metrics.py`) | counters per process | count, GET | - |
| scripts | - | a task published directly, the index of the MongoDB container | broker, documents |

**How they interact.** A POST reads the document, looks into the cache, and either
writes "completed" or writes "queued" and publishes a task: three to four remote
accesses without a transaction. The task reads the document, claims it, looks into
the cache again, calls the LLM, stores the answer in Qdrant and then writes
"completed": again separate accesses. Several calls and several deliveries of a
task may work on one document at once, and only the claim and the insert look at
what they overwrite.

**What is hard.** The order of those accesses between calls and tasks; a worker
that dies between any two of them and whose message is delivered again; a remote
call that raises in the middle, in the handler of a previous failure, or in the
publication of a retry; the end of the retries; the cache that two workers consult
before either has stored its answer; a lookup and a hit that are two accesses each; the
bucket whose clock is the caller's and whose key Redis deletes; processes that
start at the same time and each create what is missing, and threads that share one
object under construction.

**What makes each part correct.**
- documents, API and task: an accepted request is not forgotten (`NoOrphan`,
  `EventuallySettled`), a settled one stays settled unless somebody is still
  working from an older state (`SettledStaysSettled`), for good when nothing went
  wrong with it (`SettledIsFinal`), it fails only for a cause (`FailureHasCause`), and
  every answer shown belongs to the prompt (`AnswersItsPrompt`);
- cache: its two-step lookups and hits look atomic to everybody else
  (`ImplementsAtomicCache`), who are such clients indeed (`UsesAtomicCache`), hits are
  lost only where they overlap (`HitsCounted`), and it limits the answers generated
  for one text (`DuplicatesBounded`);
- rate limiter: admitted calls are bounded over every interval (`RateBounded`),
  deleting the key loses nothing (`BucketSpec`), floating point admits no call too many
  (`RoundingIsSafe`), and the wait it names is at most a second off
  (`HintWithinASecond`);
- broker: redelivery after a crash or a timeout, a bounded number of retries, and no
  more tasks for a request than were asked for or faults made (`TasksAccounted`);
- embeddings: one load for all threads (`LoadedOnce`), no call stuck behind one that
  raised (`EveryEmbedEnds`);
- startup: nobody uses a collection that is not there, nor fails because somebody
  else is starting too (`ServiceHasCollection`, `OnlyOutagesRaise`), and the unique
  index, once there, means one document per pair (`IndexedMeansOne`);
- health: an outage that lasts is reported (`OutagesReported`, for all but the workers).

## Modules

| module | models | extends |
|---|---|---|
| `Prompts` | texts, point ids and which texts are similar | - |
| `PromptRequests` | the documents and every write, as functions from the document before to the one after | `Prompts` |
| `AnswerCache` | what callers see of the semantic cache: stored points, some of them stale, and what a lookup may return | `Prompts` |
| `PromptStores` | what is shared: documents, broker messages, the cache; publishing, retrieval by id, faults | `PromptRequests`, `AnswerCache` |
| `ProcessRouter` | POST and GET, one action per write, lookup and publication | `PromptStores` |
| `ProcessTask` | the Celery task, one action per write, lookup and call of the LLM; delivery, acknowledgement, crash, redelivery | `PromptStores` |
| `PromptService` | the composition, its fairness and its properties | `ProcessRouter`, `ProcessTask` |
| `PromptHistory` | the service with a history variable, the accepted calls, and what it says of them | `PromptService` |
| `PromptCacheUse` | the service as a client of the cache: what each call and worker asks and was told | `PromptService`, instance of `AtomicCache` |
| `AtomicCache` | abstract: clients of `AnswerCache` whose lookups take one step | `AnswerCache` |
| `SemanticCache` | the cache in detail: search for the best point, look at its age, read and write of a hit, storing | `Prompts`, instance of `AtomicCache` |
| `TokenBucket` | abstract: a token bucket that is never forgotten | - |
| `RedisRateLimiter` | the Lua script, the expiry of its key, the with block | `TokenBucket` |
| `Doubles` | IEEE doubles with 53 binary digits, rounded to nearest | - |
| `DoubleBucket` | the arithmetic of the script and the wait it names, in doubles | `Doubles`, instance of `TokenBucket` |
| `EmbeddingService` | the lazy load of the model by concurrent calls | - |
| `CacheStartup` | the creation of the collection by processes and threads that start together | - |
| `RequestIndex` | documents one by one, the unique index and the writers that insert | - |
| `HealthCheck` | four pings while components change, and the verdict | - |
| `MCPromptService`, `MCPromptHistory`, `MCSemanticCache`, `MCRateLimiter` | small instances | |
| `MCComponents` | small instances of the rate limiter and the last five, one of which takes the steps of a behaviour | `MCRateLimiter`, `EmbeddingService`, `CacheStartup`, `RequestIndex`, `HealthCheck`, instance of `DoubleBucket` |
| `PromptClaims` | what documents and comments say of the service and the code does not do | `MCPromptService` |
| `PromptServiceProofs`, `PromptHistoryProofs`, `CacheRaceProofs`, `SemanticCacheProofs`, `RateLimiterProofs`, `EmbeddingProofs`, `StartupProofs`, `HealthProofs` | theorems | |

**Documents.** `doc[k]` keeps `status`, `cache_entry_id` (`entry`), `retry_count`
(`retries`) and whether `error_message` is set (`error`). The operators
`Received`, `Claimed`, `CompletedFromCache`, `CompletedFromLLM`, `TransientError`,
`MarkedFailed`, `Enqueued` and `Persisted` are the writes; each changes the fields
its `$set` names and leaves the others. Text, priority, `cached`, times and
timestamps are written but never read back for a decision.

**Calls.** `cpc[c]` is the step of HTTP call `c`; `seen[c]` is the retry count of
the document it found and is all it keeps of it. `PostFind`, `PostLookup`,
`PostPersist`, `PostUpsert` and `PostEnqueue` follow `process_prompt`; `GetStatus`
is the GET; `EnqueueDirectly` is the client of `scripts/test_priority_queue.py`,
which publishes a task no document was written for; `CallFails` is an exception or
a dying API process at any step. `PostFind`, like `Check` of the task, is `find_one`
and, when that document names an answer, the read of the answer from Qdrant and
`record_hit`: stored answers do not change, and hits are seen by nobody but
`SemanticCache`, so nothing can happen in between that tells the difference.

**Tasks.** `wpc[w]` is the step of the task in worker `w`, `job[w]` the message it
holds without having acknowledged it. The actions carry the names of what the code
does at that place: `Find`, `Insert`, `Check`, `Claim`, `Recheck`, `Lookup`,
`CompleteHit`, `Generate` or `Transient`, `Store`, `Complete`, `Retry`, and
`FailRead` and `FailWrite` for `_mark_failed`. `Raise` is an exception in the try
block, `RetryLost` one in the publication of a retry (Celery rejects the message
then), `FailHandlerRaises` one in `_mark_failed`, `Crash` the death of the process.

**Cache.** In `AnswerCache` a point is its prompt text, and `stale` are the points
older than the lookback window of 30 days; `AnswersAge` makes points stale at any
time. `Similar` says which texts score at least 0.9; it is reflexive and otherwise
arbitrary. A lookup returns a stored point above the threshold that is not stale
(Qdrant returns the best one, which may be any of them), and nothing if there is
none - or if a stale one may have been the best.

`SemanticCache` is why that description is right. `payload[p]` has the text, the
time of creation and the hit count; `Score` is the similarity, `now` the time.
`Search` is `query_points` with limit 1, `Judge` the rest of `lookup`, with the age
of the point as the search copied it; `Get` is the read by id of the answer that a
completed document names, also a stale one; `HitRead` and `HitWrite` are the two halves of
`update_hit_count`, after either; `StoreAnswer` is a worker storing what it generated after a miss;
`Stop` is an exception, a crash, or the API going on after a miss. The refinement
mapping takes a point to its text (`TextAt`), the old ones to `stale` (`StaleNow`) and
a client past its search and its look at the age to the outcome (`Outcome`); the
abstract lookup happens when the age is looked at, or at the search if it is empty. A
get by id is not visible: it asks for nothing and changes no answer.
`recorded` and `contended` are history variables: the hits whose recording ended, and
the points where two recordings overlapped.

**Faults.** `Fault` counts crashes, failed remote calls and redeliveries up to
`MaxFaults`. A remote call that raises has had no effect (`Raise`) or it had one and
its reply was lost: that is the same as a failure at the next step, except for the
three updates after which a task has nothing left to do in its try block, which are
`ReplyLost`. `Redeliver` is the visibility timeout passing while the worker still runs
the task. Provider errors (`Transient`) are not counted: the provider may fail as often
as it likes. The variable `dropped` is a history variable: the requests whose task was
given up without a write to the document.

**History.** `accepted` in `PromptHistory` are the calls that went on from the document
they found, or published a task themselves; a poll, or a POST answered from the
document, is not accepted. No action reads it. `Tasks(k)` counts what circulates for a
request: copies of its messages in the broker, workers whose task has not ended, calls
that may still publish one. `Alone(k)` says that nothing can have gone wrong with it:
no fault so far and at most one accepted call.

**Use of the cache.** In `PromptCacheUse` a call asks for its text from the end of its
look at the document until it writes, a worker from its claim until it stores or
completes or fails (`CallLooks`, `TaskLooks`); the outcome is what the lookup returned.
With this mapping the service is an instance of `AtomicCache`, which `SemanticCache`
implements: the two refinements meet there.

**Embeddings.** `epc[e]` is the step of call `e` of `embed`, `lock` the call that holds
`_lock`. `Look`, `Lock`, `Recheck`, `Load`, `Release` are the lines of `_get_model`;
`LoadRaises` and `Unwind` are an exception of the constructor leaving the with block.

**Startup.** `spc[x]` is the step of a thread of the API or of a worker that constructs
the cache service: `GetCollection`, `CreateCollection` (created, or a 409),
`VerifyCollection` after a 409, `KeepService`. `cached` is the `lru_cache`, which keeps
nothing when a construction raises and does not keep two threads from constructing
at once. A worker whose construction raises exits, since it happens while its
tasks are imported. `QdrantFails` is any request that raises, with or without effect.

**Index.** Where the other modules have `doc[k]`, `RequestIndex` has the documents one
by one: `pairOf[d]` is the pair of document `d`. An upsert, or `find_one` and
`insert_one`, is `FindNone` followed by `InsertOne`; only a unique index keeps a
second document out between the two. API processes start with the index created
(`StartIndexed`) or with a failure logged (`StartUnindexed`), and stop; once one has
served there are tasks, and the workers insert with or without it.

**Health.** `HealthCheck` runs the four pings in their order while `up`
changes; `wasUp` remembers what was up at some time of the check.
`control.ping` raises without Redis, and returns an empty list, no error, without
workers.

**Rate limiter.** `tokens` counts units of 1/`Window` token, as exact integers. `now` is the true time, `Readings` are the times a caller may pass,
`expires` the time at which Redis deletes the key. `start` and `since` belong to
an observer who may start over at any time and counts the calls admitted since.
A rejected call changes nothing, as in the script, and therefore is no step.

The code's tokens are doubles, and so are `limit / window`, each refill and the wait.
`DoubleBucket` has exactly these operations on `Doubles`, for one caller whose clock is
right. They differ from the integers in the last digits only, and that decides only
calls that find one token: the code may find a digit less and turn the call away, which
is no step. `RoundingIsSafe` says so: rounded to units (`Nearest`), every behaviour of
`DoubleBucket` is one of `TokenBucket`. What a rejected call is told depends on these
digits and is therefore a matter of `DoubleBucket` alone: `SecondsFor` is the script's
`math.ceil` of a rounded quotient. With the default of 300 calls per 60 seconds the rate
is the integer 5 and nothing is rounded; with 3 per 60 (`tests/unit/test_rate_limiter.py`)
it is.

## Runs

| run | instance | shows |
|---|---|---|
| `race` | 1 key, 2 calls, 2 workers, 1 retry, 2 faults, 3 points; 436,041 states | `TypeOK`, `NoOrphan`, `DuplicatesBounded`, `TasksAccounted`, `FailureHasCause`, `SettledIsFinal`, `UsesAtomicCache` |
| `cache` | 3 keys with texts t1 ~ t2 ~ t3, 3 calls, 1 worker, no retry, 1 fault | `AnswersItsPrompt` |
| `settle` | 1 key, 2 calls, 2 workers, 1 retry, 1 fault, fairness | `EventuallySettled`, `SettledStaysSettled` |
| `cache_detail` | 2 similar texts, 2 points, 2 clients, window 1, time 3, 2 hits begun one after the other | `DetailTypeOK`, `HitsCounted`, `ImplementsAtomicCache` |
| `components`, limiter | 2 tokens per 3 s, clocks 1 s off, buffer 2 s, 12 s, 2 callers | `LimiterTypeOK`, `RateBounded`, `BucketSpec` |
| `components`, doubles | 3 tokens per 60 s, 28 s, in doubles | `HintWithinASecond`, `RoundingIsSafe` |
| `components`, embedding | 4 calls, 2 loads that raise, fairness | `EmbeddingTypeOK`, `LoadedOnce`, `EveryEmbedEnds` |
| `components`, startup | 2 API threads, 2 workers, 2 failed requests, fairness | `ServiceHasCollection`, `OnlyOutagesRaise`, `RequestsGetService` |
| `components`, index | 2 pairs, 4 documents, 3 writers, 2 API processes, 1 failure | `IndexedMeansOne` |
| `components`, health | any components up, 3 changes | `OutagesReported` |

The six parts of `components` share no state and therefore do not interleave: `part`
says which of them takes the steps of a behaviour.

- `NoOrphan`: an unsettled request is about to be published, waits in the broker or
  is held by a worker that has yet to act on it - or its retries are used up, or a
  publication or a failure handler raised. Crashes and duplicate tasks alone never
  lose one.
- `DuplicatesBounded`: once a text has an answer, its stored answers and the
  workers that are generating another are together at most the number of workers,
  as long as no answer the lookup may prefer is older than the lookback of 30 days:
  a stale one hides the others (`claim_fresh_found`).
- `TasksAccounted`: retries, which publish a message and then acknowledge another,
  requeued messages and copied ones never make more tasks for a request than it has
  accepted calls, plus one per fault.
- `FailureHasCause`, `SettledIsFinal`: what `claim_idempotent` and `claim_exclusive`
  refute, where it is true. A request accepted once, without a fault, does not fail
  however often the provider does, and its settled document never changes again,
  however often it is submitted and polled. That the claim admits "processing", against
  its comment, is needed for the first: the retry meets the status its own failed
  attempt left.
- `UsesAtomicCache`: nobody stores an answer to a text without having asked for that
  text and been told there is none, whatever crashes or is repeated in between.
- `AnswersItsPrompt`: in particular no document says "completed" before its answer
  is in Qdrant, and similarity that is not transitive leads no answer two steps on.
- `SettledStaysSettled`, `EventuallySettled`: what remains true of idempotence and
  of progress; the runs below show what does not. `SettledStaysSettled` and
  `SettledIsFinal` leave out the writes that do reopen a settled request, the upsert
  of a call that looked earlier and the status after a provider error of another
  task: `claim_idempotent` shows the first, and says of both that they are wrong.
- `RoundingIsSafe`: the refinement of the bucket with exact tokens by the one with
  doubles. `HintWithinASecond`: a second after the time it is told a caller is
  admitted, and two seconds before it was not, whatever the roundings do.
- `BucketSpec`: the refinement; the abstract variables are variables of the limiter.
- `ImplementsAtomicCache`: the refinement that lets the service be checked with the
  cache of `AnswerCache`. In particular writing a whole payload back, which may undo
  another hit, never undoes an answer or an age.
- `HitsCounted`: the count is at most the hits recorded, positive once there was one,
  and exact at points where no two recordings overlapped.
- `RequestsGetService`: a construction that raised is not kept; once Qdrant answers,
  whoever asks gets the service. For workers this is false, see below.
- `IndexedMeansOne`: also for documents written before the index came, by processes
  that serve without it, and for writers that had found nothing by then.

**Bounds.** One key suffices for the race because requests with different keys
meet only in the cache, which the run `cache` has three of. Two calls and two
workers give every pair of overlapping accesses, and a crash gives a third task
that starts over; two faults allow a fault while another is being handled. Three
points are one more than `DuplicatesBounded` allows two workers. The limiter's 12 s are
long enough for the key (5 s) to expire and the bucket to be emptied and filled
twice; its skew is the largest its buffer allows. The run in doubles is long enough for
a token to come back (20 s) after the bucket was emptied at any pace, so that late hints
and rounded sums of several refills occur; hints look past its end. `Doubles` keeps 60
binary places, two more than any rate of at least 1/64 per second needs
(so the run's 1/20 fits). In `cache_detail` a point can become
stale while a client holds it, two points suffice for a stale one to hide another, and
a second client can record two hits between the two halves of another's.
Four calls of `embed` let two wait for the lock while a third fails; two failed
requests fail a constructor at two of its steps. Three writers race for two pairs
while one API process has the index and one had none. The theorems remove all these
bounds for what they prove. `CHECK_DEADLOCK FALSE` stands where calls are finite and
the system comes to rest when all are answered; of the parts of `components`, the calls of
`embed` and the bucket in doubles do.

**Fairness.** A call that is under way and a live worker with something to do go on
(weak fairness of `CallProceeds` and `TaskProceeds`): server threads and pool
processes are scheduled by the operating system, and Celery replaces a process that
dies. No client has to call, nothing has to fail, the provider need not ever
succeed, and which waiting message a worker takes is left open: with finitely many
calls and retries the broker empties anyway. A thread in `embed` and a constructor
that has begun go on likewise (`EmbedProceeds`, `StarterProceeds`); weak fairness of
`Lock` is enough because each of finitely many calls holds the lock at most once.

**What the documents say and the code does not do** (each run finds the
counterexample named):

| run | property | happens when |
|---|---|---|
| `claim_idempotent` | `CompletedStaysCompleted` | a second POST that looked before the answer existed upserts "queued" |
| `claim_exclusive` | `ClaimIsExclusive` | two tasks claim one request: the filter admits "processing" |
| `claim_not_lost` | `TasksAreNotLost` | the API stops between the write and the publication |
| `claim_polling` | `PollingEnds` | the last retry fails: the status stays "queued" or "processing" |
| `claim_capped` | `CappedPerWindow` | a full bucket is spent and refilled within one window |
| `claim_fresh_found` | `FreshAnswerIsFound` | the best match is stale, the second best is not looked at |
| `claim_health` | `AnyOutageReported` | no worker is up and `/health` answers 200: an empty list of replies raises nothing |

Seen on the way, without a run of their own:

- a redelivered task, too, turns a completed request back or into a failed one: the
  updates of `tasks.py:265-275` and `388-401` look at no status (README.md:101-102 of
  the repository speaks of idempotent database updates);
- with 3 calls per 60 seconds a caller told "Retry in 18s." (`rate_limiter.py:81-83`,
  `124`) finds 0.9999999999999999 tokens then and is rejected again: `HintWithinASecond`
  says how far off the wait can be;
- when the unique index cannot be created the API logs that and serves (`main.py:38`):
  two calls may then insert two documents of one pair, after which no index can be
  created; `IndexedMeansOne` says what holds once it was;
- there is no concurrency guard (`rate_limiter.py:142`) where DESIGN.md:73 has one of 5;
- `update_hit_count` (`qdrant_client.py:155`) loses hits that overlap: `HitsCounted`
  says exactly when;
- a worker that imports its tasks before Qdrant answers exits (`tasks.py:28`), and
  `docker-compose.yml` neither waits nor restarts it;
- LLM calls and errors are counted in the worker processes, `/metrics` shows the
  counters of the API process (`routers/metrics.py:11`).

## Proofs

The tables name the theorems; each holds for every value of the constants, under the
assumptions named. Every safety invariant, action property and refinement that a
passing run checks is also a theorem, except the two about doubles.

**The service** (`PromptServiceProofs`): every set of keys, texts, points, calls and
workers, every similarity relation, retry limit and number of faults.

| theorem | states | argument |
|---|---|---|
| `TypeCorrect` | `[]TypeOK` | by itself inductive |
| `Durability` | `[]NoOrphan` | with `TypeOK` inductive, because `InHand` names exactly the steps at which a worker still owes the request an action; one lemma per action follows the responsibility from hand to hand. `Crash` puts the message back, which is where late acknowledgement is needed |
| `ExhaustedIsExact` | an unsettled request is `Exhausted` only at attempt `MaxRetries + 1` | `CausesShown`: an unsettled document with an error shows the number of the attempt that met it, because the claim clears the error and the counts of failures come with the status "failed" |
| `LossNeedsFault` | without faults, `NoOrphan` without `dropped` | `CausesShown` again: whoever drops a task is a fault |
| `RestIsSettled` | when nothing is under way every request is settled, exhausted or dropped | from `NoOrphan`; the half of `EventuallySettled` that needs no fairness |
| `AnswersCorrect` | `[]AnswersItsPrompt` | `AnswersInductive` adds that what a worker or a call is about to write answers already, and that messages carry a text of their key |
| `NoReopening` | `SettledStaysSettled` | by cases on the steps that write |

The three in the middle say that the exceptions of `NoOrphan` are not loopholes: each
is met only by what it is named for.

**Its history** (`PromptHistoryProofs`): for any number of everything, finitely many
calls or not.

| theorem | states | argument |
|---|---|---|
| `TasksConserved` | `[]TasksAccounted` | `Copies(k)`, `Holding(k)` and `UnderWay(k)` are finite sets; each step moves one element from one to another, removes one, or adds one together with a fault or an accepted call (`AccountStep`) |
| `ExclusiveWhenAlone` | at most one worker has a task for a request that is `Alone` | from `TasksConserved`: there is at most one task |
| `ProviderErrorsNeverFail` | `[]FailureHasCause` | `Smooth`, below |
| `SettledForGood` | `SettledIsFinal` | `Smooth` says that no task is left; whoever writes has one (`WritersHold`) |
| `DeliveriesEnd` | every step of a delivered task lowers `StepsLeft`, at most 13, and no other step raises it | the one way back in the task, from `Insert` to `Find`, is taken only when the document exists, and documents are never removed (`DocsStay`) |

`HistoryInductive` is the inductive invariant of the first four: the history contains
every call under way (`HistoryOK`), `TasksAccounted`, a task that is about to claim has
a document (`ClaimsExist`), and `Smooth`: while nothing has gone wrong with a request,
it has not failed, nothing circulates for it once it is completed, there is no document
before a call was accepted, and its one task is at none of the steps that follow a
settled document or a failure. `FailureHasCause` alone is not inductive: it does not
know that a retry, which finds the document of its own attempt, is the only task.

**The service and the cache** (`CacheRaceProofs`):

| theorem | states | argument |
|---|---|---|
| `RaceBounded` | `[]DuplicatesBounded` | a worker joins those generating an answer only through a lookup that found none, and each of them adds one point and leaves; the cardinalities follow from the two sets being finite |
| `ServiceUsesCache` | `Spec => UsesAtomicCache` | each step is an `Ask`, a `Return`, a `Leave`, ageing or not visible (`CallRefines`, `TaskRefines`); a crash or a failure is a `Leave` without an answer |

These three modules rest on `PromptsAssumption`, `StoresAssumption` and
`NoJobAssumption`: the "none" values are no real ones, `Similar` is a reflexive
relation on texts, `TextsOf` gives texts, the bounds are natural numbers; the modules
with cardinalities also on `FiniteAssumption`, finitely many points and workers, and
`ServiceUsesCache` on `CacheUseAssumption`, threads of the API are no workers.

**The cache** (`SemanticCacheProofs`): any clients, points, texts, scores and times.
`CacheTypeCorrect` and `HitsCorrect` follow from `FoundIsKept` (a point a search returned
stays stored, with the text and the age that were read) and `CopyCounts` (what a client
is about to write counts no more than was recorded, and exactly that if nobody else is
about to write). `CacheIsAtomic` is `DetailSpec => ImplementsAtomicCache`, by the same
kinds of steps as above. So the detailed cache implements what the service uses. They
rest on `PromptsAssumption` and `CacheAssumption`: `Similar` are the pairs that score at
least the threshold.

**Embeddings, startup, health.** `EmbeddingTypeCorrect` (the lock is held exactly inside
the with block) and `ModelLoadedOnce` from `EmbeddingInductive`: whoever is about to load
saw no model while it held the lock. `CollectionBeforeUse`, `RacesDoNotRaise` (a 409
means that the collection exists, and nobody deletes it) and `IndexedIsUnique` (an index
that is unique stays so). `OutagesAreReported`: each ping that did not raise told the
truth at its time (`HealthInductive`). They rest on `EmbeddingAssumption`,
`StartupAssumption` and `IndexAssumption`.

**The rate limiter** (`RateLimiterProofs`): every limit, window, skew, buffer and set of
callers.

| theorem | states | argument |
|---|---|---|
| `BucketRate` | `BucketSpec => []RateBounded` | what is spent since `start` plus what is left is at most the capacity plus the refill up to `last` (`BucketInductive`); `RateBounded` alone does not know what is left |
| `LimiterTypeCorrect` | `[]LimiterTypeOK` | part of `LimiterInductive` |
| `LimiterImplementsBucket` | `LimiterSpec => BucketSpec` if `2 * Skew <= Buffer` | `LimiterInductive` relates the refill time to the expiry, so that a bucket whose key is gone would be full at any caller's time (`ForgottenIsFull`). With a buffer of one second less TLC finds a counterexample |
| `LimiterRate` | `[]RateBounded` under the same condition | from the two |
| `TwicePerWindow` | a window admits at most two buckets and the skew, under the same condition | from `LimiterRate`; two buckets are reached, so this is what the cap of `claim_capped` really is |

They rest on `BucketAssumption` and `LimiterAssumption`: limit and window are positive
(the constructor raises otherwise), the other numbers natural. The code's buffer is 10 s
and the cut to whole seconds takes one, so clocks may differ by a few seconds.

**What the refuted claims become.** Five of the seven claims have a true form that is
proved: `CompletedStaysCompleted` in `SettledForGood` and `NoReopening`,
`ClaimIsExclusive` in `ExclusiveWhenAlone`, `TasksAreNotLost` in `LossNeedsFault`,
`CappedPerWindow` in `TwicePerWindow`, `AnyOutageReported` in `OutagesAreReported`.
The counterexamples need no proof.

**Only model-checked:** `EventuallySettled`, `EveryEmbedEnds` and `RequestsGetService`:
liveness under fairness is out of the prover's reach. `RestIsSettled` and
`DeliveriesEnd` prove what of the first does not need fairness, except that the number
of deliveries is finite, which follows from the retries being bounded per message and
is left to TLC. `HintWithinASecond` and `RoundingIsSafe` are checked for one limit: they
are about 53 binary digits, and over a long enough time without a full bucket errors do
add up, though it takes more than 2^40 calls to lose a unit.

## Not modelled, and why

- Priorities and the order of delivery: any order is allowed, so the safety
  properties hold for the real one. That high goes first depends on how kombu
  polls Redis lists, and kombu is not part of the repository.
- The countdown of a retry and the length of the visibility timeout: a retry may
  arrive at once, a message may come back at any time while it is not acknowledged.
- Loss of what MongoDB, Qdrant or Redis have stored.
- In the service one document per key is given; `RequestIndex` says when that is so.
- The metrics: counters that no code reads back.
- `poll_result`, which has no caller, and the scripts that only send requests or read
  counters.
- Validation of requests, the values of embeddings; clock skew and the expiry of the
  key together with doubles.

## Plan

1. (done) documents, stores, router, task and their composition; claims; proofs.
2. (done) token bucket, Redis limiter, refinement; proofs.
3. (done) `SemanticCache` and `AtomicCache`, the refinement and its proof; the age of
   points in the service.
4. (done) redelivery and lost replies in `ProcessTask`; proof of `DuplicatesBounded`.
5. (done) `EmbeddingService`, `CacheStartup`, `RequestIndex`, `HealthCheck`; proofs of their safety properties.
6. (done) `Doubles` and `DoubleBucket`: what the rounding does to admissions and waits.
7. (done) the history of accepted calls, the service as a client of the atomic cache, the
   causes behind the exceptions of `NoOrphan`; their proofs.
8. Next: a bound of the calls of the LLM per request, `(MaxRetries + 1)` times its
   accepted calls and faults, by giving each task in `Tasks(k)` the attempts it has left,
   which also bounds the deliveries; the same for the steps of an HTTP call.
9. What could follow: the meaning of `retry_count` under concurrent failures, once the
   documents say what it counts, and a broker with three queues, should its polling be
   fixed by code of the repository.
