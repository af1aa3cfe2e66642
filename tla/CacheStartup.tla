---------------------------- MODULE CacheStartup ----------------------------
(***************************************************************************)
(* How the processes get their SemanticCacheService, whose construction    *)
(* creates the Qdrant collection if there is none (_ensure_collection of   *)
(* src/services/qdrant_client.py).  A worker constructs it once, when      *)
(* src/worker/tasks.py is imported, and exits if that raises; the requests *)
(* and health checks of the API share one through lru_cache, which keeps   *)
(* nothing when the construction raises and does not keep two threads from *)
(* constructing at the same time.                                          *)
(***************************************************************************)
EXTENDS Naturals

CONSTANTS ApiThreads,    \* threads of the API that call get_cache_service
          WorkerStarts,  \* worker processes that start
          MaxOutages     \* bound: requests to Qdrant that fail

ASSUME StartupAssumption ==
    ApiThreads \cap WorkerStarts = {} /\ MaxOutages \in Nat

VARIABLES collection,  \* whether the collection exists
          cached,      \* whether the lru_cache of the API holds a service
          spc,         \* spc[x]: the next step of a thread or worker
          raised,      \* how many constructions have raised (history)
          outages      \* how many requests to Qdrant have failed

startupVars == <<collection, cached, spc, raised, outages>>

Starters == ApiThreads \cup WorkerStarts

StarterSteps == {"idle", "get", "create", "verify", "built", "ready", "exited"}

StartupInit ==
    /\ collection = FALSE
    /\ cached = FALSE
    /\ spc = [x \in Starters |-> "idle"]
    /\ raised = 0
    /\ outages = 0

Pass(x, from, to) == spc[x] = from /\ spc' = [spc EXCEPT ![x] = to]

\* The constructor raises: the request of the API fails and its thread goes on
\* to another one, the worker exits.
Raises(x, from) ==
    /\ Pass(x, from, IF x \in WorkerStarts THEN "exited" ELSE "idle")
    /\ raised' = raised + 1

\* get_cache_service, or the import of the tasks.
GetService(x) ==
    /\ Pass(x, "idle", IF cached /\ x \in ApiThreads THEN "ready" ELSE "get")
    /\ UNCHANGED <<collection, cached, raised, outages>>

\* Mutant of GetCollection: the 404 is taken for an answer like any other.
GetIgnores404(x) ==
    /\ Pass(x, "get", "built")
    /\ UNCHANGED <<collection, cached, raised, outages>>

\* get_collection: found, or 404.
GetCollection(x) ==
    /\ Pass(x, "get", IF collection THEN "built" ELSE "create")
    /\ UNCHANGED <<collection, cached, raised, outages>>

\* Mutant of CreateCollection: the 409 is raised like any other error.
CreateRaises409(x) ==
    /\ IF collection THEN Raises(x, "create")
                     ELSE Pass(x, "create", "built") /\ UNCHANGED raised
    /\ collection' = TRUE
    /\ UNCHANGED <<cached, outages>>

\* Mutant of CreateCollection: it is tried until it succeeds.
CreateUntilNew(x) ==
    /\ Pass(x, "create", IF collection THEN "create" ELSE "built")
    /\ collection' = TRUE
    /\ UNCHANGED <<cached, raised, outages>>

\* create_collection: created, or 409 since somebody else was faster.
CreateCollection(x) ==
    /\ Pass(x, "create", IF collection THEN "verify" ELSE "built")
    /\ collection' = TRUE
    /\ UNCHANGED <<cached, raised, outages>>

\* get_collection after a 409.
VerifyCollection(x) ==
    /\ IF collection THEN Pass(x, "verify", "built") /\ UNCHANGED raised
                     ELSE Raises(x, "verify")
    /\ UNCHANGED <<collection, cached, outages>>

\* The constructor returns; lru_cache keeps the service unless it has one.
KeepService(x) ==
    /\ Pass(x, "built", "ready")
    /\ cached' = (cached \/ x \in ApiThreads)
    /\ UNCHANGED <<collection, raised, outages>>

\* A thread of the API is done with its request.
NextRequest(x) ==
    /\ x \in ApiThreads
    /\ Pass(x, "ready", "idle")
    /\ UNCHANGED <<collection, cached, raised, outages>>

\* Qdrant is down or not yet up, or its reply is lost: the collection may have
\* been created all the same.
QdrantFails(x) ==
    /\ outages < MaxOutages /\ outages' = outages + 1
    /\ \/ \E from \in {"get", "create", "verify"} : Raises(x, from) /\ UNCHANGED collection
       \/ Raises(x, "create") /\ collection' = TRUE
    /\ UNCHANGED cached

StarterProceeds(x) ==
    \/ GetCollection(x) \/ CreateCollection(x) \/ VerifyCollection(x) \/ KeepService(x)

StartupNext ==
    \E x \in Starters : \/ GetService(x) \/ NextRequest(x)
                        \/ StarterProceeds(x) \/ QdrantFails(x)

StartupSpec == StartupInit /\ [][StartupNext]_startupVars

\* A constructor goes on.
StartupFairSpec ==
    /\ StartupSpec
    /\ \A x \in Starters : WF_startupVars(StarterProceeds(x))

-----------------------------------------------------------------------------
\* Whoever has a service, or finds one in the lru_cache, has a collection to
\* search, although the look for it and its creation are two requests.
ServiceHasCollection ==
    (cached \/ \E x \in Starters : spc[x] \in {"built", "ready"}) => collection

\* Processes and threads that start at the same time never make each other's
\* constructors raise: only failed requests do.
OnlyOutagesRaise == raised <= outages

\* Once Qdrant answers, a thread of the API that asks for the service gets it,
\* whatever happened before: a failed construction is not cached, and lost
\* races for the collection end.
RequestsGetService ==
    \A x \in ApiThreads : spc[x] = "get" /\ outages = MaxOutages ~> spc[x] = "ready"
=============================================================================
