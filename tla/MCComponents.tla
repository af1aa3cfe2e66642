---------------------------- MODULE MCComponents ----------------------------
(***************************************************************************)
(* Small instances of the components that share no state with the service  *)
(* or with each other: the rate limiter, with exact tokens and with        *)
(* doubles, the load of the embedding model, the construction of the cache *)
(* service, the unique index and the health check.  A behaviour is one of  *)
(* a single component; the others stay in an initial state.                *)
(***************************************************************************)
EXTENDS MCRateLimiter, EmbeddingService, CacheStartup, RequestIndex, HealthCheck

VARIABLES part,                     \* the component that takes the steps
          time, held, taken, calls  \* the variables of DoubleBucket

\* Three tokens per minute, as in tests/unit/test_rate_limiter.py.
D == INSTANCE DoubleBucket WITH
    Limit <- 3, Window <- 60, MaxTime <- 28,
    now <- time, tokens <- held, last <- taken, since <- calls

doubleVars == <<time, held, taken, calls>>

componentVars ==
    <<part, limiterVars, doubleVars, embeddingVars, startupVars, indexVars, healthVars>>

ComponentsInit ==
    /\ part \in {"limiter", "doubles", "embedding", "startup", "index", "health"}
    /\ LimiterInit /\ D!DoubleInit /\ EmbeddingInit /\ StartupInit
    /\ IndexInit /\ HealthInit
    /\ part # "health" => up = Components

\* Unless it is the one named, component c with variables v does nothing.
Rests(c, v) == part # c => UNCHANGED v

ComponentsNext ==
    /\ UNCHANGED part
    /\ \/ part = "limiter" /\ LimiterNext
       \/ part = "doubles" /\ D!DoubleNext
       \/ part = "embedding" /\ EmbeddingNext
       \/ part = "startup" /\ StartupNext
       \/ part = "index" /\ IndexNext
       \/ part = "health" /\ HealthNext
    /\ Rests("limiter", limiterVars) /\ Rests("doubles", doubleVars)
    /\ Rests("embedding", embeddingVars) /\ Rests("startup", startupVars)
    /\ Rests("index", indexVars) /\ Rests("health", healthVars)

\* The fairness of EmbeddingFairSpec and StartupFairSpec.  In an initial state
\* neither asks for a step.
ComponentsSpec ==
    /\ ComponentsInit
    /\ [][ComponentsNext]_componentVars
    /\ \A e \in Embeds : WF_embeddingVars(EmbedProceeds(e))
    /\ \A x \in Starters : WF_startupVars(StarterProceeds(x))

-----------------------------------------------------------------------------
\* DoubleBucket: a rejected call is told a wait that is at most a second off.
HintWithinASecond == D!HintWithinASecond

\* DoubleBucket: rounding admits no call that exact tokens would not.
RoundingIsSafe == D!RoundingIsSafe
=============================================================================
