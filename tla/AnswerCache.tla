---------------------------- MODULE AnswerCache -----------------------------
(***************************************************************************)
(* What the callers of SemanticCacheService see of the cache: stored       *)
(* points, some of them older than the lookback window of 30 days, and     *)
(* what a lookup may return.  SemanticCache has the detail and implements  *)
(* this, see AtomicCache.                                                  *)
(***************************************************************************)
EXTENDS Prompts

VARIABLES points,  \* points[p]: the prompt text stored at point p
          stale    \* the stored points older than the lookback window

CacheTypeOK ==
    /\ points \in [Points -> Texts \cup {NoText}]
    /\ stale \in SUBSET Points

CacheInit == points = [p \in Points |-> NoText] /\ stale = {}

Stored == {p \in Points : points[p] # NoText}

\* Mutant of Hits: the score threshold is not applied.
AnyStored(t) == Stored

\* The stored points above the score threshold for text t.
Hits(t) == {p \in Stored : <<points[p], t>> \in Similar}

\* lookup for text t returns point r.  Qdrant gives one point, the best; when
\* that is stale the lookup misses, whatever else is stored.
LookupReturns(t, r) ==
    \/ r \in Hits(t) \ stale
    \/ r = NoPoint /\ (Hits(t) = {} \/ Hits(t) \cap stale # {})

\* store: an answer to text t at the fresh id p.
Add(p, t) ==
    /\ p \in Points \ Stored
    /\ points' = [points EXCEPT ![p] = t]
    /\ UNCHANGED stale

\* Time passes and takes some points past the end of the lookback window.
GrowStale ==
    /\ \E S \in (SUBSET (Stored \ stale)) \ {{}} : stale' = stale \cup S
    /\ UNCHANGED points
=============================================================================
