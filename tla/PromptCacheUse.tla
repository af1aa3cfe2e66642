--------------------------- MODULE PromptCacheUse ----------------------------
(***************************************************************************)
(* How the router and the task use the semantic cache: a thread or worker  *)
(* asks for a text, gets one outcome, and then goes on to something else;  *)
(* it stores an answer only to the text it asked for and only when it got  *)
(* none.                                                                   *)
(***************************************************************************)
EXTENDS PromptService

CONSTANT Open   \* the outcome of a lookup that has none (yet), no point

ASSUME CacheUseAssumption ==
    /\ Calls \cap Workers = {}
    /\ Open \notin Points \cup {NoPoint}

\* The steps between the start of a lookup and the use of its outcome.
CallLooks(c) == cpc[c] \in {"lookup", "persist", "upsert"}

TaskLooks(w) == wpc[w] \in {"lookup", "hit", "call", "store"}

Asked == [x \in Calls \cup Workers |->
    IF x \in Calls
    THEN IF CallLooks(x) THEN req[x].text ELSE NoText
    ELSE IF TaskLooks(x) THEN job[x].text ELSE NoText]

Outcome == [x \in Calls \cup Workers |->
    IF x \in Calls
    THEN CASE cpc[x] = "persist" -> hit[x]
           [] cpc[x] = "upsert"  -> NoPoint
           [] OTHER              -> Open
    ELSE CASE wpc[x] = "hit"               -> point[x]
           [] wpc[x] \in {"call", "store"} -> NoPoint
           [] OTHER                        -> Open]

Used == INSTANCE AtomicCache WITH
    Clients <- Calls \cup Workers, asked <- Asked, got <- Outcome

\* The service is a client of the cache as SemanticCache implements it (see
\* ImplementsAtomicCache): through crashes, retries and lost replies nobody
\* stores an answer without having looked for one to the same text and found
\* none, and nobody uses an outcome the cache did not return.
UsesAtomicCache == Used!AtomicSpec
=============================================================================
