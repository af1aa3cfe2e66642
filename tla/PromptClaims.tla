---------------------------- MODULE PromptClaims ----------------------------
(***************************************************************************)
(* What the documents and comments of the repository say of the service    *)
(* and the code does not do.  Each is refuted by a run of its own.         *)
(***************************************************************************)
EXTENDS MCPromptService

\* DESIGN.md:8, "Unique index on (user_id, prompt_id) makes the API
\* idempotent", and README.md:101-102, "idempotent database updates to survive
\* worker crashes": a repeated call or a redelivered task changes nothing, so a
\* completed request stays completed.  The writes of PostUpsert, Transient and
\* FailWrite do not look at the status they overwrite.
CompletedStaysCompleted ==
    [][\A k \in Keys : doc[k].status = "completed" => doc'[k].status = "completed"]_vars

\* tasks.py:165, "only if currently QUEUED or RECEIVED", and tasks.py:185, "If
\* update failed, another worker is processing": the claim keeps a second
\* worker from processing a request.  The filter admits PROCESSING too.
ClaimIsExclusive ==
    \A v, w \in Workers :
        /\ wpc[v] \in {"lookup", "hit", "call", "store", "complete"}
        /\ wpc[w] \in {"lookup", "hit", "call", "store", "complete"}
        /\ job[v].key = job[w].key
        => v = w

\* DESIGN.md:78, "Celery with acks_late + Redis broker ensures tasks aren't
\* lost": an unsettled request is in hand or has used up its retries.  The
\* document is written before the task is published, and a failed publication
\* or a failed failure handler leaves it behind.
TasksAreNotLost == \A k \in Keys : Unsettled(k) => InHand(k) \/ Exhausted(k)

\* README.md:7-8 tells clients to poll for the outcome, and tasks.py:278
\* logs "Transient provider error; scheduling retry": without crashes and
\* outages every request is completed or failed in the end.  After the last
\* attempt nothing is scheduled and the status stays "queued" or "processing".
PollingEnds == \A k \in Keys : Unsettled(k) ~> Settled(k)
=============================================================================
