--------------------------- MODULE PromptRequests ---------------------------
(***************************************************************************)
(* The documents of the MongoDB collection prompt_requests and the writes  *)
(* the code applies to them (src/models/mongodb_models.py, and every       *)
(* insert_one, update_one and find_one_and_update of the router and of the *)
(* Celery task).  One operator per write: it maps the stored document to   *)
(* the document after the write.                                           *)
(*                                                                         *)
(* A document keeps the fields that are read back or shown to a client and *)
(* on which a property depends: status, cache_entry_id (entry),            *)
(* retry_count (retries) and whether error_message is set (error).         *)
(* prompt_text, priority, cached, processing_time_ms and the timestamps    *)
(* are written but no decision of the code reads them.                     *)
(***************************************************************************)
EXTENDS Prompts

\* PromptStatus; "absent" stands for "no such document".
Status == {"received", "queued", "processing", "completed", "failed"}

Doc == [status  : Status \cup {"absent"},
        entry   : Points \cup {NoPoint},
        retries : Nat,
        error   : BOOLEAN]

AbsentDoc == [status |-> "absent", entry |-> NoPoint, retries |-> 0, error |-> FALSE]

\* Mutant of Claimable: a failed request can be claimed again.
ClaimableOrFailed == {"queued", "received", "processing", "failed"}

\* Mutant of Claimable: the filter the comment at tasks.py:165 describes.
ClaimableWhenQueued == {"queued", "received"}

\* The statuses from which a worker may claim a request.
Claimable == {"queued", "received", "processing"}

\* insert_one of a task that finds no document.
Received == [AbsentDoc EXCEPT !.status = "received"]

\* find_one_and_update: the claim of a delivery whose task retried n times.
Claimed(d, n) ==
    [d EXCEPT !.status = "processing", !.retries = n, !.error = FALSE]

\* The worker found an answer in the semantic cache.
CompletedFromCache(d, p) == [d EXCEPT !.status = "completed", !.entry = p]

\* The LLM answered and the answer is stored at p.
CompletedFromLLM(d, p, n) ==
    [d EXCEPT !.status = "completed", !.entry = p, !.retries = n]

\* The LLM was rate limited (s = "queued") or failed (s = "processing").
TransientError(d, s, n) ==
    [d EXCEPT !.status = s, !.retries = n + 1, !.error = TRUE]

\* Mutant of MarkedFailed: records the error and forgets the status.
MarkedErrorOnly(d, n) == [d EXCEPT !.error = TRUE, !.retries = n + 1]

\* _mark_failed, n being the retry count its own find_one returned.
MarkedFailed(d, n) ==
    [d EXCEPT !.status = "failed", !.error = TRUE, !.retries = n + 1]

\* _enqueue_new_request replaces every field; n comes from the document the
\* call found when it started.
Enqueued(n) == [AbsentDoc EXCEPT !.status = "queued", !.retries = n]

\* _persist_prompt_request on a cache hit at p; the error is left as it is.
Persisted(d, p, n) ==
    [d EXCEPT !.status = "completed", !.entry = p, !.retries = n]
=============================================================================
