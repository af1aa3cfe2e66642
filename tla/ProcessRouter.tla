--------------------------- MODULE ProcessRouter ----------------------------
(***************************************************************************)
(* The endpoints of src/api/routers/process.py.  Each element of Calls is  *)
(* one HTTP call served by a thread of the API's pool; a POST touches      *)
(* MongoDB, Qdrant and the broker in separate steps, each working from     *)
(* what the previous ones read.                                            *)
(***************************************************************************)
EXTENDS PromptStores

CONSTANT Calls   \* the calls clients make

VARIABLES cpc,    \* cpc[c]: the next step of call c
          req,    \* req[c]: the key and text of call c, fixed from the start
          seen,   \* seen[c]: retry_count of the document the call found
          hit,    \* hit[c]: the point the semantic cache returned
          reply   \* reply[c]: status and response point sent to the client

routerVars == <<cpc, req, seen, hit, reply>>

Request == {r \in [key : Keys, text : Texts] : r.text \in TextsOf[r.key]}

Reply == [status : Status \cup {"none", "error", "not_found"},
          entry  : Points \cup {NoPoint}]

NoReply == [status |-> "none", entry |-> NoPoint]

RouterTypeOK ==
    /\ cpc \in [Calls -> {"new", "lookup", "persist", "upsert", "enqueue", "done"}]
    /\ req \in [Calls -> Request]
    /\ seen \in [Calls -> Nat]
    /\ hit \in [Calls -> Points \cup {NoPoint}]
    /\ reply \in [Calls -> Reply]

RouterInit ==
    /\ cpc = [c \in Calls |-> "new"]
    /\ req \in [Calls -> Request]
    /\ seen = [c \in Calls |-> 0]
    /\ hit = [c \in Calls |-> NoPoint]
    /\ reply = [c \in Calls |-> NoReply]

Goto(c, label) == cpc' = [cpc EXCEPT ![c] = label]

Respond(c, status, entry) ==
    /\ Goto(c, "done")
    /\ reply' = [reply EXCEPT ![c] = [status |-> status, entry |-> entry]]
    /\ seen' = [seen EXCEPT ![c] = 0]
    /\ hit' = [hit EXCEPT ![c] = NoPoint]

\* The call goes on to the semantic cache, remembering document d.
LookupNext(c, d) ==
    /\ Goto(c, "lookup")
    /\ seen' = [seen EXCEPT ![c] = d.retries]
    /\ UNCHANGED <<hit, reply>>

\* _build_response_from_existing
RespondFrom(c, d) ==
    \E r \in {d.entry, NoPoint} : Fetch(d.entry, r) /\ Respond(c, d.status, r)

\* POST: find_one, then _handle_existing_request.  A completed request whose
\* response cannot be read, a "received" one and an absent one go on.
PostFind(c) ==
    LET d == doc[req[c].key]
        answered == d.status = "completed" /\ d.entry # NoPoint
        reported == d.status \in {"queued", "processing", "failed"}
    IN  /\ cpc[c] = "new"
        /\ \/ /\ answered
              /\ \E r \in {d.entry, NoPoint} :
                    /\ Fetch(d.entry, r)
                    /\ IF r = NoPoint
                       THEN LookupNext(c, d)
                       ELSE Respond(c, "completed", r)
           \/ reported /\ RespondFrom(c, d)
           \/ ~answered /\ ~reported /\ LookupNext(c, d) /\ UNCHANGED faults
        /\ UNCHANGED <<req, doc, queue, cacheVars, dropped>>

\* POST: embed the text and search the semantic cache.
PostLookup(c) ==
    /\ cpc[c] = "lookup"
    /\ \E r \in Points \cup {NoPoint} :
          /\ LookupReturns(req[c].text, r)
          /\ Goto(c, IF r = NoPoint THEN "upsert" ELSE "persist")
          /\ hit' = [hit EXCEPT ![c] = r]
    /\ UNCHANGED <<req, seen, reply, storeVars>>

\* POST, cache hit: _handle_cache_hit overwrites the document, whatever has
\* become of it since PostFind, and answers.
PostPersist(c) ==
    LET k == req[c].key
    IN  /\ cpc[c] = "persist"
        /\ Write(k, Persisted(doc[k], hit[c], seen[c]))
        /\ Respond(c, "completed", hit[c])
        /\ UNCHANGED <<req, queue, cacheVars, faults, dropped>>

\* POST, cache miss: the upsert of _enqueue_new_request.
PostUpsert(c) ==
    /\ cpc[c] = "upsert"
    /\ Write(req[c].key, Enqueued(seen[c]))
    /\ Goto(c, "enqueue")
    /\ UNCHANGED <<req, seen, hit, reply, queue, cacheVars, faults, dropped>>

\* POST, cache miss: task_client.enqueue, then the "queued" response.
PostEnqueue(c) ==
    /\ cpc[c] = "enqueue"
    /\ Publish([key |-> req[c].key, text |-> req[c].text, retries |-> 0])
    /\ Respond(c, "queued", NoPoint)
    /\ UNCHANGED <<req, doc, cacheVars, faults, dropped>>

\* GET /process/{user_id}/{prompt_id}.  ProcessResponse does not admit the
\* status "received": building it raises and the client gets an error.
GetStatus(c) ==
    LET d == doc[req[c].key]
    IN  /\ cpc[c] = "new"
        /\ IF d.status \in {"absent", "received"}
           THEN /\ Respond(c, IF d.status = "absent" THEN "not_found" ELSE "error", NoPoint)
                /\ UNCHANGED faults
           ELSE RespondFrom(c, d)
        /\ UNCHANGED <<req, doc, queue, cacheVars, dropped>>

\* enqueue_task of scripts/test_priority_queue.py: a client that publishes a
\* task itself, so that the worker finds no document.
EnqueueDirectly(c) ==
    /\ cpc[c] = "new"
    /\ Publish([key |-> req[c].key, text |-> req[c].text, retries |-> 0])
    /\ Respond(c, "none", NoPoint)
    /\ UNCHANGED <<req, doc, cacheVars, faults, dropped>>

\* A remote call raises (the client gets a 500) or the API process dies.
\* After the upsert this leaves a document that says "queued" and no task.
CallFails(c) ==
    /\ cpc[c] # "done"
    /\ Fault
    /\ Respond(c, "error", NoPoint)
    /\ IF cpc[c] = "enqueue" THEN Drop(req[c].key) ELSE UNCHANGED dropped
    /\ UNCHANGED <<req, doc, queue, cacheVars>>

\* The steps of a call that is under way and meets no fault.
CallProceeds(c) ==
    PostLookup(c) \/ PostPersist(c) \/ PostUpsert(c) \/ PostEnqueue(c)

CallStep(c) ==
    \/ PostFind(c) \/ CallProceeds(c)
    \/ GetStatus(c) \/ EnqueueDirectly(c) \/ CallFails(c)
=============================================================================
