---------------------------- MODULE RequestIndex ----------------------------
(***************************************************************************)
(* Whether a (user_id, prompt_id) has one document.  The other modules     *)
(* take it for granted; here are the documents of the collection one by    *)
(* one, the unique index, which an API process tries to create when it     *)
(* starts (src/api/main.py, init_mongodb_indexes), and the two steps of an *)
(* upsert or of find_one and insert_one, between which others may insert.  *)
(* No document is deleted, and none is written before an API process has   *)
(* served, whose calls publish the tasks: the workers go on with those     *)
(* when it stops.  A script that publishes tasks itself is left aside.     *)
(***************************************************************************)
EXTENDS Naturals

CONSTANTS Pairs,         \* (user_id, prompt_id) pairs
          NoPair,        \* the pair of an unused document id
          DocIds,        \* document ids
          ApiProcesses,  \* API processes, started and stopped at any time
          Writers,       \* calls and tasks that upsert or insert
          InitScript,    \* whether scripts/mongodb-init has run
          MaxFailures    \* bound: index creations that fail for no reason here

ASSUME IndexAssumption ==
    NoPair \notin Pairs /\ InitScript \in BOOLEAN /\ MaxFailures \in Nat

VARIABLES index,     \* "none", or the index on the pair: "plain" or "unique"
          pairOf,    \* pairOf[d]: the pair of document d
          serving,   \* API processes that serve requests
          indexed,   \* those that logged that the indexes exist (history)
          absent,    \* absent[w]: the pair w has found no document of
          failures   \* how many index creations have failed

indexVars == <<index, pairOf, serving, indexed, absent, failures>>

DocsOf(k) == {d \in DocIds : pairOf[d] = k}

Duplicates == \E k \in Pairs : \E d, e \in DocsOf(k) : d # e

IndexInit ==
    /\ index = IF InitScript THEN "unique" ELSE "none"
    /\ pairOf = [d \in DocIds |-> NoPair]
    /\ serving = {}
    /\ indexed = {}
    /\ absent = [w \in Writers |-> NoPair]
    /\ failures = 0

\* Mutant of CreateIndex: create_index without unique=True.
CreatePlainIndex == index' = "plain"

\* create_index: it does nothing if the index exists, and fails if documents
\* violate it.
CreateIndex == ~Duplicates /\ index' = "unique"

\* An API process starts and creates the index ...
StartIndexed(p) ==
    /\ p \notin serving
    /\ CreateIndex
    /\ serving' = serving \cup {p}
    /\ indexed' = indexed \cup {p}
    /\ UNCHANGED <<pairOf, absent, failures>>

\* ... or MongoDB cannot be reached or refuses, which is logged, and the
\* process serves all the same.
StartUnindexed(p) ==
    /\ p \notin serving
    /\ \/ failures < MaxFailures /\ failures' = failures + 1
       \/ Duplicates /\ UNCHANGED failures
    /\ serving' = serving \cup {p}
    /\ UNCHANGED <<index, pairOf, indexed, absent>>

StopProcess(p) ==
    /\ p \in serving
    /\ serving' = serving \ {p}
    /\ UNCHANGED <<index, pairOf, indexed, absent, failures>>

\* An API process has served: the index was created then, or its creation failed.
Opened == indexed # {} \/ failures > 0

\* The filter of an upsert, or find_one, matches nothing.  A writer that finds
\* a document updates it, which changes nothing here.
FindNone(w, k) ==
    /\ Opened
    /\ absent[w] = NoPair
    /\ DocsOf(k) = {}
    /\ absent' = [absent EXCEPT ![w] = k]
    /\ UNCHANGED <<index, pairOf, serving, indexed, failures>>

\* The document is inserted, unless that violates a unique index: then
\* MongoDB repeats the upsert, the task catches DuplicateKeyError and finds
\* the document.
InsertOne(w) ==
    LET k == absent[w]
    IN  /\ k # NoPair
        /\ \/ /\ index = "unique" => DocsOf(k) = {}
              /\ \E d \in DocsOf(NoPair) : pairOf' = [pairOf EXCEPT ![d] = k]
           \/ index = "unique" /\ DocsOf(k) # {} /\ UNCHANGED pairOf
        /\ absent' = [absent EXCEPT ![w] = NoPair]
        /\ UNCHANGED <<index, serving, indexed, failures>>

IndexNext ==
    \/ \E p \in ApiProcesses : StartIndexed(p) \/ StartUnindexed(p) \/ StopProcess(p)
    \/ \E w \in Writers : InsertOne(w) \/ \E k \in Pairs : FindNone(w, k)

IndexSpec == IndexInit /\ [][IndexNext]_indexVars

-----------------------------------------------------------------------------
OneDocument ==
    \A d, e \in DocIds : pairOf[d] # NoPair /\ pairOf[d] = pairOf[e] => d = e

\* Once any API process has logged that the indexes exist, or the script for
\* the MongoDB container has run, every pair has one document, for good:
\* whatever processes without the index wrote before, whoever writes after,
\* and writers that found nothing while there was no index yet.
IndexedMeansOne == indexed # {} \/ InitScript => OneDocument

\* IndexedMeansOne made inductive.
IndexInductive ==
    /\ index \in {"none", "unique"}
    /\ pairOf \in [DocIds -> Pairs \cup {NoPair}]
    /\ absent \in [Writers -> Pairs \cup {NoPair}]
    /\ indexed # {} \/ InitScript => index = "unique"
    /\ index = "unique" => OneDocument
=============================================================================
