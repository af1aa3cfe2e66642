---------------------------- MODULE HealthCheck -----------------------------
(***************************************************************************)
(* src/api/routers/health.py: one check after the other while components   *)
(* go down and come back between its four pings.                           *)
(***************************************************************************)
EXTENDS Naturals

CONSTANT MaxChanges  \* bound: components going down or coming back

ASSUME HealthAssumption == MaxChanges \in Nat

VARIABLES up,       \* the components that are up
          hpc,      \* the next step of the check
          errors,   \* the components whose ping raised
          code,     \* the HTTP status of the answer, 0 before it
          wasUp,    \* components seen up since the check began (history)
          changes   \* how often a component went down or came back

healthVars == <<up, hpc, errors, code, wasUp, changes>>

Components == {"database", "cache", "worker", "vector_db"}

HealthInit ==
    /\ up \in SUBSET Components
    /\ hpc = "idle"
    /\ errors = {}
    /\ code = 0
    /\ wasUp = up
    /\ changes = 0

Step(from, to) == hpc = from /\ hpc' = to /\ UNCHANGED <<up, wasUp, changes>>

\* A check begins, with every component as it is then.
BeginCheck ==
    /\ hpc \in {"idle", "answered"} /\ hpc' = "database"
    /\ errors' = {} /\ code' = 0
    /\ wasUp' = up
    /\ UNCHANGED <<up, changes>>

\* The ping of component c raises exactly if what it needs is not up.
Ping(c, needs, to) ==
    /\ Step(c, to)
    /\ errors' = IF needs \in up THEN errors ELSE errors \cup {c}
    /\ UNCHANGED code

PingDatabase == Ping("database", "database", "cache")

PingCache == Ping("cache", "cache", "worker")

\* control.ping broadcasts through Redis and collects replies for a second; it
\* raises without Redis and returns an empty list without workers.
PingWorkers == Ping("worker", "cache", "vector_db")

PingVectorDb == Ping("vector_db", "vector_db", "answer")

\* Mutant of Answer: the vector database is left out of the verdict.
AnswerWithoutVectorDb ==
    /\ Step("answer", "answered")
    /\ code' = IF errors \ {"vector_db"} = {} THEN 200 ELSE 503
    /\ UNCHANGED errors

Answer ==
    /\ Step("answer", "answered")
    /\ code' = IF errors = {} THEN 200 ELSE 503
    /\ UNCHANGED errors

Change ==
    /\ changes < MaxChanges /\ changes' = changes + 1
    /\ \E c \in Components : up' = IF c \in up THEN up \ {c} ELSE up \cup {c}
    /\ wasUp' = wasUp \cup up'
    /\ UNCHANGED <<hpc, errors, code>>

HealthNext ==
    \/ BeginCheck \/ PingDatabase \/ PingCache \/ PingWorkers \/ PingVectorDb
    \/ Answer \/ Change

HealthSpec == HealthInit /\ [][HealthNext]_healthVars

-----------------------------------------------------------------------------
\* An outage of MongoDB, Redis or Qdrant that lasts as long as the check is
\* reported: 200 says that each of them was up at some time during it.
OutagesReported ==
    hpc = "answered" /\ code = 200 => {"database", "cache", "vector_db"} \subseteq wasUp

\* DESIGN.md:98, "`/health` ping backs DB, Redis, and Celery, returning `503` if
\* any component is degraded": the workers, too, were up at some time.  They need
\* not be: an empty list of replies raises nothing and counts as "running"
\* (health.py:40).
AnyOutageReported == hpc = "answered" /\ code = 200 => Components \subseteq wasUp
=============================================================================
