---------------------------- MODULE HealthProofs ----------------------------
(***************************************************************************)
(* Proofs about HealthCheck: its verdict is right about every component    *)
(* that answers its ping for itself, however the components change.        *)
(***************************************************************************)
EXTENDS HealthCheck, TLAPS

\* The components that the check has pinged.
Pinged ==
    CASE hpc = "cache" -> {"database"}
      [] hpc = "worker" -> {"database", "cache"}
      [] hpc = "vector_db" -> {"database", "cache", "worker"}
      [] hpc \in {"answer", "answered"} -> Components
      [] OTHER -> {}

\* What the ping of a component depends on: the workers are asked through Redis.
Needs(c) == IF c = "worker" THEN "cache" ELSE c

\* The verdict made inductive: each ping told the truth at its time.
HealthInductive ==
    /\ hpc \in {"idle", "answer", "answered"} \cup Components
    /\ up \subseteq wasUp
    /\ errors \subseteq Pinged
    /\ \A c \in Pinged \ errors : Needs(c) \in wasUp
    /\ hpc = "answered" => code = IF errors = {} THEN 200 ELSE 503

\* The initial states: no check has begun.
LEMMA HealthInitInductive == HealthInit => HealthInductive
  BY DEF HealthInit, HealthInductive, Pinged, Components

\* A ping extends what is known by one component.
LEMMA PingKeeps ==
    ASSUME HealthInductive, NEW c \in Components, NEW to, Ping(c, Needs(c), to), hpc = c,
           to \in {"answer"} \cup Components, Pinged' = Pinged \cup {c}
    PROVE  HealthInductive'
<1>1. /\ UNCHANGED <<up, wasUp>> /\ hpc' = to
      /\ errors' = IF Needs(c) \in up THEN errors ELSE errors \cup {c}
  BY DEF Ping, Step
<1>2. Needs(c) \in Components
  BY DEF Needs, Components
<1>3. \A d \in Pinged' \ errors' : Needs(d) \in wasUp'
  BY <1>1, <1>2 DEF HealthInductive
<1>4. errors' \subseteq Pinged'
  BY <1>1 DEF HealthInductive
<1>5. hpc' # "answered"
  BY <1>1 DEF Components
<1>6. hpc' \in {"idle", "answer", "answered"} \cup Components /\ up' \subseteq wasUp'
  BY <1>1 DEF HealthInductive
<1> QED
  BY <1>3, <1>4, <1>5, <1>6 DEF HealthInductive

\* Every step of the check, and every change of a component, keeps the invariant.
LEMMA HealthStep ==
    ASSUME HealthInductive, [HealthNext]_healthVars
    PROVE  HealthInductive'
<1>1. CASE BeginCheck
  BY <1>1 DEF BeginCheck, HealthInductive, Pinged, Components
<1>2. CASE PingDatabase
  <2>1. hpc = "database" /\ hpc' = "cache" /\ Needs("database") = "database"
    BY <1>2 DEF PingDatabase, Ping, Step, Needs
  <2>2. Pinged' = Pinged \cup {"database"}
    BY <2>1 DEF Pinged
  <2> QED
    BY <1>2, <2>1, <2>2, PingKeeps DEF PingDatabase, Components
<1>3. CASE PingCache
  <2>1. hpc = "cache" /\ hpc' = "worker" /\ Needs("cache") = "cache"
    BY <1>3 DEF PingCache, Ping, Step, Needs
  <2>2. Pinged' = Pinged \cup {"cache"}
    BY <2>1 DEF Pinged
  <2> QED
    BY <1>3, <2>1, <2>2, PingKeeps DEF PingCache, Components
<1>4. CASE PingWorkers
  <2>1. hpc = "worker" /\ hpc' = "vector_db" /\ Needs("worker") = "cache"
    BY <1>4 DEF PingWorkers, Ping, Step, Needs
  <2>2. Pinged' = Pinged \cup {"worker"}
    BY <2>1 DEF Pinged
  <2> QED
    BY <1>4, <2>1, <2>2, PingKeeps DEF PingWorkers, Components
<1>5. CASE PingVectorDb
  <2>1. hpc = "vector_db" /\ hpc' = "answer" /\ Needs("vector_db") = "vector_db"
    BY <1>5 DEF PingVectorDb, Ping, Step, Needs
  <2>2. Pinged' = Pinged \cup {"vector_db"}
    BY <2>1 DEF Pinged, Components
  <2> QED
    BY <1>5, <2>1, <2>2, PingKeeps DEF PingVectorDb, Components
<1>6. CASE Answer
  <2>1. hpc = "answer" /\ hpc' = "answered" /\ UNCHANGED <<up, wasUp, errors>>
    BY <1>6 DEF Answer, Step
  <2>2. Pinged' = Pinged
    BY <2>1 DEF Pinged
  <2> QED
    BY <1>6, <2>1, <2>2 DEF Answer, HealthInductive
<1>7. CASE Change
  <2>1. UNCHANGED <<hpc, errors, code>> /\ wasUp \subseteq wasUp'
    BY <1>7 DEF Change
  <2>2. Pinged' = Pinged
    BY <2>1 DEF Pinged
  <2>3. up' \subseteq wasUp'
    BY <1>7 DEF Change
  <2> QED
    BY <2>1, <2>2, <2>3 DEF HealthInductive
<1>8. CASE UNCHANGED healthVars
  BY <1>8 DEF healthVars, HealthInductive, Pinged
<1> QED
  BY <1>1, <1>2, <1>3, <1>4, <1>5, <1>6, <1>7, <1>8 DEF HealthNext

\* 200 says that MongoDB, Redis and Qdrant were each up at some time of the
\* check, whatever changed meanwhile: an outage that lasts is reported.
THEOREM OutagesAreReported == HealthSpec => []OutagesReported
<1>1. HealthInductive => OutagesReported
  <2> SUFFICES ASSUME HealthInductive, hpc = "answered", code = 200
               PROVE  {"database", "cache", "vector_db"} \subseteq wasUp
    BY DEF OutagesReported
  <2>1. Pinged = Components
    BY DEF Pinged
  <2>2. errors = {}
    BY DEF HealthInductive
  <2>3. \A c \in {"database", "cache", "vector_db"} : Needs(c) = c /\ c \in Pinged \ errors
    BY <2>1, <2>2 DEF Needs, Components
  <2> QED
    BY <2>3 DEF HealthInductive
<1> QED
  BY <1>1, HealthInitInductive, HealthStep, PTL DEF HealthSpec
=============================================================================
