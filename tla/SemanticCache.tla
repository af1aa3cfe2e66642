--------------------------- MODULE SemanticCache ----------------------------
(***************************************************************************)
(* src/services/semantic_cache.py and src/services/qdrant_client.py: a     *)
(* lookup is a search for the best point followed by a look at its age, a  *)
(* recorded hit is a read of the payload followed by a write of all of it. *)
(***************************************************************************)
EXTENDS Prompts

CONSTANTS Score,      \* Score[<<s, t>>]: cosine similarity of two texts
          Threshold,  \* similarity_threshold
          Lookback,   \* lookback_window
          MaxTime,    \* bound on the clock
          MaxHits,    \* bound on the hits recorded per point
          Clients,    \* threads of the API and worker processes
          Open        \* the outcome of a lookup that has none (yet)

ASSUME CacheAssumption ==
    /\ Score \in [Texts \X Texts -> Nat]
    /\ Threshold \in Nat /\ Lookback \in Nat /\ MaxTime \in Nat
    /\ MaxHits \in Nat
    /\ Similar = {e \in Texts \X Texts : Score[e] >= Threshold}
    /\ Open \notin Points \cup {NoPoint}

VARIABLES now,       \* the time
          payload,   \* payload[p]: the payload of point p
          step,      \* step[c]: what client c does next
          text,      \* text[c]: the text it looks up
          found,     \* found[c]: the point its search or its get returned
          copy,      \* copy[c]: the payload it read last
          recorded,  \* recorded[p]: completed calls of record_hit (history)
          contended  \* points at which two such calls overlapped (history)

clientVars == <<step, text, found, copy>>
historyVars == <<recorded, contended>>
detailVars == <<now, payload, clientVars, historyVars>>

Payload == [text : Texts \cup {NoText}, created : Nat, hits : Nat]

\* The payload of a point that is not stored, and the copy of a client that
\* has read none.
NoPayload == [text |-> NoText, created |-> 0, hits |-> 0]

Kept == {p \in Points : payload[p].text # NoText}

DetailInit ==
    /\ now = 0
    /\ payload = [p \in Points |-> NoPayload]
    /\ step = [c \in Clients |-> "idle"]
    /\ text = [c \in Clients |-> NoText]
    /\ found = [c \in Clients |-> NoPoint]
    /\ copy = [c \in Clients |-> NoPayload]
    /\ recorded = [p \in Points |-> 0]
    /\ contended = {}

\* Client c goes on to step s with text t, point p and payload d.
To(c, s, t, p, d) ==
    /\ step' = [step EXCEPT ![c] = s]
    /\ text' = [text EXCEPT ![c] = t]
    /\ found' = [found EXCEPT ![c] = p]
    /\ copy' = [copy EXCEPT ![c] = d]

Idle(c) == To(c, "idle", NoText, NoPoint, NoPayload)

Begin(c) ==
    /\ step[c] = "idle"
    /\ \E t \in Texts : To(c, "search", t, NoPoint, NoPayload)
    /\ UNCHANGED <<now, payload, historyVars>>

ScoreFor(c, p) == Score[<<payload[p].text, text[c]>>]

\* The stored points that reach the threshold.
Above(c) == {p \in Kept : ScoreFor(c, p) >= Threshold}

\* query_points with limit 1: the best of them, any one when several are best.
Search(c) ==
    /\ step[c] = "search"
    /\ \/ Above(c) = {} /\ To(c, "missed", text[c], NoPoint, NoPayload)
       \/ \E p \in Above(c) :
             /\ \A q \in Above(c) : ScoreFor(c, q) <= ScoreFor(c, p)
             /\ To(c, "judge", text[c], p, payload[p])
    /\ UNCHANGED <<now, payload, historyVars>>

Stale(created) == created + Lookback < now

\* Mutant of Judge: the age of the point is not looked at.
JudgeAnyAge(c) ==
    /\ step[c] = "judge"
    /\ To(c, "hit", text[c], found[c], NoPayload)
    /\ UNCHANGED <<now, payload, historyVars>>

\* Mutant of Judge: a stale point is a miss, but not forgotten.
JudgeKeepsPoint(c) ==
    /\ step[c] = "judge"
    /\ To(c, IF Stale(copy[c].created) THEN "missed" ELSE "hit", text[c], found[c], NoPayload)
    /\ UNCHANGED <<now, payload, historyVars>>

\* A point older than the lookback window is a miss.
Judge(c) ==
    /\ step[c] = "judge"
    /\ IF Stale(copy[c].created)
       THEN To(c, "missed", text[c], NoPoint, NoPayload)
       ELSE To(c, "hit", text[c], found[c], NoPayload)
    /\ UNCHANGED <<now, payload, historyVars>>

\* get: the answer a completed document names, however old, is read by its id
\* and its hit recorded.
Get(c) ==
    /\ step[c] = "idle"
    /\ \E p \in Kept : To(c, "hit", NoText, p, NoPayload)
    /\ UNCHANGED <<now, payload, historyVars>>

\* record_hit, update_hit_count: the payload is read ...
HitRead(c) ==
    /\ step[c] = "hit"
    /\ recorded[found[c]] < MaxHits
    /\ To(c, "write", text[c], found[c], payload[found[c]])
    /\ contended' = IF \E d \in Clients : step[d] = "write" /\ found[d] = found[c]
                    THEN contended \cup {found[c]} ELSE contended
    /\ UNCHANGED <<now, payload, recorded>>

\* Mutant of HitWrite: the count starts again.
HitWriteOne(c) ==
    /\ step[c] = "write"
    /\ payload' = [payload EXCEPT ![found[c]] = [copy[c] EXCEPT !.hits = 1]]
    /\ recorded' = [recorded EXCEPT ![found[c]] = @ + 1]
    /\ Idle(c)
    /\ UNCHANGED <<now, contended>>

\* ... and written back as a whole with one more hit, whether or not the reply
\* arrives.
HitWrite(c) ==
    /\ step[c] = "write"
    /\ payload' = [payload EXCEPT ![found[c]] = [copy[c] EXCEPT !.hits = @ + 1]]
    /\ recorded' = [recorded EXCEPT ![found[c]] = @ + 1]
    /\ Idle(c)
    /\ UNCHANGED <<now, contended>>

\* A worker that found nothing stores the answer it generated, whether or not
\* the reply arrives.
StoreAnswer(c) ==
    /\ step[c] = "missed"
    /\ \E p \in Points \ Kept :
          payload' = [payload EXCEPT ![p] = [text |-> text[c], created |-> now, hits |-> 0]]
    /\ Idle(c)
    /\ UNCHANGED <<now, historyVars>>

\* The API, which stores nothing, goes on after a miss; a remote call raises;
\* the process dies.
Stop(c) ==
    /\ step[c] # "idle"
    /\ Idle(c)
    /\ UNCHANGED <<now, payload, historyVars>>

ClientStep(c) ==
    \/ Begin(c) \/ Search(c) \/ Judge(c) \/ Get(c) \/ HitRead(c) \/ HitWrite(c)
    \/ StoreAnswer(c) \/ Stop(c)

PassTime == now < MaxTime /\ now' = now + 1 /\ UNCHANGED <<payload, clientVars, historyVars>>

DetailNext == (\E c \in Clients : ClientStep(c)) \/ PassTime

DetailSpec == DetailInit /\ [][DetailNext]_detailVars

-----------------------------------------------------------------------------
DetailTypeOK ==
    /\ now \in Nat
    /\ payload \in [Points -> Payload]
    /\ step \in [Clients -> {"idle", "search", "judge", "hit", "write", "missed"}]
    /\ text \in [Clients -> Texts \cup {NoText}]
    /\ found \in [Clients -> Points \cup {NoPoint}]
    /\ copy \in [Clients -> Payload]
    /\ recorded \in [Points -> Nat]
    /\ contended \in SUBSET Points
    /\ \A c \in Clients :
          /\ step[c] = "idle" => text[c] = NoText
          /\ step[c] \in {"search", "judge", "missed"} => text[c] # NoText
          /\ found[c] # NoPoint <=> step[c] \in {"judge", "hit", "write"}

\* Calls of record_hit may lose each other's increments, and a slow one may
\* even lower the count, but only where two of them overlapped; the count is
\* never above the hits recorded and never back at zero.
HitsCounted ==
    \A p \in Points :
        /\ payload[p].hits <= recorded[p]
        /\ recorded[p] > 0 => payload[p].hits > 0
        /\ p \notin contended => payload[p].hits = recorded[p]

\* The state of the abstract cache.
TextAt == [p \in Points |-> payload[p].text]

StaleNow == {p \in Kept : Stale(payload[p].created)}

Outcome ==
    [c \in Clients |-> IF text[c] = NoText THEN Open
                       ELSE IF step[c] \in {"hit", "write"} THEN found[c]
                       ELSE IF step[c] = "missed" THEN NoPoint ELSE Open]

Atomic == INSTANCE AtomicCache WITH
    points <- TextAt, stale <- StaleNow, asked <- text, got <- Outcome

\* The two-step lookup and the two-step record_hit are an atomic cache: no
\* answer is returned that was stale at the time or is not above the threshold,
\* a miss has one of the two reasons, and writing a payload back never changes
\* an answer or its age.
ImplementsAtomicCache == Atomic!AtomicSpec
=============================================================================
