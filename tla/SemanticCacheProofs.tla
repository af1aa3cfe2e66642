------------------------ MODULE SemanticCacheProofs -------------------------
(***************************************************************************)
(* Proofs about SemanticCache, for any number of clients, points, texts    *)
(* and hits: its types, the bounds on a hit count that loses increments,   *)
(* and that it implements AtomicCache.                                     *)
(***************************************************************************)
EXTENDS SemanticCache, TLAPS

\* The point a client goes on with is stored and, if it was looked up, reaches
\* the threshold, and the payload it read says of its answer what the point
\* still says.
FoundIsKept ==
    \A c \in Clients :
        /\ step[c] \in {"judge", "hit", "write"} =>
              /\ found[c] \in Kept
              /\ text[c] # NoText => <<payload[found[c]].text, text[c]>> \in Similar
        /\ step[c] \in {"judge", "write"} =>
              /\ copy[c].text = payload[found[c]].text
              /\ copy[c].created = payload[found[c]].created

\* HitsCounted made inductive: what a client is about to write counts no more
\* than the hits recorded, and exactly these if nobody else is about to write.
CopyCounts ==
    /\ \A p \in Points : p \notin Kept => recorded[p] = 0 /\ payload[p].hits = 0
    /\ \A c \in Clients : step[c] = "write" =>
          /\ copy[c].hits <= recorded[found[c]]
          /\ found[c] \notin contended =>
                /\ copy[c].hits = recorded[found[c]]
                /\ \A d \in Clients : step[d] = "write" /\ found[d] = found[c] => d = c

DetailInductive == DetailTypeOK /\ FoundIsKept /\ CopyCounts /\ HitsCounted

\* What To writes, client by client.
LEMMA ToWrites ==
    ASSUME DetailTypeOK, NEW c \in Clients,
           NEW s, NEW t, NEW p, NEW d, To(c, s, t, p, d)
    PROVE  \A e \in Clients :
              /\ step'[e] = IF e = c THEN s ELSE step[e]
              /\ text'[e] = IF e = c THEN t ELSE text[e]
              /\ found'[e] = IF e = c THEN p ELSE found[e]
              /\ copy'[e] = IF e = c THEN d ELSE copy[e]
  BY DEF To, DetailTypeOK

\* To keeps the types when it is given values of the types.
LEMMA ToTypes ==
    ASSUME DetailTypeOK, NEW c \in Clients,
           NEW s \in {"idle", "search", "judge", "hit", "write", "missed"},
           NEW t \in Texts \cup {NoText}, NEW p \in Points \cup {NoPoint},
           NEW d \in Payload, To(c, s, t, p, d),
           s = "idle" => t = NoText,
           s \in {"search", "judge", "missed"} => t # NoText,
           p # NoPoint <=> s \in {"judge", "hit", "write"},
           now' \in Nat, payload' \in [Points -> Payload],
           recorded' \in [Points -> Nat], contended' \in SUBSET Points
    PROVE  DetailTypeOK'
<1>1. /\ step' \in [Clients -> {"idle", "search", "judge", "hit", "write", "missed"}]
      /\ text' \in [Clients -> Texts \cup {NoText}]
      /\ found' \in [Clients -> Points \cup {NoPoint}]
      /\ copy' \in [Clients -> Payload]
  BY DEF To, DetailTypeOK
<1>2. \A e \in Clients :
          /\ step'[e] = "idle" => text'[e] = NoText
          /\ step'[e] \in {"search", "judge", "missed"} => text'[e] # NoText
          /\ found'[e] # NoPoint <=> step'[e] \in {"judge", "hit", "write"}
  BY ToWrites DEF DetailTypeOK
<1> QED
  BY <1>1, <1>2 DEF DetailTypeOK

\* The payload of a point that is not stored is a payload.
LEMMA NoPayloadType == NoPayload \in Payload
  BY DEF NoPayload, Payload

\* Adding a hit to a payload changes nothing else of it.
LEMMA OneMoreType ==
    ASSUME NEW d \in Payload
    PROVE  /\ [d EXCEPT !.hits = @ + 1] \in Payload
           /\ [d EXCEPT !.hits = @ + 1].text = d.text
           /\ [d EXCEPT !.hits = @ + 1].created = d.created
           /\ [d EXCEPT !.hits = @ + 1].hits = d.hits + 1
  BY DEF Payload

\* The first state satisfies the inductive invariant.
LEMMA DetailInitInductive == DetailInit => DetailInductive
  BY PromptsAssumption, NoPayloadType
     DEF DetailInit, DetailInductive, DetailTypeOK, FoundIsKept, CopyCounts,
         HitsCounted, Kept, NoPayload

\* Every step keeps the types.
LEMMA StepTypes ==
    ASSUME DetailTypeOK, [DetailNext]_detailVars
    PROVE  DetailTypeOK'
<1> USE PromptsAssumption, NoPayloadType
<1>1. ASSUME NEW c \in Clients, Begin(c) PROVE DetailTypeOK'
  <2>1. PICK t \in Texts : To(c, "search", t, NoPoint, NoPayload)
    BY <1>1 DEF Begin
  <2> QED
    BY <1>1, <2>1, ToTypes DEF Begin, DetailTypeOK, historyVars
<1>2. ASSUME NEW c \in Clients, Search(c) PROVE DetailTypeOK'
  <2>1. text[c] \in Texts
    BY <1>2 DEF Search, DetailTypeOK
  <2>2. /\ now' \in Nat /\ payload' \in [Points -> Payload]
        /\ recorded' \in [Points -> Nat] /\ contended' \in SUBSET Points
    BY <1>2 DEF Search, DetailTypeOK, historyVars
  <2>3. CASE To(c, "missed", text[c], NoPoint, NoPayload)
    BY <2>1, <2>2, <2>3, ToTypes
  <2>4. ASSUME NEW p \in Points, To(c, "judge", text[c], p, payload[p])
        PROVE  DetailTypeOK'
    <3>1. payload[p] \in Payload
      BY DEF DetailTypeOK
    <3> QED
      BY <2>1, <2>2, <2>4, <3>1, ToTypes
  <2> QED
    BY <1>2, <2>3, <2>4 DEF Search, Above, Kept
<1>3. ASSUME NEW c \in Clients, Judge(c) PROVE DetailTypeOK'
  <2>1. text[c] \in Texts /\ found[c] \in Points
    BY <1>3 DEF Judge, DetailTypeOK
  <2> QED
    BY <1>3, <2>1, ToTypes DEF Judge, DetailTypeOK, historyVars
<1>4. ASSUME NEW c \in Clients, HitRead(c) PROVE DetailTypeOK'
  <2>1. text[c] \in Texts \cup {NoText} /\ found[c] \in Points /\ payload[found[c]] \in Payload
    BY <1>4 DEF HitRead, DetailTypeOK
  <2>2. /\ now' \in Nat /\ payload' \in [Points -> Payload]
        /\ recorded' \in [Points -> Nat] /\ contended' \in SUBSET Points
    BY <1>4, <2>1 DEF HitRead, DetailTypeOK
  <2>3. To(c, "write", text[c], found[c], payload[found[c]])
    BY <1>4 DEF HitRead
  <2> QED
    BY <2>1, <2>2, <2>3, ToTypes
<1>5. ASSUME NEW c \in Clients, HitWrite(c) PROVE DetailTypeOK'
  <2>1. found[c] \in Points /\ copy[c] \in Payload
    BY <1>5 DEF HitWrite, DetailTypeOK
  <2>2. payload' \in [Points -> Payload] /\ recorded' \in [Points -> Nat]
    BY <1>5, <2>1, OneMoreType DEF HitWrite, DetailTypeOK
  <2>3. now' \in Nat /\ contended' \in SUBSET Points
    BY <1>5 DEF HitWrite, DetailTypeOK
  <2>4. To(c, "idle", NoText, NoPoint, NoPayload)
    BY <1>5 DEF HitWrite, Idle
  <2> QED
    BY <2>2, <2>3, <2>4, ToTypes
<1>6. ASSUME NEW c \in Clients, StoreAnswer(c) PROVE DetailTypeOK'
  <2>1. PICK p \in Points :
            payload' = [payload EXCEPT ![p] = [text |-> text[c], created |-> now, hits |-> 0]]
    BY <1>6 DEF StoreAnswer
  <2>2. [text |-> text[c], created |-> now, hits |-> 0] \in Payload
    BY DEF DetailTypeOK, Payload
  <2>3. payload' \in [Points -> Payload]
    BY <2>1, <2>2 DEF DetailTypeOK
  <2> QED
    BY <1>6, <2>3, ToTypes DEF StoreAnswer, Idle, DetailTypeOK, historyVars
<1>7. ASSUME NEW c \in Clients, Stop(c) PROVE DetailTypeOK'
  BY <1>7, ToTypes DEF Stop, Idle, DetailTypeOK, historyVars
<1>8. ASSUME NEW c \in Clients, Get(c) PROVE DetailTypeOK'
  <2>1. PICK p \in Points : To(c, "hit", NoText, p, NoPayload)
    BY <1>8 DEF Get, Kept
  <2> QED
    BY <1>8, <2>1, ToTypes DEF Get, DetailTypeOK, historyVars
<1>9. CASE PassTime
  BY <1>9 DEF PassTime, DetailTypeOK, clientVars, historyVars
<1>10. CASE UNCHANGED detailVars
  BY <1>10 DEF detailVars, DetailTypeOK, clientVars, historyVars
<1> QED
  BY <1>1, <1>2, <1>3, <1>4, <1>5, <1>6, <1>7, <1>8, <1>9, <1>10 DEF DetailNext, ClientStep

\* A stored answer stays as it is, and as old as it is: payloads are written
\* back from a copy, but a copy differs in the hits only.
LEMMA AnswersStay ==
    ASSUME DetailInductive, [DetailNext]_detailVars
    PROVE  \A p \in Kept : /\ p \in Kept'
                           /\ payload'[p].text = payload[p].text
                           /\ payload'[p].created = payload[p].created
<1> USE DEF Kept
<1>1. ASSUME NEW c \in Clients, HitWrite(c)
      PROVE  \A p \in Points : /\ payload'[p].text = payload[p].text
                               /\ payload'[p].created = payload[p].created
  <2>1. /\ found[c] \in Points /\ copy[c] \in Payload
        /\ copy[c].text = payload[found[c]].text
        /\ copy[c].created = payload[found[c]].created
    BY <1>1 DEF HitWrite, DetailInductive, DetailTypeOK, FoundIsKept
  <2> QED
    BY <1>1, <2>1, OneMoreType DEF HitWrite, DetailInductive, DetailTypeOK
<1>2. ASSUME NEW c \in Clients, StoreAnswer(c)
      PROVE  \A p \in Kept : payload'[p] = payload[p]
  BY <1>2 DEF StoreAnswer, DetailInductive, DetailTypeOK
<1>3. \/ UNCHANGED payload
      \/ \E c \in Clients : HitWrite(c) \/ StoreAnswer(c)
  BY DEF DetailNext, ClientStep, Begin, Search, Judge, Get, HitRead, Stop, PassTime, detailVars
<1> QED
  BY <1>1, <1>2, <1>3

\* A step leaves the other clients alone, except that it may store payloads.
LEMMA OthersStay ==
    ASSUME DetailInductive, NEW c \in Clients, ClientStep(c), NEW e \in Clients, e # c
    PROVE  /\ step'[e] = step[e] /\ text'[e] = text[e]
           /\ found'[e] = found[e] /\ copy'[e] = copy[e]
  BY ToWrites DEF DetailInductive, ClientStep, Begin, Search, Judge, Get, HitRead, HitWrite,
         StoreAnswer, Stop, Idle, To, DetailTypeOK

\* Every step keeps FoundIsKept: a point that a search has returned stays stored
\* with its text and its age.
LEMMA StepKeepsFound ==
    ASSUME DetailInductive, [DetailNext]_detailVars
    PROVE  FoundIsKept'
<1> DEFINE Safe(e) ==
        /\ step[e] \in {"judge", "hit", "write"} =>
              /\ found[e] \in Kept
              /\ text[e] # NoText => <<payload[found[e]].text, text[e]>> \in Similar
        /\ step[e] \in {"judge", "write"} =>
              /\ copy[e].text = payload[found[e]].text
              /\ copy[e].created = payload[found[e]].created
<1>1. \A e \in Clients : Safe(e)
  BY DEF DetailInductive, FoundIsKept
<1>2. ASSUME NEW e \in Clients,
             step'[e] = step[e], text'[e] = text[e], found'[e] = found[e], copy'[e] = copy[e]
      PROVE  Safe(e)'
  BY <1>1, <1>2, AnswersStay DEF Kept
<1>3. ASSUME NEW c \in Clients, ClientStep(c)
      PROVE  Safe(c)'
  <2>1. CASE step'[c] \in {"idle", "search", "missed"}
    BY <2>1
  <2>2. CASE Search(c)
    <3>1. ASSUME NEW p \in Above(c), To(c, "judge", text[c], p, payload[p])
          PROVE  Safe(c)'
      <4>1. <<payload[p].text, text[c]>> \in Similar /\ p \in Kept
        BY <2>2, CacheAssumption
           DEF Search, Above, ScoreFor, Kept, DetailInductive, DetailTypeOK, Payload
      <4>2. /\ step'[c] = "judge" /\ text'[c] = text[c]
            /\ found'[c] = p /\ copy'[c] = payload[p]
        BY <3>1, ToWrites DEF DetailInductive
      <4> QED
        BY <2>2, <4>1, <4>2 DEF Search, Kept
    <3>2. CASE To(c, "missed", text[c], NoPoint, NoPayload)
      BY <2>1, <3>2, ToWrites DEF DetailInductive
    <3> QED
      BY <2>2, <3>1, <3>2 DEF Search
  <2>3. CASE Judge(c)
    <3>1. CASE To(c, "missed", text[c], NoPoint, NoPayload)
      BY <2>1, <3>1, ToWrites DEF DetailInductive
    <3>2. CASE To(c, "hit", text[c], found[c], NoPayload)
      <4>1. step'[c] = "hit" /\ text'[c] = text[c] /\ found'[c] = found[c]
        BY <3>2, ToWrites DEF DetailInductive
      <4> QED
        BY <1>1, <2>3, <4>1 DEF Judge, Kept
    <3> QED
      BY <2>3, <3>1, <3>2 DEF Judge
  <2>4. CASE HitRead(c)
    <3>1. /\ step'[c] = "write" /\ text'[c] = text[c]
          /\ found'[c] = found[c] /\ copy'[c] = payload[found[c]]
      BY <2>4, ToWrites DEF HitRead, DetailInductive
    <3> QED
      BY <1>1, <2>4, <3>1 DEF HitRead, Kept
  <2>5. CASE Begin(c) \/ HitWrite(c) \/ StoreAnswer(c) \/ Stop(c)
    <3>1. step'[c] \in {"idle", "search"}
      BY <2>5, ToWrites DEF Begin, HitWrite, StoreAnswer, Stop, Idle, DetailInductive
    <3> QED
      BY <2>1, <3>1
  <2>6. CASE Get(c)
    <3>1. PICK p \in Kept : To(c, "hit", NoText, p, NoPayload)
      BY <2>6 DEF Get
    <3>2. step'[c] = "hit" /\ text'[c] = NoText /\ found'[c] = p
      BY <3>1, ToWrites DEF DetailInductive
    <3> QED
      BY <2>6, <3>1, <3>2 DEF Get, Kept
  <2> QED
    BY <1>3, <2>2, <2>3, <2>4, <2>5, <2>6 DEF ClientStep
<1>4. ASSUME NEW c \in Clients, ClientStep(c), NEW e \in Clients
      PROVE  Safe(e)'
  <2>1. CASE e = c
    BY <1>3, <1>4, <2>1
  <2>2. CASE e # c
    <3>1. /\ step'[e] = step[e] /\ text'[e] = text[e]
          /\ found'[e] = found[e] /\ copy'[e] = copy[e]
      BY <1>4, <2>2, OthersStay
    <3> QED
      BY <1>2, <3>1
  <2> QED
    BY <2>1, <2>2
<1>5. ASSUME PassTime \/ UNCHANGED detailVars, NEW e \in Clients
      PROVE  Safe(e)'
  <2>1. UNCHANGED clientVars
    BY <1>5 DEF PassTime, detailVars
  <2>2. /\ step'[e] = step[e] /\ text'[e] = text[e]
        /\ found'[e] = found[e] /\ copy'[e] = copy[e]
    BY <2>1 DEF clientVars
  <2> QED
    BY <1>2, <2>2
<1>6. \A e \in Clients : Safe(e)'
  BY <1>4, <1>5 DEF DetailNext
<1> QED
  BY <1>6 DEF FoundIsKept

\* Hits are counted as HitsCounted says in whatever order they are written.
LEMMA HitReadCounts ==
    ASSUME DetailInductive, NEW c \in Clients, HitRead(c)
    PROVE  CopyCounts' /\ HitsCounted'
<1> DEFINE p == found[c]
<1>1. /\ p \in Kept /\ p \in Points /\ step[c] # "write"
      /\ UNCHANGED <<payload, recorded>> /\ Kept' = Kept
  BY DEF HitRead, DetailInductive, FoundIsKept, Kept
<1>2. \A e \in Clients :
          /\ step'[e] = IF e = c THEN "write" ELSE step[e]
          /\ found'[e] = found[e]
          /\ copy'[e] = IF e = c THEN payload[p] ELSE copy[e]
  BY ToWrites DEF HitRead, DetailInductive
<1>3. contended \subseteq contended'
  BY DEF HitRead
<1>4. p \notin contended' => \A d \in Clients : ~(step[d] = "write" /\ found[d] = p)
  BY DEF HitRead
<1>5. /\ payload[p].hits <= recorded[p]
      /\ p \notin contended' => payload[p].hits = recorded[p]
  BY <1>1, <1>3 DEF DetailInductive, HitsCounted
<1>6. CopyCounts'
  <2>1. \A q \in Points : q \notin Kept' => recorded'[q] = 0 /\ payload'[q].hits = 0
    BY <1>1 DEF DetailInductive, CopyCounts
  <2>2. ASSUME NEW e \in Clients, step'[e] = "write"
        PROVE  /\ copy'[e].hits <= recorded'[found'[e]]
               /\ found'[e] \notin contended' =>
                     /\ copy'[e].hits = recorded'[found'[e]]
                     /\ \A d \in Clients : step'[d] = "write" /\ found'[d] = found'[e] => d = e
    <3>1. CASE e = c
      BY <1>1, <1>2, <1>4, <1>5, <3>1
    <3>2. CASE e # c
      BY <1>1, <1>2, <1>3, <1>4, <2>2, <3>2 DEF DetailInductive, CopyCounts
    <3> QED
      BY <3>1, <3>2
  <2> QED
    BY <2>1, <2>2 DEF CopyCounts
<1>7. HitsCounted'
  BY <1>1, <1>3 DEF DetailInductive, HitsCounted
<1> QED
  BY <1>6, <1>7

\* Writing a payload back keeps the bounds on the hit counts.
LEMMA HitWriteCounts ==
    ASSUME DetailInductive, NEW c \in Clients, HitWrite(c)
    PROVE  CopyCounts' /\ HitsCounted'
<1> DEFINE p == found[c]
<1>1. /\ p \in Points /\ p \in Kept /\ step[c] = "write" /\ copy[c] \in Payload
      /\ UNCHANGED contended
      /\ recorded[p] \in Nat /\ copy[c].hits \in Nat
  BY DEF HitWrite, DetailInductive, DetailTypeOK, FoundIsKept, Kept, Payload
<1>2. \A e \in Clients :
          /\ step'[e] = IF e = c THEN "idle" ELSE step[e]
          /\ e # c => found'[e] = found[e] /\ copy'[e] = copy[e]
  BY ToWrites DEF HitWrite, Idle, DetailInductive
<1>3. /\ payload'[p].hits = copy[c].hits + 1 /\ recorded'[p] = recorded[p] + 1
      /\ \A q \in Points : q # p => payload'[q] = payload[q] /\ recorded'[q] = recorded[q]
  BY <1>1, OneMoreType DEF HitWrite, DetailInductive, DetailTypeOK
<1>4. /\ copy[c].hits <= recorded[p]
      /\ p \notin contended =>
            /\ copy[c].hits = recorded[p]
            /\ \A d \in Clients : step[d] = "write" /\ found[d] = p => d = c
  BY <1>1 DEF DetailInductive, CopyCounts
<1>5. \A q \in Points : q \notin Kept' => q \notin Kept
  BY AnswersStay DEF DetailNext, ClientStep
<1>6. CopyCounts'
  <2>1. \A q \in Points : q \notin Kept' => recorded'[q] = 0 /\ payload'[q].hits = 0
    BY <1>1, <1>3, <1>5 DEF DetailInductive, CopyCounts
  <2>2. ASSUME NEW e \in Clients, step'[e] = "write"
        PROVE  /\ copy'[e].hits <= recorded'[found'[e]]
               /\ found'[e] \notin contended' =>
                     /\ copy'[e].hits = recorded'[found'[e]]
                     /\ \A d \in Clients : step'[d] = "write" /\ found'[d] = found'[e] => d = e
    <3>1. /\ e # c /\ step[e] = "write" /\ found'[e] = found[e] /\ copy'[e] = copy[e]
          /\ found[e] \in Points /\ copy[e].hits \in Nat /\ recorded[found[e]] \in Nat
      BY <1>2, <2>2 DEF DetailInductive, DetailTypeOK, FoundIsKept, Kept, Payload
    <3>2. /\ copy[e].hits <= recorded[found[e]]
          /\ found[e] \notin contended =>
                /\ copy[e].hits = recorded[found[e]]
                /\ \A d \in Clients : step[d] = "write" /\ found[d] = found[e] => d = e
      BY <3>1 DEF DetailInductive, CopyCounts
    <3>3. CASE found[e] = p
      BY <1>1, <1>3, <1>4, <3>1, <3>2, <3>3
    <3>4. CASE found[e] # p
      BY <1>1, <1>2, <1>3, <3>1, <3>2, <3>4
    <3> QED
      BY <3>3, <3>4
  <2> QED
    BY <2>1, <2>2 DEF CopyCounts
<1>7. HitsCounted'
  BY <1>1, <1>3, <1>4 DEF DetailInductive, HitsCounted
<1> QED
  BY <1>6, <1>7

\* Every step keeps the bounds on the hit counts.
LEMMA StepKeepsCounts ==
    ASSUME DetailInductive, [DetailNext]_detailVars
    PROVE  CopyCounts' /\ HitsCounted'
<1>1. ASSUME NEW c \in Clients, HitRead(c) PROVE CopyCounts' /\ HitsCounted'
  BY <1>1, HitReadCounts
<1>2. ASSUME NEW c \in Clients, HitWrite(c) PROVE CopyCounts' /\ HitsCounted'
  BY <1>2, HitWriteCounts
<1>3. ASSUME UNCHANGED <<recorded, contended>>,
             \A p \in Points : payload'[p].hits = payload[p].hits,
             \A p \in Points : p \in Kept => p \in Kept',
             \A e \in Clients : step'[e] = "write" =>
                step[e] = "write" /\ found'[e] = found[e] /\ copy'[e] = copy[e]
      PROVE  CopyCounts' /\ HitsCounted'
  BY <1>3 DEF DetailInductive, CopyCounts, HitsCounted
<1>4. ASSUME NEW c \in Clients,
             Begin(c) \/ Search(c) \/ Judge(c) \/ Get(c) \/ StoreAnswer(c) \/ Stop(c)
      PROVE  CopyCounts' /\ HitsCounted'
  <2>1. UNCHANGED <<recorded, contended>>
    BY <1>4 DEF Begin, Search, Judge, Get, StoreAnswer, Stop, historyVars
  <2>2. \A p \in Points : payload'[p].hits = payload[p].hits
    BY <1>4 DEF Begin, Search, Judge, Get, StoreAnswer, Stop, Kept,
                DetailInductive, DetailTypeOK, CopyCounts
  <2>3. step'[c] # "write"
    BY <1>4, ToWrites DEF Begin, Search, Judge, Get, StoreAnswer, Stop, Idle, DetailInductive
  <2>4. \A e \in Clients : step'[e] = "write" =>
            step[e] = "write" /\ found'[e] = found[e] /\ copy'[e] = copy[e]
    BY <1>4, <2>3, OthersStay DEF ClientStep
  <2>5. \A p \in Points : p \in Kept => p \in Kept'
    BY AnswersStay
  <2> QED
    BY <1>3, <2>1, <2>2, <2>4, <2>5
<1>5. CASE PassTime \/ UNCHANGED detailVars
  BY <1>3, <1>5 DEF PassTime, detailVars, clientVars, historyVars, Kept
<1> QED
  BY <1>1, <1>2, <1>4, <1>5 DEF DetailNext, ClientStep

\* Every step keeps the inductive invariant.
LEMMA DetailStep ==
    ASSUME DetailInductive, [DetailNext]_detailVars
    PROVE  DetailInductive'
  BY StepTypes, StepKeepsFound, StepKeepsCounts DEF DetailInductive

\* Every variable of the cache keeps its type, and a client holds a point
\* exactly while it works on a hit.
THEOREM CacheTypeCorrect == DetailSpec => []DetailTypeOK
<1>1. DetailInit => DetailInductive
  BY DetailInitInductive
<1>2. DetailInductive /\ [DetailNext]_detailVars => DetailInductive'
  BY DetailStep
<1>3. DetailInductive => DetailTypeOK
  BY DEF DetailInductive
<1> QED
  BY <1>1, <1>2, <1>3, PTL DEF DetailSpec

\* However the reads and writes of record_hit interleave, a hit count is at
\* most the number of recorded hits, is not zero after one, and is exact at a
\* point where no two calls overlapped.
THEOREM HitsCorrect == DetailSpec => []HitsCounted
<1>1. DetailInit => DetailInductive
  BY DetailInitInductive
<1>2. DetailInductive /\ [DetailNext]_detailVars => DetailInductive'
  BY DetailStep
<1>3. DetailInductive => HitsCounted
  BY DEF DetailInductive
<1> QED
  BY <1>1, <1>2, <1>3, PTL DEF DetailSpec

-----------------------------------------------------------------------------
(* The refinement                                                          *)

\* The outcome of the abstract lookup, client by client.
LEMMA OutcomeOf ==
    ASSUME NEW c \in Clients
    PROVE  Outcome[c] = IF text[c] = NoText THEN Open
                        ELSE IF step[c] \in {"hit", "write"} THEN found[c]
                        ELSE IF step[c] = "missed" THEN NoPoint ELSE Open
  BY DEF Outcome

\* A step of client c that changes its abstract outcome to r changes no other.
LEMMA OutcomeChanges ==
    ASSUME DetailInductive, NEW c \in Clients, ClientStep(c),
           NEW r, Outcome'[c] = r
    PROVE  Outcome' = [Outcome EXCEPT ![c] = r]
<1>1. \A e \in Clients : e # c => Outcome'[e] = Outcome[e]
  BY OthersStay DEF Outcome
<1>2. Outcome' = [e \in Clients |-> Outcome'[e]] /\ Outcome = [e \in Clients |-> Outcome[e]]
  BY DEF Outcome
<1> QED
  BY <1>1, <1>2

\* A step to another text changes what the client asks, any other step does not.
LEMMA TextChanges ==
    ASSUME DetailInductive, NEW c \in Clients, NEW s, NEW t, NEW p, NEW d, To(c, s, t, p, d)
    PROVE  text' = [text EXCEPT ![c] = t] /\ (t = text[c] => text' = text)
  BY DEF To, DetailInductive, DetailTypeOK

\* Storing an answer is all that changes the abstract points; time is all that
\* makes one stale.
LEMMA SameAnswers ==
    ASSUME DetailInductive, [DetailNext]_detailVars,
           \A c \in Clients : ~StoreAnswer(c)
    PROVE  TextAt' = TextAt /\ Kept' = Kept /\ (now' = now => StaleNow' = StaleNow)
<1>1. \A p \in Points : p \notin Kept => payload'[p] = payload[p]
  <2>1. ASSUME NEW c \in Clients, HitWrite(c)
        PROVE  \A p \in Points : p # found[c] => payload'[p] = payload[p]
    BY <2>1 DEF HitWrite, DetailInductive, DetailTypeOK
  <2>2. ASSUME NEW c \in Clients, HitWrite(c)
        PROVE  found[c] \in Kept
    BY <2>2 DEF HitWrite, DetailInductive, FoundIsKept
  <2>3. UNCHANGED payload \/ \E c \in Clients : HitWrite(c)
    BY DEF DetailNext, ClientStep, Begin, Search, Judge, Get, HitRead, Stop, PassTime, detailVars
  <2> QED
    BY <2>1, <2>2, <2>3
<1>2. Kept' = Kept
  BY <1>1, AnswersStay DEF Kept
<1>3. TextAt' = TextAt
  BY <1>1, AnswersStay DEF TextAt
<1>4. ASSUME now' = now
      PROVE  StaleNow' = StaleNow
  BY <1>2, <1>4, AnswersStay DEF StaleNow, Stale
<1> QED
  BY <1>2, <1>3, <1>4

\* The abstract stored points, hits and stale hits are the concrete ones.
LEMMA AbstractHits ==
    ASSUME DetailInductive, NEW c \in Clients, text[c] \in Texts
    PROVE  /\ Atomic!Stored = Kept
           /\ Atomic!Hits(text[c]) = Above(c)
<1>1. Atomic!Stored = Kept
  BY DEF Atomic!Stored, TextAt, Kept
<1>2. \A p \in Kept : <<payload[p].text, text[c]>> \in Similar <=> ScoreFor(c, p) >= Threshold
  BY CacheAssumption DEF ScoreFor, Kept, DetailInductive, DetailTypeOK, Payload
<1>3. Atomic!Hits(text[c]) = {p \in Kept : <<payload[p].text, text[c]>> \in Similar}
  BY <1>1 DEF Atomic!Hits, TextAt, Kept
<1> QED
  BY <1>1, <1>2, <1>3 DEF Above

\* A search that finds nothing is a lookup that returns nothing; one that
\* finds a point is not yet visible.
LEMMA SearchRefines ==
    ASSUME DetailInductive, NEW c \in Clients, Search(c)
    PROVE  Atomic!Return(c) \/ UNCHANGED <<TextAt, StaleNow, text, Outcome>>
<1>1. /\ step[c] = "search" /\ text[c] # NoText /\ text[c] \in Texts
      /\ Outcome[c] = Open /\ ClientStep(c) /\ UNCHANGED <<TextAt, StaleNow>>
  BY SameAnswers, OutcomeOf
     DEF Search, ClientStep, DetailInductive, DetailTypeOK, DetailNext, StoreAnswer,
         TextAt, StaleNow, Kept
<1>2. CASE Above(c) = {} /\ To(c, "missed", text[c], NoPoint, NoPayload)
  <2>1. text' = text /\ step'[c] = "missed"
    BY <1>2, ToWrites, TextChanges DEF DetailInductive
  <2>2. Outcome' = [Outcome EXCEPT ![c] = NoPoint]
    BY <1>1, <2>1, OutcomeChanges DEF Outcome
  <2>3. Atomic!LookupReturns(text[c], NoPoint)
    BY <1>1, <1>2, AbstractHits DEF Atomic!LookupReturns
  <2> QED
    BY <1>1, <2>1, <2>2, <2>3 DEF Atomic!Return
<1>3. ASSUME NEW p \in Points, To(c, "judge", text[c], p, payload[p])
      PROVE  UNCHANGED <<TextAt, StaleNow, text, Outcome>>
  <2>1. text' = text /\ step'[c] = "judge"
    BY <1>3, ToWrites, TextChanges DEF DetailInductive
  <2>2. Outcome'[c] = Outcome[c]
    BY <1>1, <2>1 DEF Outcome
  <2>3. Outcome' = [Outcome EXCEPT ![c] = Outcome[c]]
    BY <1>1, <2>2, OutcomeChanges
  <2>4. [Outcome EXCEPT ![c] = Outcome[c]] = Outcome
    BY DEF Outcome
  <2> QED
    BY <1>1, <2>1, <2>3, <2>4
<1> QED
  BY <1>2, <1>3 DEF Search, Above, Kept

\* The look at the age is the moment at which the lookup returns.
LEMMA JudgeRefines ==
    ASSUME DetailInductive, NEW c \in Clients, Judge(c)
    PROVE  Atomic!Return(c)
<1>1. /\ step[c] = "judge" /\ text[c] # NoText /\ text[c] \in Texts
      /\ Outcome[c] = Open /\ ClientStep(c) /\ UNCHANGED <<TextAt, StaleNow>>
      /\ found[c] \in Points
  BY SameAnswers, OutcomeOf
     DEF Judge, ClientStep, DetailInductive, DetailTypeOK, DetailNext, StoreAnswer,
         TextAt, StaleNow, Kept
<1>2. /\ found[c] \in Atomic!Hits(text[c])
      /\ copy[c].created = payload[found[c]].created
      /\ found[c] \in StaleNow <=> Stale(copy[c].created)
  <2>1. /\ found[c] \in Kept /\ <<payload[found[c]].text, text[c]>> \in Similar
        /\ copy[c].created = payload[found[c]].created
    BY <1>1 DEF DetailInductive, FoundIsKept
  <2> QED
    BY <1>1, <2>1 DEF StaleNow, Atomic!Hits, Atomic!Stored, TextAt, Kept
<1>3. CASE Stale(copy[c].created)
  <2>1. To(c, "missed", text[c], NoPoint, NoPayload)
    BY <1>3 DEF Judge
  <2>2. text' = text /\ step'[c] = "missed"
    BY <2>1, ToWrites, TextChanges DEF DetailInductive
  <2>3. Outcome' = [Outcome EXCEPT ![c] = NoPoint]
    BY <1>1, <2>2, OutcomeChanges DEF Outcome
  <2>4. Atomic!LookupReturns(text[c], NoPoint)
    BY <1>2, <1>3 DEF Atomic!LookupReturns
  <2> QED
    BY <1>1, <2>2, <2>3, <2>4 DEF Atomic!Return
<1>4. CASE ~Stale(copy[c].created)
  <2>1. To(c, "hit", text[c], found[c], NoPayload)
    BY <1>4 DEF Judge
  <2>2. text' = text /\ step'[c] = "hit" /\ found'[c] = found[c]
    BY <2>1, ToWrites, TextChanges DEF DetailInductive
  <2>3. Outcome' = [Outcome EXCEPT ![c] = found[c]]
    BY <1>1, <2>2, OutcomeChanges DEF Outcome
  <2>4. Atomic!LookupReturns(text[c], found[c])
    BY <1>2, <1>4 DEF Atomic!LookupReturns
  <2> QED
    BY <1>1, <2>2, <2>3, <2>4 DEF Atomic!Return
<1> QED
  BY <1>3, <1>4

\* Whatever a client ends with that has looked something up, it leaves.
LEMMA IdleRefines ==
    ASSUME DetailInductive, NEW c \in Clients, ClientStep(c), Idle(c), text[c] # NoText,
           \/ UNCHANGED <<TextAt, StaleNow>>
           \/ Outcome[c] = NoPoint /\ \E p \in Points : Atomic!Add(p, text[c])
    PROVE  Atomic!Leave(c)
<1>1. text' = [text EXCEPT ![c] = NoText] /\ step'[c] = "idle" /\ text'[c] = NoText
  BY ToWrites, TextChanges DEF Idle, DetailInductive, DetailTypeOK
<1>2. Outcome' = [Outcome EXCEPT ![c] = Open]
  BY <1>1, OutcomeChanges DEF Outcome
<1> QED
  BY <1>1, <1>2 DEF Atomic!Leave

\* A client that has looked nothing up asks for nothing and got nothing.
LEMMA GetIsInvisible ==
    ASSUME DetailInductive, NEW c \in Clients, ClientStep(c),
           text[c] = NoText, text'[c] = NoText
    PROVE  UNCHANGED Outcome
<1>1. Outcome[c] = Open /\ Outcome'[c] = Open
  BY DEF Outcome
<1>2. Outcome' = [Outcome EXCEPT ![c] = Open]
  BY <1>1, OutcomeChanges
<1> QED
  BY <1>1, <1>2 DEF Outcome

\* A client goes idle: it leaves the lookup, if it is in one.
LEMMA LeaveRefines ==
    ASSUME DetailInductive, NEW c \in Clients, ClientStep(c), Idle(c),
           UNCHANGED <<TextAt, StaleNow>>
    PROVE  Atomic!Leave(c) \/ UNCHANGED <<TextAt, StaleNow, text, Outcome>>
<1>1. CASE text[c] # NoText
  BY <1>1, IdleRefines
<1>2. CASE text[c] = NoText
  <2>1. text' = text /\ text'[c] = NoText
    BY <1>2, ToWrites, TextChanges DEF Idle, DetailInductive
  <2> QED
    BY <1>2, <2>1, GetIsInvisible
<1> QED
  BY <1>1, <1>2

\* A fresh point is not stale: the clock does not run backwards.
LEMMA StoreRefines ==
    ASSUME DetailInductive, NEW c \in Clients, StoreAnswer(c)
    PROVE  Atomic!Leave(c)
<1>1. PICK p \in Points \ Kept :
          payload' = [payload EXCEPT ![p] = [text |-> text[c], created |-> now, hits |-> 0]]
  BY DEF StoreAnswer
<1>2. /\ step[c] = "missed" /\ text[c] \in Texts /\ UNCHANGED now /\ Idle(c) /\ ClientStep(c)
      /\ Outcome[c] = NoPoint
  BY OutcomeOf DEF StoreAnswer, ClientStep, DetailInductive, DetailTypeOK
<1>3. /\ payload'[p].text = text[c] /\ payload'[p].created = now
      /\ \A q \in Points : q # p => payload'[q] = payload[q]
  BY <1>1 DEF DetailInductive, DetailTypeOK
<1>4. TextAt' = [TextAt EXCEPT ![p] = text[c]]
  <2>1. TextAt'[p] = text[c] /\ \A q \in Points : q # p => TextAt'[q] = TextAt[q]
    BY <1>1, <1>3 DEF TextAt
  <2>2. TextAt' = [q \in Points |-> TextAt'[q]] /\ TextAt = [q \in Points |-> TextAt[q]]
    BY DEF TextAt
  <2> QED
    BY <2>1, <2>2
<1>5. ~Stale(now)
  BY CacheAssumption DEF Stale, DetailInductive, DetailTypeOK
<1>6. StaleNow' = StaleNow
  <2>1. Kept' = Kept \cup {p}
    BY <1>1, <1>2, <1>3, PromptsAssumption DEF Kept
  <2>2. \A q \in Points : q # p => (q \in StaleNow' <=> q \in StaleNow)
    BY <1>2, <1>3, <2>1 DEF StaleNow, Stale
  <2>3. p \notin StaleNow' /\ p \notin StaleNow
    BY <1>1, <1>2, <1>3, <1>5 DEF StaleNow, Stale
  <2> QED
    BY <2>2, <2>3 DEF StaleNow, Kept
<1>7. Atomic!Add(p, text[c])
  BY <1>1, <1>4, <1>6 DEF Atomic!Add, Atomic!Stored, TextAt, Kept
<1> QED
  BY <1>2, <1>7, IdleRefines, PromptsAssumption

\* Every step of the cache is a step of the atomic cache or not visible in it.
LEMMA StepRefines ==
    ASSUME DetailInductive, [DetailNext]_detailVars
    PROVE  [Atomic!AtomicNext]_(Atomic!atomicVars)
<1>1. ASSUME NEW c \in Clients, Begin(c) PROVE Atomic!Ask(c)
  <2>1. PICK t \in Texts : To(c, "search", t, NoPoint, NoPayload)
    BY <1>1 DEF Begin
  <2>2. text[c] = NoText /\ step[c] = "idle"
    BY <1>1 DEF Begin, DetailInductive, DetailTypeOK
  <2>3. text' = [text EXCEPT ![c] = t] /\ step'[c] = "search"
    BY <2>1, ToWrites, TextChanges DEF DetailInductive
  <2>4. Outcome' = [Outcome EXCEPT ![c] = Open] /\ Outcome[c] = Open
    BY <1>1, <2>2, <2>3, OutcomeChanges DEF Outcome, ClientStep
  <2>5. Outcome' = Outcome
    BY <2>4 DEF Outcome
  <2>6. UNCHANGED <<TextAt, StaleNow>>
    BY <1>1 DEF Begin, TextAt, StaleNow, Kept, Stale
  <2> QED
    BY <2>2, <2>3, <2>5, <2>6 DEF Atomic!Ask
<1>2. ASSUME NEW c \in Clients, HitRead(c)
      PROVE  UNCHANGED <<TextAt, StaleNow, text, Outcome>>
  <2>1. step[c] = "hit" /\ text' = text /\ step'[c] = "write" /\ found'[c] = found[c]
    BY <1>2, ToWrites, TextChanges DEF HitRead, DetailInductive
  <2>2. Outcome'[c] = Outcome[c] /\ Outcome' = [Outcome EXCEPT ![c] = Outcome[c]]
    BY <1>2, <2>1, OutcomeChanges DEF Outcome, ClientStep
  <2>3. Outcome' = Outcome
    BY <2>2 DEF Outcome
  <2>4. UNCHANGED <<TextAt, StaleNow>>
    BY <1>2 DEF HitRead, TextAt, StaleNow, Kept, Stale
  <2> QED
    BY <2>1, <2>3, <2>4
<1>3. ASSUME NEW c \in Clients, HitWrite(c) \/ Stop(c)
      PROVE  Atomic!Leave(c) \/ UNCHANGED <<TextAt, StaleNow, text, Outcome>>
  <2>1. UNCHANGED now /\ Idle(c) /\ ClientStep(c)
    BY <1>3 DEF HitWrite, Stop, ClientStep
  <2>2. ASSUME HitWrite(c) PROVE UNCHANGED <<TextAt, StaleNow>>
    <3>1. \A e \in Clients : ~StoreAnswer(e)
      BY <2>2 DEF HitWrite, StoreAnswer, historyVars, DetailInductive, DetailTypeOK
    <3> QED
      BY <2>1, <3>1, SameAnswers DEF DetailNext
  <2>3. ASSUME Stop(c) PROVE UNCHANGED <<TextAt, StaleNow>>
    BY <2>3 DEF Stop, TextAt, StaleNow, Kept, Stale
  <2> QED
    BY <1>3, <2>1, <2>2, <2>3, LeaveRefines
<1>4. ASSUME NEW c \in Clients, Get(c)
      PROVE  UNCHANGED <<TextAt, StaleNow, text, Outcome>>
  <2>1. PICK p \in Kept : To(c, "hit", NoText, p, NoPayload)
    BY <1>4 DEF Get
  <2>2. text[c] = NoText
    BY <1>4 DEF Get, DetailInductive, DetailTypeOK
  <2>3. text' = text /\ text'[c] = NoText
    BY <2>1, <2>2, ToWrites, TextChanges DEF DetailInductive
  <2>4. UNCHANGED <<TextAt, StaleNow>>
    BY <1>4 DEF Get, TextAt, StaleNow, Kept, Stale
  <2> QED
    BY <1>4, <2>2, <2>3, <2>4, GetIsInvisible DEF ClientStep
<1>5. CASE PassTime
  <2>1. UNCHANGED <<payload, text, step, found>> /\ now' = now + 1
    BY <1>5 DEF PassTime, clientVars
  <2>2. UNCHANGED <<TextAt, Outcome, text>> /\ Kept' = Kept
    BY <2>1 DEF TextAt, Outcome, Kept
  <2>3. StaleNow \subseteq StaleNow' /\ StaleNow' \subseteq Kept
    BY <2>1, <2>2, CacheAssumption
       DEF StaleNow, Stale, DetailInductive, DetailTypeOK, Kept, Payload
  <2>4. CASE StaleNow' = StaleNow
    BY <2>2, <2>4 DEF Atomic!atomicVars
  <2>5. CASE StaleNow' # StaleNow
    <3> DEFINE S == StaleNow' \ StaleNow
    <3>1. S \in (SUBSET (Atomic!Stored \ StaleNow)) \ {{}} /\ StaleNow' = StaleNow \cup S
      BY <2>3, <2>5 DEF Atomic!Stored, TextAt, Kept
    <3>2. Atomic!GrowStale
      BY <2>2, <3>1 DEF Atomic!GrowStale
    <3> QED
      BY <2>2, <3>2 DEF Atomic!AtomicNext
  <2> QED
    BY <2>4, <2>5
<1>6. CASE UNCHANGED detailVars
  BY <1>6 DEF detailVars, clientVars, Atomic!atomicVars, TextAt, StaleNow, Stale, Kept, Outcome
<1> QED
  BY <1>1, <1>2, <1>3, <1>4, <1>5, <1>6, SearchRefines, JudgeRefines, StoreRefines
     DEF DetailNext, ClientStep, Atomic!AtomicNext, Atomic!atomicVars

\* Searching and judging, reading a payload and writing it back, raced by any
\* number of clients and the clock, are lookups that take effect in one step on
\* answers that never change: what the router and the task are modelled with.
THEOREM CacheIsAtomic == DetailSpec => ImplementsAtomicCache
<1>1. DetailInit => DetailInductive /\ Atomic!AtomicInit
  <2>1. DetailInit => TextAt = [p \in Points |-> NoText] /\ StaleNow = {}
    BY DEF DetailInit, TextAt, StaleNow, Kept, NoPayload
  <2>2. DetailInit => Outcome = [c \in Clients |-> Open]
    BY DEF DetailInit, Outcome
  <2> QED
    BY <2>1, <2>2, DetailInitInductive
       DEF DetailInit, Atomic!AtomicInit, Atomic!CacheInit
<1>2. DetailInductive /\ [DetailNext]_detailVars => DetailInductive'
  BY DetailStep
<1>3. DetailInductive /\ [DetailNext]_detailVars => [Atomic!AtomicNext]_(Atomic!atomicVars)
  BY StepRefines
<1> QED
  BY <1>1, <1>2, <1>3, PTL DEF DetailSpec, ImplementsAtomicCache, Atomic!AtomicSpec
=============================================================================
