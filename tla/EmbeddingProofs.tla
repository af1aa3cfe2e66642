-------------------------- MODULE EmbeddingProofs ---------------------------
(***************************************************************************)
(* Proofs about EmbeddingService, for any number of concurrent calls and   *)
(* of loads that raise.                                                    *)
(***************************************************************************)
EXTENDS EmbeddingService, TLAPS

\* A step of call e leaves the other calls where they are.
LEMMA GoStep ==
    ASSUME EmbeddingTypeOK, NEW e \in Embeds, NEW from, NEW to \in EmbedSteps,
           Go(e, from, to)
    PROVE  /\ epc' \in [Embeds -> EmbedSteps]
           /\ epc'[e] = to
           /\ \A d \in Embeds : d # e => epc'[d] = epc[d]
  BY DEF Go, EmbeddingTypeOK

\* Before anybody has called embed there is no model and the lock is free.
LEMMA InitInductive == EmbeddingInit => EmbeddingInductive
<1>1. EmbeddingInit => EmbeddingTypeOK
  <2>1. ASSUME EmbeddingInit
        PROVE  \A e \in Embeds : lock # e /\ epc[e] \notin Inside
    BY <2>1, EmbeddingAssumption DEF EmbeddingInit, Inside
  <2>2. EmbeddingInit => loads \in Nat /\ fails \in 0..MaxFails
    BY EmbeddingAssumption DEF EmbeddingInit
  <2>3. EmbeddingInit => epc \in [Embeds -> EmbedSteps]
    BY DEF EmbeddingInit, EmbedSteps
  <2>4. EmbeddingInit => model \in BOOLEAN /\ lock \in Embeds \cup {Nobody}
    BY Zenon DEF EmbeddingInit
  <2>5. EmbeddingInit => \A e \in Embeds : lock = e <=> epc[e] \in Inside
    BY <2>1
  <2> QED
    BY <2>2, <2>3, <2>4, <2>5, Zenon DEF EmbeddingTypeOK
<1>2. EmbeddingInit => \A e \in Embeds : epc[e] = "new"
  BY DEF EmbeddingInit
<1> QED
  BY <1>1, <1>2 DEF EmbeddingInit, EmbeddingInductive, LoadedOnce

\* Looking, encoding and beginning touch neither the lock nor the model.
LEMMA OutsideStep ==
    ASSUME EmbeddingInductive, NEW e \in Embeds, Begin(e) \/ Look(e) \/ Encode(e)
    PROVE  EmbeddingInductive'
<1>1. PICK to \in {"look", "encode", "acquire", "done"} :
          /\ epc' = [epc EXCEPT ![e] = to]
          /\ epc[e] \notin Inside
          /\ to = "encode" => model
          /\ UNCHANGED <<model, lock, loads, fails>>
  BY DEF Begin, Look, Encode, Go, Inside
<1>2. /\ epc' \in [Embeds -> EmbedSteps] /\ epc'[e] = to
      /\ \A d \in Embeds : d # e => epc'[d] = epc[d]
  BY <1>1 DEF EmbeddingInductive, EmbeddingTypeOK, EmbedSteps
<1>3. EmbeddingTypeOK'
  BY <1>1, <1>2 DEF EmbeddingInductive, EmbeddingTypeOK, Inside
<1> QED
  BY <1>1, <1>2, <1>3 DEF EmbeddingInductive, LoadedOnce

\* The lock is taken when it is free, by one call.
LEMMA AcquireStep ==
    ASSUME EmbeddingInductive, NEW e \in Embeds, Lock(e)
    PROVE  EmbeddingInductive'
<1>1. /\ epc' \in [Embeds -> EmbedSteps] /\ epc'[e] = "recheck"
      /\ \A d \in Embeds : d # e => epc'[d] = epc[d]
  BY GoStep DEF Lock, EmbeddingInductive, EmbedSteps
<1>2. EmbeddingTypeOK'
  BY <1>1, EmbeddingAssumption DEF Lock, EmbeddingInductive, EmbeddingTypeOK, Inside
<1> QED
  BY <1>1, <1>2 DEF Lock, EmbeddingInductive, LoadedOnce

\* In the with block a call moves on alone: the model is set only by the call
\* that holds the lock and has seen that there is none.
LEMMA InsideStep ==
    ASSUME EmbeddingInductive, NEW e \in Embeds,
           Recheck(e) \/ Load(e) \/ LoadRaises(e)
    PROVE  EmbeddingInductive'
<1>1. epc[e] \in Inside /\ lock = e /\ \A d \in Embeds : epc[d] \in Inside => d = e
  BY DEF Recheck, Load, LoadRaises, Go, Inside, EmbeddingInductive, EmbeddingTypeOK
<1>2. CASE Recheck(e)
  <2>1. /\ epc' \in [Embeds -> EmbedSteps]
        /\ epc'[e] = IF model THEN "release" ELSE "load"
        /\ \A d \in Embeds : d # e => epc'[d] = epc[d]
    BY <1>2, GoStep DEF Recheck, EmbeddingInductive, EmbedSteps
  <2>2. EmbeddingTypeOK'
    BY <1>1, <1>2, <2>1 DEF Recheck, EmbeddingInductive, EmbeddingTypeOK, Inside
  <2> QED
    BY <1>2, <2>1, <2>2 DEF Recheck, EmbeddingInductive, LoadedOnce
<1>3. CASE Load(e)
  <2>1. /\ epc' \in [Embeds -> EmbedSteps] /\ epc'[e] = "release"
        /\ \A d \in Embeds : d # e => epc'[d] = epc[d]
    BY <1>3, GoStep DEF Load, EmbeddingInductive, EmbedSteps
  <2>2. ~model /\ loads = 0 /\ model' /\ loads' = 1
    BY <1>3 DEF Load, Go, EmbeddingInductive
  <2>3. EmbeddingTypeOK'
    BY <1>1, <1>3, <2>1, <2>2 DEF Load, EmbeddingInductive, EmbeddingTypeOK, Inside
  <2>4. \A d \in Embeds : epc'[d] \notin {"load", "unwind"}
    BY <1>1, <2>1 DEF Inside
  <2> QED
    BY <2>2, <2>3, <2>4 DEF EmbeddingInductive, LoadedOnce
<1>4. CASE LoadRaises(e)
  <2>1. /\ epc' \in [Embeds -> EmbedSteps] /\ epc'[e] = "unwind"
        /\ \A d \in Embeds : d # e => epc'[d] = epc[d]
    BY <1>4, GoStep DEF LoadRaises, EmbeddingInductive, EmbedSteps
  <2>2. ~model /\ UNCHANGED <<model, lock, loads>> /\ fails' \in 0..MaxFails
    BY <1>4, EmbeddingAssumption
       DEF LoadRaises, Go, EmbeddingInductive, EmbeddingTypeOK
  <2>3. EmbeddingTypeOK'
    BY <1>1, <2>1, <2>2 DEF EmbeddingInductive, EmbeddingTypeOK, Inside
  <2> QED
    BY <2>1, <2>2, <2>3 DEF EmbeddingInductive, LoadedOnce
<1> QED
  BY <1>2, <1>3, <1>4

\* Leaving the with block gives the lock back, with or without a model.
LEMMA LeaveStep ==
    ASSUME EmbeddingInductive, NEW e \in Embeds, Unwind(e) \/ Release(e)
    PROVE  EmbeddingInductive'
<1>1. PICK to \in {"done", "encode"} :
          /\ epc' = [epc EXCEPT ![e] = to]
          /\ epc[e] \in Inside
          /\ to = "encode" => model
          /\ lock' = Nobody
          /\ UNCHANGED <<model, loads, fails>>
  BY DEF Unwind, Release, Go, Inside, EmbeddingInductive
<1>2. /\ epc' \in [Embeds -> EmbedSteps] /\ epc'[e] = to
      /\ \A d \in Embeds : d # e => epc'[d] = epc[d]
  BY <1>1 DEF EmbeddingInductive, EmbeddingTypeOK, EmbedSteps
<1>3. \A d \in Embeds : epc'[d] \notin Inside /\ lock' # d
  BY <1>1, <1>2, EmbeddingAssumption DEF EmbeddingInductive, EmbeddingTypeOK, Inside
<1>4. EmbeddingTypeOK'
  BY <1>1, <1>2, <1>3 DEF EmbeddingInductive, EmbeddingTypeOK
<1> QED
  BY <1>1, <1>2, <1>4 DEF EmbeddingInductive, LoadedOnce

\* Every step keeps the inductive invariant.
LEMMA EmbeddingStep ==
    ASSUME EmbeddingInductive, [EmbeddingNext]_embeddingVars
    PROVE  EmbeddingInductive'
<1>1. CASE UNCHANGED embeddingVars
  BY <1>1 DEF embeddingVars, EmbeddingInductive, EmbeddingTypeOK, LoadedOnce
<1> QED
  BY <1>1, OutsideStep, AcquireStep, InsideStep, LeaveStep DEF EmbeddingNext, EmbedProceeds

\* The inductive invariant holds.
LEMMA EmbeddingHolds == EmbeddingSpec => []EmbeddingInductive
<1>1. EmbeddingInit => EmbeddingInductive
  BY InitInductive
<1>2. EmbeddingInductive /\ [EmbeddingNext]_embeddingVars => EmbeddingInductive'
  BY EmbeddingStep
<1> QED
  BY <1>1, <1>2, PTL DEF EmbeddingSpec

\* The lock is held exactly by the call that is inside the with block, also
\* when it leaves the block by an exception: two calls are never inside.
THEOREM EmbeddingTypeCorrect == EmbeddingSpec => []EmbeddingTypeOK
<1>1. EmbeddingInductive => EmbeddingTypeOK
  BY DEF EmbeddingInductive
<1> QED
  BY <1>1, EmbeddingHolds, PTL

\* Double-checked locking loads one model, whatever the number of threads and
\* of loads that raise, and nobody encodes without it.
THEOREM ModelLoadedOnce == EmbeddingSpec => []LoadedOnce
<1>1. EmbeddingInductive => LoadedOnce
  BY DEF EmbeddingInductive
<1> QED
  BY <1>1, EmbeddingHolds, PTL
=============================================================================
