-------------------------- MODULE EmbeddingService --------------------------
(***************************************************************************)
(* src/services/embeddings.py: the calls of embed on one EmbeddingService, *)
(* one thread each, and the lazy loading of the model they share.  The     *)
(* deterministic fallback shares nothing and is left out.                  *)
(***************************************************************************)
EXTENDS Naturals

CONSTANTS Embeds,   \* calls of embed
          Nobody,   \* the holder of a free lock
          MaxFails  \* bound on the loads that raise

ASSUME EmbeddingAssumption == Nobody \notin Embeds /\ MaxFails \in Nat

VARIABLES epc,    \* epc[e]: the next step of call e
          model,  \* whether _model is set
          lock,   \* the call that holds _lock
          loads,  \* how many models have been loaded (history)
          fails   \* how many loads have raised

embeddingVars == <<epc, model, lock, loads, fails>>

EmbedSteps == {"new", "look", "acquire", "recheck", "load", "unwind", "release",
               "encode", "done"}

\* The steps inside the with block.
Inside == {"recheck", "load", "unwind", "release"}

EmbeddingInit ==
    /\ epc = [e \in Embeds |-> "new"]
    /\ model = FALSE
    /\ lock = Nobody
    /\ loads = 0
    /\ fails = 0

Go(e, from, to) == epc[e] = from /\ epc' = [epc EXCEPT ![e] = to]

Begin(e) == Go(e, "new", "look") /\ UNCHANGED <<model, lock, loads, fails>>

\* The look at _model without the lock.
Look(e) ==
    /\ Go(e, "look", IF model THEN "encode" ELSE "acquire")
    /\ UNCHANGED <<model, lock, loads, fails>>

Lock(e) ==
    /\ Go(e, "acquire", "recheck")
    /\ lock = Nobody /\ lock' = e
    /\ UNCHANGED <<model, loads, fails>>

\* Mutant of Recheck: what the look without the lock said is taken for granted.
NoRecheck(e) ==
    /\ Go(e, "recheck", "load")
    /\ UNCHANGED <<model, lock, loads, fails>>

\* The second look, with the lock.
Recheck(e) ==
    /\ Go(e, "recheck", IF model THEN "release" ELSE "load")
    /\ UNCHANGED <<model, lock, loads, fails>>

Load(e) ==
    /\ Go(e, "load", "release")
    /\ model' = TRUE /\ loads' = loads + 1
    /\ UNCHANGED <<lock, fails>>

\* The download or the construction of the model raises.
LoadRaises(e) ==
    /\ Go(e, "load", "unwind")
    /\ fails < MaxFails /\ fails' = fails + 1
    /\ UNCHANGED <<model, lock, loads>>

\* Mutant of Unwind: acquire and release without a with block.
UnwindKeepsLock(e) ==
    /\ Go(e, "unwind", "done")
    /\ UNCHANGED <<model, lock, loads, fails>>

\* The exception leaves the with block, and embed.
Unwind(e) ==
    /\ Go(e, "unwind", "done")
    /\ lock' = Nobody
    /\ UNCHANGED <<model, loads, fails>>

Release(e) ==
    /\ Go(e, "release", "encode")
    /\ lock' = Nobody
    /\ UNCHANGED <<model, loads, fails>>

Encode(e) == Go(e, "encode", "done") /\ UNCHANGED <<model, lock, loads, fails>>

EmbedProceeds(e) ==
    \/ Look(e) \/ Lock(e) \/ Recheck(e) \/ Load(e) \/ LoadRaises(e)
    \/ Unwind(e) \/ Release(e) \/ Encode(e)

EmbeddingNext == \E e \in Embeds : Begin(e) \/ EmbedProceeds(e)

EmbeddingSpec == EmbeddingInit /\ [][EmbeddingNext]_embeddingVars

\* A thread goes on; nobody has to call embed.
EmbeddingFairSpec ==
    /\ EmbeddingSpec
    /\ \A e \in Embeds : WF_embeddingVars(EmbedProceeds(e))

-----------------------------------------------------------------------------
EmbeddingTypeOK ==
    /\ epc \in [Embeds -> EmbedSteps]
    /\ model \in BOOLEAN
    /\ lock \in Embeds \cup {Nobody}
    /\ loads \in Nat
    /\ fails \in 0..MaxFails
    /\ \A e \in Embeds : lock = e <=> epc[e] \in Inside

\* However the calls race, and after loads that raised, the model is loaded
\* once, and every call that encodes has it.
LoadedOnce ==
    /\ loads <= 1
    /\ \A e \in Embeds : epc[e] = "encode" => loads = 1

\* LoadedOnce made inductive: a call that is about to load found no model
\* while it held the lock.
EmbeddingInductive ==
    /\ EmbeddingTypeOK
    /\ LoadedOnce
    /\ loads = IF model THEN 1 ELSE 0
    /\ \A e \in Embeds :
          /\ epc[e] \in {"load", "unwind"} => ~model
          /\ epc[e] \in {"release", "encode"} => model

\* Every call of embed returns or raises: a load that raises leaves the lock
\* to the calls that wait for it.
EveryEmbedEnds == \A e \in Embeds : epc[e] = "look" ~> epc[e] = "done"
=============================================================================
