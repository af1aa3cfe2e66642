---------------------------- MODULE AtomicCache -----------------------------
(***************************************************************************)
(* What the semantic cache promises: a lookup takes effect in one step,    *)
(* stored answers stay as they are, recording a hit is not visible.        *)
(* ProcessRouter and ProcessTask use the cache as it is described here.    *)
(***************************************************************************)
EXTENDS AnswerCache

CONSTANTS Clients,  \* threads of the API and worker processes
          Open      \* the outcome of a lookup that has none (yet), no point

VARIABLES asked,  \* asked[c]: the text client c looks up (NoText: none)
          got     \* got[c]: what the lookup returned

atomicVars == <<points, stale, asked, got>>

AtomicInit ==
    /\ CacheInit
    /\ asked = [c \in Clients |-> NoText]
    /\ got = [c \in Clients |-> Open]

Ask(c) ==
    /\ asked[c] = NoText
    /\ \E t \in Texts : asked' = [asked EXCEPT ![c] = t]
    /\ UNCHANGED <<points, stale, got>>

Return(c) ==
    /\ asked[c] # NoText /\ got[c] = Open
    /\ \E r \in Points \cup {NoPoint} :
          LookupReturns(asked[c], r) /\ got' = [got EXCEPT ![c] = r]
    /\ UNCHANGED <<points, stale, asked>>

\* The client goes on to something else, having generated an answer if the
\* lookup returned none.
Leave(c) ==
    /\ asked[c] # NoText
    /\ \/ UNCHANGED <<points, stale>>
       \/ got[c] = NoPoint /\ \E p \in Points : Add(p, asked[c])
    /\ asked' = [asked EXCEPT ![c] = NoText]
    /\ got' = [got EXCEPT ![c] = Open]

AtomicNext ==
    \/ \E c \in Clients : Ask(c) \/ Return(c) \/ Leave(c)
    \/ GrowStale /\ UNCHANGED <<asked, got>>

AtomicSpec == AtomicInit /\ [][AtomicNext]_atomicVars
=============================================================================
