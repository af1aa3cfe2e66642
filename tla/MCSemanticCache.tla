-------------------------- MODULE MCSemanticCache ---------------------------
(***************************************************************************)
(* Small instances of SemanticCache, and what the documents say of it that *)
(* the code does not do.                                                   *)
(***************************************************************************)
EXTENDS SemanticCache, TLC

CONSTANTS t1, t2

\* t1 and t2 are similar, each of them most similar to itself.
CloseScore == [e \in Texts \X Texts |-> IF e[1] = e[2] THEN 3 ELSE 2]

CloseSimilar == {e \in Texts \X Texts : CloseScore[e] >= Threshold}

Symmetry == Permutations(Points) \cup Permutations(Clients)

\* DESIGN.md:60, "short-circuits to a cached response from Qdrant when
\* similarity >= 0.9": a lookup does not miss while an answer above the
\* threshold and within the lookback window is stored.  The search returns one
\* point, and when that one is stale the others are not considered.
FreshAnswerIsFound ==
    [][\A c \in Clients :
          step[c] = "judge" /\ step'[c] = "missed" =>
              ~\E p \in Kept : ScoreFor(c, p) >= Threshold /\ ~Stale(payload[p].created)]_detailVars
=============================================================================
