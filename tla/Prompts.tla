------------------------------ MODULE Prompts -------------------------------
(***************************************************************************)
(* Prompts and the ids of their cached answers.                            *)
(***************************************************************************)
EXTENDS Naturals

CONSTANTS Points,   \* the point ids of the Qdrant collection prompt_cache
          NoPoint,  \* None where a point id is expected
          Texts,    \* prompt texts, stripped and not empty
          NoText,   \* the text of a point that is not stored
          Similar   \* pairs of texts whose embeddings score >= 0.9

ASSUME PromptsAssumption ==
    /\ NoPoint \notin Points
    /\ NoText \notin Texts
    /\ Similar \subseteq Texts \X Texts
    /\ \A t \in Texts : <<t, t>> \in Similar
=============================================================================
