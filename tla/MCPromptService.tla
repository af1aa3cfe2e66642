--------------------------- MODULE MCPromptService --------------------------
(***************************************************************************)
(* Small instances of PromptService.                                       *)
(***************************************************************************)
EXTENDS PromptService, TLC

CONSTANTS k1, k2, k3, t1, t2, t3

\* Every text is only similar to itself.
Exact == {<<t, t>> : t \in Texts}

\* Similarity is not transitive: t2 is close to t1 and to t3.
Chain == Exact \cup {<<t1, t2>>, <<t2, t1>>, <<t2, t3>>, <<t3, t2>>}

\* Every key is used with one text.
OneText == [k \in Keys |-> CASE k = k1 -> {t1} [] k = k2 -> {t2} [] k = k3 -> {t3}]

Symmetry == Permutations(Points) \cup Permutations(Calls) \cup Permutations(Workers)
=============================================================================
