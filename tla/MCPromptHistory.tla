--------------------------- MODULE MCPromptHistory ---------------------------
(***************************************************************************)
(* Small instances of PromptService with its history and its use of the    *)
(* cache.                                                                  *)
(***************************************************************************)
EXTENDS MCPromptService, PromptHistory, PromptCacheUse
=============================================================================
