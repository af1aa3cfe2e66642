--------------------------- MODULE MCRateLimiter ----------------------------
(***************************************************************************)
(* Small instances of RedisRateLimiter, and what the documents say of it   *)
(* that the code does not do.                                              *)
(***************************************************************************)
EXTENDS RedisRateLimiter

\* README.md:99-100, "to maintain 300 LLM calls per minute across all workers",
\* and DESIGN.md:10, "capped at 300 calls per minute": no interval of a window
\* admits more than Limit calls.  A full bucket is spent at once and refilled
\* during the window.
CappedPerWindow == now - start < Window => since <= Limit
=============================================================================
