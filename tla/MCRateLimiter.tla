--------------------------- MODULE MCRateLimiter ---------------------------
(* A slot with a clock that wraps at 10 ms.                                 *)
EXTENDS RateLimiter, TLC

CONSTANTS t1, t2, t3

TaskSymmetry == Permutations(Tasks)
=============================================================================
