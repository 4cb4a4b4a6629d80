--------------------------- MODULE MCRateLimiter ---------------------------
(* RateLimiter with interchangeable callers, for long enough to enter a    *)
(* third window.                                                           *)
EXTENDS RateLimiter, TLC

Symmetry == Permutations(Callers)
=============================================================================
