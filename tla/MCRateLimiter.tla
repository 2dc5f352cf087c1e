----------------------------- MODULE MCRateLimiter -----------------------------
(* Model values for RateLimiter.  The smallest TTL the assumption allows   *)
(* lets the cleanup meet windows soonest.                                  *)
EXTENDS RateLimiter, TLC

CONSTANTS a1, a2

Addresses == {a1, a2}
Symmetry  == Permutations(Addresses)
===============================================================================
