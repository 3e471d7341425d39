--------------------------- MODULE RateLimiterMC ---------------------------
(* Small instances of RateLimiter.  Calls and counters are interchangeable *)
(* in every safety property; the liveness runs do without symmetry.        *)
EXTENDS RateLimiter, TLC

Symmetry == Permutations(Calls) \cup Permutations(Counters)
=============================================================================
