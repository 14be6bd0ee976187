----------------------------- MODULE MCRateLimit -----------------------------
(* A small instance of RateLimit: three requests in three minutes of two     *)
(* ticks, with counters that live for three.                                 *)
EXTENDS RateLimit, TLC

Symmetric == Permutations(Request)

=============================================================================
