---------------------------- MODULE MCRateLimiter -----------------------------
(* RateLimiter on a small instance.                                        *)
EXTENDS RateLimiter, TLC

Sym == Permutations(Worker) \cup Permutations(Key)
===============================================================================
