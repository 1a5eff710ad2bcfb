---------------------------- MODULE MCRateLimit -----------------------------
(* Connection threads are interchangeable, and so are the keys.              *)
EXTENDS RateLimit, TLC

Symmetry == Permutations(Threads) \cup Permutations(Keys)
=============================================================================
