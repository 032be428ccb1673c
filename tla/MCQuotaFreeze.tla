--------------------------- MODULE MCQuotaFreeze ---------------------------
(* TLC instances of QuotaFreeze. *)
EXTENDS QuotaFreeze, TLC

Symmetry == Permutations(Models) \cup Permutations(Requests)
=============================================================================
