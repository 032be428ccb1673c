-------------------------- MODULE MCAccountCache --------------------------
(* Symmetry of the account cache model. *)
EXTENDS AccountCache, TLC

\* Detail calls are interchangeable, and so are check-ins.
RunSymmetry == Permutations(Callers) \cup Permutations(Checkins)
=============================================================================
