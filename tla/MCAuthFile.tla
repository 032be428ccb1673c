----------------------------- MODULE MCAuthFile -----------------------------
(* Symmetry of the credential file model. *)
EXTENDS AuthFile, TLC

\* Runs of one kind, and balances, are interchangeable.
RunSymmetry ==
    Permutations(Reconciles) \cup Permutations(Keepalives) \cup Permutations(Operators)
        \cup Permutations(Balances)
=============================================================================
