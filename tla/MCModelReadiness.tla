-------------------------- MODULE MCModelReadiness --------------------------
(* TLC instances of ModelReadiness. *)
EXTENDS ModelReadiness, TLC

CONSTANTS t1, t2, i1

\* Two tokens of the same account: one identity.
SharedIdentity == [t \in {t1, t2} |-> i1]
OneToken == [t \in {t1} |-> i1]

Symmetry == Permutations(Calls)
TokenSymmetry == Symmetry \cup Permutations(Tokens)
=============================================================================
