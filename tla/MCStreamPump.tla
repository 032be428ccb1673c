--------------------------- MODULE MCStreamPump ---------------------------
(* Symmetry of the stream model. *)
EXTENDS StreamPump, TLC

\* Calls are interchangeable.
CallSymmetry == Permutations(Calls)
=============================================================================
