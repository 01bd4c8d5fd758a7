--------------------------- MODULE MCEventStore ---------------------------
(* Bounds for checking EventStore with TLC. *)
EXTENDS EventStore, TLC

\* Turns are interchangeable.
Symmetry == Permutations(Run)
=============================================================================
