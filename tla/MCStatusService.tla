-------------------------- MODULE MCStatusService --------------------------
(* Instances of StatusService for TLC. *)
EXTENDS StatusService, TLC

\* Requests are interchangeable, and so are replicas (safety runs only).
Symmetry == Permutations(Requests) \union Permutations(Replicas)
=============================================================================
