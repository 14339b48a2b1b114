--------------------------- MODULE MCStatusLookup ---------------------------
(* An instance of StatusLookup for TLC. *)
EXTENDS StatusLookup, TLC

\* Requests are interchangeable, and so are verifications.
LookupSymmetry == Permutations(Requests) \cup Permutations(Lookups)
=============================================================================
