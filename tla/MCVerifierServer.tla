-------------------------- MODULE MCVerifierServer --------------------------
(* An instance of VerifierServer for TLC; the values are in the .cfg. *)
EXTENDS VerifierServer
=============================================================================
