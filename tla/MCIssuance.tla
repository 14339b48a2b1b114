----------------------------- MODULE MCIssuance -----------------------------
(* Instances of Issuance for TLC: one key of one issuer in two versions, with a *)
(* signer for each, and a key of the same name of another issuer.               *)
EXTENDS Issuance, TLC

CONSTANTS i1, i2, v1, v2, v3, m1, s1, s2, q1, r1

K1 == [issuer |-> i1, key |-> "issuer-key", version |-> v1]
K2 == [issuer |-> i1, key |-> "issuer-key", version |-> v2]

MCKeyVersions == {K1, K2, [issuer |-> i2, key |-> "issuer-key", version |-> v3]}
MCKeyOf == (s1 :> K1) @@ (s2 :> K2)
MCSidecarKey == K2
=============================================================================
