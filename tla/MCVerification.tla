-------------------------- MODULE MCVerification --------------------------
(***************************************************************************)
(* Instances of Verification for TLC.  Acme publishes the keys k1 and k2   *)
(* through a resolver, k3 of Globex is configured.  Acme's second key has  *)
(* a fingerprint that an anchor names in another spelling.                 *)
(***************************************************************************)
EXTENDS Verification, TLC

CONSTANTS v1, v2, k1, k2, k3, m1, m2, p1, p2, P2, none

MCChecks == {v1, v2}
MCKeys == {k1, k2, k3}
MCIssuer == (k1 :> "acme" @@ k2 :> "acme" @@ k3 :> "globex")
MCPrints == {p1, p2, P2}
MCNormal == (p1 :> p1 @@ p2 :> p2 @@ P2 :> p2)
MCAnchors == {[issuer |-> "acme", print |-> P2]}

Info(k, m, p, https) ==
  [key |-> k, material |-> m, print |-> p, spki |-> TRUE, https |-> https, didWeb |-> TRUE]

MCConfigured == {[Info(k3, m2, none, FALSE) EXCEPT !.didWeb = FALSE]}

\* The right key; another key pair from an http address; the anchored key; and an
\* answer for another reference than the one asked for.
MCOffers ==
  {[asked |-> k1, info |-> Info(k1, m1, p1, TRUE)],
   [asked |-> k1, info |-> Info(k1, m2, p1, FALSE)],
   [asked |-> k2, info |-> Info(k2, m2, p2, FALSE)],
   [asked |-> k2, info |-> Info(k1, m1, p1, TRUE)]}

Seal(k, m, claim) ==
  [kind |-> "paper", key |-> k, by |-> m, intact |-> TRUE, bound |-> TRUE, claim |-> claim]
Pdf(k, crypto, integrity) ==
  [kind |-> "pdf", key |-> k, crypto |-> crypto, integrity |-> integrity, named |-> TRUE]

\* Seals of both Acme keys, the second claiming the first key's certificate; of
\* the configured key; with altered claims; and PDFs.
MCArtifacts ==
  {Seal(k1, m1, p1), Seal(k2, m1, p1), Seal(k3, m2, none),
   [Seal(k1, m1, none) EXCEPT !.bound = FALSE],
   Pdf(k1, "VALID", "VALID"), Pdf(k3, "VALID", "VALID"), Pdf(k1, "VALID", "INVALID")}

\* did:web as createDidWebResolver() answers it for a JWK: a raw point for a
\* public key, and no fingerprint.
DidWebOffers ==
  {[asked |-> k1, info |-> [Info(k1, m1, none, TRUE) EXCEPT !.spki = FALSE]]}
DidWebArtifacts == {Seal(k1, m1, none)}

Interchangeable == Permutations(MCChecks)
=============================================================================
