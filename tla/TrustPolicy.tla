---------------------------- MODULE TrustPolicy ----------------------------
(***************************************************************************)
(* The policy trust store of the verifier (packages/verifier/src/          *)
(* trust-store.ts over packages/core/src/trust-policy.ts): configured keys *)
(* and certificate anchors, a resolver that fetches the keys of did:web    *)
(* issuers, and two memories of what it returned, one in the policy and    *)
(* one in the store.                                                       *)
(***************************************************************************)
EXTENDS Naturals, FiniteSets

CONSTANTS
  Keys,        \* references to a key: an issuer id with a key id
  Issuer,      \* Issuer[k]: the issuer id of reference k
  Materials,   \* key pairs
  Prints,      \* certificate fingerprints as they are spelled
  NoPrint,     \* a key without a certificate fingerprint
  Normal,      \* Normal[p]: the normalised spelling of p (case, colons)
  Configured,  \* the keys of the trust bundle, as key infos
  Anchors,     \* the X.509 anchors of the bundle: [issuer, print]
  HasResolver  \* the store has a did:web resolver

\* A SignerKeyInfo, with what the policy asks of where it was fetched: over
\* https, and as did:web material of an allowed domain.  spki: the public key is
\* in the encoding createPublicKey() is asked to load.
KeyInfos ==
  [key : Keys, material : Materials, print : Prints \cup {NoPrint},
   spki : BOOLEAN, https : BOOLEAN, didWeb : BOOLEAN]

ASSUME PrintAssumption == /\ NoPrint \notin Prints
                          /\ Normal \in [Prints -> Prints]
ASSUME IssuerAssumption == DOMAIN Issuer = Keys
ASSUME ConfiguredAssumption == /\ Configured \subseteq KeyInfos
                               /\ \A i, j \in Configured : i.key = j.key => i = j
ASSUME AnchorsAssumption == \A a \in Anchors : a.print \in Prints
ASSUME ResolverAssumption == HasResolver \in BOOLEAN

VARIABLES
  lastResolved, \* lastResolved[k]: what the policy remembers of k; at most one
  resolved      \* resolved[k]: what the store remembers of k; at most one

policyVars == <<lastResolved, resolved>>

PolicyInit == /\ lastResolved = [k \in Keys |-> {}]
              /\ resolved = [k \in Keys |-> {}]

-----------------------------------------------------------------------------
(* Trust *)

\* normalizeFingerprint() leaves an absent fingerprint absent.
SamePrint(p, q) ==
  IF NoPrint \in {p, q} THEN p = q ELSE Normal[p] = Normal[q]

SameKey(i, j) ==
  i.key = j.key /\ i.material = j.material /\ i.spki = j.spki /\ SamePrint(i.print, j.print)

\* Mutant: only a configured key with a certificate counts.
ConfiguredWithPrint(k) == {i \in Configured : i.key = k /\ i.print # NoPrint}

ConfiguredFor(k) == {i \in Configured : i.key = k}

\* The store compares fingerprints normalised, the policy as they are spelled.
Anchored(i) ==
  \E a \in Anchors : a.issuer = Issuer[i.key] /\ SamePrint(a.print, i.print)
AnchoredExactly(i) ==
  \E a \in Anchors : a.issuer = Issuer[i.key] /\ a.print = i.print

\* The decision evaluate() records about the key it was given.
Accepted(i) == i.https /\ (i.didWeb \/ AnchoredExactly(i))

\* Mutant: a key the resolver returned is trusted for being returned.
ResolvedIsTrusted(i, memory) ==
  IF ConfiguredFor(i.key) # {} THEN \E c \in ConfiguredFor(i.key) : SameKey(c, i)
  ELSE Anchored(i) \/ (HasResolver /\ memory[i.key] # {})

\* isTrusted(), with the decision the policy remembers of this key reference:
\* what it remembers may have been fetched by another verification.
IsTrusted(i, memory) ==
  IF ConfiguredFor(i.key) # {} THEN \E c \in ConfiguredFor(i.key) : SameKey(c, i)
  ELSE Anchored(i) \/ (HasResolver /\ \E r \in memory[i.key] : Accepted(r))

-----------------------------------------------------------------------------
(* Resolution: an answer is a set of at most one key info *)

\* evaluate() drops an answer for another key than the one asked for.
Asked(k, answer) == {i \in answer : i.key = k}

\* Mutant: the first answer stays.
FirstStays(k, answer) == IF lastResolved[k] # {} THEN lastResolved[k] ELSE Asked(k, answer)

\* What the policy remembers of k after the resolver's answer; an outage, an
\* exception and a missing key make it forget.
Remembered(k, answer) == Asked(k, answer)

\* What the store remembers of k then.
Kept(k, answer) == Asked(k, answer)

\* resolve() once the resolver answered.
Learn(k, answer) ==
  /\ lastResolved' = [lastResolved EXCEPT ![k] = Remembered(k, answer)]
  /\ resolved' = [resolved EXCEPT ![k] = Kept(k, answer)]

\* resolveByFingerprint(): the configured keys first, then every remembered key,
\* of whatever reference and issuer.
ByFingerprint(p, memory) ==
  LET Under(infos) == {i \in infos : p # NoPrint /\ SamePrint(i.print, p)}
  IN IF Under(Configured) # {} THEN Under(Configured)
     ELSE Under(UNION {memory[k] : k \in Keys})
=============================================================================
