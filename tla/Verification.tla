---------------------------- MODULE Verification ----------------------------
(***************************************************************************)
(* Verifications running concurrently over one trust store: paper seals    *)
(* (packages/paper/src/verify.ts, cose.ts) and PDFs (credaryn.ts over the  *)
(* DSS engine), the verdict (packages/core/src/verdict.ts) and the status  *)
(* lookup that follows it (packages/verifier/src/status.ts), while the     *)
(* issuers publish and withdraw their keys and close their documents.      *)
(*                                                                         *)
(* The status resolver is configured; a verifier without one answers what  *)
(* this one answers when the status service is unavailable.                *)
(***************************************************************************)
EXTENDS TrustPolicy

CONSTANTS
  Checks,     \* calls to verifyInput()
  Artifacts,  \* the artifacts they are given
  Offers,     \* [asked, info]: the resolver may answer info when asked for asked
  MaxChanges  \* bound: changes of what the issuers publish

\* bound: header and payload name the same key, and the claims are those of the
\* expected descriptor, if one is given.  by: the key pair that signed.  claim:
\* the certificate fingerprint in the payload.  named: the signing certificate
\* of a PDF gives an issuer and a key id.
Seals == [kind : {"paper"}, key : Keys, by : Materials, intact : BOOLEAN,
          bound : BOOLEAN, claim : Prints \cup {NoPrint}]
Pdfs == [kind : {"pdf"}, key : Keys, crypto : {"VALID", "INVALID", "UNVERIFIABLE"},
         integrity : {"VALID", "INVALID", "UNKNOWN"}, named : BOOLEAN]

ASSUME ArtifactsAssumption == Artifacts \subseteq Seals \cup Pdfs
ASSUME OffersAssumption == Offers \subseteq [asked : Keys, info : KeyInfos]
ASSUME ChangesAssumption == MaxChanges \in Nat

VARIABLES
  published, \* published[k]: what the resolver can answer for k; at most one
  changes,   \* how often that changed
  document,  \* document[a]: the state of a at the status service
  check,     \* check[v]: verification v
  accepted   \* history: the keys the policy learned and accepted

issuerVars == <<published, changes, document>>
vars == <<lastResolved, resolved, published, changes, document, check, accepted>>

Papers == {a \in Artifacts : a.kind = "paper"}
Cryptos == {"VALID", "INVALID", "UNVERIFIABLE"}
Trusts == {"TRUSTED", "UNTRUSTED", "MISSING"}
Verdicts == {"VALID_TRUSTED", "VALID_UNTRUSTED", "INVALID", "UNVERIFIABLE"}
Statuses == {"UNCHECKED", "ACTIVE", "REVOKED"}

\* offered, seen and closed are history variables: what the resolver could have
\* answered and the states the status service could have, since each was asked,
\* and whether the document was closed when the verification began.
Idle == [phase |-> "idle"]
CheckStates ==
  [phase : {"engine", "resolving", "status", "done", "failed"}, artifact : Artifacts,
   offered : SUBSET KeyInfos, found : SUBSET KeyInfos,
   crypto : Cryptos, trust : Trusts, verdict : Verdicts, lifecycle : Statuses,
   seen : SUBSET Statuses, closed : BOOLEAN]

Begun(v) == check[v].phase # "idle"
Decided(v) == check[v].phase \in {"status", "done"}
Done(v) == check[v].phase = "done"
Put(v, c) == check' = [check EXCEPT ![v] = c]

-----------------------------------------------------------------------------
(* From the key that was found to the verdict *)

\* Mutant: whatever the signature covers, the key that was found made it.
AnySignature(a, found) == IF found = {} THEN "UNVERIFIABLE" ELSE "VALID"

\* verifyCoseSign1(): a key that cannot be loaded fails the signature.
CoseValidity(a, found) ==
  CASE found = {} -> "UNVERIFIABLE"
    [] \E i \in found : i.spki /\ i.material = a.by /\ a.intact -> "VALID"
    [] OTHER -> "INVALID"

\* verifyPaperSeal() refuses a valid signature too: of another key id or other
\* claims, or of a certificate whose fingerprint is not spelled as the seal's.
Refused(a, found) ==
  \/ ~a.bound
  \/ /\ CoseValidity(a, found) = "VALID" /\ a.claim # NoPrint
     /\ \E i \in found : i.print # a.claim

PaperCrypto(a, found) == IF Refused(a, found) THEN "INVALID" ELSE CoseValidity(a, found)

Crypto(a, found) == IF a.kind = "paper" THEN PaperCrypto(a, found) ELSE a.crypto

\* The trust decision, over what the policy remembers when it is taken.  A PDF
\* whose key is not found is untrusted, a paper seal without a key is unknown.
Trust(a, found, memory) ==
  IF Crypto(a, found) # "VALID" \/ (a.kind = "pdf" /\ ~a.named) THEN "MISSING"
  ELSE IF \E i \in found : IsTrusted(i, memory) THEN "TRUSTED" ELSE "UNTRUSTED"

\* createVerificationResult().
Verdict(a, crypto, trust) ==
  IF a.kind = "pdf" /\ a.integrity # "VALID"
  THEN IF a.integrity = "INVALID" THEN "INVALID" ELSE "UNVERIFIABLE"
  ELSE IF crypto # "VALID" THEN crypto
  ELSE CASE trust = "TRUSTED" -> "VALID_TRUSTED"
         [] trust = "UNTRUSTED" -> "VALID_UNTRUSTED"
         [] trust = "MISSING" -> "UNVERIFIABLE"

\* The verification after its key was looked up.  Only a paper seal names a
\* document, so only a paper seal goes on to the status service.
Judged(c, found, memory) ==
  LET a == c.artifact
      trust == Trust(a, found, memory)
  IN [c EXCEPT !.phase = IF a.kind = "paper" THEN "status" ELSE "done",
               !.offered = {}, !.found = found, !.crypto = Crypto(a, found), !.trust = trust,
               !.verdict = Verdict(a, Crypto(a, found), trust),
               !.seen = IF a.kind = "paper" THEN {document[a]} ELSE {}]

\* The keys a lookup may end with: a paper seal without a key of its own is looked
\* up by the fingerprint it claims.
Findings(a, own, memory) ==
  IF own = {} /\ a.kind = "paper" /\ ByFingerprint(a.claim, memory) # {}
  THEN {{i} : i \in ByFingerprint(a.claim, memory)}
  ELSE {own}

-----------------------------------------------------------------------------
(* A verification *)

NewCheck(a) ==
  [phase |-> "engine", artifact |-> a, offered |-> {}, found |-> {},
   crypto |-> "UNVERIFIABLE", trust |-> "MISSING", verdict |-> "UNVERIFIABLE",
   lifecycle |-> "UNCHECKED", seen |-> {},
   closed |-> a.kind = "paper" /\ document[a] = "REVOKED"]

\* trustStore.resolve() up to its first await: a configured key is found at once,
\* and without a resolver so is that there is no key; otherwise it is fetched.
LookUp(v, c) ==
  LET k == c.artifact.key
      own == ConfiguredFor(k)
  IN IF own # {} \/ ~HasResolver
     THEN \E found \in Findings(c.artifact, own, resolved) :
            Put(v, Judged(c, found, lastResolved))
     ELSE Put(v, [c EXCEPT !.phase = "resolving", !.offered = published[k]])

Begin(v, a) ==
  /\ check[v] = Idle
  /\ IF a.kind = "paper" THEN LookUp(v, NewCheck(a)) ELSE Put(v, NewCheck(a))
  /\ UNCHANGED <<policyVars, issuerVars, accepted>>

\* The DSS sidecar's report on a PDF.  Trust is asked for a valid signature only.
EngineAnswers(v) ==
  /\ check[v].phase = "engine"
  /\ LET c == check[v]
     IN IF c.artifact.crypto = "VALID" /\ c.artifact.named THEN LookUp(v, c)
        ELSE Put(v, Judged(c, {}, lastResolved))
  /\ UNCHANGED <<policyVars, issuerVars, accepted>>

\* The sidecar times out, refuses or answers nonsense: the verification fails.
EngineFails(v) ==
  /\ check[v].phase = "engine"
  /\ Put(v, [check[v] EXCEPT !.phase = "failed"])
  /\ UNCHANGED <<policyVars, issuerVars, accepted>>

\* The resolver answers or fails; the promise chain from its answer through both
\* memories, the signature check and isTrusted() runs without another I/O event.
ResolverAnswers(v, answer) ==
  /\ check[v].phase = "resolving"
  /\ LET c == check[v]
         k == c.artifact.key
     IN /\ answer = {} \/ \E i \in c.offered : answer = {i}
        /\ Learn(k, answer)
        /\ \E found \in Findings(c.artifact, Asked(k, answer), resolved') :
             Put(v, Judged(c, found, lastResolved'))
        /\ accepted' = accepted \cup {i \in Asked(k, answer) : Accepted(i)}
  /\ UNCHANGED issuerVars

\* Mutant: an unavailable status service is taken for an active document.
FailOpen(c, s) == [c EXCEPT !.lifecycle = IF s = "UNCHECKED" THEN "ACTIVE" ELSE s]

\* applyStatusResolver(): the lifecycle status is all that a lookup changes.
WithStatus(c, s) == [c EXCEPT !.lifecycle = s]

\* The status service answers with a state it had since it was asked, or not at
\* all: a timeout, a refused URL, an answer that cannot be read.
StatusAnswers(v, s) ==
  /\ check[v].phase = "status"
  /\ s \in check[v].seen \cup {"UNCHECKED"}
  /\ Put(v, [WithStatus(check[v], s) EXCEPT !.phase = "done", !.seen = {}])
  /\ UNCHANGED <<policyVars, issuerVars, accepted>>

-----------------------------------------------------------------------------
(* The issuers *)

\* A new answer for k also becomes what a fetch of k in flight may get.
Republish(k, infos) ==
  /\ changes < MaxChanges
  /\ changes' = changes + 1
  /\ published' = [published EXCEPT ![k] = infos]
  /\ check' = [v \in Checks |->
       IF check[v].phase = "resolving" /\ check[v].artifact.key = k
       THEN [check[v] EXCEPT !.offered = @ \cup infos] ELSE check[v]]
  /\ UNCHANGED <<policyVars, document, accepted>>

Publish(o) == published[o.asked] # {o.info} /\ Republish(o.asked, {o.info})
Withdraw(k) == published[k] # {} /\ Republish(k, {})

Restate(a, s) ==
  /\ document' = [document EXCEPT ![a] = s]
  /\ check' = [v \in Checks |->
       IF check[v].phase = "status" /\ check[v].artifact = a
       THEN [check[v] EXCEPT !.seen = @ \cup {s}] ELSE check[v]]
  /\ UNCHANGED <<policyVars, published, changes, accepted>>

Issue(a) == document[a] = "UNCHECKED" /\ Restate(a, "ACTIVE")
Close(a) == document[a] = "ACTIVE" /\ Restate(a, "REVOKED")

-----------------------------------------------------------------------------
Init ==
  /\ PolicyInit
  /\ published = [k \in Keys |-> {}]
  /\ changes = 0
  /\ document = [a \in Papers |-> "UNCHECKED"]
  /\ check = [v \in Checks |-> Idle]
  /\ accepted = {}

Next ==
  \/ \E v \in Checks : \/ \E a \in Artifacts : Begin(v, a)
                       \/ EngineAnswers(v)
                       \/ EngineFails(v)
                       \/ \E answer \in {{}} \cup {{o.info} : o \in Offers} : ResolverAnswers(v, answer)
                       \/ \E s \in Statuses : StatusAnswers(v, s)
  \/ \E o \in Offers : Publish(o)
  \/ \E k \in Keys : Withdraw(k)
  \/ \E a \in Papers : Issue(a) \/ Close(a)

Spec == Init /\ [][Next]_vars

-----------------------------------------------------------------------------
(* Properties *)

\* Every variable has its type, and the resolver never offers two keys for one
\* reference.
VerificationTypeOK ==
  /\ lastResolved \in [Keys -> SUBSET KeyInfos] /\ resolved \in [Keys -> SUBSET KeyInfos]
  /\ published \in [Keys -> SUBSET KeyInfos] /\ changes \in 0 .. MaxChanges
  /\ document \in [Papers -> Statuses]
  /\ check \in [Checks -> CheckStates \cup {Idle}]
  /\ accepted \subseteq KeyInfos

\* The two memories the store and its policy keep of the resolver's answers never
\* disagree, and what they hold under a key reference is one key of that
\* reference (trust-store.ts resolve, trust-policy.ts remember and untrusted).
MemoriesAgree ==
  /\ resolved = lastResolved
  /\ \A k \in Keys : /\ Cardinality(resolved[k]) <= 1
                     /\ \A i \in resolved[k] : i.key = k

\* A trusted result rests on one key that is in the trust bundle, or that the
\* policy fetched and accepted, or that a configured anchor covers; it is the key
\* the artifact names, or the one whose fingerprint the seal claims.  Neither an
\* outage nor the order of concurrent answers makes another key trusted
\* (trust-store.ts isTrusted, README.md:350).
TrustIsGrounded ==
  \A v \in Checks : Decided(v) /\ check[v].trust = "TRUSTED" =>
    \E i \in check[v].found :
      /\ i \in Configured \/ i \in accepted \/ Anchored(i)
      /\ \/ i.key = check[v].artifact.key
         \/ check[v].artifact.kind = "paper" /\ i.print = check[v].artifact.claim

\* The trust decision on a key the verification fetched for itself is the one the
\* policy takes of that key, whatever other verifications of the same key learned
\* meanwhile: isTrusted() reads a memory all verifications share
\* (trust-policy.ts isTrusted, cose.ts:161-194).
DecisionsAreTheirOwn ==
  \A v \in Checks : Decided(v) /\ check[v].crypto = "VALID" =>
    \A i \in check[v].found : i.key = check[v].artifact.key =>
      (check[v].trust = "TRUSTED" <=> i \in Configured \/ Anchored(i) \/ Accepted(i))

\* A valid verdict is given only to a seal that its key signed over the claims it
\* shows and with the certificate it names, and to a PDF whose signatures and
\* bytes the engine found valid (verify.ts, verdict.ts).
ValidIsGenuine ==
  \A v \in Checks : Decided(v) /\ check[v].verdict \in {"VALID_TRUSTED", "VALID_UNTRUSTED"} =>
    LET a == check[v].artifact
    IN IF a.kind = "pdf" THEN a.crypto = "VALID" /\ a.integrity = "VALID" /\ a.named
       ELSE /\ a.intact /\ a.bound
            /\ \E i \in check[v].found :
                 i.spki /\ i.material = a.by /\ a.claim \in {NoPrint, i.print}

\* What the artifact of v is worth to the holder of the configured key c.
SignedBy(a, c) ==
  IF a.kind = "pdf" THEN a.crypto = "VALID" /\ a.integrity = "VALID" /\ a.named
  ELSE a.intact /\ a.bound /\ c.spki /\ a.by = c.material /\ a.claim \in {NoPrint, c.print}

\* An artifact signed with a key of the trust bundle is VALID_TRUSTED whatever the
\* network does and whatever was fetched before: offline verification.
OfflineKeysAreTrusted ==
  \A v \in Checks : Decided(v) =>
    \A c \in Configured :
      c.key = check[v].artifact.key /\ SignedBy(check[v].artifact, c)
        => check[v].verdict = "VALID_TRUSTED"

\* A document revoked before its verification began is never reported ACTIVE; it
\* may be UNCHECKED when the status service cannot be reached.
RevokedIsNotActive ==
  \A v \in Checks : Done(v) /\ check[v].closed => check[v].lifecycle # "ACTIVE"

\* Once decided, what a verification says of the signature, the trust and the
\* verdict stays: the status lookup only adds a lifecycle status
\* (verifier/src/status.ts:15).
StatusIsDescriptive ==
  [][\A v \in Checks : Decided(v) =>
       LET c == check[v]
           d == check'[v]
       IN <<c.found, c.crypto, c.trust, c.verdict>> = <<d.found, d.crypto, d.trust, d.verdict>>]_vars

\* INVALID means that "a signature, integrity check or signed-claim binding
\* failed" (README.md:345): a seal that is intact, bound to what it is expected
\* to say, and signed with the key pair the issuer publishes for it is not
\* INVALID.
GenuineSealsAreNotInvalid ==
  \A v \in Checks : Decided(v) /\ check[v].artifact.kind = "paper" =>
    LET a == check[v].artifact
    IN a.intact /\ a.bound /\ (\A i \in check[v].found : i.key = a.key /\ i.material = a.by)
         /\ a.claim = NoPrint
       => check[v].verdict # "INVALID"
=============================================================================
