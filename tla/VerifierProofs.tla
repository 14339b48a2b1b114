--------------------------- MODULE VerifierProofs ---------------------------
(***************************************************************************)
(* Proofs about the verifier: Verification and, below, the service that    *)
(* runs verifications, VerifierServer; each about its own specification.   *)
(***************************************************************************)
EXTENDS Verification, VerifierServer, FiniteSetTheorems, TLAPS

-----------------------------------------------------------------------------
(***************************************************************************)
(* Verification: for any number of concurrent verifications, any trust     *)
(* bundle and any behaviour of the resolver, a trusted verdict is          *)
(* grounded, a decision on a fetched key is its own, a valid verdict is    *)
(* genuine and the keys of the bundle are trusted offline.                 *)
(*                                                                         *)
(* What the four say of a verification depends on the key it was judged    *)
(* with (KeyFound).  That this key is what it should be rests on the       *)
(* memories: what they hold was fetched for that very key, is remembered   *)
(* only for keys outside the bundle, and is recorded if it was accepted.   *)
(***************************************************************************)

\* What the memories may hold, given the keys accepted so far.
MemoryOK(memory, acc) ==
  \A k \in Keys :
    /\ \A i \in memory[k] : /\ i.key = k /\ ConfiguredFor(k) = {} /\ HasResolver
                            /\ Accepted(i) => i \in acc
    /\ \A i, j \in memory[k] : i = j

\* The key of a PDF is looked up only if its signatures are valid and name one.
AsksForKey(a) == a.kind = "pdf" => a.crypto = "VALID" /\ a.named

\* What the key a verification ends with is to it.
KeyFound(a, found, memory, acc) ==
  /\ \A i, j \in found : i = j
  /\ \A i \in found :
       /\ IsTrusted(i, memory) => i \in Configured \/ i \in acc \/ Anchored(i)
       /\ i.key = a.key \/ a.kind = "paper"
       /\ i.key # a.key => a.claim # NoPrint
       /\ i.key = a.key =>
            (IsTrusted(i, memory) <=> i \in Configured \/ Anchored(i) \/ Accepted(i))
  /\ IF AsksForKey(a) THEN \A c \in Configured : c.key = a.key => found = {c} ELSE found = {}

Grounded(c, acc) ==
  c.trust = "TRUSTED" =>
    \E i \in c.found :
      /\ i \in Configured \/ i \in acc \/ Anchored(i)
      /\ \/ i.key = c.artifact.key
         \/ c.artifact.kind = "paper" /\ i.print = c.artifact.claim
OwnDecision(c) ==
  c.crypto = "VALID" =>
    \A i \in c.found : i.key = c.artifact.key =>
      (c.trust = "TRUSTED" <=> i \in Configured \/ Anchored(i) \/ Accepted(i))
Genuine(c) ==
  c.verdict \in {"VALID_TRUSTED", "VALID_UNTRUSTED"} =>
    LET a == c.artifact
    IN IF a.kind = "pdf" THEN a.crypto = "VALID" /\ a.integrity = "VALID" /\ a.named
       ELSE /\ a.intact /\ a.bound
            /\ \E i \in c.found :
                 i.spki /\ i.material = a.by /\ a.claim \in {NoPrint, i.print}
Offline(c) ==
  \A k \in Configured :
    k.key = c.artifact.key /\ SignedBy(c.artifact, k) => c.verdict = "VALID_TRUSTED"

Sound(c, acc) == Grounded(c, acc) /\ OwnDecision(c) /\ Genuine(c) /\ Offline(c)

\* What holds of one verification that has begun.
CheckOK(c, acc) ==
  /\ c.phase = "engine" => c.artifact.kind = "pdf"
  /\ c.phase = "resolving" => /\ ConfiguredFor(c.artifact.key) = {} /\ HasResolver
                              /\ AsksForKey(c.artifact)
  /\ c.phase \in {"status", "done"} => Sound(c, acc)

VerificationInv ==
  /\ VerificationTypeOK
  /\ resolved = lastResolved
  /\ MemoryOK(resolved, accepted)
  /\ \A v \in Checks : Begun(v) => CheckOK(check[v], accepted)

-----------------------------------------------------------------------------
(* From the key to the verdict *)

LEMMA CoseCases ==
  ASSUME NEW a, NEW found
  PROVE  /\ CoseValidity(a, found) \in Cryptos
         /\ CoseValidity(a, found) = "VALID" <=>
              \E i \in found : i.spki /\ i.material = a.by /\ a.intact
  BY DEF CoseValidity, Cryptos

\* What a paper seal or a PDF needs for a cryptographically valid result.
LEMMA CryptoCases ==
  ASSUME NEW a \in Artifacts, NEW found
  PROVE  /\ Crypto(a, found) \in Cryptos
         /\ a.kind \in {"paper", "pdf"}
         /\ a.kind = "pdf" => Crypto(a, found) = a.crypto
         /\ a.kind = "paper" =>
              (Crypto(a, found) = "VALID" <=>
                 /\ a.bound
                 /\ \E i \in found : i.spki /\ i.material = a.by /\ a.intact
                 /\ a.claim # NoPrint => \A i \in found : i.print = a.claim)
  <1>1. a \in Seals \/ a \in Pdfs
    BY ArtifactsAssumption
  <1>2. a.kind \in {"paper", "pdf"} /\ (a.kind = "pdf" => a.crypto \in Cryptos)
    BY <1>1 DEF Seals, Pdfs, Cryptos
  <1>3. PaperCrypto(a, found) \in Cryptos
    BY CoseCases DEF PaperCrypto, Cryptos
  <1>4. PaperCrypto(a, found) = "VALID" <=>
          /\ a.bound
          /\ \E i \in found : i.spki /\ i.material = a.by /\ a.intact
          /\ a.claim # NoPrint => \A i \in found : i.print = a.claim
    BY CoseCases DEF PaperCrypto, Refused
  <1> QED
    BY <1>2, <1>3, <1>4 DEF Crypto

LEMMA TrustCases ==
  ASSUME NEW a, NEW found, NEW memory
  PROVE  /\ Trust(a, found, memory) \in Trusts
         /\ Trust(a, found, memory) = "TRUSTED" <=>
              /\ Crypto(a, found) = "VALID"
              /\ ~(a.kind = "pdf" /\ ~a.named)
              /\ \E i \in found : IsTrusted(i, memory)
         /\ Trust(a, found, memory) # "MISSING" <=>
              Crypto(a, found) = "VALID" /\ ~(a.kind = "pdf" /\ ~a.named)
  BY DEF Trust, Trusts

LEMMA VerdictCases ==
  ASSUME NEW a, NEW crypto \in Cryptos, NEW trust \in Trusts
  PROVE  /\ Verdict(a, crypto, trust) \in Verdicts
         /\ Verdict(a, crypto, trust) \in {"VALID_TRUSTED", "VALID_UNTRUSTED"} =>
              crypto = "VALID" /\ trust # "MISSING" /\ (a.kind = "pdf" => a.integrity = "VALID")
         /\ crypto = "VALID" /\ trust = "TRUSTED" /\ (a.kind = "pdf" => a.integrity = "VALID")
              => Verdict(a, crypto, trust) = "VALID_TRUSTED"
  BY DEF Verdict, Verdicts, Cryptos, Trusts

\* A verification judged with such a key is sound, and has its types.
LEMMA JudgedIsSound ==
  ASSUME NEW c \in CheckStates, NEW found \in SUBSET KeyInfos, NEW memory, NEW acc,
         KeyFound(c.artifact, found, memory, acc),
         document \in [Papers -> Statuses]
  PROVE  /\ Judged(c, found, memory) \in CheckStates
         /\ CheckOK(Judged(c, found, memory), acc)
         /\ Judged(c, found, memory).phase \in {"status", "done"}
  <1> DEFINE a == c.artifact
             cr == Crypto(a, found)
             tr == Trust(a, found, memory)
             ve == Verdict(a, cr, tr)
             j == Judged(c, found, memory)
  <1>1. a \in Artifacts
    BY DEF CheckStates
  <1>2. /\ j.artifact = a /\ j.found = found /\ j.crypto = cr /\ j.trust = tr /\ j.verdict = ve
        /\ j.phase = IF a.kind = "paper" THEN "status" ELSE "done"
    BY DEF CheckStates, Judged
  <1>3. cr \in Cryptos /\ tr \in Trusts /\ ve \in Verdicts /\ a.kind \in {"paper", "pdf"}
    BY <1>1, CryptoCases, TrustCases, VerdictCases
  <1>4. j \in CheckStates
    <2> DEFINE ph == IF a.kind = "paper" THEN "status" ELSE "done"
               se == IF a.kind = "paper" THEN {document[a]} ELSE {}
    <2>1. ph \in {"engine", "resolving", "status", "done", "failed"}
      OBVIOUS
    <2>2. se \in SUBSET Statuses
      BY <1>1 DEF Papers
    <2>3. j = [c EXCEPT !.phase = ph, !.offered = {}, !.found = found, !.crypto = cr,
                        !.trust = tr, !.verdict = ve, !.seen = se]
      BY DEF Judged
    <2> HIDE DEF ph, se, cr, tr, ve, a, j
    <2> QED
      BY <2>1, <2>2, <2>3, <1>3 DEF CheckStates
  <1>5. Grounded(j, acc)
    <2> SUFFICES ASSUME tr = "TRUSTED"
                 PROVE  \E i \in found : /\ i \in Configured \/ i \in acc \/ Anchored(i)
                                         /\ i.key = a.key \/ (a.kind = "paper" /\ i.print = a.claim)
      BY <1>2 DEF Grounded
    <2>1. cr = "VALID" /\ \E i \in found : IsTrusted(i, memory)
      BY TrustCases
    <2>2. PICK i \in found : IsTrusted(i, memory)
      BY <2>1
    <2>3. i.key = a.key \/ (a.kind = "paper" /\ i.print = a.claim)
      BY <1>1, <2>1, CryptoCases DEF KeyFound
    <2> QED
      BY <2>2, <2>3 DEF KeyFound
  <1>6. OwnDecision(j)
    <2> SUFFICES ASSUME cr = "VALID", NEW i \in found, i.key = a.key
                 PROVE  tr = "TRUSTED" <=> i \in Configured \/ Anchored(i) \/ Accepted(i)
      BY <1>2 DEF OwnDecision
    <2>1. IsTrusted(i, memory) <=> \E l \in found : IsTrusted(l, memory)
      BY DEF KeyFound
    <2>2. ~(a.kind = "pdf" /\ ~a.named)
      BY DEF KeyFound, AsksForKey
    <2> QED
      BY <2>1, <2>2, TrustCases DEF KeyFound
  <1>7. Genuine(j)
    <2> SUFFICES ASSUME ve \in {"VALID_TRUSTED", "VALID_UNTRUSTED"}
                 PROVE  Genuine(j)
      BY <1>2 DEF Genuine
    <2>1. cr = "VALID" /\ tr # "MISSING" /\ (a.kind = "pdf" => a.integrity = "VALID")
      BY <1>3, VerdictCases
    <2>2. CASE a.kind = "pdf"
      BY <1>1, <1>2, <2>1, <2>2, CryptoCases, TrustCases DEF Genuine
    <2>3. CASE a.kind = "paper"
      <3>1. /\ a.bound
            /\ \E i \in found : i.spki /\ i.material = a.by /\ a.intact
            /\ a.claim # NoPrint => \A i \in found : i.print = a.claim
        BY <1>1, <2>1, <2>3, CryptoCases
      <3> QED
        BY <1>2, <2>3, <3>1 DEF Genuine
    <2> QED
      BY <1>3, <2>2, <2>3
  <1>8. Offline(j)
    <2> SUFFICES ASSUME NEW k \in Configured, k.key = a.key, SignedBy(a, k)
                 PROVE  ve = "VALID_TRUSTED"
      BY <1>2 DEF Offline
    <2>1. found = {k}
      BY DEF KeyFound, SignedBy, AsksForKey
    <2>2. IsTrusted(k, memory)
      BY <2>1 DEF KeyFound
    <2>3. cr = "VALID" /\ ~(a.kind = "pdf" /\ ~a.named) /\ (a.kind = "pdf" => a.integrity = "VALID")
      BY <1>1, <1>3, <2>1, CryptoCases DEF SignedBy
    <2> QED
      BY <1>3, <2>1, <2>2, <2>3, TrustCases, VerdictCases
  <1> QED
    BY <1>2, <1>4, <1>5, <1>6, <1>7, <1>8 DEF CheckOK, Sound

-----------------------------------------------------------------------------
(* From the memories to the key *)

\* A key of the bundle is trusted; a remembered key is trusted if it is anchored or
\* was accepted, and is none of the bundle.
LEMMA ConfiguredIsTrusted ==
  ASSUME NEW i \in Configured, NEW memory
  PROVE  IsTrusted(i, memory)
  <1>1. i \in ConfiguredFor(i.key) /\ SameKey(i, i)
    BY DEF ConfiguredFor, SameKey, SamePrint
  <1> QED
    BY <1>1 DEF IsTrusted

LEMMA RememberedIsItself ==
  ASSUME NEW memory, NEW acc, MemoryOK(memory, acc), NEW k \in Keys, NEW i \in memory[k]
  PROVE  /\ i.key = k /\ i \notin Configured
         /\ IsTrusted(i, memory) <=> Anchored(i) \/ Accepted(i)
         /\ IsTrusted(i, memory) => i \in acc \/ Anchored(i)
  <1>1. /\ i.key = k /\ ConfiguredFor(k) = {} /\ HasResolver
        /\ Accepted(i) => i \in acc
        /\ \A j \in memory[k] : j = i
    BY DEF MemoryOK
  <1>2. i \notin Configured
    BY <1>1 DEF ConfiguredFor
  <1>3. IsTrusted(i, memory) <=> Anchored(i) \/ Accepted(i)
    <2>1. IsTrusted(i, memory) <=> Anchored(i) \/ \E r \in memory[k] : Accepted(r)
      BY <1>1 DEF IsTrusted
    <2> QED
      BY <1>1, <2>1
  <1> QED
    BY <1>1, <1>2, <1>3

\* Where a lookup by fingerprint may end.
LEMMA ByFingerprintSources ==
  ASSUME NEW p, NEW memory, NEW i \in ByFingerprint(p, memory)
  PROVE  p # NoPrint /\ (i \in Configured \/ \E k \in Keys : i \in memory[k])
  BY DEF ByFingerprint

\* own is what the reference of a itself gave: a configured key, nothing, or what
\* the resolver just answered and the memory holds.
OwnKey(a, own, memory) ==
  \/ own = ConfiguredFor(a.key) /\ (own # {} \/ ~HasResolver)
  \/ own = memory[a.key] /\ ConfiguredFor(a.key) = {} /\ HasResolver

LEMMA OwnIsFound ==
  ASSUME NEW a \in Artifacts, AsksForKey(a), NEW memory \in [Keys -> SUBSET KeyInfos],
         NEW acc, MemoryOK(memory, acc), NEW own, OwnKey(a, own, memory)
  PROVE  own \in SUBSET KeyInfos /\ KeyFound(a, own, memory, acc)
  <1>1. a.key \in Keys
    BY ArtifactsAssumption DEF Seals, Pdfs
  <1>2. CASE own = ConfiguredFor(a.key)
    <2>1. /\ own \subseteq Configured /\ own \in SUBSET KeyInfos
          /\ \A i \in own : i.key = a.key /\ IsTrusted(i, memory)
      BY <1>2, ConfiguredAssumption, ConfiguredIsTrusted DEF ConfiguredFor
    <2>2. \A i, j \in own : i = j
      BY <2>1, ConfiguredAssumption
    <2>3. \A c \in Configured : c.key = a.key => own = {c}
      BY <1>2, <2>2 DEF ConfiguredFor
    <2> QED
      BY <2>1, <2>2, <2>3 DEF KeyFound
  <1>3. CASE own = memory[a.key] /\ ConfiguredFor(a.key) = {}
    <2>1. \A c \in Configured : c.key # a.key
      BY <1>3 DEF ConfiguredFor
    <2>2. \A i, j \in own : i = j
      BY <1>1, <1>3 DEF MemoryOK
    <2>3. \A i \in own : /\ i.key = a.key
                         /\ IsTrusted(i, memory) <=> i \in Configured \/ Anchored(i) \/ Accepted(i)
                         /\ IsTrusted(i, memory) => i \in acc \/ Anchored(i)
      BY <1>1, <1>3, RememberedIsItself
    <2>4. own \in SUBSET KeyInfos
      BY <1>1, <1>3
    <2> QED
      BY <2>1, <2>2, <2>3, <2>4 DEF KeyFound
  <1> QED
    BY <1>2, <1>3 DEF OwnKey

\* Whatever a lookup ends with is a key the verification may be judged with.
LEMMA FindingsAreKeys ==
  ASSUME NEW a \in Artifacts, AsksForKey(a), NEW memory \in [Keys -> SUBSET KeyInfos],
         NEW acc, MemoryOK(memory, acc), NEW own, OwnKey(a, own, memory),
         NEW found \in Findings(a, own, memory)
  PROVE  found \in SUBSET KeyInfos /\ KeyFound(a, found, memory, acc)
  <1>1. CASE found = own
    BY <1>1, OwnIsFound
  <1>2. CASE own = {} /\ a.kind = "paper" /\ \E i \in ByFingerprint(a.claim, memory) : found = {i}
    <2>1. PICK i \in ByFingerprint(a.claim, memory) : found = {i}
      BY <1>2
    <2>2. a.claim # NoPrint /\ (i \in Configured \/ \E k \in Keys : i \in memory[k])
      BY <2>1, ByFingerprintSources
    <2>3. a.key \in Keys
      BY ArtifactsAssumption DEF Seals, Pdfs
    <2>4. ConfiguredFor(a.key) = {} /\ memory[a.key] = {}
      <3>1. HasResolver \/ memory[a.key] = {}
        BY <2>3 DEF MemoryOK
      <3> QED
        BY <1>2, <3>1 DEF OwnKey
    <2>5. \A c \in Configured : c.key # a.key
      BY <2>4 DEF ConfiguredFor
    <2>6. i \in KeyInfos /\ i.key # a.key
      BY <2>2, <2>4, <2>5, ConfiguredAssumption, RememberedIsItself
    <2>7. IsTrusted(i, memory) => i \in Configured \/ i \in acc \/ Anchored(i)
      BY <2>2, RememberedIsItself
    <2> QED
      BY <1>2, <2>1, <2>2, <2>5, <2>6, <2>7 DEF KeyFound
  <1> QED
    BY <1>1, <1>2 DEF Findings

-----------------------------------------------------------------------------
(* The steps *)

LEMMA Monotone ==
  ASSUME NEW c, NEW acc, NEW more, CheckOK(c, acc), acc \subseteq more
  PROVE  CheckOK(c, more)
  BY DEF CheckOK, Sound, Grounded

\* A step that only changes what one verification knows.
LEMMA PutKeeps ==
  ASSUME VerificationInv, NEW v \in Checks, NEW c \in CheckStates, CheckOK(c, accepted),
         Put(v, c), UNCHANGED <<policyVars, issuerVars, accepted>>
  PROVE  VerificationInv'
  <1>1. \A u \in Checks : check'[u] = IF u = v THEN c ELSE check[u]
    BY DEF Put, VerificationInv, VerificationTypeOK
  <1>2. UNCHANGED <<lastResolved, resolved, published, changes, document, accepted>>
    BY DEF policyVars, issuerVars
  <1>3. VerificationTypeOK'
    <2>1. check' \in [Checks -> CheckStates \cup {Idle}]
      BY DEF Put, VerificationInv, VerificationTypeOK
    <2> QED
      BY <1>2, <2>1 DEF VerificationInv, VerificationTypeOK
  <1>4. MemoryOK(resolved, accepted)'
    BY <1>2 DEF VerificationInv, MemoryOK
  <1>5. \A u \in Checks : Begun(u)' => CheckOK(check[u], accepted)'
    <2> TAKE u \in Checks
    <2> HAVE Begun(u)'
    <2>1. check'[u] = c \/ (check'[u] = check[u] /\ Begun(u))
      BY <1>1 DEF Begun
    <2>2. CheckOK(check'[u], accepted)
      BY <2>1 DEF VerificationInv
    <2> QED
      BY <2>2, <1>2
  <1> QED
    BY <1>2, <1>3, <1>4, <1>5 DEF VerificationInv

LEMMA ArtifactOf ==
  ASSUME NEW c \in CheckStates
  PROVE  c.artifact \in Artifacts /\ c.artifact.key \in Keys
  BY ArtifactsAssumption DEF CheckStates, Seals, Pdfs

\* trustStore.resolve() up to its first await.
LEMMA LookUpKeeps ==
  ASSUME VerificationInv, NEW v \in Checks, NEW c \in CheckStates, AsksForKey(c.artifact),
         LookUp(v, c), UNCHANGED <<policyVars, issuerVars, accepted>>
  PROVE  VerificationInv'
  <1> DEFINE k == c.artifact.key
             own == ConfiguredFor(k)
  <1>0. c.artifact \in Artifacts /\ k \in Keys
    BY ArtifactOf
  <1>1. CASE own # {} \/ ~HasResolver
    <2>1. PICK found \in Findings(c.artifact, own, resolved) : Put(v, Judged(c, found, lastResolved))
      BY <1>1 DEF LookUp
    <2>2. OwnKey(c.artifact, own, resolved)
      BY <1>1 DEF OwnKey
    <2>3. found \in SUBSET KeyInfos /\ KeyFound(c.artifact, found, resolved, accepted)
      BY <1>0, <2>1, <2>2, FindingsAreKeys DEF VerificationInv, VerificationTypeOK
    <2>4. /\ Judged(c, found, lastResolved) \in CheckStates
          /\ CheckOK(Judged(c, found, lastResolved), accepted)
      BY <2>3, JudgedIsSound DEF VerificationInv, VerificationTypeOK
    <2> QED
      BY <2>1, <2>4, PutKeeps
  <1>2. CASE ~(own # {} \/ ~HasResolver)
    <2> DEFINE d == [c EXCEPT !.phase = "resolving", !.offered = published[k]]
    <2>1. Put(v, d)
      BY <1>2 DEF LookUp
    <2>2. d \in CheckStates /\ d.artifact = c.artifact /\ d.phase = "resolving"
      BY <1>0 DEF CheckStates, VerificationInv, VerificationTypeOK
    <2>3. CheckOK(d, accepted)
      BY <1>2, <2>2 DEF CheckOK
    <2> HIDE DEF d
    <2> QED
      BY <2>1, <2>2, <2>3, PutKeeps
  <1> QED
    BY <1>1, <1>2

LEMMA BeginKeeps ==
  ASSUME VerificationInv, NEW v \in Checks, NEW a \in Artifacts, Begin(v, a)
  PROVE  VerificationInv'
  <1>1. NewCheck(a) \in CheckStates /\ NewCheck(a).artifact = a /\ NewCheck(a).phase = "engine"
    BY DEF NewCheck, CheckStates, Cryptos, Trusts, Verdicts, Statuses
  <1>2. CASE a.kind = "paper"
    <2>1. AsksForKey(a)
      BY <1>2 DEF AsksForKey
    <2> QED
      BY <1>1, <1>2, <2>1, LookUpKeeps DEF Begin
  <1>3. CASE a.kind # "paper"
    <2>1. a.kind = "pdf"
      BY <1>3, CryptoCases
    <2>2. CheckOK(NewCheck(a), accepted)
      BY <1>1, <2>1 DEF CheckOK
    <2> QED
      BY <1>1, <1>3, <2>2, PutKeeps DEF Begin
  <1> QED
    BY <1>2, <1>3

LEMMA EngineAnswersKeeps ==
  ASSUME VerificationInv, NEW v \in Checks, EngineAnswers(v)
  PROVE  VerificationInv'
  <1> DEFINE c == check[v]
             a == c.artifact
  <1>1. c \in CheckStates /\ a.kind = "pdf" /\ a \in Artifacts
    BY ArtifactOf DEF EngineAnswers, VerificationInv, VerificationTypeOK, Idle, Begun, CheckOK
  <1>2. CASE a.crypto = "VALID" /\ a.named
    <2>1. AsksForKey(a) /\ LookUp(v, c)
      BY <1>2 DEF AsksForKey, EngineAnswers
    <2> QED
      BY <1>1, <2>1, LookUpKeeps DEF EngineAnswers
  <1>3. CASE ~(a.crypto = "VALID" /\ a.named)
    <2>1. Put(v, Judged(c, {}, lastResolved))
      BY <1>3 DEF EngineAnswers
    <2>2. KeyFound(a, {}, lastResolved, accepted)
      BY <1>1, <1>3 DEF KeyFound, AsksForKey
    <2>3. /\ Judged(c, {}, lastResolved) \in CheckStates
          /\ CheckOK(Judged(c, {}, lastResolved), accepted)
      BY <1>1, <2>2, JudgedIsSound DEF VerificationInv, VerificationTypeOK
    <2> QED
      BY <2>1, <2>3, PutKeeps DEF EngineAnswers
  <1> QED
    BY <1>2, <1>3

LEMMA EngineFailsKeeps ==
  ASSUME VerificationInv, NEW v \in Checks, EngineFails(v)
  PROVE  VerificationInv'
  <1> DEFINE d == [check[v] EXCEPT !.phase = "failed"]
  <1>1. d \in CheckStates /\ d.phase = "failed"
    BY DEF EngineFails, VerificationInv, VerificationTypeOK, Idle, CheckStates
  <1>2. CheckOK(d, accepted)
    BY <1>1 DEF CheckOK
  <1> HIDE DEF d
  <1>3. Put(v, d)
    BY DEF EngineFails, d
  <1> QED
    BY <1>1, <1>2, <1>3, PutKeeps DEF EngineFails

\* The lifecycle status is no part of what makes a verification sound.
LEMMA StatusAnswersKeeps ==
  ASSUME VerificationInv, NEW v \in Checks, NEW s \in Statuses, StatusAnswers(v, s)
  PROVE  VerificationInv'
  <1> DEFINE c == check[v]
             d == [WithStatus(c, s) EXCEPT !.phase = "done", !.seen = {}]
  <1>1. c \in CheckStates /\ Sound(c, accepted)
    BY DEF StatusAnswers, VerificationInv, VerificationTypeOK, Idle, Begun, CheckOK
  <1>2. /\ d \in CheckStates /\ d.phase = "done"
        /\ d.artifact = c.artifact /\ d.found = c.found /\ d.crypto = c.crypto
        /\ d.trust = c.trust /\ d.verdict = c.verdict
    BY <1>1 DEF WithStatus, CheckStates
  <1>3. CheckOK(d, accepted)
    <2> HIDE DEF c, d
    <2> QED
      BY <1>1, <1>2 DEF CheckOK, Sound, Grounded, OwnDecision, Genuine, Offline
  <1>4. Put(v, d)
    BY DEF StatusAnswers
  <1> HIDE DEF d
  <1> QED
    BY <1>2, <1>3, <1>4, PutKeeps DEF StatusAnswers

\* The resolver's answer: both memories change, then the key is judged.
LEMMA ResolverAnswersKeeps ==
  ASSUME VerificationInv, NEW v \in Checks, NEW answer, ResolverAnswers(v, answer)
  PROVE  VerificationInv'
  <1> DEFINE c == check[v]
             k == c.artifact.key
             own == Asked(k, answer)
  <1>1. /\ c \in CheckStates /\ c.artifact \in Artifacts /\ k \in Keys
        /\ ConfiguredFor(k) = {} /\ HasResolver /\ AsksForKey(c.artifact)
    <2>1. c.phase = "resolving"
      BY DEF ResolverAnswers
    <2>2. Begun(v) /\ c # Idle
      BY <2>1 DEF Begun, Idle
    <2>3. c \in CheckStates
      BY <2>2 DEF VerificationInv, VerificationTypeOK
    <2>4. CheckOK(c, accepted)
      BY <2>2 DEF VerificationInv
    <2>5. c.artifact \in Artifacts /\ k \in Keys
      BY <2>3, ArtifactOf
    <2> HIDE DEF c, k
    <2> QED
      BY <2>1, <2>3, <2>4, <2>5 DEF CheckOK, k
  <1>2. answer \in SUBSET KeyInfos /\ \A i, j \in answer : i = j
    BY <1>1 DEF ResolverAnswers, CheckStates
  <1>3. /\ own \in SUBSET KeyInfos /\ \A i, j \in own : i = j /\ i.key = k
        /\ lastResolved' = [lastResolved EXCEPT ![k] = own]
        /\ resolved' = [resolved EXCEPT ![k] = own]
        /\ accepted' = accepted \cup {i \in own : Accepted(i)}
    BY <1>2 DEF ResolverAnswers, Learn, Remembered, Kept, Asked
  <1> HIDE DEF own
  <1>4. /\ resolved' = lastResolved'
        /\ resolved' \in [Keys -> SUBSET KeyInfos] /\ resolved'[k] = own
        /\ accepted \subseteq accepted' /\ accepted' \subseteq KeyInfos
    BY <1>1, <1>3 DEF VerificationInv, VerificationTypeOK
  <1>5. MemoryOK(resolved', accepted')
    <2> SUFFICES ASSUME NEW l \in Keys
                 PROVE  /\ \A i \in resolved'[l] : /\ i.key = l /\ ConfiguredFor(l) = {} /\ HasResolver
                                                   /\ Accepted(i) => i \in accepted'
                        /\ \A i, j \in resolved'[l] : i = j
      BY DEF MemoryOK
    <2>1. CASE l = k
      BY <1>1, <1>3, <1>4, <2>1
    <2>2. CASE l # k
      <3>1. resolved'[l] = resolved[l]
        BY <1>3, <2>2 DEF VerificationInv, VerificationTypeOK
      <3> QED
        BY <1>4, <3>1 DEF VerificationInv, MemoryOK
    <2> QED
      BY <2>1, <2>2
  <1>6. PICK found \in Findings(c.artifact, own, resolved') :
          Put(v, Judged(c, found, lastResolved'))
    BY DEF ResolverAnswers, own
  <1>7. found \in SUBSET KeyInfos /\ KeyFound(c.artifact, found, resolved', accepted')
    <2>1. OwnKey(c.artifact, own, resolved')
      BY <1>1, <1>4 DEF OwnKey
    <2> QED
      BY <1>1, <1>4, <1>5, <1>6, <2>1, FindingsAreKeys
  <1> DEFINE d == Judged(c, found, lastResolved')
  <1>8. d \in CheckStates /\ CheckOK(d, accepted')
    BY <1>1, <1>4, <1>7, JudgedIsSound DEF VerificationInv, VerificationTypeOK
  <1>9. \A u \in Checks : check'[u] = IF u = v THEN d ELSE check[u]
    BY <1>6 DEF Put, VerificationInv, VerificationTypeOK
  <1>10. check' \in [Checks -> CheckStates \cup {Idle}]
    BY <1>6, <1>8 DEF Put, VerificationInv, VerificationTypeOK
  <1> HIDE DEF d
  <1>11. VerificationTypeOK'
    <2>1. UNCHANGED <<published, changes, document>>
      BY DEF ResolverAnswers, issuerVars
    <2> QED
      BY <1>4, <1>10, <2>1 DEF VerificationInv, VerificationTypeOK
  <1>12. \A u \in Checks : Begun(u)' => CheckOK(check'[u], accepted')
    <2> TAKE u \in Checks
    <2> HAVE Begun(u)'
    <2>1. CASE u = v
      BY <1>8, <1>9, <2>1
    <2>2. CASE u # v
      <3>1. check'[u] = check[u] /\ Begun(u)
        BY <1>9, <2>2 DEF Begun
      <3>2. CheckOK(check[u], accepted)
        BY <3>1 DEF VerificationInv
      <3> QED
        BY <1>4, <3>1, <3>2, Monotone
    <2> QED
      BY <2>1, <2>2
  <1> QED
    BY <1>4, <1>5, <1>11, <1>12 DEF VerificationInv

\* What the issuers do changes no verification, except for what it may be told.
LEMMA RepublishKeeps ==
  ASSUME VerificationInv, NEW k \in Keys, NEW infos \in SUBSET KeyInfos, Republish(k, infos)
  PROVE  VerificationInv'
  <1> DEFINE told(v) == check[v].phase = "resolving" /\ check[v].artifact.key = k
             d(v) == [check[v] EXCEPT !.offered = @ \cup infos]
  <1>1. UNCHANGED <<lastResolved, resolved, document, accepted>>
    BY DEF Republish, policyVars
  <1>2. \A v \in Checks : check'[v] = IF told(v) THEN d(v) ELSE check[v]
    BY DEF Republish
  <1>3. \A v \in Checks : told(v) => /\ d(v) \in CheckStates
                                     /\ d(v).phase = "resolving"
                                     /\ d(v).artifact = check[v].artifact
    BY DEF VerificationInv, VerificationTypeOK, Idle, CheckStates
  <1>4. \A v \in Checks : told(v) => CheckOK(check[v], accepted)
    BY DEF VerificationInv, Begun
  <1>5. \A v \in Checks : Begun(v)' => CheckOK(check'[v], accepted)
    <2> TAKE v \in Checks
    <2> HAVE Begun(v)'
    <2>1. CASE told(v)
      BY <1>2, <1>3, <1>4, <2>1 DEF CheckOK
    <2>2. CASE ~told(v)
      BY <1>2, <2>2 DEF VerificationInv, Begun
    <2> QED
      BY <2>1, <2>2
  <1>6. VerificationTypeOK'
    <2>1. check' \in [Checks -> CheckStates \cup {Idle}]
      <3>1. \A v \in Checks : check'[v] \in CheckStates \cup {Idle}
        <4> HIDE DEF told, d
        <4> QED
          BY <1>2, <1>3 DEF VerificationInv, VerificationTypeOK
      <3>2. check' = [v \in Checks |-> check'[v]]
        BY DEF Republish
      <3> QED
        BY <3>1, <3>2
    <2>2. /\ published' \in [Keys -> SUBSET KeyInfos]
          /\ changes' \in 0 .. MaxChanges
      BY ChangesAssumption DEF Republish, VerificationInv, VerificationTypeOK
    <2> QED
      BY <1>1, <2>1, <2>2 DEF VerificationInv, VerificationTypeOK
  <1>7. MemoryOK(resolved, accepted)' /\ resolved' = lastResolved'
    BY <1>1 DEF VerificationInv, MemoryOK
  <1> QED
    BY <1>1, <1>5, <1>6, <1>7 DEF VerificationInv

LEMMA RestateKeeps ==
  ASSUME VerificationInv, NEW a \in Papers, NEW s \in Statuses, Restate(a, s)
  PROVE  VerificationInv'
  <1> DEFINE told(v) == check[v].phase = "status" /\ check[v].artifact = a
             d(v) == [check[v] EXCEPT !.seen = @ \cup {s}]
  <1>1. UNCHANGED <<lastResolved, resolved, published, changes, accepted>>
    BY DEF Restate, policyVars
  <1>2. \A v \in Checks : check'[v] = IF told(v) THEN d(v) ELSE check[v]
    BY DEF Restate
  <1>3. \A v \in Checks : told(v) =>
          /\ d(v) \in CheckStates
          /\ d(v).phase = "status" /\ d(v).artifact = check[v].artifact
          /\ d(v).found = check[v].found /\ d(v).crypto = check[v].crypto
          /\ d(v).trust = check[v].trust /\ d(v).verdict = check[v].verdict
    BY DEF VerificationInv, VerificationTypeOK, Idle, CheckStates
  <1>4. \A v \in Checks : told(v) => Sound(check[v], accepted)
    BY DEF VerificationInv, Begun, CheckOK
  <1>5. \A v \in Checks : Begun(v)' => CheckOK(check'[v], accepted)
    <2> TAKE v \in Checks
    <2> HAVE Begun(v)'
    <2>1. CASE told(v)
      <3>1. Sound(d(v), accepted)
        <4> HIDE DEF d
        <4> QED
          BY <1>3, <1>4, <2>1 DEF Sound, Grounded, OwnDecision, Genuine, Offline
      <3> QED
        BY <1>2, <1>3, <2>1, <3>1 DEF CheckOK
    <2>2. CASE ~told(v)
      BY <1>2, <2>2 DEF VerificationInv, Begun
    <2> QED
      BY <2>1, <2>2
  <1>6. VerificationTypeOK'
    <2>1. check' \in [Checks -> CheckStates \cup {Idle}]
      <3>1. \A v \in Checks : check'[v] \in CheckStates \cup {Idle}
        <4> HIDE DEF told, d
        <4> QED
          BY <1>2, <1>3 DEF VerificationInv, VerificationTypeOK
      <3>2. check' = [v \in Checks |-> check'[v]]
        BY DEF Restate
      <3> QED
        BY <3>1, <3>2
    <2>2. document' \in [Papers -> Statuses]
      BY DEF Restate, VerificationInv, VerificationTypeOK
    <2> QED
      BY <1>1, <2>1, <2>2 DEF VerificationInv, VerificationTypeOK
  <1>7. MemoryOK(resolved, accepted)' /\ resolved' = lastResolved'
    BY <1>1 DEF VerificationInv, MemoryOK
  <1> QED
    BY <1>1, <1>5, <1>6, <1>7 DEF VerificationInv

-----------------------------------------------------------------------------
(* Theorems *)

LEMMA InitSound == Init => VerificationInv
  <1> SUFFICES ASSUME Init PROVE VerificationInv
    OBVIOUS
  <1>1. VerificationTypeOK
    BY ChangesAssumption DEF Init, PolicyInit, VerificationTypeOK, Statuses
  <1>2. resolved = lastResolved /\ MemoryOK(resolved, accepted)
    BY DEF Init, PolicyInit, MemoryOK
  <1>3. \A v \in Checks : ~Begun(v)
    BY DEF Init, Begun, Idle
  <1> QED
    BY <1>1, <1>2, <1>3 DEF VerificationInv

LEMMA NextSound == VerificationInv /\ [Next]_vars => VerificationInv'
  <1> SUFFICES ASSUME VerificationInv, [Next]_vars PROVE VerificationInv'
    OBVIOUS
  <1>1. ASSUME NEW v \in Checks, NEW a \in Artifacts, Begin(v, a) PROVE VerificationInv'
    BY <1>1, BeginKeeps
  <1>2. ASSUME NEW v \in Checks, EngineAnswers(v) PROVE VerificationInv'
    BY <1>2, EngineAnswersKeeps
  <1>3. ASSUME NEW v \in Checks, EngineFails(v) PROVE VerificationInv'
    BY <1>3, EngineFailsKeeps
  <1>4. ASSUME NEW v \in Checks, NEW answer, ResolverAnswers(v, answer) PROVE VerificationInv'
    BY <1>4, ResolverAnswersKeeps
  <1>5. ASSUME NEW v \in Checks, NEW s \in Statuses, StatusAnswers(v, s) PROVE VerificationInv'
    BY <1>5, StatusAnswersKeeps
  <1>6. ASSUME NEW o \in Offers, Publish(o) PROVE VerificationInv'
    BY <1>6, OffersAssumption, RepublishKeeps DEF Publish
  <1>7. ASSUME NEW k \in Keys, Withdraw(k) PROVE VerificationInv'
    BY <1>7, RepublishKeeps DEF Withdraw
  <1>8. ASSUME NEW a \in Papers, Issue(a) \/ Close(a) PROVE VerificationInv'
    BY <1>8, RestateKeeps DEF Issue, Close, Statuses
  <1>9. CASE UNCHANGED vars
    BY <1>9 DEF vars, VerificationInv, VerificationTypeOK, MemoryOK, Begun
  <1> QED
    BY <1>1, <1>2, <1>3, <1>4, <1>5, <1>6, <1>7, <1>8, <1>9 DEF Next

LEMMA AlwaysSound == Spec => []VerificationInv
  BY InitSound, NextSound, PTL DEF Spec

\* Every variable keeps its type, whatever the resolver answers.
THEOREM VerificationTypes == Spec => []VerificationTypeOK
  BY AlwaysSound, PTL DEF VerificationInv

\* The two memories of the trust store never disagree and hold one key per
\* reference, of that reference.
THEOREM MemoriesNeverDisagree == Spec => []MemoriesAgree
  <1>1. VerificationInv => MemoriesAgree
    <2> SUFFICES ASSUME VerificationInv, NEW k \in Keys
                 PROVE  /\ resolved = lastResolved
                        /\ Cardinality(resolved[k]) <= 1
                        /\ \A i \in resolved[k] : i.key = k
      BY DEF MemoriesAgree, VerificationInv
    <2>1. \A i, j \in resolved[k] : i = j /\ i.key = k
      BY DEF VerificationInv, MemoryOK
    <2>2. resolved[k] = {} \/ \E i : resolved[k] = {i}
      BY <2>1
    <2>3. Cardinality(resolved[k]) <= 1
      <3> DEFINE S == resolved[k]
      <3> HIDE DEF S
      <3>1. CASE S = {}
        <4>1. Cardinality(S) = 0
          BY <3>1, FS_EmptySet, Zenon
        <4> QED
          BY <4>1 DEF S
      <3>2. ASSUME NEW i, S = {i} PROVE Cardinality(S) <= 1
        <4>1. Cardinality(S) = 1
          BY <3>2, FS_Singleton, Zenon
        <4> QED
          BY <4>1
      <3> QED
        BY <2>2, <3>1, <3>2 DEF S
    <2> QED
      BY <2>1, <2>3 DEF VerificationInv
  <1> QED
    BY <1>1, AlwaysSound, PTL

\* What holds of one decided verification holds of all.
LEMMA DecidedIsSound ==
  ASSUME VerificationInv, NEW v \in Checks, Decided(v)
  PROVE  Sound(check[v], accepted)
  BY DEF VerificationInv, Decided, Begun, CheckOK

\* No order of answers, outages and concurrent verifications makes a key trusted
\* that is neither configured nor accepted nor anchored.
THEOREM TrustAlwaysGrounded == Spec => []TrustIsGrounded
  <1>1. VerificationInv => TrustIsGrounded
    BY DecidedIsSound DEF TrustIsGrounded, Sound, Grounded
  <1> QED
    BY <1>1, AlwaysSound, PTL

\* The shared memory never lends one verification the decision of another.
THEOREM DecisionsNeverMix == Spec => []DecisionsAreTheirOwn
  <1>1. VerificationInv => DecisionsAreTheirOwn
    BY DecidedIsSound DEF DecisionsAreTheirOwn, Sound, OwnDecision
  <1> QED
    BY <1>1, AlwaysSound, PTL

\* A valid verdict is always about a genuine artifact.
THEOREM ValidVerdictsAreGenuine == Spec => []ValidIsGenuine
  <1>1. VerificationInv => ValidIsGenuine
    BY DecidedIsSound DEF ValidIsGenuine, Sound, Genuine
  <1> QED
    BY <1>1, AlwaysSound, PTL

\* The keys of the trust bundle work whatever the network does.
THEOREM OfflineVerification == Spec => []OfflineKeysAreTrusted
  <1>1. VerificationInv => OfflineKeysAreTrusted
    BY DecidedIsSound DEF OfflineKeysAreTrusted, Sound, Offline
  <1> QED
    BY <1>1, AlwaysSound, PTL

\* Nothing that happens after the decision changes it: the status lookup adds a
\* lifecycle status and nothing else.
THEOREM StatusOnlyDescribes == Spec => StatusIsDescriptive
  <1> DEFINE Decision(c) == <<c.found, c.crypto, c.trust, c.verdict>>
             Same(v) == Decision(check'[v]) = Decision(check[v])
  <1>1. VerificationInv /\ [Next]_vars => \A v \in Checks : Decided(v) => Same(v)
    <2> SUFFICES ASSUME VerificationInv, [Next]_vars, NEW v \in Checks, Decided(v)
                 PROVE  Same(v)
      OBVIOUS
    <2>1. /\ check \in [Checks -> CheckStates \cup {Idle}] /\ check[v] \in CheckStates
          /\ check[v].phase \in {"status", "done"}
      BY DEF VerificationInv, VerificationTypeOK, Decided, Idle
    <2>2. ASSUME NEW u \in Checks, NEW c, Put(u, c), u # v PROVE Same(v)
      BY <2>1, <2>2 DEF Put
    <2>3. ASSUME NEW u \in Checks, NEW a \in Artifacts, Begin(u, a) PROVE Same(v)
      BY <2>1, <2>2, <2>3 DEF Begin, LookUp, Idle
    <2>4. ASSUME NEW u \in Checks, EngineAnswers(u) PROVE Same(v)
      BY <2>1, <2>2, <2>4 DEF EngineAnswers, LookUp
    <2>5. ASSUME NEW u \in Checks, EngineFails(u) PROVE Same(v)
      BY <2>1, <2>2, <2>5 DEF EngineFails
    <2>6. ASSUME NEW u \in Checks, NEW answer, ResolverAnswers(u, answer) PROVE Same(v)
      <3>1. u # v
        BY <2>1, <2>6 DEF ResolverAnswers
      <3>2. \E c : Put(u, c)
        BY <2>6 DEF ResolverAnswers
      <3> QED
        BY <2>2, <3>1, <3>2
    <2>7. ASSUME NEW u \in Checks, NEW s \in Statuses, StatusAnswers(u, s) PROVE Same(v)
      <3>1. CASE u # v
        BY <2>2, <2>7, <3>1 DEF StatusAnswers
      <3>2. CASE u = v
        <4>1. check'[v] = [WithStatus(check[v], s) EXCEPT !.phase = "done", !.seen = {}]
          BY <2>1, <2>7, <3>2 DEF StatusAnswers, Put
        <4> QED
          BY <2>1, <4>1 DEF WithStatus, CheckStates
      <3> QED
        BY <3>1, <3>2
    <2>8. ASSUME NEW k, NEW infos, Republish(k, infos) PROVE Same(v)
      BY <2>1, <2>8 DEF Republish
    <2>9. ASSUME NEW a, NEW s, Restate(a, s) PROVE Same(v)
      <3>1. check'[v] = check[v] \/ check'[v] = [check[v] EXCEPT !.seen = @ \cup {s}]
        BY <2>9 DEF Restate
      <3> QED
        BY <2>1, <3>1 DEF CheckStates
    <2>10. CASE UNCHANGED vars
      BY <2>10 DEF vars
    <2> QED
      BY <2>3, <2>4, <2>5, <2>6, <2>7, <2>8, <2>9, <2>10 DEF Next, Publish, Withdraw, Issue, Close
  <1>2. VerificationInv /\ [Next]_vars =>
          [\A v \in Checks : Decided(v) =>
             LET c == check[v]
                 d == check'[v]
             IN <<c.found, c.crypto, c.trust, c.verdict>> = <<d.found, d.crypto, d.trust, d.verdict>>]_vars
    BY <1>1
  <1> QED
    BY <1>2, AlwaysSound, PTL DEF Spec, StatusIsDescriptive
-----------------------------------------------------------------------------
(* The lifecycle status *)

\* What a verification of a document that was closed before it began may know:
\* the document stays closed, so no answer that was possible since says otherwise.
ClosedOK(c) ==
  c.closed => /\ c.artifact \in Papers /\ document[c.artifact] = "REVOKED"
              /\ "ACTIVE" \notin c.seen /\ c.lifecycle # "ACTIVE"

ClosedInv == \A v \in Checks : Begun(v) => ClosedOK(check[v])

\* A step of one verification.
LEMMA PutKeepsClosed ==
  ASSUME VerificationInv, ClosedInv, NEW v \in Checks, NEW c, ClosedOK(c),
         Put(v, c), UNCHANGED document
  PROVE  ClosedInv'
  <1> SUFFICES ASSUME NEW u \in Checks, Begun(u)'
               PROVE  ClosedOK(check[u])'
    BY DEF ClosedInv
  <1>1. check'[u] = IF u = v THEN c ELSE check[u]
    BY DEF Put, VerificationInv, VerificationTypeOK
  <1>2. CASE u = v
    BY <1>1, <1>2 DEF ClosedOK
  <1>3. CASE u # v
    BY <1>1, <1>3 DEF ClosedInv, Begun, ClosedOK
  <1> QED
    BY <1>2, <1>3

\* The status service is asked after the verdict: what it can answer starts from
\* the state the document has then.
LEMMA JudgedClosed ==
  ASSUME NEW c \in CheckStates, ClosedOK(c), NEW found, NEW memory
  PROVE  ClosedOK(Judged(c, found, memory))
  <1> DEFINE j == Judged(c, found, memory)
  <1>1. /\ j.closed = c.closed /\ j.artifact = c.artifact /\ j.lifecycle = c.lifecycle
        /\ j.seen = IF c.artifact.kind = "paper" THEN {document[c.artifact]} ELSE {}
    BY DEF Judged, CheckStates
  <1> HIDE DEF j
  <1>2. ClosedOK(j)
    BY <1>1 DEF ClosedOK
  <1> QED
    BY <1>2 DEF j

LEMMA LookUpClosed ==
  ASSUME VerificationInv, ClosedInv, NEW v \in Checks, NEW c \in CheckStates, ClosedOK(c),
         LookUp(v, c), UNCHANGED document
  PROVE  ClosedInv'
  <1> DEFINE d == [c EXCEPT !.phase = "resolving", !.offered = published[c.artifact.key]]
  <1>1. ASSUME NEW found, Put(v, Judged(c, found, lastResolved))
        PROVE  ClosedInv'
    BY <1>1, JudgedClosed, PutKeepsClosed
  <1>2. CASE Put(v, d)
    <2>1. /\ d.closed = c.closed /\ d.artifact = c.artifact
          /\ d.seen = c.seen /\ d.lifecycle = c.lifecycle
      BY DEF CheckStates
    <2> HIDE DEF d
    <2>2. ClosedOK(d)
      BY <2>1 DEF ClosedOK
    <2> QED
      BY <1>2, <2>2, PutKeepsClosed
  <1>3. (\E found : Put(v, Judged(c, found, lastResolved))) \/ Put(v, d)
    BY DEF LookUp
  <1> QED
    BY <1>1, <1>2, <1>3

LEMMA BeginClosed ==
  ASSUME VerificationInv, ClosedInv, NEW v \in Checks, NEW a \in Artifacts, Begin(v, a)
  PROVE  ClosedInv'
  <1>1. NewCheck(a) \in CheckStates
    BY DEF NewCheck, CheckStates, Cryptos, Trusts, Verdicts, Statuses
  <1>2. ClosedOK(NewCheck(a))
    BY DEF NewCheck, ClosedOK, Papers
  <1>3. UNCHANGED document /\ (LookUp(v, NewCheck(a)) \/ Put(v, NewCheck(a)))
    BY DEF Begin, issuerVars
  <1> QED
    BY <1>1, <1>2, <1>3, LookUpClosed, PutKeepsClosed

\* A verification in one of the phases, and what it knows.
LEMMA PhaseFacts ==
  ASSUME VerificationInv, ClosedInv, NEW v \in Checks, Begun(v)
  PROVE  check[v] \in CheckStates /\ ClosedOK(check[v])
  BY DEF VerificationInv, VerificationTypeOK, ClosedInv, Begun, Idle

LEMMA AnswersClosed ==
  ASSUME VerificationInv, ClosedInv, NEW v \in Checks,
         EngineAnswers(v) \/ \E answer : ResolverAnswers(v, answer)
  PROVE  ClosedInv'
  <1> DEFINE c == check[v]
  <1>1. /\ Begun(v) /\ UNCHANGED document
        /\ LookUp(v, c) \/ \E found, memory : Put(v, Judged(c, found, memory))
    BY DEF EngineAnswers, ResolverAnswers, Begun, issuerVars
  <1>2. c \in CheckStates /\ ClosedOK(c)
    BY <1>1, PhaseFacts
  <1>3. ASSUME NEW found, NEW memory, Put(v, Judged(c, found, memory))
        PROVE  ClosedInv'
    <2>1. ClosedOK(Judged(c, found, memory))
      BY <1>2, JudgedClosed
    <2> QED
      BY <1>1, <1>3, <2>1, PutKeepsClosed
  <1> QED
    BY <1>1, <1>2, <1>3, LookUpClosed

LEMMA EngineFailsClosed ==
  ASSUME VerificationInv, ClosedInv, NEW v \in Checks, EngineFails(v)
  PROVE  ClosedInv'
  <1> DEFINE d == [check[v] EXCEPT !.phase = "failed"]
  <1>1. Begun(v) /\ Put(v, d) /\ UNCHANGED document
    BY DEF EngineFails, Begun, issuerVars
  <1>2. ClosedOK(d)
    <2>1. check[v] \in CheckStates /\ ClosedOK(check[v])
      BY <1>1, PhaseFacts
    <2>2. /\ d.closed = check[v].closed /\ d.artifact = check[v].artifact
          /\ d.seen = check[v].seen /\ d.lifecycle = check[v].lifecycle
      BY <2>1 DEF CheckStates
    <2> HIDE DEF d
    <2> QED
      BY <2>1, <2>2 DEF ClosedOK
  <1> HIDE DEF d
  <1> QED
    BY <1>1, <1>2, PutKeepsClosed

\* The answer is one of the states the document had while the lookup ran.
LEMMA StatusAnswersClosed ==
  ASSUME VerificationInv, ClosedInv, NEW v \in Checks, NEW s, StatusAnswers(v, s)
  PROVE  ClosedInv'
  <1> DEFINE c == check[v]
             d == [WithStatus(c, s) EXCEPT !.phase = "done", !.seen = {}]
  <1>1. Begun(v) /\ Put(v, d) /\ UNCHANGED document /\ s \in c.seen \cup {"UNCHECKED"}
    BY DEF StatusAnswers, Begun, issuerVars
  <1>2. ClosedOK(d)
    <2>1. c \in CheckStates /\ ClosedOK(c)
      BY <1>1, PhaseFacts
    <2>2. d.closed = c.closed /\ d.artifact = c.artifact /\ d.seen = {} /\ d.lifecycle = s
      BY <2>1 DEF WithStatus, CheckStates
    <2> HIDE DEF c, d
    <2> QED
      BY <1>1, <2>1, <2>2 DEF ClosedOK
  <1> HIDE DEF d
  <1> QED
    BY <1>1, <1>2, PutKeepsClosed

LEMMA RepublishClosed ==
  ASSUME VerificationInv, ClosedInv, NEW k, NEW infos, Republish(k, infos)
  PROVE  ClosedInv'
  <1> SUFFICES ASSUME NEW v \in Checks, Begun(v)'
               PROVE  ClosedOK(check[v])'
    BY DEF ClosedInv
  <1>1. /\ UNCHANGED document
        /\ check'[v] = check[v] \/ (/\ check[v].phase = "resolving"
                                    /\ check'[v] = [check[v] EXCEPT !.offered = @ \cup infos])
    BY DEF Republish
  <1>2. Begun(v)
    BY <1>1 DEF Begun
  <1>3. /\ check'[v].closed = check[v].closed /\ check'[v].artifact = check[v].artifact
        /\ check'[v].seen = check[v].seen /\ check'[v].lifecycle = check[v].lifecycle
    BY <1>1, <1>2, PhaseFacts DEF CheckStates
  <1> QED
    BY <1>1, <1>2, <1>3, PhaseFacts DEF ClosedOK

\* A closed document is neither issued nor closed again.
LEMMA RestateClosed ==
  ASSUME VerificationInv, ClosedInv, NEW a \in Papers, NEW s, Restate(a, s),
         document[a] # "REVOKED"
  PROVE  ClosedInv'
  <1> SUFFICES ASSUME NEW v \in Checks, Begun(v)'
               PROVE  ClosedOK(check[v])'
    BY DEF ClosedInv
  <1>1. check'[v] = check[v] \/ (/\ check[v].phase = "status" /\ check[v].artifact = a
                                 /\ check'[v] = [check[v] EXCEPT !.seen = @ \cup {s}])
    BY DEF Restate
  <1>2. Begun(v)
    BY <1>1 DEF Begun
  <1>3. check[v] \in CheckStates /\ ClosedOK(check[v])
    BY <1>2, PhaseFacts
  <1>4. check'[v].closed = check[v].closed
    BY <1>1, <1>3 DEF CheckStates
  <1>5. CASE check[v].closed
    <2>1. check[v].artifact # a /\ check[v].artifact \in Papers
      BY <1>3, <1>5 DEF ClosedOK
    <2>2. check'[v] = check[v] /\ document'[check[v].artifact] = document[check[v].artifact]
      BY <1>1, <2>1 DEF Restate, VerificationInv, VerificationTypeOK
    <2> QED
      BY <1>3, <2>2 DEF ClosedOK
  <1>6. CASE ~check[v].closed
    BY <1>4, <1>6 DEF ClosedOK
  <1> QED
    BY <1>5, <1>6

\* A revocation is never undone by the verifier: no answer of the status service
\* that is older than the verification is reported.
THEOREM RevocationIsReported == Spec => []RevokedIsNotActive
  <1>1. Init => ClosedInv
    BY DEF Init, ClosedInv, Begun, Idle
  <1>2. VerificationInv /\ ClosedInv /\ [Next]_vars => ClosedInv'
    <2> SUFFICES ASSUME VerificationInv, ClosedInv, [Next]_vars PROVE ClosedInv'
      OBVIOUS
    <2>1. ASSUME NEW v \in Checks, NEW a \in Artifacts, Begin(v, a) PROVE ClosedInv'
      BY <2>1, BeginClosed
    <2>2. ASSUME NEW v \in Checks, EngineAnswers(v) PROVE ClosedInv'
      BY <2>2, AnswersClosed
    <2>3. ASSUME NEW v \in Checks, EngineFails(v) PROVE ClosedInv'
      BY <2>3, EngineFailsClosed
    <2>4. ASSUME NEW v \in Checks, NEW answer, ResolverAnswers(v, answer) PROVE ClosedInv'
      BY <2>4, AnswersClosed
    <2>5. ASSUME NEW v \in Checks, NEW s, StatusAnswers(v, s) PROVE ClosedInv'
      BY <2>5, StatusAnswersClosed
    <2>6. ASSUME NEW k, NEW infos, Republish(k, infos) PROVE ClosedInv'
      BY <2>6, RepublishClosed
    <2>7. ASSUME NEW a \in Papers, Issue(a) \/ Close(a) PROVE ClosedInv'
      BY <2>7, RestateClosed DEF Issue, Close
    <2>8. CASE UNCHANGED vars
      BY <2>8 DEF vars, ClosedInv, ClosedOK, Begun
    <2> QED
      BY <2>1, <2>2, <2>3, <2>4, <2>5, <2>6, <2>7, <2>8 DEF Next, Publish, Withdraw
  <1>3. ClosedInv => RevokedIsNotActive
    BY DEF ClosedInv, ClosedOK, RevokedIsNotActive, Done, Begun
  <1> QED
    BY <1>1, <1>2, <1>3, AlwaysSound, PTL DEF Spec

-----------------------------------------------------------------------------
(***************************************************************************)
(* VerifierServer: the types, the cap on the limiter's memory, one reply   *)
(* per request, that only whole bodies are verified, and the two promises  *)
(* of the limiter.                                                         *)
(*                                                                         *)
(* What the replies and the work of a request may be depends on its phase  *)
(* and nothing else, so the first invariant is about one request at a time *)
(* (RequestOK), and one lemma carries it through every callback.  What the *)
(* limiter promises is about the times at which requests were admitted, so *)
(* the second invariant (WindowInv) says, for every client, how its bucket *)
(* accounts for those times, and only arrivals disturb it.                 *)
(***************************************************************************)

Refusals == {"400", "408", "413", "429"}

\* What holds of one request that has arrived, whatever the others do.
RequestOK(r) ==
  /\ r.phase = "reading" => /\ r.stream = "open" /\ r.work = "none"
                            /\ r.replies = << >>
                            /\ r.taken = r.sent
  /\ r.phase = "verifying" => /\ r.work = "running" /\ r.replies = << >>
  /\ r.phase = "done" => Len(r.replies) = 1
  /\ r.work # "none" => /\ r.stream = "ended"
                        /\ r.sent = r.size /\ r.size <= MaxBody
                        /\ \A i \in DOMAIN r.replies : r.replies[i] \notin Refusals
  /\ \A i \in DOMAIN r.replies : r.replies[i] = "verdict" => r.work = "over"

RequestsOK == \A q \in Requests : Arrived(q) => RequestOK(request[q])

ServerInv == /\ ServerTypeOK
             /\ RequestsOK
             /\ BucketsAreCapped

-----------------------------------------------------------------------------
(* The limiter *)

\* pruneExpired() leaves buckets where there were buckets.
LEMMA PrunedType ==
  ASSUME LimiterTypeOK
  PROVE  /\ Pruned \in [Clients -> Buckets \union {NoBucket}]
         /\ \A c \in Clients : Pruned[c].startedAt <= now
         /\ Tracked(Pruned) \subseteq Tracked(bucket)
  BY LimiterAssumption DEF LimiterTypeOK, Pruned, NoBucket, Buckets, Tracked

\* Charging a client leaves well-typed buckets, opened in the past, and tracks
\* no other client than before.
LEMMA ChargedType ==
  ASSUME LimiterTypeOK, NEW c \in Clients
  PROVE  /\ Charged(c) \in [Clients -> Buckets \union {NoBucket}]
         /\ \A k \in Clients : Charged(c)[k].startedAt <= now
         /\ Tracked(Charged(c)) \subseteq Tracked(bucket) \union {c}
  <1>1. CASE Pruned[c] = NoBucket
    <2> DEFINE b == [startedAt |-> now, count |-> 1]
    <2>1. b \in Buckets /\ b.startedAt = now
      BY LimiterAssumption DEF LimiterTypeOK, Buckets
    <2>2. Charged(c) = [Pruned EXCEPT ![c] = b]
      BY <1>1 DEF Charged
    <2> HIDE DEF b
    <2>3. now \in Nat
      BY LimiterAssumption DEF LimiterTypeOK
    <2> QED
      BY <2>1, <2>2, <2>3, PrunedType DEF Tracked
  <1>2. CASE Pruned[c] # NoBucket
    <2> DEFINE b == [Pruned[c] EXCEPT !.count = @ + 1]
    <2>1. b \in Buckets /\ b.startedAt = Pruned[c].startedAt
      BY <1>2, PrunedType DEF Buckets
    <2>2. Charged(c) = [Pruned EXCEPT ![c] = b]
      BY <1>2 DEF Charged
    <2> HIDE DEF b
    <2> QED
      BY <2>1, <2>2, PrunedType DEF Tracked
  <1> QED
    BY <1>1, <1>2

\* check() keeps the types and the cap.
LEMMA CheckKeepsLimiter ==
  ASSUME LimiterTypeOK, BucketsAreCapped, NEW c \in Clients, Check(c)
  PROVE  LimiterTypeOK' /\ BucketsAreCapped'
  <1> DEFINE T == Tracked(Charged(c))
  <1>0. /\ IsFiniteSet(Tracked(bucket)) /\ IsFiniteSet(T)
        /\ Tracked(bucket) \subseteq Clients /\ T \subseteq Clients
    BY LimiterAssumption, FS_Subset DEF Tracked
  <1>1. /\ Cardinality(T) \in Nat /\ Cardinality(Tracked(bucket)) \in Nat
        /\ Cardinality(T) <= Cardinality(Tracked(bucket)) + 1
    <2> DEFINE B == Tracked(bucket)
    <2>0. Cardinality(B) \in Nat
      BY <1>0, FS_CardinalityType
    <2>1. IsFiniteSet(B \union {c}) /\ Cardinality(B \union {c}) <= Cardinality(B) + 1
      <3> HIDE DEF B
      <3>1. IsFiniteSet(B)
        BY <1>0 DEF B
      <3>2. /\ IsFiniteSet(B \union {c})
            /\ Cardinality(B \union {c}) = IF c \in B THEN Cardinality(B) ELSE Cardinality(B) + 1
        BY <3>1, FS_AddElement, Zenon
      <3> QED
        BY <3>2, <2>0
    <2>2. Cardinality(T) <= Cardinality(Tracked(bucket) \union {c}) /\ Cardinality(T) \in Nat
      BY <1>0, <2>1, ChargedType, FS_Subset, FS_CardinalityType
    <2>3. Cardinality(Tracked(bucket) \union {c}) \in Nat
      BY <2>1, FS_CardinalityType
    <2> QED
      BY <2>0, <2>1, <2>2, <2>3
  <1>2. CASE Cardinality(T) <= MaxBuckets /\ bucket' = Charged(c) /\ UNCHANGED evicted
    <2>1. now' = now
      BY DEF Check
    <2>2. Tracked(bucket)' = T
      BY <1>2 DEF Tracked
    <2> QED
      BY <1>2, <2>1, <2>2, ChargedType DEF LimiterTypeOK, BucketsAreCapped
  <1>3. ASSUME NEW k \in Oldest(c), bucket' = [Charged(c) EXCEPT ![k] = NoBucket],
               evicted' = evicted \union {k}
        PROVE  LimiterTypeOK' /\ BucketsAreCapped'
    <2>1. k \in T /\ k \in Clients /\ now' = now
      BY <1>0 DEF Oldest, Check
    <2>2. Tracked(bucket)' = T \ {k}
      BY <1>3, <2>1, ChargedType DEF Tracked
    <2>3. Cardinality(T \ {k}) = Cardinality(T) - 1
      BY <1>0, <2>1, FS_RemoveElement
    <2>4. BucketsAreCapped'
      BY <1>1, <2>2, <2>3, LimiterAssumption DEF BucketsAreCapped
    <2>5. NoBucket.startedAt = 0 /\ now \in Nat
      BY LimiterAssumption DEF NoBucket, LimiterTypeOK
    <2>6. LimiterTypeOK'
      BY <1>3, <2>1, <2>5, ChargedType DEF LimiterTypeOK
    <2> QED
      BY <2>4, <2>6
  <1> QED
    BY <1>2, <1>3 DEF Check

\* The clock's step and the steps that leave the limiter alone keep both.
LEMMA TickKeepsLimiter ==
  ASSUME LimiterTypeOK, BucketsAreCapped, Tick
  PROVE  LimiterTypeOK' /\ BucketsAreCapped'
  <1>1. now' = now + 1 /\ bucket' = bucket /\ evicted' = evicted /\ now \in Nat
        /\ now' \in 0 .. MaxTime
    BY LimiterAssumption DEF LimiterTypeOK, Tick
  <1>2. \A c \in Clients : bucket[c].startedAt \in Nat /\ bucket[c].startedAt <= now
    BY LimiterAssumption DEF LimiterTypeOK, Buckets, NoBucket
  <1>3. \A c \in Clients : bucket'[c].startedAt <= now'
    BY <1>1, <1>2
  <1> QED
    BY <1>1, <1>3 DEF LimiterTypeOK, BucketsAreCapped, Tracked

LEMMA LimiterStutters ==
  ASSUME LimiterTypeOK, BucketsAreCapped, UNCHANGED limiterVars
  PROVE  LimiterTypeOK' /\ BucketsAreCapped'
  BY DEF LimiterTypeOK, BucketsAreCapped, limiterVars, Tracked

-----------------------------------------------------------------------------
(* One request *)

\* A handler that has not replied yet replies once.
LEMMA RepliedOK ==
  ASSUME NEW r \in RequestStates, r.replies = << >>, NEW reply \in Replies,
         r.work # "none" => /\ r.stream = "ended" /\ r.sent = r.size /\ r.size <= MaxBody
                            /\ reply \notin Refusals,
         reply = "verdict" => r.work = "over"
  PROVE  Replied(r, reply) \in RequestStates /\ RequestOK(Replied(r, reply))
  <1> DEFINE s == Replied(r, reply)
  <1>1. /\ s.phase = "done" /\ s.replies = Append(r.replies, reply)
        /\ s.work = r.work /\ s.stream = r.stream /\ s.sent = r.sent /\ s.size = r.size
    BY DEF Replied, RequestStates
  <1>2. s \in RequestStates
    <2> DEFINE log == Append(r.replies, reply)
    <2>1. log \in Seq(Replies) /\ 0 \in 0 .. MaxBody
      BY BodyAssumption DEF RequestStates
    <2>2. s = [r EXCEPT !.phase = "done", !.taken = 0, !.replies = log]
      BY DEF Replied
    <2> HIDE DEF log, s
    <2> QED
      BY <2>1, <2>2 DEF RequestStates
  <1> HIDE DEF s
  <1>3. Len(s.replies) = 1 /\ \A i \in DOMAIN s.replies : s.replies[i] = reply
    BY <1>1
  <1>4. RequestOK(s)
    BY <1>1, <1>3 DEF RequestOK
  <1> QED
    BY <1>2, <1>4 DEF s

\* A step that gives request q a good record keeps the whole invariant.
LEMMA StepKeepsInv ==
  ASSUME ServerInv, NEW q \in Requests, NEW r \in RequestStates, RequestOK(r), Step(q, r)
  PROVE  ServerInv'
  <1>1. LimiterTypeOK' /\ BucketsAreCapped'
    BY LimiterStutters DEF Step, ServerInv, ServerTypeOK
  <1>2. ServerTypeOK'
    BY <1>1 DEF Step, ServerInv, ServerTypeOK
  <1>3. RequestsOK'
    BY DEF Step, ServerInv, ServerTypeOK, RequestsOK, Arrived
  <1> QED
    BY <1>1, <1>2, <1>3 DEF ServerInv

-----------------------------------------------------------------------------
(* The callbacks of one request *)

\* What a request in reading or verifying looks like under the invariant.
LEMMA RequestFacts ==
  ASSUME ServerInv, NEW q \in Requests, Arrived(q)
  PROVE  request[q] \in RequestStates /\ RequestOK(request[q])
  BY DEF ServerInv, ServerTypeOK, RequestsOK, Arrived, Unsent

LEMMA DataKeepsInv ==
  ASSUME ServerInv, NEW q \in Requests, Data(q)
  PROVE  ServerInv'
  <1> DEFINE r == [request[q] EXCEPT !.sent = @ + 1]
  <1>1. /\ request[q] \in RequestStates /\ RequestOK(request[q])
        /\ request[q].stream = "open" /\ request[q].sent < request[q].size
    BY RequestFacts DEF Data
  <1>2. request[q].work = "none" /\ request[q].phase # "verifying"
    BY <1>1 DEF RequestOK
  <1>3. /\ r \in RequestStates /\ r.work = "none" /\ r.phase = request[q].phase
        /\ r.stream = "open" /\ r.replies = request[q].replies
        /\ r.sent = request[q].sent + 1 /\ r.taken = request[q].taken
    <2>1. request[q].sent \in 0 .. MaxBody + 1 /\ request[q].size \in 0 .. MaxBody + 1
      BY <1>1 DEF RequestStates
    <2>2. request[q].sent + 1 \in 0 .. MaxBody + 1
      BY <1>1, <2>1, BodyAssumption
    <2>3. r \in RequestStates /\ r.sent = request[q].sent + 1
      <3> DEFINE n == request[q].sent + 1
      <3>1. r = [request[q] EXCEPT !.sent = n]
        BY <1>1 DEF RequestStates
      <3> HIDE DEF n
      <3>2. r \in RequestStates /\ r.sent = n
        BY <1>1, <2>2, <3>1 DEF RequestStates, n
      <3> QED
        BY <3>2 DEF n
    <2> QED
      BY <1>1, <1>2, <2>3 DEF RequestStates
  <1>4. Data(q) => Step(q, IF request[q].phase # "reading" THEN r
                           ELSE IF TooMuch(q) THEN Replied(r, "413")
                           ELSE [r EXCEPT !.taken = @ + 1])
    BY DEF Data
  <1> HIDE DEF r
  <1>5. CASE request[q].phase # "reading"
    <2>1. RequestOK(r)
      BY <1>1, <1>2, <1>3, <1>5 DEF RequestOK
    <2> QED
      BY <1>3, <1>4, <1>5, <2>1, StepKeepsInv
  <1>6. CASE request[q].phase = "reading" /\ TooMuch(q)
    <2>1. r.replies = << >> /\ "413" \in Replies /\ "413" # "verdict"
      BY <1>1, <1>3, <1>6 DEF RequestOK, Replies
    <2>2. Replied(r, "413") \in RequestStates /\ RequestOK(Replied(r, "413"))
      BY <1>3, <2>1, RepliedOK
    <2> QED
      BY <1>4, <1>6, <2>2, StepKeepsInv
  <1>7. CASE request[q].phase = "reading" /\ ~TooMuch(q)
    <2> DEFINE s == [r EXCEPT !.taken = @ + 1]
    <2>1. r.taken + 1 \in 0 .. MaxBody
      BY <1>1, <1>3, <1>7, BodyAssumption DEF TooMuch, RequestStates
    <2>2. /\ s \in RequestStates /\ s.taken = r.taken + 1 /\ s.sent = r.sent
          /\ s.work = r.work /\ s.phase = r.phase /\ s.stream = r.stream /\ s.replies = r.replies
      BY <1>3, <2>1 DEF RequestStates
    <2> HIDE DEF s
    <2>3. RequestOK(s)
      BY <1>1, <1>3, <1>7, <2>2 DEF RequestOK
    <2>4. Step(q, s)
      BY <1>4, <1>7 DEF s
    <2> QED
      BY <2>2, <2>3, <2>4, StepKeepsInv
  <1> QED
    BY <1>5, <1>6, <1>7

LEMMA EndKeepsInv ==
  ASSUME ServerInv, NEW q \in Requests, End(q)
  PROVE  ServerInv'
  <1>1. /\ request[q] \in RequestStates /\ RequestOK(request[q])
        /\ request[q].stream = "open" /\ request[q].sent = request[q].size
    BY RequestFacts DEF End
  <1>2. request[q].work = "none" /\ request[q].phase # "verifying"
    BY <1>1 DEF RequestOK
  <1>3. CASE request[q].phase # "reading"
    <2> DEFINE s == [request[q] EXCEPT !.stream = "ended"]
    <2>1. /\ s \in RequestStates /\ s.work = "none" /\ s.phase = request[q].phase
          /\ s.replies = request[q].replies
      BY <1>1, <1>2 DEF RequestStates
    <2>2. Step(q, s)
      BY <1>3 DEF End
    <2> HIDE DEF s
    <2>3. RequestOK(s)
      BY <1>1, <1>2, <1>3, <2>1 DEF RequestOK
    <2> QED
      BY <2>1, <2>2, <2>3, StepKeepsInv
  <1>4. CASE request[q].phase = "reading"
    <2> DEFINE s == [[request[q] EXCEPT !.stream = "ended"]
                       EXCEPT !.phase = "verifying", !.work = "running"]
    <2>1. /\ s \in RequestStates /\ s.work = "running" /\ s.phase = "verifying"
          /\ s.stream = "ended" /\ s.replies = request[q].replies
          /\ s.sent = request[q].sent /\ s.size = request[q].size
      BY <1>1 DEF RequestStates
    <2>2. Step(q, s)
      BY <1>4 DEF End
    <2> HIDE DEF s
    <2>3. request[q].replies = << >> /\ request[q].size <= MaxBody
      BY <1>1, <1>4, BodyAssumption DEF RequestOK, RequestStates
    <2>4. RequestOK(s)
      BY <1>1, <2>1, <2>3 DEF RequestOK
    <2> QED
      BY <2>1, <2>2, <2>4, StepKeepsInv
  <1> QED
    BY <1>3, <1>4

LEMMA BreakKeepsInv ==
  ASSUME ServerInv, NEW q \in Requests, Break(q)
  PROVE  ServerInv'
  <1> DEFINE s == [request[q] EXCEPT !.stream = "broken"]
  <1>1. /\ request[q] \in RequestStates /\ RequestOK(request[q])
        /\ request[q].stream = "open"
    BY RequestFacts DEF Break
  <1>2. request[q].work = "none" /\ request[q].phase # "verifying"
    BY <1>1 DEF RequestOK
  <1>3. /\ s \in RequestStates /\ s.work = "none" /\ s.phase = request[q].phase
        /\ s.replies = request[q].replies
    BY <1>1, <1>2 DEF RequestStates
  <1>4. Step(q, IF request[q].phase = "reading" THEN Replied(s, "400") ELSE s)
    BY DEF Break
  <1> HIDE DEF s
  <1>5. CASE request[q].phase # "reading"
    <2>1. RequestOK(s)
      BY <1>1, <1>2, <1>3, <1>5 DEF RequestOK
    <2> QED
      BY <1>3, <1>4, <1>5, <2>1, StepKeepsInv
  <1>6. CASE request[q].phase = "reading"
    <2>1. s.replies = << >> /\ "400" \in Replies /\ "400" # "verdict"
      BY <1>1, <1>3, <1>6 DEF RequestOK, Replies
    <2>2. Replied(s, "400") \in RequestStates /\ RequestOK(Replied(s, "400"))
      BY <1>3, <2>1, RepliedOK
    <2> QED
      BY <1>4, <1>6, <2>2, StepKeepsInv
  <1> QED
    BY <1>5, <1>6

LEMMA TimerKeepsInv ==
  ASSUME ServerInv, NEW q \in Requests, TimerStep(q)
  PROVE  ServerInv'
  <1>1. /\ request[q] \in RequestStates /\ RequestOK(request[q])
        /\ request[q].phase \in {"reading", "verifying"}
    BY RequestFacts DEF TimerStep, BodyTimeout, ParseTimeout, Arrived
  <1>2. CASE request[q].phase = "reading" /\ Step(q, Replied(request[q], "408"))
    <2>1. request[q].replies = << >> /\ request[q].work = "none" /\ "408" \in Replies
      BY <1>1, <1>2 DEF RequestOK, Replies
    <2>2. /\ Replied(request[q], "408") \in RequestStates
          /\ RequestOK(Replied(request[q], "408"))
      BY <1>1, <2>1, RepliedOK
    <2> QED
      BY <1>2, <2>2, StepKeepsInv
  <1>3. CASE request[q].phase = "verifying" /\ Step(q, Replied(request[q], "504"))
    <2>1. /\ request[q].replies = << >> /\ request[q].stream = "ended"
          /\ request[q].sent = request[q].size /\ request[q].size <= MaxBody
          /\ "504" \in Replies \ Refusals
      BY <1>1, <1>3 DEF RequestOK, Replies, Refusals
    <2>2. /\ Replied(request[q], "504") \in RequestStates
          /\ RequestOK(Replied(request[q], "504"))
      BY <1>1, <2>1, RepliedOK
    <2> QED
      BY <1>3, <2>2, StepKeepsInv
  <1> QED
    BY <1>2, <1>3 DEF TimerStep, BodyTimeout, ParseTimeout

LEMMA AnswerKeepsInv ==
  ASSUME ServerInv, NEW q \in Requests, NEW reply \in {"verdict", "rejected"}, Answer(q, reply)
  PROVE  ServerInv'
  <1> DEFINE r == [request[q] EXCEPT !.work = "over"]
  <1>1. /\ request[q] \in RequestStates /\ RequestOK(request[q])
        /\ request[q].work = "running"
    BY RequestFacts DEF Answer
  <1>2. /\ r \in RequestStates /\ r.work = "over" /\ r.phase = request[q].phase
        /\ r.stream = request[q].stream /\ r.sent = request[q].sent
        /\ r.size = request[q].size /\ r.replies = request[q].replies
        /\ r.taken = request[q].taken
    BY <1>1 DEF RequestStates
  <1>3. Step(q, IF request[q].phase = "verifying" THEN Replied(r, reply) ELSE r)
    BY DEF Answer
  <1> HIDE DEF r
  <1>4. CASE request[q].phase # "verifying"
    <2>1. RequestOK(r)
      BY <1>1, <1>2, <1>4 DEF RequestOK
    <2> QED
      BY <1>2, <1>3, <1>4, <2>1, StepKeepsInv
  <1>5. CASE request[q].phase = "verifying"
    <2>1. /\ r.replies = << >> /\ r.stream = "ended" /\ r.sent = r.size /\ r.size <= MaxBody
          /\ reply \in Replies \ Refusals
      BY <1>1, <1>2, <1>5 DEF RequestOK, Replies, Refusals
    <2>2. Replied(r, reply) \in RequestStates /\ RequestOK(Replied(r, reply))
      BY <1>2, <2>1, RepliedOK
    <2> QED
      BY <1>3, <1>5, <2>2, StepKeepsInv
  <1> QED
    BY <1>4, <1>5

LEMMA ArriveKeepsInv ==
  ASSUME ServerInv, NEW q \in Requests, NEW c \in Clients, NEW kind \in Kinds,
         NEW size \in Sizes(kind), Arrive(q, c, kind, size)
  PROVE  ServerInv'
  <1> DEFINE r == NewRequest(c, kind, size)
             s == IF kind # "free" /\ ~Admits(c) THEN Replied(r, "429")
                  ELSE IF kind = "verify" THEN r ELSE Replied(r, "answered")
  <1>1. /\ r \in RequestStates /\ r.work = "none" /\ r.replies = << >>
        /\ kind = "verify" => r.stream = "open" /\ r.sent = 0 /\ r.taken = 0
        /\ r.phase = "reading"
    <2>1. size \in 0 .. MaxBody + 1 /\ 0 \in 0 .. MaxBody + 1 /\ 0 \in 0 .. MaxBody
      BY BodyAssumption DEF Sizes
    <2>2. now \in 0 .. MaxTime /\ << >> \in Seq(Replies)
      BY DEF ServerInv, ServerTypeOK, LimiterTypeOK
    <2> QED
      BY <2>1, <2>2 DEF NewRequest, RequestStates
  <1>2. request' = [request EXCEPT ![q] = s] /\ server' = server
    BY DEF Arrive
  <1> HIDE DEF r
  <1>3. {"429", "answered"} \subseteq Replies
    BY DEF Replies
  <1>4. s \in RequestStates /\ RequestOK(s)
    <2>1. kind = "verify" => RequestOK(r)
      BY <1>1 DEF RequestOK
    <2>2. /\ Replied(r, "429") \in RequestStates /\ RequestOK(Replied(r, "429"))
          /\ Replied(r, "answered") \in RequestStates /\ RequestOK(Replied(r, "answered"))
      BY <1>1, <1>3, RepliedOK
    <2> QED
      BY <1>1, <2>1, <2>2
  <1> HIDE DEF s
  <1>5. LimiterTypeOK' /\ BucketsAreCapped'
    BY CheckKeepsLimiter, LimiterStutters DEF Arrive, ServerInv, ServerTypeOK
  <1>6. ServerTypeOK' /\ RequestsOK'
    BY <1>2, <1>4, <1>5 DEF ServerInv, ServerTypeOK, RequestsOK, Arrived
  <1> QED
    BY <1>5, <1>6 DEF ServerInv

LEMMA ExitKeepsInv ==
  ASSUME ServerInv, Exit
  PROVE  ServerInv'
  <1>1. LimiterTypeOK' /\ BucketsAreCapped' /\ server' = "closed"
    BY LimiterStutters DEF ServerInv, ServerTypeOK, Exit
  <1> DEFINE After(q) == IF Arrived(q) /\ request[q].work = "running"
                           THEN [request[q] EXCEPT !.work = "over"] ELSE request[q]
  <1>2. request' = [q \in Requests |-> After(q)]
    BY DEF Exit
  <1>3. ASSUME NEW q \in Requests
        PROVE  /\ After(q) \in RequestStates \union {Unsent}
               /\ After(q).phase = request[q].phase
               /\ Arrived(q) => RequestOK(After(q))
    <2>1. CASE ~Arrived(q)
      BY <2>1 DEF ServerInv, ServerTypeOK
    <2>2. CASE Arrived(q) /\ request[q].work # "running"
      BY <2>2, RequestFacts
    <2>3. CASE Arrived(q) /\ request[q].work = "running"
      <3> DEFINE r == [request[q] EXCEPT !.work = "over"]
      <3>1. request[q] \in RequestStates /\ RequestOK(request[q]) /\ request[q].phase # "verifying"
        BY <2>3, RequestFacts DEF Exit, Connected, InFlight
      <3>2. /\ r \in RequestStates /\ r.work = "over" /\ r.phase = request[q].phase
            /\ r.stream = request[q].stream /\ r.sent = request[q].sent
            /\ r.size = request[q].size /\ r.replies = request[q].replies
            /\ r.taken = request[q].taken
        BY <3>1 DEF RequestStates
      <3>3. After(q) = r
        BY <2>3
      <3> HIDE DEF r, After
      <3>4. RequestOK(r)
        BY <2>3, <3>1, <3>2 DEF RequestOK
      <3> QED
        BY <3>2, <3>3, <3>4
    <2> QED
      BY <2>1, <2>2, <2>3
  <1> HIDE DEF After
  <1>4. ServerTypeOK' /\ RequestsOK'
    BY <1>1, <1>2, <1>3 DEF ServerTypeOK, RequestsOK, Arrived
  <1> QED
    BY <1>1, <1>4 DEF ServerInv

-----------------------------------------------------------------------------
(* The theorems *)

LEMMA InitInv == ServerInit => ServerInv
  <1> SUFFICES ASSUME ServerInit PROVE ServerInv
    OBVIOUS
  <1>1. Tracked(bucket) = {}
    BY DEF ServerInit, LimiterInit, Tracked
  <1>2. BucketsAreCapped
    BY <1>1, FS_EmptySet, LimiterAssumption DEF BucketsAreCapped
  <1>3. NoBucket.startedAt = 0
    BY DEF NoBucket
  <1>4. LimiterTypeOK
    BY <1>3, LimiterAssumption DEF ServerInit, LimiterInit, LimiterTypeOK
  <1>5. ServerTypeOK /\ RequestsOK
    BY <1>4 DEF ServerInit, ServerTypeOK, RequestsOK, Arrived, Unsent
  <1> QED
    BY <1>2, <1>5 DEF ServerInv

LEMMA NextInv == ServerInv /\ [ServerNext]_serverVars => ServerInv'
  <1> SUFFICES ASSUME ServerInv, [ServerNext]_serverVars PROVE ServerInv'
    OBVIOUS
  <1> USE DEF ServerInv
  <1>1. ASSUME NEW q \in Requests, NEW c \in Clients, NEW kind \in Kinds,
               NEW size \in Sizes(kind), Arrive(q, c, kind, size)
        PROVE  ServerInv'
    BY <1>1, ArriveKeepsInv
  <1>2. ASSUME NEW q \in Requests, Data(q) \/ End(q) \/ Break(q) \/ TimerStep(q)
        PROVE  ServerInv'
    BY <1>2, DataKeepsInv, EndKeepsInv, BreakKeepsInv, TimerKeepsInv
  <1>3. ASSUME NEW q \in Requests, NEW reply \in {"verdict", "rejected"}, Answer(q, reply)
        PROVE  ServerInv'
    BY <1>3, AnswerKeepsInv
  <1>4. CASE Shutdown
    BY <1>4, LimiterStutters DEF Shutdown, ServerTypeOK, RequestsOK, Arrived
  <1>5. CASE Exit
    BY <1>5, ExitKeepsInv
  <1>6. CASE LimiterTick
    BY <1>6, TickKeepsLimiter DEF LimiterTick, ServerTypeOK, RequestsOK, Arrived
  <1>7. CASE UNCHANGED serverVars
    <2>1. UNCHANGED limiterVars /\ request' = request /\ server' = server
      BY <1>7 DEF serverVars, limiterVars
    <2> QED
      BY <2>1, LimiterStutters DEF ServerTypeOK, RequestsOK, Arrived
  <1> QED
    BY <1>1, <1>2, <1>3, <1>4, <1>5, <1>6, <1>7 DEF ServerNext

LEMMA SpecInv == ServerSpec => []ServerInv
  BY InitInv, NextInv, PTL DEF ServerSpec

\* Every variable of the service and of its rate limiter keeps its type.
THEOREM ServerTypes == ServerSpec => []ServerTypeOK
  <1>1. ServerInv => ServerTypeOK
    BY DEF ServerInv
  <1> QED
    BY <1>1, SpecInv, PTL

\* However many clients call, the limiter remembers no more than maxBuckets.
THEOREM MemoryIsCapped == ServerSpec => []BucketsAreCapped
  <1>1. ServerInv => BucketsAreCapped
    BY DEF ServerInv
  <1> QED
    BY <1>1, SpecInv, PTL

\* No order of chunks, end, error, timers and late verdicts makes a handler reply
\* twice or end without a reply.
THEOREM RepliedExactlyOnce == ServerSpec => []AnsweredOnce
  <1>1. ServerInv => AnsweredOnce
    <2> SUFFICES ASSUME ServerInv, NEW q \in Requests, Arrived(q)
                 PROVE  Len(request[q].replies) = IF InFlight(q) THEN 0 ELSE 1
      BY DEF AnsweredOnce
    <2>1. request[q] \in RequestStates /\ RequestOK(request[q])
      BY RequestFacts
    <2> QED
      BY <2>1 DEF RequestOK, InFlight, RequestStates
  <1> QED
    BY <1>1, SpecInv, PTL

\* A verdict is about the whole body the client sent, within its limit, and a
\* body that was refused is never verified.
THEOREM VerdictsCoverTheBody == ServerSpec => []OnlyWholeBodiesAreVerified
  <1>1. ServerInv => OnlyWholeBodiesAreVerified
    <2> SUFFICES ASSUME ServerInv, NEW q \in Requests, Arrived(q)
                 PROVE  /\ request[q].work # "none" =>
                             /\ request[q].stream = "ended"
                             /\ request[q].sent = request[q].size
                             /\ request[q].size <= MaxBody
                             /\ \A reply \in {"400", "408", "413", "429"} : ~Got(q, reply)
                        /\ Got(q, "verdict") => request[q].work = "over"
      BY DEF OnlyWholeBodiesAreVerified
    <2>1. request[q] \in RequestStates /\ RequestOK(request[q])
      BY RequestFacts
    <2> QED
      BY <2>1 DEF RequestOK, Refusals, Got
  <1> QED
    BY <1>1, SpecInv, PTL

-----------------------------------------------------------------------------
(* The windows of the limiter *)

WasRefused(r) == r.phase # "unsent" /\ \E i \in DOMAIN r.replies : r.replies[i] = "429"
Counts(r) == r.phase # "unsent" /\ r.kind # "free" /\ ~WasRefused(r)

\* The requests of c that were admitted at lo or later, or from lo to before hi.
From(req, c, lo) == {q \in Requests : Counts(req[q]) /\ req[q].client = c /\ req[q].at >= lo}
Between(req, c, lo, hi) == {q \in From(req, c, lo) : req[q].at < hi}

\* What was admitted of a client whose buckets are all accounted for.  The bucket
\* counts what was admitted since it was opened, the request that opened it
\* included; in the span that ends with the opening one less than limit fits.
WindowOK(req, t, c, b) ==
  IF b = NoBucket
  THEN /\ From(req, c, t) = {}
       /\ \A lo \in Nat : lo + Window > t => Cardinality(From(req, c, lo)) < Limit
  ELSE /\ From(req, c, b.startedAt + Window) = {}
       /\ Cardinality(From(req, c, b.startedAt)) <= b.count
       /\ Cardinality(From(req, c, b.startedAt)) <= Limit
       /\ Cardinality(From(req, c, b.startedAt + 1)) < b.count
       /\ Cardinality(From(req, c, b.startedAt + 1)) < Limit
       /\ \A lo \in Nat : lo + Window > b.startedAt
            => Cardinality(Between(req, c, lo, b.startedAt)) < Limit

\* A bucket counts nothing else until it is full.
DebtOK(req, c, b) ==
  b # NoBucket => \/ b.count <= Cardinality(From(req, c, b.startedAt))
                  \/ Limit <= Cardinality(From(req, c, b.startedAt))

LogOK(req, t) == \A q \in Requests : req[q].phase # "unsent" => req[q].at \in Nat /\ req[q].at <= t

\* Those that were admitted in the window that ends at t.
Recent(req, c, t) ==
  {q \in Requests : Counts(req[q]) /\ req[q].client = c /\ req[q].at <= t /\ req[q].at + Window > t}

\* The two promises.
BurstsOK(req, gone) ==
  \A c \in Clients \ gone : \A from \in 0 .. MaxTime :
    Cardinality(Between(req, c, from, from + Window)) < 2 * Limit

RefusalsOK(req) ==
  \A q \in Requests : WasRefused(req[q]) =>
    Cardinality(Recent(req, req[q].client, req[q].at)) >= Limit

WindowInv ==
  /\ LogOK(request, now)
  /\ \A c \in Clients \ evicted : WindowOK(request, now, c, bucket[c])
  /\ \A c \in Clients : DebtOK(request, c, bucket[c])
  /\ BurstsOK(request, evicted)
  /\ RefusalsOK(request)

LEMMA Counting ==
  ASSUME NEW S \in SUBSET Requests, NEW T \in SUBSET Requests
  PROVE  /\ Cardinality(S) \in Nat /\ Cardinality(T) \in Nat
         /\ S \subseteq T => Cardinality(S) <= Cardinality(T)
         /\ Cardinality(S \union T) <= Cardinality(S) + Cardinality(T)
  <1>1. IsFiniteSet(S) /\ IsFiniteSet(T)
    <2>1. IsFiniteSet(Requests)
      BY FS_Interval, BodyAssumption DEF Requests
    <2> QED
      BY <2>1, FS_Subset
  <1>2. /\ Cardinality(S) \in Nat /\ Cardinality(T) \in Nat
        /\ Cardinality(S \union T) = Cardinality(S) + Cardinality(T) - Cardinality(S \cap T)
        /\ Cardinality(S \cap T) \in Nat
    BY <1>1, FS_CardinalityType, FS_Union, FS_Intersection
  <1>3. S \subseteq T => Cardinality(S) <= Cardinality(T)
    BY <1>1, FS_Subset
  <1> HIDE DEF Requests
  <1> QED
    BY <1>2, <1>3

LEMMA CountingOne ==
  ASSUME NEW S \in SUBSET Requests, NEW q \in Requests, q \notin S
  PROVE  S \union {q} \in SUBSET Requests /\ Cardinality(S \union {q}) = Cardinality(S) + 1
  <1>1. IsFiniteSet(S)
    <2>1. IsFiniteSet(Requests)
      BY FS_Interval, BodyAssumption DEF Requests
    <2> QED
      BY <2>1, FS_Subset
  <1> QED
    BY <1>1, FS_AddElement

LEMMA CountingNone == Cardinality({}) = 0
  BY FS_EmptySet

\* Later is less.
LEMMA FromShrinks ==
  ASSUME NEW req, NEW t, LogOK(req, t), NEW c, NEW lo \in Nat, NEW hi \in Nat, lo <= hi
  PROVE  /\ From(req, c, hi) \subseteq From(req, c, lo)
         /\ From(req, c, lo) \in SUBSET Requests /\ From(req, c, hi) \in SUBSET Requests
         /\ Between(req, c, lo, hi) \in SUBSET Requests
         /\ Between(req, c, lo, hi) \subseteq From(req, c, lo)
         /\ From(req, c, lo) = Between(req, c, lo, hi) \union From(req, c, hi)
  <1>1. \A q \in Requests : Counts(req[q]) => req[q].at \in Nat
    BY DEF LogOK, Counts
  <1>2. /\ From(req, c, lo) \in SUBSET Requests /\ From(req, c, hi) \in SUBSET Requests
        /\ Between(req, c, lo, hi) \in SUBSET Requests
        /\ Between(req, c, lo, hi) \subseteq From(req, c, lo)
    BY DEF From, Between
  <1>3. \A q \in Requests : q \in From(req, c, hi) => q \in From(req, c, lo)
    BY <1>1 DEF From
  <1>4. \A q \in Requests : q \in From(req, c, lo) <=>
          q \in Between(req, c, lo, hi) \/ q \in From(req, c, hi)
    BY <1>1 DEF From, Between
  <1> QED
    BY <1>2, <1>3, <1>4

\* Dropping an expired bucket loses nothing the next decision needs.
LEMMA PruneKeepsWindow ==
  ASSUME LimiterTypeOK, LogOK(request, now), NEW c \in Clients,
         WindowOK(request, now, c, bucket[c])
  PROVE  WindowOK(request, now, c, Pruned[c])
  <1> DEFINE b == bucket[c]
  <1>1. Pruned[c] = IF Expired(b) THEN NoBucket ELSE b
    BY DEF Pruned
  <1>2. SUFFICES ASSUME Expired(b), b # NoBucket
                 PROVE  WindowOK(request, now, c, NoBucket)
    BY <1>1
  <1>3. b.startedAt \in Nat /\ now \in Nat /\ now >= b.startedAt + Window /\ Window \in Nat /\ Window > 0
    BY <1>2, LimiterAssumption DEF LimiterTypeOK, Buckets, Expired
  <1>4. From(request, c, now) = {}
    BY <1>2, <1>3, FromShrinks DEF WindowOK
  <1>5. ASSUME NEW lo \in Nat, lo + Window > now
        PROVE  Cardinality(From(request, c, lo)) < Limit
    <2> DEFINE n == b.startedAt + 1
               S == From(request, c, lo)
               T == From(request, c, n)
    <2>1. n \in Nat /\ n <= lo
      BY <1>3, <1>5
    <2>2. Cardinality(T) < Limit
      BY <1>2 DEF WindowOK
    <2> HIDE DEF n
    <2>3. S \subseteq T /\ S \in SUBSET Requests /\ T \in SUBSET Requests
      BY <2>1, FromShrinks
    <2> HIDE DEF S, T
    <2>4. Cardinality(S) <= Cardinality(T) /\ Cardinality(S) \in Nat /\ Cardinality(T) \in Nat
      BY <2>3, Counting
    <2>5. Cardinality(S) < Limit
      BY <2>2, <2>4, LimiterAssumption
    <2> QED
      BY <2>5 DEF S
  <1> QED
    BY <1>4, <1>5 DEF WindowOK

\* What check() leaves: the caller charged, the others pruned, or given up for
\* the cap.
LEMMA CheckEffect ==
  ASSUME LimiterTypeOK, NEW c \in Clients, Check(c)
  PROVE  /\ now' = now /\ evicted \subseteq evicted'
         /\ bucket'[c] = Charged(c)[c]
         /\ \A d \in Clients \ {c} : \/ bucket'[d] = Pruned[d]
                                     \/ bucket'[d] = NoBucket /\ d \in evicted'
  <1>1. \A d \in Clients \ {c} : Charged(c)[d] = Pruned[d]
    BY PrunedType DEF Charged
  <1>2. now' = now
    BY DEF Check
  <1>3. CASE bucket' = Charged(c) /\ evicted' = evicted
    BY <1>1, <1>2, <1>3
  <1>4. ASSUME NEW k \in Oldest(c), bucket' = [Charged(c) EXCEPT ![k] = NoBucket],
               evicted' = evicted \union {k}
        PROVE  /\ evicted \subseteq evicted'
               /\ bucket'[c] = Charged(c)[c]
               /\ \A d \in Clients \ {c} : \/ bucket'[d] = Pruned[d]
                                           \/ bucket'[d] = NoBucket /\ d \in evicted'
    <2>1. k \in Clients /\ k # c
      BY DEF Oldest, Tracked
    <2> QED
      BY <1>1, <1>4, <2>1, ChargedType
  <1> QED
    BY <1>2, <1>3, <1>4 DEF Check

\* The bucket of the caller after the charge.
LEMMA ChargedBucket ==
  ASSUME LimiterTypeOK, NEW c \in Clients
  PROVE  LET b == Charged(c)[c]
             p == Pruned[c]
         IN /\ p = NoBucket => b.startedAt = now /\ b.count = 1
            /\ p # NoBucket => /\ b.startedAt = p.startedAt /\ b.count = p.count + 1
                               /\ p.startedAt \in Nat /\ p.count \in Nat \ {0}
                               /\ p.startedAt <= now /\ now < p.startedAt + Window
            /\ b.startedAt \in Nat /\ b # NoBucket /\ now \in Nat
  <1> DEFINE p == Pruned[c]
             b == Charged(c)[c]
  <1>1. now \in Nat /\ p \in Buckets \union {NoBucket} /\ p.startedAt <= now
    BY PrunedType, LimiterAssumption DEF LimiterTypeOK
  <1>2. CASE p = NoBucket
    <2>1. b = [startedAt |-> now, count |-> 1]
      BY <1>2, PrunedType DEF Charged
    <2> QED
      BY <1>1, <1>2, <2>1 DEF NoBucket
  <1>3. CASE p # NoBucket
    <2>1. p \in Buckets /\ b = [p EXCEPT !.count = @ + 1]
      BY <1>1, <1>3, PrunedType DEF Charged
    <2>2. b.startedAt = p.startedAt /\ b.count = p.count + 1 /\ p.startedAt \in Nat /\ p.count \in Nat \ {0}
      BY <2>1, LimiterAssumption DEF Buckets
    <2>3. ~Expired(p)
      BY <1>3 DEF Pruned, Expired
    <2>4. now < p.startedAt + Window
      BY <1>1, <2>2, <2>3, LimiterAssumption DEF Expired
    <2>5. b # NoBucket
      BY <2>2 DEF NoBucket
    <2> QED
      BY <1>1, <1>3, <2>2, <2>4, <2>5
  <1> QED
    BY <1>2, <1>3

\* A request that the limiter counts is one more since every time up to now.
LEMMA CountedEntry ==
  ASSUME ServerTypeOK, LogOK(request, now), NEW q \in Requests, request[q] = Unsent, NEW s,
         NEW log, \A p \in Requests : log[p] = IF p = q THEN s ELSE request[p],
         Counts(s), s.at = now
  PROVE  /\ \A c \in Clients, lo \in Nat :
              /\ q \notin From(request, c, lo)
              /\ From(log, c, lo) =
                   IF c = s.client /\ lo <= now THEN From(request, c, lo) \union {q}
                   ELSE From(request, c, lo)
         /\ \A c \in Clients, lo \in Nat, hi \in Nat :
              hi <= now => Between(log, c, lo, hi) = Between(request, c, lo, hi)
         /\ LogOK(log, now)
  <1>1. \A p \in Requests : log[p] = IF p = q THEN s ELSE request[p]
    OBVIOUS
  <1>2. now \in Nat /\ ~Counts(request[q])
    BY LimiterAssumption DEF ServerTypeOK, LimiterTypeOK, Counts, Unsent
  <1>3. LogOK(log, now)
    BY <1>1, <1>2 DEF LogOK
  <1>4. ASSUME NEW c \in Clients, NEW lo \in Nat
        PROVE  /\ q \notin From(request, c, lo)
               /\ \A p \in Requests : p \in From(log, c, lo) <=>
                    (p \in From(request, c, lo) \/ (p = q /\ c = s.client /\ lo <= now))
    BY <1>1, <1>2 DEF From
  <1>5. ASSUME NEW c \in Clients, NEW lo \in Nat
        PROVE  /\ From(request, c, lo) \subseteq Requests
               /\ From(log, c, lo) \subseteq Requests
    BY DEF From
  <1>6. ASSUME NEW c \in Clients, NEW lo \in Nat, NEW hi \in Nat, hi <= now
        PROVE  Between(log, c, lo, hi) = Between(request, c, lo, hi)
    <2>1. ASSUME NEW p \in Requests
          PROVE  p \in Between(log, c, lo, hi) <=> p \in Between(request, c, lo, hi)
      <3>1. p \in From(log, c, lo) <=>
              (p \in From(request, c, lo) \/ (p = q /\ c = s.client /\ lo <= now))
        BY <1>4
      <3>2. CASE p = q
        <4>1. ~(log[p].at < hi) /\ q \notin From(request, c, lo)
          BY <1>1, <1>2, <1>4, <1>6, <3>2
        <4> QED
          BY <3>2, <4>1 DEF Between
      <3>3. CASE p # q
        BY <1>1, <3>1, <3>3 DEF Between
      <3> QED
        BY <3>2, <3>3
    <2>2. Between(log, c, lo, hi) \subseteq Requests /\ Between(request, c, lo, hi) \subseteq Requests
      BY <1>5 DEF Between
    <2> QED
      BY <2>1, <2>2
  <1>7. ASSUME NEW c \in Clients, NEW lo \in Nat
        PROVE  From(log, c, lo) =
                 IF c = s.client /\ lo <= now THEN From(request, c, lo) \union {q}
                 ELSE From(request, c, lo)
    <2>1. CASE c = s.client /\ lo <= now
      BY <1>4, <1>5, <2>1
    <2>2. CASE ~(c = s.client /\ lo <= now)
      BY <1>4, <1>5, <2>2
    <2> QED
      BY <2>1, <2>2
  <1>8. ASSUME NEW c \in Clients, NEW lo \in Nat
        PROVE  q \notin From(request, c, lo)
    BY <1>4
  <1> QED
    BY <1>3, <1>6, <1>7, <1>8

\* An admitted request keeps the account of its client.
LEMMA AdmitKeepsAccount ==
  ASSUME ServerTypeOK, LogOK(request, now), NEW q \in Requests, request[q] = Unsent, NEW s,
         NEW log, \A p \in Requests : log[p] = IF p = q THEN s ELSE request[p],
         Counts(s), s.at = now,
         s.client \in Clients, Admits(s.client)
  PROVE  LET c == s.client
         IN /\ WindowOK(request, now, c, Pruned[c]) => WindowOK(log, now, c, Charged(c)[c])
            /\ DebtOK(request, c, Pruned[c]) => DebtOK(log, c, Charged(c)[c])
  <1> DEFINE c == s.client
             p == Pruned[c]
             b == Charged(c)[c]
             Old(lo) == From(request, c, lo)
             New(lo) == From(log, c, lo)
  <1>1. LimiterTypeOK /\ c \in Clients
    BY DEF ServerTypeOK
  <1>2. /\ p = NoBucket => b.startedAt = now /\ b.count = 1
        /\ p # NoBucket => /\ b.startedAt = p.startedAt /\ b.count = p.count + 1
                           /\ p.startedAt \in Nat /\ p.count \in Nat \ {0}
                           /\ p.startedAt <= now /\ now < p.startedAt + Window
        /\ b.startedAt \in Nat /\ b # NoBucket /\ now \in Nat
    BY <1>1, ChargedBucket
  <1>3. \A lo \in Nat : /\ q \notin Old(lo)
                        /\ lo <= now => New(lo) = Old(lo) \union {q}
                        /\ ~(lo <= now) => New(lo) = Old(lo)
    <2> TAKE lo \in Nat
    <2>1. /\ q \notin From(request, c, lo)
          /\ From(log, c, lo) = IF c = s.client /\ lo <= now THEN From(request, c, lo) \union {q}
                                ELSE From(request, c, lo)
      BY <1>1, CountedEntry
    <2>2. c = s.client
      OBVIOUS
    <2>3. CASE lo <= now
      BY <2>1, <2>2, <2>3
    <2>4. CASE ~(lo <= now)
      BY <2>1, <2>2, <2>4
    <2> QED
      BY <2>3, <2>4
  <1>4. \A lo \in Nat, hi \in Nat :
          hi <= now => Between(log, c, lo, hi) = Between(request, c, lo, hi)
    BY <1>1, CountedEntry
  <1>5. \A lo \in Nat : /\ Old(lo) \in SUBSET Requests
                        /\ lo > now => Old(lo) = {}
    <2>1. \A lo \in Nat : Old(lo) \in SUBSET Requests
      BY DEF From
    <2>2. \A lo \in Nat : lo > now => Old(lo) = {}
      BY <1>2 DEF From, LogOK, Counts
    <2> QED
      BY <2>1, <2>2
  <1>6. \A lo \in Nat : /\ Cardinality(Old(lo)) \in Nat
                        /\ lo <= now => Cardinality(New(lo)) = Cardinality(Old(lo)) + 1
                        /\ lo > now => New(lo) = {} /\ Cardinality(New(lo)) = 0
    <2> TAKE lo \in Nat
    <2> HIDE DEF Old, New
    <2>1. Cardinality(Old(lo)) \in Nat
      BY <1>5, Counting
    <2>2. Cardinality(Old(lo) \union {q}) = Cardinality(Old(lo)) + 1
      BY <1>3, <1>5, CountingOne
    <2>3. ASSUME lo <= now PROVE Cardinality(New(lo)) = Cardinality(Old(lo)) + 1
      BY <1>3, <2>2, <2>3
    <2>4. ASSUME lo > now PROVE New(lo) = {}
      <3>1. ~(lo <= now)
        BY <1>2, <2>4
      <3> QED
        BY <1>3, <1>5, <2>4, <3>1
    <2> QED
      BY <2>1, <2>3, <2>4, CountingNone
  <1>7. Limit \in Nat \ {0} /\ Window \in Nat \ {0}
    BY LimiterAssumption
  <1> HIDE DEF b, p, c
  <1>8. CASE p = NoBucket
    <2>1. b.startedAt = now /\ b.count = 1 /\ now + 1 \in Nat /\ now + Window \in Nat
      BY <1>2, <1>7, <1>8
    <2>2. DebtOK(log, c, b)
      BY <1>2, <1>6, <2>1 DEF DebtOK
    <2>3. ASSUME WindowOK(request, now, c, p)
          PROVE  WindowOK(log, now, c, b)
      <3>1. /\ Old(now) = {}
            /\ \A lo \in Nat : lo + Window > now => Cardinality(Old(lo)) < Limit
        BY <1>8, <2>3 DEF WindowOK
      <3>2. New(now + Window) = {} /\ Cardinality(New(now + 1)) = 0 /\ Cardinality(New(now)) = 1
        <4>1. now + Window > now /\ now + 1 > now /\ now <= now
          BY <1>2, <1>7
        <4>2. Cardinality(New(now)) = Cardinality(Old(now)) + 1
          BY <1>2, <1>6, <4>1
        <4> HIDE DEF New, Old
        <4>3. New(now + Window) = {} /\ Cardinality(New(now + 1)) = 0
          BY <1>6, <2>1, <4>1
        <4> QED
          BY <3>1, <4>2, <4>3, CountingNone
      <3>3. ASSUME NEW lo \in Nat, lo + Window > now
            PROVE  Cardinality(Between(log, c, lo, now)) < Limit
        <4>1. Between(log, c, lo, now) = Between(request, c, lo, now)
          BY <1>2, <1>4
        <4>2. Between(request, c, lo, now) \subseteq Old(lo)
          BY DEF Between
        <4> DEFINE S == Between(request, c, lo, now)
                   T == Old(lo)
        <4>3. S \subseteq T /\ T \in SUBSET Requests
          BY <1>5, <4>2
        <4>4. Cardinality(T) < Limit
          BY <3>1, <3>3
        <4> HIDE DEF S, T
        <4>5. Cardinality(S) <= Cardinality(T) /\ Cardinality(S) \in Nat /\ Cardinality(T) \in Nat
          BY <4>3, Counting
        <4>6. Cardinality(S) < Limit
          BY <1>7, <4>4, <4>5
        <4> QED
          BY <4>1, <4>6 DEF S
      <3> QED
        BY <1>2, <1>7, <2>1, <3>2, <3>3 DEF WindowOK
    <2> QED
      BY <2>2, <2>3 DEF b, p, c
  <1>9. CASE p # NoBucket
    <2>1. /\ b.startedAt = p.startedAt /\ b.count = p.count + 1 /\ p.count \in Nat
          /\ p.startedAt \in Nat /\ p.startedAt + 1 \in Nat /\ p.startedAt + Window \in Nat
          /\ p.startedAt <= now /\ p.startedAt + Window > now
      BY <1>2, <1>7, <1>9
    <2>2. p.count < Limit
      BY <1>9 DEF Admits, p, c
    <2>3. DebtOK(request, c, p) => DebtOK(log, c, b)
      BY <1>2, <1>6, <1>7, <1>9, <2>1 DEF DebtOK
    <2>4. ASSUME WindowOK(request, now, c, p)
          PROVE  WindowOK(log, now, c, b)
      <3>1. /\ Cardinality(Old(p.startedAt)) <= p.count
            /\ Cardinality(Old(p.startedAt + 1)) < p.count
            /\ \A lo \in Nat : lo + Window > p.startedAt
                 => Cardinality(Between(request, c, lo, p.startedAt)) < Limit
        BY <1>9, <2>4 DEF WindowOK
      <3>2. New(p.startedAt + Window) = {}
        BY <1>6, <2>1
      <3>3. Cardinality(New(p.startedAt)) = Cardinality(Old(p.startedAt)) + 1
        BY <1>6, <2>1
      <3>4. Cardinality(New(p.startedAt + 1)) <= Cardinality(Old(p.startedAt + 1)) + 1
            /\ Cardinality(New(p.startedAt + 1)) \in Nat
        BY <1>2, <1>6, <2>1
      <3>5. \A lo \in Nat : Between(log, c, lo, p.startedAt) = Between(request, c, lo, p.startedAt)
        BY <1>4, <2>1
      <3>6. Cardinality(Old(p.startedAt)) \in Nat /\ Cardinality(Old(p.startedAt + 1)) \in Nat
        BY <1>6, <2>1
      <3> HIDE DEF Old
      <3>7. /\ Cardinality(New(p.startedAt)) <= b.count
            /\ Cardinality(New(p.startedAt)) <= Limit
            /\ Cardinality(New(p.startedAt + 1)) < b.count
            /\ Cardinality(New(p.startedAt + 1)) < Limit
        BY <1>7, <2>1, <2>2, <3>1, <3>3, <3>4, <3>6
      <3> QED
        BY <1>2, <2>1, <3>1, <3>2, <3>5, <3>7 DEF WindowOK
    <2> QED
      BY <2>3, <2>4 DEF b, p, c
  <1> QED
    BY <1>8, <1>9

\* A refused request keeps it too: its client's bucket only grows, and is full.
LEMMA RefusalKeepsAccount ==
  ASSUME ServerTypeOK, LogOK(request, now), NEW c \in Clients, ~Admits(c), NEW log,
         \A lo \in Nat : From(log, c, lo) = From(request, c, lo),
         \A lo \in Nat, hi \in Nat : Between(log, c, lo, hi) = Between(request, c, lo, hi)
  PROVE  /\ WindowOK(request, now, c, Pruned[c]) => WindowOK(log, now, c, Charged(c)[c])
         /\ DebtOK(request, c, Pruned[c]) =>
              /\ DebtOK(log, c, Charged(c)[c])
              /\ Limit <= Cardinality(From(request, c, Pruned[c].startedAt))
  <1> DEFINE p == Pruned[c]
             b == Charged(c)[c]
  <1>1. p # NoBucket /\ ~(p.count < Limit)
    BY DEF Admits
  <1>2. /\ b.startedAt = p.startedAt /\ b.count = p.count + 1
        /\ p.startedAt \in Nat /\ p.count \in Nat /\ b # NoBucket
    <2>1. LimiterTypeOK
      BY DEF ServerTypeOK
    <2> QED
      BY <1>1, <2>1, ChargedBucket
  <1>3. /\ Limit \in Nat /\ Window \in Nat
        /\ p.startedAt + 1 \in Nat /\ p.startedAt + Window \in Nat
    BY <1>2, LimiterAssumption
  <1>4. \A lo \in Nat : Cardinality(From(request, c, lo)) \in Nat
    <2> TAKE lo \in Nat
    <2>1. From(request, c, lo) \in SUBSET Requests
      BY DEF From
    <2> QED
      BY <2>1, Counting
  <1> HIDE DEF p, b
  <1>5. ASSUME WindowOK(request, now, c, p)
        PROVE  WindowOK(log, now, c, b)
    <2> DEFINE m == Cardinality(From(request, c, p.startedAt))
               n == Cardinality(From(request, c, p.startedAt + 1))
    <2>1. m \in Nat /\ n \in Nat
      BY <1>2, <1>3, <1>4
    <2>2. /\ From(request, c, p.startedAt + Window) = {}
          /\ m <= p.count /\ m <= Limit /\ n < p.count /\ n < Limit
          /\ \A lo \in Nat : lo + Window > p.startedAt
               => Cardinality(Between(request, c, lo, p.startedAt)) < Limit
      BY <1>1, <1>5 DEF WindowOK
    <2>3. /\ From(log, c, p.startedAt + Window) = {}
          /\ m = Cardinality(From(log, c, p.startedAt))
          /\ n = Cardinality(From(log, c, p.startedAt + 1))
          /\ \A lo \in Nat : Between(log, c, lo, p.startedAt) = Between(request, c, lo, p.startedAt)
      BY <1>2, <1>3, <2>2
    <2> HIDE DEF m, n
    <2>4. m <= b.count /\ n < b.count
      BY <1>2, <2>1, <2>2
    <2> QED
      BY <1>2, <2>2, <2>3, <2>4 DEF WindowOK
  <1>6. ASSUME DebtOK(request, c, p)
        PROVE  /\ DebtOK(log, c, b)
               /\ Limit <= Cardinality(From(request, c, p.startedAt))
    <2> DEFINE m == Cardinality(From(request, c, p.startedAt))
    <2>1. m \in Nat /\ m = Cardinality(From(log, c, p.startedAt))
      BY <1>2, <1>4
    <2>2. p.count <= m \/ Limit <= m
      BY <1>1, <1>6 DEF DebtOK
    <2> HIDE DEF m
    <2>3. Limit <= m
      BY <1>1, <1>2, <1>3, <2>1, <2>2
    <2> QED
      BY <1>2, <2>1, <2>3 DEF DebtOK, m
  <1> QED
    BY <1>5, <1>6 DEF p, b

\* A client that is accounted for is admitted less than twice the limit in any
\* span of one window that holds the present: what came before its bucket was
\* opened, and what the bucket let in.
LEMMA AccountBoundsBurst ==
  ASSUME NEW log, NEW t \in Nat, LogOK(log, t), NEW c, NEW b, b # NoBucket,
         b.startedAt \in Nat, b.startedAt <= t, WindowOK(log, t, c, b),
         NEW from \in Nat, from + Window > t
  PROVE  Cardinality(Between(log, c, from, from + Window)) < 2 * Limit
  <1> DEFINE s == b.startedAt
             All == Between(log, c, from, from + Window)
             Then == Between(log, c, from, s)
             Since == From(log, c, s)
  <1>1. Limit \in Nat \ {0} /\ Window \in Nat \ {0} /\ from + Window \in Nat
        /\ from <= from + Window /\ s \in Nat
    BY LimiterAssumption
  <1>2. All \in SUBSET Requests /\ Then \in SUBSET Requests /\ Since \in SUBSET Requests
    BY DEF Between, From
  <1>3. Cardinality(Since) <= Limit
    BY DEF WindowOK
  <1>4. Cardinality(Then) < Limit
    BY <1>1 DEF WindowOK
  <1>5. \A q \in Requests : Counts(log[q]) => log[q].at \in Nat
    BY DEF LogOK, Counts
  <1>6. All \subseteq Then \union Since
    BY <1>1, <1>5 DEF Between, From
  <1> HIDE DEF All, Then, Since, s
  <1>7. /\ Cardinality(All) \in Nat /\ Cardinality(Then) \in Nat /\ Cardinality(Since) \in Nat
        /\ Cardinality(Then \union Since) <= Cardinality(Then) + Cardinality(Since)
    BY <1>2, Counting
  <1>8. Then \union Since \in SUBSET Requests
    BY <1>2
  <1>9. Cardinality(All) <= Cardinality(Then \union Since) /\ Cardinality(Then \union Since) \in Nat
    BY <1>2, <1>6, <1>8, Counting
  <1>10. Cardinality(All) < 2 * Limit
    BY <1>1, <1>3, <1>4, <1>7, <1>9
  <1> QED
    BY <1>10 DEF All

\* An account is about the entries of its own client.
LEMMA SameAccount ==
  ASSUME NEW t \in Nat, NEW c, NEW b, b.startedAt \in Nat, b.startedAt <= t, NEW log,
         \A lo \in Nat : From(log, c, lo) = From(request, c, lo),
         \A lo \in Nat, hi \in Nat :
           hi <= t => Between(log, c, lo, hi) = Between(request, c, lo, hi)
  PROVE  /\ WindowOK(request, t, c, b) => WindowOK(log, t, c, b)
         /\ DebtOK(request, c, b) => DebtOK(log, c, b)
  <1>1. Window \in Nat /\ b.startedAt + 1 \in Nat /\ b.startedAt + Window \in Nat
    BY LimiterAssumption
  <1>2. DebtOK(request, c, b) => DebtOK(log, c, b)
    BY DEF DebtOK
  <1>3. CASE b = NoBucket
    BY <1>2, <1>3 DEF WindowOK
  <1>4. CASE b # NoBucket
    BY <1>1, <1>2, <1>4 DEF WindowOK
  <1> QED
    BY <1>3, <1>4

\* A step after which the same requests count leaves everything the log says of them.
LEMMA SameCounts ==
  ASSUME NEW log,
         \A q \in Requests :
           /\ Counts(log[q]) <=> Counts(request[q])
           /\ Counts(request[q]) =>
                log[q].client = request[q].client /\ log[q].at = request[q].at
  PROVE  /\ \A c, lo : From(log, c, lo) = From(request, c, lo)
         /\ \A c, lo, hi : Between(log, c, lo, hi) = Between(request, c, lo, hi)
         /\ \A c, t : Recent(log, c, t) = Recent(request, c, t)
         /\ \A gone : BurstsOK(request, gone) => BurstsOK(log, gone)
  <1>1. ASSUME NEW c, NEW lo
        PROVE  From(log, c, lo) = From(request, c, lo)
    <2>1. \A q \in Requests : q \in From(log, c, lo) <=> q \in From(request, c, lo)
      BY DEF From
    <2>2. From(log, c, lo) \subseteq Requests /\ From(request, c, lo) \subseteq Requests
      BY DEF From
    <2> QED
      BY <2>1, <2>2
  <1>2. ASSUME NEW c, NEW lo, NEW hi
        PROVE  Between(log, c, lo, hi) = Between(request, c, lo, hi)
    <2>1. \A q \in Requests : q \in From(request, c, lo) => log[q].at = request[q].at
      BY DEF From
    <2>2. From(request, c, lo) \subseteq Requests
      BY DEF From
    <2> QED
      BY <1>1, <2>1, <2>2 DEF Between
  <1>3. ASSUME NEW c, NEW t
        PROVE  Recent(log, c, t) = Recent(request, c, t)
    <2>1. \A q \in Requests : q \in Recent(log, c, t) <=> q \in Recent(request, c, t)
      BY DEF Recent
    <2>2. Recent(log, c, t) \subseteq Requests /\ Recent(request, c, t) \subseteq Requests
      BY DEF Recent
    <2> QED
      BY <2>1, <2>2
  <1>4. ASSUME NEW gone, BurstsOK(request, gone)
        PROVE  BurstsOK(log, gone)
    BY <1>2, <1>4 DEF BurstsOK
  <1> QED
    BY <1>1, <1>2, <1>3, <1>4

\* check() leaves every account in order that it finds in order.
LEMMA CheckKeepsAccounts ==
  ASSUME ServerTypeOK, WindowInv, NEW c \in Clients, Check(c), NEW log,
         WindowOK(request, now, c, Pruned[c]) => WindowOK(log, now, c, Charged(c)[c]),
         DebtOK(request, c, Pruned[c]) => DebtOK(log, c, Charged(c)[c]),
         \A d \in Clients \ {c}, lo \in Nat : From(log, d, lo) = From(request, d, lo),
         \A d \in Clients \ {c}, lo \in Nat, hi \in Nat :
           hi <= now => Between(log, d, lo, hi) = Between(request, d, lo, hi)
  PROVE  /\ \A d \in Clients \ evicted' : WindowOK(log, now, d, bucket'[d])
         /\ \A d \in Clients : DebtOK(log, d, bucket'[d])
  <1>1. LimiterTypeOK /\ LogOK(request, now) /\ now \in Nat
    BY LimiterAssumption DEF ServerTypeOK, LimiterTypeOK, WindowInv
  <1>2. /\ evicted \subseteq evicted'
        /\ bucket'[c] = Charged(c)[c]
        /\ \A d \in Clients \ {c} : \/ bucket'[d] = Pruned[d]
                                    \/ bucket'[d] = NoBucket /\ d \in evicted'
    BY <1>1, CheckEffect, Zenon
  <1>3. ASSUME NEW d \in Clients \ evicted
        PROVE  WindowOK(request, now, d, Pruned[d])
    <2>1. WindowOK(request, now, d, bucket[d])
      BY <1>3 DEF WindowInv
    <2> QED
      BY <1>1, <2>1, PruneKeepsWindow
  <1>4. ASSUME NEW d \in Clients
        PROVE  DebtOK(request, d, Pruned[d]) /\ DebtOK(log, d, NoBucket)
    <2>1. DebtOK(request, d, bucket[d])
      BY DEF WindowInv
    <2> QED
      BY <2>1 DEF Pruned, DebtOK
  <1>5. ASSUME NEW d \in Clients \ {c}
        PROVE  /\ WindowOK(request, now, d, Pruned[d]) => WindowOK(log, now, d, Pruned[d])
               /\ DebtOK(request, d, Pruned[d]) => DebtOK(log, d, Pruned[d])
    <2>1. Pruned[d].startedAt \in Nat /\ Pruned[d].startedAt <= now
      <3>1. Pruned[d] \in Buckets \union {NoBucket} /\ Pruned[d].startedAt <= now
        BY <1>1, PrunedType
      <3> QED
        BY <3>1, LimiterAssumption DEF Buckets, NoBucket
    <2> DEFINE b == Pruned[d]
    <2>2. b.startedAt \in Nat /\ b.startedAt <= now
      BY <2>1
    <2> HIDE DEF b
    <2>3. /\ WindowOK(request, now, d, b) => WindowOK(log, now, d, b)
          /\ DebtOK(request, d, b) => DebtOK(log, d, b)
      BY <1>1, <2>2, SameAccount
    <2> QED
      BY <2>3 DEF b
  <1>6. ASSUME NEW d \in Clients \ evicted'
        PROVE  WindowOK(log, now, d, bucket'[d])
    <2>1. d \in Clients \ evicted
      BY <1>2
    <2>2. WindowOK(request, now, d, Pruned[d])
      BY <1>3, <2>1
    <2>3. CASE d = c
      BY <1>2, <2>2, <2>3
    <2>4. CASE d # c
      BY <1>2, <1>5, <2>2, <2>4
    <2> QED
      BY <2>3, <2>4
  <1>7. ASSUME NEW d \in Clients
        PROVE  DebtOK(log, d, bucket'[d])
    <2>1. CASE d = c
      BY <1>2, <1>4, <2>1
    <2>2. CASE d # c
      BY <1>2, <1>4, <1>5, <2>2
    <2> QED
      BY <2>1, <2>2
  <1> QED
    BY <1>6, <1>7

\* What arrives without being counted or refused, and what happens to a request
\* later: the log says the same of it as before.
SameInLog(old, new, t) ==
  /\ Counts(new) <=> Counts(old)
  /\ WasRefused(new) <=> WasRefused(old)
  /\ Counts(old) \/ WasRefused(old) => new.client = old.client /\ new.at = old.at
  /\ new.phase # "unsent" => new.at \in Nat /\ new.at <= t

LEMMA KeptLog ==
  ASSUME WindowInv, NEW log, \A q \in Requests : SameInLog(request[q], log[q], now)
  PROVE  /\ LogOK(log, now) /\ RefusalsOK(log) /\ BurstsOK(log, evicted)
         /\ \A c, lo : From(log, c, lo) = From(request, c, lo)
         /\ \A c, lo, hi : Between(log, c, lo, hi) = Between(request, c, lo, hi)
  <1>1. \A q \in Requests :
          /\ Counts(log[q]) <=> Counts(request[q])
          /\ Counts(request[q]) =>
               log[q].client = request[q].client /\ log[q].at = request[q].at
    BY DEF SameInLog
  <1>2. /\ \A c, lo : From(log, c, lo) = From(request, c, lo)
        /\ \A c, lo, hi : Between(log, c, lo, hi) = Between(request, c, lo, hi)
        /\ \A c, t : Recent(log, c, t) = Recent(request, c, t)
        /\ \A gone : BurstsOK(request, gone) => BurstsOK(log, gone)
    BY <1>1, SameCounts
  <1>3. LogOK(log, now)
    BY DEF SameInLog, LogOK
  <1>4. BurstsOK(log, evicted)
    BY <1>2 DEF WindowInv
  <1>5. ASSUME NEW q \in Requests, WasRefused(log[q])
        PROVE  Cardinality(Recent(log, log[q].client, log[q].at)) >= Limit
    <2>1. WasRefused(request[q]) /\ log[q].client = request[q].client /\ log[q].at = request[q].at
      BY <1>5 DEF SameInLog
    <2>2. Cardinality(Recent(request, request[q].client, request[q].at)) >= Limit
      BY <2>1 DEF WindowInv, RefusalsOK
    <2> QED
      BY <1>2, <2>1, <2>2
  <1> QED
    BY <1>2, <1>3, <1>4, <1>5 DEF RefusalsOK

\* Time only closes accounts.
LEMMA LaterAccount ==
  ASSUME NEW log, LogOK(log, now), NEW c, NEW b, now \in Nat, WindowOK(log, now, c, b)
  PROVE  WindowOK(log, now + 1, c, b)
  <1>1. CASE b = NoBucket
    <2>1. /\ From(log, c, now) = {}
          /\ \A lo \in Nat : lo + Window > now => Cardinality(From(log, c, lo)) < Limit
      BY <1>1 DEF WindowOK
    <2>2. From(log, c, now + 1) = {}
      BY DEF From, LogOK, Counts
    <2>3. \A lo \in Nat : lo + Window > now + 1 => lo + Window > now
      BY LimiterAssumption
    <2> QED
      BY <1>1, <2>1, <2>2, <2>3 DEF WindowOK
  <1>2. CASE b # NoBucket
    BY <1>2 DEF WindowOK
  <1> QED
    BY <1>1, <1>2

\* The steps that call no check().
LEMMA KeptKeepsWindows ==
  ASSUME ServerTypeOK, WindowInv, bucket' = bucket, evicted' = evicted,
         now' = now \/ now' = now + 1,
         \A q \in Requests : SameInLog(request[q], request'[q], now)
  PROVE  WindowInv'
  <1>1. now \in Nat /\ Window \in Nat \ {0}
    BY LimiterAssumption DEF ServerTypeOK, LimiterTypeOK
  <1>2. /\ LogOK(request', now) /\ RefusalsOK(request') /\ BurstsOK(request', evicted)
        /\ \A c, lo : From(request', c, lo) = From(request, c, lo)
        /\ \A c, lo, hi : Between(request', c, lo, hi) = Between(request, c, lo, hi)
    BY KeptLog
  <1>3. LogOK(request', now')
    BY <1>1, <1>2 DEF LogOK
  <1>4. ASSUME NEW c \in Clients
        PROVE  /\ WindowOK(request, now, c, bucket[c]) => WindowOK(request', now, c, bucket[c])
               /\ DebtOK(request, c, bucket[c]) => DebtOK(request', c, bucket[c])
    <2>1. bucket[c].startedAt \in Nat /\ bucket[c].startedAt <= now
      BY LimiterAssumption DEF ServerTypeOK, LimiterTypeOK, Buckets, NoBucket
    <2> QED
      BY <1>1, <1>2, <2>1, SameAccount
  <1>5. ASSUME NEW c \in Clients \ evicted'
        PROVE  WindowOK(request', now', c, bucket'[c])
    <2>1. WindowOK(request', now, c, bucket[c])
      BY <1>4 DEF WindowInv
    <2>2. WindowOK(request', now + 1, c, bucket[c])
      BY <1>1, <1>2, <2>1, LaterAccount
    <2> QED
      BY <2>1, <2>2
  <1>6. ASSUME NEW c \in Clients
        PROVE  DebtOK(request', c, bucket'[c])
    BY <1>4 DEF WindowInv
  <1> QED
    BY <1>2, <1>3, <1>5, <1>6 DEF WindowInv

\* One more reply that is no 429, and a change of the rest of the record, are
\* nothing to the limiter.
LEMMA RepliesAreKept ==
  ASSUME NEW old \in RequestStates, NEW new, old.at <= now, now \in Nat,
         new.phase # "unsent", new.client = old.client, new.kind = old.kind, new.at = old.at,
         \/ new.replies = old.replies
         \/ \E reply \in Replies \ {"429"} : new.replies = Append(old.replies, reply)
  PROVE  SameInLog(old, new, now)
  <1>1. old.phase # "unsent" /\ old.at \in Nat /\ old.replies \in Seq(Replies)
    BY LimiterAssumption DEF RequestStates
  <1>2. WasRefused(new) <=> WasRefused(old)
    <2>1. CASE new.replies = old.replies
      BY <1>1, <2>1 DEF WasRefused
    <2>2. ASSUME NEW reply \in Replies \ {"429"}, new.replies = Append(old.replies, reply)
          PROVE  WasRefused(new) <=> WasRefused(old)
      <3> DEFINE a == old.replies
                 b == new.replies
      <3>1. /\ Len(a) \in Nat /\ DOMAIN a = 1 .. Len(a)
            /\ DOMAIN b = 1 .. Len(a) + 1 /\ b[Len(a) + 1] = reply
            /\ \A i \in 1 .. Len(a) : b[i] = a[i]
        BY <1>1, <2>2
      <3> HIDE DEF a, b
      <3>2. (\E i \in DOMAIN b : b[i] = "429") <=> (\E i \in DOMAIN a : a[i] = "429")
        BY <2>2, <3>1
      <3> QED
        BY <1>1, <3>2 DEF WasRefused, a, b
    <2> QED
      BY <2>1, <2>2
  <1> QED
    BY <1>1, <1>2 DEF SameInLog, Counts

\* A callback of one request that replies nothing, or no 429.
LEMMA QuietStep ==
  ASSUME ServerInv, WindowInv, NEW q \in Requests, Arrived(q), NEW r, Step(q, r),
         r.phase # "unsent", r.client = request[q].client, r.kind = request[q].kind,
         r.at = request[q].at,
         \/ r.replies = request[q].replies
         \/ \E reply \in Replies \ {"429"} : r.replies = Append(request[q].replies, reply)
  PROVE  WindowInv'
  <1>1. now \in Nat /\ ServerTypeOK
    BY LimiterAssumption DEF ServerInv, ServerTypeOK, LimiterTypeOK
  <1>2. \A p \in Requests : request'[p] = IF p = q THEN r ELSE request[p]
    BY <1>1 DEF Step, ServerTypeOK
  <1>3. bucket' = bucket /\ evicted' = evicted /\ now' = now
    BY DEF Step, limiterVars
  <1>4. ASSUME NEW p \in Requests
        PROVE  SameInLog(request[p], request'[p], now)
    <2>1. CASE p = q
      <3>1. request[q] \in RequestStates
        BY RequestFacts
      <3>2. request[q].at <= now
        BY DEF WindowInv, LogOK, Arrived
      <3>3. SameInLog(request[q], r, now)
        BY <1>1, <3>1, <3>2, RepliesAreKept
      <3> QED
        BY <1>2, <2>1, <3>3
    <2>2. CASE p # q
      <3>1. SameInLog(request[p], request[p], now)
        BY DEF SameInLog, WindowInv, LogOK
      <3> QED
        BY <1>2, <2>2, <3>1
    <2> QED
      BY <2>1, <2>2
  <1> QED
    BY <1>1, <1>3, <1>4, KeptKeepsWindows

\* A reply as QuietStep wants it.
LEMMA RepliedQuietly ==
  ASSUME NEW r \in RequestStates, NEW reply \in Replies \ {"429"}
  PROVE  LET s == Replied(r, reply)
         IN /\ s.phase # "unsent" /\ s.client = r.client /\ s.kind = r.kind /\ s.at = r.at
            /\ \E other \in Replies \ {"429"} : s.replies = Append(r.replies, other)
  BY DEF Replied, RequestStates

\* None of the callbacks concerns the limiter.
LEMMA CallbackKeepsWindows ==
  ASSUME ServerInv, WindowInv, NEW q \in Requests,
         \/ Data(q) \/ End(q) \/ Break(q) \/ TimerStep(q)
         \/ \E reply \in {"verdict", "rejected"} : Answer(q, reply)
  PROVE  WindowInv'
  <1>1. Arrived(q) /\ request[q] \in RequestStates
    <2>1. Arrived(q)
      BY DEF Data, End, Break, TimerStep, BodyTimeout, ParseTimeout, Answer, Arrived
    <2> QED
      BY <2>1, RequestFacts
  <1> DEFINE old == request[q]
  <1>2. ASSUME NEW r \in RequestStates, Step(q, r), r.phase # "unsent",
               r.client = old.client, r.kind = old.kind, r.at = old.at, r.replies = old.replies
        PROVE  WindowInv'
    BY <1>1, <1>2, QuietStep
  <1>3. ASSUME NEW r \in RequestStates, NEW reply \in Replies \ {"429"}, Step(q, Replied(r, reply)),
               r.client = old.client, r.kind = old.kind, r.at = old.at, r.replies = old.replies
        PROVE  WindowInv'
    <2> DEFINE s == Replied(r, reply)
    <2>1. /\ s.phase # "unsent" /\ s.client = old.client /\ s.kind = old.kind /\ s.at = old.at
          /\ \E other \in Replies \ {"429"} : s.replies = Append(old.replies, other)
      BY <1>3, RepliedQuietly
    <2>2. Step(q, s)
      BY <1>3
    <2> HIDE DEF s
    <2> QED
      BY <1>1, <2>1, <2>2, QuietStep
  <1>4. {"408", "413", "400", "504", "verdict", "rejected"} \subseteq Replies \ {"429"}
    BY DEF Replies
  <1>5. CASE Data(q)
    <2> DEFINE r == [old EXCEPT !.sent = @ + 1]
    <2>1. /\ r \in RequestStates /\ r.phase # "unsent" /\ r.client = old.client
          /\ r.kind = old.kind /\ r.at = old.at /\ r.replies = old.replies
      <3>1. old.sent \in 0 .. MaxBody + 1 /\ old.size \in 0 .. MaxBody + 1 /\ old.sent < old.size
        BY <1>1, <1>5 DEF RequestStates, Data
      <3>2. old.sent + 1 \in 0 .. MaxBody + 1
        BY <3>1, BodyAssumption
      <3> DEFINE n == old.sent + 1
      <3>3. r = [old EXCEPT !.sent = n] /\ n \in 0 .. MaxBody + 1
        BY <1>1, <3>2 DEF RequestStates
      <3> HIDE DEF n, r
      <3> QED
        BY <1>1, <3>3 DEF RequestStates
    <2>2. Step(q, IF old.phase # "reading" THEN r
                  ELSE IF TooMuch(q) THEN Replied(r, "413")
                  ELSE [r EXCEPT !.taken = @ + 1])
      BY <1>5 DEF Data
    <2> HIDE DEF r
    <2>3. CASE old.phase # "reading"
      BY <1>2, <2>1, <2>2, <2>3
    <2>4. CASE old.phase = "reading" /\ TooMuch(q)
      BY <1>3, <1>4, <2>1, <2>2, <2>4
    <2>5. CASE old.phase = "reading" /\ ~TooMuch(q)
      <3> DEFINE s == [r EXCEPT !.taken = @ + 1]
      <3>1. s.phase = r.phase /\ s.client = r.client /\ s.kind = r.kind /\ s.at = r.at /\ s.replies = r.replies
        BY <2>1 DEF RequestStates
      <3>2. Step(q, s)
        BY <2>2, <2>5
      <3> HIDE DEF s
      <3> QED
        BY <1>1, <2>1, <3>1, <3>2, QuietStep
    <2> QED
      BY <2>3, <2>4, <2>5
  <1>6. CASE End(q)
    <2> DEFINE r == [old EXCEPT !.stream = "ended"]
               s == [r EXCEPT !.phase = "verifying", !.work = "running"]
    <2>1. /\ r \in RequestStates /\ s \in RequestStates
          /\ r.phase # "unsent" /\ r.client = old.client
          /\ r.kind = old.kind /\ r.at = old.at /\ r.replies = old.replies
          /\ s.phase # "unsent" /\ s.client = old.client
          /\ s.kind = old.kind /\ s.at = old.at /\ s.replies = old.replies
      BY <1>1 DEF RequestStates
    <2>2. Step(q, r) \/ Step(q, s)
      BY <1>6 DEF End
    <2> HIDE DEF r, s
    <2> QED
      BY <1>2, <2>1, <2>2
  <1>7. CASE Break(q)
    <2> DEFINE r == [old EXCEPT !.stream = "broken"]
    <2>1. /\ r \in RequestStates /\ r.phase # "unsent" /\ r.client = old.client
          /\ r.kind = old.kind /\ r.at = old.at /\ r.replies = old.replies
      BY <1>1 DEF RequestStates
    <2>2. Step(q, r) \/ Step(q, Replied(r, "400"))
      BY <1>7 DEF Break
    <2> HIDE DEF r
    <2> QED
      BY <1>2, <1>3, <1>4, <2>1, <2>2
  <1>8. CASE TimerStep(q)
    <2>1. Step(q, Replied(old, "408")) \/ Step(q, Replied(old, "504"))
      BY <1>8 DEF TimerStep, BodyTimeout, ParseTimeout
    <2> QED
      BY <1>1, <1>3, <1>4, <2>1
  <1>9. ASSUME NEW reply \in {"verdict", "rejected"}, Answer(q, reply)
        PROVE  WindowInv'
    <2> DEFINE r == [old EXCEPT !.work = "over"]
    <2>1. /\ r \in RequestStates /\ r.phase # "unsent" /\ r.client = old.client
          /\ r.kind = old.kind /\ r.at = old.at /\ r.replies = old.replies
      BY <1>1 DEF RequestStates
    <2>2. Step(q, r) \/ Step(q, Replied(r, reply))
      BY <1>9 DEF Answer
    <2> HIDE DEF r
    <2> QED
      BY <1>2, <1>3, <1>4, <2>1, <2>2
  <1> QED
    BY <1>5, <1>6, <1>7, <1>8, <1>9

\* What handleRequest() writes down of a request that arrives.
LEMMA ArrivedRecord ==
  ASSUME ServerInv, NEW q \in Requests, NEW c \in Clients, NEW kind \in Kinds,
         NEW size \in Sizes(kind), Arrive(q, c, kind, size)
  PROVE  /\ request[q] = Unsent
         /\ request'[q].client = c /\ request'[q].at = now /\ request'[q].phase # "unsent"
         /\ WasRefused(request'[q]) <=> kind # "free" /\ ~Admits(c)
         /\ Counts(request'[q]) <=> kind # "free" /\ Admits(c)
         /\ \A p \in Requests : p # q => request'[p] = request[p]
  <1> DEFINE r == NewRequest(c, kind, size)
             s == IF kind # "free" /\ ~Admits(c) THEN Replied(r, "429")
                  ELSE IF kind = "verify" THEN r ELSE Replied(r, "answered")
  <1>1. /\ request'[q] = s /\ request[q] = Unsent
        /\ \A p \in Requests : p # q => request'[p] = request[p]
    BY DEF Arrive, ServerInv, ServerTypeOK
  <1>2. /\ s.client = c /\ s.at = now /\ s.phase # "unsent" /\ s.kind = kind
        /\ s.replies = IF kind # "free" /\ ~Admits(c) THEN <<"429">>
                       ELSE IF kind = "verify" THEN << >> ELSE <<"answered">>
    BY DEF NewRequest, Replied
  <1> HIDE DEF s, r
  <1>3. WasRefused(s) <=> kind # "free" /\ ~Admits(c)
    <2>1. CASE kind # "free" /\ ~Admits(c)
      <3>1. s.replies = <<"429">> /\ 1 \in DOMAIN s.replies /\ s.replies[1] = "429"
        BY <1>2, <2>1
      <3> QED
        BY <1>2, <2>1, <3>1 DEF WasRefused
    <2>2. CASE ~(kind # "free" /\ ~Admits(c))
      <3>1. s.replies = << >> \/ s.replies = <<"answered">>
        BY <1>2, <2>2
      <3>2. \A i \in DOMAIN s.replies : s.replies[i] # "429"
        BY <3>1
      <3> QED
        BY <2>2, <3>2 DEF WasRefused
    <2> QED
      BY <2>1, <2>2
  <1>4. Counts(s) <=> kind # "free" /\ Admits(c)
    BY <1>2, <1>3 DEF Counts
  <1> QED
    BY <1>1, <1>2, <1>3, <1>4

LEMMA FreeArrivalKeepsWindows ==
  ASSUME ServerInv, WindowInv, NEW q \in Requests, NEW c \in Clients, NEW kind \in Kinds,
         NEW size \in Sizes(kind), Arrive(q, c, kind, size), kind = "free"
  PROVE  WindowInv'
  <1>1. bucket' = bucket /\ evicted' = evicted /\ now' = now /\ ServerTypeOK /\ now \in Nat
    BY LimiterAssumption DEF Arrive, limiterVars, ServerInv, ServerTypeOK, LimiterTypeOK
  <1>2. /\ request[q] = Unsent
        /\ request'[q].at = now /\ request'[q].phase # "unsent"
        /\ ~WasRefused(request'[q]) /\ ~Counts(request'[q])
        /\ \A p \in Requests : p # q => request'[p] = request[p]
    BY ArrivedRecord
  <1>3. ASSUME NEW p \in Requests
        PROVE  SameInLog(request[p], request'[p], now)
    <2>1. CASE p = q
      BY <1>1, <1>2, <2>1 DEF SameInLog, Counts, WasRefused, Unsent
    <2>2. CASE p # q
      <3>1. SameInLog(request[p], request[p], now)
        BY DEF SameInLog, WindowInv, LogOK
      <3> QED
        BY <1>2, <2>2, <3>1
    <2> QED
      BY <2>1, <2>2
  <1> QED
    BY <1>1, <1>3, KeptKeepsWindows

LEMMA RefusalKeepsWindows ==
  ASSUME ServerInv, WindowInv, NEW q \in Requests, NEW c \in Clients, NEW kind \in Kinds,
         NEW size \in Sizes(kind), Arrive(q, c, kind, size), kind # "free", ~Admits(c)
  PROVE  WindowInv'
  <1>1. /\ ServerTypeOK /\ LimiterTypeOK /\ LogOK(request, now) /\ Check(c) /\ now' = now
        /\ now \in Nat /\ Limit \in Nat
    BY LimiterAssumption DEF Arrive, Check, ServerInv, ServerTypeOK, LimiterTypeOK, WindowInv
  <1>2. /\ request[q] = Unsent
        /\ request'[q].client = c /\ request'[q].at = now /\ request'[q].phase # "unsent"
        /\ WasRefused(request'[q]) /\ ~Counts(request'[q]) /\ ~Counts(request[q])
        /\ \A p \in Requests : p # q => request'[p] = request[p]
    BY ArrivedRecord DEF Counts, Unsent
  <1>3. \A p \in Requests :
          /\ Counts(request'[p]) <=> Counts(request[p])
          /\ Counts(request[p]) =>
               request'[p].client = request[p].client /\ request'[p].at = request[p].at
    BY <1>2
  <1>4. /\ \A d, lo : From(request', d, lo) = From(request, d, lo)
        /\ \A d, lo, hi : Between(request', d, lo, hi) = Between(request, d, lo, hi)
        /\ \A d, t : Recent(request', d, t) = Recent(request, d, t)
        /\ \A gone : BurstsOK(request, gone) => BurstsOK(request', gone)
    BY <1>3, SameCounts
  <1>5. /\ WindowOK(request, now, c, Pruned[c]) => WindowOK(request', now, c, Charged(c)[c])
        /\ DebtOK(request, c, Pruned[c]) =>
             /\ DebtOK(request', c, Charged(c)[c])
             /\ Limit <= Cardinality(From(request, c, Pruned[c].startedAt))
    BY <1>1, <1>4, RefusalKeepsAccount
  <1>6. /\ \A d \in Clients \ evicted' : WindowOK(request', now, d, bucket'[d])
        /\ \A d \in Clients : DebtOK(request', d, bucket'[d])
    BY <1>1, <1>4, <1>5, CheckKeepsAccounts
  <1>7. LogOK(request', now')
    BY <1>1, <1>2 DEF LogOK
  <1>8. BurstsOK(request', evicted')
    <2>1. BurstsOK(request', evicted) /\ evicted \subseteq evicted'
      BY <1>1, <1>4, CheckEffect DEF WindowInv
    <2> QED
      BY <2>1 DEF BurstsOK
  <1>9. Cardinality(Recent(request, c, now)) >= Limit
    <2> DEFINE p == Pruned[c]
               S == From(request, c, p.startedAt)
               T == Recent(request, c, now)
    <2>1. p # NoBucket
      BY DEF Admits
    <2>2. p.startedAt \in Nat /\ now < p.startedAt + Window /\ Window \in Nat
      BY <1>1, <2>1, ChargedBucket, LimiterAssumption
    <2>3. DebtOK(request, c, p)
      <3>1. DebtOK(request, c, bucket[c])
        BY DEF WindowInv
      <3> QED
        BY <2>1, <3>1 DEF Pruned
    <2>4. Limit <= Cardinality(S)
      BY <1>5, <2>3
    <2>5. S \in SUBSET Requests /\ T \in SUBSET Requests
      BY DEF From, Recent
    <2>6. \A r \in Requests : r \in S => r \in T
      <3>1. \A r \in Requests : Counts(request[r]) => request[r].at \in Nat /\ request[r].at <= now
        BY <1>1 DEF LogOK, Counts
      <3> QED
        BY <1>1, <2>2, <3>1 DEF From, Recent
    <2> HIDE DEF S, T, p
    <2>7. S \subseteq T
      BY <2>5, <2>6
    <2>8. Cardinality(S) <= Cardinality(T) /\ Cardinality(S) \in Nat /\ Cardinality(T) \in Nat
      BY <2>5, <2>7, Counting
    <2>9. Cardinality(T) >= Limit
      BY <1>1, <2>4, <2>8
    <2> QED
      BY <2>9 DEF T
  <1>10. RefusalsOK(request')
    <2> SUFFICES ASSUME NEW r \in Requests, WasRefused(request'[r])
                 PROVE  Cardinality(Recent(request', request'[r].client, request'[r].at)) >= Limit
      BY DEF RefusalsOK
    <2>1. CASE r = q
      BY <1>2, <1>4, <1>9, <2>1
    <2>2. CASE r # q
      <3>1. request'[r] = request[r]
        BY <1>2, <2>2
      <3>2. Cardinality(Recent(request, request[r].client, request[r].at)) >= Limit
        BY <3>1 DEF WindowInv, RefusalsOK
      <3> QED
        BY <1>4, <3>1, <3>2
    <2> QED
      BY <2>1, <2>2
  <1> QED
    BY <1>1, <1>6, <1>7, <1>8, <1>10 DEF WindowInv

LEMMA AdmissionKeepsWindows ==
  ASSUME ServerInv, WindowInv, NEW q \in Requests, NEW c \in Clients, NEW kind \in Kinds,
         NEW size \in Sizes(kind), Arrive(q, c, kind, size), kind # "free", Admits(c)
  PROVE  WindowInv'
  <1> DEFINE s == request'[q]
  <1>1. /\ ServerTypeOK /\ LimiterTypeOK /\ LogOK(request, now) /\ Check(c) /\ now' = now
        /\ now \in Nat /\ Window \in Nat
    BY LimiterAssumption DEF Arrive, Check, ServerInv, ServerTypeOK, LimiterTypeOK, WindowInv
  <1>2. /\ request[q] = Unsent
        /\ s.client = c /\ s.at = now /\ s.phase # "unsent"
        /\ ~WasRefused(s) /\ Counts(s) /\ ~Counts(request[q])
        /\ \A p \in Requests : p # q => request'[p] = request[p]
    BY ArrivedRecord DEF Counts, Unsent
  <1>3. \A p \in Requests : request'[p] = IF p = q THEN s ELSE request[p]
    BY <1>2
  <1> HIDE DEF s
  <1>4. /\ \A d \in Clients, lo \in Nat :
             From(request', d, lo) = IF d = c /\ lo <= now THEN From(request, d, lo) \union {q}
                                     ELSE From(request, d, lo)
        /\ \A d \in Clients, lo \in Nat, hi \in Nat :
             hi <= now => Between(request', d, lo, hi) = Between(request, d, lo, hi)
        /\ LogOK(request', now)
    <2> DEFINE log == request'
    <2>1. \A p \in Requests : log[p] = IF p = q THEN s ELSE request[p]
      BY <1>3
    <2> HIDE DEF log
    <2>2. /\ \A d \in Clients, lo \in Nat :
               From(log, d, lo) = IF d = s.client /\ lo <= now
                                    THEN From(request, d, lo) \union {q} ELSE From(request, d, lo)
          /\ \A d \in Clients, lo \in Nat, hi \in Nat :
               hi <= now => Between(log, d, lo, hi) = Between(request, d, lo, hi)
          /\ LogOK(log, now)
      BY <1>1, <1>2, <2>1, CountedEntry
    <2> QED
      BY <1>2, <2>2 DEF log
  <1>5. /\ WindowOK(request, now, c, Pruned[c]) => WindowOK(request', now, c, Charged(c)[c])
        /\ DebtOK(request, c, Pruned[c]) => DebtOK(request', c, Charged(c)[c])
    BY <1>1, <1>2, <1>3, AdmitKeepsAccount
  <1>6. \A d \in Clients \ {c}, lo \in Nat : From(request', d, lo) = From(request, d, lo)
    BY <1>4
  <1>7. \A d \in Clients \ {c}, lo \in Nat, hi \in Nat :
          hi <= now => Between(request', d, lo, hi) = Between(request, d, lo, hi)
    BY <1>4
  <1>8. /\ \A d \in Clients \ evicted' : WindowOK(request', now, d, bucket'[d])
        /\ \A d \in Clients : DebtOK(request', d, bucket'[d])
    BY <1>1, <1>5, <1>6, <1>7, CheckKeepsAccounts
  <1>9. BurstsOK(request', evicted')
    <2> SUFFICES ASSUME NEW d \in Clients \ evicted', NEW from \in 0 .. MaxTime
                 PROVE  Cardinality(Between(request', d, from, from + Window)) < 2 * Limit
      BY DEF BurstsOK
    <2>1. /\ d \in Clients \ evicted /\ bucket'[c] = Charged(c)[c]
      BY <1>1, CheckEffect
    <2>2. from \in Nat /\ from + Window \in Nat
      BY <1>1, LimiterAssumption
    <2>3. Cardinality(Between(request, d, from, from + Window)) < 2 * Limit
      BY <2>1 DEF WindowInv, BurstsOK
    <2>4. CASE from + Window <= now
      BY <1>4, <2>2, <2>3, <2>4
    <2>5. CASE d # c
      <3>1. From(request', d, from) = From(request, d, from)
        BY <1>6, <2>2, <2>5
      <3>2. \A p \in Requests : p \in From(request, d, from) => request'[p] = request[p]
        BY <1>2, <1>3 DEF From
      <3>3. From(request, d, from) \subseteq Requests
        BY DEF From
      <3>4. Between(request', d, from, from + Window) = Between(request, d, from, from + Window)
        BY <3>1, <3>2, <3>3 DEF Between
      <3> QED
        BY <2>3, <3>4
    <2>6. CASE d = c /\ from + Window > now
      <3> DEFINE b == bucket'[c]
      <3>1. b # NoBucket /\ b.startedAt \in Nat
        BY <1>1, <2>1, ChargedBucket
      <3>2. b.startedAt <= now
        BY <1>1, <2>1, ChargedType
      <3>3. WindowOK(request', now, c, b)
        BY <1>8, <2>6
      <3> HIDE DEF b
      <3>4. Cardinality(Between(request', c, from, from + Window)) < 2 * Limit
        BY <1>1, <1>4, <2>2, <2>6, <3>1, <3>2, <3>3, AccountBoundsBurst
      <3> QED
        BY <2>6, <3>4
    <2> QED
      BY <1>1, <2>2, <2>4, <2>5, <2>6
  <1>10. RefusalsOK(request')
    <2> SUFFICES ASSUME NEW r \in Requests, WasRefused(request'[r])
                 PROVE  Cardinality(Recent(request', request'[r].client, request'[r].at)) >= Limit
      BY DEF RefusalsOK
    <2>1. r # q /\ request'[r] = request[r]
      BY <1>2, <1>3
    <2> DEFINE S == Recent(request, request[r].client, request[r].at)
               T == Recent(request', request[r].client, request[r].at)
    <2>2. Cardinality(S) >= Limit
      BY <2>1 DEF WindowInv, RefusalsOK
    <2>3. S \in SUBSET Requests /\ T \in SUBSET Requests
      BY DEF Recent
    <2>4. \A p \in Requests : p \in S => p \in T
      BY <1>2, <1>3 DEF Recent
    <2> HIDE DEF S, T
    <2>5. S \subseteq T
      BY <2>3, <2>4
    <2>6. Cardinality(S) <= Cardinality(T) /\ Cardinality(S) \in Nat /\ Cardinality(T) \in Nat
      BY <2>3, <2>5, Counting
    <2>7. Cardinality(T) >= Limit
      BY <2>2, <2>6, LimiterAssumption
    <2> QED
      BY <2>1, <2>7 DEF T
  <1> QED
    BY <1>1, <1>4, <1>8, <1>9, <1>10 DEF WindowInv

LEMMA ExitKeepsWindows ==
  ASSUME ServerInv, WindowInv, Exit
  PROVE  WindowInv'
  <1>1. bucket' = bucket /\ evicted' = evicted /\ now' = now /\ ServerTypeOK /\ now \in Nat
    BY LimiterAssumption DEF Exit, limiterVars, ServerInv, ServerTypeOK, LimiterTypeOK
  <1>2. ASSUME NEW p \in Requests
        PROVE  SameInLog(request[p], request'[p], now)
    <2>1. CASE Arrived(p) /\ request[p].work = "running"
      <3> DEFINE r == [request[p] EXCEPT !.work = "over"]
      <3>1. request[p] \in RequestStates /\ request[p].at <= now
        BY <2>1, RequestFacts DEF WindowInv, LogOK, Arrived
      <3>2. /\ r.phase # "unsent" /\ r.client = request[p].client /\ r.kind = request[p].kind
            /\ r.at = request[p].at /\ r.replies = request[p].replies
        BY <3>1 DEF RequestStates
      <3>3. request'[p] = r
        BY <2>1 DEF Exit
      <3> HIDE DEF r
      <3>4. SameInLog(request[p], r, now)
        BY <1>1, <3>1, <3>2, RepliesAreKept
      <3> QED
        BY <3>3, <3>4
    <2>2. CASE ~(Arrived(p) /\ request[p].work = "running")
      <3>1. request'[p] = request[p]
        BY <2>2 DEF Exit
      <3>2. SameInLog(request[p], request[p], now)
        BY DEF SameInLog, WindowInv, LogOK
      <3> QED
        BY <3>1, <3>2
    <2> QED
      BY <2>1, <2>2
  <1> QED
    BY <1>1, <1>2, KeptKeepsWindows

LEMMA RestKeepsWindows ==
  ASSUME ServerInv, WindowInv, Shutdown \/ LimiterTick \/ UNCHANGED serverVars
  PROVE  WindowInv'
  <1>1. /\ bucket' = bucket /\ evicted' = evicted /\ (now' = now \/ now' = now + 1)
        /\ request' = request /\ ServerTypeOK
    BY DEF Shutdown, LimiterTick, Tick, limiterVars, serverVars, ServerInv
  <1>2. \A p \in Requests : SameInLog(request[p], request[p], now)
    BY DEF SameInLog, WindowInv, LogOK
  <1> QED
    BY <1>1, <1>2, KeptKeepsWindows

LEMMA WindowsHold == ServerSpec => []WindowInv
  <1>1. ServerInit => WindowInv
    <2> SUFFICES ASSUME ServerInit PROVE WindowInv
      OBVIOUS
    <2>1. \A q \in Requests : ~Counts(request[q]) /\ ~WasRefused(request[q]) /\ request[q].phase = "unsent"
      BY DEF ServerInit, Unsent, Counts, WasRefused
    <2>2. \A c, lo : From(request, c, lo) = {}
      BY <2>1 DEF From
    <2>3. \A c, lo, hi : Between(request, c, lo, hi) = {}
      BY <2>2 DEF Between
    <2>4. \A c \in Clients : bucket[c] = NoBucket
      BY DEF ServerInit, LimiterInit
    <2>5. Limit > 0 /\ 2 * Limit > 0
      BY LimiterAssumption
    <2> QED
      BY <2>1, <2>2, <2>3, <2>4, <2>5, CountingNone
      DEF WindowInv, LogOK, WindowOK, DebtOK, BurstsOK, RefusalsOK
  <1>2. ServerInv /\ WindowInv /\ [ServerNext]_serverVars => WindowInv'
    <2> SUFFICES ASSUME ServerInv, WindowInv, [ServerNext]_serverVars PROVE WindowInv'
      OBVIOUS
    <2>1. ASSUME NEW q \in Requests, NEW c \in Clients, NEW kind \in Kinds,
                 NEW size \in Sizes(kind), Arrive(q, c, kind, size)
          PROVE  WindowInv'
      BY <2>1, FreeArrivalKeepsWindows, RefusalKeepsWindows, AdmissionKeepsWindows
    <2>2. ASSUME NEW q \in Requests,
                 \/ Data(q) \/ End(q) \/ Break(q) \/ TimerStep(q)
                 \/ \E reply \in {"verdict", "rejected"} : Answer(q, reply)
          PROVE  WindowInv'
      BY <2>2, CallbackKeepsWindows
    <2>3. CASE Shutdown \/ LimiterTick \/ UNCHANGED serverVars
      BY <2>3, RestKeepsWindows
    <2>4. CASE Exit
      BY <2>4, ExitKeepsWindows
    <2> QED
      BY <2>1, <2>2, <2>3, <2>4 DEF ServerNext
  <1> QED
    BY <1>1, <1>2, SpecInv, PTL DEF ServerSpec

\* The two promises, read off the log.
LEMMA PromisesOfTheLog ==
  /\ BurstsOK(request, evicted) => BurstsAreBounded
  /\ RefusalsOK(request) => RefusalsAreDeserved
  <1>1. \A q \in Requests : Admitted(q) <=> Counts(request[q])
    BY DEF Admitted, Counts, WasRefused, Got, Arrived
  <1>2. \A q \in Requests : Got(q, "429") <=> WasRefused(request[q])
    BY DEF WasRefused, Got, Arrived
  <1>3. ASSUME NEW c, NEW from
        PROVE  AdmittedIn(c, from) = Between(request, c, from, from + Window)
    BY <1>1 DEF AdmittedIn, Between, From
  <1>4. ASSUME NEW q \in Requests
        PROVE  Recent(request, request[q].client, request[q].at)
                 = {p \in Requests : /\ Admitted(p) /\ request[p].client = request[q].client
                                     /\ request[p].at <= request[q].at
                                     /\ request[p].at + Window > request[q].at}
    BY <1>1 DEF Recent
  <1> QED
    BY <1>2, <1>3, <1>4 DEF BurstsAreBounded, RefusalsAreDeserved, BurstsOK, RefusalsOK

\* In no span of one window's length is a client admitted twice the limit or
\* more, whatever the limit, the window and the times at which it calls, unless
\* its bucket was given up for the cap.
THEOREM BurstsStayBounded == ServerSpec => []BurstsAreBounded
  <1>1. WindowInv => BurstsAreBounded
    BY PromisesOfTheLog DEF WindowInv
  <1> QED
    BY <1>1, WindowsHold, PTL

\* A client that is told 429 was admitted limit times within the window that ends
\* with the refused request, also when other clients' calls gave its bucket up.
THEOREM RefusalsStayDeserved == ServerSpec => []RefusalsAreDeserved
  <1>1. WindowInv => RefusalsAreDeserved
    BY PromisesOfTheLog DEF WindowInv
  <1> QED
    BY <1>1, WindowsHold, PTL
=============================================================================
