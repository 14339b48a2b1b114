------------------------------ MODULE Issuance ------------------------------
(***************************************************************************)
(* Issuance and verification through the SDK (packages/node/src/           *)
(* credaryn.ts) over the key lifecycle registry: createPaperSeal and       *)
(* sealPdf ask the signer who it is, check that this key is ACTIVE, and    *)
(* sign some awaits later, while operators go on calling the registry.     *)
(*                                                                         *)
(* A descriptor that fails validation or a B-T request to an engine        *)
(* without timestamping is refused before the first await and leaves no    *)
(* trace; such requests are not modelled.                                  *)
(***************************************************************************)
EXTENDS KeyLifecycle

CONSTANTS
  Signers,      \* SignerProvider instances
  KeyOf,        \* KeyOf[s]: the key version whose private key s signs with
  BareSigners,  \* signers whose keyId does not name the version, as LocalSigner's
  SidecarKey,   \* the key version the DSS sidecar is configured with
  Requests,     \* createPaperSeal and sealPdf calls
  Kinds,        \* what is called: "paper", "pdf"
  Descriptors,  \* "sealable", "foreign" (of another issuer than the signer's),
                \* "oversized" (the COSE object would exceed its limit)
  Reports,      \* verifyPaperSeal and verifyPdf calls
  Unversioned   \* the version part of a keyId that names none

\* A key version is its issuer, key and version.
ASSUME IdentityAssumption ==
  \A k, l \in KeyVersions :
    k.issuer = l.issuer /\ k.key = l.key /\ k.version = l.version => k = l
ASSUME KeyOfAssumption == KeyOf \in [Signers -> KeyVersions]
ASSUME BareAssumption == BareSigners \subseteq Signers
ASSUME SidecarAssumption == SidecarKey \in KeyVersions
ASSUME KindsAssumption == /\ Kinds \subseteq {"paper", "pdf"}
                          /\ Descriptors \subseteq {"sealable", "foreign", "oversized"}
ASSUME UnversionedAssumption == \A k \in KeyVersions : k.version # Unversioned

VARIABLES
  cached,   \* cached[s]: getKeyInfo() has fetched the public key of s
  request,  \* request[q]: call q to createPaperSeal or sealPdf
  report    \* report[v]: the result of verification v

issuanceVars == <<records, order, cached, request, report>>

-----------------------------------------------------------------------------
(* Key identity *)

\* toSignerKeyInfo() names the version (key@version); a LocalSigner and a
\* SignerProvider of the application's own need not.
KeyId(k, versioned) ==
  [issuer |-> k.issuer, key |-> k.key, version |-> IF versioned THEN k.version ELSE Unversioned]
SignerKeyId(s) == KeyId(KeyOf[s], s \notin BareSigners)
KeyIds == {KeyId(k, v) : k \in KeyVersions, v \in BOOLEAN}

\* Mutant: two versions of a key are taken for the same.
SameKey(k, id) == k.issuer = id.issuer /\ k.key = id.key

\* sameKeyId(), within one issuer.
SameKeyId(k, id) ==
  /\ k.issuer = id.issuer
  /\ k.key = id.key
  /\ id.version \in {Unversioned, k.version}

\* Mutant: any key that is ACTIVE will do.
SomeKeyIsActive(id) == ActiveKeys(id.issuer) # {}

\* What assertSigningKeyIsActive() checks.
SigningKeyIsActive(id) == \E k \in ActiveKeys(id.issuer) : SameKeyId(k, id)

\* The record lookupKeyLifecycleState() takes: the first that matches.
FirstMatch(id) ==
  {order[n] : n \in {n \in DOMAIN order :
     /\ SameKeyId(order[n], id)
     /\ \A m \in 1 .. n - 1 : ~SameKeyId(order[m], id)}}

\* The state it returns: none for a key that is not listed or only AUTHORIZED.
Exposed(status) == IF status \in {"AUTHORIZED", "UNLISTED"} THEN "NONE" ELSE status
KeyLifecycleState(id) ==
  IF FirstMatch(id) = {} THEN {"NONE"} ELSE {Exposed(records[k].status) : k \in FirstMatch(id)}

-----------------------------------------------------------------------------
(* Calls *)

\* "checking", "encoding", "heading", "posting": getKeyInfo() is awaited by
\* assertSigningKeyIsActive, encodePaperSeal, createCoseSign1 and the engine's
\* sign(); "signing": sign() of the provider or the request to the sidecar is.
\* "abandoned": the caller was told that it failed, which keeps neither from
\* signing; "late": it signed all the same.
AwaitingKeyInfo == {"checking", "encoding", "heading", "posting"}
InFlightPhases == AwaitingKeyInfo \union {"signing"}

Uncalled == [phase |-> "uncalled"]
NoKey == [key |-> "none"]
ASSUME NoKeyAssumption == NoKey \notin KeyVersions

\* payloadId and headerId are the key ids put in the seal; key is the key
\* version that signed.  spent is a history variable: whether the signer's key
\* had ended when the call began.
Calls ==
  [phase : InFlightPhases \union {"sealed", "refused", "failed", "abandoned", "late"},
   kind : {"paper", "pdf"}, descriptor : {"sealable", "foreign", "oversized"},
   signer : Signers, payloadId : KeyIds \union {NoKey}, headerId : KeyIds \union {NoKey},
   key : KeyVersions \union {NoKey}, spent : BOOLEAN]

Sealed(q) == request[q].phase = "sealed"
Signed(q) == request[q].phase \in {"sealed", "late"}

\* A verification of the seal of request q.
Unread == [of |-> "none"]

UntouchedByIssuance == UNCHANGED <<records, order>>

\* createPaperSeal() or sealPdf() is called.
Begin(q, s, kind, descriptor) ==
  /\ request[q] = Uncalled
  /\ request' = [request EXCEPT ![q] =
       [phase |-> "checking", kind |-> kind, descriptor |-> descriptor, signer |-> s,
        payloadId |-> NoKey, headerId |-> NoKey, key |-> NoKey,
        spent |-> records[KeyOf[s]].status \in EndedStates]]
  /\ UNCHANGED <<cached, report>> /\ UntouchedByIssuance

\* getKeyInfo() answers: from now on it is answered from the cache.
KeyInfoArrives(q, phase) ==
  /\ request[q].phase = phase
  /\ cached' = [cached EXCEPT ![request[q].signer] = TRUE]
  /\ UNCHANGED report /\ UntouchedByIssuance

\* assertSigningKeyIsActive() goes on after getKeyInfo().
Check(q) ==
  /\ KeyInfoArrives(q, "checking")
  /\ request' = [request EXCEPT ![q].phase =
       IF ~SigningKeyIsActive(SignerKeyId(request[q].signer)) THEN "refused"
       ELSE IF request[q].kind = "paper" THEN "encoding" ELSE "posting"]

\* encodePaperSeal() puts the key id in the payload, or refuses a descriptor of
\* another issuer or one too large.
Encode(q) ==
  /\ KeyInfoArrives(q, "encoding")
  /\ request' = IF request[q].descriptor = "sealable"
       THEN [request EXCEPT ![q].phase = "heading", ![q].payloadId = SignerKeyId(request[q].signer)]
       ELSE [request EXCEPT ![q].phase = "refused"]

\* createCoseSign1() puts the key id in the header and calls sign().
PutHeader(q) ==
  /\ KeyInfoArrives(q, "heading")
  /\ request' = [request EXCEPT ![q].phase = "signing", ![q].headerId = SignerKeyId(request[q].signer)]

\* The provider signs with the private key it holds.
Sign(q) ==
  /\ request[q].phase = "signing" /\ request[q].kind = "paper"
  /\ request' = [request EXCEPT ![q].phase = "sealed", ![q].key = KeyOf[request[q].signer]]
  /\ UNCHANGED <<cached, report>> /\ UntouchedByIssuance

\* The engine sends the PDF and the signer's public metadata to the sidecar.
Post(q) ==
  /\ KeyInfoArrives(q, "posting")
  /\ request' = [request EXCEPT ![q].phase = "signing", ![q].headerId = SignerKeyId(request[q].signer)]

\* The key id the sidecar is configured with (DSS_KEY_ID): the signer's, of the
\* same form.
SidecarAccepts(q) ==
  request[q].headerId = KeyId(SidecarKey, request[q].headerId.version # Unversioned)

\* Mutant: the sidecar signs for whoever asks.
SidecarSignsForAny(q) ==
  /\ request[q].phase = "signing" /\ request[q].kind = "pdf"
  /\ request' = [request EXCEPT ![q].phase = "sealed", ![q].key = SidecarKey]
  /\ UNCHANGED <<cached, report>> /\ UntouchedByIssuance

\* The sidecar compares the metadata with its configuration and signs with its
\* own token.
SidecarSigns(q) ==
  /\ request[q].phase = "signing" /\ request[q].kind = "pdf"
  /\ request' = IF SidecarAccepts(q)
       THEN [request EXCEPT ![q].phase = "sealed", ![q].key = SidecarKey]
       ELSE [request EXCEPT ![q].phase = "failed"]
  /\ UNCHANGED <<cached, report>> /\ UntouchedByIssuance

\* The provider or the sidecar cannot be reached, denies or times out.  A cached
\* getKeyInfo() cannot fail.
ProviderFails(q) ==
  /\ \/ request[q].phase = "signing"
     \/ request[q].phase \in AwaitingKeyInfo /\ ~cached[request[q].signer]
  /\ request' = [request EXCEPT ![q].phase = IF @ = "signing" THEN "abandoned" ELSE "failed"]
  /\ UNCHANGED <<cached, report>> /\ UntouchedByIssuance

\* The request was on its way when the client gave up, or the answer was lost.
SignsLate(q) ==
  /\ request[q].phase = "abandoned"
  /\ \/ /\ request[q].kind = "paper"
        /\ request' = [request EXCEPT ![q].phase = "late", ![q].key = KeyOf[request[q].signer]]
     \/ /\ request[q].kind = "pdf" /\ SidecarAccepts(q)
        /\ request' = [request EXCEPT ![q].phase = "late", ![q].key = SidecarKey]
  /\ UNCHANGED <<cached, report>> /\ UntouchedByIssuance

\* The application asks the provider for its health: healthCheck() fetches the
\* key info; it reports a failure and throws none.
HealthCheck(s) ==
  /\ cached' = [cached EXCEPT ![s] = TRUE]
  /\ UNCHANGED <<request, report>> /\ UntouchedByIssuance

\* verifyPaperSeal() looks the key up under the key id of the payload after its
\* last await.  actual is a history variable: the state of the key that signed.
ReportPaper(v, q) ==
  /\ report[v] = Unread /\ Sealed(q) /\ request[q].kind = "paper"
  /\ \E state \in KeyLifecycleState(request[q].payloadId) :
       report' = [report EXCEPT ![v] =
         [of |-> q, state |-> state, actual |-> Exposed(records[request[q].key].status)]]
  /\ UNCHANGED <<cached, request>> /\ UntouchedByIssuance

\* verifyPdf() looks it up under the key id the sidecar reports, which is the
\* fingerprint of the signing certificate; no registry identity has that id.
ReportPdf(v, q) ==
  /\ report[v] = Unread /\ Sealed(q) /\ request[q].kind = "pdf"
  /\ report' = [report EXCEPT ![v] =
       [of |-> q, state |-> "NONE", actual |-> Exposed(records[request[q].key].status)]]
  /\ UNCHANGED <<cached, request>> /\ UntouchedByIssuance

-----------------------------------------------------------------------------
IssuanceInit == /\ Init
                /\ cached = [s \in Signers |-> FALSE]
                /\ request = [q \in Requests |-> Uncalled]
                /\ report = [v \in Reports |-> Unread]

\* An operator calls the registry.
OperatorStep == /\ Next
                /\ UNCHANGED <<cached, request, report>>

CallStep(q) ==
  \/ \E s \in Signers, kind \in Kinds, d \in Descriptors : Begin(q, s, kind, d)
  \/ Check(q)
  \/ Encode(q)
  \/ PutHeader(q)
  \/ Sign(q)
  \/ Post(q)
  \/ SidecarSigns(q)
  \/ ProviderFails(q)
  \/ SignsLate(q)

ReportStep(v, q) == ReportPaper(v, q) \/ ReportPdf(v, q)

IssuanceNext == \/ OperatorStep
                \/ \E s \in Signers : HealthCheck(s)
                \/ \E q \in Requests : CallStep(q)
                \/ \E v \in Reports, q \in Requests : ReportStep(v, q)

IssuanceSpec == IssuanceInit /\ [][IssuanceNext]_issuanceVars

-----------------------------------------------------------------------------
(* Properties *)

States == EndedStates \union {"ACTIVE", "NONE"}

\* The calls and results have their types, a seal names the key id it was
\* requested under, and a paper seal names the same one in payload and header.
\* Part of PaperStateIsTheKeys.
IssuanceTypeOK ==
  /\ TypeOK
  /\ cached \in [Signers -> BOOLEAN]
  /\ request \in [Requests -> Calls \union {Uncalled}]
  /\ \A q \in Requests : Sealed(q) =>
       /\ request[q].key # NoKey /\ request[q].headerId # NoKey
       /\ request[q].kind = "paper" => request[q].payloadId = request[q].headerId
  /\ report \in [Reports -> [of : Requests, state : States, actual : States] \union {Unread}]

\* Whatever operators do between the check and the signature: the key that
\* signed has been the issuer's ACTIVE key.  A key that was only ever
\* AUTHORIZED, or revoked before it was activated, has signed nothing, nor has
\* it for a caller who was told that the signing failed.
SignedByOnceActive ==
  \A q \in Requests : Signed(q) => records[request[q].key].status # "UNLISTED" /\ records[request[q].key].activated

\* Retiring, revoking or compromising a key stops every call that begins
\* afterwards, including calls in flight beside a rotation: it makes no signature,
\* not even one that its caller is not told of.
EndedKeysDoNotSign ==
  \A q \in Requests : Signed(q) => ~request[q].spent

\* The key lifecycle state in the result of a paper verification is the one of
\* the key that made the seal, which payload and header name alike
\* (credaryn.ts:118-185, cose.ts:47-52).
PaperStateIsTheKeys ==
  /\ IssuanceTypeOK
  /\ \A v \in Reports :
       report[v] # Unread /\ request[report[v].of].kind = "paper" => report[v].state = report[v].actual
=============================================================================
