----------------------------- MODULE CoseSign1 -----------------------------
(***************************************************************************)
(* The envelope of a seal (packages/paper/src/cose.ts): what a signer      *)
(* signs, what of it a verifier reads, and when the two are the same.      *)
(*                                                                         *)
(* Bytes are the values they encode (Cbor), a map of headers is a function *)
(* from labels, whatever its order, and a signature is the key that made   *)
(* it and what it was made over.                                           *)
(***************************************************************************)
EXTENDS Integers, Sequences

\* 1: algorithm, 2: critical labels, 4: key id.
Reserved == {1, 2, 4}

\* What a header holds: an algorithm, a list of labels, the bytes of a text, or
\* something else.
Algorithm(a) == [algorithm |-> a]
List(labels) == [list |-> labels]
Bytes(text) == [bytes |-> text]
Other == [other |-> TRUE]

NoHeaders == [label \in {} |-> Other]

-----------------------------------------------------------------------------
(* createCoseSign1() *)

\* Mutant: the headers are left out of what is signed.
PayloadOnly(headers, payload) == [context |-> "Signature1", headers |-> NoHeaders, payload |-> payload]

\* buildSignatureInput(): no external data.
SignatureInput(headers, payload) == [context |-> "Signature1", headers |-> headers, payload |-> payload]

ValidSigner(signer) == signer.algorithm = "ES256" /\ signer.keyId \notin {"", "blank"}

HeadersOf(signer) == [label \in {1, 4} |-> IF label = 1 THEN Algorithm("ES256") ELSE Bytes(signer.keyId)]

\* A signer's key signs what it is given; the object that comes of it.
Created(signer, payload) ==
  [maps |-> TRUE, protected |-> HeadersOf(signer), unprotected |-> NoHeaders, payload |-> Bytes(payload),
   signature |-> [by |-> signer.key, over |-> SignatureInput(HeadersOf(signer), Bytes(payload)), size |-> 64]]

-----------------------------------------------------------------------------
(* decodeCoseSign1(), on the four items of an object *)

\* maps: both headers are maps, the protected one with safe integers for labels.
\* A payload or a signature that is not what it has to be is Other.
Decodable(object) ==
  /\ object.maps
  /\ "bytes" \in DOMAIN object.payload
  /\ object.signature # Other /\ object.signature.size = 64
  /\ DOMAIN object.unprotected \cap Reserved = {}

\* What is under a label, and what is read of it: a set of at most one.
Header(headers, label) == IF label \in DOMAIN headers THEN {headers[label]} ELSE {}

\* readKeyId(): not empty, UTF-8 and not blank; a byte order mark is dropped.
KeyIdOf(headers) ==
  LET texts == {v.bytes : v \in {v \in Header(headers, 4) : "bytes" \in DOMAIN v}} \ {"", "blank", "garbled"}
  IN {IF t = "marked" THEN "k1" ELSE t : t \in texts}

\* isSupportedCriticalHeader(): every label named is the algorithm's.
CriticalIsSupported(headers) ==
  \A v \in Header(headers, 2) : "list" \in DOMAIN v /\ \A i \in DOMAIN v.list : v.list[i] = 1

\* The headers verifyCoseSign1() goes on with.
Supported(headers) ==
  /\ Header(headers, 1) = {Algorithm("ES256")}
  /\ KeyIdOf(headers) # {}
  /\ CriticalIsSupported(headers)

\* verifyCoseSign1() with keys by key id; which key that is, and whether it is
\* trusted, is the business of TrustPolicy and Verification.
VerifyCose(object, keys) ==
  LET ids == KeyIdOf(object.protected)
  IN IF ~(Decodable(object) /\ Supported(object.protected)) THEN "INVALID"
     ELSE IF ~(ids \subseteq DOMAIN keys) THEN "UNVERIFIABLE"
     ELSE IF /\ \A id \in ids : object.signature.by = keys[id]
             /\ object.signature.over = SignatureInput(object.protected, object.payload)
          THEN "VALID" ELSE "INVALID"

-----------------------------------------------------------------------------
(* Properties *)

\* What a signer made verifies under its key id, when that is not marked; and
\* whatever becomes of its four items one by one, an object that still verifies
\* says what was signed: the same key id, algorithm, critical labels and payload.
CoversTheSeal(signer, payload, object, keys) ==
  ValidSigner(signer) =>
    LET made == Created(signer, payload)
        id == signer.keyId
    IN /\ VerifyCose(made, [k \in {id} |-> signer.key]) = "VALID"
       /\ object.signature = made.signature /\ VerifyCose(object, keys) = "VALID" =>
            /\ KeyIdOf(object.protected) = {id} /\ keys[id] = signer.key
            /\ \A label \in Reserved : Header(object.protected, label) = Header(made.protected, label)
            /\ object.payload = made.payload
=============================================================================
