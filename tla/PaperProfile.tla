---------------------------- MODULE PaperProfile ----------------------------
(***************************************************************************)
(* What a seal says: the descriptor an application gives                   *)
(* (packages/core/src/validate-descriptor.ts), the payload made of it      *)
(* (packages/paper/src/encode.ts), and what a verifier makes of a payload  *)
(* (decode.ts, matchesDescriptor in verify.ts).  Texts are represented by  *)
(* the classes that the code tells apart.                                  *)
(***************************************************************************)
EXTENDS Integers, FiniteSets, Functions

CONSTANT MaxSize   \* MAX_COSE_OBJECT_BYTES, in fields and claims

Environments == {"production", "development"}

\* Identities and key ids: not given, not a text, blank, with blanks around it, or a good one.
Identities == {"absent", "number", "blank", "padded", "acme", "globex"}
Instants == {"absent", "number", "nonsense", "instant"}
\* A text with a byte order mark in front is "marked"; "code" is a currency code.
ClaimValues == {"text", "marked", "long", "code", "boolean", "integer", "unsafe", "nested"}
ClaimKeys == {"totalMinor", "currency", "note", "blank", "padded", "__proto__"}
Urls == {"absent", "number", "nonsense", "https", "credentials", "http", "local"}

IsText(x) == x \notin {"absent", "number"}

-----------------------------------------------------------------------------
(* validateDescriptor() *)

ValidIdentity(x) == IsText(x) /\ x \notin {"blank", "padded"}

ValidClaims(claims) ==
  \A k \in DOMAIN claims : k \notin {"blank", "padded"} /\ claims[k] \notin {"unsafe", "nested"}

\* Mutant: claims that would not fit are left out.
KeptIfShort(claims) == Restrict(claims, {k \in DOMAIN claims : k # "__proto__" /\ claims[k] # "long"})

\* Claims are copied one by one into a new object, where this name is not a key.
Kept(claims) == Restrict(claims, DOMAIN claims \ {"__proto__"})

CurrencyStated(claims) ==
  LET stated == "currency" \in DOMAIN claims /\ claims["currency"] = "code"
  IN  /\ "currency" \in DOMAIN claims => stated
      /\ "totalMinor" \in DOMAIN claims /\ claims["totalMinor"] = "integer" => stated

ValidUrl(url, environment) ==
  url \in {"absent", "https"} \/ (url = "local" /\ environment = "development")

ValidDescriptor(d, environment, explicitCurrency) ==
  /\ ValidIdentity(d.issuer) /\ ValidIdentity(d.document) /\ ValidIdentity(d.type)
  /\ d.issuedAt = "instant"
  /\ d.flat /\ ValidClaims(d.claims)
  /\ explicitCurrency => CurrencyStated(Kept(d.claims))
  /\ ValidUrl(d.statusUrl, environment)

-----------------------------------------------------------------------------
(* encodePaperSeal() *)

Text(x) == [text |-> x]
Optional(field, x) == IF x = "absent" THEN {} ELSE {field}

\* The fingerprint of the signer comes before the one in the options.
PrintOf(signer, options) == IF signer.print # "absent" THEN signer.print ELSE options.print

\* The numbered fields.
Payload(d, signer, options) ==
  [f \in 1..7 \cup Optional(8, d.statusUrl) \cup Optional(9, options.artifact) \cup Optional(10, PrintOf(signer, options)) |->
     CASE f = 1 -> [int |-> 1]
       [] f = 2 -> Text(d.issuer)
       [] f = 3 -> Text(signer.key)
       [] f = 4 -> Text(d.document)
       [] f = 5 -> Text(d.type)
       [] f = 6 -> Text(d.issuedAt)
       [] f = 7 -> [map |-> Kept(d.claims)]
       [] f = 8 -> Text(d.statusUrl)
       [] f = 9 -> Text(options.artifact)
       [] f = 10 -> Text(PrintOf(signer, options))]

Size(payload) ==
  LET claims == payload[7].map
  IN  Cardinality(DOMAIN payload) + Cardinality(DOMAIN claims)
        + MaxSize * Cardinality({k \in DOMAIN claims : claims[k] = "long"})

\* What encodePaperSeal() does not refuse.
Sealable(d, signer, options) ==
  /\ ValidDescriptor(d, options.environment, FALSE)
  /\ signer.algorithm = "ES256" /\ signer.issuer = d.issuer /\ signer.key # "blank"
  /\ Size(Payload(d, signer, options)) <= MaxSize

\* The SDK asks for currencies first.
Issuable(d, signer, options) ==
  ValidDescriptor(d, options.environment, TRUE) /\ Sealable(d, signer, options)

\* What the binary form carries: a decoder drops the mark in front of a text.
Carried(payload) ==
  [payload EXCEPT ![7] =
     [map |-> [k \in DOMAIN payload[7].map |-> IF payload[7].map[k] = "marked" THEN "text" ELSE payload[7].map[k]]]]

-----------------------------------------------------------------------------
(* decodePaperSeal(), from the payload on *)

HasText(payload, f) == f \in DOMAIN payload /\ "text" \in DOMAIN payload[f]

\* The part of an accepted payload that came from the descriptor.
DescriptorOf(payload) ==
  [issuer |-> payload[2].text, document |-> payload[4].text, type |-> payload[5].text,
   issuedAt |-> payload[6].text, flat |-> TRUE, claims |-> Kept(payload[7].map),
   statusUrl |-> IF 8 \in DOMAIN payload THEN payload[8].text ELSE "absent"]

Accepted(payload) ==
  /\ DOMAIN payload \subseteq 1..10
  /\ \A f \in 2..5 : HasText(payload, f) /\ payload[f].text # "blank"
  /\ HasText(payload, 6)
  /\ 7 \in DOMAIN payload /\ "map" \in DOMAIN payload[7] /\ ValidClaims(payload[7].map)
  /\ 1 \in DOMAIN payload /\ payload[1] = [int |-> 1]
  /\ \A f \in DOMAIN payload \cap 8..10 : HasText(payload, f)
  /\ ValidDescriptor(DescriptorOf(payload), "production", FALSE)

\* matchesDescriptor(): the descriptor that a verifier expects is taken as it was given.
Matches(payload, expected) ==
  LET read == DescriptorOf(payload)
  IN  /\ read.issuer = expected.issuer /\ read.document = expected.document
      /\ read.type = expected.type /\ read.issuedAt = expected.issuedAt
      /\ read.statusUrl = expected.statusUrl
      /\ read.claims = expected.claims

-----------------------------------------------------------------------------
(* Properties *)

\* A descriptor survives its way through a seal: what was sealed by the rules of production can
\* be read, matches the descriptor it was made from and names the signer's key; and money in a
\* seal of the SDK has its currency beside it.  Outside: marked texts and claims named
\* __proto__, which do not survive, and local status URLs, which only issuers accept.
SealsReadAsIssued(d, signer, options) ==
  Sealable(d, signer, options) =>
    LET payload == Carried(Payload(d, signer, options))
    IN  /\ d.statusUrl # "local" => Accepted(payload)
        /\ payload[3].text = signer.key
        /\ "__proto__" \notin DOMAIN d.claims /\ (\A k \in DOMAIN d.claims : d.claims[k] # "marked")
             => Matches(payload, d)
        /\ Issuable(d, signer, options) => CurrencyStated(payload[7].map)

\* Whatever is accepted, an issuer could have sealed, and in this form only.
AcceptedCouldBeIssued(payload) ==
  Accepted(payload) /\ "__proto__" \notin DOMAIN payload[7].map /\ Size(payload) <= MaxSize =>
    LET d == DescriptorOf(payload)
        print == IF 10 \in DOMAIN payload THEN payload[10].text ELSE "absent"
        artifact == IF 9 \in DOMAIN payload THEN payload[9].text ELSE "absent"
        signer == [algorithm |-> "ES256", issuer |-> d.issuer, key |-> payload[3].text, print |-> print]
        options == [environment |-> "production", artifact |-> artifact, print |-> "absent"]
    IN  Sealable(d, signer, options) /\ Payload(d, signer, options) = payload
=============================================================================
