------------------------------ MODULE MCCodecs ------------------------------
(***************************************************************************)
(* The formats of a seal and its binary form, and the functions that       *)
(* decide what comes in or goes out: the keys of a did:web document, a     *)
(* trust bundle, a request, a command, a line of the log.  A behaviour     *)
(* gives one of them one input.                                            *)
(***************************************************************************)
EXTENDS Decisions

SeqsUpTo(S, n) == UNION {[1..k -> S] : k \in 0..n}

-----------------------------------------------------------------------------
(* Base45: the boundaries 44/45 and 255/256 of a digit and a byte, 255 and 65535 of a group
   (the characters 30 5, and 15 16 32), and the blank *)

MCBinaries == SeqsUpTo(0..255, 2) \cup SeqsUpTo({0, 1, 44, 45, 100, 255}, MaxBinary + 1)
MCTexts == SeqsUpTo(0..46, 3) \cup SeqsUpTo({0, 15, 16, 32, 44, 45}, 6)

-----------------------------------------------------------------------------
(* CBOR: both sides of every form of a number, nesting and items up to one more than allowed *)

Numbers ==
  LET edges == {0, Inline - 1, Inline, Base - 1, Base, Base^2 - 1, Base^2, Base^4 - 1, Base^4, MaxSafe, MaxSafe + 1}
  IN  edges \cup {-1 - n : n \in edges \ {MaxSafe + 1}}
Units == {<<>>, <<1>>, <<1, 2>>, <<Mark>>, <<Mark, 1>>, <<1, 1, 1, 1, 1>>, [i \in 1..(MaxBytes + 1) |-> 1]}
Leaves ==
  {[int |-> n] : n \in Numbers} \cup {[text |-> u] : u \in Units} \cup {[bytes |-> u] : u \in Units}
    \cup {[bool |-> b] : b \in BOOLEAN}
Few == {[int |-> 0], [int |-> Inline], [int |-> -1], [text |-> <<1>>], [bytes |-> <<>>], [bool |-> TRUE]}
Keys == {[int |-> 0], [int |-> Base], [int |-> -1], [int |-> -1 - MaxSafe], [text |-> <<>>], [text |-> <<1, 2>>],
         [text |-> <<Mark>>], [bytes |-> <<1>>], [array |-> <<[int |-> 1]>>]}
ArraysOf(S) == {[array |-> s] : s \in SeqsUpTo(S, MaxItems + 1)}
MapsOf(K, S) == {[map |-> s] : s \in SeqsUpTo(K \X S, 2)}
Nested(S) == {[array |-> <<v>>] : v \in S} \cup {[map |-> <<<<v, [int |-> 0]>>>>] : v \in S}
Deep == Nested(Nested(Nested({[int |-> 1], [array |-> <<>>]})))
MCValues ==
  Leaves \cup ArraysOf(Few) \cup MapsOf(Keys, Few) \cup Deep
    \cup {[map |-> [i \in 1..3 |-> <<k[i], [int |-> i]>>]] : k \in [1..3 -> Keys]}

\* First bytes of every type, with numbers in them and after them; the lowest integer, which can
\* be read and not be written.
MCInputs ==
  SeqsUpTo({0, 3, 4, 5, 12, 16, 24, 25, 36, 37, 48, 49, 50, 60, 61, 62, 72, 84, 85, 95}, 4)
    \cup {<<Initial(5, 2)>> \o s : s \in [1..4 -> {0, 3, 12, 36, 84, 85}]}
    \cup {Encoding(v) : v \in Leaves} \cup {<<Initial(5, 1)>> \o Encoding(k) \o <<0>> : k \in Keys}
    \cup {<<Initial(0, Inline + 2)>> \o s : s \in [1..4 -> {0, 1, 2, 95}]}
    \cup {<<Initial(0, Inline + 3), 0, 0, 0>> \o s : s \in [1..5 -> {0, 1, 2, 95}]}

-----------------------------------------------------------------------------
(* Signatures: bytes on both sides of the sign bit, lengths in every form *)

MCRaws == [1..(2 * Width) -> {0, 127, 128}]
MCDers ==
  LET sizes(n) == {<<n>>, <<129, n>>, <<130, 0, n>>, <<n + 1>>}
      contents == SeqsUpTo({0, 127, 128}, 2) \cup {<<b>> \o [i \in 1..Width |-> 127] : b \in {0, 1}}
      numbers == {<<IntegerTag>> \o size \o c : <<size, c>> \in
                    UNION {sizes(Len(c)) \X {c} : c \in contents}}
      bodies == {r \o s : <<r, s>> \in numbers \X numbers}
  IN  {<<SequenceTag>> \o size \o body : <<size, body>> \in UNION {sizes(Len(body)) \X {body} : body \in bodies}}
        \cup {<<IntegerTag, 6, IntegerTag, 1, 1, IntegerTag, 1, 1>>,
              <<SequenceTag, 7, IntegerTag, 1, 1, IntegerTag, 1, 1, 0>>}

-----------------------------------------------------------------------------
(* Descriptors and payloads: every identity with every signer, and every two claims with the
   signer they name *)

GoodDescriptor ==
  [issuer |-> "acme", document |-> "acme", type |-> "acme", issuedAt |-> "instant",
   flat |-> TRUE, claims |-> [k \in {} |-> "text"], statusUrl |-> "https"]
SomeClaims == UNION {[keys -> ClaimValues] : keys \in {s \in SUBSET ClaimKeys : Cardinality(s) <= 2}}
ClaimDescriptors ==
  {[GoodDescriptor EXCEPT !.claims = c, !.statusUrl = u] : <<c, u>> \in SomeClaims \X {"absent", "https", "local"}}
Descriptors ==
  {[GoodDescriptor EXCEPT !.issuer = i, !.document = d, !.type = t] : <<i, d, t>> \in Identities \X Identities \X Identities}
    \cup {[GoodDescriptor EXCEPT !.issuedAt = i, !.flat = f, !.statusUrl = u] : <<i, f, u>> \in Instants \X BOOLEAN \X Urls}
Signers ==
  [algorithm : {"ES256", "ES384"}, issuer : {"acme", "globex"}, key : {"blank", "padded", "acme"}, print : {"absent", "p1"}]
Options == [environment : Environments, artifact : {"absent", "digest"}, print : {"absent", "p2"}]
MCSeals ==
  (Descriptors \X Signers \X Options)
    \cup (ClaimDescriptors \X {signer \in Signers : signer.issuer = "acme" /\ signer.key = "acme"} \X Options)
MCPayloads ==
  LET good == Payload(GoodDescriptor, [key |-> "acme", print |-> "p1"], [artifact |-> "digest", print |-> "absent"])
      values(f) == {[int |-> 1], [int |-> 2]}
                     \cup {Text(x) : x \in {"blank", "padded", "acme", "nonsense", "instant", "https", "http", "local"}}
                     \cup (IF f = 7 THEN {[map |-> c] : c \in SomeClaims} ELSE {[map |-> [k \in {} |-> "text"]]})
  IN  {[good EXCEPT ![f] = v] : <<f, v>> \in UNION {{f} \X values(f) : f \in 1..10}}
        \cup {Restrict(good, fields) : fields \in SUBSET (1..10)}
        \cup {[f \in DOMAIN good \cup {11} |-> IF f = 11 THEN Text("acme") ELSE good[f]]}

-----------------------------------------------------------------------------
(* Envelopes: everything that may have become of each item of an object, one or two at a time *)

CoseSigners == [algorithm : {"ES256", "ES384"}, keyId : {"k1", "k2", "", "blank"}, key : {"m1"}]
Headers(ids) ==
  LET values == {Cose!Algorithm("ES256"), Cose!Algorithm("ES384"), Cose!Other} \cup {Cose!Bytes(i) : i \in ids}
                  \cup {Cose!List(l) : l \in {<<>>, <<1>>, <<1, 5>>}}
  IN {h @@ more : <<h, more>> \in (UNION {[labels -> values] : labels \in SUBSET Cose!Reserved}) \X {Cose!NoHeaders, 5 :> Cose!Other}}
ChangedObjects ==
  LET made == Cose!Created([algorithm |-> "ES256", keyId |-> "k1", key |-> "m1"], "p1")
      ids == {"k1", "k2", "marked", "garbled", "blank", ""}
  IN {[made EXCEPT !.protected = h, !.maps = b] : <<h, b>> \in Headers(ids) \X BOOLEAN}
       \cup {[made EXCEPT !.unprotected = h, !.payload = p] : <<h, p>> \in
               Headers({"k2"}) \X {Cose!Bytes("p1"), Cose!Bytes("p2"), Cose!Other}}
       \cup {[made EXCEPT !.signature = s] : s \in {Cose!Other, [made.signature EXCEPT !.size = 63], [made.signature EXCEPT !.by = "m2"]}}
KeyStores == UNION {[ids -> {"m1", "m2"}] : ids \in SUBSET {"k1", "k2"}}
MCEnvelopes ==
  {<<s, Cose!Created(t, "p1"), k>> : <<s, t, k>> \in CoseSigners \X CoseSigners \X KeyStores}
    \cup {<<[algorithm |-> "ES256", keyId |-> "k1", key |-> "m1"], o, k>> : <<o, k>> \in ChangedObjects \X KeyStores}

-----------------------------------------------------------------------------
(* did:web: addresses on both sides of every block, in both families; keys; documents and worlds *)

Edges == {a * 256 + b : <<a, b>> \in {0, 9, 10, 11, 99, 100, 127, 169, 172, 192, 198, 203, 223, 224, 255}
                                      \X {0, 1, 15, 16, 18, 20, 31, 32, 51, 63, 64, 127, 128, 168, 254}}
\* 192.0.c, 198.51.c and 203.0.c, with their neighbours, and what c may be.
ThirdByteDecides == {49151, 49152, 49153, 50738, 50739, 50740, 51967, 51968, 51969}
Lows == {0, 1, 256, 512, 768, 25600, 28928}
Heads == {<<a, b>> : <<a, b>> \in {0, 8193, 64511, 64512, 65152, 65215, 65216, 65280} \X {0, 3512}}
           \cup {<<100, 65435>>, <<8191, 65535>>, <<8194, 2560>>, <<8194, 2048>>, <<8193, 511>>, <<8193, 512>>, <<9734, 10240>>,
                 <<16382, 65535>>, <<16383, 4095>>, <<16383, 4096>>, <<16384, 0>>}
MCAddresses ==
  {<<0, 0, 0, 0, 0, 65535, hi, lo>> : <<hi, lo>> \in (Edges \X {0, 1}) \cup (ThirdByteDecides \X Lows)}
    \cup {h \o <<0, 0, mid, 0>> \o l : <<h, mid, l>> \in Heads \X {0, 1, 65535} \X {<<0, 0>>, <<0, 1>>, <<0, 2>>, <<2560, 1>>, <<258, 0>>}}

MCKeyBytes == SeqsUpTo({0, 1, 57, 58, 255}, 3) \ {<<>>}

Ref(base, frag) == [base |-> base, fragment |-> frag]
Method(id, key) == [id |-> id, jwk |-> {}, multibase |-> {}, base58 |-> {}, hex |-> {Web!Hex(key)}]
Methods ==
  {Method(Ref(b, f), k) : <<b, f, k>> \in {"did1", "did2", ""} \X {"k1", "k2"} \X {<<1>>, <<2>>}} \cup {Method(Ref("k1", ""), <<3>>)}
    \cup {[Method(Ref("did1", "k1"), <<1>>) EXCEPT !.jwk = j, !.multibase = m, !.base58 = b] : <<j, m, b>> \in
            {{}, {[crv |-> "P-256", x |-> <<7>>, y |-> <<8>>]}, {[crv |-> "P-384", x |-> <<7>>, y |-> <<8>>]}, {[crv |-> "P-256", x |-> <<7, 7>>, y |-> <<8>>]}}
              \X {{}, {<<57>> \o Web!Base58(Web!Codec \o <<5>>)}, {<<57, 58>>}, {<<57>>}} \X {{}, {Web!Base58(<<4, 4>>)}, {<<>>}}}
Addressed == {[family |-> 4, octets |-> <<93, 184, 216, 34>>], [family |-> 4, octets |-> <<10, 0, 0, 1>>], [family |-> 0],
              [family |-> 6, text |-> <<9734, -1, 10240, -1, -1, 1>>], [family |-> 6, text |-> <<-1, -1, 65535, -1, 10, -2, 0, -2, 0, -2, 1>>],
              [family |-> 6, text |-> <<65152, -1, -1, 1, -3, 1>>]}
GoodDid == [method |-> "did:web", host |-> [kind |-> "name", labels |-> <<"a", "com">>, port |-> "none"], path |-> <<>>, name |-> "did1"]
GoodPage == [ok |-> TRUE, json |-> TRUE, declared |-> {}, chunks |-> <<1, 1>>,
             document |-> [id |-> {"did1"}, methods |-> <<Method(Ref("did1", "k1"), <<1>>)>>]]
Dids ==
  {[GoodDid EXCEPT !.method = m, !.host = [kind |-> k, labels |-> l, port |-> p]] : <<m, k, l, p>> \in
     {"did:web", "did:key"} \X {"name", "literal", "separator", "empty", "undecodable"}
       \X {<<"a", "com">>, <<"b", "a", "com">>, <<"com">>, <<"b", "com">>, <<"a", "com", "">>} \X {"none", "443", "8443"}}
    \cup {[GoodDid EXCEPT !.path = p] : p \in SeqsUpTo(Web!BadSegments \cup {"x"}, 2)}
WorldOf(dns, page, did) ==
  [dns |-> dns, pages |-> [url \in Web!UrlOf(did, {<<"a", "com">>}) \cup Web!UrlOf(GoodDid, {<<"a", "com">>}) |-> page]]
Pages ==
  {[GoodPage EXCEPT !.ok = o, !.json = j, !.declared = d, !.chunks = c] : <<o, j, d, c>> \in
     BOOLEAN \X BOOLEAN \X {{}, {-1}, {2}, {3}, {4}} \X SeqsUpTo({0, 1, 3}, 3)}
    \cup {[GoodPage EXCEPT !.document = [id |-> i, methods |-> m]] : <<i, m>> \in {{}, {"did1"}, {"did2"}} \X SeqsUpTo(Methods, 2)}
KeyIds == {Ref("k1", ""), Ref("did1", "k1"), Ref("did2", "k1"), Ref("", "k1"), Ref("k2", "")}
Allowed == {{}, {<<"a", "com">>}, {<<"com">>, <<>>}}
MCResolutions ==
  {<<d, Ref("k1", ""), a, WorldOf({[family |-> 4, octets |-> <<93, 184, 216, 34>>]}, GoodPage, d)>> : <<d, a>> \in Dids \X Allowed}
    \cup {<<GoodDid, Ref("k1", ""), {<<"com">>}, WorldOf(s, GoodPage, GoodDid)>> : s \in SUBSET Addressed}
    \cup {<<GoodDid, k, {<<"com">>}, WorldOf({[family |-> 4, octets |-> <<93, 184, 216, 34>>]}, p, GoodDid)>> : <<k, p>> \in KeyIds \X Pages}

-----------------------------------------------------------------------------
(* Trust bundles: every shape of each part of two files, and of the files *)

KeyEntries == {[issuer |-> "i1", keyId |-> "k1", key |-> "m1"], [issuer |-> "i1", keyId |-> "k1", key |-> "m2"], [issuer |-> "i1", keyId |-> "k2", key |-> "m1"]}
PartsOf(S) == {Disk!Absent, Disk!NoArray} \cup {Disk!Entries(s) : s \in SeqsUpTo(S, 2)}
Plain == [keys |-> Disk!Absent, x509Anchors |-> Disk!Absent, didWebDomains |-> Disk!Absent, allowedDidWebDomains |-> Disk!Absent, developmentOnly |-> FALSE]
OneKey == Disk!Entries(<<[issuer |-> "i1", keyId |-> "k1", key |-> "m1"]>>)
Contents ==
  {[Plain EXCEPT !.keys = k, !.developmentOnly = d] : <<k, d>> \in PartsOf(KeyEntries \cup {Disk!Bad}) \X BOOLEAN}
    \cup {[Plain EXCEPT !.x509Anchors = a, !.didWebDomains = w, !.allowedDidWebDomains = o] : <<a, w, o>> \in
            {Disk!Absent, Disk!NoArray, OneKey} \X {Disk!Absent, Disk!NoArray, Disk!Entries(<<[domain |-> "a"]>>)}
              \X {Disk!Absent, Disk!Entries(<<[domain |-> "b"]>>), Disk!Entries(<<Disk!Bad>>)}}
FileOf(content) == [named |-> TRUE, regular |-> TRUE, size |-> 2, object |-> TRUE, json |-> content]
OddFiles ==
  {[FileOf([Plain EXCEPT !.keys = OneKey]) EXCEPT !.named = n, !.regular = r, !.size = s, !.object = o] :
     <<n, r, s, o>> \in BOOLEAN \X BOOLEAN \X (1..4) \X BOOLEAN}
MCBundles ==
  {[kind |-> k, files |-> <<FileOf(c)>>] : <<k, c>> \in {"file", "missing"} \X Contents}
    \cup {[kind |-> "directory", files |-> <<FileOf(c), FileOf(d)>>] : <<c, d>> \in Contents \X Contents}
    \cup {[kind |-> "directory", files |-> s] : s \in SeqsUpTo({f \in OddFiles : f.size \in {2, 3}}, 3)}
    \cup {[kind |-> "directory", files |-> s] : s \in SeqsUpTo(OddFiles, 2)}

-----------------------------------------------------------------------------
(* Requests, at the limit of every kind and one over it; bodies cut off after what came *)

RequestsBy(methods, paths, origins, fates, size, stated) ==
  [method : methods, path : paths, origin : origins, type : Shell!Types, declared : {{}, {-1}, {stated}},
   body : [shows : Shell!Shows, size : {size}], fate : fates]
MCRequests ==
  LET paths == Shell!VerifyRoutes \cup Shell!PlainRoutes \cup {"/v1/other"}
      failing == {"throws", "late"}
  IN UNION {
       RequestsBy({"GET", "POST", "OPTIONS"}, paths, {"none", "own", "listed", "foreign"}, {"verdict"}, size, size)
         \cup RequestsBy({"POST"}, paths, {"none"}, failing, size, size) : size \in 0..4}
     \cup UNION {RequestsBy({"POST"}, Shell!VerifyRoutes, {"none"}, Shell!Cut, n[1], n[2]) :
                   n \in {m \in (0..4) \X (0..4) : m[1] <= m[2]}}
     \cup RequestsBy({"GET"}, {"/", "/health"}, {"none"}, failing, 0, 0)
     \cup RequestsBy({"POST"}, {"/v1/verify"}, {"foreign"}, Shell!Fates, 1, 1)

-----------------------------------------------------------------------------
(* Command lines: every argument for itself, in any place and twice, over a disk with a file of
   every kind *)

On(ends, shows, size, holds) == <<[n |-> size, ends |-> ends, shows |-> shows, holds |-> holds],
                                  [regular |-> TRUE, shows |-> shows, size |-> size, holds |-> holds]>>
OnDisk ==
  {On(".pdf", "pdf", 3, "no-json"), On(".pdf", "pdf", 4, "no-json"), On(".pdf", "text", 0, "no-json"), On(".png", "png", 2, "no-json"),
   On(".png", "pdf", 3, "no-json"), On(".txt", "crd1", 1, "no-json"), On(".txt", "crd1", 2, "no-json"), On("", "crd1", 1, "no-json"),
   On(".json", "text", 1, "descriptor"), On(".json", "text", 1, "JSON"), On(".json", "text", 2, "descriptor"),
   On(".json", "text", 2, "trust"), On(".pem", "text", 1, "certificate")}
MCFiles == [name \in {f[1] : f \in OnDisk} \cup {[ends |-> "directory"]} |->
             IF name.ends = "directory" THEN [regular |-> FALSE, shows |-> "text", size |-> 1, holds |-> "trust"]
             ELSE (CHOOSE f \in OnDisk : f[1] = name)[2]]
Given == {Shell!Path(f) : f \in DOMAIN MCFiles \cup {[ends |-> "missing"]}} \cup {Shell!SealText([shows |-> "crd1", size |-> n]) : n \in 1..2}
InputsGiven == {<<g>> : g \in Given}
Lines(parts, n) == {FlattenSeq(s) : s \in SeqsUpTo(parts, n)}
OptionValues == {g \in Given : "path" \in DOMAIN g /\ g.path \in DOMAIN MCFiles /\ MCFiles[g.path].holds \in {"descriptor", "JSON", "trust"}}
OptionsGiven == {<<Shell!Named(o), v>> : <<o, v>> \in {"--trust", "--descriptor", "--out"} \X OptionValues}
ArgumentLists ==
  Lines(InputsGiven \cup {<<Shell!Named(o)>> : o \in {"--trust", "--descriptor", "--out", "--other"}}, 2)
    \cup {p \o l \o r : <<p, l, r>> \in Lines(OptionsGiven, 1) \X InputsGiven \X Lines(OptionsGiven, 1)}
    \cup Lines(OptionsGiven, 2)
MCCommandLines == {"verify", "paper-inspect", "seal-pdf", "key-inspect", "dev-ca-init", "other"} \X ArgumentLists

-----------------------------------------------------------------------------
(* Fields of a log, three deep *)

LogLeaves == {[text |-> "uuid"], [text |-> "secret"], [bytes |-> "document"]}
FieldsOf(S) == {[fields |-> f] : f \in SeqsUpTo(LogKeys \X S, 1)}
LogValues(S) == FieldsOf(S) \cup {[list |-> l] : l \in SeqsUpTo(S, 1)}
MCLogFields ==
  FieldsOf(LogLeaves \cup LogValues(LogLeaves) \cup LogValues(LogValues(LogLeaves)))
    \cup {[fields |-> <<<<"correlationId", v>>, <<"route", w>>>>] : <<v, w>> \in (LogLeaves \cup LogValues(LogLeaves)) \X (LogLeaves \cup LogValues(LogLeaves))}
=============================================================================
