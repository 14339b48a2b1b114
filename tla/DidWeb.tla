------------------------------- MODULE DidWeb -------------------------------
(***************************************************************************)
(* The did:web resolver (createDidWebResolver() of packages/core/src/      *)
(* trust-policy.ts): from an issuer's DID and a key id to a key of the     *)
(* document the issuer's domain publishes, or nothing.                     *)
(*                                                                         *)
(* What is found, decoded or resolved is a set of at most one.  The DNS    *)
(* and the web server are the world a resolution runs in.                  *)
(***************************************************************************)
EXTENDS Integers, Sequences, SequencesExt

CONSTANTS
  PointSize,   \* the bytes of a compressed point: 33
  Coordinate   \* the bytes of a coordinate: 32

-----------------------------------------------------------------------------
(* resolveDidWebUrl() *)

\* A DID as split at its colons and decoded: a host with its labels and the port
\* it encodes, and path segments; a part of another kind is named for what is
\* wrong with it.
BadSegments == {"undecodable", "", ".", "..", "a/b"}

\* isAllowedDomain() on the labels of names: the domain itself or a name under
\* it.  A final dot is an empty last label.
AllowedDomain(labels, domains) == \E d \in domains : d # <<>> /\ IsSuffix(d, labels)

\* The URL of a DID's document: https on the default port, no credentials, no
\* query, no fragment.
UrlOf(did, domains) ==
  IF /\ did.method = "did:web"
     /\ did.host.kind = "name" /\ did.host.port \in {"none", "443"}
     /\ \A i \in DOMAIN did.path : did.path[i] \notin BadSegments
     /\ AllowedDomain(did.host.labels, domains)
  THEN {[host |-> did.host.labels, path |-> IF did.path = <<>> THEN <<".well-known">> ELSE did.path]}
  ELSE {}

-----------------------------------------------------------------------------
(* resolvesToPublicAddress() *)

PrivateIpv4(octets) ==
  LET a == octets[1]
      b == octets[2]
      c == octets[3]
  IN \/ a \in {0, 10, 127} \/ a >= 224
     \/ a = 169 /\ b = 254
     \/ a = 172 /\ b \in 16..31
     \/ a = 192 /\ b = 168
     \/ a = 100 /\ b \in 64..127
     \/ a = 192 /\ b = 0 /\ c \in {0, 2}
     \/ a = 198 /\ b \in {18, 19}
     \/ a = 198 /\ b = 51 /\ c = 100
     \/ a = 203 /\ b = 0 /\ c = 113

\* The text of an IPv6 address: numbers, hexadecimal or decimal as their place
\* tells, and what separates them.
Colon == -1
Dot == -2
Percent == -3
GroupValue == {n \in Nat : n <= 65535}

First(text, mark) == SelectInSeq(text, LAMBDA t : t = mark)
WithoutZone(text) == IF First(text, Percent) = 0 THEN text ELSE SubSeq(text, 1, First(text, Percent) - 1)

\* A dotted tail stands for two groups.
Undotted(text) ==
  LET cut == SelectLastInSeq(text, LAMBDA t : t = Colon)
      tail == SubSeq(text, cut + 1, Len(text))
  IN IF cut = 0 \/ First(tail, Dot) = 0 THEN {text}
     ELSE IF /\ Len(tail) = 7 /\ \A i \in {2, 4, 6} : tail[i] = Dot
             /\ \A i \in {1, 3, 5, 7} : tail[i] \in 0..255
          THEN {SubSeq(text, 1, cut) \o <<tail[1] * 256 + tail[3], Colon, tail[5] * 256 + tail[7]>>}
          ELSE {}

\* parseGroups(): the groups between single colons.
Groups(text) ==
  IF text = <<>> THEN {<<>>}
  ELSE IF Len(text) % 2 = 1 /\ \A i \in DOMAIN text : IF i % 2 = 1 THEN text[i] \in GroupValue ELSE text[i] = Colon
       THEN {[i \in 1..((Len(text) + 1) \div 2) |-> text[2 * i - 1]]} ELSE {}

\* Mutant: the groups a double colon leaves out are put at the end.
ZerosLast(left, right) == left \o right \o [i \in 1..(8 - Len(left) - Len(right)) |-> 0]

Filled(left, right) == left \o [i \in 1..(8 - Len(left) - Len(right)) |-> 0] \o right

Gaps(text) == {i \in 1..(Len(text) - 1) : text[i] = Colon /\ text[i + 1] = Colon}
GroupsAround(text, gap) ==
  UNION {{Filled(left, right) : left \in Groups(SubSeq(text, 1, gap - 1))} : right \in Groups(SubSeq(text, gap + 2, Len(text)))}

\* ipv6ToBytes(), in groups.
Ipv6Groups(text) ==
  LET read(t) == IF Gaps(t) = {} THEN Groups(t) ELSE UNION {GroupsAround(t, gap) : gap \in Gaps(t)}
  IN {groups \in UNION {read(t) : t \in Undotted(WithoutZone(text))} : Len(groups) = 8}

BytesOfGroups(groups) == [i \in 1..16 |-> IF i % 2 = 1 THEN groups[(i + 1) \div 2] \div 256 ELSE groups[i \div 2] % 256]

PrivateIpv6(bytes) ==
  LET zeros(n) == \A i \in 1..n : bytes[i] = 0
  IN \/ zeros(15) /\ bytes[16] \in {0, 1}
     \/ bytes[1] \in {252, 253, 255}
     \/ bytes[1] = 254 /\ bytes[2] \div 64 = 2
     \/ SubSeq(bytes, 1, 4) = <<32, 1, 13, 184>>
     \/ zeros(10) /\ bytes[11] = 255 /\ bytes[12] = 255 /\ PrivateIpv4(SubSeq(bytes, 13, 16))

\* An address that is neither is taken for a private one.
PrivateAddress(address) ==
  CASE address.family = 4 -> PrivateIpv4(address.octets)
    [] address.family = 6 -> \A groups \in Ipv6Groups(address.text) : PrivateIpv6(BytesOfGroups(groups))
    [] OTHER -> TRUE

\* Names are looked up before the request; an empty set is also a failure.
PublicAddresses(addresses) == addresses # {} /\ \A a \in addresses : ~PrivateAddress(a)

-----------------------------------------------------------------------------
(* readBoundedBody(): the sizes of the chunks, and the length declared, -1 when it is no number *)

TotalOf(chunks) == FoldLeft(LAMBDA sum, n : sum + n, 0, chunks)

\* A body longer than allowed is given up at the chunk that shows it.
BoundedBody(declared, chunks, max) ==
  declared \subseteq 0..max /\ \A i \in DOMAIN chunks : TotalOf(SubSeq(chunks, 1, i)) <= max

-----------------------------------------------------------------------------
(* extractPublicKey(): the forms of a key in a method *)

\* decodeBase58(): the bytes of the number the digits stand for, after a zero for
\* every leading digit zero.
DigitsOf(base, number) ==
  LET digits[n \in 0..number] == IF n = 0 THEN <<>> ELSE Append(digits[n \div base], n % base) IN digits[number]

Leading(zero, text) == LET n == SelectInSeq(text, LAMBDA t : t # zero) IN IF n = 0 THEN Len(text) ELSE n - 1
NumberOf(base, digits) == FoldLeft(LAMBDA sum, d : sum * base + d, 0, digits)

DecodeBase58(digits) ==
  IF digits = <<>> \/ \E i \in DOMAIN digits : digits[i] >= 58 THEN {}
  ELSE {[i \in 1..Leading(0, digits) |-> 0] \o DigitsOf(256, NumberOf(58, digits))}

DecodeHex(digits) ==
  IF digits = <<>> \/ Len(digits) % 2 = 1 \/ \E i \in DOMAIN digits : digits[i] >= 16 THEN {}
  ELSE {[i \in 1..(Len(digits) \div 2) |-> digits[2 * i - 1] * 16 + digits[2 * i]]}

\* keyFromJwk(): the coordinates as bytes, each of the right size.
JwkKey(jwk) ==
  IF jwk.crv = "P-256" /\ Len(jwk.x) = Coordinate /\ Len(jwk.y) = Coordinate
  THEN {<<4>> \o jwk.x \o jwk.y} ELSE {}

\* The prefix of a compressed P-256 key.
Codec == <<128, 36>>
WithoutCodec(bytes) ==
  IF Len(bytes) = PointSize + 2 /\ SubSeq(bytes, 1, 2) = Codec THEN SubSeq(bytes, 3, Len(bytes)) ELSE bytes

\* The first form there is; only a garbled JWK gives way to the next.  An absent
\* form is an empty set.
ExtractKey(method) ==
  LET jwk == UNION {JwkKey(j) : j \in method.jwk}
  IN CASE jwk # {} -> jwk
       [] jwk = {} /\ method.multibase # {} -> {WithoutCodec(b) : b \in UNION {DecodeBase58(Tail(t)) : t \in method.multibase}}
       [] jwk = {} /\ method.multibase = {} /\ method.base58 # {} -> UNION {DecodeBase58(t) : t \in method.base58}
       [] OTHER -> UNION {DecodeHex(t) : t \in method.hex}

-----------------------------------------------------------------------------
(* didDocumentSignerKey(); a reference is what stands before and after its mark *)

Fragment(reference) == reference.fragment

\* A key id without a fragment is one.
RequestedFragment(keyId) == IF Fragment(keyId) # "" THEN Fragment(keyId) ELSE keyId.base

Names(method, keyId) ==
  method.id = keyId \/ (RequestedFragment(keyId) # "" /\ Fragment(method.id) = RequestedFragment(keyId))

\* The first method the key id names.
SignerKey(document, did, keyId) ==
  LET first == SelectInSeq(document.methods, LAMBDA m : Names(m, keyId))
  IN IF document.id \subseteq {did.name} /\ first # 0 THEN ExtractKey(document.methods[first]) ELSE {}

-----------------------------------------------------------------------------
(* The resolver; a world says what each host's name resolves to and what each URL serves *)

Served(world, url) == IF url \in DOMAIN world.pages THEN {world.pages[url]} ELSE {}

Resolution(did, keyId, domains, world, max) ==
  UNION {UNION {
    IF page.ok /\ BoundedBody(page.declared, page.chunks, max) /\ page.json
    THEN {[issuer |-> did.name, keyId |-> keyId, url |-> url, publicKey |-> k] : k \in SignerKey(page.document, did, keyId)}
    ELSE {}
    : page \in IF PublicAddresses(world.dns) THEN Served(world, url) ELSE {}}
    : url \in UrlOf(did, domains)}

-----------------------------------------------------------------------------
(* Reference definitions *)

\* Blocks of addresses: first bytes and number of bits.  No public host has an
\* IPv4 address in one of the first, nor an IPv6 address in one of the second,
\* the scopes that the resolver has to refuse in any case: unspecified and
\* loopback, unique local, link-local, multicast, documentation.
Blocks4 == {<<<<0>>, 8>>, <<<<10>>, 8>>, <<<<100, 64>>, 10>>, <<<<127>>, 8>>, <<<<169, 254>>, 16>>, <<<<172, 16>>, 12>>,
            <<<<192, 0, 0>>, 24>>, <<<<192, 0, 2>>, 24>>, <<<<192, 168>>, 16>>, <<<<198, 18>>, 15>>,
            <<<<198, 51, 100>>, 24>>, <<<<203, 0, 113>>, 24>>, <<<<224>>, 3>>}
Blocks6 == {<<[i \in 1..16 |-> 0], 127>>, <<<<252>>, 7>>, <<<<254, 128>>, 10>>, <<<<255>>, 8>>, <<<<32, 1, 13, 184>>, 32>>}

InBlock(bytes, block) ==
  \A i \in 1..((block[2] + 7) \div 8) :
    LET unit == IF 8 * i <= block[2] THEN 1 ELSE 2 ^ (8 * i - block[2]) IN bytes[i] \div unit = block[1][i] \div unit
Mapped == [i \in 1..10 |-> 0] \o <<255, 255>>
Reserved4(octets) == \E block \in Blocks4 : InBlock(octets, block)
Reserved6(bytes) ==
  \/ \E block \in Blocks6 : InBlock(bytes, block)
  \/ IsPrefix(Mapped, bytes) /\ Reserved4(SubSeq(bytes, 13, 16))

\* What is public is told by the address plan and not by the resolver: an address
\* that carries an IPv4 address (compatible, mapped, translated or 6to4) is what
\* that one is, and any other is a global unicast one outside the blocks kept for
\* protocols and documentation.
Compatible == [i \in 1..12 |-> 0]
Translated == <<0, 100, 255, 155>> \o [i \in 1..8 |-> 0]
SixToFour == <<32, 2>>
Carried(bytes) ==
  {SubSeq(bytes, 13, 16) : prefix \in {p \in {Compatible, Mapped, Translated} : IsPrefix(p, bytes)}}
    \cup {SubSeq(bytes, 3, 6) : prefix \in {p \in {SixToFour} : IsPrefix(p, bytes)}}
GlobalUnicast == <<<<32>>, 3>>
KeptBlocks == {<<<<32, 1, 0>>, 23>>, <<<<32, 1, 13, 184>>, 32>>, <<<<63, 255, 0>>, 20>>}
Public6(bytes) ==
  IF Carried(bytes) # {} THEN \A octets \in Carried(bytes) : ~Reserved4(octets)
  ELSE InBlock(bytes, GlobalUnicast) /\ \A block \in KeptBlocks : ~InBlock(bytes, block)

PublicAddress(address) ==
  CASE address.family = 4 -> ~Reserved4(address.octets)
    [] address.family = 6 -> /\ Ipv6Groups(address.text) # {}
                             /\ \A groups \in Ipv6Groups(address.text) : Public6(BytesOfGroups(groups))
    [] OTHER -> FALSE

\* Every way to write eight groups down: with a double colon for any run of
\* zeros, with a dotted tail, with a zone.
Written(groups) == [i \in 1..(2 * Len(groups) - 1) |-> IF i % 2 = 1 THEN groups[(i + 1) \div 2] ELSE Colon]
Shortened(groups, r) == Written(SubSeq(groups, 1, r[1] - 1)) \o <<Colon, Colon>> \o Written(SubSeq(groups, r[2] + 1, 8))
Dotted(text, g, h) == SubSeq(text, 1, Len(text) - 3) \o <<g \div 256, Dot, g % 256, Dot, h \div 256, Dot, h % 256>>
Runs(groups, last) == {r \in (1..last) \X (1..last) : r[1] <= r[2] /\ \A i \in r[1]..r[2] : groups[i] = 0}
Spellings(groups) ==
  LET upTo(last) == {Written(groups)} \cup {Shortened(groups, r) : r \in Runs(groups, last)}
      plain == upTo(8) \cup {Dotted(t, groups[7], groups[8]) : t \in upTo(6)}
  IN plain \cup {t \o <<Percent, 1>> : t \in plain}

Base58(bytes) == [i \in 1..Leading(0, bytes) |-> 0] \o DigitsOf(58, NumberOf(256, bytes))
Hex(bytes) == [i \in 1..(2 * Len(bytes)) |-> IF i % 2 = 1 THEN bytes[(i + 1) \div 2] \div 16 ELSE bytes[i \div 2] % 16]

-----------------------------------------------------------------------------
(* Properties *)

\* An address is refused or not by its number, however it is written.  An IPv6
\* address of a scope that no public host has is refused, a mapped IPv4 address
\* among them, and one that is public by the address plan is not; an IPv4 address
\* is refused exactly when it is reserved.  This is less than the comment at
\* trust-policy.ts:246 asks for: what is neither passes, such as a site-local, an
\* IPv4-compatible, or a translated or 6to4 form of a private IPv4 address.
AddressIsJudgedByNumber(groups) ==
  LET bytes == BytesOfGroups(groups)
      octets == SubSeq(bytes, 13, 16)
      refused(text) == PrivateAddress([family |-> 6, text |-> text])
  IN /\ \A text \in Spellings(groups) : refused(text) <=> refused(Written(groups))
     /\ Reserved6(bytes) => refused(Written(groups))
     /\ Public6(bytes) => ~refused(Written(groups))
     /\ PrivateAddress([family |-> 4, octets |-> octets]) <=> Reserved4(octets)

\* A key reads back from each of its texts.
KeyTextsReadBack(bytes) ==
  /\ DecodeBase58(Base58(bytes)) = {bytes}
  /\ DecodeHex(Hex(bytes)) = {bytes}
  /\ Len(bytes) = PointSize =>
       ExtractKey([jwk |-> {}, multibase |-> {<<57>> \o Base58(Codec \o bytes)}, base58 |-> {}, hex |-> {}]) = {bytes}

\* What a domain's document publishes under a key id: the key of its one method
\* with this fragment.
Published(document, keyId) ==
  LET under == {i \in DOMAIN document.methods : Fragment(document.methods[i].id) = RequestedFragment(keyId)}
  IN UNION {ExtractKey(document.methods[i]) : i \in {i \in under : under = {i}}}

\* A resolved key is one the document under the DID's own name publishes, at an
\* allowed domain with no reserved address among its own, nor one that cannot be
\* read; and a key so published at public addresses, in a document whose methods
\* all have fragments, is found whichever way its id is written.
ResolvedAsPublished(did, keyId, domains, world, max) ==
  LET found == Resolution(did, keyId, domains, world, max)
      reserved(a) == CASE a.family = 4 -> Reserved4(a.octets)
                       [] a.family = 6 -> \/ Ipv6Groups(a.text) = {}
                                          \/ \E g \in Ipv6Groups(a.text) : Reserved6(BytesOfGroups(g))
                       [] OTHER -> TRUE
  IN /\ \A k \in found :
          /\ \E d \in domains : IsSuffix(d, k.url.host)
          /\ \A a \in world.dns : ~reserved(a)
          /\ k.issuer = did.name
          /\ \E i \in DOMAIN world.pages[k.url].document.methods :
               k.publicKey \in ExtractKey(world.pages[k.url].document.methods[i])
     /\ \A url \in UrlOf(did, domains) \cap DOMAIN world.pages :
          LET page == world.pages[url]
          IN (/\ page.ok /\ page.json /\ page.declared \subseteq {TotalOf(page.chunks)} /\ TotalOf(page.chunks) <= max
              /\ page.document.id = {did.name}
              /\ \A i \in DOMAIN page.document.methods : Fragment(page.document.methods[i].id) # ""
              /\ world.dns # {} /\ \A a \in world.dns : PublicAddress(a))
             => /\ Published(page.document, keyId) \subseteq {k.publicKey : k \in found}
                /\ {k.publicKey : k \in found} =
                     {k.publicKey : k \in Resolution(did, [base |-> did.name, fragment |-> RequestedFragment(keyId)], domains, world, max)}
=============================================================================
