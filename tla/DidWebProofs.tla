----------------------------- MODULE DidWebProofs -----------------------------
(***************************************************************************)
(* What the did:web resolver promises for every address, key and           *)
(* resolution, and so, with the trust bundles of DecisionsProofs, that     *)
(* trust material is as it was published.                                  *)
(***************************************************************************)
EXTENDS DecisionsProofs

-----------------------------------------------------------------------------
(* Addresses a resolver keeps away from (trust-policy.ts) *)

\* A block as what it asks of each of the first bytes.
Unit(i, bits) == IF 8 * i <= bits THEN 1 ELSE 2 ^ (8 * i - bits)

\* An address is in a block when the bytes that the block fixes agree.
LEMMA InBlockIs ==
  ASSUME NEW bytes, NEW block
  PROVE  Web!InBlock(bytes, block) <=>
           \A i \in 1..((block[2] + 7) \div 8) : bytes[i] \div Unit(i, block[2]) = block[1][i] \div Unit(i, block[2])
BY DEF Web!InBlock, Unit

\* A block of up to eight bits fixes one byte.
LEMMA OneByteBlock ==
  ASSUME NEW bytes, NEW first, NEW bits, bits \in 1..8
  PROVE  Web!InBlock(bytes, <<first, bits>>) <=> bytes[1] \div Unit(1, bits) = first[1] \div Unit(1, bits)
<1>1. (<<first, bits>>[2] + 7) \div 8 = 1 /\ <<first, bits>>[1] = first /\ <<first, bits>>[2] = bits
  OBVIOUS
<1>2. \A i : i \in 1..1 <=> i = 1
  OBVIOUS
<1> QED BY <1>1, <1>2, InBlockIs

\* A block of up to sixteen bits fixes two.
LEMMA TwoBytes ==
  ASSUME NEW bytes, NEW first, NEW bits, bits \in 9..16
  PROVE  Web!InBlock(bytes, <<first, bits>>) <=>
           bytes[1] \div 1 = first[1] \div 1 /\ bytes[2] \div Unit(2, bits) = first[2] \div Unit(2, bits)
<1>1. (<<first, bits>>[2] + 7) \div 8 = 2 /\ <<first, bits>>[1] = first /\ <<first, bits>>[2] = bits
  OBVIOUS
<1>2. \A i : i \in 1..2 <=> i = 1 \/ i = 2
  OBVIOUS
<1>3. Unit(1, bits) = 1
  BY DEF Unit
<1> QED BY <1>1, <1>2, <1>3, InBlockIs

\* A block of 24 bits fixes three.
LEMMA ThreeBytes ==
  ASSUME NEW bytes, NEW first
  PROVE  Web!InBlock(bytes, <<first, 24>>) <=>
           bytes[1] \div 1 = first[1] \div 1 /\ bytes[2] \div 1 = first[2] \div 1 /\ bytes[3] \div 1 = first[3] \div 1
<1>1. (<<first, 24>>[2] + 7) \div 8 = 3 /\ <<first, 24>>[1] = first /\ <<first, 24>>[2] = 24
  OBVIOUS
<1>2. \A i : i \in 1..3 <=> i = 1 \/ i = 2 \/ i = 3
  OBVIOUS
<1>3. Unit(1, 24) = 1 /\ Unit(2, 24) = 1 /\ Unit(3, 24) = 1
  BY DEF Unit
<1> QED BY <1>1, <1>2, <1>3, InBlockIs

\* What of a byte the blocks' lengths leave open.
LEMMA Units ==
  /\ Unit(1, 8) = 1 /\ Unit(1, 7) = 2 /\ Unit(1, 3) = 32
  /\ Unit(2, 16) = 1 /\ Unit(2, 15) = 2 /\ Unit(2, 12) = 16 /\ Unit(2, 10) = 64
BY DEF Unit

\* The bytes of an address.
Address(n) == [1..n -> 0..255]

\* Where nothing of a byte is left open, all of it counts.
LEMMA Whole == \A b \in 0..255 : b \div 1 = b
OBVIOUS

\* The blocks of isPrivateIpv4() are the reserved IPv4 addresses.
LEMMA Ipv4Blocks ==
  ASSUME NEW o \in Address(4)
  PROVE  Web!PrivateIpv4(o) <=> Web!Reserved4(o)
<1> DEFINE a == o[1]
           b == o[2]
           c == o[3]
<1>0. a \in 0..255 /\ b \in 0..255 /\ c \in 0..255
  BY DEF Address
<1> HIDE DEF a, b, c
<1>1. /\ Web!InBlock(o, <<<<0>>, 8>>) <=> a = 0
      /\ Web!InBlock(o, <<<<10>>, 8>>) <=> a = 10
      /\ Web!InBlock(o, <<<<127>>, 8>>) <=> a = 127
      /\ Web!InBlock(o, <<<<224>>, 3>>) <=> a >= 224
  BY <1>0, OneByteBlock, Units DEF a
<1>2. Web!InBlock(o, <<<<100, 64>>, 10>>) <=> a = 100 /\ b \in 64..127
  BY <1>0, TwoBytes, Units DEF a, b
<1>3. Web!InBlock(o, <<<<169, 254>>, 16>>) <=> a = 169 /\ b = 254
  BY <1>0, TwoBytes, Units DEF a, b
<1>4. Web!InBlock(o, <<<<172, 16>>, 12>>) <=> a = 172 /\ b \in 16..31
  BY <1>0, TwoBytes, Units DEF a, b
<1>5. Web!InBlock(o, <<<<192, 168>>, 16>>) <=> a = 192 /\ b = 168
  BY <1>0, TwoBytes, Units DEF a, b
<1>6. Web!InBlock(o, <<<<198, 18>>, 15>>) <=> a = 198 /\ b \in {18, 19}
  BY <1>0, TwoBytes, Units DEF a, b
<1>7. /\ Web!InBlock(o, <<<<192, 0, 0>>, 24>>) <=> a = 192 /\ b = 0 /\ c = 0
      /\ Web!InBlock(o, <<<<192, 0, 2>>, 24>>) <=> a = 192 /\ b = 0 /\ c = 2
      /\ Web!InBlock(o, <<<<198, 51, 100>>, 24>>) <=> a = 198 /\ b = 51 /\ c = 100
      /\ Web!InBlock(o, <<<<203, 0, 113>>, 24>>) <=> a = 203 /\ b = 0 /\ c = 113
  BY <1>0, ThreeBytes DEF a, b, c
<1>8. Web!PrivateIpv4(o) <=>
        \/ a \in {0, 10, 127} \/ a >= 224
        \/ a = 169 /\ b = 254
        \/ a = 172 /\ b \in 16..31
        \/ a = 192 /\ b = 168
        \/ a = 100 /\ b \in 64..127
        \/ a = 192 /\ b = 0 /\ c \in {0, 2}
        \/ a = 198 /\ b \in {18, 19}
        \/ a = 198 /\ b = 51 /\ c = 100
        \/ a = 203 /\ b = 0 /\ c = 113
  BY DEF Web!PrivateIpv4, a, b, c
<1> DEFINE b1 == <<<<0>>, 8>>
           b2 == <<<<10>>, 8>>
           b3 == <<<<100, 64>>, 10>>
           b4 == <<<<127>>, 8>>
           b5 == <<<<169, 254>>, 16>>
           b6 == <<<<172, 16>>, 12>>
           b7 == <<<<192, 0, 0>>, 24>>
           b8 == <<<<192, 0, 2>>, 24>>
           b9 == <<<<192, 168>>, 16>>
           b10 == <<<<198, 18>>, 15>>
           b11 == <<<<198, 51, 100>>, 24>>
           b12 == <<<<203, 0, 113>>, 24>>
           b13 == <<<<224>>, 3>>
<1>9. Web!Blocks4 = {b1, b2, b3, b4, b5, b6, b7, b8, b9, b10, b11, b12, b13}
  BY DEF Web!Blocks4
<1> HIDE DEF b1, b2, b3, b4, b5, b6, b7, b8, b9, b10, b11, b12, b13
<1>10. Web!Reserved4(o) <=>
        \/ Web!InBlock(o, b1) \/ Web!InBlock(o, b2) \/ Web!InBlock(o, b3) \/ Web!InBlock(o, b4)
        \/ Web!InBlock(o, b5) \/ Web!InBlock(o, b6) \/ Web!InBlock(o, b7) \/ Web!InBlock(o, b8)
        \/ Web!InBlock(o, b9) \/ Web!InBlock(o, b10) \/ Web!InBlock(o, b11) \/ Web!InBlock(o, b12)
        \/ Web!InBlock(o, b13)
  BY <1>9 DEF Web!Reserved4
<1> QED BY <1>1, <1>2, <1>3, <1>4, <1>5, <1>6, <1>7, <1>8, <1>10
     DEF b1, b2, b3, b4, b5, b6, b7, b8, b9, b10, b11, b12, b13

\* The bytes of an address are a sequence of bytes.
LEMMA OctetsAreBytes == ASSUME NEW n \in Nat, NEW o \in Address(n) PROVE o \in Seq(0..255) /\ Len(o) = n
BY Sequence DEF Address

\* The last four bytes of an IPv6 address.
LEMMA Ipv4Part ==
  ASSUME NEW bytes \in Address(16)
  PROVE  SubSeq(bytes, 13, 16) \in Address(4)
<1>1. bytes \in Seq(0..255) /\ Len(bytes) = 16
  BY OctetsAreBytes
<1> DEFINE c == SubSeq(bytes, 13, 16)
<1>2. IsCut(c, bytes, 12, 16, 0..255)
  <2>1. 13 = 12 + 1 /\ 12 <= 16 /\ 16 <= Len(bytes) /\ 13 \in Nat /\ 12 \in Nat /\ 16 \in Nat
    BY <1>1
  <2> QED BY <1>1, <2>1, Cut
<1>3. c \in Seq(0..255) /\ Len(c) = 4
  BY <1>2 DEF IsCut
<1> HIDE DEF c
<1>4. c \in [1..4 -> 0..255]
  <2>1. DOMAIN c = 1..4 /\ \A i \in 1..4 : c[i] \in 0..255
    BY <1>3, LenProperties, ElementOfSeq
  <2>2. c = [i \in 1..4 |-> c[i]]
    BY <1>3, <2>1
  <2> QED BY <2>1, <2>2
<1> QED BY <1>4 DEF Address, c

\* The first bytes of an IPv6 address.
LEMMA FirstOf ==
  ASSUME NEW bytes \in Address(16), NEW n \in 1..16
  PROVE  SubSeq(bytes, 1, n) \in Seq(0..255) /\ Len(SubSeq(bytes, 1, n)) = n /\ \A i \in 1..n : SubSeq(bytes, 1, n)[i] = bytes[i]
<1>1. bytes \in Seq(0..255) /\ Len(bytes) = 16
  BY OctetsAreBytes
<1> DEFINE c == SubSeq(bytes, 1, n)
<1>2. IsCut(c, bytes, 0, n, 0..255)
  <2>1. 1 = 0 + 1 /\ 0 <= n /\ n <= Len(bytes) /\ 1 \in Nat /\ 0 \in Nat /\ n \in Nat
    BY <1>1
  <2> QED BY <1>1, <2>1, Cut
<1> HIDE DEF c
<1>3. c \in Seq(0..255) /\ Len(c) = n
  BY <1>2 DEF IsCut
<1>4. \A i \in 1..n : c[i] = bytes[i]
  <2> TAKE i \in 1..n
  <2>1. i \in 1..(n - 0) /\ 0 + i = i
    OBVIOUS
  <2> QED BY <1>2, <2>1 DEF IsCut
<1> QED BY <1>3, <1>4 DEF c

\* An address that stands for an IPv4 address begins with ten zeros and two bytes of ones.
LEMMA MappedIs ==
  ASSUME NEW bytes \in Address(16)
  PROVE  Web!IsPrefix(Web!Mapped, bytes) <=> (\A i \in 1..10 : bytes[i] = 0) /\ bytes[11] = 255 /\ bytes[12] = 255
<1> DEFINE m == Web!Mapped
           zeros == [i \in 1..10 |-> 0]
           tail == <<255, 255>>
           c == SubSeq(bytes, 1, 12)
<1>1. zeros \in Seq(0..255) /\ Len(zeros) = 10 /\ \A i \in 1..10 : zeros[i] = 0
  BY Sequence
<1>2. tail \in Seq(0..255) /\ Len(tail) = 2 /\ tail[1] = 255 /\ tail[2] = 255
  OBVIOUS
<1>3. m = zeros \o tail
  BY DEF Web!Mapped
<1>a. Len(bytes) = 16
  BY OctetsAreBytes
<1> HIDE DEF m, zeros, tail
<1> DEFINE B == 0..255
<1>c. IsConcat(m, zeros, 10, tail, 2, B)
  <2>1. zeros \in Seq(B) /\ Len(zeros) = 10 /\ tail \in Seq(B) /\ Len(tail) = 2
    BY <1>1, <1>2
  <2> HIDE DEF B
  <2>2. IsConcat(zeros \o tail, zeros, 10, tail, 2, B)
    BY <2>1, Concat
  <2> QED BY <2>2, <1>3
<1>4. m \in Seq(0..255) /\ Len(m) = 12
  <2>1. 10 + 2 = 12
    OBVIOUS
  <2> QED BY <1>c, <2>1 DEF IsConcat
<1>5. (\A i \in 1..10 : m[i] = 0) /\ m[11] = 255 /\ m[12] = 255
  <2>1. 1 \in 1..2 /\ 2 \in 1..2 /\ 10 + 1 = 11 /\ 10 + 2 = 12
    OBVIOUS
  <2>2. m[11] = tail[1] /\ m[12] = tail[2]
    BY <1>c, <2>1 DEF IsConcat
  <2>3. \A i \in 1..10 : m[i] = zeros[i]
    BY <1>c DEF IsConcat
  <2>4. \A i \in 1..10 : m[i] = 0
    BY <1>1, <2>3
  <2>5. m[11] = 255 /\ m[12] = 255
    BY <1>2, <2>2
  <2> QED BY <2>4, <2>5
<1>6. c \in Seq(0..255) /\ Len(c) = 12 /\ \A i \in 1..12 : c[i] = bytes[i]
  <2>1. 12 \in 1..16
    OBVIOUS
  <2> QED BY <2>1, FirstOf
<1>7. SubSeq(m, 1, 12) = m
  BY <1>4, SubSeqFull
<1>8. Web!IsPrefix(m, bytes) <=> m = c
  <2>1. Web!IsPrefix(m, bytes) <=> Len(m) <= Len(bytes) /\ SubSeq(m, 1, Len(m)) = SubSeq(bytes, 1, Len(m))
    BY DEF Web!IsPrefix
  <2>2. Len(m) = 12 /\ 12 <= Len(bytes)
    BY <1>4, <1>a
  <2>3. Web!IsPrefix(m, bytes) <=> SubSeq(m, 1, 12) = SubSeq(bytes, 1, 12)
    BY <2>1, <2>2
  <2> QED BY <1>7, <2>3
<1> HIDE DEF c
<1>9. m = c <=> \A i \in 1..12 : m[i] = c[i]
  BY <1>4, <1>6, SeqEqual, SMTT(30)
<1>10. (\A i \in 1..12 : m[i] = c[i]) <=> (\A i \in 1..10 : bytes[i] = 0) /\ bytes[11] = 255 /\ bytes[12] = 255
  <2>1. \A i \in 1..12 : i \in 1..10 \/ i = 11 \/ i = 12
    OBVIOUS
  <2>2. 11 \in 1..12 /\ 12 \in 1..12 /\ \A i \in 1..10 : i \in 1..12
    OBVIOUS
  <2>3. ASSUME \A i \in 1..12 : m[i] = c[i] PROVE (\A i \in 1..10 : bytes[i] = 0) /\ bytes[11] = 255 /\ bytes[12] = 255
    <3>1. \A i \in 1..10 : bytes[i] = 0
      BY <1>5, <1>6, <2>2, <2>3, SMTT(30)
    <3>2. bytes[11] = 255 /\ bytes[12] = 255
      BY <1>5, <1>6, <2>2, <2>3
    <3> QED BY <3>1, <3>2
  <2>4. ASSUME \A i \in 1..10 : bytes[i] = 0, bytes[11] = 255, bytes[12] = 255 PROVE \A i \in 1..12 : m[i] = c[i]
    <3>1. \A i \in 1..10 : m[i] = bytes[i]
      BY <1>5, <2>4
    <3>2. m[11] = bytes[11] /\ m[12] = bytes[12]
      BY <1>5, <2>4
    <3>3. \A i \in 1..12 : m[i] = bytes[i]
      BY <2>1, <3>1, <3>2
    <3> QED BY <1>6, <3>3
  <2> QED BY <2>3, <2>4
<1> QED BY <1>8, <1>9, <1>10 DEF m

\* The block kept for documentation is told by its four bytes.
LEMMA DocumentationBlock ==
  ASSUME NEW bytes \in Address(16)
  PROVE  Web!InBlock(bytes, <<<<32, 1, 13, 184>>, 32>>) <=> SubSeq(bytes, 1, 4) = <<32, 1, 13, 184>>
<1> DEFINE b5 == <<<<32, 1, 13, 184>>, 32>>
<1>0. \A i \in 1..16 : bytes[i] \in 0..255
  BY DEF Address
<1> DEFINE first == <<32, 1, 13, 184>>
           c == SubSeq(bytes, 1, 4)
<1>1. first \in Seq(0..255) /\ Len(first) = 4 /\ first[1] = 32 /\ first[2] = 1 /\ first[3] = 13 /\ first[4] = 184
  OBVIOUS
<1>2. c \in Seq(0..255) /\ Len(c) = 4 /\ \A i \in 1..4 : c[i] = bytes[i]
  <2>1. 4 \in 1..16
    OBVIOUS
  <2> QED BY <2>1, FirstOf
<1>3. b5[1] = first /\ b5[2] = 32 /\ (32 + 7) \div 8 = 4
  OBVIOUS
<1>4. \A i \in 1..4 : Unit(i, 32) = 1
  BY DEF Unit
<1> HIDE DEF first, c, b5
<1>5. c = first <=> \A i \in 1..4 : c[i] = first[i]
  BY <1>1, <1>2, SeqEqual
<1>6. Web!InBlock(bytes, b5) <=> \A i \in 1..4 : bytes[i] \div Unit(i, 32) = first[i] \div Unit(i, 32)
  BY <1>3, InBlockIs
<1>7. \A i \in 1..4 : (bytes[i] \div Unit(i, 32) = first[i] \div Unit(i, 32)) <=> c[i] = first[i]
  <2> TAKE i \in 1..4
  <2>1. i \in 1..16
    OBVIOUS
  <2>2. bytes[i] \in 0..255
    BY <1>0, <2>1
  <2>3. first[i] \in 0..255
    BY <1>1, ElementOfSeq
  <2>4. Unit(i, 32) = 1
    BY <1>4
  <2>5. bytes[i] \div Unit(i, 32) = bytes[i] /\ first[i] \div Unit(i, 32) = first[i]
    BY <2>2, <2>3, <2>4, Whole
  <2>6. c[i] = bytes[i]
    BY <1>2
  <2> QED BY <2>5, <2>6
<1>8. Web!InBlock(bytes, b5) <=> c = first
  BY <1>5, <1>6, <1>7
<1> QED BY <1>8 DEF b5, c, first

\* What isPrivateIpv6() tells of an address are the reserved IPv6 addresses.
LEMMA Ipv6Blocks ==
  ASSUME NEW bytes \in Address(16)
  PROVE  Web!PrivateIpv6(bytes) <=> Web!Reserved6(bytes)
<1> DEFINE z == [i \in 1..16 |-> 0]
           b1 == <<z, 127>>
           b2 == <<<<252>>, 7>>
           b3 == <<<<254, 128>>, 10>>
           b4 == <<<<255>>, 8>>
           b5 == <<<<32, 1, 13, 184>>, 32>>
           zeros(n) == \A i \in 1..n : bytes[i] = 0
<1>0. \A i \in 1..16 : bytes[i] \in 0..255
  BY DEF Address
<1>1. Web!Blocks6 = {b1, b2, b3, b4, b5}
  BY DEF Web!Blocks6
<1>2. Web!InBlock(bytes, b1) <=> zeros(15) /\ bytes[16] \in {0, 1}
  <2>1. (127 + 7) \div 8 = 16
    OBVIOUS
  <2>2. Web!InBlock(bytes, b1) <=> \A i \in 1..16 : bytes[i] \div Unit(i, 127) = 0 \div Unit(i, 127)
    <3>1. b1[2] = 127 /\ b1[1] = z /\ \A i \in 1..16 : z[i] = 0
      OBVIOUS
    <3> HIDE DEF b1, z
    <3> QED BY <2>1, <3>1, InBlockIs
  <2>3. /\ \A i \in 1..15 : Unit(i, 127) = 1
        /\ Unit(16, 127) = 2
    BY DEF Unit
  <2>4. \A i \in 1..15 : (bytes[i] \div Unit(i, 127) = 0 \div Unit(i, 127)) <=> bytes[i] = 0
    <3> TAKE i \in 1..15
    <3>1. bytes[i] \in 0..255 /\ Unit(i, 127) = 1
      BY <1>0, <2>3
    <3>2. bytes[i] \div Unit(i, 127) = bytes[i] /\ 0 \div Unit(i, 127) = 0
      BY <3>1, Whole
    <3> QED BY <3>2
  <2>5. (bytes[16] \div Unit(16, 127) = 0 \div Unit(16, 127)) <=> bytes[16] \in {0, 1}
    <3>1. bytes[16] \in 0..255
      BY <1>0
    <3> QED BY <2>3, <3>1
  <2>6. /\ \A i \in 1..16 : i \in 1..15 \/ i = 16
        /\ \A i \in 1..15 : i \in 1..16
        /\ 16 \in 1..16
    OBVIOUS
  <2> QED BY <2>2, <2>4, <2>5, <2>6
<1>3. Web!InBlock(bytes, b2) <=> bytes[1] \in {252, 253}
  BY <1>0, OneByteBlock, Units
<1>4. Web!InBlock(bytes, b4) <=> bytes[1] = 255
  BY <1>0, OneByteBlock, Units
<1>5. Web!InBlock(bytes, b3) <=> bytes[1] = 254 /\ bytes[2] \div 64 = 2
  <2>1. Web!InBlock(bytes, b3) <=> bytes[1] \div 1 = 254 \div 1 /\ bytes[2] \div 64 = 128 \div 64
    BY TwoBytes, Units
  <2> QED BY <1>0, <2>1
<1>6. Web!InBlock(bytes, b5) <=> SubSeq(bytes, 1, 4) = <<32, 1, 13, 184>>
  BY DocumentationBlock
<1>7. Web!PrivateIpv4(SubSeq(bytes, 13, 16)) <=> Web!Reserved4(SubSeq(bytes, 13, 16))
  BY Ipv4Part, Ipv4Blocks
<1> HIDE DEF b1, b2, b3, b4, b5
<1>8. Web!Reserved6(bytes) <=>
        \/ Web!InBlock(bytes, b1) \/ Web!InBlock(bytes, b2) \/ Web!InBlock(bytes, b3) \/ Web!InBlock(bytes, b4)
        \/ Web!InBlock(bytes, b5)
        \/ Web!IsPrefix(Web!Mapped, bytes) /\ Web!Reserved4(SubSeq(bytes, 13, 16))
  BY <1>1 DEF Web!Reserved6
<1>9. Web!PrivateIpv6(bytes) <=>
        \/ zeros(15) /\ bytes[16] \in {0, 1}
        \/ bytes[1] \in {252, 253, 255}
        \/ bytes[1] = 254 /\ bytes[2] \div 64 = 2
        \/ SubSeq(bytes, 1, 4) = <<32, 1, 13, 184>>
        \/ zeros(10) /\ bytes[11] = 255 /\ bytes[12] = 255 /\ Web!PrivateIpv4(SubSeq(bytes, 13, 16))
  BY DEF Web!PrivateIpv6
<1>10. Web!IsPrefix(Web!Mapped, bytes) <=> zeros(10) /\ bytes[11] = 255 /\ bytes[12] = 255
  BY MappedIs
<1> HIDE DEF zeros
<1> QED BY <1>2, <1>3, <1>4, <1>5, <1>6, <1>7, <1>8, <1>9, <1>10

\* An address that begins with a prefix has its bytes.
LEMMA StartsWith ==
  ASSUME NEW bytes \in Address(16), NEW p \in Seq(0..255), NEW n \in 2..16, Len(p) = n, Web!IsPrefix(p, bytes)
  PROVE  bytes[1] = p[1] /\ bytes[2] = p[2]
<1>1. SubSeq(p, 1, Len(p)) = SubSeq(bytes, 1, Len(p))
  BY DEF Web!IsPrefix
<1>2. SubSeq(p, 1, n) = p
  BY SubSeqFull
<1> DEFINE c == SubSeq(bytes, 1, n)
<1>3. p = c
  BY <1>1, <1>2
<1>4. \A i \in 1..n : c[i] = bytes[i]
  <2>1. n \in 1..16
    OBVIOUS
  <2> QED BY <2>1, FirstOf
<1> HIDE DEF c
<1> QED BY <1>3, <1>4

\* An address whose first twelve bytes are zeros is a compatible one.
LEMMA CompatibleIs ==
  ASSUME NEW bytes \in Address(16), \A i \in 1..12 : bytes[i] = 0
  PROVE  Web!IsPrefix(Web!Compatible, bytes)
<1> DEFINE m == Web!Compatible
           c == SubSeq(bytes, 1, 12)
<1>1. m \in Seq(0..255) /\ Len(m) = 12 /\ \A i \in 1..12 : m[i] = 0
  <2> DEFINE z == [i \in 1..12 |-> 0]
  <2>1. z \in Seq(0..255) /\ Len(z) = 12 /\ \A i \in 1..12 : z[i] = 0
    BY Sequence
  <2> QED BY <2>1 DEF Web!Compatible
<1>2. c \in Seq(0..255) /\ Len(c) = 12 /\ \A i \in 1..12 : c[i] = bytes[i]
  <2>1. 12 \in 1..16
    OBVIOUS
  <2> QED BY <2>1, FirstOf
<1>3. SubSeq(m, 1, 12) = m
  BY <1>1, SubSeqFull
<1>4. Len(bytes) = 16
  BY OctetsAreBytes
<1>5. Web!IsPrefix(m, bytes) <=> Len(m) <= Len(bytes) /\ SubSeq(m, 1, Len(m)) = SubSeq(bytes, 1, Len(m))
  BY DEF Web!IsPrefix
<1> HIDE DEF m, c
<1>6. m = c
  <2>1. \A i \in 1..12 : m[i] = c[i]
    BY <1>1, <1>2
  <2> QED BY <1>1, <1>2, <2>1, SeqEqual
<1>7. SubSeq(bytes, 1, 12) = m
  BY <1>6 DEF c
<1>8. SubSeq(m, 1, Len(m)) = SubSeq(bytes, 1, Len(m)) /\ Len(m) <= Len(bytes)
  BY <1>1, <1>3, <1>4, <1>7
<1> QED BY <1>5, <1>8 DEF m

\* An address that carries an IPv4 address begins with a zero or with the bytes of 6to4.
LEMMA CarriersAre ==
  ASSUME NEW bytes \in Address(16), Web!Carried(bytes) # {}
  PROVE  bytes[1] = 0 \/ (bytes[1] = 32 /\ bytes[2] = 2)
<1>1. \E p \in {Web!Compatible, Web!Mapped, Web!Translated, Web!SixToFour} : Web!IsPrefix(p, bytes)
  BY DEF Web!Carried
<1>2. CASE Web!IsPrefix(Web!Compatible, bytes)
  <2> DEFINE z == [i \in 1..12 |-> 0]
  <2>1. z \in Seq(0..255) /\ Len(z) = 12 /\ z[1] = 0
    BY Sequence
  <2>2. z = Web!Compatible /\ 12 \in 2..16
    BY DEF Web!Compatible
  <2> HIDE DEF z
  <2> QED BY <1>2, <2>1, <2>2, StartsWith
<1>3. CASE Web!IsPrefix(Web!Mapped, bytes)
  <2>1. \A i \in 1..10 : bytes[i] = 0
    BY <1>3, MappedIs
  <2> QED BY <2>1
<1>4. CASE Web!IsPrefix(Web!Translated, bytes)
  <2> DEFINE head == <<0, 100, 255, 155>>
             z == [i \in 1..8 |-> 0]
             B == 0..255
  <2>1. head \in Seq(0..255) /\ Len(head) = 4 /\ head[1] = 0
    OBVIOUS
  <2>2. z \in Seq(0..255) /\ Len(z) = 8
    BY Sequence
  <2>3. Web!Translated = head \o z
    BY DEF Web!Translated
  <2> HIDE DEF head, z
  <2>4. IsConcat(Web!Translated, head, 4, z, 8, B)
    <3>1. head \in Seq(B) /\ Len(head) = 4 /\ z \in Seq(B) /\ Len(z) = 8
      BY <2>1, <2>2
    <3> HIDE DEF B
    <3>2. IsConcat(head \o z, head, 4, z, 8, B)
      BY <3>1, Concat
    <3> QED BY <2>3, <3>2
  <2>5. Web!Translated \in Seq(0..255) /\ Len(Web!Translated) = 12
    <3>1. 4 + 8 = 12
      OBVIOUS
    <3> QED BY <2>4, <3>1 DEF IsConcat
  <2>6. Web!Translated[1] = 0
    <3>1. 1 \in 1..4
      OBVIOUS
    <3>2. Web!Translated[1] = head[1]
      BY <2>4, <3>1 DEF IsConcat
    <3> QED BY <2>1, <3>2
  <2>7. 12 \in 2..16
    OBVIOUS
  <2> QED BY <1>4, <2>5, <2>6, <2>7, StartsWith
<1>5. CASE Web!IsPrefix(Web!SixToFour, bytes)
  <2> DEFINE p == <<32, 2>>
  <2>1. p \in Seq(0..255) /\ Len(p) = 2 /\ p[1] = 32 /\ p[2] = 2
    OBVIOUS
  <2>2. p = Web!SixToFour /\ 2 \in 2..16
    BY DEF Web!SixToFour
  <2> HIDE DEF p
  <2> QED BY <1>5, <2>1, <2>2, StartsWith
<1> QED BY <1>1, <1>2, <1>3, <1>4, <1>5

\* No address that is public by the address plan is in a scope that the resolver has to refuse.
LEMMA PublicIsNotReserved ==
  ASSUME NEW bytes \in Address(16), Web!Public6(bytes)
  PROVE  ~Web!Reserved6(bytes)
<1> SUFFICES ASSUME Web!PrivateIpv6(bytes) PROVE FALSE
  BY Ipv6Blocks
<1> DEFINE octets == SubSeq(bytes, 13, 16)
           zeros(n) == \A i \in 1..n : bytes[i] = 0
<1>0. \A i \in 1..16 : bytes[i] \in 0..255
  BY DEF Address
<1>1. \/ zeros(15) /\ bytes[16] \in {0, 1}
      \/ bytes[1] \in {252, 253, 255}
      \/ bytes[1] = 254 /\ bytes[2] \div 64 = 2
      \/ SubSeq(bytes, 1, 4) = <<32, 1, 13, 184>>
      \/ Web!IsPrefix(Web!Mapped, bytes) /\ Web!PrivateIpv4(octets)
  BY MappedIs DEF Web!PrivateIpv6
<1>2. octets \in Address(4)
  BY Ipv4Part
<1>3. Web!PrivateIpv4(octets) <=> Web!Reserved4(octets)
  BY <1>2, Ipv4Blocks
<1>4. octets[1] = bytes[13]
  <2>1. bytes \in Seq(0..255) /\ Len(bytes) = 16
    BY OctetsAreBytes
  <2>2. 13 = 12 + 1 /\ 12 <= 16 /\ 16 <= Len(bytes) /\ 13 \in Nat /\ 12 \in Nat /\ 16 \in Nat
    BY <2>1
  <2>3. IsCut(octets, bytes, 12, 16, 0..255)
    BY <2>1, <2>2, Cut
  <2>4. 1 \in 1..(16 - 12) /\ 12 + 1 = 13
    OBVIOUS
  <2> HIDE DEF octets
  <2> QED BY <2>3, <2>4 DEF IsCut
<1>5. ASSUME octets \in Web!Carried(bytes) PROVE ~Web!Reserved4(octets)
  BY <1>5 DEF Web!Public6
<1>6. Web!IsPrefix(Web!Mapped, bytes) \/ Web!IsPrefix(Web!Compatible, bytes) => octets \in Web!Carried(bytes)
  BY DEF Web!Carried
<1> HIDE DEF octets
<1>7. CASE zeros(15) /\ bytes[16] \in {0, 1}
  <2>1. \A i \in 1..12 : bytes[i] = 0
    BY <1>7
  <2>2. bytes[13] = 0
    BY <1>7
  <2>3. Web!PrivateIpv4(octets)
    BY <1>4, <2>2 DEF Web!PrivateIpv4
  <2>4. Web!IsPrefix(Web!Compatible, bytes)
    BY <2>1, CompatibleIs
  <2> QED BY <1>3, <1>5, <1>6, <2>3, <2>4
<1>8. CASE Web!IsPrefix(Web!Mapped, bytes) /\ Web!PrivateIpv4(octets)
  BY <1>3, <1>5, <1>6, <1>8
<1>9. ASSUME Web!Carried(bytes) = {}
      PROVE  bytes[1] \div 32 = 1 /\ ~Web!InBlock(bytes, <<<<32, 1, 13, 184>>, 32>>)
  <2>1. Web!InBlock(bytes, <<<<32>>, 3>>)
    BY <1>9 DEF Web!Public6, Web!GlobalUnicast
  <2>2. bytes[1] \div Unit(1, 3) = 32 \div Unit(1, 3)
    BY <2>1, OneByteBlock
  <2>3. ~Web!InBlock(bytes, <<<<32, 1, 13, 184>>, 32>>)
    BY <1>9 DEF Web!Public6, Web!KeptBlocks
  <2> QED BY <2>2, <2>3, Units
<1>10. CASE bytes[1] \in {252, 253, 255, 254}
  <2>1. Web!Carried(bytes) = {}
    BY <1>10, CarriersAre
  <2> QED BY <1>9, <1>10, <2>1
<1>11. CASE SubSeq(bytes, 1, 4) = <<32, 1, 13, 184>>
  <2> DEFINE c == SubSeq(bytes, 1, 4)
             first == <<32, 1, 13, 184>>
  <2>1. first[1] = 32 /\ first[2] = 1
    OBVIOUS
  <2>2. \A i \in 1..4 : c[i] = bytes[i]
    <3>1. 4 \in 1..16
      OBVIOUS
    <3> QED BY <3>1, FirstOf
  <2>3. c = first
    BY <1>11
  <2> HIDE DEF c, first
  <2>4. bytes[1] = 32 /\ bytes[2] = 1
    BY <2>1, <2>2, <2>3
  <2>5. Web!Carried(bytes) = {}
    BY <2>4, CarriersAre
  <2>6. Web!InBlock(bytes, <<<<32, 1, 13, 184>>, 32>>)
    BY <1>11, DocumentationBlock
  <2> QED BY <1>9, <2>5, <2>6
<1> HIDE DEF zeros
<1> QED BY <1>1, <1>7, <1>8, <1>10, <1>11

-----------------------------------------------------------------------------
(* IPv6 addresses as they are read *)

\* The two bytes of a group are where the address has them.
LEMMA HalfPlaces ==
  ASSUME NEW i \in 1..16
  PROVE  /\ (i + 1) \div 2 \in 1..8
         /\ i % 2 # 1 => i \div 2 \in 1..8
BY SMT

\* The groups are the numbers up to the largest.
LEMMA GroupsAreNumbers ==
  /\ \A g : g \in Web!GroupValue <=> g \in Nat /\ g <= 65535
  /\ \A g \in Web!GroupValue : g \in Int /\ g >= 0
BY DEF Web!GroupValue

\* The two halves of a group are bytes.
LEMMA GroupHalves ==
  ASSUME NEW g \in Web!GroupValue
  PROVE  g \div 256 \in 0..255 /\ g % 256 \in 0..255 /\ g = (g \div 256) * 256 + (g % 256)
<1>1. g \in Nat /\ g <= 65535
  BY GroupsAreNumbers
<1> QED BY <1>1, SMT

\* Eight groups are sixteen bytes.
LEMMA BytesInGroups ==
  ASSUME NEW groups \in [1..8 -> Web!GroupValue]
  PROVE  Web!BytesOfGroups(groups) \in Address(16)
<1> DEFINE B == 0..255
           byte(i) == IF i % 2 = 1 THEN groups[(i + 1) \div 2] \div 256 ELSE groups[i \div 2] % 256
<1>1. ASSUME NEW i \in 1..16
      PROVE  byte(i) \in B
  <2>1. CASE i % 2 = 1
    <3>1. (i + 1) \div 2 \in 1..8
      BY HalfPlaces
    <3>2. groups[(i + 1) \div 2] \in Web!GroupValue
      BY <3>1
    <3>3. groups[(i + 1) \div 2] \div 256 \in B
      BY <3>2, GroupHalves
    <3> QED BY <2>1, <3>3
  <2>2. CASE i % 2 # 1
    <3>1. i \div 2 \in 1..8
      BY <2>2, HalfPlaces
    <3>2. groups[i \div 2] \in Web!GroupValue
      BY <3>1
    <3>3. groups[i \div 2] % 256 \in B
      BY <3>2, GroupHalves
    <3> QED BY <2>2, <3>3
  <2> QED BY <2>1, <2>2
<1>2. Web!BytesOfGroups(groups) = [i \in 1..16 |-> byte(i)]
  BY DEF Web!BytesOfGroups
<1> HIDE DEF byte, B
<1>3. Web!BytesOfGroups(groups) \in [1..16 -> B]
  BY <1>1, <1>2
<1> QED BY <1>3 DEF Address, B

\* Numbers with single colons between them.
Alternates(text) ==
  /\ Len(text) % 2 = 1
  /\ \A i \in 1..Len(text) : /\ i % 2 = 1 => text[i] \in Web!GroupValue
                             /\ i % 2 # 1 => text[i] = Web!Colon

\* Numbers with single colons between them are read as groups, and so is nothing; else nothing is.
LEMMA GroupsAre ==
  ASSUME NEW text \in Seq(Int)
  PROVE  /\ text = <<>> => Web!Groups(text) = {<<>>}
         /\ text # <<>> /\ ~Alternates(text) => Web!Groups(text) = {}
         /\ Alternates(text) => /\ text # <<>>
                                /\ Web!Groups(text) = {[i \in 1..((Len(text) + 1) \div 2) |-> text[2 * i - 1]]}
<1>1. DOMAIN text = 1..Len(text) /\ Len(text) \in Nat /\ (text = <<>> <=> Len(text) = 0)
  BY LenProperties, EmptySeq
<1> DEFINE all == \A i \in DOMAIN text : IF i % 2 = 1 THEN text[i] \in Web!GroupValue ELSE text[i] = Web!Colon
<1>2. Len(text) % 2 = 1 /\ all <=> Alternates(text)
  <2>1. all <=> \A i \in 1..Len(text) : (i % 2 = 1 => text[i] \in Web!GroupValue) /\ (i % 2 # 1 => text[i] = Web!Colon)
    BY <1>1
  <2> HIDE DEF all
  <2> QED BY <2>1 DEF Alternates
<1>3. Web!Groups(text) = IF text = <<>> THEN {<<>>}
                         ELSE IF Len(text) % 2 = 1 /\ all THEN {[i \in 1..((Len(text) + 1) \div 2) |-> text[2 * i - 1]]} ELSE {}
  BY DEF Web!Groups
<1> HIDE DEF all
<1>4. Alternates(text) => text # <<>>
  <2>1. 0 % 2 # 1
    OBVIOUS
  <2> QED BY <1>1, <2>1 DEF Alternates
<1> QED BY <1>2, <1>3, <1>4

\* What is read as groups is read so in one way.
LEMMA GroupsRead ==
  ASSUME NEW text \in Seq(Int), NEW groups \in Web!Groups(text)
  PROVE  groups \in Seq(Web!GroupValue) /\ Web!Groups(text) = {groups}
<1>1. CASE text = <<>>
  <2>1. Web!Groups(text) = {<<>>}
    BY <1>1, GroupsAre
  <2>2. <<>> \in Seq(Web!GroupValue)
    OBVIOUS
  <2> QED BY <2>1, <2>2
<1>2. CASE text # <<>>
  <2>1. Alternates(text)
    BY <1>2, GroupsAre
  <2> DEFINE n == Len(text)
             m == (n + 1) \div 2
             r == [i \in 1..m |-> text[2 * i - 1]]
  <2>2. Web!Groups(text) = {r}
    BY <2>1, GroupsAre
  <2>3. n \in Nat /\ n % 2 = 1
    BY <2>1, LenProperties DEF Alternates
  <2> HIDE DEF n
  <2>4. m \in Nat /\ \A i \in 1..m : 2 * i - 1 \in 1..n /\ (2 * i - 1) % 2 = 1
    BY <2>3
  <2> HIDE DEF m
  <2>5. \A i \in 1..m : text[2 * i - 1] \in Web!GroupValue
    <3> TAKE i \in 1..m
    <3> DEFINE j == 2 * i - 1
    <3>1. j \in 1..n /\ j % 2 = 1
      BY <2>4
    <3> HIDE DEF j
    <3>2. text[j] \in Web!GroupValue
      BY <2>1, <3>1 DEF Alternates, n
    <3> QED BY <3>2 DEF j
  <2>6. r \in [1..m -> Web!GroupValue]
    BY <2>5
  <2>7. r \in Seq(Web!GroupValue)
    <3> HIDE DEF r
    <3> QED BY <2>4, <2>6, Sequence
  <2> QED BY <2>2, <2>7
<1> QED BY <1>1, <1>2

\* Groups on both sides of a double colon, with the zeros between, are groups.
LEMMA FilledIs ==
  ASSUME NEW left \in Seq(Web!GroupValue), NEW right \in Seq(Web!GroupValue)
  PROVE  Web!Filled(left, right) \in Seq(Web!GroupValue)
<1> DEFINE n == 8 - Len(left) - Len(right)
           zeros == [i \in 1..n |-> 0]
<1>1. Len(left) \in Nat /\ Len(right) \in Nat /\ n \in Int
  BY LenProperties
<1>2. zeros \in Seq(Web!GroupValue)
  <2> HIDE DEF n
  <2>1. zeros \in [1..n -> Web!GroupValue]
    <3>1. 0 \in Web!GroupValue
      BY GroupsAreNumbers
    <3> QED BY <3>1
  <2>2. CASE n \in Nat
    <3> HIDE DEF zeros
    <3> QED BY <2>1, <2>2, Sequence
  <2>3. CASE n \notin Nat
    <3>1. 1..n = {} /\ 1..0 = {}
      BY <1>1, <2>3
    <3>2. zeros \in [1..0 -> Web!GroupValue]
      BY <2>1, <3>1
    <3> HIDE DEF zeros
    <3> QED BY <3>2, Sequence
  <2> QED BY <2>2, <2>3
<1> HIDE DEF zeros, n
<1>3. left \o zeros \in Seq(Web!GroupValue)
  BY <1>2, ConcatProperties
<1>4. left \o zeros \o right \in Seq(Web!GroupValue)
  BY <1>3, ConcatProperties
<1> QED BY <1>4 DEF Web!Filled, zeros, n

\* Every second place is odd.
LEMMA Parity ==
  ASSUME NEW i \in Nat
  PROVE  i % 2 = 1 <=> (i + 1) % 2 # 1
OBVIOUS

\* Between numbers are no two colons side by side.
LEMMA NoGap ==
  ASSUME NEW text, NEW i \in Nat, i \in 1..Len(text), i + 1 \in 1..Len(text), text[i] = Web!Colon, text[i + 1] = Web!Colon
  PROVE  ~Alternates(text)
<1>1. Web!Colon \notin Web!GroupValue
  BY GroupsAreNumbers DEF Web!Colon
<1> DEFINE j == i + 1
<1>2. i % 2 = 1 <=> j % 2 # 1
  BY Parity
<1>3. j \in 1..Len(text) /\ text[j] = Web!Colon
  OBVIOUS
<1> HIDE DEF j
<1> QED BY <1>1, <1>2, <1>3 DEF Alternates

\* Numbers with single colons between them begin and end with a number.
LEMMA EndsInNumbers ==
  ASSUME NEW text \in Seq(Int), Alternates(text)
  PROVE  text[1] # Web!Colon /\ text[Len(text)] # Web!Colon
<1>1. Web!Colon \notin Web!GroupValue
  BY GroupsAreNumbers DEF Web!Colon
<1>2. Len(text) \in Nat /\ Len(text) % 2 = 1
  BY LenProperties DEF Alternates
<1> DEFINE n == Len(text)
<1> HIDE DEF n
<1>3. n \in Nat /\ n % 2 = 1
  BY <1>2 DEF n
<1>4. n \in 1..n /\ 1 \in 1..n /\ 1 % 2 = 1
  BY <1>3
<1>5. text[1] \in Web!GroupValue /\ text[n] \in Web!GroupValue
  BY <1>3, <1>4 DEF Alternates, n
<1> QED BY <1>1, <1>5 DEF n

\* The smallest of some numbers.
LEMMA MinIs ==
  ASSUME NEW S \in SUBSET Nat, NEW i \in S, \A k \in S : i <= k
  PROVE  Min(S) = i
<1>1. \A m \in S : (\A y \in S : m <= y) => m = i
  OBVIOUS
<1> QED BY <1>1 DEF Min

\* The first place of a mark, and the last.
LEMMA FirstMark ==
  ASSUME NEW text, NEW n \in Nat, n = Len(text), NEW mark
  PROVE  /\ (\A k \in 1..n : text[k] # mark) => Web!First(text, mark) = 0
         /\ \A i \in 1..n : text[i] = mark /\ (\A k \in 1..n : text[k] = mark => i <= k) => Web!First(text, mark) = i
         /\ Web!First(text, mark) \in 0..n
<1> DEFINE I == {i \in 1..Len(text) : text[i] = mark}
<1>1. Web!First(text, mark) = IF I # {} THEN Min(I) ELSE 0
  BY DEF Web!First, Web!SelectInSeq, Web!Min, Min
<1>2. ASSUME \A k \in 1..n : text[k] # mark PROVE I = {}
  BY <1>2
<1>3. ASSUME NEW i \in 1..n, text[i] = mark, \A k \in 1..n : text[k] = mark => i <= k
      PROVE  Min(I) = i /\ I # {}
  <2>1. i \in I /\ I \in SUBSET Nat /\ \A k \in I : i <= k
    BY <1>3
  <2> HIDE DEF I
  <2> QED BY <2>1, MinIs
<1>4. I # {} => Min(I) \in 1..n
  <2> SUFFICES ASSUME I # {} PROVE Min(I) \in 1..n
    OBVIOUS
  <2>1. I \in SUBSET Nat /\ \A k \in I : k \in 1..n
    OBVIOUS
  <2> HIDE DEF I
  <2>2. PICK i \in I : \A k \in I : i <= k
    BY <2>1, LeastOf
  <2>3. Min(I) = i
    BY <2>1, <2>2, MinIs
  <2> QED BY <2>1, <2>3
<1> HIDE DEF I
<1> QED BY <1>1, <1>2, <1>3, <1>4

\* The last colon of a text.
LastMark(text) == Web!SelectLastInSeq(text, LAMBDA t : t = Web!Colon)

\* It is where no colon follows, and nowhere when there is none.
LEMMA LastColon ==
  ASSUME NEW text, NEW n \in Nat, n = Len(text)
  PROVE  /\ (\A k \in 1..n : text[k] # Web!Colon) => LastMark(text) = 0
         /\ \A i \in 1..n : text[i] = Web!Colon /\ (\A k \in 1..n : text[k] = Web!Colon => k <= i) => LastMark(text) = i
         /\ LastMark(text) \in 0..n
<1> DEFINE I == {i \in 1..Len(text) : text[i] = Web!Colon}
<1>1. LastMark(text) = IF I # {} THEN Max(I) ELSE 0
  BY DEF LastMark, Web!SelectLastInSeq, Web!Max, Max
<1>2. ASSUME \A k \in 1..n : text[k] # Web!Colon PROVE I = {}
  BY <1>2
<1>3. I \in SUBSET (1..n)
  OBVIOUS
<1>4. ASSUME I # {} PROVE Max(I) \in I /\ \A y \in I : Max(I) >= y
  <2> HIDE DEF I
  <2> QED BY <1>3, <1>4, MaxInside
<1>5. ASSUME NEW i \in 1..n, text[i] = Web!Colon, \A k \in 1..n : text[k] = Web!Colon => k <= i
      PROVE  Max(I) = i /\ I # {}
  <2>1. i \in I /\ \A k \in I : k <= i /\ k \in Nat
    BY <1>5
  <2> HIDE DEF I
  <2>2. Max(I) \in I /\ Max(I) >= i
    BY <1>4, <2>1
  <2>3. Max(I) <= i /\ Max(I) \in Nat
    BY <2>1, <2>2
  <2>4. Max(I) = i
    BY <2>2, <2>3
  <2> QED BY <2>1, <2>4
<1>6. I # {} => Max(I) \in 1..n
  <2> HIDE DEF I
  <2> QED BY <1>3, <1>4
<1> HIDE DEF I
<1> QED BY <1>1, <1>2, <1>5, <1>6

\* A text without its zone is a text.
LEMMA ZoneTaken ==
  ASSUME NEW text \in Seq(Int)
  PROVE  Web!WithoutZone(text) \in Seq(Int)
<1> DEFINE n == Len(text)
           f == Web!First(text, Web!Percent)
           m == f - 1
<1>1. n \in Nat /\ f \in 0..n
  BY LenProperties, FirstMark
<1>2. CASE f = 0
  BY <1>2 DEF Web!WithoutZone
<1>3. CASE f # 0
  <2>1. m \in Nat /\ 1 = 0 + 1 /\ 0 <= m /\ m <= Len(text) /\ 1 \in Nat /\ 0 \in Nat
    BY <1>1, <1>3
  <2>2. Web!WithoutZone(text) = SubSeq(text, 1, m)
    BY <1>3 DEF Web!WithoutZone
  <2> HIDE DEF m
  <2>3. IsCut(SubSeq(text, 1, m), text, 0, m, Int)
    BY <2>1, Cut
  <2> QED BY <2>2, <2>3 DEF IsCut
<1> QED BY <1>2, <1>3

\* What a dotted tail is, and what becomes of it.
Quad(tail) ==
  /\ Len(tail) = 7 /\ tail[2] = Web!Dot /\ tail[4] = Web!Dot /\ tail[6] = Web!Dot
  /\ tail[1] \in 0..255 /\ tail[3] \in 0..255 /\ tail[5] \in 0..255 /\ tail[7] \in 0..255
\* The two groups that four numbers stand for.
Paired(tail) == <<tail[1] * 256 + tail[3], Web!Colon, tail[5] * 256 + tail[7]>>

\* A text is taken as it is, or with the two groups that its dotted tail stands for.
LEMMA UndottedIs ==
  ASSUME NEW text
  PROVE  LET cut == LastMark(text)
             tail == SubSeq(text, cut + 1, Len(text))
         IN /\ cut = 0 \/ Web!First(tail, Web!Dot) = 0 => Web!Undotted(text) = {text}
            /\ cut # 0 /\ Web!First(tail, Web!Dot) # 0 =>
                 Web!Undotted(text) = IF Quad(tail) THEN {SubSeq(text, 1, cut) \o Paired(tail)} ELSE {}
<1> DEFINE cut == LastMark(text)
           tail == SubSeq(text, cut + 1, Len(text))
           shown == Len(tail) = 7 /\ (\A i \in {2, 4, 6} : tail[i] = Web!Dot) /\ \A i \in {1, 3, 5, 7} : tail[i] \in 0..255
<1>1. Web!Undotted(text) =
        IF cut = 0 \/ Web!First(tail, Web!Dot) = 0 THEN {text}
        ELSE IF shown THEN {SubSeq(text, 1, cut) \o <<tail[1] * 256 + tail[3], Web!Colon, tail[5] * 256 + tail[7]>>} ELSE {}
  BY DEF Web!Undotted, LastMark
<1> HIDE DEF cut, tail
<1>2. shown <=> Quad(tail)
  BY DEF Quad
<1> HIDE DEF shown
<1>3. /\ cut = 0 \/ Web!First(tail, Web!Dot) = 0 => Web!Undotted(text) = {text}
      /\ cut # 0 /\ Web!First(tail, Web!Dot) # 0 =>
           Web!Undotted(text) = IF Quad(tail) THEN {SubSeq(text, 1, cut) \o Paired(tail)} ELSE {}
  BY <1>1, <1>2 DEF Paired
<1> QED BY <1>3 DEF cut, tail

\* Two bytes make a number.
LEMMA TwoOctets ==
  ASSUME NEW a \in 0..255, NEW b \in 0..255
  PROVE  a * 256 + b \in Int
OBVIOUS

\* Four numbers of a dotted tail stand for two groups.
LEMMA PairedIs ==
  ASSUME NEW tail, Quad(tail)
  PROVE  /\ Paired(tail) \in Seq(Int) /\ Len(Paired(tail)) = 3
         /\ Paired(tail)[1] = tail[1] * 256 + tail[3] /\ Paired(tail)[2] = Web!Colon /\ Paired(tail)[3] = tail[5] * 256 + tail[7]
<1> DEFINE a == tail[1] * 256 + tail[3]
           b == tail[5] * 256 + tail[7]
<1>1. a \in Int /\ b \in Int /\ Web!Colon \in Int
  <2>1. tail[1] \in 0..255 /\ tail[3] \in 0..255 /\ tail[5] \in 0..255 /\ tail[7] \in 0..255
    BY DEF Quad
  <2>2. a \in Int
    BY <2>1, TwoOctets
  <2>3. b \in Int
    BY <2>1, TwoOctets
  <2>4. Web!Colon \in Int
    BY DEF Web!Colon
  <2> QED BY <2>2, <2>3, <2>4
<1>2. Paired(tail) = <<a, Web!Colon, b>>
  BY DEF Paired
<1> HIDE DEF a, b
<1>3. <<a, Web!Colon, b>> \in Seq(Int) /\ Len(<<a, Web!Colon, b>>) = 3
  BY <1>1
<1> QED BY <1>2, <1>3 DEF a, b

\* A dotted tail is taken in one way.
LEMMA UndottedOnce ==
  ASSUME NEW text \in Seq(Int), NEW t \in Web!Undotted(text)
  PROVE  t \in Seq(Int) /\ Web!Undotted(text) = {t}
<1> DEFINE n == Len(text)
           cut == LastMark(text)
           tail == SubSeq(text, cut + 1, Len(text))
<1>1. n \in Nat /\ cut \in 0..n
  BY LenProperties, LastColon
<1> HIDE DEF cut, n
<1>2. CASE cut = 0 \/ Web!First(tail, Web!Dot) = 0
  <2>1. Web!Undotted(text) = {text}
    BY <1>2, UndottedIs DEF cut
  <2> QED BY <2>1
<1>3. CASE ~(cut = 0 \/ Web!First(tail, Web!Dot) = 0)
  <2>1. Web!Undotted(text) = IF Quad(tail) THEN {SubSeq(text, 1, cut) \o Paired(tail)} ELSE {}
    BY <1>3, UndottedIs DEF cut
  <2> HIDE DEF tail
  <2>2. Quad(tail) /\ Web!Undotted(text) = {SubSeq(text, 1, cut) \o Paired(tail)}
    BY <2>1
  <2>3. IsCut(SubSeq(text, 1, cut), text, 0, cut, Int)
    <3>1. cut \in Nat /\ 1 = 0 + 1 /\ 0 <= cut /\ cut <= Len(text) /\ 1 \in Nat /\ 0 \in Nat
      BY <1>1 DEF n
    <3> QED BY <3>1, Cut
  <2>4. SubSeq(text, 1, cut) \in Seq(Int)
    BY <2>3 DEF IsCut
  <2>5. SubSeq(text, 1, cut) \o Paired(tail) \in Seq(Int)
    BY <2>2, <2>4, PairedIs, ConcatProperties
  <2> QED BY <2>2, <2>5
<1> QED BY <1>2, <1>3

\* What is in front of a double colon.
LeftOf(text, gap) == SubSeq(text, 1, gap - 1)
\* What is behind it.
RightOf(text, gap) == SubSeq(text, gap + 2, Len(text))

\* What is read around a double colon is what is read on its two sides.
LEMMA AroundIs ==
  ASSUME NEW text, NEW gap, NEW x
  PROVE  x \in Web!GroupsAround(text, gap) <=>
           \E left \in Web!Groups(LeftOf(text, gap)) : \E right \in Web!Groups(RightOf(text, gap)) : x = Web!Filled(left, right)
BY DEF Web!GroupsAround, LeftOf, RightOf

\* A double colon is two colons.
LEMMA GapsAre ==
  ASSUME NEW text, NEW g, g \in Web!Gaps(text), Len(text) \in Nat
  PROVE  /\ g \in Nat /\ g >= 1 /\ g + 1 <= Len(text)
         /\ text[g] = Web!Colon /\ text[g + 1] = Web!Colon
BY DEF Web!Gaps

\* Both sides of it are parts of the text.
LEMMA BothSidesAre ==
  ASSUME NEW text \in Seq(Int), NEW g, g \in Web!Gaps(text)
  PROVE  /\ IsCut(LeftOf(text, g), text, 0, g - 1, Int)
         /\ IsCut(RightOf(text, g), text, g + 1, Len(text), Int)
<1>1. Len(text) \in Nat
  BY LenProperties
<1>2. g \in Nat /\ g >= 1 /\ g + 1 <= Len(text)
  BY <1>1, GapsAre
<1>3. IsCut(LeftOf(text, g), text, 0, g - 1, Int)
  <2> DEFINE m == g - 1
  <2>1. m \in Nat /\ 1 = 0 + 1 /\ 0 <= m /\ m <= Len(text) /\ 1 \in Nat /\ 0 \in Nat
    BY <1>1, <1>2
  <2> HIDE DEF m
  <2>2. IsCut(SubSeq(text, 1, m), text, 0, m, Int)
    BY <2>1, Cut
  <2> QED BY <2>2 DEF LeftOf, m
<1>4. IsCut(RightOf(text, g), text, g + 1, Len(text), Int)
  <2> DEFINE m == g + 1
             f == g + 2
             n == Len(text)
  <2>1. m \in Nat /\ f = m + 1 /\ m <= n /\ n <= Len(text) /\ f \in Nat /\ n \in Nat
    BY <1>1, <1>2
  <2> HIDE DEF m, f, n
  <2>2. IsCut(SubSeq(text, f, n), text, m, n, Int)
    BY <2>1, Cut
  <2> QED BY <2>2 DEF RightOf, m, f, n
<1> QED BY <1>3, <1>4

\* With two double colons a text is read around neither.
LEMMA TwoGaps ==
  ASSUME NEW text \in Seq(Int), NEW g, g \in Web!Gaps(text), NEW h, h \in Web!Gaps(text), g < h
  PROVE  Web!GroupsAround(text, g) = {} /\ Web!GroupsAround(text, h) = {}
<1> DEFINE n == Len(text)
           right == RightOf(text, g)
           left == LeftOf(text, h)
<1>1. n \in Nat /\ g \in Nat /\ h \in Nat /\ g >= 1 /\ h >= 2 /\ g + 1 <= h /\ h + 1 <= n
  BY GapsAre, LenProperties
<1>2. text[g] = Web!Colon /\ text[g + 1] = Web!Colon /\ text[h] = Web!Colon /\ text[h + 1] = Web!Colon
  BY GapsAre, <1>1
<1>3. IsCut(right, text, g + 1, n, Int) /\ IsCut(left, text, 0, h - 1, Int)
  BY BothSidesAre
<1> HIDE DEF n, right, left
<1>4. /\ right \in Seq(Int) /\ Len(right) = n - (g + 1) /\ \A k \in 1..(n - (g + 1)) : right[k] = text[(g + 1) + k]
      /\ left \in Seq(Int) /\ Len(left) = h - 1 /\ \A k \in 1..(h - 1) : left[k] = text[k]
  <2>1. (h - 1) - 0 = h - 1 /\ \A k \in 1..(h - 1) : 0 + k = k
    BY <1>1
  <2>2. right \in Seq(Int) /\ Len(right) = n - (g + 1) /\ \A k \in 1..(n - (g + 1)) : right[k] = text[(g + 1) + k]
    BY <1>3 DEF IsCut
  <2>3. left \in Seq(Int) /\ Len(left) = (h - 1) - 0 /\ \A k \in 1..((h - 1) - 0) : left[k] = text[0 + k]
    BY <1>3 DEF IsCut
  <2>4. \A k \in 1..(h - 1) : left[k] = text[k]
    BY <2>1, <2>3
  <2> QED BY <2>1, <2>2, <2>3, <2>4
<1>5. right # <<>> /\ ~Alternates(right)
  <2>1. Len(right) \in Nat /\ Len(right) >= 1
    BY <1>1, <1>4
  <2>2. CASE h = g + 1
    <3>1. 1 \in 1..(n - (g + 1)) /\ (g + 1) + 1 = h + 1
      BY <1>1, <2>2
    <3>2. right[1] = Web!Colon
      BY <1>2, <1>4, <3>1
    <3>3. ~Alternates(right)
      BY <1>4, <3>2, EndsInNumbers
    <3> QED BY <2>1, <3>3, EmptySeq
  <2>3. CASE h # g + 1
    <3> DEFINE i == h - (g + 1)
    <3>1. /\ i \in Nat /\ i \in 1..(n - (g + 1)) /\ i + 1 \in 1..(n - (g + 1))
          /\ (g + 1) + i = h /\ (g + 1) + (i + 1) = h + 1
      BY <1>1, <2>3
    <3> HIDE DEF i
    <3>2. right[i] = Web!Colon
      BY <1>2, <1>4, <3>1
    <3>3. right[i + 1] = Web!Colon
      BY <1>2, <1>4, <3>1
    <3>4. i \in 1..Len(right) /\ i + 1 \in 1..Len(right)
      BY <1>4, <3>1
    <3>5. ~Alternates(right)
      BY <3>1, <3>2, <3>3, <3>4, NoGap
    <3> QED BY <2>1, <3>5, EmptySeq
  <2> QED BY <2>2, <2>3
<1>6. left # <<>> /\ ~Alternates(left)
  <2>1. Len(left) \in Nat /\ Len(left) >= 1
    BY <1>1, <1>4
  <2>2. CASE h = g + 1
    <3>1. h - 1 = g /\ g \in 1..(h - 1)
      BY <1>1, <2>2
    <3>2. left[Len(left)] = Web!Colon
      BY <1>2, <1>4, <3>1
    <3>3. ~Alternates(left)
      BY <1>4, <3>2, EndsInNumbers
    <3> QED BY <2>1, <3>3, EmptySeq
  <2>3. CASE h # g + 1
    <3>1. g \in 1..(h - 1) /\ g + 1 \in 1..(h - 1)
      BY <1>1, <2>3
    <3>2. left[g] = Web!Colon /\ left[g + 1] = Web!Colon
      BY <1>2, <1>4, <3>1
    <3>3. ~Alternates(left)
      BY <1>1, <1>4, <3>1, <3>2, NoGap
    <3> QED BY <2>1, <3>3, EmptySeq
  <2> QED BY <2>2, <2>3
<1>7. Web!Groups(right) = {} /\ Web!Groups(left) = {}
  BY <1>4, <1>5, <1>6, GroupsAre
<1> QED BY <1>7, AroundIs DEF right, left

\* The groups of a text without zone and dotted tail.
ReadGroups(t) == IF Web!Gaps(t) = {} THEN Web!Groups(t) ELSE UNION {Web!GroupsAround(t, gap) : gap \in Web!Gaps(t)}

\* They are read in one way.
LEMMA ReadOnce ==
  ASSUME NEW text \in Seq(Int), NEW groups \in ReadGroups(text)
  PROVE  groups \in Seq(Web!GroupValue) /\ ReadGroups(text) = {groups}
<1>1. CASE Web!Gaps(text) = {}
  BY <1>1, GroupsRead DEF ReadGroups
<1>2. CASE Web!Gaps(text) # {}
  <2>1. ReadGroups(text) = UNION {Web!GroupsAround(text, gap) : gap \in Web!Gaps(text)}
    BY <1>2 DEF ReadGroups
  <2>2. PICK g \in Web!Gaps(text) : groups \in Web!GroupsAround(text, g)
    BY <2>1
  <2>3. PICK left, right : left \in Web!Groups(LeftOf(text, g)) /\ right \in Web!Groups(RightOf(text, g)) /\ groups = Web!Filled(left, right)
    BY <2>2, AroundIs
  <2>4. LeftOf(text, g) \in Seq(Int) /\ RightOf(text, g) \in Seq(Int)
    BY BothSidesAre DEF IsCut
  <2>5. /\ left \in Seq(Web!GroupValue) /\ Web!Groups(LeftOf(text, g)) = {left}
        /\ right \in Seq(Web!GroupValue) /\ Web!Groups(RightOf(text, g)) = {right}
    BY <2>3, <2>4, GroupsRead
  <2>6. groups \in Seq(Web!GroupValue)
    BY <2>3, <2>5, FilledIs
  <2>7. \A x : x \in Web!GroupsAround(text, g) => x = groups
    BY <2>3, <2>5, AroundIs
  <2>8. \A h \in Web!Gaps(text) : h = g
    <3> TAKE h \in Web!Gaps(text)
    <3>1. g \in Nat /\ h \in Nat
      BY GapsAre, LenProperties
    <3>2. ~(g < h)
      BY <2>2, TwoGaps
    <3>3. ~(h < g)
      BY <2>2, TwoGaps
    <3> QED BY <3>1, <3>2, <3>3
  <2>9. \A x : x \in ReadGroups(text) => x = groups
    BY <2>1, <2>7, <2>8
  <2> QED BY <2>6, <2>9
<1> QED BY <1>1, <1>2

\* A sequence of length n is a function of its places.
LEMMA FunctionOf ==
  ASSUME NEW S, NEW n, NEW s \in Seq(S), Len(s) = n
  PROVE  s \in [1..n -> S]
<1>1. DOMAIN s = 1..n /\ \A i \in 1..n : s[i] \in S
  BY LenProperties, ElementOfSeq
<1>2. s = [i \in 1..n |-> s[i]]
  BY <1>1
<1> QED BY <1>1, <1>2

\* An address is read as one sequence of groups, or not at all.
LEMMA AddressIsOne ==
  ASSUME NEW text \in Seq(Int), NEW groups \in Web!Ipv6Groups(text)
  PROVE  groups \in [1..8 -> Web!GroupValue] /\ Web!Ipv6Groups(text) = {groups}
<1> DEFINE plain == Web!WithoutZone(text)
<1>1. Web!Ipv6Groups(text) = {x \in UNION {ReadGroups(t) : t \in Web!Undotted(plain)} : Len(x) = 8}
  BY DEF Web!Ipv6Groups, ReadGroups
<1>2. plain \in Seq(Int)
  BY ZoneTaken
<1> HIDE DEF plain
<1>3. PICK t \in Web!Undotted(plain) : groups \in ReadGroups(t)
  BY <1>1
<1>4. t \in Seq(Int) /\ Web!Undotted(plain) = {t}
  BY <1>2, UndottedOnce
<1>5. groups \in Seq(Web!GroupValue) /\ ReadGroups(t) = {groups}
  BY <1>3, <1>4, ReadOnce
<1>6. Len(groups) = 8
  BY <1>1
<1>7. Web!Ipv6Groups(text) = {groups}
  BY <1>1, <1>4, <1>5, <1>6
<1>8. groups \in [1..8 -> Web!GroupValue]
  BY <1>5, <1>6, FunctionOf
<1> QED BY <1>7, <1>8

-----------------------------------------------------------------------------
(* Documents of a did:web issuer (trust-policy.ts) *)

\* An address that a resolver is to keep away from: a reserved one, or one it cannot read.
IsReserved(a) ==
  CASE a.family = 4 -> Web!Reserved4(a.octets)
    [] a.family = 6 -> \/ Web!Ipv6Groups(a.text) = {}
                       \/ \E g \in Web!Ipv6Groups(a.text) : Web!Reserved6(Web!BytesOfGroups(g))
    [] OTHER -> TRUE

\* What the resolver keeps away from is what is reserved or cannot be read.
LEMMA AddressesJudged ==
  ASSUME NEW a, IsAddress(a)
  PROVE  Web!PrivateAddress(a) <=> IsReserved(a)
<1>1. CASE a.family = 4
  <2>1. a.octets \in Address(4)
    BY <1>1 DEF IsAddress, Address, Byte
  <2>2. Web!PrivateAddress(a) <=> Web!PrivateIpv4(a.octets)
    BY <1>1 DEF Web!PrivateAddress
  <2>3. IsReserved(a) <=> Web!Reserved4(a.octets)
    BY <1>1 DEF IsReserved
  <2> QED BY <2>1, <2>2, <2>3, Ipv4Blocks
<1>2. CASE a.family = 6
  <2>1. a.text \in Seq(Int)
    BY <1>2 DEF IsAddress
  <2>2. Web!PrivateAddress(a) <=> \A g \in Web!Ipv6Groups(a.text) : Web!PrivateIpv6(Web!BytesOfGroups(g))
    BY <1>2 DEF Web!PrivateAddress
  <2>3. IsReserved(a) <=> \/ Web!Ipv6Groups(a.text) = {}
                          \/ \E g \in Web!Ipv6Groups(a.text) : Web!Reserved6(Web!BytesOfGroups(g))
    BY <1>2 DEF IsReserved
  <2>4. CASE Web!Ipv6Groups(a.text) = {}
    BY <2>2, <2>3, <2>4
  <2>5. CASE Web!Ipv6Groups(a.text) # {}
    <3>1. PICK g : g \in Web!Ipv6Groups(a.text)
      BY <2>5
    <3>2. g \in [1..8 -> Web!GroupValue] /\ Web!Ipv6Groups(a.text) = {g}
      BY <2>1, <3>1, AddressIsOne
    <3>3. Web!PrivateIpv6(Web!BytesOfGroups(g)) <=> Web!Reserved6(Web!BytesOfGroups(g))
      BY <3>2, BytesInGroups, Ipv6Blocks
    <3> QED BY <2>2, <2>3, <3>2, <3>3
  <2> QED BY <2>4, <2>5
<1>3. CASE a.family # 4 /\ a.family # 6
  BY <1>3 DEF Web!PrivateAddress, IsReserved
<1> QED BY <1>1, <1>2, <1>3

\* The resolver does not keep away from what is public by the address plan.
LEMMA PublicIsTaken ==
  ASSUME NEW a, IsAddress(a), Web!PublicAddress(a)
  PROVE  ~IsReserved(a)
<1>1. CASE a.family = 4
  BY <1>1 DEF Web!PublicAddress, IsReserved
<1>2. CASE a.family = 6
  <2>1. a.text \in Seq(Int) /\ a.family # 4
    BY <1>2 DEF IsAddress
  <2>2. Web!Ipv6Groups(a.text) # {} /\ \A g \in Web!Ipv6Groups(a.text) : Web!Public6(Web!BytesOfGroups(g))
    BY <1>2, <2>1 DEF Web!PublicAddress
  <2>3. ASSUME NEW g \in Web!Ipv6Groups(a.text) PROVE ~Web!Reserved6(Web!BytesOfGroups(g))
    <3>1. g \in [1..8 -> Web!GroupValue]
      BY <2>1, <2>3, AddressIsOne
    <3>2. Web!BytesOfGroups(g) \in Address(16)
      BY <3>1, BytesInGroups
    <3> QED BY <2>2, <2>3, <3>2, PublicIsNotReserved
  <2> QED BY <1>2, <2>1, <2>2, <2>3 DEF IsReserved
<1>3. CASE a.family # 4 /\ a.family # 6
  BY <1>3 DEF Web!PublicAddress
<1> QED BY <1>1, <1>2, <1>3

\* The bytes of the chunks up to each of them.
AreTotals(chunks, n, h) == h[0] = 0 /\ \A k \in 1..n : h[k] = h[k - 1] + chunks[k]
\* The bytes of all chunks are those up to the last.
HasTotals(chunks, n) == \E h \in [0..n -> Nat] : AreTotals(chunks, n, h) /\ Web!TotalOf(chunks) = h[n]

\* They are so for every sequence of chunks.
LEMMA TotalFold ==
  ASSUME NEW chunks \in Seq(Nat), NEW n \in Nat, n = Len(chunks)
  PROVE  HasTotals(chunks, n)
<1> DEFINE It(f) == [s \in SUBSET (DOMAIN chunks) |-> IF s = {} THEN 0 ELSE f[s \ {Max(s)}] + chunks[Max(s)]]
           iter == CHOOSE f : f = It(f)
           G == [p \in Nat \X (1..n) |-> p[1] + chunks[p[2]]]
<1>0. DOMAIN chunks = 1..n /\ \A k \in 1..n : chunks[k] \in Nat
  BY LenProperties, ElementOfSeq
<1>1. Web!TotalOf(chunks) = iter[DOMAIN chunks]
  BY DEF Web!TotalOf, Web!FoldLeft, Web!MapThenFoldSet, Web!Max, Max
<1>2. IsStep(G, n, Nat)
  BY <1>0 DEF IsStep
<1>3. ASSUME NEW f, NEW s \in SUBSET (1..n), s # {}, f[s \ {Max(s)}] \in Nat
      PROVE  It(f)[s] = G[<<f[s \ {Max(s)}], Max(s)>>]
  <2>1. Max(s) \in 1..n
    BY <1>3, MaxInside
  <2> QED BY <1>0, <1>3, <2>1
<1>4. iter = It(iter)
  <2>1. PICK f \in [SUBSET (1..n) -> Nat] : Folds(f, 0, n, G)
    <3>1. HasFold(0, n, G, Nat)
      <4> HIDE DEF G
      <4> QED BY <1>2, FoldExists
    <3> QED BY <3>1 DEF HasFold
  <2>2. \A s \in SUBSET (1..n) : f[s \ {Max(s)}] \in Nat
    OBVIOUS
  <2>3. \A s \in SUBSET (1..n) : f[s] = It(f)[s]
    <3> TAKE s \in SUBSET (1..n)
    <3>1. CASE s = {}
      <4>1. f[s] = 0
        BY <2>1, <3>1 DEF Folds
      <4>2. It(f)[s] = 0
        BY <1>0, <3>1
      <4> QED BY <4>1, <4>2
    <3>2. CASE s # {}
      <4>1. f[s] = G[<<f[s \ {Max(s)}], Max(s)>>]
        <5> HIDE DEF G
        <5> QED BY <2>1, <3>2 DEF Folds
      <4>2. It(f)[s] = G[<<f[s \ {Max(s)}], Max(s)>>]
        <5>1. f[s \ {Max(s)}] \in Nat
          BY <2>2
        <5> HIDE DEF G, It
        <5> QED BY <1>3, <3>2, <5>1
      <4> QED BY <4>1, <4>2
    <3> QED BY <3>1, <3>2
  <2>4. f = [s \in SUBSET (1..n) |-> f[s]]
    OBVIOUS
  <2>5. It(f) = [s \in SUBSET (1..n) |-> It(f)[s]]
    BY <1>0
  <2> HIDE DEF It
  <2>6. f = It(f)
    BY <2>3, <2>4, <2>5
  <2> QED BY <2>6
<1>5. FoldsWithin(iter, 0, n, G, Nat)
  <2>1. iter[{}] = 0
    BY <1>4
  <2> HIDE DEF iter, G
  <2>2. \A s \in SUBSET (1..n) : iter[s] = It(iter)[s]
    BY <1>0, <1>4
  <2> HIDE DEF It
  <2> QED BY <1>3, <2>1, <2>2 DEF FoldsWithin
<1>7. PICK h \in [0..n -> Nat] : IsChain(h, 0, n, G) /\ iter[1..n] = h[n]
  <2>1. HasChain(iter, 0, n, G, Nat)
    <3> HIDE DEF G, iter
    <3> QED BY <1>2, <1>5, FoldChain
  <2> QED BY <2>1 DEF HasChain
<1>8. \A k \in 1..n : h[k] = h[k - 1] + chunks[k]
  <2> TAKE k \in 1..n
  <2>1. h[k-1] \in Nat
    OBVIOUS
  <2> QED BY <1>7, <2>1 DEF IsChain
<1> HIDE DEF iter
<1> QED BY <1>0, <1>1, <1>7, <1>8 DEF IsChain, HasTotals, AreTotals

\* What has been read never is more than what there is.
LEMMA TotalsGrow ==
  ASSUME NEW chunks \in Seq(Nat), NEW i \in DOMAIN chunks
  PROVE  Web!TotalOf(chunks) \in Nat /\ Web!TotalOf(SubSeq(chunks, 1, i)) \in Nat
         /\ Web!TotalOf(SubSeq(chunks, 1, i)) <= Web!TotalOf(chunks)
<1> DEFINE n == Len(chunks)
           part == SubSeq(chunks, 1, i)
<1>1. n \in Nat /\ i \in 1..n /\ i \in Nat /\ \A k \in 1..n : chunks[k] \in Nat
  BY LenProperties, ElementOfSeq
<1>2. part \in Seq(Nat) /\ Len(part) = i /\ \A k \in 1..i : part[k] = chunks[k]
  <2>1. IsCut(part, chunks, 0, i, Nat)
    <3>1. 1 = 0 + 1 /\ 0 <= i /\ i <= Len(chunks) /\ 1 \in Nat /\ 0 \in Nat
      BY <1>1
    <3> QED BY <1>1, <3>1, Cut
  <2>2. i - 0 = i /\ \A k \in 1..i : 0 + k = k
    BY <1>1
  <2> HIDE DEF part
  <2>3. part \in Seq(Nat) /\ Len(part) = i - 0 /\ \A k \in 1..(i - 0) : part[k] = chunks[0 + k]
    BY <2>1 DEF IsCut
  <2>4. \A k \in 1..i : part[k] = chunks[k]
    BY <2>2, <2>3
  <2> QED BY <2>2, <2>3, <2>4
<1> HIDE DEF part, n
<1>3. PICK h \in [0..n -> Nat] : AreTotals(chunks, n, h) /\ Web!TotalOf(chunks) = h[n]
  BY <1>1, TotalFold DEF HasTotals, n
<1>4. PICK g \in [0..i -> Nat] : AreTotals(part, i, g) /\ Web!TotalOf(part) = g[i]
  BY <1>1, <1>2, TotalFold DEF HasTotals
<1> DEFINE T == {k \in Nat : k <= n => (k <= i => g[k] = h[k]) /\ (k >= i => g[i] <= h[k])}
<1>5. 0 \in T
  BY <1>1, <1>3, <1>4 DEF AreTotals
<1>6. ASSUME NEW k \in T PROVE k + 1 \in T
  <2> DEFINE j == k + 1
  <2> SUFFICES ASSUME j <= n PROVE (j <= i => g[j] = h[j]) /\ (j >= i => g[i] <= h[j])
    OBVIOUS
  <2>1. k \in Nat /\ (k <= i => g[k] = h[k]) /\ (k >= i => g[i] <= h[k]) /\ j \in 1..n /\ j - 1 = k /\ j = k + 1 /\ k \in 0..n
    BY <1>1
  <2> HIDE DEF j, T
  <2>2. h[j] = h[k] + chunks[j] /\ h[k] \in Nat /\ chunks[j] \in Nat /\ g[i] \in Nat /\ h[j] \in Nat
    <3>1. h[j] = h[k] + chunks[j]
      BY <1>3, <2>1 DEF AreTotals
    <3>2. chunks[j] \in Nat
      BY <1>1, <2>1
    <3>3. i \in 0..i /\ j \in 0..n
      BY <1>1, <2>1
    <3>4. g[i] \in Nat
      BY <3>3
    <3>5. h[k] \in Nat /\ h[j] \in Nat
      BY <2>1, <3>3
    <3> QED BY <3>1, <3>2, <3>4, <3>5
  <2>3. j <= i => g[j] = h[j]
    <3> SUFFICES ASSUME j <= i PROVE g[j] = h[j]
      OBVIOUS
    <3>1. j \in 1..i /\ k <= i
      BY <1>1, <2>1
    <3>2. g[j] = g[k] + part[j]
      BY <1>4, <2>1, <3>1 DEF AreTotals
    <3>3. part[j] = chunks[j]
      BY <1>2, <3>1
    <3> QED BY <2>1, <2>2, <3>1, <3>2, <3>3
  <2>4. j >= i => g[i] <= h[j]
    <3>1. CASE j = i
      BY <2>2, <2>3, <3>1
    <3>2. CASE j # i /\ j >= i
      <4>1. k >= i
        BY <1>1, <2>1, <3>2
      <4>2. g[i] <= h[k]
        BY <2>1, <4>1
      <4> QED BY <2>2, <4>2
    <3> QED BY <3>1, <3>2
  <2> QED BY <2>3, <2>4
<1>7. T = Nat
  <2> HIDE DEF T
  <2>1. T \in SUBSET Nat
    BY DEF T
  <2> QED BY <1>5, <1>6, <2>1, Induction
<1>8. g[i] <= h[n]
  <2>1. n \in T
    <3> HIDE DEF T
    <3> QED BY <1>1, <1>7
  <2> QED BY <1>1, <2>1
<1> QED BY <1>1, <1>3, <1>4, <1>8 DEF part

\* The first method a key id names.
FirstNamed(methods, keyId) == Web!SelectInSeq(methods, LAMBDA m : Web!Names(m, keyId))
\* Two key ids that name the same of the first n methods.
NamedAlike(methods, n, keyId, other) == \A k \in 1..n : Web!Names(methods[k], keyId) <=> Web!Names(methods[k], other)

\* It is the one that no other named one stands before, and none when none is named.
LEMMA FirstNamedIs ==
  ASSUME NEW methods, NEW n \in Nat, n = Len(methods), NEW keyId
  PROVE  /\ (\A k \in 1..n : ~Web!Names(methods[k], keyId)) => FirstNamed(methods, keyId) = 0
         /\ \A i \in 1..n : /\ Web!Names(methods[i], keyId)
                            /\ \A k \in 1..n : Web!Names(methods[k], keyId) => i <= k
                            => FirstNamed(methods, keyId) = i
         /\ FirstNamed(methods, keyId) \in 0..n
         /\ FirstNamed(methods, keyId) # 0 => Web!Names(methods[FirstNamed(methods, keyId)], keyId)
<1> DEFINE I == {i \in 1..Len(methods) : Web!Names(methods[i], keyId)}
<1>1. FirstNamed(methods, keyId) = IF I # {} THEN Min(I) ELSE 0
  BY DEF FirstNamed, Web!SelectInSeq, Web!Min, Min
<1>2. ASSUME \A k \in 1..n : ~Web!Names(methods[k], keyId) PROVE I = {}
  BY <1>2
<1>3. I \in SUBSET Nat /\ \A k \in I : k \in 1..n /\ Web!Names(methods[k], keyId)
  OBVIOUS
<1>4. ASSUME NEW i \in 1..n, Web!Names(methods[i], keyId), \A k \in 1..n : Web!Names(methods[k], keyId) => i <= k
      PROVE  Min(I) = i /\ I # {}
  <2>1. i \in I /\ \A k \in I : i <= k
    BY <1>4
  <2> HIDE DEF I
  <2> QED BY <1>3, <2>1, MinIs
<1>5. I # {} => Min(I) \in I
  <2> SUFFICES ASSUME I # {} PROVE Min(I) \in I
    OBVIOUS
  <2> HIDE DEF I
  <2>2. PICK i \in I : \A k \in I : i <= k
    BY <1>3, LeastOf
  <2>3. Min(I) = i
    BY <1>3, <2>2, MinIs
  <2> QED BY <2>2, <2>3
<1> HIDE DEF I
<1>6. CASE I = {}
  BY <1>1, <1>2, <1>4, <1>6
<1>7. CASE I # {}
  <2> DEFINE f == FirstNamed(methods, keyId)
  <2>1. f = Min(I) /\ f \in 1..n /\ Web!Names(methods[f], keyId)
    BY <1>1, <1>3, <1>5, <1>7
  <2>2. f \in 0..n /\ ~\A k \in 1..n : ~Web!Names(methods[k], keyId)
    BY <2>1
  <2>3. \A i \in 1..n : /\ Web!Names(methods[i], keyId)
                        /\ \A k \in 1..n : Web!Names(methods[k], keyId) => i <= k
                        => f = i
    BY <1>4, <2>1
  <2> QED BY <2>1, <2>2, <2>3
<1> QED BY <1>6, <1>7

\* Key ids that name the same methods name the same first one.
LEMMA FirstNamedAlike ==
  ASSUME NEW methods, NEW n \in Nat, n = Len(methods), NEW keyId, NEW other, NamedAlike(methods, n, keyId, other)
  PROVE  FirstNamed(methods, keyId) = FirstNamed(methods, other)
<1> DEFINE T == {k \in 1..n : Web!Names(methods[k], keyId)}
<1>1. CASE T = {}
  <2>1. \A k \in 1..n : ~Web!Names(methods[k], keyId)
    BY <1>1
  <2>2. \A k \in 1..n : ~Web!Names(methods[k], other)
    BY <2>1 DEF NamedAlike
  <2> QED BY <2>1, <2>2, FirstNamedIs
<1>2. CASE T # {}
  <2>0. T \in SUBSET Nat
    OBVIOUS
  <2>1. PICK i \in T : \A k \in T : i <= k
    <3> HIDE DEF T
    <3> QED BY <1>2, <2>0, LeastOf
  <2>2. i \in 1..n /\ Web!Names(methods[i], keyId) /\ \A k \in 1..n : Web!Names(methods[k], keyId) => i <= k
    BY <2>1
  <2>3. Web!Names(methods[i], other) /\ \A k \in 1..n : Web!Names(methods[k], other) => i <= k
    BY <2>2 DEF NamedAlike
  <2>4. FirstNamed(methods, keyId) = i
    BY <2>2, FirstNamedIs
  <2>5. FirstNamed(methods, other) = i
    BY <2>2, <2>3, FirstNamedIs
  <2> QED BY <2>4, <2>5
<1> QED BY <1>1, <1>2

\* A method with a fragment is named by it, and by nothing else.
LEMMA NamedByFragment ==
  ASSUME NEW method, method.id.fragment # "", NEW keyId, keyId.base # "" \/ keyId.fragment # ""
  PROVE  /\ Web!RequestedFragment(keyId) # ""
         /\ Web!Names(method, keyId) <=> Web!Fragment(method.id) = Web!RequestedFragment(keyId)
BY DEF Web!Names, Web!RequestedFragment, Web!Fragment

\* A key that is resolved: the page it is of, and what that page is.
Answers(k, url, did, keyId, world, max) ==
  /\ Web!PublicAddresses(world.dns)
  /\ url \in DOMAIN world.pages
  /\ world.pages[url].ok /\ world.pages[url].json
  /\ Web!BoundedBody(world.pages[url].declared, world.pages[url].chunks, max)
  /\ \E key \in Web!SignerKey(world.pages[url].document, did, keyId) :
       k = [issuer |-> did.name, keyId |-> keyId, url |-> url, publicKey |-> key]

\* A key is resolved when it is the one of the page of the DID's document.
LEMMA ResolutionIs ==
  ASSUME NEW did, NEW keyId, NEW domains, NEW world, NEW max, NEW k
  PROVE  k \in Web!Resolution(did, keyId, domains, world, max) <=>
           \E url \in Web!UrlOf(did, domains) : Answers(k, url, did, keyId, world, max)
<1> DEFINE Of(url, page) ==
             IF page.ok /\ Web!BoundedBody(page.declared, page.chunks, max) /\ page.json
             THEN {[issuer |-> did.name, keyId |-> keyId, url |-> url, publicKey |-> key] : key \in Web!SignerKey(page.document, did, keyId)}
             ELSE {}
           Pages(url) == IF Web!PublicAddresses(world.dns) THEN Web!Served(world, url) ELSE {}
<1>1. Web!Resolution(did, keyId, domains, world, max) =
        UNION {UNION {Of(url, page) : page \in Pages(url)} : url \in Web!UrlOf(did, domains)}
  BY DEF Web!Resolution
<1>2. ASSUME NEW url PROVE k \in UNION {Of(url, page) : page \in Pages(url)} <=> Answers(k, url, did, keyId, world, max)
  <2>1. \A page : page \in Pages(url) <=> Web!PublicAddresses(world.dns) /\ url \in DOMAIN world.pages /\ page = world.pages[url]
    BY DEF Web!Served
  <2>2. k \in UNION {Of(url, page) : page \in Pages(url)} <=> \E page \in Pages(url) : k \in Of(url, page)
    OBVIOUS
  <2>3. k \in UNION {Of(url, page) : page \in Pages(url)} <=>
          Web!PublicAddresses(world.dns) /\ url \in DOMAIN world.pages /\ k \in Of(url, world.pages[url])
    <3> HIDE DEF Of, Pages
    <3> QED BY <2>1, <2>2
  <2> QED BY <2>3 DEF Answers
<1> HIDE DEF Of, Pages
<1> QED BY <1>1, <1>2

\* A DID has one document, at the host it names.
LEMMA UrlIsOne ==
  ASSUME NEW did, NEW domains, NEW url \in Web!UrlOf(did, domains)
  PROVE  /\ \A other \in Web!UrlOf(did, domains) : other = url
         /\ \E d \in domains : Web!IsSuffix(d, url.host)
BY DEF Web!UrlOf, Web!AllowedDomain

\* The key of a DID's document is the one of the first method that the key id names.
LEMMA SignerKeyIs ==
  ASSUME NEW document, NEW did, NEW keyId
  PROVE  Web!SignerKey(document, did, keyId) =
           IF document.id \subseteq {did.name} /\ FirstNamed(document.methods, keyId) # 0
           THEN Web!ExtractKey(document.methods[FirstNamed(document.methods, keyId)]) ELSE {}
BY DEF Web!SignerKey, FirstNamed

\* A key id that says something.
IsReference(r) == r.base # "" \/ r.fragment # ""
\* A key id in full: the DID and its fragment.
Rewritten(did, keyId) == [base |-> did.name, fragment |-> Web!RequestedFragment(keyId)]

\* In a document whose methods all have fragments both ways to write a key id name the same methods.
HasFragments(document) == \A i \in DOMAIN document.methods : Web!Fragment(document.methods[i].id) # ""

\* A key id and its full form find the same key in a document.
LEMMA SameKey ==
  ASSUME NEW document, document.methods \in Seq(Web!ToSet(document.methods)), HasFragments(document),
         NEW did, NEW keyId, IsReference(keyId)
  PROVE  Web!SignerKey(document, did, keyId) = Web!SignerKey(document, did, Rewritten(did, keyId))
<1> DEFINE methods == document.methods
           n == Len(methods)
           other == Rewritten(did, keyId)
<1>1. n \in Nat /\ DOMAIN methods = 1..n
  BY LenProperties
<1>2. Web!RequestedFragment(keyId) # ""
  BY DEF IsReference, Web!RequestedFragment, Web!Fragment
<1>3. IsReference(other) /\ Web!RequestedFragment(other) = Web!RequestedFragment(keyId)
  BY <1>2 DEF Rewritten, IsReference, Web!RequestedFragment, Web!Fragment
<1> HIDE DEF other
<1>4. NamedAlike(methods, n, keyId, other)
  <2> SUFFICES ASSUME NEW k \in 1..n PROVE Web!Names(methods[k], keyId) <=> Web!Names(methods[k], other)
    BY DEF NamedAlike
  <2> DEFINE m == methods[k]
  <2>1. Web!Fragment(m.id) # ""
    BY <1>1 DEF HasFragments
  <2> HIDE DEF m
  <2>2. m.id.fragment # ""
    BY <2>1 DEF Web!Fragment
  <2>3. Web!Names(m, keyId) <=> Web!Fragment(m.id) = Web!RequestedFragment(keyId)
    BY <2>2, NamedByFragment DEF IsReference
  <2>4. Web!Names(m, other) <=> Web!Fragment(m.id) = Web!RequestedFragment(other)
    BY <1>3, <2>2, NamedByFragment DEF IsReference
  <2>5. Web!Names(m, keyId) <=> Web!Names(m, other)
    BY <1>3, <2>3, <2>4
  <2> QED BY <2>5 DEF m
<1>5. FirstNamed(methods, keyId) = FirstNamed(methods, other)
  <2> HIDE DEF methods
  <2> QED BY <1>1, <1>4, FirstNamedAlike DEF n
<1> QED BY <1>5, SignerKeyIs DEF other

\* What is published under a key id is the key that it finds.
LEMMA PublishedIsFound ==
  ASSUME NEW document, document.methods \in Seq(Web!ToSet(document.methods)), HasFragments(document),
         NEW did, document.id = {did.name}, NEW keyId, IsReference(keyId)
  PROVE  Web!Published(document, keyId) \subseteq Web!SignerKey(document, did, keyId)
<1> DEFINE methods == document.methods
           n == Len(methods)
           under == {i \in DOMAIN methods : Web!Fragment(methods[i].id) = Web!RequestedFragment(keyId)}
<1>1. n \in Nat /\ DOMAIN methods = 1..n
  BY LenProperties
<1> SUFFICES ASSUME NEW x \in Web!Published(document, keyId) PROVE x \in Web!SignerKey(document, did, keyId)
  OBVIOUS
<1>2. PICK i \in under : under = {i} /\ x \in Web!ExtractKey(methods[i])
  BY DEF Web!Published
<1>3. \A k \in 1..n : Web!Names(methods[k], keyId) <=> k = i
  <2> TAKE k \in 1..n
  <2> DEFINE m == methods[k]
  <2>1. Web!Fragment(m.id) # ""
    BY <1>1 DEF HasFragments
  <2>2. Web!Fragment(m.id) = Web!RequestedFragment(keyId) <=> k = i
    BY <1>1, <1>2
  <2> HIDE DEF m
  <2>3. m.id.fragment # ""
    BY <2>1 DEF Web!Fragment
  <2>4. Web!Names(m, keyId) <=> Web!Fragment(m.id) = Web!RequestedFragment(keyId)
    BY <2>3, NamedByFragment DEF IsReference
  <2>5. Web!Names(m, keyId) <=> k = i
    BY <2>2, <2>4
  <2> QED BY <2>5 DEF m
<1>4. i \in 1..n /\ i # 0
  BY <1>1, <1>2
<1>5. FirstNamed(methods, keyId) = i
  <2> HIDE DEF methods, under
  <2>1. Web!Names(methods[i], keyId) /\ \A k \in 1..n : Web!Names(methods[k], keyId) => i <= k
    BY <1>3, <1>4
  <2> HIDE DEF n
  <2>2. n = Len(methods)
    BY DEF n
  <2> QED BY <1>1, <1>4, <2>1, <2>2, FirstNamedIs
<1>6. document.id \subseteq {did.name}
  OBVIOUS
<1> QED BY <1>2, <1>4, <1>5, <1>6, SignerKeyIs

\* A body as long as it says, and no longer than allowed, is read.
LEMMA BodyIsRead ==
  ASSUME NEW chunks \in Seq(Nat), NEW max \in Nat, Web!TotalOf(chunks) <= max, NEW declared, declared \subseteq {Web!TotalOf(chunks)}
  PROVE  Web!BoundedBody(declared, chunks, max)
<1>1. \A i \in DOMAIN chunks : Web!TotalOf(SubSeq(chunks, 1, i)) <= max
  <2> TAKE i \in DOMAIN chunks
  <2>1. /\ Web!TotalOf(chunks) \in Nat /\ Web!TotalOf(SubSeq(chunks, 1, i)) \in Nat
        /\ Web!TotalOf(SubSeq(chunks, 1, i)) <= Web!TotalOf(chunks)
    BY TotalsGrow
  <2> QED BY <2>1
<1>2. declared \subseteq 0..max
  <2>1. CASE declared = {}
    BY <2>1
  <2>2. CASE declared # {}
    <3>1. HasTotals(chunks, Len(chunks))
      BY TotalFold, LenProperties
    <3>2. Web!TotalOf(chunks) \in Nat
      <4> DEFINE n == Len(chunks)
      <4>1. n \in Nat /\ n \in 0..n
        BY LenProperties
      <4> HIDE DEF n
      <4> QED BY <3>1, <4>1 DEF HasTotals, n
    <3> QED BY <3>2
  <2> QED BY <2>1, <2>2
<1> QED BY <1>1, <1>2 DEF Web!BoundedBody

\* The key of a did:web issuer is one its own document publishes, on a public host.
LEMMA ResolvedIsPublished ==
  ASSUME NEW did, NEW keyId, NEW domains, NEW world, IsWorld(world), NEW max,
         NEW k \in Web!Resolution(did, keyId, domains, world, max)
  PROVE  /\ \E d \in domains : Web!IsSuffix(d, k.url.host)
         /\ \A a \in world.dns : ~IsReserved(a)
         /\ k.issuer = did.name
         /\ \E i \in DOMAIN world.pages[k.url].document.methods :
              k.publicKey \in Web!ExtractKey(world.pages[k.url].document.methods[i])
<1>1. PICK url \in Web!UrlOf(did, domains) : Answers(k, url, did, keyId, world, max)
  BY ResolutionIs
<1>2. PICK key \in Web!SignerKey(world.pages[url].document, did, keyId) :
        k = [issuer |-> did.name, keyId |-> keyId, url |-> url, publicKey |-> key]
  BY <1>1 DEF Answers
<1>3. k.url = url /\ k.issuer = did.name /\ k.publicKey = key
  BY <1>2
<1>4. \E d \in domains : Web!IsSuffix(d, url.host)
  BY UrlIsOne
<1>5. \A a \in world.dns : ~IsReserved(a)
  <2> TAKE a \in world.dns
  <2>1. ~Web!PrivateAddress(a)
    BY <1>1 DEF Answers, Web!PublicAddresses
  <2>2. IsAddress(a)
    BY DEF IsWorld
  <2> QED BY <2>1, <2>2, AddressesJudged
<1>6. \E i \in DOMAIN world.pages[url].document.methods : key \in Web!ExtractKey(world.pages[url].document.methods[i])
  <2> DEFINE document == world.pages[url].document
             methods == document.methods
             n == Len(methods)
             f == FirstNamed(methods, keyId)
  <2>1. methods \in Seq(Web!ToSet(methods))
    <3> DEFINE page == world.pages[url]
    <3>1. IsPage(page)
      BY <1>1 DEF Answers, IsWorld
    <3>2. methods = page.document.methods
      OBVIOUS
    <3> HIDE DEF methods
    <3>3. methods \in Seq(ToSet(methods))
      BY <3>1, <3>2 DEF IsPage
    <3>4. ToSet(methods) = Web!ToSet(methods)
      BY DEF ToSet, Web!ToSet
    <3> QED BY <3>3, <3>4
  <2>2. n \in Nat /\ DOMAIN methods = 1..n /\ n = Len(methods)
    BY <2>1, LenProperties
  <2>3. f # 0 /\ key \in Web!ExtractKey(methods[f])
    <3> HIDE DEF document
    <3>1. key \in Web!SignerKey(document, did, keyId)
      BY <1>2 DEF document
    <3> QED BY <3>1, SignerKeyIs
  <2>4. f \in 0..n
    <3> HIDE DEF methods, n
    <3> QED BY <2>2, FirstNamedIs
  <2>5. f \in DOMAIN methods
    <3> HIDE DEF methods, n, f
    <3> QED BY <2>2, <2>3, <2>4
  <2> HIDE DEF f
  <2> QED BY <2>3, <2>5
<1> QED BY <1>3, <1>4, <1>5, <1>6

\* The keys of what is found.
KeysOf(found) == {k.publicKey : k \in found}

\* What is resolved from the one document of a DID.
LEMMA FoundAre ==
  ASSUME NEW did, NEW keyId, NEW domains, NEW world, NEW max, NEW url \in Web!UrlOf(did, domains),
         url \in DOMAIN world.pages, Web!PublicAddresses(world.dns),
         world.pages[url].ok, world.pages[url].json,
         Web!BoundedBody(world.pages[url].declared, world.pages[url].chunks, max)
  PROVE  KeysOf(Web!Resolution(did, keyId, domains, world, max)) = Web!SignerKey(world.pages[url].document, did, keyId)
<1> DEFINE found == Web!Resolution(did, keyId, domains, world, max)
           keys == Web!SignerKey(world.pages[url].document, did, keyId)
           Record(key) == [issuer |-> did.name, keyId |-> keyId, url |-> url, publicKey |-> key]
<1>1. ASSUME NEW k \in found PROVE k.publicKey \in keys
  <2>1. PICK other \in Web!UrlOf(did, domains) : Answers(k, other, did, keyId, world, max)
    BY <1>1, ResolutionIs
  <2>2. other = url
    BY UrlIsOne
  <2>3. PICK key \in keys : k = Record(key)
    BY <2>1, <2>2 DEF Answers
  <2> QED BY <2>3
<1>2. ASSUME NEW key \in keys PROVE Record(key) \in found
  <2>1. Answers(Record(key), url, did, keyId, world, max)
    BY DEF Answers
  <2> QED BY <2>1, ResolutionIs
<1>3. \A key : Record(key).publicKey = key
  OBVIOUS
<1> HIDE DEF found, keys, Record
<1>4. KeysOf(found) = keys
  BY <1>1, <1>2, <1>3 DEF KeysOf
<1> QED BY <1>4 DEF found, keys

\* A page that is the DID's own, on a public host.
IsServed(page, did, world, max) ==
  /\ page.ok /\ page.json /\ page.declared \subseteq {Web!TotalOf(page.chunks)} /\ Web!TotalOf(page.chunks) <= max
  /\ page.document.id = {did.name}
  /\ HasFragments(page.document)
  /\ world.dns # {} /\ \A a \in world.dns : Web!PublicAddress(a)

\* A key is found as it is published, however its id is written.
LEMMA PublishedIsResolved ==
  ASSUME NEW did, NEW keyId, IsReference(keyId), NEW domains, NEW world, IsWorld(world), NEW max \in Nat,
         NEW url \in Web!UrlOf(did, domains) \cap DOMAIN world.pages,
         IsServed(world.pages[url], did, world, max)
  PROVE  /\ Web!Published(world.pages[url].document, keyId) \subseteq KeysOf(Web!Resolution(did, keyId, domains, world, max))
         /\ KeysOf(Web!Resolution(did, keyId, domains, world, max)) =
              KeysOf(Web!Resolution(did, Rewritten(did, keyId), domains, world, max))
<1> DEFINE page == world.pages[url]
           document == page.document
<1>1. IsPage(page)
  BY DEF IsWorld
<1>2. Web!BoundedBody(page.declared, page.chunks, max)
  <2> HIDE DEF page
  <2>1. page.chunks \in Seq(Nat)
    BY <1>1 DEF IsPage
  <2>2. page.declared \subseteq {Web!TotalOf(page.chunks)} /\ Web!TotalOf(page.chunks) <= max
    BY DEF page, IsServed
  <2> QED BY <2>1, <2>2, BodyIsRead
<1>3. Web!PublicAddresses(world.dns)
  <2>1. world.dns # {} /\ \A a \in world.dns : ~IsReserved(a) /\ IsAddress(a)
    BY PublicIsTaken DEF IsWorld, IsServed
  <2> QED BY <2>1, AddressesJudged DEF Web!PublicAddresses
<1>4. document.methods \in Seq(Web!ToSet(document.methods)) /\ HasFragments(document) /\ document.id = {did.name}
  <2>1. IsServed(page, did, world, max)
    OBVIOUS
  <2>3. HasFragments(document) /\ document.id = {did.name}
    <3> HIDE DEF page
    <3>1. HasFragments(page.document) /\ page.document.id = {did.name}
      BY <2>1 DEF IsServed
    <3> QED BY <3>1
  <2> HIDE DEF page
  <2> DEFINE methods == document.methods
  <2>2. methods \in Seq(ToSet(methods))
    BY <1>1 DEF IsPage
  <2> HIDE DEF methods
  <2>4. ToSet(methods) = Web!ToSet(methods)
    BY DEF ToSet, Web!ToSet
  <2>5. methods \in Seq(Web!ToSet(methods))
    BY <2>2, <2>4
  <2> QED BY <2>3, <2>5 DEF methods
<1>5. page.ok /\ page.json
  BY DEF IsServed
<1>6. \A id : KeysOf(Web!Resolution(did, id, domains, world, max)) = Web!SignerKey(document, did, id)
  <2> TAKE id
  <2>1. url \in Web!UrlOf(did, domains) /\ url \in DOMAIN world.pages
    OBVIOUS
  <2>2. KeysOf(Web!Resolution(did, id, domains, world, max)) = Web!SignerKey(world.pages[url].document, did, id)
    BY <1>2, <1>3, <1>5, <2>1, FoundAre
  <2> QED BY <2>2
<1> HIDE DEF document
<1>7. Web!SignerKey(document, did, keyId) = Web!SignerKey(document, did, Rewritten(did, keyId))
  BY <1>4, SameKey
<1>8. Web!Published(document, keyId) \subseteq Web!SignerKey(document, did, keyId)
  BY <1>4, PublishedIsFound
<1> QED BY <1>6, <1>7, <1>8 DEF document

\* A did:web key is resolved as it is published.
THEOREM ResolutionsAsPublished ==
  ASSUME NEW did, NEW keyId, IsReference(keyId), NEW domains, NEW world, IsWorld(world), NEW max \in Nat
  PROVE  Web!ResolvedAsPublished(did, keyId, domains, world, max)
<1> DEFINE found == Web!Resolution(did, keyId, domains, world, max)
           Good(url) ==
             LET page == world.pages[url]
             IN /\ page.ok /\ page.json /\ page.declared \subseteq {Web!TotalOf(page.chunks)} /\ Web!TotalOf(page.chunks) <= max
                /\ page.document.id = {did.name}
                /\ \A i \in DOMAIN page.document.methods : Web!Fragment(page.document.methods[i].id) # ""
                /\ world.dns # {} /\ \A a \in world.dns : Web!PublicAddress(a)
           One(k) ==
             /\ \E d \in domains : Web!IsSuffix(d, k.url.host)
             /\ \A a \in world.dns : ~IsReserved(a)
             /\ k.issuer = did.name
             /\ \E i \in DOMAIN world.pages[k.url].document.methods :
                  k.publicKey \in Web!ExtractKey(world.pages[k.url].document.methods[i])
           Other(url) ==
             /\ Web!Published(world.pages[url].document, keyId) \subseteq {k.publicKey : k \in found}
             /\ {k.publicKey : k \in found} =
                  {k.publicKey : k \in Web!Resolution(did, [base |-> did.name, fragment |-> Web!RequestedFragment(keyId)], domains, world, max)}
<1>1. Web!ResolvedAsPublished(did, keyId, domains, world, max) <=>
        /\ \A k \in found : One(k)
        /\ \A url \in Web!UrlOf(did, domains) \cap DOMAIN world.pages : Good(url) => Other(url)
  BY DEF Web!ResolvedAsPublished, IsReserved
<1>2. \A k \in found : One(k)
  BY ResolvedIsPublished
<1>3. ASSUME NEW url \in Web!UrlOf(did, domains) \cap DOMAIN world.pages, Good(url) PROVE Other(url)
  <2>1. /\ Web!Published(world.pages[url].document, keyId) \subseteq KeysOf(found)
        /\ KeysOf(found) = KeysOf(Web!Resolution(did, Rewritten(did, keyId), domains, world, max))
    <3>1. IsServed(world.pages[url], did, world, max)
      BY <1>3 DEF IsServed, HasFragments
    <3> QED BY <3>1, PublishedIsResolved
  <2> QED BY <2>1 DEF KeysOf, Rewritten
<1> HIDE DEF Good, One, Other, found
<1> QED BY <1>1, <1>2, <1>3

-----------------------------------------------------------------------------
(* IPv6 addresses as they are written *)

\* What stands in an address without a zone or a dotted tail.
PlainValue == Web!GroupValue \cup {Web!Colon}

\* Numbers of groups and marks are told apart.
LEMMA PlainMarks ==
  /\ Web!GroupValue \subseteq PlainValue /\ Web!Colon \in PlainValue /\ PlainValue \subseteq Int
  /\ Web!Dot \notin PlainValue /\ Web!Percent \notin PlainValue /\ Web!Dot # Web!Colon /\ Web!Percent # Web!Colon
  /\ Web!Dot \in Int /\ Web!Percent \in Int
<1>1. Web!Colon = -1 /\ Web!Dot = -2 /\ Web!Percent = -3
  BY DEF Web!Colon, Web!Dot, Web!Percent
<1>2. \A i \in Web!GroupValue : i \in Int /\ i >= 0
  BY GroupsAreNumbers
<1>3. \A i : i \in PlainValue <=> i \in Web!GroupValue \/ i = -1
  BY <1>1 DEF PlainValue
<1>4. -2 \notin PlainValue /\ -3 \notin PlainValue
  BY <1>2, <1>3
<1>5. PlainValue \subseteq Int
  BY <1>2, <1>3
<1>6. Web!GroupValue \subseteq PlainValue /\ Web!Colon \in PlainValue
  BY DEF PlainValue
<1>7. Web!Dot # Web!Colon /\ Web!Percent # Web!Colon /\ Web!Dot \in Int /\ Web!Percent \in Int
  BY <1>1
<1> QED BY <1>1, <1>4, <1>5, <1>6, <1>7

\* A sequence of a set's elements is one of a larger set's.
LEMMA Widened == ASSUME NEW V, NEW W, V \subseteq W, NEW s \in Seq(V) PROVE s \in Seq(W)
<1> DEFINE n == Len(s)
<1>1. n \in Nat /\ DOMAIN s = 1..n /\ s = [i \in 1..n |-> s[i]] /\ \A i \in 1..n : s[i] \in V
  BY LenProperties, ElementOfSeq
<1> HIDE DEF n
<1>2. s \in [1..n -> W]
  BY <1>1
<1> QED BY <1>1, <1>2, Sequence

\* How groups are written without a gap.
IsWriting(w, x, n) ==
  /\ w \in Seq(PlainValue)
  /\ n = 0 => w = <<>>
  /\ n # 0 => Len(w) = 2 * n - 1
  /\ \A i \in 1..n : w[2 * i - 1] = x[i] /\ (i # n => w[2 * i] = Web!Colon)

\* Written groups stand in every second place, with colons between.
LEMMA GroupsWritten ==
  ASSUME NEW x \in Seq(Web!GroupValue), NEW n, n = Len(x)
  PROVE  IsWriting(Web!Written(x), x, n)
<1> DEFINE w == Web!Written(x)
           m == 2 * n - 1
           at(i) == IF i % 2 = 1 THEN x[(i + 1) \div 2] ELSE Web!Colon
<1>1. n \in Nat /\ \A k \in 1..n : x[k] \in Web!GroupValue
  BY LenProperties, ElementOfSeq
<1>2. w = [i \in 1..m |-> at(i)]
  BY DEF Web!Written
<1>3. CASE n = 0
  <2>1. 1..m = {}
    BY <1>3
  <2>2. w = <<>>
    <3> HIDE DEF at, m
    <3> QED BY <1>2, <2>1
  <2> HIDE DEF w
  <2>3. \A i \in 1..n : FALSE
    BY <1>3
  <2> QED BY <1>3, <2>2, <2>3 DEF IsWriting, w
<1>4. CASE n # 0
  <2>1. m \in Nat /\ \A i \in 1..m : i % 2 = 1 => (i + 1) \div 2 \in 1..n
    BY <1>1, <1>4
  <2>2. \A i \in 1..m : at(i) \in PlainValue
    <3> HIDE DEF m
    <3> QED BY <1>1, <2>1, PlainMarks
  <2>3. w \in [1..m -> PlainValue]
    <3> HIDE DEF m, at
    <3> QED BY <1>2, <2>2
  <2>4. \A i \in 1..n : /\ 2 * i - 1 \in 1..m /\ (2 * i - 1) % 2 = 1 /\ ((2 * i - 1) + 1) \div 2 = i
                        /\ i # n => 2 * i \in 1..m /\ (2 * i) % 2 # 1
    BY <1>1
  <2> HIDE DEF m, w
  <2>5. \A i \in 1..n : w[2 * i - 1] = x[i] /\ (i # n => w[2 * i] = Web!Colon)
    <3> TAKE i \in 1..n
    <3> DEFINE a == 2 * i - 1
               b == 2 * i
    <3>1. a \in 1..m /\ a % 2 = 1 /\ (a + 1) \div 2 = i /\ (i # n => b \in 1..m /\ b % 2 # 1)
      BY <2>4
    <3> HIDE DEF a, b
    <3>2. w[a] = x[i]
      BY <1>2, <3>1
    <3>3. i # n => w[b] = Web!Colon
      BY <1>2, <3>1
    <3> QED BY <3>2, <3>3 DEF a, b
  <2>6. w \in Seq(PlainValue) /\ Len(w) = m
    BY <2>1, <2>3, Sequence
  <2> QED BY <1>4, <2>5, <2>6 DEF IsWriting, w, m
<1> QED BY <1>3, <1>4

\* Groups that are written without a gap are read back.
LEMMA WrittenReadBack ==
  ASSUME NEW x \in Seq(Web!GroupValue)
  PROVE  x \in Web!Groups(Web!Written(x))
<1> DEFINE w == Web!Written(x)
           n == Len(x)
<1>1. n \in Nat /\ x = [i \in 1..n |-> x[i]] /\ (x = <<>> <=> n = 0) /\ \A k \in 1..n : x[k] \in Web!GroupValue
  BY LenProperties, EmptySeq, ElementOfSeq
<1>2. IsWriting(w, x, n)
  BY GroupsWritten
<1> HIDE DEF w, n
<1>3. w \in Seq(PlainValue) /\ w \in Seq(Int)
  BY <1>2, PlainMarks, Widened DEF IsWriting
<1>4. CASE n = 0
  <2>1. w = <<>> /\ x = <<>>
    BY <1>1, <1>2, <1>4 DEF IsWriting
  <2>2. Web!Groups(w) = {<<>>}
    BY <1>3, <2>1, GroupsAre
  <2> QED BY <2>1, <2>2 DEF w
<1>5. CASE n # 0
  <2> DEFINE m == Len(w)
  <2>1. m = 2 * n - 1
    BY <1>2, <1>5 DEF IsWriting
  <2>2. m % 2 = 1 /\ (m + 1) \div 2 = n
    <3>1. (2 * n - 1) % 2 = 1 /\ ((2 * n - 1) + 1) \div 2 = n
      BY <1>1
    <3> QED BY <2>1, <3>1
  <2>3. ASSUME NEW k \in 1..m PROVE (k % 2 = 1 => w[k] \in Web!GroupValue) /\ (k % 2 # 1 => w[k] = Web!Colon)
    <3>0. m = 2 * n - 1 /\ k \in 1..m
      BY <2>1
    <3> HIDE DEF m
    <3>1. CASE k % 2 = 1
      <4> DEFINE i == (k + 1) \div 2
      <4>1. i \in 1..n /\ 2 * i - 1 = k
        BY <1>1, <3>0, <3>1
      <4> HIDE DEF i
      <4>2. w[2 * i - 1] = x[i]
        BY <1>2, <4>1 DEF IsWriting
      <4> QED BY <1>1, <3>1, <4>1, <4>2
    <3>2. CASE k % 2 # 1
      <4> DEFINE i == k \div 2
      <4>1. i \in 1..n /\ 2 * i = k /\ i # n
        BY <1>1, <3>0, <3>2
      <4> HIDE DEF i
      <4>2. w[2 * i] = Web!Colon
        BY <1>2, <4>1 DEF IsWriting
      <4> QED BY <3>2, <4>1, <4>2
    <3> QED BY <3>1, <3>2
  <2>4. Alternates(w)
    BY <2>2, <2>3 DEF Alternates
  <2> DEFINE r == [i \in 1..((m + 1) \div 2) |-> w[2 * i - 1]]
  <2>5. Web!Groups(w) = {r}
    BY <1>3, <2>4, GroupsAre
  <2>6. r = [i \in 1..n |-> w[2 * i - 1]]
    BY <2>2
  <2>7. \A i \in 1..n : w[2 * i - 1] = x[i]
    BY <1>2 DEF IsWriting
  <2> HIDE DEF r
  <2>8. r = [i \in 1..n |-> x[i]]
    BY <2>6, <2>7
  <2> QED BY <1>1, <2>5, <2>8 DEF w
<1> QED BY <1>4, <1>5

\* A sequence of known length.
HasLength(s, n, V) == s \in Seq(V) /\ Len(s) = n

\* Sequences of one length that agree everywhere are the same.
LEMMA AlikeAreSame ==
  ASSUME NEW V, NEW s, NEW t, NEW n, HasLength(s, n, V), HasLength(t, n, V), Alike(s, t, n)
  PROVE  s = t
<1>1. s = [i \in 1..n |-> s[i]]
  BY LenProperties DEF HasLength
<1>2. t = [i \in 1..n |-> t[i]]
  BY LenProperties DEF HasLength
<1>3. \A i \in 1..n : s[i] = t[i]
  BY DEF Alike
<1>4. [i \in 1..n |-> s[i]] = [i \in 1..n |-> t[i]]
  BY <1>3
<1> QED BY <1>1, <1>2, <1>4

\* Zero is a group.
LEMMA ZeroGroup == 0 \in Web!GroupValue
BY GroupsAreNumbers

\* Where groups are read is no gap.
LEMMA NoGapsInGroups ==
  ASSUME NEW text \in Seq(Int), Web!Groups(text) # {}
  PROVE  Web!Gaps(text) = {}
<1> SUFFICES ASSUME NEW g \in Web!Gaps(text) PROVE FALSE
  OBVIOUS
<1>1. Len(text) \in Nat
  BY LenProperties
<1>2. g \in Nat /\ g >= 1 /\ g + 1 <= Len(text) /\ text[g] = Web!Colon /\ text[g + 1] = Web!Colon
  BY <1>1, GapsAre
<1>3. g \in 1..Len(text) /\ g + 1 \in 1..Len(text)
  BY <1>1, <1>2
<1>4. ~Alternates(text)
  BY <1>2, <1>3, NoGap
<1>5. text # <<>>
  BY <1>1, <1>2, EmptySeq
<1> QED BY <1>4, <1>5, GroupsAre

\* A run of zeros.
AreZeros(groups, a, b) == \A i \in (a + 1)..b : groups[i] = 0

\* The groups around a run of zeros, with the zeros between them, are all of them.
LEMMA FilledBack ==
  ASSUME NEW groups \in Seq(Web!GroupValue), Len(groups) = 8, NEW a \in Nat, NEW b \in Nat, a <= b, b <= 8,
         AreZeros(groups, a, b),
         NEW left, IsCut(left, groups, 0, a, Web!GroupValue), NEW right, IsCut(right, groups, b, 8, Web!GroupValue)
  PROVE  Web!Filled(left, right) = groups
<1> DEFINE n == 8 - Len(left) - Len(right)
           d == b - a
           e == 8 - b
           zeros == [i \in 1..n |-> 0]
<1>1. left \in Seq(Web!GroupValue) /\ Len(left) = a /\ right \in Seq(Web!GroupValue) /\ Len(right) = e
  BY DEF IsCut
<1>2. d \in Nat /\ e \in Nat /\ n = d /\ a + d = b /\ b + e = 8
  BY <1>1
<1>3. Web!Filled(left, right) = (left \o zeros) \o right
  BY DEF Web!Filled
<1>4. zeros \in Seq(Web!GroupValue) /\ Len(zeros) = d /\ \A i \in 1..d : zeros[i] = 0
  <2>1. zeros \in [1..d -> Web!GroupValue] /\ \A i \in 1..d : zeros[i] = 0
    <3> HIDE DEF n
    <3> QED BY <1>2, ZeroGroup
  <2> HIDE DEF zeros
  <2> QED BY <1>2, <2>1, Sequence
<1> HIDE DEF n, zeros, d, e
<1> DEFINE p == left \o zeros
<1>5. IsConcat(p, left, a, zeros, d, Web!GroupValue)
  BY <1>1, <1>4, Concat
<1>6. p \in Seq(Web!GroupValue) /\ Len(p) = b
  BY <1>2, <1>5 DEF IsConcat
<1> HIDE DEF p
<1> DEFINE q == p \o right
<1>7. IsConcat(q, p, b, right, e, Web!GroupValue)
  BY <1>1, <1>6, Concat
<1> HIDE DEF q
<1>8. q \in Seq(Web!GroupValue) /\ Len(q) = 8
  BY <1>2, <1>7 DEF IsConcat
<1>9. Alike(q, groups, 8)
  <2> SUFFICES ASSUME NEW k \in 1..8 PROVE q[k] = groups[k]
    BY DEF Alike
  <2>1. CASE k \in 1..a
    <3>1. k \in 1..b /\ k \in 1..(a - 0) /\ 0 + k = k
      BY <2>1
    <3>2. q[k] = p[k]
      BY <1>7, <3>1 DEF IsConcat
    <3>3. p[k] = left[k]
      BY <1>5, <2>1 DEF IsConcat
    <3>4. left[k] = groups[0 + k]
      BY <3>1 DEF IsCut
    <3> QED BY <3>1, <3>2, <3>3, <3>4
  <2>2. CASE k \in (a + 1)..b
    <3> DEFINE i == k - a
    <3>1. k \in 1..b /\ i \in 1..d /\ k = a + i
      BY <1>2, <2>2
    <3> HIDE DEF i
    <3>2. q[k] = p[k]
      BY <1>7, <3>1 DEF IsConcat
    <3>3. p[a + i] = zeros[i]
      BY <1>5, <3>1 DEF IsConcat
    <3>4. zeros[i] = 0
      BY <1>4, <3>1
    <3>5. groups[k] = 0
      BY <2>2 DEF AreZeros
    <3> QED BY <3>1, <3>2, <3>3, <3>4, <3>5
  <2>3. CASE k \in (b + 1)..8
    <3> DEFINE i == k - b
    <3>1. i \in 1..e /\ k = b + i /\ i \in 1..(8 - b)
      BY <1>2, <2>3
    <3> HIDE DEF i
    <3>2. q[b + i] = right[i]
      BY <1>7, <3>1 DEF IsConcat
    <3>3. right[i] = groups[b + i]
      BY <3>1 DEF IsCut
    <3> QED BY <3>1, <3>2, <3>3
  <2> QED BY <2>1, <2>2, <2>3
<1>10. q = groups
  <2>1. HasLength(q, 8, Web!GroupValue) /\ HasLength(groups, 8, Web!GroupValue)
    BY <1>8 DEF HasLength
  <2> QED BY <1>9, <2>1, AlikeAreSame
<1> QED BY <1>3, <1>10 DEF q, p

\* An address with a double colon: what stands on both sides of it.
IsGapped(t, u, m, v, n) ==
  /\ t \in Seq(PlainValue) /\ Len(t) = m + 2 + n
  /\ \A k \in 1..m : t[k] = u[k]
  /\ t[m + 1] = Web!Colon /\ t[m + 2] = Web!Colon
  /\ \A k \in 1..n : t[m + 2 + k] = v[k]

\* A text, two colons and another text make an address with a double colon.
LEMMA GappedIs ==
  ASSUME NEW u \in Seq(PlainValue), NEW m, Len(u) = m, NEW v \in Seq(PlainValue), NEW n, Len(v) = n
  PROVE  IsGapped(u \o <<Web!Colon, Web!Colon>> \o v, u, m, v, n)
<1> DEFINE two == <<Web!Colon, Web!Colon>>
           p == u \o two
           t == p \o v
           l == m + 2
<1>1. m \in Nat /\ n \in Nat /\ l \in Nat
  BY LenProperties
<1>2. two \in Seq(PlainValue) /\ Len(two) = 2 /\ two[1] = Web!Colon /\ two[2] = Web!Colon
  BY PlainMarks
<1> HIDE DEF two
<1>3. IsConcat(p, u, m, two, 2, PlainValue)
  BY <1>2, Concat
<1>4. p \in Seq(PlainValue) /\ Len(p) = l
  BY <1>3 DEF IsConcat
<1> HIDE DEF p
<1>5. IsConcat(t, p, l, v, n, PlainValue)
  <2> HIDE DEF l
  <2> QED BY <1>4, Concat
<1> HIDE DEF t
<1>6. t \in Seq(PlainValue) /\ Len(t) = m + 2 + n
  BY <1>5 DEF IsConcat
<1>7. \A k \in 1..m : t[k] = u[k]
  <2> TAKE k \in 1..m
  <2>1. k \in 1..l
    BY <1>1
  <2>2. t[k] = p[k]
    BY <1>5, <2>1 DEF IsConcat
  <2>3. p[k] = u[k]
    BY <1>3 DEF IsConcat
  <2> QED BY <2>2, <2>3
<1>8. t[m + 1] = Web!Colon /\ t[m + 2] = Web!Colon
  <2>1. m + 1 \in 1..l /\ m + 2 \in 1..l /\ 1 \in 1..2 /\ 2 \in 1..2
    BY <1>1
  <2>2. p[m + 1] = Web!Colon /\ p[m + 2] = Web!Colon
    BY <1>2, <1>3, <2>1 DEF IsConcat
  <2>3. t[m + 1] = p[m + 1] /\ t[m + 2] = p[m + 2]
    BY <1>5, <2>1 DEF IsConcat
  <2> QED BY <2>2, <2>3
<1>9. \A k \in 1..n : t[m + 2 + k] = v[k]
  BY <1>5 DEF IsConcat
<1>10. IsGapped(t, u, m, v, n)
  BY <1>6, <1>7, <1>8, <1>9 DEF IsGapped
<1> QED BY <1>10 DEF t, p, two

\* Both sides are read as they stand.
LEMMA GappedRead ==
  ASSUME NEW u \in Seq(PlainValue), NEW m, Len(u) = m, NEW v \in Seq(PlainValue), NEW n, Len(v) = n,
         NEW t, IsGapped(t, u, m, v, n)
  PROVE  m + 1 \in Web!Gaps(t) /\ LeftOf(t, m + 1) = u /\ RightOf(t, m + 1) = v
<1> DEFINE g == m + 1
<1>1. m \in Nat /\ n \in Nat
  BY LenProperties
<1>2. t \in Seq(PlainValue) /\ t \in Seq(Int) /\ Len(t) = m + 2 + n
  BY PlainMarks, Widened DEF IsGapped
<1>3. g \in Web!Gaps(t)
  <2>1. g \in 1..(Len(t) - 1) /\ g + 1 = m + 2
    BY <1>1, <1>2
  <2>2. t[g] = Web!Colon /\ t[g + 1] = Web!Colon
    BY <2>1 DEF IsGapped
  <2> HIDE DEF g
  <2> QED BY <2>1, <2>2 DEF Web!Gaps
<1>4. g - 1 = m /\ Len(t) - (g + 1) = n /\ g + 1 = m + 2 /\ m - 0 = m
  BY <1>1, <1>2
<1> HIDE DEF g
<1>5. IsCut(LeftOf(t, g), t, 0, g - 1, Int) /\ IsCut(RightOf(t, g), t, g + 1, Len(t), Int)
  BY <1>2, <1>3, BothSidesAre
<1>6. u \in Seq(Int) /\ v \in Seq(Int)
  BY PlainMarks, Widened
<1>7. LeftOf(t, g) = u
  <2> DEFINE c == LeftOf(t, g)
  <2> HIDE DEF c
  <2>1. c \in Seq(Int) /\ Len(c) = m /\ \A k \in 1..m : c[k] = t[0 + k]
    BY <1>4, <1>5 DEF IsCut, c
  <2>2. \A k \in 1..m : 0 + k = k
    BY <1>1
  <2>3. Alike(c, u, m)
    BY <2>1, <2>2 DEF Alike, IsGapped
  <2>4. c = u
    <3>1. HasLength(c, m, Int) /\ HasLength(u, m, Int)
      BY <1>6, <2>1 DEF HasLength
    <3> QED BY <2>3, <3>1, AlikeAreSame
  <2> QED BY <2>4 DEF c
<1>8. RightOf(t, g) = v
  <2> DEFINE c == RightOf(t, g)
  <2> HIDE DEF c
  <2>1. c \in Seq(Int) /\ Len(c) = n /\ \A k \in 1..n : c[k] = t[m + 2 + k]
    BY <1>4, <1>5 DEF IsCut, c
  <2>3. Alike(c, v, n)
    BY <2>1 DEF Alike, IsGapped
  <2>4. c = v
    <3>1. HasLength(c, n, Int) /\ HasLength(v, n, Int)
      BY <1>6, <2>1 DEF HasLength
    <3> QED BY <2>3, <3>1, AlikeAreSame
  <2> QED BY <2>4 DEF c
<1> QED BY <1>3, <1>7, <1>8 DEF g

\* Groups in their last four places: what a dotted tail stands for.
EndsPaired(t, n, groups) ==
  /\ Len(t) = n /\ n \in Nat /\ n >= 4
  /\ t[n - 3] = Web!Colon /\ t[n - 2] = groups[7] /\ t[n - 1] = Web!Colon /\ t[n] = groups[8]

\* Eight groups are a sequence.
LEMMA GroupsAsSequence ==
  ASSUME NEW groups \in [1..8 -> Web!GroupValue]
  PROVE  groups \in Seq(Web!GroupValue) /\ Len(groups) = 8
<1>1. 8 \in Nat
  OBVIOUS
<1> QED BY <1>1, Sequence

\* A text that ends in the last two groups.
IsTail(v, n, e, groups) ==
  /\ n = 2 * e - 1 /\ n >= 3 /\ n \in Nat
  /\ v[n] = groups[8] /\ v[n - 1] = Web!Colon /\ v[n - 2] = groups[7]
  /\ n > 3 => v[n - 3] = Web!Colon

\* The last groups of a text that ends in at least two of them.
LEMMA WrittenTail ==
  ASSUME NEW groups, NEW b \in 0..6, NEW e, e = 8 - b, NEW x, IsCut(x, groups, b, 8, Web!GroupValue),
         NEW v, IsWriting(v, x, e), NEW n, Len(v) = n
  PROVE  IsTail(v, n, e, groups)
<1>1. e \in Nat /\ e >= 2 /\ e - 1 \in 1..e /\ e \in 1..e /\ e - 1 # e /\ e # 0
  OBVIOUS
<1>2. n = 2 * e - 1
  BY <1>1 DEF IsWriting
<1>3. n \in Nat /\ n >= 3 /\ n = 2 * e - 1 /\ n - 1 = 2 * (e - 1) /\ n - 2 = 2 * (e - 1) - 1 /\ n - 3 = 2 * (e - 2) /\ (n > 3 => e > 2)
  BY <1>1, <1>2
<1>4. v[n] = x[e]
  <2>1. v[2 * e - 1] = x[e]
    BY <1>1 DEF IsWriting
  <2> QED BY <1>2, <2>1
<1>5. v[n - 1] = Web!Colon /\ v[n - 2] = x[e - 1]
  <2> DEFINE i == e - 1
  <2>1. i \in 1..e /\ i # e
    BY <1>1
  <2>2. n - 1 = 2 * i /\ n - 2 = 2 * i - 1
    BY <1>3
  <2> HIDE DEF i
  <2>3. v[2 * i] = Web!Colon /\ v[2 * i - 1] = x[i]
    BY <2>1 DEF IsWriting
  <2>4. v[n - 1] = Web!Colon /\ v[n - 2] = x[i]
    BY <2>2, <2>3
  <2> QED BY <2>4 DEF i
<1>6. n > 3 => v[n - 3] = Web!Colon
  <2> SUFFICES ASSUME n > 3 PROVE v[n - 3] = Web!Colon
    OBVIOUS
  <2> DEFINE i == e - 2
  <2>1. i \in 1..e /\ i # e
    BY <1>1, <1>3
  <2>2. n - 3 = 2 * i
    BY <1>3
  <2> HIDE DEF i
  <2>3. v[2 * i] = Web!Colon
    BY <2>1 DEF IsWriting
  <2> QED BY <2>2, <2>3
<1>7. x[e] = groups[8] /\ x[e - 1] = groups[7]
  <2>1. e \in 1..(8 - b) /\ e - 1 \in 1..(8 - b) /\ b + e = 8 /\ b + (e - 1) = 7
    BY <1>1
  <2>2. x[e] = groups[b + e] /\ x[e - 1] = groups[b + (e - 1)]
    BY <2>1 DEF IsCut
  <2> QED BY <2>1, <2>2
<1> QED BY <1>3, <1>4, <1>5, <1>6, <1>7 DEF IsTail

\* A text that is read as these groups.
IsSpelling(t, groups) == t \in Seq(PlainValue) /\ groups \in ReadGroups(t)

\* Eight groups that are written in full are read as they are.
LEMMA FullSpelling ==
  ASSUME NEW groups \in [1..8 -> Web!GroupValue]
  PROVE  IsSpelling(Web!Written(groups), groups) /\ EndsPaired(Web!Written(groups), 15, groups)
<1> DEFINE t == Web!Written(groups)
<1>1. groups \in Seq(Web!GroupValue) /\ Len(groups) = 8
  BY GroupsAsSequence
<1>2. IsWriting(t, groups, 8)
  BY <1>1, GroupsWritten
<1>3. groups \in Web!Groups(t)
  BY <1>1, WrittenReadBack
<1> HIDE DEF t
<1>4. t \in Seq(PlainValue) /\ t \in Seq(Int) /\ Len(t) = 15
  <2>1. t \in Seq(PlainValue) /\ Len(t) = 15
    BY <1>2 DEF IsWriting
  <2> QED BY <2>1, PlainMarks, Widened
<1>5. Web!Gaps(t) = {}
  BY <1>3, <1>4, NoGapsInGroups
<1>6. IsSpelling(t, groups)
  BY <1>3, <1>4, <1>5 DEF IsSpelling, ReadGroups
<1>7. EndsPaired(t, 15, groups)
  <2>1. \A i \in 1..8 : t[2 * i - 1] = groups[i] /\ (i # 8 => t[2 * i] = Web!Colon)
    BY <1>2 DEF IsWriting
  <2>2. t[15 - 3] = Web!Colon /\ t[15 - 2] = groups[7] /\ t[15 - 1] = Web!Colon /\ t[15] = groups[8]
    <3>1. t[2 * 6] = Web!Colon /\ t[2 * 7 - 1] = groups[7] /\ t[2 * 7] = Web!Colon /\ t[2 * 8 - 1] = groups[8]
      BY <2>1
    <3>2. 2 * 6 = 15 - 3 /\ 2 * 7 - 1 = 15 - 2 /\ 2 * 7 = 15 - 1 /\ 2 * 8 - 1 = 15
      OBVIOUS
    <3> QED BY <3>1, <3>2
  <2> QED BY <1>4, <2>2 DEF EndsPaired
<1> QED BY <1>6, <1>7 DEF t

\* So are eight groups with a double colon for some of their zeros.
LEMMA ShortSpelling ==
  ASSUME NEW groups \in [1..8 -> Web!GroupValue], NEW a \in 0..7, NEW b \in 1..8, a < b, AreZeros(groups, a, b),
         NEW r, r[1] = a + 1, r[2] = b
  PROVE  /\ IsSpelling(Web!Shortened(groups, r), groups)
         /\ b <= 6 => EndsPaired(Web!Shortened(groups, r), Len(Web!Shortened(groups, r)), groups)
<1> DEFINE left == SubSeq(groups, 1, a)
           right == SubSeq(groups, b + 1, 8)
           e == 8 - b
           u == Web!Written(left)
           v == Web!Written(right)
           m == Len(u)
           n == Len(v)
           t == u \o <<Web!Colon, Web!Colon>> \o v
<1>1. groups \in Seq(Web!GroupValue) /\ Len(groups) = 8
  BY GroupsAsSequence
<1>2. Web!Shortened(groups, r) = t
  <2>1. r[1] - 1 = a
    OBVIOUS
  <2> QED BY <2>1 DEF Web!Shortened
<1>3. IsCut(left, groups, 0, a, Web!GroupValue)
  <2>1. 1 = 0 + 1 /\ 1 \in Nat /\ 0 \in Nat /\ a \in Nat /\ 0 <= a /\ a <= Len(groups)
    BY <1>1
  <2> QED BY <1>1, <2>1, Cut
<1>4. IsCut(right, groups, b, 8, Web!GroupValue)
  <2> DEFINE f == b + 1
  <2>1. f = b + 1 /\ f \in Nat /\ b \in Nat /\ 8 \in Nat /\ b <= 8 /\ 8 <= Len(groups)
    BY <1>1
  <2> HIDE DEF f
  <2>2. IsCut(SubSeq(groups, f, 8), groups, b, 8, Web!GroupValue)
    BY <1>1, <2>1, Cut
  <2> QED BY <2>2 DEF f
<1> HIDE DEF left, right
<1>5. left \in Seq(Web!GroupValue) /\ right \in Seq(Web!GroupValue) /\ Len(right) = e
  BY <1>3, <1>4 DEF IsCut
<1>6. IsWriting(v, right, e) /\ u \in Seq(PlainValue) /\ v \in Seq(PlainValue)
  <2>1. IsWriting(v, right, e) /\ IsWriting(u, left, Len(left))
    <3> HIDE DEF e
    <3> QED BY <1>5, GroupsWritten
  <2> QED BY <2>1 DEF IsWriting
<1>7. left \in Web!Groups(u) /\ right \in Web!Groups(v)
  BY <1>5, WrittenReadBack
<1> HIDE DEF u, v
<1>8. IsGapped(t, u, m, v, n)
  BY <1>6, GappedIs
<1> HIDE DEF t
<1>9. m + 1 \in Web!Gaps(t) /\ LeftOf(t, m + 1) = u /\ RightOf(t, m + 1) = v
  BY <1>6, <1>8, GappedRead, SMTT(30)
<1>10. Web!Filled(left, right) = groups
  <2>1. a \in Nat /\ b \in Nat /\ a <= b /\ b <= 8
    OBVIOUS
  <2> QED BY <1>1, <1>3, <1>4, <2>1, FilledBack
<1>11. groups \in Web!GroupsAround(t, m + 1)
  BY <1>7, <1>9, <1>10, AroundIs
<1>12. IsSpelling(t, groups)
  <2>1. t \in Seq(PlainValue)
    BY <1>8 DEF IsGapped
  <2>2. groups \in ReadGroups(t)
    BY <1>9, <1>11 DEF ReadGroups
  <2> QED BY <2>1, <2>2 DEF IsSpelling
<1>13. ASSUME b <= 6 PROVE EndsPaired(t, Len(t), groups)
  <2>1. b \in 0..6
    BY <1>13
  <2> HIDE DEF e
  <2>2. IsTail(v, n, e, groups)
    <3>1. e = 8 - b /\ n = Len(v)
      BY DEF e
    <3> HIDE DEF n
    <3> QED BY <1>4, <1>6, <2>1, <3>1, WrittenTail
  <2>3. m \in Nat /\ Len(t) = m + 2 + n
    BY <1>6, <1>8, LenProperties DEF IsGapped
  <2> DEFINE l == m + 2 + n
  <2> HIDE DEF m, n
  <2>4. /\ n \in 1..n /\ n - 1 \in 1..n /\ n - 2 \in 1..n /\ (n > 3 => n - 3 \in 1..n) /\ (n <= 3 => l - 3 = m + 2)
        /\ l = m + 2 + n /\ l - 1 = m + 2 + (n - 1) /\ l - 2 = m + 2 + (n - 2) /\ l - 3 = m + 2 + (n - 3)
        /\ l \in Nat /\ l >= 4
    <3>1. n \in Nat /\ n >= 3
      BY <2>2 DEF IsTail
    <3> QED BY <2>3, <3>1
  <2> HIDE DEF l
  <2>5. t[l] = v[n] /\ t[l - 1] = v[n - 1] /\ t[l - 2] = v[n - 2]
    <3>1. t[m + 2 + n] = v[n] /\ t[m + 2 + (n - 1)] = v[n - 1] /\ t[m + 2 + (n - 2)] = v[n - 2]
      BY <1>8, <2>4 DEF IsGapped
    <3> QED BY <2>4, <3>1
  <2>6. t[l - 3] = Web!Colon
    <3>1. CASE n > 3
      <4>1. t[m + 2 + (n - 3)] = v[n - 3]
        BY <1>8, <2>4, <3>1 DEF IsGapped
      <4> QED BY <2>2, <2>4, <3>1, <4>1 DEF IsTail
    <3>2. CASE ~(n > 3)
      <4>1. l - 3 = m + 2
        BY <2>2, <2>4, <3>2 DEF IsTail
      <4> QED BY <1>8, <4>1 DEF IsGapped
    <3> QED BY <3>1, <3>2
  <2>7. EndsPaired(t, l, groups)
    BY <2>2, <2>3, <2>4, <2>5, <2>6 DEF EndsPaired, IsTail, l
  <2> QED BY <2>3, <2>7 DEF l
<1> QED BY <1>2, <1>12, <1>13 DEF t

\* The first place of a mark.
IsFirst(text, n, mark, i) == i \in 1..n /\ text[i] = mark /\ \A k \in 1..n : text[k] = mark => i <= k

\* First() finds it.
LEMMA FirstIs ==
  ASSUME NEW text, NEW n \in Nat, n = Len(text), NEW mark, NEW i, IsFirst(text, n, mark, i)
  PROVE  Web!First(text, mark) = i
<1>1. i \in 1..n /\ text[i] = mark /\ \A k \in 1..n : text[k] = mark => i <= k
  BY DEF IsFirst
<1> QED BY <1>1, FirstMark

\* A text without a zone that is read as these groups.
IsReadAs(d, n, groups) ==
  /\ HasLength(d, n, Int) /\ n \in Nat
  /\ \A k \in 1..n : d[k] # Web!Percent
  /\ \E t \in Web!Undotted(d) : groups \in ReadGroups(t)

\* A text without dots has no dotted tail.
LEMMA SpellingIsRead ==
  ASSUME NEW t, NEW groups, IsSpelling(t, groups)
  PROVE  IsReadAs(t, Len(t), groups)
<1> DEFINE n == Len(t)
           cut == LastMark(t)
           f == cut + 1
           tail == SubSeq(t, f, n)
<1>1. t \in Seq(PlainValue) /\ t \in Seq(Int)
  BY PlainMarks, Widened DEF IsSpelling
<1>2. n \in Nat /\ \A k \in 1..n : t[k] \in PlainValue
  BY <1>1, LenProperties, ElementOfSeq
<1>3. cut \in 0..n
  BY <1>2, LastColon
<1> HIDE DEF cut
<1>4. Web!First(tail, Web!Dot) = 0
  <2>1. IsCut(tail, t, cut, n, PlainValue)
    <3>1. cut \in Nat /\ f = cut + 1 /\ f \in Nat /\ cut <= n /\ n <= Len(t)
      BY <1>2, <1>3
    <3> HIDE DEF f, n
    <3> QED BY <1>1, <1>2, <3>1, Cut
  <2> DEFINE m == Len(tail)
  <2> HIDE DEF tail
  <2>2. m \in Nat /\ \A k \in 1..m : tail[k] \in PlainValue
    <3>1. tail \in Seq(PlainValue)
      BY <2>1 DEF IsCut
    <3> QED BY <3>1, LenProperties, ElementOfSeq
  <2>3. \A k \in 1..m : tail[k] # Web!Dot
    BY <2>2, PlainMarks
  <2>4. m = Len(tail)
    OBVIOUS
  <2> HIDE DEF m
  <2> QED BY <2>2, <2>3, <2>4, FirstMark
<1>5. Web!Undotted(t) = {t}
  BY <1>4, UndottedIs DEF cut
<1>6. \A k \in 1..n : t[k] # Web!Percent
  BY <1>2, PlainMarks
<1>7. \E s \in Web!Undotted(t) : groups \in ReadGroups(s)
  BY <1>5 DEF IsSpelling
<1> QED BY <1>1, <1>2, <1>6, <1>7 DEF IsReadAs, HasLength

\* The four numbers of two groups.
Four(g, h) == <<g \div 256, Web!Dot, g % 256, Web!Dot, h \div 256, Web!Dot, h % 256>>
\* Four numbers with dots between, which stand for two groups.
IsFour(q, g, h) ==
  /\ HasLength(q, 7, Int)
  /\ Quad(q) /\ Paired(q) = <<g, Web!Colon, h>>
  /\ \A k \in 1..7 : q[k] # Web!Colon /\ q[k] # Web!Percent

\* The four numbers of two groups stand for them.
LEMMA FourIs ==
  ASSUME NEW g \in Web!GroupValue, NEW h \in Web!GroupValue
  PROVE  IsFour(Four(g, h), g, h)
<1> DEFINE B == 0..255
           q1 == g \div 256
           q3 == g % 256
           q5 == h \div 256
           q7 == h % 256
           q == Four(g, h)
<1>1. q1 \in B /\ q3 \in B /\ q5 \in B /\ q7 \in B
  BY GroupHalves
<1>2. g = q1 * 256 + q3 /\ h = q5 * 256 + q7
  <2>1. g = q1 * 256 + q3
    BY GroupHalves
  <2>2. h = q5 * 256 + q7
    BY GroupHalves
  <2> QED BY <2>1, <2>2
<1>3. \A b \in B : b \in Int /\ b # -1 /\ b # -2 /\ b # -3
  OBVIOUS
<1>4. Web!Colon = -1 /\ Web!Dot = -2 /\ Web!Percent = -3
  BY DEF Web!Colon, Web!Dot, Web!Percent
<1>5. q = <<q1, -2, q3, -2, q5, -2, q7>>
  BY <1>4 DEF Four
<1> HIDE DEF q1, q3, q5, q7, q
<1>6. q1 \in Int /\ q3 \in Int /\ q5 \in Int /\ q7 \in Int
  <2> HIDE DEF B
  <2> QED BY <1>1, <1>3
<1>7. q \in Seq(Int) /\ Len(q) = 7
  BY <1>5, <1>6
<1>8. q[1] = q1 /\ q[2] = -2 /\ q[3] = q3 /\ q[4] = -2 /\ q[5] = q5 /\ q[6] = -2 /\ q[7] = q7
  BY <1>5
<1>9. Quad(q)
  BY <1>1, <1>4, <1>7, <1>8 DEF Quad
<1>10. Paired(q) = <<g, Web!Colon, h>>
  BY <1>2, <1>8 DEF Paired
<1>11. \A k \in 1..7 : q[k] # Web!Colon /\ q[k] # Web!Percent
  <2>1. \A k \in 1..7 : k = 1 \/ k = 2 \/ k = 3 \/ k = 4 \/ k = 5 \/ k = 6 \/ k = 7
    OBVIOUS
  <2>2. -2 # Web!Colon /\ -2 # Web!Percent
    BY <1>4
  <2>3. /\ q1 # Web!Colon /\ q1 # Web!Percent /\ q3 # Web!Colon /\ q3 # Web!Percent
        /\ q5 # Web!Colon /\ q5 # Web!Percent /\ q7 # Web!Colon /\ q7 # Web!Percent
    <3> HIDE DEF B
    <3> QED BY <1>1, <1>3, <1>4
  <2> QED BY <1>8, <2>1, <2>2, <2>3
<1> QED BY <1>7, <1>9, <1>10, <1>11 DEF IsFour, HasLength, q

\* A text with a dotted tail is read as the text with the two groups that it stands for.
LEMMA DottedIsRead ==
  ASSUME NEW groups \in [1..8 -> Web!GroupValue], NEW t, IsSpelling(t, groups), NEW n, EndsPaired(t, n, groups),
         NEW d, d = Web!Dotted(t, groups[7], groups[8])
  PROVE  IsReadAs(d, n + 4, groups)
<1> DEFINE g == groups[7]
           h == groups[8]
           c == n - 3
           p == SubSeq(t, 1, c)
           q == Four(g, h)
           l == n + 4
<1>1. g \in Web!GroupValue /\ h \in Web!GroupValue
  OBVIOUS
<1> HIDE DEF g, h
<1>2. t \in Seq(PlainValue) /\ t \in Seq(Int) /\ Len(t) = n /\ n \in Nat /\ n >= 4
  BY PlainMarks, Widened DEF IsSpelling, EndsPaired
<1>3. c \in Nat /\ c >= 1 /\ c <= n /\ l \in Nat /\ c + 7 = l /\ c + 3 = n /\ c \in 1..c
  BY <1>2
<1>4. t[c] = Web!Colon /\ t[c + 1] = g /\ t[c + 2] = Web!Colon /\ t[c + 3] = h
  <2>1. c + 1 = n - 2 /\ c + 2 = n - 1 /\ c + 3 = n
    BY <1>2
  <2>2. t[n - 3] = Web!Colon /\ t[n - 2] = g /\ t[n - 1] = Web!Colon /\ t[n] = h
    BY DEF EndsPaired, g, h
  <2> QED BY <2>1, <2>2
<1>5. d = p \o q
  BY <1>2 DEF Web!Dotted, Four, g, h
<1> HIDE DEF c, q
<1>6. IsCut(p, t, 0, c, PlainValue)
  <2>1. 1 = 0 + 1 /\ 1 \in Nat /\ 0 \in Nat /\ 0 <= c /\ c <= Len(t)
    BY <1>2, <1>3
  <2> QED BY <1>2, <1>3, <2>1, Cut
<1> HIDE DEF p
<1>7. p \in Seq(PlainValue) /\ p \in Seq(Int) /\ Len(p) = c /\ \A k \in 1..c : p[k] = t[k]
  <2>1. c - 0 = c /\ \A k \in 1..c : 0 + k = k
    BY <1>3
  <2>2. p \in Seq(PlainValue) /\ Len(p) = c - 0 /\ \A k \in 1..(c - 0) : p[k] = t[0 + k]
    BY <1>6 DEF IsCut
  <2>3. \A k \in 1..c : p[k] = t[k]
    BY <2>1, <2>2
  <2>4. p \in Seq(Int)
    BY <2>2, PlainMarks, Widened
  <2> QED BY <2>1, <2>2, <2>3, <2>4
<1>8. IsFour(q, g, h)
  BY <1>1, FourIs DEF q
<1>9. q \in Seq(Int) /\ Len(q) = 7
  BY <1>8 DEF IsFour, HasLength
<1>10. IsConcat(d, p, c, q, 7, Int)
  BY <1>5, <1>7, <1>9, Concat
<1>11. d \in Seq(Int) /\ Len(d) = l
  BY <1>3, <1>10 DEF IsConcat
<1> HIDE DEF l
<1>12. \A k \in 1..l : k \in 1..c \/ (k - c \in 1..7 /\ c + (k - c) = k)
  BY <1>3
<1>13. \A k \in 1..c : d[k] = p[k] /\ k \in 1..l
  <2>1. \A k \in 1..c : k \in 1..l
    BY <1>3
  <2> QED BY <1>10, <2>1 DEF IsConcat
<1>14. \A k \in 1..l : k \notin 1..c => \E i \in 1..7 : k = c + i /\ d[k] = q[i]
  <2> SUFFICES ASSUME NEW k \in 1..l, k \notin 1..c PROVE \E i \in 1..7 : k = c + i /\ d[k] = q[i]
    OBVIOUS
  <2> DEFINE i == k - c
  <2>1. i \in 1..7 /\ c + i = k
    BY <1>12
  <2> HIDE DEF i
  <2>2. d[c + i] = q[i]
    BY <1>10, <2>1 DEF IsConcat
  <2> QED BY <2>1, <2>2
<1>15. \A k \in 1..l : d[k] # Web!Percent
  <2> TAKE k \in 1..l
  <2>1. CASE k \in 1..c
    <3>1. p[k] \in PlainValue
      BY <1>7, <2>1, ElementOfSeq
    <3> QED BY <1>13, <2>1, <3>1, PlainMarks
  <2>2. CASE k \notin 1..c
    BY <1>8, <1>14, <2>2 DEF IsFour
  <2> QED BY <2>1, <2>2
<1>16. LastMark(d) = c
  <2>1. d[c] = Web!Colon /\ c \in 1..l
    BY <1>3, <1>4, <1>7, <1>13
  <2>2. \A k \in 1..l : d[k] = Web!Colon => k <= c
    <3> SUFFICES ASSUME NEW k \in 1..l, d[k] = Web!Colon PROVE k <= c
      OBVIOUS
    <3>1. k \in 1..c
      BY <1>8, <1>14 DEF IsFour
    <3> QED BY <3>1
  <2> QED BY <1>3, <1>11, <2>1, <2>2, LastColon
<1> DEFINE tail == SubSeq(d, c + 1, l)
<1>17. tail = q
  <2> DEFINE f == c + 1
  <2>1. f = c + 1 /\ f \in Nat /\ c \in Nat /\ l \in Nat /\ c <= l /\ l <= Len(d) /\ l - c = 7
    BY <1>3, <1>11
  <2> HIDE DEF f
  <2>2. IsCut(SubSeq(d, f, l), d, c, l, Int)
    BY <1>11, <2>1, Cut
  <2>3. IsCut(tail, d, c, l, Int)
    BY <2>2 DEF f
  <2> HIDE DEF tail
  <2>4. HasLength(tail, 7, Int) /\ \A k \in 1..7 : tail[k] = d[c + k]
    BY <2>1, <2>3 DEF IsCut, HasLength
  <2>5. \A k \in 1..7 : d[c + k] = q[k]
    BY <1>10 DEF IsConcat
  <2>6. Alike(tail, q, 7)
    BY <2>4, <2>5 DEF Alike
  <2>7. HasLength(q, 7, Int)
    BY <1>8 DEF IsFour
  <2> QED BY <2>4, <2>6, <2>7, AlikeAreSame
<1>18. Web!First(q, Web!Dot) # 0
  <2>1. q[2] = Web!Dot /\ 2 \in 1..7
    BY <1>8 DEF IsFour, Quad
  <2> DEFINE I == {k \in 1..7 : q[k] = Web!Dot}
  <2>2. 2 \in I /\ I \in SUBSET Nat
    BY <2>1
  <2>3. PICK i \in I : \A k \in I : i <= k
    <3> HIDE DEF I
    <3> QED BY <2>2, LeastOf
  <2>4. i \in 1..7 /\ q[i] = Web!Dot /\ \A k \in 1..7 : q[k] = Web!Dot => i <= k
    BY <2>3
  <2>5. Web!First(q, Web!Dot) = i
    <3>1. 7 \in Nat /\ 7 = Len(q) /\ IsFirst(q, 7, Web!Dot, i)
      BY <1>9, <2>4 DEF IsFirst
    <3> QED BY <3>1, FirstIs
  <2> QED BY <2>4, <2>5
<1>19. Web!Undotted(d) = {SubSeq(d, 1, c) \o Paired(q)}
  <2>1. LET cut == LastMark(d)
            tl == SubSeq(d, cut + 1, Len(d))
        IN cut # 0 /\ Web!First(tl, Web!Dot) # 0 =>
             Web!Undotted(d) = IF Quad(tl) THEN {SubSeq(d, 1, cut) \o Paired(tl)} ELSE {}
    BY UndottedIs
  <2>2. c # 0 /\ Quad(q)
    BY <1>3, <1>8 DEF IsFour
  <2> QED BY <1>11, <1>16, <1>17, <1>18, <2>1, <2>2
<1>20. SubSeq(d, 1, c) = p
  <2>1. 1 = 0 + 1 /\ 1 \in Nat /\ 0 \in Nat /\ 0 <= c /\ c <= Len(d) /\ c - 0 = c /\ \A k \in 1..c : 0 + k = k
    BY <1>3, <1>11
  <2> DEFINE b == SubSeq(d, 1, c)
  <2>2. IsCut(b, d, 0, c, Int)
    BY <1>3, <1>11, <2>1, Cut
  <2> HIDE DEF b
  <2>3. HasLength(b, c, Int) /\ \A k \in 1..c : b[k] = d[0 + k]
    BY <2>1, <2>2 DEF IsCut, HasLength
  <2>4. Alike(b, p, c)
    BY <1>13, <2>1, <2>3 DEF Alike
  <2>5. HasLength(p, c, Int)
    BY <1>7 DEF HasLength
  <2>6. b = p
    BY <2>3, <2>4, <2>5, AlikeAreSame
  <2> QED BY <2>6 DEF b
<1>21. p \o Paired(q) = t
  <2> DEFINE three == <<g, Web!Colon, h>>
             s == p \o three
  <2>1. three \in Seq(PlainValue) /\ Len(three) = 3 /\ three[1] = g /\ three[2] = Web!Colon /\ three[3] = h
    <3>1. g \in PlainValue /\ h \in PlainValue /\ Web!Colon \in PlainValue
      BY <1>1, PlainMarks
    <3> QED BY <3>1
  <2>2. Paired(q) = three
    BY <1>8 DEF IsFour
  <2> HIDE DEF three
  <2>3. IsConcat(s, p, c, three, 3, PlainValue)
    BY <1>7, <2>1, Concat
  <2> HIDE DEF s
  <2>4. HasLength(s, n, PlainValue) /\ HasLength(t, n, PlainValue)
    BY <1>2, <1>3, <2>3 DEF IsConcat, HasLength
  <2>5. Alike(s, t, n)
    <3> SUFFICES ASSUME NEW k \in 1..n PROVE s[k] = t[k]
      BY DEF Alike
    <3>1. CASE k \in 1..c
      BY <1>7, <2>3, <3>1 DEF IsConcat
    <3>2. CASE k \notin 1..c
      <4>1. k = c + 1 \/ k = c + 2 \/ k = c + 3
        BY <1>3, <3>2
      <4>2. 1 \in 1..3 /\ 2 \in 1..3 /\ 3 \in 1..3
        OBVIOUS
      <4>3. s[c + 1] = g /\ s[c + 2] = Web!Colon /\ s[c + 3] = h
        BY <2>1, <2>3, <4>2 DEF IsConcat
      <4> QED BY <1>4, <4>1, <4>3
    <3> QED BY <3>1, <3>2
  <2>6. s = t
    BY <2>4, <2>5, AlikeAreSame
  <2> QED BY <2>2, <2>6 DEF s
<1>22. \E s \in Web!Undotted(d) : groups \in ReadGroups(s)
  BY <1>19, <1>20, <1>21 DEF IsSpelling
<1>23. HasLength(d, l, Int)
  BY <1>11 DEF HasLength
<1> QED BY <1>3, <1>15, <1>22, <1>23 DEF IsReadAs, l

\* A text with a zone behind it.
Zoned(d) == d \o <<Web!Percent, 1>>

\* A zone changes nothing.
LEMMA ReadWithZone ==
  ASSUME NEW d, NEW n, NEW groups, IsReadAs(d, n, groups), Len(groups) = 8
  PROVE  /\ d \in Seq(Int) /\ groups \in Web!Ipv6Groups(d)
         /\ Zoned(d) \in Seq(Int) /\ groups \in Web!Ipv6Groups(Zoned(d))
<1> DEFINE z == Zoned(d)
           zone == <<Web!Percent, 1>>
           m == n + 2
           f == n + 1
<1>1. d \in Seq(Int) /\ Len(d) = n /\ n \in Nat /\ n = Len(d) /\ HasLength(d, n, Int)
  BY DEF IsReadAs, HasLength
<1>2. \A text : Web!WithoutZone(text) = d => groups \in Web!Ipv6Groups(text)
  <2> TAKE text
  <2> SUFFICES ASSUME Web!WithoutZone(text) = d PROVE groups \in Web!Ipv6Groups(text)
    OBVIOUS
  <2>1. Web!Ipv6Groups(text) = {x \in UNION {ReadGroups(t) : t \in Web!Undotted(d)} : Len(x) = 8}
    BY DEF Web!Ipv6Groups, ReadGroups
  <2>2. PICK t \in Web!Undotted(d) : groups \in ReadGroups(t)
    BY DEF IsReadAs
  <2> QED BY <2>1, <2>2
<1>3. Web!WithoutZone(d) = d
  <2>1. \A k \in 1..n : d[k] # Web!Percent
    BY DEF IsReadAs
  <2>2. Web!First(d, Web!Percent) = 0
    BY <1>1, <2>1, FirstMark
  <2> QED BY <2>2 DEF Web!WithoutZone
<1>4. zone \in Seq(Int) /\ Len(zone) = 2 /\ zone[1] = Web!Percent
  BY PlainMarks
<1> HIDE DEF zone
<1>5. IsConcat(z, d, n, zone, 2, Int)
  <2>1. IsConcat(d \o zone, d, n, zone, 2, Int)
    BY <1>1, <1>4, Concat
  <2> QED BY <2>1 DEF Zoned, zone
<1> HIDE DEF z
<1>6. z \in Seq(Int) /\ Len(z) = m /\ m \in Nat /\ f \in 1..m /\ f \in Nat /\ f # 0 /\ f - 1 = n
  <2>1. z \in Seq(Int) /\ Len(z) = n + 2
    BY <1>5 DEF IsConcat
  <2> QED BY <1>1, <2>1
<1>7. z[f] = Web!Percent
  <2>1. 1 \in 1..2
    OBVIOUS
  <2> QED BY <1>4, <1>5, <2>1 DEF IsConcat
<1>8. \A k \in 1..m : z[k] = Web!Percent => f <= k
  <2> SUFFICES ASSUME NEW k \in 1..m, z[k] = Web!Percent PROVE f <= k
    OBVIOUS
  <2>1. CASE k \in 1..n
    <3>1. z[k] = d[k]
      BY <1>5, <2>1 DEF IsConcat
    <3> QED BY <2>1, <3>1 DEF IsReadAs
  <2>2. CASE k \notin 1..n
    BY <1>1, <2>2
  <2> QED BY <2>1, <2>2
<1>9. Web!First(z, Web!Percent) = f
  <2>1. IsFirst(z, m, Web!Percent, f)
    BY <1>6, <1>7, <1>8 DEF IsFirst
  <2> HIDE DEF f, m
  <2>2. m = Len(z)
    BY <1>6
  <2> QED BY <1>6, <2>1, <2>2, FirstIs
<1>10. Web!WithoutZone(z) = SubSeq(z, 1, n)
  BY <1>6, <1>9 DEF Web!WithoutZone
<1>11. SubSeq(z, 1, n) = d
  <2> DEFINE b == SubSeq(z, 1, n)
  <2>1. 1 = 0 + 1 /\ 1 \in Nat /\ 0 \in Nat /\ 0 <= n /\ n <= Len(z) /\ n - 0 = n /\ \A k \in 1..n : 0 + k = k
    BY <1>1, <1>6
  <2>2. IsCut(b, z, 0, n, Int)
    BY <1>1, <1>6, <2>1, Cut
  <2> HIDE DEF b
  <2>3. HasLength(b, n, Int) /\ \A k \in 1..n : b[k] = z[0 + k]
    BY <2>1, <2>2 DEF IsCut, HasLength
  <2>4. \A k \in 1..n : z[k] = d[k]
    BY <1>5 DEF IsConcat
  <2>5. Alike(b, d, n)
    BY <2>1, <2>3, <2>4 DEF Alike
  <2>6. b = d
    BY <1>1, <2>3, <2>5, AlikeAreSame
  <2> QED BY <2>6 DEF b
<1>12. groups \in Web!Ipv6Groups(d) /\ groups \in Web!Ipv6Groups(z)
  BY <1>2, <1>3, <1>10, <1>11
<1> QED BY <1>1, <1>6, <1>12 DEF z

\* The ways to write groups whose double colon ends at the last place or before.
UpTo(groups, last) == {Web!Written(groups)} \cup {Web!Shortened(groups, r) : r \in Web!Runs(groups, last)}

\* The runs of zeros that a double colon can stand for.
LEMMA RunsAre ==
  ASSUME NEW groups, NEW last \in 1..8, NEW r \in Web!Runs(groups, last)
  PROVE  \E a \in 0..7 : \E b \in 1..8 : a < b /\ AreZeros(groups, a, b) /\ r[1] = a + 1 /\ r[2] = b /\ b <= last
<1> DEFINE a == r[1] - 1
           b == r[2]
<1>1. r[1] \in 1..last /\ r[2] \in 1..last /\ r[1] <= r[2] /\ \A i \in r[1]..r[2] : groups[i] = 0
  BY DEF Web!Runs
<1>2. a \in 0..7 /\ b \in 1..8 /\ a < b /\ a + 1 = r[1] /\ b <= last
  BY <1>1
<1>3. AreZeros(groups, a, b)
  BY <1>1, <1>2 DEF AreZeros
<1> HIDE DEF a, b
<1>4. r[2] = b
  BY DEF b
<1> QED BY <1>2, <1>3, <1>4

\* Each of these ways is read as the groups; one whose double colon ends early ends in two of them.
LEMMA UpToAre ==
  ASSUME NEW groups \in [1..8 -> Web!GroupValue], NEW last \in 1..8, NEW t \in UpTo(groups, last)
  PROVE  IsSpelling(t, groups) /\ (last <= 6 => \E n : EndsPaired(t, n, groups))
<1>1. CASE t = Web!Written(groups)
  BY <1>1, FullSpelling
<1>2. ASSUME NEW r \in Web!Runs(groups, last), t = Web!Shortened(groups, r)
      PROVE  IsSpelling(t, groups) /\ (last <= 6 => \E n : EndsPaired(t, n, groups))
  <2>1. PICK a \in 0..7, b \in 1..8 : a < b /\ AreZeros(groups, a, b) /\ r[1] = a + 1 /\ r[2] = b /\ b <= last
    BY RunsAre
  <2>2. IsSpelling(t, groups) /\ (b <= 6 => EndsPaired(t, Len(t), groups))
    BY <1>2, <2>1, ShortSpelling
  <2>3. last <= 6 => b <= 6
    BY <2>1
  <2> QED BY <2>2, <2>3
<1> QED BY <1>1, <1>2 DEF UpTo

\* Every spelling, but for its zone, is read as the groups that it spells.
LEMMA SpellingsAre ==
  ASSUME NEW groups \in [1..8 -> Web!GroupValue], NEW text \in Web!Spellings(groups)
  PROVE  \E d, n : IsReadAs(d, n, groups) /\ (text = d \/ text = Zoned(d))
<1> DEFINE plain == UpTo(groups, 8) \cup {Web!Dotted(t, groups[7], groups[8]) : t \in UpTo(groups, 6)}
<1>1. Web!Spellings(groups) = plain \cup {Zoned(t) : t \in plain}
  BY DEF Web!Spellings, UpTo, Zoned
<1>2. ASSUME NEW d \in plain PROVE \E n : IsReadAs(d, n, groups)
  <2>1. CASE d \in UpTo(groups, 8)
    <3>1. 8 \in 1..8
      OBVIOUS
    <3>2. IsSpelling(d, groups)
      BY <2>1, <3>1, UpToAre
    <3> QED BY <3>2, SpellingIsRead
  <2>2. ASSUME NEW t \in UpTo(groups, 6), d = Web!Dotted(t, groups[7], groups[8]) PROVE \E n : IsReadAs(d, n, groups)
    <3>1. 6 \in 1..8 /\ 6 <= 6
      OBVIOUS
    <3>2. IsSpelling(t, groups) /\ \E n : EndsPaired(t, n, groups)
      BY <3>1, UpToAre
    <3>3. PICK n : EndsPaired(t, n, groups)
      BY <3>2
    <3> QED BY <2>2, <3>2, <3>3, DottedIsRead
  <2> QED BY <2>1, <2>2
<1> HIDE DEF plain
<1>3. text \in plain \/ \E d \in plain : text = Zoned(d)
  BY <1>1
<1> QED BY <1>2, <1>3

\* The plainest spelling is one.
LEMMA WrittenIsSpelling == ASSUME NEW groups PROVE Web!Written(groups) \in Web!Spellings(groups)
BY DEF Web!Spellings

\* An address is refused or not by its number, however it is spelled: it is when it is of a scope that
\* the resolver has to refuse, and is not when it is public by the address plan.
THEOREM AddressesByNumber ==
  ASSUME NEW groups \in [1..8 -> Web!GroupValue]
  PROVE  Web!AddressIsJudgedByNumber(groups)
<1> DEFINE bytes == Web!BytesOfGroups(groups)
           octets == SubSeq(bytes, 13, 16)
<1>1. bytes \in Address(16)
  BY BytesInGroups
<1>2. ASSUME NEW text \in Web!Spellings(groups)
      PROVE  Web!PrivateAddress([family |-> 6, text |-> text]) <=> Web!Reserved6(bytes)
  <2>1. PICK d, n : IsReadAs(d, n, groups) /\ (text = d \/ text = Zoned(d))
    BY SpellingsAre
  <2>2. Len(groups) = 8
    BY GroupsAsSequence
  <2>3. text \in Seq(Int) /\ groups \in Web!Ipv6Groups(text)
    BY <2>1, <2>2, ReadWithZone
  <2>4. Web!Ipv6Groups(text) = {groups}
    BY <2>3, AddressIsOne
  <2> DEFINE a == [family |-> 6, text |-> text]
  <2>5. a.family = 6 /\ a.family # 4 /\ a.text = text
    OBVIOUS
  <2> HIDE DEF a
  <2>6. Web!PrivateAddress(a) <=> \A x \in Web!Ipv6Groups(text) : Web!PrivateIpv6(Web!BytesOfGroups(x))
    BY <2>5 DEF Web!PrivateAddress
  <2>7. Web!PrivateAddress(a) <=> Web!PrivateIpv6(bytes)
    BY <2>4, <2>6
  <2>8. Web!PrivateIpv6(bytes) <=> Web!Reserved6(bytes)
    BY <1>1, Ipv6Blocks
  <2> QED BY <2>7, <2>8 DEF a
<1>3. Web!PrivateAddress([family |-> 4, octets |-> octets]) <=> Web!Reserved4(octets)
  <2> HIDE DEF bytes
  <2>1. octets \in Address(4)
    BY <1>1, Ipv4Part
  <2> DEFINE a == [family |-> 4, octets |-> octets]
  <2> HIDE DEF octets
  <2>2. a.family = 4 /\ a.octets = octets
    OBVIOUS
  <2> HIDE DEF a
  <2>3. Web!PrivateAddress(a) <=> Web!PrivateIpv4(octets)
    BY <2>2 DEF Web!PrivateAddress
  <2> QED BY <2>1, <2>3, Ipv4Blocks DEF a
<1> DEFINE Declined(text) == Web!PrivateAddress([family |-> 6, text |-> text])
<1>4. Declined(Web!Written(groups)) <=> Web!Reserved6(bytes)
  BY <1>2, WrittenIsSpelling
<1>5. \A text \in Web!Spellings(groups) : Declined(text) <=> Declined(Web!Written(groups))
  BY <1>2, <1>4
<1>6. Web!Public6(bytes) => ~Web!Reserved6(bytes)
  BY <1>1, PublicIsNotReserved
<1>7. /\ Web!Reserved6(bytes) => Declined(Web!Written(groups))
      /\ Web!Public6(bytes) => ~Declined(Web!Written(groups))
  BY <1>4, <1>6
<1> QED BY <1>3, <1>5, <1>7 DEF Web!AddressIsJudgedByNumber

-----------------------------------------------------------------------------
(* Numbers and their digits *)

\* The numbers that digits stand for, up to each of them.
NextSum(b, sum, d) == sum * b + d
\* The bases that keys are written in.
IsBase(b) == b \in {16, 58, 256}
\* The digits of a base.
DigitSet(b) == 0..(b - 1)
\* The numbers that the first n digits stand for.
AreNumbers(b, s, n, h) == h[0] = 0 /\ \A k \in 1..n : h[k] = NextSum(b, h[k - 1], s[k])
\* The number of all digits is the one of the digits up to the last.
HasNumbers(b, s, n) == \E h \in [0..n -> Nat] : AreNumbers(b, s, n, h) /\ Web!NumberOf(b, s) = h[n]

\* With a digit more a number grows, unless both are zero.
LEMMA NextIs ==
  ASSUME NEW b, IsBase(b), NEW sum \in Nat, NEW d \in DigitSet(b)
  PROVE  /\ NextSum(b, sum, d) \in Nat
         /\ NextSum(b, sum, d) = 0 => sum = 0 /\ d = 0
         /\ NextSum(b, sum, d) # 0 => sum < NextSum(b, sum, d)
BY DEF IsBase, NextSum, DigitSet

\* A number and its next digit can be told from what they make.
LEMMA NextOnce ==
  ASSUME NEW b, IsBase(b), NEW sum \in Nat, NEW d \in DigitSet(b), NEW other \in Nat, NEW e \in DigitSet(b),
         NextSum(b, sum, d) = NextSum(b, other, e)
  PROVE  sum = other /\ d = e
BY DEF IsBase, NextSum, DigitSet

\* A number is what its quotient and its remainder by a base make.
LEMMA Divided ==
  ASSUME NEW b, IsBase(b), NEW n \in Nat
  PROVE  /\ n \div b \in Nat /\ (n % b) \in DigitSet(b)
         /\ n = NextSum(b, n \div b, (n % b))
         /\ n # 0 => n \div b < n
BY DEF IsBase, NextSum, DigitSet

\* Digits of every length stand for a number.
LEMMA NumberFold ==
  ASSUME NEW b, IsBase(b), NEW s \in Seq(DigitSet(b)), NEW n \in Nat, n = Len(s)
  PROVE  HasNumbers(b, s, n)
<1> DEFINE It(f) == [x \in SUBSET (DOMAIN s) |-> IF x = {} THEN 0 ELSE f[x \ {Max(x)}] * b + s[Max(x)]]
           iter == CHOOSE f : f = It(f)
           G == [p \in Nat \X (1..n) |-> NextSum(b, p[1], s[p[2]])]
<1>0. DOMAIN s = 1..n /\ \A k \in 1..n : s[k] \in DigitSet(b)
  BY LenProperties, ElementOfSeq
<1>1. Web!NumberOf(b, s) = iter[DOMAIN s]
  BY DEF Web!NumberOf, Web!FoldLeft, Web!MapThenFoldSet, Web!Max, Max
<1>2. IsStep(G, n, Nat)
  BY <1>0, NextIs DEF IsStep
<1>3. ASSUME NEW f, NEW x \in SUBSET (1..n), x # {}, f[x \ {Max(x)}] \in Nat
      PROVE  It(f)[x] = G[<<f[x \ {Max(x)}], Max(x)>>]
  <2>1. Max(x) \in 1..n
    BY <1>3, MaxInside
  <2> QED BY <1>0, <1>3, <2>1 DEF NextSum
<1>4. iter = It(iter)
  <2>1. PICK f \in [SUBSET (1..n) -> Nat] : Folds(f, 0, n, G)
    <3>1. HasFold(0, n, G, Nat)
      <4> HIDE DEF G
      <4> QED BY <1>2, FoldExists
    <3> QED BY <3>1 DEF HasFold
  <2>2. \A x \in SUBSET (1..n) : f[x \ {Max(x)}] \in Nat
    OBVIOUS
  <2>3. \A x \in SUBSET (1..n) : f[x] = It(f)[x]
    <3> TAKE x \in SUBSET (1..n)
    <3>1. CASE x = {}
      <4>1. f[x] = 0
        BY <2>1, <3>1 DEF Folds
      <4>2. It(f)[x] = 0
        BY <1>0, <3>1
      <4> QED BY <4>1, <4>2
    <3>2. CASE x # {}
      <4>1. f[x] = G[<<f[x \ {Max(x)}], Max(x)>>]
        <5> HIDE DEF G
        <5> QED BY <2>1, <3>2 DEF Folds
      <4>2. It(f)[x] = G[<<f[x \ {Max(x)}], Max(x)>>]
        <5>1. f[x \ {Max(x)}] \in Nat
          BY <2>2
        <5> HIDE DEF G, It
        <5> QED BY <1>3, <3>2, <5>1
      <4> QED BY <4>1, <4>2
    <3> QED BY <3>1, <3>2
  <2>4. f = [x \in SUBSET (1..n) |-> f[x]]
    OBVIOUS
  <2>5. It(f) = [x \in SUBSET (1..n) |-> It(f)[x]]
    BY <1>0
  <2> HIDE DEF It
  <2>6. f = It(f)
    BY <2>3, <2>4, <2>5
  <2> QED BY <2>6
<1>5. FoldsWithin(iter, 0, n, G, Nat)
  <2>1. iter[{}] = 0
    BY <1>4
  <2> HIDE DEF iter, G
  <2>2. \A x \in SUBSET (1..n) : iter[x] = It(iter)[x]
    BY <1>0, <1>4
  <2> HIDE DEF It
  <2> QED BY <1>3, <2>1, <2>2 DEF FoldsWithin
<1>7. PICK h \in [0..n -> Nat] : IsChain(h, 0, n, G) /\ iter[1..n] = h[n]
  <2>1. HasChain(iter, 0, n, G, Nat)
    <3> HIDE DEF G, iter
    <3> QED BY <1>2, <1>5, FoldChain
  <2> QED BY <2>1 DEF HasChain
<1>8. \A k \in 1..n : h[k] = NextSum(b, h[k - 1], s[k])
  <2> TAKE k \in 1..n
  <2>1. h[k-1] \in Nat
    OBVIOUS
  <2> QED BY <1>7, <2>1 DEF IsChain
<1> HIDE DEF iter
<1> QED BY <1>0, <1>1, <1>7, <1>8 DEF IsChain, HasNumbers, AreNumbers

\* Digits that stand behind the first others.
StandBehind(s, t, off, m) == \A k \in 1..m : s[off + k] = t[k]

\* Digits behind others that make nothing stand for what they stand for alone.
LEMMA NumbersAgree ==
  ASSUME NEW b, NEW s, NEW n \in Nat, NEW h, AreNumbers(b, s, n, h),
         NEW t, NEW m \in Nat, NEW g, AreNumbers(b, t, m, g),
         NEW off \in Nat, off + m <= n, h[off] = 0, StandBehind(s, t, off, m)
  PROVE  h[off + m] = g[m]
<1> DEFINE T == {k \in Nat : k <= m => h[off + k] = g[k]}
<1>1. 0 \in T
  BY DEF AreNumbers
<1>2. ASSUME NEW k \in T PROVE k + 1 \in T
  <2> SUFFICES ASSUME k + 1 <= m PROVE h[off + (k + 1)] = g[k + 1]
    OBVIOUS
  <2> DEFINE j == k + 1
             i == off + j
  <2>1. k \in Nat /\ h[off + k] = g[k] /\ j \in 1..m /\ i \in 1..n /\ j - 1 = k /\ i - 1 = off + k
    OBVIOUS
  <2>2. s[i] = t[j]
    BY <2>1 DEF StandBehind
  <2> HIDE DEF j, i, T
  <2>3. h[i] = NextSum(b, h[off + k], s[i])
    BY <2>1 DEF AreNumbers
  <2>4. g[j] = NextSum(b, g[k], t[j])
    BY <2>1 DEF AreNumbers
  <2>5. h[i] = g[j]
    BY <2>1, <2>2, <2>3, <2>4
  <2> QED BY <2>5 DEF i, j
<1>3. m \in T
  <2> HIDE DEF T
  <2>1. T \in SUBSET Nat
    BY DEF T
  <2> QED BY <1>1, <1>2, <2>1, Induction
<1> QED BY <1>3

\* It is a natural number.
LEMMA NumberInNat ==
  ASSUME NEW b, IsBase(b), NEW s \in Seq(DigitSet(b))
  PROVE  Web!NumberOf(b, s) \in Nat
<1> DEFINE n == Len(s)
<1>1. n \in Nat /\ n = Len(s) /\ n \in 0..n
  BY LenProperties
<1> HIDE DEF n
<1>2. HasNumbers(b, s, n)
  BY <1>1, NumberFold
<1> QED BY <1>1, <1>2 DEF HasNumbers

\* The number of no digits, and of digits with one more behind them.
LEMMA NumberOfNone == ASSUME NEW b, IsBase(b) PROVE Web!NumberOf(b, <<>>) = 0
<1>1. <<>> \in Seq(DigitSet(b)) /\ 0 \in Nat /\ 0 = Len(<<>>)
  OBVIOUS
<1>2. HasNumbers(b, <<>>, 0)
  BY <1>1, NumberFold
<1> QED BY <1>2 DEF HasNumbers, AreNumbers

\* A sequence with one element more behind it.
IsAppended(t, s, m, d, V) == t \in Seq(V) /\ Len(t) = m + 1 /\ Alike(t, s, m) /\ t[m + 1] = d

\* With one digit more behind them, digits stand for the next number.
LEMMA NumberOfAppended ==
  ASSUME NEW b, IsBase(b), NEW s, NEW m, HasLength(s, m, DigitSet(b)), NEW d, NEW t, IsAppended(t, s, m, d, DigitSet(b))
  PROVE  Web!NumberOf(b, t) = NextSum(b, Web!NumberOf(b, s), d)
<1> DEFINE n == m + 1
<1>1. m \in Nat /\ m = Len(s) /\ s \in Seq(DigitSet(b))
  BY LenProperties DEF HasLength
<1>2. n \in Nat /\ n = Len(t) /\ t \in Seq(DigitSet(b)) /\ t[n] = d /\ n - 1 = m /\ n \in 1..n /\ 0 + m <= n /\ 0 + m = m
  BY <1>1 DEF IsAppended
<1> HIDE DEF n
<1>3. PICK h \in [0..n -> Nat] : AreNumbers(b, t, n, h) /\ Web!NumberOf(b, t) = h[n]
  BY <1>2, NumberFold DEF HasNumbers
<1>4. PICK g \in [0..m -> Nat] : AreNumbers(b, s, m, g) /\ Web!NumberOf(b, s) = g[m]
  BY <1>1, NumberFold DEF HasNumbers
<1>5. h[n] = NextSum(b, h[m], d)
  BY <1>2, <1>3 DEF AreNumbers
<1>6. h[m] = g[m]
  <2>1. StandBehind(t, s, 0, m)
    <3>1. \A k \in 1..m : 0 + k = k
      BY <1>1
    <3> QED BY <3>1 DEF IsAppended, Alike, StandBehind
  <2>2. 0 \in Nat /\ h[0] = 0
    BY <1>3 DEF AreNumbers
  <2>3. h[0 + m] = g[m]
    <3>1. AreNumbers(b, t, n, h) /\ AreNumbers(b, s, m, g)
      BY <1>3, <1>4
    <3> QED BY <1>1, <1>2, <2>1, <2>2, <3>1, NumbersAgree
  <2> QED BY <1>2, <2>3
<1> QED BY <1>3, <1>4, <1>5, <1>6

\* Digits without a leading zero.
NoLeadingZero(s) == s = <<>> \/ s[1] # 0
\* The digits of a number, without a leading zero.
IsDigits(b, s, n) == s \in Seq(DigitSet(b)) /\ NoLeadingZero(s) /\ Web!NumberOf(b, s) = n

\* They stand for no zero.
LEMMA DigitsPositive ==
  ASSUME NEW b, IsBase(b), NEW s, IsDigits(b, s, 0)
  PROVE  s = <<>>
<1> SUFFICES ASSUME s # <<>> PROVE FALSE
  OBVIOUS
<1> DEFINE n == Len(s)
<1>1. s \in Seq(DigitSet(b)) /\ s[1] # 0 /\ Web!NumberOf(b, s) = 0
  BY DEF IsDigits, NoLeadingZero
<1>2. n \in Nat /\ n # 0 /\ n = Len(s) /\ 1 \in 1..n /\ \A k \in 1..n : s[k] \in DigitSet(b)
  BY <1>1, LenProperties, EmptySeq, ElementOfSeq
<1> HIDE DEF n
<1>3. PICK h \in [0..n -> Nat] : AreNumbers(b, s, n, h) /\ Web!NumberOf(b, s) = h[n]
  BY <1>1, <1>2, NumberFold DEF HasNumbers
<1>4. \A k \in 1..n : k - 1 \in 0..n /\ k \in 0..n
  BY <1>2
<1>5. ASSUME NEW k \in 1..n, h[k] = 0 PROVE h[k - 1] = 0 /\ s[k] = 0
  <2>1. h[k] = NextSum(b, h[k - 1], s[k])
    BY <1>3 DEF AreNumbers
  <2>2. h[k - 1] \in Nat /\ s[k] \in DigitSet(b)
    BY <1>2, <1>4
  <2> QED BY <1>5, <2>1, <2>2, NextIs
<1> DEFINE T == {k \in Nat : k <= n => (h[k] = 0 => k = 0)}
<1>6. 0 \in T
  OBVIOUS
<1>7. ASSUME NEW k \in T PROVE k + 1 \in T
  <2> SUFFICES ASSUME k + 1 <= n, h[k + 1] = 0 PROVE FALSE
    OBVIOUS
  <2> DEFINE j == k + 1
  <2>1. k \in Nat /\ (h[k] = 0 => k = 0) /\ j \in 1..n /\ j - 1 = k /\ h[j] = 0 /\ (k = 0 => j = 1)
    BY <1>2
  <2> HIDE DEF j, T
  <2>2. h[k] = 0 /\ s[j] = 0
    BY <1>5, <2>1
  <2> QED BY <1>1, <2>1, <2>2
<1>8. T = Nat
  <2> HIDE DEF T
  <2>1. T \in SUBSET Nat
    BY DEF T
  <2> QED BY <1>6, <1>7, <2>1, Induction
<1>9. h[n] # 0
  <2>1. n \in T
    <3> HIDE DEF T
    <3> QED BY <1>2, <1>8
  <2> QED BY <1>2, <2>1
<1> QED BY <1>1, <1>3, <1>9

\* Digits are those in front, of a smaller number, and the last one.
LEMMA DigitsSplit ==
  ASSUME NEW b, IsBase(b), NEW s, NEW n \in Nat, IsDigits(b, s, n), s # <<>>
  PROVE  \E front, sum, d, m : /\ sum \in Nat /\ d \in DigitSet(b) /\ n = NextSum(b, sum, d)
                               /\ IsDigits(b, front, sum) /\ HasLength(front, m, DigitSet(b))
                               /\ IsAppended(s, front, m, d, DigitSet(b))
<1> DEFINE l == Len(s)
           m == l - 1
           front == SubSeq(s, 1, m)
           d == s[l]
           sum == Web!NumberOf(b, front)
<1>1. s \in Seq(DigitSet(b)) /\ s[1] # 0 /\ Web!NumberOf(b, s) = n
  BY DEF IsDigits, NoLeadingZero
<1>2. l \in Nat /\ m \in Nat /\ m + 1 = l /\ m <= l /\ m - 0 = m /\ d \in DigitSet(b)
  <2>1. l \in Nat /\ l # 0 /\ \A k \in 1..l : s[k] \in DigitSet(b)
    BY <1>1, LenProperties, EmptySeq, ElementOfSeq
  <2>2. l \in 1..l
    BY <2>1
  <2>3. d \in DigitSet(b)
    BY <2>1, <2>2
  <2> HIDE DEF d
  <2> QED BY <2>1, <2>3
<1>3. IsCut(front, s, 0, m, DigitSet(b))
  <2>1. 1 = 0 + 1 /\ 1 \in Nat /\ 0 \in Nat /\ 0 <= m /\ m <= Len(s)
    BY <1>2
  <2> HIDE DEF m
  <2> QED BY <1>1, <1>2, <2>1, Cut
<1> HIDE DEF front
<1>4. HasLength(front, m, DigitSet(b)) /\ front \in Seq(DigitSet(b)) /\ \A k \in 1..m : front[k] = s[k]
  <2>1. \A k \in 1..m : 0 + k = k
    BY <1>2
  <2> HIDE DEF m
  <2>2. front \in Seq(DigitSet(b)) /\ Len(front) = m /\ \A k \in 1..m : front[k] = s[0 + k]
    BY <1>2, <1>3 DEF IsCut
  <2> QED BY <2>1, <2>2 DEF HasLength
<1>5. IsAppended(s, front, m, d, DigitSet(b))
  <2> HIDE DEF m
  <2>1. Alike(s, front, m) /\ Len(s) = m + 1 /\ s[m + 1] = d
    BY <1>2, <1>4 DEF Alike
  <2> QED BY <1>1, <2>1 DEF IsAppended
<1>6. sum \in Nat
  BY <1>4, NumberInNat
<1>7. n = NextSum(b, sum, d)
  <2> HIDE DEF m, d
  <2> QED BY <1>1, <1>4, <1>5, NumberOfAppended
<1>8. NoLeadingZero(front)
  <2>1. CASE m = 0
    <3>1. front = <<>>
      BY <1>4, <2>1, EmptySeq DEF HasLength
    <3> QED BY <3>1 DEF NoLeadingZero
  <2>2. CASE m # 0
    <3>1. 1 \in 1..m
      BY <1>2, <2>2
    <3> QED BY <1>1, <1>4, <3>1 DEF NoLeadingZero
  <2> QED BY <2>1, <2>2
<1>9. IsDigits(b, front, sum)
  BY <1>4, <1>8 DEF IsDigits
<1> HIDE DEF m, d, sum
<1> QED BY <1>2, <1>4, <1>5, <1>6, <1>7, <1>9

\* A number has one row of digits.
DigitsUniqueFor(b, n) == \A s, t : IsDigits(b, s, n) /\ IsDigits(b, t, n) => s = t

\* Every number has one.
LEMMA DigitsUnique ==
  ASSUME NEW b, IsBase(b), NEW n \in Nat
  PROVE  DigitsUniqueFor(b, n)
<1> DEFINE T == {k \in Nat : \A i \in 0..k : DigitsUniqueFor(b, i)}
<1>1. DigitsUniqueFor(b, 0)
  BY DigitsPositive DEF DigitsUniqueFor
<1>2. 0 \in T
  <2>1. \A i \in 0..0 : i = 0
    OBVIOUS
  <2> QED BY <1>1, <2>1
<1>3. ASSUME NEW k \in T PROVE k + 1 \in T
  <2> DEFINE j == k + 1
  <2>0. k \in Nat /\ \A i \in 0..k : DigitsUniqueFor(b, i)
    OBVIOUS
  <2>1. j \in Nat /\ j # 0 /\ \A i \in 0..j : i \in 0..k \/ i = j
    BY <2>0
  <2>2. \A i \in Nat : i < j => i \in 0..k
    BY <2>0
  <2> HIDE DEF j, T
  <2>3. DigitsUniqueFor(b, j)
    <3> SUFFICES ASSUME NEW s, NEW t, IsDigits(b, s, j), IsDigits(b, t, j) PROVE s = t
      BY DEF DigitsUniqueFor
    <3>1. s # <<>> /\ t # <<>>
      <4>1. Web!NumberOf(b, s) = j /\ Web!NumberOf(b, t) = j
        BY DEF IsDigits
      <4> QED BY <2>1, <4>1, NumberOfNone
    <3>2. PICK front, sum, d, m : /\ sum \in Nat /\ d \in DigitSet(b) /\ j = NextSum(b, sum, d)
                                  /\ IsDigits(b, front, sum) /\ HasLength(front, m, DigitSet(b))
                                  /\ IsAppended(s, front, m, d, DigitSet(b))
      BY <2>1, <3>1, DigitsSplit
    <3>3. PICK other, total, e, l : /\ total \in Nat /\ e \in DigitSet(b) /\ j = NextSum(b, total, e)
                                    /\ IsDigits(b, other, total) /\ HasLength(other, l, DigitSet(b))
                                    /\ IsAppended(t, other, l, e, DigitSet(b))
      BY <2>1, <3>1, DigitsSplit
    <3>4. sum = total /\ d = e
      BY <3>2, <3>3, NextOnce
    <3>5. sum < j
      BY <2>1, <3>2, NextIs
    <3>6. DigitsUniqueFor(b, sum)
      BY <2>0, <2>2, <3>2, <3>5
    <3>7. front = other
      BY <3>2, <3>3, <3>4, <3>6 DEF DigitsUniqueFor
    <3>8. m = l /\ m \in Nat
      BY <3>2, <3>3, <3>7, LenProperties DEF HasLength
    <3> DEFINE f == m + 1
    <3>9. \A k1 \in 1..f : k1 \in 1..m \/ k1 = m + 1
      BY <3>8
    <3>10. HasLength(s, f, DigitSet(b)) /\ HasLength(t, f, DigitSet(b))
      BY <3>2, <3>3, <3>8 DEF IsAppended, HasLength
    <3>11. Alike(s, t, f)
      <4> HIDE DEF f
      <4>1. s[m + 1] = t[m + 1]
        BY <3>2, <3>3, <3>4, <3>8 DEF IsAppended
      <4>2. \A k1 \in 1..m : s[k1] = t[k1]
        BY <3>2, <3>3, <3>7, <3>8 DEF IsAppended, Alike
      <4> QED BY <3>9, <4>1, <4>2 DEF Alike
    <3> HIDE DEF f
    <3> QED BY <3>10, <3>11, AlikeAreSame
  <2>4. \A i \in 0..j : DigitsUniqueFor(b, i)
    BY <2>0, <2>1, <2>3
  <2>5. j \in T
    BY <2>1, <2>4 DEF T
  <2> QED BY <2>5 DEF j
<1>4. n \in T
  <2> HIDE DEF T
  <2>1. T \in SUBSET Nat
    BY DEF T
  <2> QED BY <1>2, <1>3, <2>1, Induction
<1>5. n \in 0..n
  OBVIOUS
<1> QED BY <1>4, <1>5

\* One more digit behind those of a quotient.
LEMMA AppendedIs ==
  ASSUME NEW V, NEW s \in Seq(V), NEW m, m = Len(s), NEW d \in V
  PROVE  IsAppended(Append(s, d), s, m, d, V)
<1>1. m \in Nat
  BY LenProperties
<1> DEFINE t == Append(s, d)
<1>2. t \in Seq(V) /\ Len(t) = m + 1 /\ t[m + 1] = d /\ \A k \in 1..m : t[k] = s[k]
  BY <1>1
<1> HIDE DEF t
<1> QED BY <1>2 DEF IsAppended, Alike, t

\* The digits of a quotient and the remainder behind them are the digits of a number.
LEMMA DigitsStep ==
  ASSUME NEW b, IsBase(b), NEW n \in Nat, n # 0, NEW s, IsDigits(b, s, n \div b)
  PROVE  IsDigits(b, Append(s, (n % b)), n)
<1> DEFINE q == n \div b
           d == n % b
           m == Len(s)
           t == Append(s, d)
<1>1. q \in Nat /\ d \in DigitSet(b) /\ n = NextSum(b, q, d)
  BY Divided
<1>2. s \in Seq(DigitSet(b)) /\ NoLeadingZero(s) /\ Web!NumberOf(b, s) = q /\ IsDigits(b, s, q)
  BY DEF IsDigits
<1> HIDE DEF q, d
<1>3. HasLength(s, m, DigitSet(b)) /\ m \in Nat
  BY <1>2, LenProperties DEF HasLength
<1>4. IsAppended(t, s, m, d, DigitSet(b))
  BY <1>1, <1>2, AppendedIs
<1> HIDE DEF t, m
<1>5. Web!NumberOf(b, t) = n
  BY <1>1, <1>2, <1>3, <1>4, NumberOfAppended
<1>6. NoLeadingZero(t)
  <2>1. CASE m = 0
    <3>1. s = <<>>
      BY <1>3, <2>1, EmptySeq DEF HasLength
    <3>2. q = 0
      BY <1>2, <3>1, NumberOfNone
    <3>3. d # 0
      <4>1. NextSum(b, q, d) = d
        <5>1. d \in Int /\ b \in Int
          BY <1>1 DEF DigitSet, IsBase
        <5> QED BY <3>2, <5>1 DEF NextSum
      <4> QED BY <1>1, <4>1
    <3>4. t[1] = d
      <4>1. m + 1 = 1
        BY <2>1
      <4> QED BY <1>4, <4>1 DEF IsAppended
    <3> QED BY <3>3, <3>4 DEF NoLeadingZero
  <2>2. CASE m # 0
    <3>1. 1 \in 1..m /\ s # <<>>
      BY <1>3, <2>2, EmptySeq DEF HasLength
    <3>2. t[1] = s[1]
      BY <1>4, <3>1 DEF IsAppended, Alike
    <3> QED BY <1>2, <3>1, <3>2 DEF NoLeadingZero
  <2> QED BY <2>1, <2>2
<1>7. IsDigits(b, t, n)
  BY <1>4, <1>5, <1>6 DEF IsDigits, IsAppended
<1> QED BY <1>7 DEF t, d

\* A number that has digits.
HasDigits(b, n) == \E s : IsDigits(b, s, n)

\* Zero has none.
LEMMA NoDigits == ASSUME NEW b, IsBase(b) PROVE IsDigits(b, <<>>, 0)
<1>1. <<>> \in Seq(DigitSet(b))
  OBVIOUS
<1> QED BY <1>1, NumberOfNone DEF IsDigits, NoLeadingZero

\* Every number has digits.
LEMMA DigitsExist ==
  ASSUME NEW b, IsBase(b), NEW n \in Nat
  PROVE  HasDigits(b, n)
<1> DEFINE T == {k \in Nat : \A i \in 0..k : HasDigits(b, i)}
<1>1. 0 \in T
  <2>1. \A i \in 0..0 : i = 0
    OBVIOUS
  <2> QED BY <2>1, NoDigits DEF HasDigits
<1>2. ASSUME NEW k \in T PROVE k + 1 \in T
  <2> DEFINE j == k + 1
  <2>0. k \in Nat /\ \A i \in 0..k : HasDigits(b, i)
    OBVIOUS
  <2>1. j \in Nat /\ j # 0 /\ \A i \in 0..j : i \in 0..k \/ i = j
    BY <2>0
  <2>2. \A i \in Nat : i < j => i \in 0..k
    BY <2>0
  <2> HIDE DEF j, T
  <2>3. j \div b \in Nat /\ j \div b < j
    BY <2>1, Divided
  <2>4. PICK s : IsDigits(b, s, j \div b)
    BY <2>0, <2>2, <2>3 DEF HasDigits
  <2>5. HasDigits(b, j)
    BY <2>1, <2>4, DigitsStep DEF HasDigits
  <2>6. \A i \in 0..j : HasDigits(b, i)
    BY <2>0, <2>1, <2>5
  <2>7. j \in T
    BY <2>1, <2>6 DEF T
  <2> QED BY <2>7 DEF j
<1>3. n \in T
  <2> HIDE DEF T
  <2>1. T \in SUBSET Nat
    BY DEF T
  <2> QED BY <1>1, <1>2, <2>1, Induction
<1>4. n \in 0..n
  OBVIOUS
<1> QED BY <1>3, <1>4

\* What DigitsOf() gives.
LEMMA DigitsOfIs ==
  ASSUME NEW b, IsBase(b), NEW number \in Nat
  PROVE  IsDigits(b, Web!DigitsOf(b, number), number)
<1> DEFINE It(f) == [n \in 0..number |-> IF n = 0 THEN <<>> ELSE Append(f[n \div b], n % b)]
           digits == CHOOSE f : f = It(f)
           g == [n \in 0..number |-> CHOOSE s : IsDigits(b, s, n)]
<1>1. Web!DigitsOf(b, number) = digits[number]
  BY DEF Web!DigitsOf
<1>2. \A n \in 0..number : n \in Nat /\ IsDigits(b, g[n], n)
  <2> TAKE n \in 0..number
  <2>1. n \in Nat /\ HasDigits(b, n)
    BY DigitsExist
  <2> QED BY <2>1 DEF HasDigits
<1> HIDE DEF g
<1>3. \A n \in 0..number : n # 0 => n \div b \in 0..number
  <2> TAKE n \in 0..number
  <2> SUFFICES ASSUME n # 0 PROVE n \div b \in 0..number
    OBVIOUS
  <2> DEFINE q == n \div b
  <2>1. q \in Nat /\ q < n
    BY Divided
  <2> HIDE DEF q
  <2>2. q \in 0..number
    BY <2>1
  <2> QED BY <2>2 DEF q
<1>4. g = It(g)
  <2>1. \A n \in 0..number : g[n] = IF n = 0 THEN <<>> ELSE Append(g[n \div b], n % b)
    <3> TAKE n \in 0..number
    <3>1. n \in Nat /\ DigitsUniqueFor(b, n) /\ IsDigits(b, g[n], n)
      BY <1>2, DigitsUnique
    <3>2. CASE n = 0
      BY <3>1, <3>2, NoDigits DEF DigitsUniqueFor
    <3>3. CASE n # 0
      <4>1. IsDigits(b, g[n \div b], n \div b)
        BY <1>2, <1>3, <3>3
      <4>2. IsDigits(b, Append(g[n \div b], (n % b)), n)
        BY <3>1, <3>3, <4>1, DigitsStep
      <4> QED BY <3>1, <3>3, <4>2 DEF DigitsUniqueFor
    <3> QED BY <3>2, <3>3
  <2>2. g = [n \in 0..number |-> g[n]]
    BY DEF g
  <2> QED BY <2>1, <2>2
<1>5. digits = It(digits)
  <2> HIDE DEF It
  <2> QED BY <1>4
<1> HIDE DEF digits
<1>6. \A n \in 0..number : digits[n] = IF n = 0 THEN <<>> ELSE Append(digits[n \div b], n % b)
  BY <1>5
<1> DEFINE T == {k \in Nat : \A i \in 0..k : i \in 0..number => digits[i] = g[i]}
<1>7. 0 \in T
  <2>1. \A i \in 0..0 : i = 0
    OBVIOUS
  <2>2. 0 \in 0..number
    OBVIOUS
  <2>3. digits[0] = g[0]
    <3>1. digits[0] = <<>>
      BY <1>6, <2>2
    <3>2. g[0] = <<>>
      BY <1>4, <2>2
    <3> QED BY <3>1, <3>2
  <2> QED BY <2>1, <2>3
<1>8. ASSUME NEW k \in T PROVE k + 1 \in T
  <2> DEFINE j == k + 1
  <2>0. k \in Nat /\ \A i \in 0..k : i \in 0..number => digits[i] = g[i]
    OBVIOUS
  <2>1. j \in Nat /\ j # 0 /\ \A i \in 0..j : i \in 0..k \/ i = j
    BY <2>0
  <2>2. \A i \in Nat : i < j => i \in 0..k
    BY <2>0
  <2> HIDE DEF j, T
  <2>3. j \in 0..number => digits[j] = g[j]
    <3> SUFFICES ASSUME j \in 0..number PROVE digits[j] = g[j]
      OBVIOUS
    <3>1. j \div b \in Nat /\ j \div b < j /\ j \div b \in 0..number
      BY <1>3, <2>1, Divided
    <3>2. digits[j \div b] = g[j \div b]
      BY <2>0, <2>2, <3>1
    <3>3. digits[j] = Append(digits[j \div b], j % b)
      BY <1>6, <2>1
    <3>4. g[j] = Append(g[j \div b], j % b)
      BY <1>4, <2>1
    <3> QED BY <3>2, <3>3, <3>4
  <2>4. \A i \in 0..j : i \in 0..number => digits[i] = g[i]
    BY <2>0, <2>1, <2>3
  <2>5. j \in T
    BY <2>1, <2>4 DEF T
  <2> QED BY <2>5 DEF j
<1>9. number \in T
  <2> HIDE DEF T
  <2>1. T \in SUBSET Nat
    BY DEF T
  <2> QED BY <1>7, <1>8, <2>1, Induction
<1>10. digits[number] = g[number]
  <2>1. number \in 0..number
    OBVIOUS
  <2> QED BY <1>9, <2>1
<1>11. IsDigits(b, g[number], number)
  BY <1>2
<1> QED BY <1>1, <1>10, <1>11

-----------------------------------------------------------------------------
(* Keys as texts (trust-policy.ts) *)

\* The zeros that a text begins with.
StartsWithZeros(text, n, l) ==
  l \in 0..n /\ (\A k \in 1..l : text[k] = 0) /\ (l # n => text[l + 1] # 0)

\* Leading() counts them.
LEMMA LeadingIs ==
  ASSUME NEW text, NEW n \in Nat, n = Len(text)
  PROVE  StartsWithZeros(text, n, Web!Leading(0, text))
<1> DEFINE I == {i \in 1..Len(text) : text[i] # 0}
           first == IF I # {} THEN Min(I) ELSE 0
           l == Web!Leading(0, text)
<1>1. l = IF first = 0 THEN Len(text) ELSE first - 1
  BY DEF Web!Leading, Web!SelectInSeq, Web!Min, Min
<1> HIDE DEF l
<1>2. CASE I = {}
  <2>1. l = n /\ \A k \in 1..n : text[k] = 0
    BY <1>1, <1>2
  <2> QED BY <2>1 DEF StartsWithZeros, l
<1>3. CASE I # {}
  <2>1. I \in SUBSET Nat /\ \A k \in I : k \in 1..n /\ text[k] # 0
    OBVIOUS
  <2>2. \A k \in 1..n : text[k] # 0 => k \in I
    OBVIOUS
  <2> HIDE DEF I
  <2>3. PICK i \in I : \A k \in I : i <= k
    BY <1>3, <2>1, LeastOf
  <2>4. Min(I) = i
    BY <2>1, <2>3, MinIs
  <2>5. i \in 1..n /\ text[i] # 0 /\ i # 0
    BY <2>1, <2>3
  <2>6. l = i - 1
    BY <1>1, <1>3, <2>4, <2>5
  <2>7. l \in 0..n /\ l # n /\ l + 1 = i
    BY <2>5, <2>6
  <2>8. \A k \in 1..l : k \in 1..n /\ ~(i <= k)
    BY <2>5, <2>6
  <2>9. \A k \in 1..l : text[k] = 0
    BY <2>2, <2>3, <2>8
  <2> QED BY <2>5, <2>7, <2>9 DEF StartsWithZeros, l
<1> QED BY <1>2, <1>3

\* There is one count of them.
LEMMA LeadingOnce ==
  ASSUME NEW text, NEW n \in Nat, NEW l, StartsWithZeros(text, n, l), NEW m, StartsWithZeros(text, n, m)
  PROVE  l = m
<1>1. l \in Nat /\ m \in Nat /\ l <= n /\ m <= n
  BY DEF StartsWithZeros
<1>2. ~(l < m)
  <2> SUFFICES ASSUME l < m PROVE FALSE
    OBVIOUS
  <2>1. l + 1 \in 1..m /\ l # n
    BY <1>1
  <2> QED BY <2>1 DEF StartsWithZeros
<1>3. ~(m < l)
  <2> SUFFICES ASSUME m < l PROVE FALSE
    OBVIOUS
  <2>1. m + 1 \in 1..l /\ m # n
    BY <1>1
  <2> QED BY <2>1 DEF StartsWithZeros
<1> QED BY <1>1, <1>2, <1>3

\* Leading zeros do not count.
LEMMA NumberPastZeros ==
  ASSUME NEW b, IsBase(b), NEW s, NEW n \in Nat, HasLength(s, n, DigitSet(b)), NEW l, StartsWithZeros(s, n, l),
         NEW t, NEW m, HasLength(t, m, DigitSet(b)), l + m = n, StandBehind(s, t, l, m)
  PROVE  Web!NumberOf(b, s) = Web!NumberOf(b, t)
<1>1. l \in Nat /\ l <= n /\ m \in Nat /\ l + m <= n /\ n = Len(s) /\ m = Len(t)
  <2>1. m \in Nat /\ n = Len(s) /\ m = Len(t)
    BY LenProperties DEF HasLength
  <2> QED BY <2>1 DEF StartsWithZeros
<1>2. s \in Seq(DigitSet(b)) /\ t \in Seq(DigitSet(b))
  BY DEF HasLength
<1>3. PICK h \in [0..n -> Nat] : AreNumbers(b, s, n, h) /\ Web!NumberOf(b, s) = h[n]
  BY <1>1, <1>2, NumberFold DEF HasNumbers
<1>4. PICK g \in [0..m -> Nat] : AreNumbers(b, t, m, g) /\ Web!NumberOf(b, t) = g[m]
  BY <1>1, <1>2, NumberFold DEF HasNumbers
<1>5. NextSum(b, 0, 0) = 0
  <2>1. b \in Int
    BY DEF IsBase
  <2> QED BY <2>1 DEF NextSum
<1> DEFINE T == {k \in Nat : k <= l => h[k] = 0}
<1>6. 0 \in T
  BY <1>3 DEF AreNumbers
<1>7. ASSUME NEW k \in T PROVE k + 1 \in T
  <2> SUFFICES ASSUME k + 1 <= l PROVE h[k + 1] = 0
    OBVIOUS
  <2> DEFINE j == k + 1
  <2>1. k \in Nat /\ h[k] = 0 /\ j \in 1..n /\ j \in 1..l /\ j - 1 = k
    BY <1>1
  <2> HIDE DEF j, T
  <2>2. h[j] = NextSum(b, h[k], s[j])
    BY <1>3, <2>1 DEF AreNumbers
  <2>3. s[j] = 0
    BY <2>1 DEF StartsWithZeros
  <2>4. h[j] = 0
    BY <1>5, <2>1, <2>2, <2>3
  <2> QED BY <2>4 DEF j
<1>8. h[l] = 0
  <2>1. l \in T
    <3> HIDE DEF T
    <3>1. T \in SUBSET Nat
      BY DEF T
    <3> QED BY <1>1, <1>6, <1>7, <3>1, Induction
  <2> QED BY <1>1, <2>1
<1>9. h[l + m] = g[m]
  <2>1. AreNumbers(b, s, n, h) /\ AreNumbers(b, t, m, g)
    BY <1>3, <1>4
  <2> QED BY <1>1, <1>8, <2>1, NumbersAgree
<1> QED BY <1>3, <1>4, <1>9

\* Zeros with other digits behind them.
Zeros(l) == [i \in 1..l |-> 0]

\* They are digits of every base.
LEMMA ZerosAre ==
  ASSUME NEW b, IsBase(b), NEW l \in Nat
  PROVE  HasLength(Zeros(l), l, DigitSet(b)) /\ \A k \in 1..l : Zeros(l)[k] = 0
<1>1. 0 \in DigitSet(b)
  BY DEF IsBase, DigitSet
<1>2. Zeros(l) \in [1..l -> DigitSet(b)] /\ \A k \in 1..l : Zeros(l)[k] = 0
  BY <1>1 DEF Zeros
<1> QED BY <1>2, Sequence DEF HasLength

\* A text of l zeros with the digits s behind them.
IsPadded(text, l, s, m, n, b) ==
  /\ HasLength(text, n, DigitSet(b)) /\ n \in Nat /\ n = l + m
  /\ StartsWithZeros(text, n, l) /\ StandBehind(text, s, l, m)

\* Zeros put in front of digits without a leading zero are the leading zeros of the text.
LEMMA ZerosBefore ==
  ASSUME NEW b, IsBase(b), NEW l \in Nat, NEW s, NEW m, HasLength(s, m, DigitSet(b)), NoLeadingZero(s)
  PROVE  IsPadded(Zeros(l) \o s, l, s, m, l + m, b)
<1> DEFINE text == Zeros(l) \o s
           n == l + m
<1>1. m \in Nat /\ n \in Nat /\ n = l + m
  BY LenProperties DEF HasLength
<1>2. IsConcat(text, Zeros(l), l, s, m, DigitSet(b))
  <2>1. Zeros(l) \in Seq(DigitSet(b)) /\ Len(Zeros(l)) = l
    BY ZerosAre DEF HasLength
  <2>2. s \in Seq(DigitSet(b)) /\ Len(s) = m
    BY DEF HasLength
  <2> QED BY <2>1, <2>2, Concat
<1> HIDE DEF text, n
<1>3. HasLength(text, n, DigitSet(b)) /\ StandBehind(text, s, l, m)
  BY <1>2 DEF IsConcat, HasLength, StandBehind, n
<1>4. \A k \in 1..l : text[k] = 0
  <2>1. \A k \in 1..l : Zeros(l)[k] = 0
    BY ZerosAre
  <2> QED BY <1>2, <2>1 DEF IsConcat
<1>5. l # n => text[l + 1] # 0
  <2> SUFFICES ASSUME l # n PROVE text[l + 1] # 0
    OBVIOUS
  <2>1. m # 0 /\ 1 \in 1..m
    BY <1>1
  <2>2. s # <<>>
    BY <2>1, EmptySeq DEF HasLength
  <2>3. text[l + 1] = s[1]
    BY <1>2, <2>1 DEF IsConcat
  <2> QED BY <2>2, <2>3 DEF NoLeadingZero
<1>6. l \in 0..n
  BY <1>1
<1> QED BY <1>1, <1>3, <1>4, <1>5, <1>6 DEF StartsWithZeros, IsPadded, text, n

\* What follows the leading zeros of bytes are the digits of their number.
LEMMA RestIs ==
  ASSUME NEW b, IsBase(b), NEW s, NEW n \in Nat, HasLength(s, n, DigitSet(b)), NEW l, StartsWithZeros(s, n, l)
  PROVE  \E rest, m : /\ HasLength(rest, m, DigitSet(b)) /\ l + m = n /\ StandBehind(s, rest, l, m)
                      /\ IsDigits(b, rest, Web!NumberOf(b, s))
<1> DEFINE m == n - l
           f == l + 1
           rest == SubSeq(s, f, n)
<1>1. l \in Nat /\ l <= n /\ m \in Nat /\ l + m = n /\ f = l + 1 /\ f \in Nat
  BY DEF StartsWithZeros
<1>2. s \in Seq(DigitSet(b)) /\ n <= Len(s)
  BY DEF HasLength
<1> HIDE DEF f
<1>3. IsCut(rest, s, l, n, DigitSet(b))
  BY <1>1, <1>2, Cut
<1> HIDE DEF rest
<1>4. HasLength(rest, m, DigitSet(b)) /\ StandBehind(s, rest, l, m)
  BY <1>3 DEF IsCut, HasLength, StandBehind
<1> HIDE DEF m
<1>5. NoLeadingZero(rest)
  <2>1. CASE m = 0
    <3>1. rest = <<>>
      BY <1>4, <2>1, EmptySeq DEF HasLength
    <3> QED BY <3>1 DEF NoLeadingZero
  <2>2. CASE m # 0
    <3>1. 1 \in 1..m /\ l # n
      BY <1>1, <2>2
    <3>2. s[l + 1] = rest[1]
      BY <1>4, <3>1 DEF StandBehind
    <3>3. s[l + 1] # 0
      BY <3>1 DEF StartsWithZeros
    <3> QED BY <3>2, <3>3 DEF NoLeadingZero
  <2> QED BY <2>1, <2>2
<1>6. Web!NumberOf(b, s) = Web!NumberOf(b, rest)
  BY <1>1, <1>4, NumberPastZeros
<1>7. IsDigits(b, rest, Web!NumberOf(b, s))
  BY <1>4, <1>5, <1>6 DEF IsDigits, HasLength
<1> QED BY <1>1, <1>4, <1>7

\* A byte is a digit of base 256, and keys are written in the bases 58 and 16.
LEMMA BasesOfBytes == DigitSet(256) = Byte /\ IsBase(256) /\ IsBase(58) /\ IsBase(16)
<1>1. 256 - 1 = 255
  OBVIOUS
<1> QED BY <1>1 DEF DigitSet, Byte, IsBase

\* Bytes are what their Base58 text is decoded to.
LEMMA Base58ReadsBack ==
  ASSUME NEW bytes \in Seq(Byte), bytes # <<>>
  PROVE  Web!DecodeBase58(Web!Base58(bytes)) = {bytes}
<1> DEFINE n == Len(bytes)
           l == Web!Leading(0, bytes)
           number == Web!NumberOf(256, bytes)
           digits == Web!DigitsOf(58, number)
           m == Len(digits)
           text == Web!Base58(bytes)
           e == l + m
<1>1. n \in Nat /\ n = Len(bytes) /\ n # 0 /\ HasLength(bytes, n, DigitSet(256)) /\ bytes \in Seq(DigitSet(256))
  <2>1. n \in Nat /\ n # 0
    BY LenProperties, EmptySeq
  <2> QED BY <2>1, BasesOfBytes DEF HasLength
<1>2. number \in Nat
  BY <1>1, BasesOfBytes, NumberInNat
<1>3. StartsWithZeros(bytes, n, l)
  <2> HIDE DEF n, l
  <2>1. n = Len(bytes)
    BY DEF n
  <2> QED BY <1>1, <2>1, LeadingIs DEF l
<1>4. l \in Nat
  <2> HIDE DEF l, n
  <2> QED BY <1>1, <1>3 DEF StartsWithZeros
<1>5. text = Zeros(l) \o digits
  BY DEF Web!Base58, Zeros
<1> HIDE DEF l, number, text, n
<1>6. IsDigits(58, digits, number)
  BY <1>2, BasesOfBytes, DigitsOfIs
<1> HIDE DEF digits
<1>7. HasLength(digits, m, DigitSet(58)) /\ NoLeadingZero(digits) /\ digits \in Seq(DigitSet(58)) /\ Web!NumberOf(58, digits) = number /\ m \in Nat
  BY <1>6, LenProperties DEF IsDigits, HasLength
<1> HIDE DEF m
<1>8. /\ HasLength(text, e, DigitSet(58)) /\ e \in Nat
      /\ StartsWithZeros(text, e, l) /\ StandBehind(text, digits, l, m)
  <2>1. IsPadded(Zeros(l) \o digits, l, digits, m, e, 58)
    BY <1>4, <1>7, BasesOfBytes, ZerosBefore
  <2> QED BY <1>5, <2>1 DEF IsPadded
<1>9. e = Len(text) /\ text \in Seq(DigitSet(58))
  BY <1>8 DEF HasLength
<1>10. Web!NumberOf(58, text) = number
  <2>1. l + m = e
    OBVIOUS
  <2> HIDE DEF e
  <2>2. Web!NumberOf(58, text) = Web!NumberOf(58, digits)
    BY <1>7, <1>8, <2>1, BasesOfBytes, NumberPastZeros
  <2> QED BY <1>7, <2>2
<1>11. Web!Leading(0, text) = l
  <2> HIDE DEF e
  <2>1. StartsWithZeros(text, e, Web!Leading(0, text))
    BY <1>8, <1>9, LeadingIs
  <2> QED BY <1>8, <2>1, LeadingOnce
<1>12. PICK rest, k : HasLength(rest, k, DigitSet(256)) /\ l + k = n /\ StandBehind(bytes, rest, l, k) /\ IsDigits(256, rest, number)
  BY <1>1, <1>3, BasesOfBytes, RestIs DEF number
<1>13. k \in Nat
  BY <1>12, LenProperties DEF HasLength
<1>14. Web!DigitsOf(256, number) = rest
  <2>1. IsDigits(256, Web!DigitsOf(256, number), number) /\ DigitsUniqueFor(256, number)
    BY <1>2, BasesOfBytes, DigitsOfIs, DigitsUnique
  <2> QED BY <1>12, <2>1 DEF DigitsUniqueFor
<1>15. Zeros(l) \o rest = bytes
  <2> DEFINE c == Zeros(l) \o rest
  <2>1. NoLeadingZero(rest)
    BY <1>12 DEF IsDigits
  <2>2. IsPadded(c, l, rest, k, l + k, 256)
    BY <1>4, <1>12, <2>1, BasesOfBytes, ZerosBefore
  <2> HIDE DEF c
  <2>3. HasLength(c, n, DigitSet(256)) /\ StandBehind(c, rest, l, k) /\ \A i \in 1..l : c[i] = 0
    BY <1>12, <2>2 DEF IsPadded, StartsWithZeros
  <2>4. Alike(c, bytes, n)
    <3> SUFFICES ASSUME NEW i \in 1..n PROVE c[i] = bytes[i]
      BY DEF Alike
    <3>1. CASE i \in 1..l
      <4>1. bytes[i] = 0
        BY <1>3, <3>1 DEF StartsWithZeros
      <4> QED BY <2>3, <3>1, <4>1
    <3>2. CASE i \notin 1..l
      <4> DEFINE j == i - l
      <4>1. j \in 1..k /\ l + j = i
        BY <1>4, <1>12, <1>13, <3>2
      <4> HIDE DEF j
      <4>2. c[l + j] = rest[j] /\ bytes[l + j] = rest[j]
        BY <1>12, <2>3, <4>1 DEF StandBehind
      <4> QED BY <4>1, <4>2
    <3> QED BY <3>1, <3>2
  <2>5. c = bytes
    BY <1>1, <2>3, <2>4, AlikeAreSame
  <2> QED BY <2>5 DEF c
<1>16. text # <<>>
  <2> SUFFICES ASSUME text = <<>> PROVE FALSE
    OBVIOUS
  <2>1. e = 0
    BY <1>9, EmptySeq
  <2>2. l = 0 /\ m = 0
    BY <1>4, <1>7, <2>1
  <2>3. digits = <<>>
    BY <1>7, <2>2, EmptySeq DEF HasLength
  <2>4. number = 0
    BY <1>7, <2>3, BasesOfBytes, NumberOfNone
  <2>5. rest = <<>>
    BY <1>12, <2>4, BasesOfBytes, DigitsPositive
  <2>6. k = 0
    BY <1>12, <2>5 DEF HasLength
  <2> QED BY <1>1, <1>12, <2>2, <2>6
<1>17. ~\E i \in DOMAIN text : text[i] >= 58
  <2>1. \A i \in DOMAIN text : text[i] \in DigitSet(58)
    BY <1>9, LenProperties, ElementOfSeq
  <2>2. \A d \in DigitSet(58) : ~(d >= 58)
    BY DEF DigitSet
  <2> QED BY <2>1, <2>2
<1>18. Web!DecodeBase58(text) = {Zeros(l) \o Web!DigitsOf(256, number)}
  BY <1>10, <1>11, <1>16, <1>17 DEF Web!DecodeBase58, Zeros
<1> QED BY <1>14, <1>15, <1>18 DEF text

\* Bytes are what their hexadecimal text is decoded to.
LEMMA HexReadsBack ==
  ASSUME NEW bytes \in Seq(Byte), bytes # <<>>
  PROVE  Web!DecodeHex(Web!Hex(bytes)) = {bytes}
<1> DEFINE n == Len(bytes)
           m == 2 * n
           at(i) == IF i % 2 = 1 THEN bytes[(i + 1) \div 2] \div 16 ELSE bytes[i \div 2] % 16
           text == Web!Hex(bytes)
           B == 0..15
<1>1. n \in Nat /\ n # 0 /\ bytes = [i \in 1..n |-> bytes[i]] /\ \A i \in 1..n : bytes[i] \in Byte
  BY LenProperties, EmptySeq, ElementOfSeq
<1>2. \A x \in Byte : x \div 16 \in B /\ x % 16 \in B /\ (x \div 16) * 16 + (x % 16) = x
  BY DEF Byte
<1>3. text = [i \in 1..m |-> at(i)]
  BY DEF Web!Hex
<1> HIDE DEF text, n
<1>4. m \in Nat /\ m # 0 /\ m % 2 # 1 /\ m \div 2 = n
  BY <1>1
<1>5. \A i \in 1..m : (i % 2 = 1 => (i + 1) \div 2 \in 1..n) /\ (i % 2 # 1 => i \div 2 \in 1..n)
  BY <1>1
<1>6. \A i \in 1..n : LET a == 2 * i - 1 b == 2 * i
                      IN /\ a \in 1..m /\ b \in 1..m /\ a % 2 = 1 /\ b % 2 # 1
                         /\ (a + 1) \div 2 = i /\ b \div 2 = i
  BY <1>1
<1> HIDE DEF m, B
<1>7. \A i \in 1..m : at(i) \in B
  BY <1>1, <1>2, <1>5
<1>8. text \in [1..m -> B]
  <2> HIDE DEF at
  <2> QED BY <1>3, <1>7
<1>9. text \in Seq(B) /\ Len(text) = m
  BY <1>4, <1>8, Sequence
<1>10. \A i \in 1..n : text[2 * i - 1] * 16 + text[2 * i] = bytes[i]
  <2> TAKE i \in 1..n
  <2> DEFINE a == 2 * i - 1
             b == 2 * i
             x == bytes[i]
  <2>1. /\ a \in 1..m /\ b \in 1..m /\ a % 2 = 1 /\ b % 2 # 1
        /\ (a + 1) \div 2 = i /\ b \div 2 = i
    BY <1>6
  <2>2. x \in Byte
    BY <1>1
  <2> HIDE DEF a, b
  <2>3. text[a] = x \div 16
    BY <1>3, <2>1
  <2>4. text[b] = x % 16
    BY <1>3, <2>1
  <2> HIDE DEF x
  <2>5. text[a] * 16 + text[b] = x
    BY <1>2, <2>2, <2>3, <2>4
  <2> QED BY <2>5 DEF a, b, x
<1>11. text # <<>> /\ Len(text) % 2 # 1 /\ Len(text) \div 2 = n
  BY <1>4, <1>9, EmptySeq
<1>12. ~\E i \in DOMAIN text : text[i] >= 16
  <2>1. \A i \in DOMAIN text : text[i] \in B
    BY <1>8
  <2>2. \A d \in B : ~(d >= 16)
    BY DEF B
  <2> QED BY <2>1, <2>2
<1> DEFINE r == [i \in 1..n |-> text[2 * i - 1] * 16 + text[2 * i]]
<1>13. Web!DecodeHex(text) = {r}
  BY <1>11, <1>12 DEF Web!DecodeHex
<1>14. r = bytes
  BY <1>1, <1>10
<1> QED BY <1>13, <1>14 DEF text

\* The Base58 text of bytes is of its letters.
LEMMA Base58IsText ==
  ASSUME NEW bytes \in Seq(Byte)
  PROVE  Web!Base58(bytes) \in Seq(DigitSet(58))
<1> DEFINE n == Len(bytes)
           l == Web!Leading(0, bytes)
           number == Web!NumberOf(256, bytes)
           digits == Web!DigitsOf(58, number)
<1>1. n \in Nat /\ n = Len(bytes)
  BY LenProperties
<1>2. StartsWithZeros(bytes, n, l)
  <2> HIDE DEF n
  <2> QED BY <1>1, LeadingIs
<1>3. l \in Nat
  <2> HIDE DEF n, l
  <2> QED BY <1>1, <1>2 DEF StartsWithZeros
<1>4. number \in Nat
  BY BasesOfBytes, NumberInNat
<1> HIDE DEF l, number
<1>5. digits \in Seq(DigitSet(58))
  BY <1>4, BasesOfBytes, DigitsOfIs DEF IsDigits
<1>6. Zeros(l) \in Seq(DigitSet(58))
  BY <1>3, BasesOfBytes, ZerosAre DEF HasLength
<1> HIDE DEF digits
<1>7. Zeros(l) \o digits \in Seq(DigitSet(58))
  BY <1>5, <1>6, ConcatProperties
<1>8. Web!Base58(bytes) = Zeros(l) \o digits
  BY DEF Web!Base58, Zeros, l, number, digits
<1> QED BY <1>7, <1>8

\* What is behind a first element.
LEMMA TailBehind ==
  ASSUME NEW V, NEW a \in V, NEW s \in Seq(V)
  PROVE  Tail(<<a>> \o s) = s
<1> DEFINE one == <<a>>
           n == Len(s)
           c == one \o s
           m == n + 1
           r == Tail(c)
<1>1. one \in Seq(V) /\ Len(one) = 1
  OBVIOUS
<1>2. n \in Nat /\ n = Len(s)
  BY LenProperties
<1> HIDE DEF one, n
<1>3. IsConcat(c, one, 1, s, n, V)
  BY <1>1, <1>2, Concat
<1> HIDE DEF c
<1>4. c \in Seq(V) /\ Len(c) = m /\ m \in Nat /\ m # 0 /\ m - 1 = n /\ \A k \in 1..n : c[1 + k] = s[k]
  <2>1. c \in Seq(V) /\ Len(c) = 1 + n /\ \A k \in 1..n : c[1 + k] = s[k]
    BY <1>3 DEF IsConcat
  <2> QED BY <1>2, <2>1
<1>5. c # <<>>
  BY <1>4, EmptySeq
<1>6. r \in Seq(V) /\ Len(r) = n /\ \A k \in 1..n : r[k] = c[k + 1]
  <2>1. r \in Seq(V) /\ Len(r) = Len(c) - 1 /\ \A k \in 1..Len(r) : r[k] = c[k + 1]
    BY <1>4, <1>5
  <2>2. Len(r) = n
    BY <1>4, <2>1
  <2> HIDE DEF r
  <2> QED BY <2>1, <2>2
<1> HIDE DEF r
<1>7. \A k \in 1..n : 1 + k = k + 1
  BY <1>2
<1>8. Alike(r, s, n)
  BY <1>4, <1>6, <1>7 DEF Alike
<1>9. HasLength(r, n, V) /\ HasLength(s, n, V)
  BY <1>2, <1>6 DEF HasLength
<1>10. r = s
  BY <1>8, <1>9, AlikeAreSame
<1> QED BY <1>10 DEF r, c, one

\* The prefix of a compressed key is taken off.
LEMMA CodecIsTaken ==
  ASSUME NEW bytes \in Seq(Byte), Len(bytes) = PointSize
  PROVE  /\ Web!Codec \o bytes \in Seq(Byte) /\ Web!Codec \o bytes # <<>>
         /\ Web!WithoutCodec(Web!Codec \o bytes) = bytes
<1> DEFINE c == Web!Codec \o bytes
           n == Len(bytes)
           m == n + 2
<1>1. Web!Codec \in Seq(Byte) /\ Len(Web!Codec) = 2
  <2>1. 128 \in Byte /\ 36 \in Byte
    BY DEF Byte
  <2> QED BY <2>1 DEF Web!Codec
<1>2. n \in Nat /\ n = Len(bytes) /\ n = PointSize
  BY LenProperties
<1> HIDE DEF n
<1>3. IsConcat(c, Web!Codec, 2, bytes, n, Byte)
  BY <1>1, <1>2, Concat
<1> HIDE DEF c
<1>4. c \in Seq(Byte) /\ Len(c) = m /\ m \in Nat /\ m # 0 /\ m - 2 = n /\ m >= 2
  <2>1. c \in Seq(Byte) /\ Len(c) = 2 + n
    BY <1>3 DEF IsConcat
  <2> QED BY <1>2, <2>1
<1>5. c # <<>>
  BY <1>4, EmptySeq
<1>6. SubSeq(c, 1, 2) = Web!Codec
  <2> DEFINE p == SubSeq(c, 1, 2)
  <2>1. 1 = 0 + 1 /\ 1 \in Nat /\ 0 \in Nat /\ 2 \in Nat /\ 0 <= 2 /\ 2 <= Len(c) /\ 2 - 0 = 2 /\ \A k \in 1..2 : 0 + k = k
    BY <1>4
  <2>2. IsCut(p, c, 0, 2, Byte)
    BY <1>4, <2>1, Cut
  <2> HIDE DEF p
  <2>3. HasLength(p, 2, Byte) /\ \A k \in 1..2 : p[k] = c[0 + k]
    BY <2>1, <2>2 DEF IsCut, HasLength
  <2>4. Alike(p, Web!Codec, 2)
    BY <1>3, <2>1, <2>3 DEF Alike, IsConcat
  <2>5. HasLength(Web!Codec, 2, Byte)
    BY <1>1 DEF HasLength
  <2>6. p = Web!Codec
    BY <2>3, <2>4, <2>5, AlikeAreSame
  <2> QED BY <2>6 DEF p
<1>7. SubSeq(c, 3, m) = bytes
  <2> DEFINE p == SubSeq(c, 3, m)
  <2>1. 3 = 2 + 1 /\ 3 \in Nat /\ 2 \in Nat /\ 2 <= m /\ m <= Len(c)
    BY <1>4
  <2> HIDE DEF m
  <2>2. IsCut(p, c, 2, m, Byte)
    BY <1>4, <2>1, Cut
  <2> HIDE DEF p
  <2>3. HasLength(p, n, Byte) /\ \A k \in 1..n : p[k] = c[2 + k]
    BY <1>4, <2>2 DEF IsCut, HasLength
  <2>4. Alike(p, bytes, n)
    BY <1>3, <2>3 DEF Alike, IsConcat
  <2>5. HasLength(bytes, n, Byte)
    BY <1>2 DEF HasLength
  <2>6. p = bytes
    BY <2>3, <2>4, <2>5, AlikeAreSame
  <2> QED BY <2>6 DEF p
<1>8. Len(c) = PointSize + 2
  BY <1>2, <1>4
<1>9. Web!WithoutCodec(c) = bytes
  <2>1. Len(c) = m
    BY <1>4
  <2> HIDE DEF m
  <2> QED BY <1>6, <1>7, <1>8, <2>1 DEF Web!WithoutCodec
<1> QED BY <1>4, <1>5, <1>9 DEF c

\* A key reads back from each of its texts.
THEOREM KeyTextsRead ==
  ASSUME NEW bytes \in Seq(Byte), bytes # <<>>
  PROVE  Web!KeyTextsReadBack(bytes)
<1> DEFINE prefixed == Web!Codec \o bytes
           text == Web!Base58(prefixed)
           multi == <<57>> \o text
           method == [jwk |-> {}, multibase |-> {multi}, base58 |-> {}, hex |-> {}]
<1>1. ASSUME Len(bytes) = PointSize PROVE Web!ExtractKey(method) = {bytes}
  <2>1. prefixed \in Seq(Byte) /\ prefixed # <<>> /\ Web!WithoutCodec(prefixed) = bytes
    BY <1>1, CodecIsTaken
  <2> HIDE DEF prefixed
  <2>2. Web!DecodeBase58(text) = {prefixed}
    BY <2>1, Base58ReadsBack
  <2>3. text \in Seq(DigitSet(58))
    BY <2>1, Base58IsText
  <2> HIDE DEF text
  <2>4. 57 \in DigitSet(58)
    BY DEF DigitSet
  <2>5. Tail(multi) = text
    BY <2>3, <2>4, TailBehind
  <2> HIDE DEF multi
  <2>6. method.jwk = {} /\ method.multibase = {multi}
    OBVIOUS
  <2> HIDE DEF method
  <2>7. UNION {Web!JwkKey(j) : j \in method.jwk} = {}
    BY <2>6
  <2>8. Web!ExtractKey(method) = {Web!WithoutCodec(b) : b \in UNION {Web!DecodeBase58(Tail(t)) : t \in method.multibase}}
    BY <2>6, <2>7 DEF Web!ExtractKey
  <2>9. UNION {Web!DecodeBase58(Tail(t)) : t \in method.multibase} = {prefixed}
    BY <2>2, <2>5, <2>6
  <2> QED BY <2>1, <2>8, <2>9
<1> HIDE DEF method
<1>2. Web!DecodeBase58(Web!Base58(bytes)) = {bytes} /\ Web!DecodeHex(Web!Hex(bytes)) = {bytes}
  BY Base58ReadsBack, HexReadsBack
<1> QED BY <1>1, <1>2 DEF Web!KeyTextsReadBack, method, multi, text, prefixed

-----------------------------------------------------------------------------
(* What is trusted *)

\* Whatever a verifier trusts or fetches is what was published: for bundles of any files, for
\* DIDs, key ids and documents of any world, for addresses and keys in every spelling.
THEOREM TrustIsAsPublished == DecisionSpec => []TrustMaterialIsAsPublished
<1>1. DecisionInv => TrustMaterialIsAsPublished
  <2> SUFFICES ASSUME DecisionInv PROVE TrustMaterialIsAsPublished
    OBVIOUS
  <2>1. ASSUME form = "address" PROVE Web!AddressIsJudgedByNumber(given)
    <3>1. given \in [1..8 -> Web!GroupValue]
      BY <2>1, ArgumentsAssumption DEF DecisionInv
    <3> QED BY <3>1, AddressesByNumber
  <2>2. ASSUME form = "key" PROVE Web!KeyTextsReadBack(given)
    <3>1. given \in Seq(Byte) /\ given # <<>>
      BY <2>2, ArgumentsAssumption DEF DecisionInv
    <3> QED BY <3>1, KeyTextsRead
  <2>3. ASSUME form = "resolution"
        PROVE  Web!ResolvedAsPublished(given[1], given[2], given[3], given[4], MaxDocument)
    <3>1. given \in Resolutions
      BY <2>3 DEF DecisionInv
    <3>2. IsReference(given[2])
      BY <3>1, ArgumentsAssumption DEF IsReference
    <3>3. IsWorld(given[4])
      BY <3>1, ArgumentsAssumption
    <3>4. MaxDocument \in Nat
      BY LimitsAssumption
    <3> QED BY <3>2, <3>3, <3>4, ResolutionsAsPublished
  <2>4. ASSUME form = "bundle" PROVE Disk!LoadsWholeFiles(given)
    <3>1. given \in Bundles
      BY <2>4 DEF DecisionInv
    <3>2. IsPath(given)
      BY <3>1, ArgumentsAssumption DEF IsPath
    <3> QED BY <3>2, BundlesLoadWhole
  <2> QED BY <2>1, <2>2, <2>3, <2>4 DEF TrustMaterialIsAsPublished
<1> QED BY <1>1, DecisionsAreGiven, PTL
=============================================================================
