---------------------------- MODULE FormatsProofs ----------------------------
(***************************************************************************)
(* What the formats of a seal promise, for every input and every size.     *)
(*                                                                         *)
(* First the binary form, for every limit and layout that the assumption   *)
(* of Cbor allows: a value that can be written is read back as it was, and *)
(* bytes that are read are what is written of what was read.  The writer   *)
(* and the reader go down the depths of a value, so the results are shown  *)
(* of the head of an item and of a row of items, given that they hold of   *)
(* the items within, and then, by induction, of every depth                *)
(* (BytesAreWrittenBack and ValuesAreReadBack).  Then the text, the        *)
(* signatures, the profile and the envelope, and what holds of a behaviour *)
(* that gives one input to one of them.                                    *)
(***************************************************************************)
EXTENDS Formats, SequenceTheorems, FiniteSetTheorems, WellFoundedInduction, TLAPS

-----------------------------------------------------------------------------
(* Numbers *)

\* A set of numbers has a least one.
LEMMA LeastOf == ASSUME NEW T \in SUBSET Nat, T # {} PROVE \E x \in T : \A y \in T : x <= y
<1>1. IsWellFoundedOn(OpToRel(<, Nat), Nat)
  BY NatLessThanWellFounded
<1>2. PICK x \in T : \A y \in T : ~(<<y, x>> \in OpToRel(<, Nat))
  BY <1>1, WFMin
<1>3. \A y \in T : ~(y < x)
  BY <1>2 DEF OpToRel
<1> QED BY <1>3

\* A set of numbers with zero and with the successor of each of its numbers is all of them.
LEMMA Induction == ASSUME NEW T \in SUBSET Nat, 0 \in T, \A n \in T : n + 1 \in T PROVE T = Nat
<1> SUFFICES ASSUME Nat \ T # {} PROVE FALSE
  OBVIOUS
<1>1. PICK x \in Nat \ T : \A y \in Nat \ T : x <= y
  BY LeastOf
<1>2. x # 0 /\ x - 1 \in Nat /\ x - 1 \notin Nat \ T
  BY <1>1
<1>3. (x - 1) + 1 \in T
  BY <1>2
<1> QED BY <1>1, <1>3

-----------------------------------------------------------------------------
(* Numbers in bytes (cbor.ts) *)

\* A number is so many times another, and what remains.
LEMMA Division ==
  ASSUME NEW n \in Nat, NEW d \in Nat, d > 0
  PROVE  n \div d \in Nat /\ n % d \in Nat /\ n % d < d /\ n = (n \div d) * d + (n % d)
  BY SMT

\* And no other times, with no other remainder.
LEMMA OneDivision ==
  ASSUME NEW d \in Nat, d > 0, NEW q \in Nat, NEW r \in Nat, r < d, NEW n, n = q * d + r
  PROVE  n \in Nat /\ n \div d = q /\ n % d = r
<1>1. n \in Nat
  BY SMT
<1>2. n = (n \div d) * d + (n % d) /\ n \div d \in Nat /\ n % d \in Nat /\ n % d < d
  BY <1>1, Division
<1> DEFINE p == n \div d
           s == n % d
<1>3. p \in Nat /\ s \in Nat /\ s < d /\ p * d + s = q * d + r
  BY <1>2
<1> HIDE DEF p, s
<1>4. p = q
  <2>1. ~(p >= q + 1)
    <3> SUFFICES ASSUME p >= q + 1 PROVE FALSE
      OBVIOUS
    <3>1. p * d >= (q + 1) * d
      BY <1>3, SMT
    <3>2. (q + 1) * d = q * d + d
      BY SMT
    <3> QED BY <1>3, <3>1, <3>2, SMT
  <2>2. ~(q >= p + 1)
    <3> SUFFICES ASSUME q >= p + 1 PROVE FALSE
      OBVIOUS
    <3>1. q * d >= (p + 1) * d
      BY <1>3, SMT
    <3>2. (p + 1) * d = p * d + d
      BY <1>3, SMT
    <3> QED BY <1>3, <3>1, <3>2, SMT
  <2> QED BY <1>3, <2>1, <2>2
<1>5. s = r
  BY <1>3, <1>4, SMT
<1> QED BY <1>1, <1>4, <1>5 DEF p, s

\* How often a number goes into a smaller and into a larger one.
LEMMA DivisionBelow ==
  ASSUME NEW a \in Nat, NEW d \in Nat, d > 0, NEW n \in Nat, n < a * d
  PROVE  n \div d < a
<1> DEFINE q == n \div d
           r == n % d
<1>1. q \in Nat /\ r \in Nat /\ n = q * d + r
  BY Division
<1> HIDE DEF q, r
<1>2. ASSUME q >= a PROVE FALSE
  <2>1. q * d >= a * d
    BY <1>1, <1>2, SMT
  <2> QED BY <1>1, <2>1, SMT
<1> QED BY <1>1, <1>2 DEF q

\* What is multiplied and stays below a number is, undivided, below its quotient.
LEMMA DivisionAbove ==
  ASSUME NEW a \in Nat, NEW d \in Nat, d > 0, NEW n \in Nat, a * d <= n
  PROVE  a <= n \div d
<1> DEFINE q == n \div d
           r == n % d
<1>1. q \in Nat /\ r \in Nat /\ r < d /\ n = q * d + r
  BY Division
<1> HIDE DEF q, r
<1>2. ASSUME q + 1 <= a PROVE FALSE
  <2>1. (q + 1) * d <= a * d
    BY <1>1, <1>2, SMT
  <2>2. (q + 1) * d = q * d + d
    BY <1>1, SMT
  <2> QED BY <1>1, <2>1, <2>2, SMT
<1> QED BY <1>1, <1>2 DEF q

\* One more digit on a number below a bound.
LEMMA DigitBelow ==
  ASSUME NEW a \in Nat, NEW d \in Nat, NEW n \in Nat, n < a, NEW r \in Nat, r < d
  PROVE  n * d + r < a * d /\ n * d + r \in Nat
<1>1. (n + 1) * d <= a * d
  BY SMT
<1>2. (n + 1) * d = n * d + d
  BY SMT
<1> QED BY <1>1, <1>2, SMT

\* How the numbers of the layout compare.
LEMMA LayoutIs ==
  /\ Inline \in Nat /\ Inline >= 4 /\ Inline + 8 \in Nat
  /\ Base \in Nat /\ Base >= 96 /\ Base = 8 * (Inline + 8)
  /\ MaxSafe \in Nat /\ MaxSafe >= Base /\ MaxDepth \in Nat
<1>1. Inline \in Nat /\ Inline >= 4 /\ MaxSafe \in Nat /\ MaxSafe >= Base /\ MaxDepth \in Nat
  BY LayoutAssumption
<1>2. Base \in Nat /\ Base >= 96 /\ Base = 8 * (Inline + 8)
  BY <1>1 DEF Base
<1> QED BY <1>1, <1>2

\* And those of two and four bytes.
LEMMA WordsAre ==
  /\ Short \in Nat /\ Short > Base /\ Long \in Nat /\ Long > Short
  /\ Short = Base * Base /\ Long = Short * Short
<1>1. \A b \in Nat : b >= 96 => b * b > b /\ b * b \in Nat
  BY SMT
<1>2. Short \in Nat /\ Short > Base /\ Short = Base * Base
  BY <1>1, LayoutIs DEF Short
<1>3. Long \in Nat /\ Long > Short /\ Long = Short * Short
  BY <1>1, <1>2, LayoutIs DEF Long
<1> QED BY <1>2, <1>3

\* Bytes are numbers.
LEMMA Octets ==
  /\ \A b \in Octet : b \in Nat /\ b < Base
  /\ \A b \in Nat : b < Base => b \in Octet
BY LayoutIs DEF Octet

\* A number is one above its last byte, and that byte.
LEMMA LastByte ==
  ASSUME NEW n \in Nat
  PROVE  n \div Base \in Nat /\ n % Base \in Octet /\ n % Base \in Nat /\ n = (n \div Base) * Base + (n % Base)
<1>1. Base \in Nat /\ Base > 0
  BY LayoutIs
<1>2. n \div Base \in Nat /\ n % Base \in Nat /\ n % Base < Base /\ n = (n \div Base) * Base + (n % Base)
  BY <1>1, Division
<1> QED BY <1>2, Octets

\* And no other.
LEMMA OneLastByte ==
  ASSUME NEW q \in Nat, NEW b \in Octet, NEW n, n = q * Base + b
  PROVE  n \in Nat /\ n \div Base = q /\ n % Base = b
<1>1. Base \in Nat /\ Base > 0 /\ b \in Nat /\ b < Base
  BY LayoutIs, Octets
<1> QED BY <1>1, OneDivision

-----------------------------------------------------------------------------
(* Functions over the first numbers *)

\* A step takes what there is so far and the number that comes next.
IsStep(G, n, X) == G \in [X \X (1..n) -> X]
\* What there is after each of the first n steps.
IsChain(h, b, n, G) == h[0] = b /\ \A k \in 1..n : h[k] = G[<<h[k - 1], k>>]

\* A chain of steps there always is.
LEMMA ChainExists ==
  ASSUME NEW X, NEW b \in X, NEW n \in Nat, NEW G, IsStep(G, n, X)
  PROVE  \E h \in [0..n -> X] : IsChain(h, b, n, G)
<1> DEFINE Has(m) == \E h \in [0..m -> X] : IsChain(h, b, m, G)
           T == {m \in Nat : m <= n => Has(m)}
<1>1. 0 \in T
  <2> DEFINE h == [k \in 0..0 |-> b]
  <2>1. h \in [0..0 -> X] /\ h[0] = b
    OBVIOUS
  <2> HIDE DEF h
  <2> QED BY <2>1 DEF IsChain
<1>2. ASSUME NEW m \in T PROVE m + 1 \in T
  <2> SUFFICES ASSUME m + 1 <= n PROVE Has(m + 1)
    OBVIOUS
  <2>1. m \in Nat /\ m + 1 \in 1..n
    OBVIOUS
  <2>2. PICK h \in [0..m -> X] : IsChain(h, b, m, G)
    OBVIOUS
  <2> DEFINE g == [k \in 0..m+1 |-> IF k = m + 1 THEN G[<<h[m], m + 1>>] ELSE h[k]]
  <2>3. \A k \in 0..m : k \in 0..m+1 /\ k # m + 1
    BY <2>1
  <2>4. g[m + 1] = G[<<h[m], m + 1>>] /\ \A k \in 0..m : g[k] = h[k]
    BY <2>1, <2>3
  <2>5. G[<<h[m], m + 1>>] \in X
    BY <2>1 DEF IsStep
  <2>6. g \in [0..m+1 -> X]
    <3>1. \A k \in 0..m+1 : k # m + 1 => k \in 0..m
      BY <2>1
    <3> QED BY <2>5, <3>1
  <2> HIDE DEF g, T
  <2>7. g[0] = b
    BY <2>1, <2>2, <2>4 DEF IsChain
  <2>8. \A k \in 1..m+1 : g[k] = G[<<g[k - 1], k>>]
    <3> TAKE k \in 1..m+1
    <3>1. k - 1 \in 0..m /\ (k = m + 1 \/ (k \in 1..m /\ k \in 0..m))
      BY <2>1
    <3>2. CASE k = m + 1
      BY <2>1, <2>4, <3>1, <3>2
    <3>3. CASE k \in 1..m /\ k \in 0..m
      BY <2>2, <2>4, <3>1, <3>3 DEF IsChain
    <3> QED BY <3>1, <3>2, <3>3
  <2> QED BY <2>6, <2>7, <2>8 DEF IsChain
<1>3. n \in T
  <2> HIDE DEF T
  <2>1. T \in SUBSET Nat
    BY DEF T
  <2> QED BY <1>1, <1>2, <2>1, Induction
<1> QED BY <1>3

\* Two functions that stay alike from one number to the next.
StayAlike(f, h, n) == f[0] = h[0] /\ \A k \in 1..n : f[k - 1] = h[k - 1] => f[k] = h[k]
AreAlike(f, h, n) == \A k \in 0..n : f[k] = h[k]

\* They are alike.
LEMMA ChainsAgree == ASSUME NEW n \in Nat, NEW f, NEW h, StayAlike(f, h, n) PROVE AreAlike(f, h, n)
<1> DEFINE T == {k \in Nat : k <= n => f[k] = h[k]}
<1>1. 0 \in T
  BY DEF StayAlike
<1>2. ASSUME NEW k \in T PROVE k + 1 \in T
  <2> SUFFICES ASSUME k + 1 <= n PROVE f[k + 1] = h[k + 1]
    OBVIOUS
  <2>1. k + 1 \in 1..n /\ (k + 1) - 1 = k /\ f[k] = h[k]
    OBVIOUS
  <2> HIDE DEF T
  <2> QED BY <2>1 DEF StayAlike
<1>3. T = Nat
  <2> HIDE DEF T
  <2>1. T \in SUBSET Nat
    BY DEF T
  <2> QED BY <1>1, <1>2, <2>1, Induction
<1> QED BY <1>3 DEF AreAlike

\* One sequence after the other, up to each of them.
AreJoined(ss, n, h) == h[0] = <<>> /\ \A k \in 1..n : h[k] = h[k - 1] \o ss[k]
\* Joined, they are what stands after the last of them.
HasJoined(ss, n, V) == \E h \in [0..n -> Seq(V)] : AreJoined(ss, n, h) /\ FlattenSeq(ss) = h[n]

\* Every sequence of sequences is joined so.
LEMMA FlattenIs ==
  ASSUME NEW V, NEW ss \in Seq(Seq(V)), NEW n \in Nat, n = Len(ss)
  PROVE  HasJoined(ss, n, V)
<1> DEFINE X == Seq(V)
           G == [p \in X \X (1..n) |-> p[1] \o ss[p[2]]]
<1>1. \A k \in 1..n : ss[k] \in Seq(V)
  BY ElementOfSeq
<1>2. IsStep(G, n, X)
  <2>1. \A p \in X \X (1..n) : p[1] \o ss[p[2]] \in Seq(V)
    <3> TAKE p \in X \X (1..n)
    <3>1. p[1] \in Seq(V) /\ ss[p[2]] \in Seq(V)
      BY <1>1
    <3> QED BY <3>1, ConcatProperties
  <2> QED BY <2>1 DEF IsStep
<1>3. PICK h \in [0..n -> X] : IsChain(h, <<>>, n, G)
  <2>1. <<>> \in X
    OBVIOUS
  <2> HIDE DEF G, X
  <2> QED BY <1>2, <2>1, ChainExists
<1>4. AreJoined(ss, n, h)
  <2>1. \A k \in 1..n : h[k] = G[<<h[k - 1], k>>] /\ h[k - 1] \in X
    <3> TAKE k \in 1..n
    <3>1. k - 1 \in 0..n
      OBVIOUS
    <3> HIDE DEF G, X
    <3>2. h[k - 1] \in X
      BY <3>1
    <3>3. h[k] = G[<<h[k - 1], k>>]
      BY <1>3 DEF IsChain
    <3> QED BY <3>2, <3>3
  <2>2. h[0] = <<>>
    BY <1>3 DEF IsChain
  <2> QED BY <2>1, <2>2 DEF AreJoined
<1>5. CASE n = 0
  <2>1. ss = <<>>
    BY <1>5, EmptySeq
  <2>2. FlattenSeq(ss) = <<>>
    BY <2>1, <1>5 DEF FlattenSeq
  <2> QED BY <1>4, <1>5, <2>2 DEF HasJoined, AreJoined
<1>6. CASE n # 0
  <2> DEFINE It(f) == [i \in 1..Len(ss) |-> IF i = 1 THEN ss[i] ELSE f[i - 1] \o ss[i]]
             fl == CHOOSE f : f = It(f)
             g == [i \in 1..n |-> h[i]]
  <2>1. FlattenSeq(ss) = fl[n]
    BY <1>6 DEF FlattenSeq
  <2>2. h[1] = ss[1]
    <3>1. h[1] = <<>> \o ss[1]
      <4>1. 1 \in 1..n /\ 1 - 1 = 0
        BY <1>6
      <4> QED BY <1>4, <4>1 DEF AreJoined
    <3>2. ss[1] \in Seq(V)
      BY <1>1, <1>6
    <3> QED BY <3>1, <3>2
  <2>3. g = It(g)
    <3>1. \A i \in 1..n : g[i] = IF i = 1 THEN ss[i] ELSE g[i - 1] \o ss[i]
      <4> TAKE i \in 1..n
      <4>1. CASE i = 1
        BY <4>1, <2>2
      <4>2. CASE i # 1
        <5>1. i - 1 \in 1..n
          BY <4>2
        <5> QED BY <4>2, <5>1, <1>4 DEF AreJoined
      <4> QED BY <4>1, <4>2
    <3>2. g = [i \in 1..n |-> g[i]]
      OBVIOUS
    <3> HIDE DEF g
    <3>3. g = [i \in 1..n |-> IF i = 1 THEN ss[i] ELSE g[i - 1] \o ss[i]]
      BY <3>1, <3>2
    <3> QED BY <3>3
  <2>4. fl = It(fl)
    <3> HIDE DEF It, g
    <3> QED BY <2>3
  <2> HIDE DEF fl
  <2>5. \A i \in 1..n : fl[i] = IF i = 1 THEN ss[i] ELSE fl[i - 1] \o ss[i]
    BY <2>4
  <2> DEFINE fs == [k \in 0..n |-> IF k = 0 THEN <<>> ELSE fl[k]]
  <2>6. fs[0] = h[0] /\ \A k \in 1..n : fs[k] = fl[k]
    BY <1>4 DEF AreJoined
  <2>7. \A k \in 1..n : fs[k - 1] = h[k - 1] => fs[k] = h[k]
    <3> HIDE DEF fs
    <3> TAKE k \in 1..n
    <3>1. CASE k = 1
      BY <3>1, <2>2, <2>5, <2>6
    <3>2. CASE k # 1
      <4>1. k - 1 \in 1..n
        BY <3>2
      <4>2. fl[k] = fl[k - 1] \o ss[k] /\ h[k] = h[k - 1] \o ss[k]
        BY <3>2, <2>5, <1>4 DEF AreJoined
      <4> QED BY <4>1, <4>2, <2>6
    <3> QED BY <3>1, <3>2
  <2>8. n \in 0..n /\ n \in 1..n
    BY <1>6
  <2>9. AreAlike(fs, h, n)
    <3>1. StayAlike(fs, h, n)
      BY <2>6, <2>7 DEF StayAlike
    <3> HIDE DEF fs
    <3> QED BY <3>1, ChainsAgree
  <2> HIDE DEF fs
  <2>10. fs[n] = h[n] /\ fs[n] = fl[n]
    BY <2>6, <2>8, <2>9 DEF AreAlike
  <2> QED BY <1>4, <2>1, <2>10 DEF HasJoined
<1> QED BY <1>5, <1>6

-----------------------------------------------------------------------------
(* The bytes of a number (cbor.ts) *)

\* What remains of a number after each of its last bytes.
IsRemaining(h, n, count) == h[0] = n /\ \A k \in 1..count : h[k] = h[k - 1] \div Base
HasBytes(n, count, h) == IsRemaining(h, n, count) /\ BigEndian(n, count) = [i \in 1..count |-> h[count - i] % Base]

\* Its bytes are taken from what remains.
LEMMA BigEndianIs ==
  ASSUME NEW n \in Nat, NEW count \in Nat
  PROVE  \E h \in [0..count -> Nat] : HasBytes(n, count, h)
<1> DEFINE G == [p \in Nat \X (1..count) |-> p[1] \div Base]
           It(f) == [k \in 0..count |-> IF k = 0 THEN n ELSE f[k - 1] \div Base]
           f == CHOOSE f : f = It(f)
<1>1. IsStep(G, count, Nat)
  <2>1. \A p \in Nat \X (1..count) : p[1] \div Base \in Nat
    BY LastByte
  <2> QED BY <2>1 DEF IsStep
<1>2. PICK h \in [0..count -> Nat] : IsChain(h, n, count, G)
  <2> HIDE DEF G
  <2> QED BY <1>1, ChainExists
<1>3. h[0] = n /\ \A k \in 1..count : h[k] = h[k - 1] \div Base
  <2>1. ASSUME NEW k \in 1..count PROVE h[k] = h[k - 1] \div Base
    <3>1. k - 1 \in 0..count /\ h[k - 1] \in Nat
      OBVIOUS
    <3>2. G[<<h[k - 1], k>>] = h[k - 1] \div Base
      BY <3>1
    <3> HIDE DEF G
    <3> QED BY <1>2, <3>2 DEF IsChain
  <2> QED BY <1>2, <2>1 DEF IsChain
<1>4. h = It(h)
  <2>1. \A k \in 0..count : h[k] = IF k = 0 THEN n ELSE h[k - 1] \div Base
    BY <1>3
  <2>2. h = [k \in 0..count |-> h[k]]
    OBVIOUS
  <2> QED BY <2>1, <2>2
<1>5. f = It(f)
  <2> HIDE DEF It
  <2> QED BY <1>4
<1>6. BigEndian(n, count) = [i \in 1..count |-> f[count - i] % Base]
  BY DEF BigEndian
<1> HIDE DEF f
<1>7. /\ f[0] = n
      /\ \A k \in 1..count : f[k] = f[k - 1] \div Base
  BY <1>5
<1>8. AreAlike(f, h, count)
  <2>1. StayAlike(f, h, count)
    BY <1>3, <1>7 DEF StayAlike
  <2> HIDE DEF It, G
  <2> QED BY <2>1, ChainsAgree
<1>9. ASSUME NEW i \in 1..count PROVE f[count - i] % Base = h[count - i] % Base
  <2>1. count - i \in 0..count
    OBVIOUS
  <2> QED BY <1>8, <2>1 DEF AreAlike
<1>10. BigEndian(n, count) = [i \in 1..count |-> h[count - i] % Base]
  BY <1>6, <1>9
<1> QED BY <1>3, <1>10 DEF HasBytes, IsRemaining

\* The bytes of a number are that many bytes.
LEMMA BigEndianType ==
  ASSUME NEW n \in Nat, NEW count \in Nat
  PROVE  BigEndian(n, count) \in Seq(Octet) /\ Len(BigEndian(n, count)) = count
<1>1. PICK h \in [0..count -> Nat] : HasBytes(n, count, h)
  BY BigEndianIs
<1>2. ASSUME NEW i \in 1..count PROVE h[count - i] % Base \in Octet
  <2>1. count - i \in 0..count
    OBVIOUS
  <2>2. h[count - i] \in Nat
    BY <2>1
  <2> QED BY <2>2, LastByte
<1> QED BY <1>1, <1>2 DEF HasBytes

\* A byte more of a number that is read.
NextNumber(n, b) == IF n > (MaxSafe - b) \div Base THEN MaxSafe + 1 ELSE n * Base + b
\* The numbers that are read of the first bytes.
IsReading(w, s, count) == w[0] = 0 /\ \A k \in 1..count : w[k] = NextNumber(w[k - 1], s[k])
HasNumber(s, count, w) == IsReading(w, s, count) /\ Number(s) = w[count]

\* They are numbers, the last of them what the bytes stand for.
LEMMA NumberIs ==
  ASSUME NEW s \in Seq(Octet), NEW count, count = Len(s)
  PROVE  \E w \in [0..count -> Nat] : HasNumber(s, count, w)
<1> DEFINE G == [p \in Nat \X (1..count) |-> NextNumber(p[1], s[p[2]])]
           It(f) == [k \in 0..Len(s) |-> IF k = 0 THEN 0 ELSE IF f[k - 1] > (MaxSafe - s[k]) \div Base THEN MaxSafe + 1
                                         ELSE f[k - 1] * Base + s[k]]
           f == CHOOSE f : f = It(f)
<1>0. count \in Nat /\ \A k \in 1..count : s[k] \in Octet
  BY LenProperties, ElementOfSeq
<1>1. IsStep(G, count, Nat)
  <2>1. \A p \in Nat \X (1..count) : NextNumber(p[1], s[p[2]]) \in Nat
    <3> TAKE p \in Nat \X (1..count)
    <3>1. p[1] \in Nat /\ s[p[2]] \in Nat
      BY <1>0, Octets
    <3>2. p[1] * Base + s[p[2]] \in Nat
      BY <3>1, LayoutIs
    <3> QED BY <3>2, LayoutIs DEF NextNumber
  <2> QED BY <2>1 DEF IsStep
<1>2. PICK h \in [0..count -> Nat] : IsChain(h, 0, count, G)
  <2> HIDE DEF G
  <2> QED BY <1>0, <1>1, ChainExists
<1>3. h[0] = 0 /\ \A k \in 1..count : h[k] = NextNumber(h[k - 1], s[k])
  <2>1. ASSUME NEW k \in 1..count PROVE h[k] = NextNumber(h[k - 1], s[k])
    <3>1. k - 1 \in 0..count /\ h[k - 1] \in Nat
      BY <1>0
    <3>2. G[<<h[k - 1], k>>] = NextNumber(h[k - 1], s[k])
      BY <3>1
    <3> HIDE DEF G
    <3> QED BY <1>2, <3>2 DEF IsChain
  <2> QED BY <1>2, <2>1 DEF IsChain
<1>4. h = It(h)
  <2>1. \A k \in 0..count : h[k] = IF k = 0 THEN 0 ELSE IF h[k - 1] > (MaxSafe - s[k]) \div Base THEN MaxSafe + 1
                                   ELSE h[k - 1] * Base + s[k]
    BY <1>0, <1>3 DEF NextNumber
  <2>2. h = [k \in 0..count |-> h[k]]
    OBVIOUS
  <2> QED BY <2>1, <2>2
<1>5. f = It(f)
  <2> HIDE DEF It
  <2> QED BY <1>4
<1>6. Number(s) = f[count]
  BY DEF Number
<1> HIDE DEF f
<1>7. /\ f[0] = 0
      /\ \A k \in 1..count : f[k] = NextNumber(f[k - 1], s[k])
  BY <1>0, <1>5 DEF NextNumber
<1>8. AreAlike(f, h, count)
  <2>1. StayAlike(f, h, count)
    BY <1>3, <1>7 DEF StayAlike
  <2> HIDE DEF It, G
  <2> QED BY <1>0, <2>1, ChainsAgree
<1>9. count \in 0..count
  BY <1>0
<1>10. Number(s) = h[count]
  BY <1>6, <1>8, <1>9 DEF AreAlike
<1> QED BY <1>3, <1>10 DEF HasNumber, IsReading

\* A number is read on exactly while it is safe.
LEMMA ReadOn ==
  ASSUME NEW n \in Nat, NEW b \in Octet
  PROVE  /\ n * Base + b <= MaxSafe => NextNumber(n, b) = n * Base + b
         /\ NextNumber(n, b) <= MaxSafe => NextNumber(n, b) = n * Base + b
<1> DEFINE m == MaxSafe - b
<1>1. b \in Nat /\ m \in Nat /\ Base \in Nat /\ Base > 0 /\ m = MaxSafe - b /\ MaxSafe \in Nat
  BY LayoutIs, Octets
<1> HIDE DEF m
<1>2. ASSUME n * Base + b <= MaxSafe PROVE ~(n > m \div Base)
  <2>1. n * Base <= m
    BY <1>1, <1>2
  <2>2. n <= m \div Base
    BY <1>1, <2>1, DivisionAbove
  <2>3. m \div Base \in Nat
    BY <1>1, Division
  <2> QED BY <2>2, <2>3
<1>3. NextNumber(n, b) = IF n > m \div Base THEN MaxSafe + 1 ELSE n * Base + b
  BY DEF NextNumber, m
<1> QED BY <1>1, <1>2, <1>3

\* What remains is never more than there was.
LEMMA RemainsLess ==
  ASSUME NEW n \in Nat, NEW count \in Nat, NEW h \in [0..count -> Nat], IsRemaining(h, n, count)
  PROVE  \A k \in 0..count : h[k] <= n
<1> DEFINE T == {k \in Nat : k <= count => h[k] <= n}
<1>1. 0 \in T
  BY DEF IsRemaining
<1>2. ASSUME NEW k \in T PROVE k + 1 \in T
  <2> SUFFICES ASSUME k + 1 <= count PROVE h[k + 1] <= n
    OBVIOUS
  <2>1. k + 1 \in 1..count /\ (k + 1) - 1 = k /\ h[k] <= n /\ h[k] \in Nat /\ h[k + 1] \in Nat
    OBVIOUS
  <2>2. h[k + 1] = h[k] \div Base
    BY <2>1 DEF IsRemaining
  <2> DEFINE x == h[k]
             q == x \div Base
             r == x % Base
  <2>3. q \in Nat /\ r \in Nat /\ x = q * Base + r /\ x \in Nat
    BY <2>1, LastByte
  <2>4. h[k + 1] = q /\ x <= n
    BY <2>1, <2>2
  <2> HIDE DEF x, q, r, T
  <2>5. q * Base >= q
    BY <2>3, LayoutIs, SMT
  <2>6. q <= x
    BY <2>3, <2>5, LayoutIs, SMT
  <2> QED BY <2>3, <2>4, <2>6
<1>3. T = Nat
  <2> HIDE DEF T
  <2>1. T \in SUBSET Nat
    BY DEF T
  <2> QED BY <1>1, <1>2, <2>1, Induction
<1> QED BY <1>3

\* The bytes of a number that nothing remains of stand for the number.
LEMMA NumberOfBytes ==
  ASSUME NEW n \in Nat, n <= MaxSafe, NEW count \in Nat, NEW h \in [0..count -> Nat], HasBytes(n, count, h), h[count] = 0
  PROVE  Number(BigEndian(n, count)) = n
<1> DEFINE s == BigEndian(n, count)
<1>1. s \in Seq(Octet) /\ Len(s) = count
  BY BigEndianType
<1>2. \A i \in 1..count : s[i] = h[count - i] % Base
  BY DEF HasBytes
<1>3. IsRemaining(h, n, count) /\ \A k \in 0..count : h[k] <= n
  BY RemainsLess DEF HasBytes
<1> HIDE DEF s
<1>4. PICK w \in [0..count -> Nat] : HasNumber(s, count, w)
  BY <1>1, NumberIs
<1> DEFINE u == [k \in 0..count |-> h[count - k]]
<1>5. w[0] = u[0]
  BY <1>4 DEF HasNumber, IsReading
<1>6. ASSUME NEW k \in 1..count, w[k - 1] = u[k - 1] PROVE w[k] = u[k]
  <2> DEFINE j == count - k
             x == h[j]
  <2>1. j \in 0..count /\ j + 1 \in 1..count /\ (j + 1) - 1 = j /\ count - (k - 1) = j + 1 /\ k - 1 \in 0..count /\ k \in 0..count
    OBVIOUS
  <2>2. u[k - 1] = h[j + 1] /\ u[k] = h[j] /\ s[k] = x % Base
    BY <1>2, <2>1
  <2>3. h[j + 1] = x \div Base
    BY <1>3, <2>1 DEF IsRemaining
  <2>4. x \in Nat /\ x <= MaxSafe
    BY <1>3, <2>1, LayoutIs
  <2>5. w[k] = NextNumber(w[k - 1], s[k])
    BY <1>4 DEF HasNumber, IsReading
  <2> HIDE DEF u, j, x
  <2>6. x \div Base \in Nat /\ x % Base \in Octet /\ x = (x \div Base) * Base + (x % Base)
    BY <2>4, LastByte
  <2>7. w[k] = NextNumber(x \div Base, x % Base)
    BY <1>6, <2>2, <2>3, <2>5
  <2>8. (x \div Base) * Base + (x % Base) <= MaxSafe
    BY <2>4, <2>6
  <2>9. NextNumber(x \div Base, x % Base) = x
    BY <2>6, <2>8, ReadOn
  <2> QED BY <2>2, <2>7, <2>9 DEF x
<1>7. AreAlike(w, u, count)
  <2> HIDE DEF u
  <2>1. StayAlike(w, u, count)
    BY <1>5, <1>6 DEF StayAlike
  <2> QED BY <2>1, ChainsAgree
<1>8. w[count] = u[count] /\ u[count] = h[0]
  BY <1>7 DEF AreAlike
<1> QED BY <1>3, <1>4, <1>8 DEF HasNumber, IsRemaining, s

\* Bytes that stand for a safe number are the bytes of the number.
LEMMA BytesOfNumber ==
  ASSUME NEW s \in Seq(Octet), NEW count, count = Len(s), Number(s) <= MaxSafe
  PROVE  Number(s) \in Nat /\ BigEndian(Number(s), count) = s
<1>1. PICK w \in [0..count -> Nat] : HasNumber(s, count, w)
  BY NumberIs
<1>2. count \in Nat /\ \A i \in 1..count : s[i] \in Octet
  BY LenProperties, ElementOfSeq
<1> DEFINE v == Number(s)
<1>3. v = w[count] /\ v \in Nat /\ v <= MaxSafe
  <2>1. count \in 0..count
    BY <1>2
  <2> QED BY <1>1, <2>1 DEF HasNumber
<1> HIDE DEF v
<1>4. PICK h \in [0..count -> Nat] : HasBytes(v, count, h)
  BY <1>2, <1>3, BigEndianIs
<1>5. IsRemaining(h, v, count) /\ \A k \in 0..count : h[k] <= v
  BY <1>2, <1>3, <1>4, RemainsLess DEF HasBytes
<1> DEFINE u == [k \in 0..count |-> w[count - k]]
<1>6. h[0] = u[0]
  BY <1>2, <1>3, <1>5 DEF IsRemaining
<1>7. ASSUME NEW k \in 1..count, h[k - 1] = u[k - 1]
      PROVE  h[k] = u[k] /\ h[k - 1] % Base = s[count - (k - 1)]
  <2> DEFINE j == count - k
             x == w[j]
             b == s[j + 1]
  <2>1. j \in 0..count /\ j + 1 \in 1..count /\ (j + 1) - 1 = j /\ count - (k - 1) = j + 1 /\ k - 1 \in 0..count /\ k \in 0..count
    BY <1>2
  <2>2. u[k - 1] = w[j + 1] /\ u[k] = x /\ b \in Octet /\ x \in Nat
    BY <1>2, <2>1
  <2>3. h[k] = h[k - 1] \div Base
    BY <1>5 DEF IsRemaining
  <2>4. w[j + 1] = NextNumber(x, b)
    BY <1>1, <2>1 DEF HasNumber, IsReading
  <2>5. h[k - 1] \in Nat /\ h[k - 1] <= MaxSafe
    BY <1>3, <1>5, <2>1, LayoutIs
  <2> HIDE DEF u, j, x, b
  <2>6. NextNumber(x, b) <= MaxSafe
    BY <1>7, <2>2, <2>4, <2>5
  <2>7. h[k - 1] = x * Base + b
    BY <1>7, <2>2, <2>4, <2>6, ReadOn
  <2>8. h[k - 1] \div Base = x /\ h[k - 1] % Base = b
    BY <2>2, <2>7, OneLastByte
  <2> QED BY <2>1, <2>2, <2>3, <2>8 DEF b
<1>8. AreAlike(h, u, count)
  <2> HIDE DEF u
  <2>1. StayAlike(h, u, count)
    BY <1>6, <1>7 DEF StayAlike
  <2> QED BY <1>2, <2>1, ChainsAgree
<1>9. ASSUME NEW i \in 1..count PROVE h[count - i] % Base = s[i]
  <2> DEFINE k == (count - i) + 1
  <2>1. k \in 1..count /\ k - 1 = count - i /\ count - (k - 1) = i /\ k - 1 \in 0..count
    BY <1>2
  <2> HIDE DEF k, u
  <2>2. h[k - 1] = u[k - 1]
    BY <1>8, <2>1 DEF AreAlike
  <2>3. h[k - 1] % Base = s[count - (k - 1)]
    BY <1>7, <2>1, <2>2
  <2> QED BY <2>1, <2>3
<1>10. BigEndian(v, count) = s
  <2>1. BigEndian(v, count) = [i \in 1..count |-> h[count - i] % Base]
    BY <1>4 DEF HasBytes
  <2>2. BigEndian(v, count) = [i \in 1..count |-> s[i]]
    BY <1>9, <2>1
  <2>3. s = [i \in 1..count |-> s[i]]
    BY LenProperties
  <2> QED BY <2>2, <2>3
<1> QED BY <1>3, <1>10 DEF v

-----------------------------------------------------------------------------
(* The forms of a number (cbor.ts) *)

\* The four forms, with their bytes and the least number of each.
LEMMA FormsAre ==
  /\ ByteCount(0) = 1 /\ ByteCount(1) = 2 /\ ByteCount(2) = 4 /\ ByteCount(3) = 8
  /\ Least(0) = Inline /\ Least(1) = Base /\ Least(2) = Short /\ Least(3) = Long
  /\ \A n \in Nat : /\ n < Base => Form(n) = 0
                    /\ n >= Base /\ n < Short => Form(n) = 1
                    /\ n >= Short /\ n < Long => Form(n) = 2
                    /\ n >= Long => Form(n) = 3
<1>1. ByteCount(0) = 1 /\ ByteCount(1) = 2 /\ ByteCount(2) = 4 /\ ByteCount(3) = 8
  BY DEF ByteCount
<1>2. Least(0) = Inline /\ Least(1) = Base /\ Least(2) = Short /\ Least(3) = Long
  BY DEF Least
<1>3. Base \in Nat /\ Short \in Nat /\ Long \in Nat /\ Base < Short /\ Short < Long
  BY LayoutIs, WordsAre
<1>4. ASSUME NEW n \in Nat
      PROVE  /\ n < Base => Form(n) = 0
             /\ n >= Base /\ n < Short => Form(n) = 1
             /\ n >= Short /\ n < Long => Form(n) = 2
             /\ n >= Long => Form(n) = 3
  BY <1>3 DEF Form
<1> QED BY <1>1, <1>2, <1>4

\* A bound on what remains after one byte less.
LEMMA RemainsBelow ==
  ASSUME NEW n, NEW count \in Nat, NEW h \in [0..count -> Nat], HasBytes(n, count, h), NEW k \in 1..count,
         NEW a \in Nat, h[k - 1] < a * Base
  PROVE  h[k] < a
<1>1. h[k] = h[k - 1] \div Base /\ h[k - 1] \in Nat /\ Base \in Nat /\ Base > 0
  BY LayoutIs DEF HasBytes, IsRemaining
<1> QED BY <1>1, DivisionBelow

\* Nothing remains of a number after one, two, four or eight bytes.
LEMMA FewBytes ==
  ASSUME NEW n \in Nat
  PROVE  /\ n < Base => \A h \in [0..1 -> Nat] : HasBytes(n, 1, h) => h[1] = 0
         /\ n < Short => \A h \in [0..2 -> Nat] : HasBytes(n, 2, h) => h[2] = 0
<1>1. Base \in Nat /\ Base = 1 * Base /\ Short = Base * Base
  BY LayoutIs, WordsAre
<1>2. ASSUME n < Base, NEW h \in [0..1 -> Nat], HasBytes(n, 1, h) PROVE h[1] = 0
  <2>1. h[0] = n
    BY <1>2 DEF HasBytes, IsRemaining
  <2>2. 1 \in 1..1 /\ 1 - 1 = 0 /\ h[1] \in Nat
    OBVIOUS
  <2>3. h[1 - 1] < 1 * Base
    BY <1>1, <1>2, <2>1
  <2>4. h[1] < 1
    BY <1>2, <2>2, <2>3, RemainsBelow
  <2> QED BY <2>2, <2>4
<1>3. ASSUME n < Short, NEW h \in [0..2 -> Nat], HasBytes(n, 2, h) PROVE h[2] = 0
  <2>1. h[0] = n
    BY <1>3 DEF HasBytes, IsRemaining
  <2>2. 1 \in 1..2 /\ 2 \in 1..2 /\ h[2] \in Nat /\ 1 - 1 = 0 /\ 2 - 1 = 1
    OBVIOUS
  <2>3. h[1 - 1] < Base * Base
    BY <1>1, <1>3, <2>1
  <2>4. h[1] < Base
    BY <1>1, <1>3, <2>2, <2>3, RemainsBelow
  <2>5. h[2 - 1] < 1 * Base
    BY <1>1, <2>4
  <2>6. h[2] < 1
    BY <1>3, <2>2, <2>5, RemainsBelow
  <2> QED BY <2>2, <2>6
<1> QED BY <1>2, <1>3

\* Four bytes hold what is below Long, and eight what is below its square.
LEMMA ManyBytes ==
  ASSUME NEW n \in Nat
  PROVE  /\ n < Long => \A h \in [0..4 -> Nat] : HasBytes(n, 4, h) => h[4] = 0
         /\ n < Long * Long => \A h \in [0..8 -> Nat] : HasBytes(n, 8, h) => h[8] = 0
<1>1. PICK b \in Nat : b = Base
  BY LayoutIs
<1>2. PICK b2 \in Nat : b2 = b * b
  BY SMT
<1>3. PICK b3 \in Nat : b3 = b2 * b
  BY SMT
<1>4. PICK b4 \in Nat : b4 = b3 * b
  BY SMT
<1>5. PICK b5 \in Nat : b5 = b4 * b
  BY SMT
<1>6. PICK b6 \in Nat : b6 = b5 * b
  BY SMT
<1>7. PICK b7 \in Nat : b7 = b6 * b
  BY SMT
<1>8. Long = b4
  <2>1. Long = b2 * b2
    BY <1>1, <1>2, WordsAre
  <2>2. b2 * b2 = (b2 * b) * b
    BY <1>2, SMT
  <2> QED BY <1>3, <1>4, <2>1, <2>2
<1>9. Long * Long = b7 * b
  <2>1. b4 * b4 = ((b4 * b) * b) * (b * b)
    BY <1>2, <1>3, <1>4, SMT
  <2>2. ((b4 * b) * b) * (b * b) = (((b4 * b) * b) * b) * b
    BY SMT
  <2> QED BY <1>5, <1>6, <1>7, <1>8, <2>1, <2>2
<1>10. ASSUME n < Long, NEW h \in [0..4 -> Nat], HasBytes(n, 4, h) PROVE h[4] = 0
  <2>1. h[0] = n
    BY <1>10 DEF HasBytes, IsRemaining
  <2>2. \A k \in 1..4 : \A a \in Nat : h[k - 1] < a * b => h[k] < a
    BY <1>1, <1>10, RemainsBelow
  <2>3. h[1] < b3
    <3>1. h[1 - 1] < b3 * b
      BY <1>4, <1>8, <1>10, <2>1
    <3> QED BY <2>2, <3>1
  <2>4. h[2] < b2
    <3>1. h[2 - 1] < b2 * b
      BY <1>3, <2>3
    <3> QED BY <2>2, <3>1
  <2>5. h[3] < b
    <3>1. h[3 - 1] < b * b
      BY <1>2, <2>4
    <3> QED BY <2>2, <3>1
  <2>6. h[4] < 1
    <3>1. h[4 - 1] < 1 * b
      BY <2>5
    <3> QED BY <2>2, <3>1
  <2>7. h[4] \in Nat
    OBVIOUS
  <2> QED BY <2>6, <2>7
<1>11. ASSUME n < Long * Long, NEW h \in [0..8 -> Nat], HasBytes(n, 8, h) PROVE h[8] = 0
  <2>1. h[0] = n
    BY <1>11 DEF HasBytes, IsRemaining
  <2>2. \A k \in 1..8 : \A a \in Nat : h[k - 1] < a * b => h[k] < a
    BY <1>1, <1>11, RemainsBelow
  <2>3. h[1] < b7
    <3>1. h[1 - 1] < b7 * b
      BY <1>9, <1>11, <2>1
    <3> QED BY <2>2, <3>1
  <2>4. h[2] < b6
    <3>1. h[2 - 1] < b6 * b
      BY <1>7, <2>3
    <3> QED BY <2>2, <3>1
  <2>5. h[3] < b5
    <3>1. h[3 - 1] < b5 * b
      BY <1>6, <2>4
    <3> QED BY <2>2, <3>1
  <2>6. h[4] < b4
    <3>1. h[4 - 1] < b4 * b
      BY <1>5, <2>5
    <3> QED BY <2>2, <3>1
  <2>7. h[5] < b3
    <3>1. h[5 - 1] < b3 * b
      BY <1>4, <2>6
    <3> QED BY <2>2, <3>1
  <2>8. h[6] < b2
    <3>1. h[6 - 1] < b2 * b
      BY <1>3, <2>7
    <3> QED BY <2>2, <3>1
  <2>9. h[7] < b
    <3>1. h[7 - 1] < b * b
      BY <1>2, <2>8
    <3> QED BY <2>2, <3>1
  <2>10. h[8] < 1
    <3>1. h[8 - 1] < 1 * b
      BY <2>9
    <3> QED BY <2>2, <3>1
  <2>11. h[8] \in Nat
    OBVIOUS
  <2> QED BY <2>10, <2>11
<1> QED BY <1>10, <1>11

\* The form of a safe number, with its bytes.
NumberForm(n, f, c) ==
  /\ f \in 0..3 /\ Form(n) = f /\ ByteCount(f) = c /\ c \in Nat /\ c >= 1
  /\ n >= Inline => n >= Least(f)

\* A number is read back from its form.
LEMMA FormReadsBack ==
  ASSUME NEW n \in Nat, n <= MaxSafe
  PROVE  \E f, c : NumberForm(n, f, c) /\ Number(BigEndian(n, c)) = n
<1>0. Base \in Nat /\ Short \in Nat /\ Long \in Nat /\ Base < Short /\ Short < Long /\ MaxSafe \in Nat
  BY LayoutIs, WordsAre
<1>1. n < Long * Long
  <2> DEFINE q == MaxSafe \div Long
             r == MaxSafe % Long
  <2>1. q \in Nat /\ q < Long /\ r \in Nat /\ r < Long /\ MaxSafe = q * Long + r
    BY <1>0, Division, LayoutAssumption
  <2> HIDE DEF q, r
  <2>2. q * Long + r < Long * Long
    BY <1>0, <2>1, DigitBelow
  <2>3. \A x, y, z \in Int : x <= y /\ y < z => x < z
    OBVIOUS
  <2>4. Long * Long \in Int /\ MaxSafe < Long * Long
    BY <1>0, <2>1, <2>2
  <2> QED BY <1>0, <2>3, <2>4
<1>2. ASSUME NEW c \in Nat, \A h \in [0..c -> Nat] : HasBytes(n, c, h) => h[c] = 0
      PROVE  Number(BigEndian(n, c)) = n
  <2>1. PICK h \in [0..c -> Nat] : HasBytes(n, c, h)
    BY BigEndianIs
  <2>2. h[c] = 0
    BY <1>2, <2>1
  <2> QED BY <2>1, <2>2, NumberOfBytes
<1>3. CASE n < Base
  <2>1. NumberForm(n, 0, 1)
    BY <1>3, FormsAre DEF NumberForm
  <2>2. Number(BigEndian(n, 1)) = n
    BY <1>2, <1>3, FewBytes
  <2> QED BY <2>1, <2>2
<1>4. CASE n >= Base /\ n < Short
  <2>1. NumberForm(n, 1, 2)
    BY <1>4, FormsAre DEF NumberForm
  <2>2. Number(BigEndian(n, 2)) = n
    BY <1>2, <1>4, FewBytes
  <2> QED BY <2>1, <2>2
<1>5. CASE n >= Short /\ n < Long
  <2>1. NumberForm(n, 2, 4)
    BY <1>5, FormsAre DEF NumberForm
  <2>2. Number(BigEndian(n, 4)) = n
    BY <1>2, <1>5, ManyBytes
  <2> QED BY <2>1, <2>2
<1>6. CASE n >= Long
  <2>1. NumberForm(n, 3, 8)
    BY <1>6, FormsAre DEF NumberForm
  <2>2. Number(BigEndian(n, 8)) = n
    BY <1>1, <1>2, ManyBytes
  <2> QED BY <2>1, <2>2
<1> QED BY <1>0, <1>3, <1>4, <1>5, <1>6

\* Bytes that stand for a safe number, and for no smaller one than their form is for, are its form.
LEMMA BytesAreForm ==
  ASSUME NEW f \in 0..3, NEW s \in Seq(Octet), Len(s) = ByteCount(f), Number(s) <= MaxSafe, Number(s) >= Least(f)
  PROVE  Number(s) \in Nat /\ Number(s) >= Inline /\ Form(Number(s)) = f /\ BigEndian(Number(s), ByteCount(f)) = s
<1>0. Base \in Nat /\ Short \in Nat /\ Long \in Nat /\ Base < Short /\ Short < Long /\ MaxSafe \in Nat /\ Inline \in Nat /\ Inline < Base
      /\ Short = Base * Base /\ Long = Short * Short
  BY LayoutIs, WordsAre
<1> DEFINE v == Number(s)
           count == ByteCount(f)
<1>1. v \in Nat /\ BigEndian(v, count) = s
  BY BytesOfNumber
<1>2. PICK w \in [0..count -> Nat] : HasNumber(s, count, w)
  BY NumberIs
<1>3. count \in Nat /\ count >= 1 /\ \A k \in 1..count : s[k] \in Octet
  BY FormsAre, LenProperties, ElementOfSeq
<1>4. w[0] = 0 /\ w[count] = v /\ v <= MaxSafe /\ \A k \in 1..count : w[k] = NextNumber(w[k - 1], s[k])
  BY <1>2 DEF HasNumber, IsReading
<1> HIDE DEF v, count
<1>5. \A k \in 1..count : w[k] <= MaxSafe => w[k] = w[k - 1] * Base + s[k] /\ w[k - 1] <= MaxSafe
  <2> TAKE k \in 1..count
  <2> HAVE w[k] <= MaxSafe
  <2>1. k - 1 \in 0..count /\ w[k - 1] \in Nat /\ s[k] \in Octet /\ s[k] \in Nat
    BY <1>3, Octets
  <2>2. w[k] = w[k - 1] * Base + s[k]
    BY <1>4, <2>1, ReadOn
  <2> DEFINE x == w[k - 1]
             b == s[k]
  <2>3. x \in Nat /\ b \in Nat /\ x * Base + b <= MaxSafe
    BY <2>1, <2>2
  <2> HIDE DEF x, b
  <2>4. x * Base >= x
    BY <1>0, <2>3, LayoutIs, SMT
  <2>5. x * Base \in Nat
    BY <1>0, <2>3
  <2>6. x <= MaxSafe
    BY <1>0, <2>3, <2>4, <2>5
  <2> QED BY <2>2, <2>6 DEF x
<1>6. \A a \in Nat : \A k \in 1..count : w[k] <= MaxSafe /\ w[k - 1] < a => w[k] < a * Base
  <2> TAKE a \in Nat
  <2> TAKE k \in 1..count
  <2> HAVE w[k] <= MaxSafe /\ w[k - 1] < a
  <2>1. k - 1 \in 0..count /\ w[k - 1] \in Nat /\ s[k] \in Nat /\ s[k] < Base
    BY <1>3, Octets
  <2>2. w[k] = w[k - 1] * Base + s[k]
    BY <1>5
  <2>3. w[k - 1] * Base + s[k] < a * Base
    BY <1>0, <2>1, DigitBelow
  <2> QED BY <2>2, <2>3
<1>7. CASE f = 0
  <2>1. count = 1 /\ v >= Inline
    BY <1>7, FormsAre DEF count, v
  <2>2. w[1] <= MaxSafe /\ w[1 - 1] < 1
    BY <1>4, <2>1
  <2>3. v < 1 * Base
    BY <1>4, <1>6, <2>1, <2>2
  <2>4. v < Base
    BY <1>0, <2>3
  <2> QED BY <1>1, <1>7, <2>1, <2>4, FormsAre DEF count, v
<1>8. CASE f = 1
  <2>1. count = 2 /\ v >= Base
    BY <1>8, FormsAre DEF count, v
  <2>2. w[2] <= MaxSafe /\ w[2 - 1] <= MaxSafe /\ w[1 - 1] < 1
    BY <1>4, <1>5, <2>1
  <2>3. w[1] < 1 * Base
    BY <1>6, <2>1, <2>2
  <2>4. w[2 - 1] < Base
    BY <1>0, <2>3
  <2>5. v < Base * Base
    BY <1>0, <1>4, <1>6, <2>1, <2>2, <2>4
  <2> QED BY <1>0, <1>1, <1>8, <2>1, <2>5, FormsAre DEF count, v
<1>9. CASE f = 2
  <2>1. count = 4 /\ v >= Short
    BY <1>9, FormsAre DEF count, v
  <2>2. w[4] <= MaxSafe /\ w[4 - 1] <= MaxSafe
    BY <1>4, <1>5, <2>1
  <2>3. w[3] <= MaxSafe /\ w[3 - 1] <= MaxSafe
    BY <1>5, <2>1, <2>2
  <2>4. w[2] <= MaxSafe /\ w[2 - 1] <= MaxSafe /\ w[1 - 1] < 1
    BY <1>4, <1>5, <2>1, <2>3
  <2> PICK b \in Nat : b = Base
    BY <1>0
  <2>5. w[1] < 1 * b
    BY <1>6, <2>1, <2>4
  <2>6. w[2] < b * b
    <3>1. w[2 - 1] < b
      BY <2>5
    <3> QED BY <1>6, <2>1, <2>4, <3>1
  <2> PICK b2 \in Nat : b2 = b * b
    BY SMT
  <2>7. w[3] < b2 * b
    <3>1. w[3 - 1] < b2
      BY <2>6
    <3> QED BY <1>6, <2>1, <2>3, <3>1
  <2> PICK b3 \in Nat : b3 = b2 * b
    BY SMT
  <2>8. w[4] < b3 * b
    <3>1. w[4 - 1] < b3
      BY <2>7
    <3> QED BY <1>6, <2>1, <2>2, <3>1
  <2>9. b3 * b = Long
    <3>1. b2 * b2 = (b2 * b) * b
      BY SMT
    <3> QED BY <1>0, <3>1
  <2> QED BY <1>0, <1>1, <1>4, <1>9, <2>1, <2>8, <2>9, FormsAre DEF count, v
<1>10. CASE f = 3
  <2>1. v >= Long
    BY <1>10, FormsAre DEF v
  <2> QED BY <1>0, <1>1, <1>10, <2>1, FormsAre DEF count, v
<1> QED BY <1>7, <1>8, <1>9, <1>10

-----------------------------------------------------------------------------
(* What lies in the input (cbor.ts) *)

\* A sequence stands in another one.
LiesAt(s, input, at) ==
  /\ at \in Nat /\ at >= 1 /\ (at - 1) + Len(s) <= Len(input)
  /\ \A k \in 1..Len(s) : input[(at - 1) + k] = s[k]

\* So do two, one behind the other.
LEMMA BothLie ==
  ASSUME NEW V, NEW a \in Seq(V), NEW b \in Seq(V), NEW input \in Seq(V), NEW at
  PROVE  LiesAt(a \o b, input, at) <=> LiesAt(a, input, at) /\ LiesAt(b, input, at + Len(a))
<1> DEFINE m == Len(a)
           n == Len(b)
           c == a \o b
<1>1. m \in Nat /\ n \in Nat /\ Len(input) \in Nat
  BY LenProperties
<1>2. Len(c) = m + n /\ (\A i \in 1..m : c[i] = a[i]) /\ (\A i \in 1..n : c[m + i] = b[i])
  <2>1. Len(c) = m + n /\ \A i \in 1..m+n : c[i] = IF i <= m THEN a[i] ELSE b[i - m]
    BY ConcatProperties
  <2>2. \A i \in 1..m : i \in 1..m+n /\ i <= m
    BY <1>1
  <2>3. \A i \in 1..n : m + i \in 1..m+n /\ ~(m + i <= m) /\ (m + i) - m = i
    BY <1>1
  <2> HIDE DEF c
  <2> QED BY <2>1, <2>2, <2>3
<1> HIDE DEF c, m, n
<1>3. ASSUME LiesAt(c, input, at) PROVE LiesAt(a, input, at) /\ LiesAt(b, input, at + m)
  <2>1. at \in Nat /\ at >= 1 /\ (at - 1) + (m + n) <= Len(input) /\ \A k \in 1..m+n : input[(at - 1) + k] = c[k]
    BY <1>2, <1>3 DEF LiesAt
  <2>2. \A k \in 1..m : k \in 1..m+n
    BY <1>1
  <2>3. LiesAt(a, input, at)
    BY <1>1, <1>2, <2>1, <2>2 DEF LiesAt, m
  <2>4. \A k \in 1..n : m + k \in 1..m+n /\ (at - 1) + (m + k) = ((at + m) - 1) + k
    BY <1>1, <2>1
  <2>5. \A k \in 1..n : input[((at + m) - 1) + k] = b[k]
    BY <1>2, <2>1, <2>4
  <2>6. at + m \in Nat /\ at + m >= 1 /\ ((at + m) - 1) + n <= Len(input)
    BY <1>1, <2>1
  <2>7. LiesAt(b, input, at + m)
    BY <2>5, <2>6 DEF LiesAt, n
  <2> QED BY <2>3, <2>7
<1>4. ASSUME LiesAt(a, input, at), LiesAt(b, input, at + m) PROVE LiesAt(c, input, at)
  <2>1. at \in Nat /\ at >= 1 /\ \A k \in 1..m : input[(at - 1) + k] = a[k]
    BY <1>4 DEF LiesAt, m
  <2>2. ((at + m) - 1) + n <= Len(input) /\ \A k \in 1..n : input[((at + m) - 1) + k] = b[k]
    BY <1>4 DEF LiesAt, n
  <2>3. (at - 1) + (m + n) <= Len(input)
    BY <1>1, <2>1, <2>2
  <2>4. ASSUME NEW k \in 1..m+n PROVE input[(at - 1) + k] = c[k]
    <3>1. CASE k \in 1..m
      BY <1>2, <2>1, <3>1
    <3>2. CASE k \notin 1..m
      <4> DEFINE j == k - m
      <4>1. j \in 1..n /\ ((at + m) - 1) + j = (at - 1) + k /\ m + j = k
        BY <1>1, <2>1, <3>2
      <4> HIDE DEF j
      <4> QED BY <1>2, <2>2, <4>1
    <3> QED BY <3>1, <3>2
  <2> QED BY <1>2, <2>1, <2>3, <2>4 DEF LiesAt
<1> QED BY <1>3, <1>4 DEF c, m

\* What lies there is what is cut out there.
LEMMA LyingIsCut ==
  ASSUME NEW V, NEW s \in Seq(V), NEW input \in Seq(V), NEW at, LiesAt(s, input, at), NEW last, last = at + Len(s) - 1
  PROVE  SubSeq(input, at, last) = s
<1>1. Len(s) \in Nat /\ Len(input) \in Nat /\ at \in Nat /\ at >= 1 /\ last \in Int /\ (at - 1) + Len(s) <= Len(input)
  BY LenProperties DEF LiesAt
<1>2. \A i \in at..last : input[i] \in V
  <2>1. \A i \in at..last : i \in 1..Len(input)
    BY <1>1
  <2> QED BY <2>1, ElementOfSeq
<1> DEFINE t == SubSeq(input, at, last)
<1>3. t \in Seq(V) /\ Len(t) = (IF at <= last THEN last - at + 1 ELSE 0) /\ \A i \in 1..last - at + 1 : t[i] = input[at + i - 1]
  BY <1>1, <1>2, SubSeqProperties
<1> HIDE DEF t
<1>4. Len(t) = Len(s) /\ last - at + 1 = Len(s)
  BY <1>1, <1>3
<1>5. \A i \in 1..Len(s) : t[i] = s[i]
  <2> TAKE i \in 1..Len(s)
  <2>1. t[i] = input[at + i - 1] /\ at + i - 1 = (at - 1) + i
    BY <1>1, <1>3, <1>4
  <2> QED BY <2>1 DEF LiesAt
<1>6. t = s
  BY <1>3, <1>4, <1>5, SeqEqual
<1> QED BY <1>6 DEF t

\* And what is cut out of the input lies there.
LEMMA CutLies ==
  ASSUME NEW V, NEW input \in Seq(V), NEW at \in Nat, at >= 1, NEW count \in Nat, (at - 1) + count <= Len(input),
         NEW last, last = at + count - 1
  PROVE  /\ SubSeq(input, at, last) \in Seq(V) /\ Len(SubSeq(input, at, last)) = count
         /\ LiesAt(SubSeq(input, at, last), input, at)
<1>1. Len(input) \in Nat /\ last \in Int
  BY LenProperties
<1>2. \A i \in at..last : input[i] \in V
  <2>1. \A i \in at..last : i \in 1..Len(input)
    BY <1>1
  <2> QED BY <2>1, ElementOfSeq
<1> DEFINE t == SubSeq(input, at, last)
<1>3. t \in Seq(V) /\ Len(t) = (IF at <= last THEN last - at + 1 ELSE 0) /\ \A i \in 1..last - at + 1 : t[i] = input[at + i - 1]
  BY <1>1, <1>2, SubSeqProperties
<1> HIDE DEF t
<1>4. Len(t) = count /\ last - at + 1 = count
  BY <1>1, <1>3
<1>5. \A i \in 1..count : input[(at - 1) + i] = t[i]
  <2> TAKE i \in 1..count
  <2>1. t[i] = input[at + i - 1] /\ at + i - 1 = (at - 1) + i
    BY <1>1, <1>3, <1>4
  <2> QED BY <2>1
<1>6. LiesAt(t, input, at)
  BY <1>4, <1>5 DEF LiesAt
<1> QED BY <1>3, <1>4, <1>6 DEF t

-----------------------------------------------------------------------------
(* The first byte of an item, and the number after it (cbor.ts) *)

\* The first byte is that of a major type and an additional number.
LEMMA InitialIs ==
  ASSUME NEW major \in 0..7, NEW additional \in Nat, additional < Inline + 8
  PROVE  /\ Initial(major, additional) \in Octet
         /\ Initial(major, additional) \div (Inline + 8) = major /\ Initial(major, additional) % (Inline + 8) = additional
<1> PICK d \in Nat : d = Inline + 8
  BY LayoutIs
<1> PICK x : x = major * d + additional
  OBVIOUS
<1>1. Initial(major, additional) = x
  BY DEF Initial
<1>2. d > 0 /\ major \in Nat /\ major < 8 /\ Base = 8 * d /\ additional < d
  BY LayoutIs
<1>3. x \in Nat /\ x \div d = major /\ x % d = additional
  BY <1>2, OneDivision
<1>4. x < 8 * d
  BY <1>2, DigitBelow
<1> QED BY <1>1, <1>2, <1>3, <1>4, Octets

\* Every byte is the first byte of some type.
LEMMA InitialOf ==
  ASSUME NEW b \in Octet
  PROVE  LET major == b \div (Inline + 8)
             additional == b % (Inline + 8)
         IN  major \in 0..7 /\ additional \in Nat /\ additional < Inline + 8 /\ Initial(major, additional) = b
<1> PICK d \in Nat : d = Inline + 8
  BY LayoutIs
<1>1. d > 0 /\ b \in Nat /\ Base = 8 * d /\ b < Base
  BY LayoutIs, Octets
<1>2. b \div d \in Nat /\ b % d \in Nat /\ b % d < d /\ b = (b \div d) * d + (b % d)
  BY <1>1, Division
<1>3. b \div d < 8
  BY <1>1, DivisionBelow
<1>4. b \div d \in 0..7
  <2> DEFINE q == b \div d
  <2>1. q \in Nat /\ q < 8
    BY <1>2, <1>3
  <2> HIDE DEF q
  <2>2. q \in 0..7
    BY <2>1
  <2> QED BY <2>2 DEF q
<1> QED BY <1>2, <1>4 DEF Initial

\* One byte is a sequence of bytes.
LEMMA OneByte == ASSUME NEW b \in Octet PROVE <<b>> \in Seq(Octet) /\ Len(<<b>>) = 1 /\ <<b>>[1] = b
OBVIOUS

\* A byte and what is behind it.
LEMMA ByteAndRest ==
  ASSUME NEW b \in Octet, NEW t \in Seq(Octet), NEW input \in Seq(Octet), NEW at
  PROVE  /\ <<b>> \o t \in Seq(Octet) /\ Len(<<b>> \o t) = 1 + Len(t)
         /\ LiesAt(<<b>> \o t, input, at) <=> LiesAt(<<b>>, input, at) /\ LiesAt(t, input, at + 1)
<1> PICK a : a = <<b>>
  OBVIOUS
<1>1. a \in Seq(Octet) /\ Len(a) = 1
  BY OneByte
<1>2. LiesAt(a \o t, input, at) <=> LiesAt(a, input, at) /\ LiesAt(t, input, at + Len(a))
  BY <1>1, BothLie
<1>3. a \o t \in Seq(Octet) /\ Len(a \o t) = 1 + Len(t)
  BY <1>1, ConcatProperties
<1> QED BY <1>1, <1>2, <1>3

\* A type with its number is a sequence of bytes.
LEMMA LengthType ==
  ASSUME NEW major \in 0..7, NEW n \in Nat
  PROVE  EncodeLength(major, n) \in Seq(Octet) /\ Len(EncodeLength(major, n)) >= 1
<1>0. Base \in Nat /\ Short \in Nat /\ Long \in Nat /\ Base < Short /\ Short < Long /\ Inline \in Nat
  BY LayoutIs, WordsAre
<1>1. CASE n < Inline
  <2>1. EncodeLength(major, n) = <<Initial(major, n)>> /\ Initial(major, n) \in Octet
    BY <1>0, <1>1, InitialIs DEF EncodeLength
  <2> QED BY <2>1, OneByte
<1>2. CASE ~(n < Inline)
  <2>1. PICK f \in 0..3 : Form(n) = f
    BY <1>0, FormsAre
  <2>2. ByteCount(f) \in Nat
    BY FormsAre
  <2>3. Inline + f \in Nat /\ Inline + f < Inline + 8
    BY <1>0
  <2> DEFINE b == Initial(major, Inline + f)
             t == BigEndian(n, ByteCount(f))
  <2>4. b \in Octet /\ t \in Seq(Octet) /\ Len(t) \in Nat
    BY <2>2, <2>3, InitialIs, BigEndianType
  <2>5. EncodeLength(major, n) = <<b>> \o t
    BY <1>2, <2>1 DEF EncodeLength
  <2> HIDE DEF b, t
  <2>6. <<b>> \o t \in Seq(Octet) /\ Len(<<b>> \o t) = 1 + Len(t)
    BY <2>4, ByteAndRest
  <2> QED BY <2>4, <2>5, <2>6
<1> QED BY <1>1, <1>2

\* The byte that lies in front.
LEMMA FirstByte ==
  ASSUME NEW V, NEW input \in Seq(V), NEW at, NEW b, LiesAt(<<b>>, input, at)
  PROVE  at \in 1..Len(input) /\ input[at] = b
<1>1. Len(<<b>>) = 1 /\ <<b>>[1] = b /\ 1 \in 1..1
  OBVIOUS
<1>2. at \in Nat /\ at >= 1 /\ (at - 1) + 1 <= Len(input) /\ input[(at - 1) + 1] = b
  BY <1>1 DEF LiesAt
<1>3. (at - 1) + 1 = at /\ Len(input) \in Nat
  BY <1>2, LenProperties
<1> QED BY <1>2, <1>3

\* The first byte at a place is of a major type, and a number is read behind it.
IsHead(input, at, major, n, next) ==
  /\ at \in 1..Len(input) /\ input[at] \div (Inline + 8) = major
  /\ ReadLength(input, at + 1, input[at] % (Inline + 8)) = Got(n, next)

\* The type and the number that lie there are read.
LEMMA HeadRead ==
  ASSUME NEW input \in Seq(Octet), NEW at, NEW major \in 0..7, NEW n \in Nat, n <= MaxSafe,
         LiesAt(EncodeLength(major, n), input, at)
  PROVE  IsHead(input, at, major, n, at + Len(EncodeLength(major, n)))
<1>0. Inline \in Nat /\ Len(input) \in Nat
  BY LayoutIs, LenProperties
<1>1. CASE n < Inline
  <2>1. EncodeLength(major, n) = <<Initial(major, n)>> /\ Initial(major, n) \in Octet
    BY <1>0, <1>1, InitialIs DEF EncodeLength
  <2>2. at \in 1..Len(input) /\ input[at] = Initial(major, n) /\ Len(EncodeLength(major, n)) = 1
    BY <2>1, FirstByte, OneByte
  <2>3. input[at] \div (Inline + 8) = major /\ input[at] % (Inline + 8) = n
    BY <1>0, <1>1, <2>2, InitialIs
  <2> QED BY <1>1, <2>2, <2>3 DEF IsHead, ReadLength
<1>2. CASE ~(n < Inline)
  <2>1. PICK f, c : NumberForm(n, f, c) /\ Number(BigEndian(n, c)) = n
    BY FormReadsBack
  <2>2. f \in 0..3 /\ Form(n) = f /\ ByteCount(f) = c /\ c \in Nat /\ c >= 1 /\ n >= Least(f)
    BY <1>0, <1>2, <2>1 DEF NumberForm
  <2> DEFINE b == Initial(major, Inline + f)
             t == BigEndian(n, c)
  <2>3. /\ b \in Octet /\ t \in Seq(Octet) /\ Len(t) = c
        /\ b \div (Inline + 8) = major /\ b % (Inline + 8) = Inline + f
    <3>1. Inline + f \in Nat /\ Inline + f < Inline + 8
      BY <1>0, <2>2
    <3> QED BY <2>2, <3>1, InitialIs, BigEndianType
  <2>4. EncodeLength(major, n) = <<b>> \o t
    BY <1>2, <2>2 DEF EncodeLength
  <2>5. Number(t) = n
    BY <2>1
  <2> HIDE DEF b, t
  <2>6. LiesAt(<<b>>, input, at) /\ LiesAt(t, input, at + 1)
    BY <2>3, <2>4, ByteAndRest
  <2>7. at \in 1..Len(input) /\ input[at] = b
    BY <2>6, FirstByte
  <2> DEFINE next == (at + 1) + c
  <2>8. Len(EncodeLength(major, n)) = 1 + c
    BY <2>3, <2>4, ByteAndRest
  <2>9. next = at + Len(EncodeLength(major, n)) /\ next - 1 = (at + 1) + Len(t) - 1
    BY <2>2, <2>3, <2>7, <2>8
  <2>10. SubSeq(input, at + 1, next - 1) = t
    BY <2>3, <2>6, <2>9, LyingIsCut
  <2>11. next <= Len(input) + 1
    BY <1>0, <2>2, <2>3, <2>6, <2>7 DEF LiesAt
  <2>12. ReadLength(input, at + 1, Inline + f) = Got(n, next)
    <3>1. ~(Inline + f < Inline) /\ (Inline + f) - Inline = f /\ f <= 3
      BY <1>0, <2>2
    <3> HIDE DEF next
    <3>2. (at + 1) + ByteCount(f) = next
      BY <2>2 DEF next
    <3> QED BY <2>2, <2>5, <2>10, <2>11, <3>1, <3>2 DEF ReadLength, If
  <2> QED BY <2>3, <2>7, <2>9, <2>12 DEF IsHead
<1> QED BY <1>1, <1>2

\* What a number that is read was read of: its type and itself, as they are written.
HeadLies(input, at, r, n) ==
  LET head == EncodeLength(input[at] \div (Inline + 8), n)
  IN  /\ n \in Nat /\ n <= MaxSafe /\ LiesAt(head, input, at)
      /\ r = Got(n, at + Len(head)) /\ at + Len(head) <= Len(input) + 1 /\ Len(head) >= 1

\* Whatever number is read was written so.
LEMMA HeadIs ==
  ASSUME NEW input \in Seq(Octet), NEW at \in 1..Len(input),
         NEW r, r = ReadLength(input, at + 1, input[at] % (Inline + 8)), r.next # 0
  PROVE  \E n : HeadLies(input, at, r, n)
<1> DEFINE b == input[at]
           major == b \div (Inline + 8)
           additional == b % (Inline + 8)
<1>0. Inline \in Nat /\ MaxSafe \in Nat /\ MaxSafe >= Base /\ Base >= Inline + 8 /\ Base \in Nat
  BY LayoutIs
<1>1. Len(input) \in Nat /\ at \in Nat /\ at >= 1 /\ at <= Len(input)
  BY LenProperties
<1>2. b \in Octet
  BY ElementOfSeq
<1>3. major \in 0..7 /\ additional \in Nat /\ additional < Inline + 8 /\ Initial(major, additional) = b
  BY <1>2, InitialOf
<1>4. LiesAt(<<b>>, input, at)
  <2>1. \A k \in 1..1 : (at - 1) + k = at /\ k = 1
    BY <1>1
  <2>2. (at - 1) + 1 <= Len(input)
    BY <1>1
  <2> QED BY <1>1, <2>1, <2>2, <1>2, OneByte DEF LiesAt
<1>5. r = ReadLength(input, at + 1, additional)
  OBVIOUS
<1> HIDE DEF additional
<1>6. CASE additional < Inline
  <2>1. r = Got(additional, at + 1)
    BY <1>5, <1>6 DEF ReadLength
  <2>2. EncodeLength(major, additional) = <<b>> /\ Len(<<b>>) = 1
    BY <1>3, <1>6 DEF EncodeLength
  <2>3. at + 1 <= Len(input) + 1 /\ additional <= MaxSafe
    BY <1>0, <1>1, <1>3
  <2> PICK front : front = <<b>>
    OBVIOUS
  <2>4. EncodeLength(input[at] \div (Inline + 8), additional) = front /\ Len(front) = 1 /\ LiesAt(front, input, at)
    BY <1>4, <2>2
  <2> HIDE DEF b
  <2>5. HeadLies(input, at, r, additional)
    <3>1. additional \in Nat /\ additional <= MaxSafe
      BY <1>3, <2>3
    <3>2. r = Got(additional, at + Len(front)) /\ at + Len(front) <= Len(input) + 1 /\ Len(front) >= 1
      BY <2>1, <2>3, <2>4
    <3>3. EncodeLength(input[at] \div (Inline + 8), additional) = front /\ LiesAt(front, input, at)
      BY <2>4
    <3> HIDE DEF major
    <3> QED BY ONLY <3>1, <3>2, <3>3 DEF HeadLies
  <2> QED BY <2>5
<1>7. CASE ~(additional < Inline)
  <2> DEFINE f == additional - Inline
             c == ByteCount(f)
             next == (at + 1) + c
             t == SubSeq(input, at + 1, next - 1)
             n == Number(t)
  <2>1. r = If(f <= 3 /\ next <= Len(input) + 1 /\ n >= Least(f) /\ n <= MaxSafe, Got(n, next))
    BY <1>5, <1>7 DEF ReadLength
  <2>2. f <= 3 /\ next <= Len(input) + 1 /\ n >= Least(f) /\ n <= MaxSafe /\ r = Got(n, next)
    BY <2>1 DEF If, Failed
  <2>3. f \in 0..3 /\ Inline + f = additional
    BY <1>0, <1>3, <1>7, <2>2
  <2> HIDE DEF f
  <2>4. c \in Nat /\ c >= 1
    BY <2>3, FormsAre
  <2> HIDE DEF c
  <2>5. /\ at + 1 \in Nat /\ at + 1 >= 1 /\ ((at + 1) - 1) + c <= Len(input)
        /\ next - 1 = (at + 1) + c - 1
    BY <1>1, <2>2, <2>4
  <2> HIDE DEF next
  <2>6. t \in Seq(Octet) /\ Len(t) = c /\ LiesAt(t, input, at + 1)
    BY <2>4, <2>5, CutLies
  <2> HIDE DEF t
  <2>7. Len(t) = ByteCount(f)
    BY <2>6 DEF c
  <2>8. n \in Nat /\ n >= Inline /\ Form(n) = f /\ BigEndian(n, ByteCount(f)) = t
    BY <2>2, <2>3, <2>6, <2>7, BytesAreForm
  <2> HIDE DEF n, b
  <2>9. EncodeLength(major, n) = <<b>> \o t
    BY <1>0, <1>3, <2>3, <2>8 DEF EncodeLength
  <2>10. LiesAt(<<b>> \o t, input, at) /\ Len(<<b>> \o t) = 1 + c
    BY <1>2, <1>4, <2>6, ByteAndRest
  <2>11. at + (1 + c) = next /\ 1 + c >= 1
    BY <1>1, <2>4 DEF next
  <2>12. major = input[at] \div (Inline + 8)
    BY DEF b
  <2> HIDE DEF major
  <2> QED BY <2>2, <2>8, <2>9, <2>10, <2>11, <2>12 DEF HeadLies
<1> QED BY <1>6, <1>7

-----------------------------------------------------------------------------
(* Values, one depth after another (cbor.ts) *)

\* Nothing, below the first depth; else the values of the depth before.
Below(depth) == IF depth = 0 THEN {} ELSE Nesting[depth - 1]
\* All values there are.
Value == Nesting[MaxDepth]

\* One more depth on those there are.
Deepens(g, f, k, x) == g = [d \in 0..k+1 |-> g[d]] /\ g[k + 1] = x /\ \A d \in 0..k : g[d] = f[d]

\* There is always one more depth to define.
LEMMA OneDeeper == ASSUME NEW k \in Nat, NEW f, NEW x PROVE \E g : Deepens(g, f, k, x)
<1> DEFINE g == [d \in 0..k+1 |-> IF d = k + 1 THEN x ELSE f[d]]
<1>1. \A d \in 0..k : d \in 0..k+1 /\ d # k + 1
  OBVIOUS
<1>2. g[k + 1] = x /\ \A d \in 0..k : g[d] = f[d]
  BY <1>1
<1>3. g = [d \in 0..k+1 |-> g[d]]
  OBVIOUS
<1> HIDE DEF g
<1> QED BY <1>2, <1>3 DEF Deepens

\* What a depth of it comes from.
LEMMA Deeper ==
  ASSUME NEW k \in Nat, NEW f, NEW x, NEW g, Deepens(g, f, k, x), NEW d \in 0..k+1
  PROVE  /\ d = k + 1 => d # 0 /\ g[d] = x /\ g[d - 1] = f[k] /\ d - 1 = k
         /\ d # k + 1 => d \in 0..k /\ g[d] = f[d]
         /\ d # k + 1 /\ d # 0 => d - 1 \in 0..k /\ g[d - 1] = f[d - 1]
<1>1. d = k + 1 => d # 0 /\ d - 1 = k /\ k \in 0..k
  OBVIOUS
<1>2. d # k + 1 => d \in 0..k
  OBVIOUS
<1>3. d # k + 1 /\ d # 0 => d - 1 \in 0..k
  OBVIOUS
<1> QED BY <1>1, <1>2, <1>3 DEF Deepens

\* Values nest to every depth up to the last.
LEMMA NestingExists ==
  \E f : f = [depth \in 0..MaxDepth |-> Simple \cup Composite(IF depth = 0 THEN {} ELSE f[depth - 1])]
<1> DEFINE F(f, d) == Simple \cup Composite(IF d = 0 THEN {} ELSE f[d - 1])
           Has(f, k) == f = [d \in 0..k |-> F(f, d)]
           T == {k \in Nat : \E f : Has(f, k)}
<1>1. 0 \in T
  <2> DEFINE f == [d \in 0..0 |-> Simple \cup Composite({})]
  <2>1. Has(f, 0)
    OBVIOUS
  <2> HIDE DEF f, Has
  <2> QED BY <2>1
<1>2. ASSUME NEW k \in T PROVE k + 1 \in T
  <2>1. PICK f : Has(f, k)
    OBVIOUS
  <2>2. k \in Nat /\ \A d \in 0..k : f[d] = F(f, d)
    BY <2>1
  <2> PICK x : x = F(f, k + 1)
    OBVIOUS
  <2>3. PICK g : Deepens(g, f, k, x)
    BY <2>2, OneDeeper
  <2>4. ASSUME NEW d \in 0..k+1 PROVE g[d] = F(g, d)
    <3>1. CASE d = k + 1
      <4>1. d # 0 /\ g[d] = x /\ g[d - 1] = f[d - 1]
        BY <2>2, <2>3, <3>1, Deeper
      <4> QED BY <3>1, <4>1
    <3>2. CASE d # k + 1
      <4>1. d \in 0..k /\ g[d] = f[d] /\ (d # 0 => g[d - 1] = f[d - 1])
        BY <2>2, <2>3, <3>2, Deeper
      <4> QED BY <2>2, <4>1
    <3> QED BY <3>1, <3>2
  <2>5. Has(g, k + 1)
    BY <2>3, <2>4 DEF Deepens
  <2> HIDE DEF Has
  <2> QED BY <2>2, <2>5
<1>3. MaxDepth \in T
  <2> HIDE DEF T
  <2>1. T \in SUBSET Nat
    BY DEF T
  <2> QED BY <1>1, <1>2, <2>1, Induction, LayoutIs
<1> QED BY <1>3

\* The values of each depth.
LEMMA NestingIs == \A d \in 0..MaxDepth : Nesting[d] = Simple \cup Composite(Below(d))
<1> DEFINE It(f) == [d \in 0..MaxDepth |-> Simple \cup Composite(IF d = 0 THEN {} ELSE f[d - 1])]
           f == CHOOSE f : f = It(f)
<1>1. Nesting = f
  BY DEF Nesting
<1>2. f = It(f)
  <2>1. \E h : h = It(h)
    BY NestingExists
  <2> HIDE DEF It
  <2> QED BY <2>1
<1> HIDE DEF f
<1> QED BY <1>1, <1>2 DEF Below

\* A value is simple, an array or a map.
IsArray(v, parts) == DOMAIN v = {"array"} /\ v.array \in Seq(parts) /\ v = [array |-> v.array]
IsMap(v, parts) == DOMAIN v = {"map"} /\ v.map \in Seq(parts \X parts) /\ v = [map |-> v.map]

\* The values of a depth are the simple ones, and arrays and maps of the values of the depth before.
LEMMA ShapeOf ==
  ASSUME NEW d \in 0..MaxDepth
  PROVE  \A v : v \in Nesting[d] <=> v \in Simple \/ IsArray(v, Below(d)) \/ IsMap(v, Below(d))
<1>1. ASSUME NEW parts, NEW v PROVE v \in Composite(parts) <=> IsArray(v, parts) \/ IsMap(v, parts)
  <2>1. v \in [array : Seq(parts)] <=> IsArray(v, parts)
    BY DEF IsArray
  <2>2. v \in [map : Seq(parts \X parts)] <=> IsMap(v, parts)
    BY DEF IsMap
  <2> QED BY <2>1, <2>2 DEF Composite
<1> QED BY <1>1, NestingIs

\* Simple values are booleans, integers, bytes and texts.
BoolValue(v) == DOMAIN v = {"bool"} /\ v.bool \in BOOLEAN /\ v = [bool |-> v.bool]
IntValue(v) == DOMAIN v = {"int"} /\ v.int \in Int /\ v = [int |-> v.int]
BytesValue(v) == DOMAIN v = {"bytes"} /\ v.bytes \in Seq(Octet) /\ v = [bytes |-> v.bytes]
TextValue(v) == DOMAIN v = {"text"} /\ v.text \in Seq(TextUnit) /\ v = [text |-> v.text]

\* There are no other simple values.
LEMMA SimpleIs == \A v : v \in Simple <=> BoolValue(v) \/ IntValue(v) \/ BytesValue(v) \/ TextValue(v)
<1> TAKE v
<1>1. v \in [bool : BOOLEAN] <=> BoolValue(v)
  BY DEF BoolValue
<1>2. v \in [int : Int] <=> IntValue(v)
  BY DEF IntValue
<1>3. v \in [bytes : Seq(Octet)] <=> BytesValue(v)
  BY DEF BytesValue
<1>4. v \in [text : Seq(TextUnit)] <=> TextValue(v)
  BY DEF TextValue
<1> QED BY <1>1, <1>2, <1>3, <1>4 DEF Simple

\* The parts of each.
LEMMA PartsAre ==
  ASSUME NEW v, NEW parts
  PROVE  /\ v \in Simple => Parts(v) = {}
         /\ IsArray(v, parts) => Parts(v) = {v.array[i] : i \in DOMAIN v.array}
         /\ IsMap(v, parts) => Parts(v) = {v.map[i][1] : i \in DOMAIN v.map} \cup {v.map[i][2] : i \in DOMAIN v.map}
<1>1. ASSUME v \in Simple PROVE Parts(v) = {}
  BY <1>1, SimpleIs DEF Parts, Is, BoolValue, IntValue, BytesValue, TextValue
<1>2. ASSUME IsArray(v, parts) PROVE Parts(v) = {v.array[i] : i \in DOMAIN v.array}
  <2>1. DOMAIN v = {"array"}
    BY <1>2 DEF IsArray
  <2> QED BY <2>1 DEF Parts, Is, ToSet
<1>3. ASSUME IsMap(v, parts)
      PROVE  Parts(v) = {v.map[i][1] : i \in DOMAIN v.map} \cup {v.map[i][2] : i \in DOMAIN v.map}
  <2> PICK s : s = v.map
    OBVIOUS
  <2>1. DOMAIN v = {"map"} /\ "array" # "map"
    BY <1>3 DEF IsMap
  <2>2. Parts(v) = {pair[1] : pair \in ToSet(s)} \cup {pair[2] : pair \in ToSet(s)}
    BY <2>1 DEF Parts, Is
  <2>3. {pair[1] : pair \in ToSet(s)} = {s[i][1] : i \in DOMAIN s} /\ {pair[2] : pair \in ToSet(s)} = {s[i][2] : i \in DOMAIN s}
    BY DEF ToSet
  <2> QED BY <2>2, <2>3
<1> QED BY <1>1, <1>2, <1>3

\* The sides of the pairs of a map are its parts.
SideParts(v, i) == v.map[i][1] \in Parts(v) /\ v.map[i][2] \in Parts(v)

\* Both sides of every pair are parts of the map.
LEMMA SidesAreParts ==
  ASSUME NEW v, NEW parts, IsMap(v, parts), NEW i \in DOMAIN v.map
  PROVE  SideParts(v, i)
BY PartsAre DEF SideParts

\* And it has no others.
IsSide(v, p) == \E i \in DOMAIN v.map : p = v.map[i][1] \/ p = v.map[i][2]

\* Every part of a map is a side of one of its pairs.
LEMMA PartsAreSides ==
  ASSUME NEW v, NEW parts, IsMap(v, parts), NEW p \in Parts(v)
  PROVE  IsSide(v, p)
BY PartsAre DEF IsSide

\* Nothing but an array or a map has parts, and they are of the depth before.
LEMMA PartsBelow ==
  ASSUME NEW d \in 0..MaxDepth, NEW v \in Nesting[d], NEW p \in Parts(v)
  PROVE  d # 0 /\ d - 1 \in 0..MaxDepth /\ p \in Nesting[d - 1]
<1>1. v \in Simple \/ IsArray(v, Below(d)) \/ IsMap(v, Below(d))
  BY ShapeOf
<1>2. p \in Below(d)
  <2>1. CASE v \in Simple
    BY <2>1, PartsAre
  <2>2. CASE IsArray(v, Below(d))
    <3>1. PICK i \in DOMAIN v.array : p = v.array[i]
      BY <2>2, PartsAre
    <3>2. v.array \in Seq(Below(d))
      BY <2>2 DEF IsArray
    <3> QED BY <3>1, <3>2, ElementOfSeq, LenProperties
  <2>3. CASE IsMap(v, Below(d))
    <3>1. PICK i \in DOMAIN v.map : p = v.map[i][1] \/ p = v.map[i][2]
      BY <2>3, PartsAre
    <3>2. v.map \in Seq(Below(d) \X Below(d))
      BY <2>3 DEF IsMap
    <3>3. v.map[i] \in Below(d) \X Below(d)
      BY <3>1, <3>2, ElementOfSeq, LenProperties
    <3> QED BY <3>1, <3>3
  <2> QED BY <1>1, <2>1, <2>2, <2>3
<1> QED BY <1>2, LayoutIs DEF Below

\* A sequence of some things is one of all things that hold them.
LEMMA SeqWider == ASSUME NEW A, NEW B, A \subseteq B, NEW s \in Seq(A) PROVE s \in Seq(B)
<1>1. s \in [1..Len(s) -> A] /\ Len(s) \in Nat
  BY LenProperties
<1>2. s \in [1..Len(s) -> B]
  BY <1>1
<1> QED BY <1>1, <1>2, SeqDef

\* What may be made of parts may be made of more parts.
LEMMA ShapesGrow ==
  ASSUME NEW A, NEW B, A \subseteq B, NEW v
  PROVE  (IsArray(v, A) => IsArray(v, B)) /\ (IsMap(v, A) => IsMap(v, B))
<1>1. A \X A \subseteq B \X B
  OBVIOUS
<1> QED BY <1>1, SeqWider DEF IsArray, IsMap

\* A value of some depth is one of the next, and so of every deeper one.
LEMMA NextNesting == \A k \in Nat : k + 1 <= MaxDepth => Nesting[k] \subseteq Nesting[k + 1]
<1> DEFINE T == {k \in Nat : k + 1 <= MaxDepth => Nesting[k] \subseteq Nesting[k + 1]}
<1>1. ASSUME NEW k \in Nat, k + 1 <= MaxDepth, Below(k) \subseteq Below(k + 1) PROVE Nesting[k] \subseteq Nesting[k + 1]
  <2>1. k \in 0..MaxDepth /\ k + 1 \in 0..MaxDepth
    BY <1>1, LayoutIs
  <2> SUFFICES ASSUME NEW v \in Nesting[k] PROVE v \in Nesting[k + 1]
    OBVIOUS
  <2>2. v \in Simple \/ IsArray(v, Below(k)) \/ IsMap(v, Below(k))
    BY <2>1, ShapeOf
  <2>3. v \in Simple \/ IsArray(v, Below(k + 1)) \/ IsMap(v, Below(k + 1))
    BY <1>1, <2>2, ShapesGrow
  <2> QED BY <2>1, <2>3, ShapeOf
<1>2. 0 \in T
  <2>1. Below(0) \subseteq Below(0 + 1)
    BY DEF Below
  <2> QED BY <1>1, <2>1
<1>3. ASSUME NEW k \in T PROVE k + 1 \in T
  <2> SUFFICES ASSUME (k + 1) + 1 <= MaxDepth PROVE Nesting[k + 1] \subseteq Nesting[(k + 1) + 1]
    OBVIOUS
  <2>1. k \in Nat /\ k + 1 \in Nat /\ k + 1 <= MaxDepth
    BY LayoutIs
  <2>2. Nesting[k] \subseteq Nesting[k + 1]
    BY <2>1
  <2>3. Below(k + 1) = Nesting[k] /\ Below((k + 1) + 1) = Nesting[k + 1]
    <3>1. k + 1 # 0 /\ (k + 1) - 1 = k /\ (k + 1) + 1 # 0 /\ ((k + 1) + 1) - 1 = k + 1
      BY <2>1
    <3> QED BY <3>1 DEF Below
  <2> QED BY <1>1, <2>1, <2>2, <2>3
<1> HIDE DEF T
<1>4. T \in SUBSET Nat
  BY DEF T
<1>5. T = Nat
  BY <1>2, <1>3, <1>4, Induction
<1> QED BY <1>5 DEF T

\* The values of every depth are among those of the last.
LEMMA NestingGrows == ASSUME NEW d \in 0..MaxDepth PROVE Nesting[d] \subseteq Value
<1> DEFINE T == {k \in Nat : d + k <= MaxDepth => Nesting[d] \subseteq Nesting[d + k]}
<1>1. 0 \in T
  BY LayoutIs
<1>2. ASSUME NEW k \in T PROVE k + 1 \in T
  <2> SUFFICES ASSUME d + (k + 1) <= MaxDepth PROVE Nesting[d] \subseteq Nesting[d + (k + 1)]
    OBVIOUS
  <2>1. d + k \in Nat /\ d + k <= MaxDepth /\ (d + k) + 1 = d + (k + 1)
    BY LayoutIs
  <2>2. Nesting[d] \subseteq Nesting[d + k] /\ Nesting[d + k] \subseteq Nesting[(d + k) + 1]
    BY <2>1, NextNesting
  <2> QED BY <2>1, <2>2
<1> HIDE DEF T
<1>3. T \in SUBSET Nat
  BY DEF T
<1>4. T = Nat
  BY <1>1, <1>2, <1>3, Induction
<1>5. MaxDepth - d \in Nat /\ d + (MaxDepth - d) = MaxDepth
  BY LayoutIs
<1>6. MaxDepth - d \in T
  BY <1>4, <1>5
<1> QED BY <1>5, <1>6, LayoutIs DEF T, Value

\* The shapes of values, and their parts, which are values.
LEMMA ValueIs ==
  /\ \A v \in Value : v \in Simple \/ IsArray(v, Value) \/ IsMap(v, Value)
  /\ \A v \in Value : \A p \in Parts(v) : p \in Value
  /\ \A v \in Simple : v \in Value
<1>1. MaxDepth \in 0..MaxDepth
  BY LayoutIs
<1>2. Below(MaxDepth) \subseteq Value
  <2>1. MaxDepth # 0 => MaxDepth - 1 \in 0..MaxDepth
    BY LayoutIs
  <2> QED BY <2>1, NestingGrows DEF Below
<1>3. ASSUME NEW v \in Value PROVE v \in Simple \/ IsArray(v, Value) \/ IsMap(v, Value)
  <2>1. v \in Simple \/ IsArray(v, Below(MaxDepth)) \/ IsMap(v, Below(MaxDepth))
    BY <1>1, ShapeOf DEF Value
  <2> QED BY <1>2, <2>1, ShapesGrow
<1>4. ASSUME NEW v \in Value, NEW p \in Parts(v) PROVE p \in Value
  BY <1>1, PartsBelow, NestingGrows DEF Value
<1>5. ASSUME NEW v \in Simple PROVE v \in Value
  BY <1>1, ShapeOf DEF Value
<1> QED BY <1>3, <1>4, <1>5

\* What holds of a value when it holds of its parts, holds of every value.
LEMMA AllValues ==
  ASSUME NEW S, \A v \in Value : (\A p \in Parts(v) : p \in S) => v \in S
  PROVE  \A v \in Value : v \in S
<1> DEFINE T == {k \in Nat : k <= MaxDepth => Nesting[k] \subseteq S}
<1>1. ASSUME NEW k \in 0..MaxDepth, NEW v \in Nesting[k], \A p \in Parts(v) : p \in S PROVE v \in S
  BY <1>1, NestingGrows
<1>2. 0 \in T
  <2>1. 0 \in 0..MaxDepth
    BY LayoutIs
  <2>2. \A v \in Nesting[0] : \A p \in Parts(v) : p \in S
    BY <2>1, PartsBelow
  <2>3. Nesting[0] \subseteq S
    BY <1>1, <2>1, <2>2
  <2> QED BY <2>3
<1>3. ASSUME NEW k \in T PROVE k + 1 \in T
  <2> SUFFICES ASSUME k + 1 <= MaxDepth PROVE Nesting[k + 1] \subseteq S
    OBVIOUS
  <2>1. k \in 0..MaxDepth /\ k + 1 \in 0..MaxDepth /\ (k + 1) - 1 = k /\ Nesting[k] \subseteq S
    BY LayoutIs
  <2> HIDE DEF T
  <2>2. \A v \in Nesting[k + 1] : \A p \in Parts(v) : p \in S
    BY <2>1, PartsBelow
  <2> QED BY <1>1, <2>1, <2>2
<1> HIDE DEF T
<1>4. T \in SUBSET Nat
  BY DEF T
<1>5. T = Nat
  BY <1>2, <1>3, <1>4, Induction
<1> QED BY <1>5, LayoutIs DEF T, Value

\* What is said at each depth of the values of that depth, by what is said of their parts.
IsLevelled(f) ==
  \A d \in 0..MaxDepth : \A e \in 0..MaxDepth : \A v \in Nesting[d] :
    v \in Nesting[e] /\ (\A p \in Parts(v) : f[d - 1][p] = f[e - 1][p]) => f[d][v] = f[e][v]

\* At every depth that a value has, the same is said of it.
LEMMA LevelsAgree ==
  ASSUME NEW f, IsLevelled(f)
  PROVE  \A d \in 0..MaxDepth : \A v \in Nesting[d] : f[d][v] = f[MaxDepth][v]
<1> DEFINE S == {v \in Value : \A d \in 0..MaxDepth : v \in Nesting[d] => f[d][v] = f[MaxDepth][v]}
<1>0. MaxDepth \in 0..MaxDepth
  BY LayoutIs
<1>1. ASSUME NEW v \in Value, \A p \in Parts(v) : p \in S PROVE v \in S
  <2> SUFFICES ASSUME NEW d \in 0..MaxDepth, v \in Nesting[d] PROVE f[d][v] = f[MaxDepth][v]
    OBVIOUS
  <2>1. ASSUME NEW p \in Parts(v) PROVE f[d - 1][p] = f[MaxDepth - 1][p]
    <3>1. d - 1 \in 0..MaxDepth /\ p \in Nesting[d - 1]
      BY PartsBelow
    <3>2. MaxDepth - 1 \in 0..MaxDepth /\ p \in Nesting[MaxDepth - 1]
      BY <1>0, PartsBelow DEF Value
    <3>3. p \in S
      BY <1>1
    <3> QED BY <3>1, <3>2, <3>3
  <2> HIDE DEF S
  <2> QED BY <1>0, <2>1 DEF IsLevelled, Value
<1>2. \A v \in Value : v \in S
  <2> HIDE DEF S
  <2> QED BY <1>1, AllValues
<1> QED BY <1>2, NestingGrows

\* A value and what is within its parts.
WithinOf(value, within) == {value} \cup UNION {within[part] : part \in Parts(value)}

\* What is within a value depends on its parts alone.
LEMMA WithinSame ==
  ASSUME NEW v, NEW f, NEW g, \A p \in Parts(v) : f[p] = g[p]
  PROVE  WithinOf(v, f) = WithinOf(v, g)
<1>1. {f[p] : p \in Parts(v)} = {g[p] : p \in Parts(v)}
  OBVIOUS
<1> QED BY <1>1 DEF WithinOf

\* The values within each value, by depth.
LEMMA WithinExists == \E f : f = [d \in 0..MaxDepth |-> [v \in Nesting[d] |-> WithinOf(v, f[d - 1])]]
<1> DEFINE F(f, d) == [v \in Nesting[d] |-> WithinOf(v, f[d - 1])]
           Has(f, k) == f = [d \in 0..k |-> F(f, d)]
           T == {k \in Nat : \E f : Has(f, k)}
<1>0. ASSUME NEW f, NEW g PROVE F(f, 0) = F(g, 0)
  <2>1. ASSUME NEW v \in Nesting[0] PROVE WithinOf(v, f[0 - 1]) = WithinOf(v, g[0 - 1])
    <3>1. 0 \in 0..MaxDepth
      BY LayoutIs
    <3>2. \A p \in Parts(v) : FALSE
      BY <3>1, PartsBelow
    <3> QED BY <3>2, WithinSame
  <2> QED BY <2>1
<1>1. 0 \in T
  <2> PICK x : x = F(<<>>, 0)
    OBVIOUS
  <2> DEFINE f == [d \in 0..0 |-> x]
  <2>1. f[0] = x
    OBVIOUS
  <2> HIDE DEF f
  <2>2. x = F(f, 0)
    BY <1>0
  <2>3. f = [d \in 0..0 |-> F(f, d)]
    <3>1. \A d \in 0..0 : d = 0
      OBVIOUS
    <3>2. f = [d \in 0..0 |-> x]
      BY DEF f
    <3>3. \A d \in 0..0 : x = F(f, d)
      BY <2>2, <3>1
    <3> HIDE DEF F
    <3> QED BY <3>2, <3>3
  <2> QED BY <2>3
<1>2. ASSUME NEW k \in T PROVE k + 1 \in T
  <2>1. PICK f : Has(f, k)
    OBVIOUS
  <2>2. k \in Nat /\ \A d \in 0..k : f[d] = F(f, d)
    BY <2>1
  <2> PICK x : x = F(f, k + 1)
    OBVIOUS
  <2>3. PICK g : Deepens(g, f, k, x)
    BY <2>2, OneDeeper
  <2>4. ASSUME NEW d \in 0..k+1 PROVE g[d] = F(g, d)
    <3>1. CASE d = k + 1
      <4>1. g[d] = x /\ g[d - 1] = f[k] /\ d - 1 = k
        BY <2>2, <2>3, <3>1, Deeper
      <4> QED BY <3>1, <4>1
    <3>2. CASE d # k + 1
      <4>1. d \in 0..k /\ g[d] = f[d] /\ (d # 0 => g[d - 1] = f[d - 1])
        BY <2>2, <2>3, <3>2, Deeper
      <4>2. f[d] = F(f, d)
        BY <2>2, <4>1
      <4>3. CASE d = 0
        BY <1>0, <4>1, <4>2, <4>3
      <4>4. CASE d # 0
        BY <4>1, <4>2, <4>4
      <4> QED BY <4>3, <4>4
    <3> QED BY <3>1, <3>2
  <2>5. Has(g, k + 1)
    BY <2>3, <2>4 DEF Deepens
  <2> HIDE DEF Has
  <2> QED BY <2>2, <2>5
<1>3. MaxDepth \in T
  <2> HIDE DEF T
  <2>1. T \in SUBSET Nat
    BY DEF T
  <2> QED BY <1>1, <1>2, <2>1, Induction, LayoutIs
<1> QED BY <1>3

\* Within a value are the value itself and what is within its parts.
LEMMA WithinIs == \A v \in Value : Within(v) = {v} \cup UNION {Within(p) : p \in Parts(v)}
<1> DEFINE It(f) == [d \in 0..MaxDepth |-> [v \in Nesting[d] |-> WithinOf(v, f[d - 1])]]
           f == CHOOSE f : f = It(f)
<1>1. WithinUpTo = f
  BY DEF WithinUpTo, WithinOf
<1>2. f = It(f)
  <2>1. \E h : h = It(h)
    BY WithinExists
  <2> HIDE DEF It
  <2> QED BY <2>1
<1> HIDE DEF f
<1>3. ASSUME NEW d \in 0..MaxDepth, NEW v \in Nesting[d] PROVE f[d][v] = WithinOf(v, f[d - 1])
  <2>1. f[d] = [w \in Nesting[d] |-> WithinOf(w, f[d - 1])]
    BY <1>2
  <2> QED BY <2>1
<1>4. IsLevelled(f)
  BY <1>3, WithinSame DEF IsLevelled
<1>5. \A d \in 0..MaxDepth : \A v \in Nesting[d] : f[d][v] = f[MaxDepth][v]
  BY <1>4, LevelsAgree
<1> TAKE v \in Value
<1>6. MaxDepth \in 0..MaxDepth /\ v \in Nesting[MaxDepth]
  BY LayoutIs DEF Value
<1>7. f[MaxDepth][v] = WithinOf(v, f[MaxDepth - 1])
  BY <1>3, <1>6
<1>8. \A p \in Parts(v) : f[MaxDepth - 1][p] = f[MaxDepth][p]
  BY <1>5, <1>6, PartsBelow
<1>9. WithinOf(v, f[MaxDepth - 1]) = WithinOf(v, f[MaxDepth])
  BY <1>8, WithinSame
<1> QED BY <1>1, <1>7, <1>9 DEF Within, WithinOf

\* What is written of the pairs of a map, as a set.
Entries(pairs, within) == {<<within[pair[1]], within[pair[2]]>> : pair \in ToSet(pairs)}

\* What is written of each kind of value.
LEMMA WrittenIs ==
  ASSUME NEW v, NEW parts, NEW f
  PROVE  /\ BoolValue(v) => Written(v, f) = <<Initial(7, IF v.bool THEN Inline - 3 ELSE Inline - 4)>>
         /\ IntValue(v) => Written(v, f) = IF v.int >= 0 THEN EncodeLength(0, v.int) ELSE EncodeLength(1, -1 - v.int)
         /\ BytesValue(v) => Written(v, f) = EncodeLength(2, Len(v.bytes)) \o v.bytes
         /\ TextValue(v) => Written(v, f) = EncodeLength(3, Len(v.text)) \o v.text
         /\ IsArray(v, parts) =>
              Written(v, f) = EncodeLength(4, Len(v.array)) \o FlattenSeq([i \in DOMAIN v.array |-> f[v.array[i]]])
         /\ IsMap(v, parts) =>
              Written(v, f) = EncodeLength(5, Len(v.map)) \o FlattenSeq(Sides(InOrder(Entries(v.map, f))))
<1>1. ASSUME BoolValue(v) PROVE Written(v, f) = <<Initial(7, IF v.bool THEN Inline - 3 ELSE Inline - 4)>>
  <2>1. DOMAIN v = {"bool"}
    BY <1>1 DEF BoolValue
  <2> QED BY <2>1 DEF Written, Is
<1>2. ASSUME IntValue(v) PROVE Written(v, f) = IF v.int >= 0 THEN EncodeLength(0, v.int) ELSE EncodeLength(1, -1 - v.int)
  <2>1. DOMAIN v = {"int"}
    BY <1>2 DEF IntValue
  <2> QED BY <2>1 DEF Written, Is
<1>3. ASSUME BytesValue(v) PROVE Written(v, f) = EncodeLength(2, Len(v.bytes)) \o v.bytes
  <2>1. DOMAIN v = {"bytes"}
    BY <1>3 DEF BytesValue
  <2> QED BY <2>1 DEF Written, Is
<1>4. ASSUME TextValue(v) PROVE Written(v, f) = EncodeLength(3, Len(v.text)) \o v.text
  <2>1. DOMAIN v = {"text"}
    BY <1>4 DEF TextValue
  <2> QED BY <2>1 DEF Written, Is
<1>5. ASSUME IsArray(v, parts)
      PROVE  Written(v, f) = EncodeLength(4, Len(v.array)) \o FlattenSeq([i \in DOMAIN v.array |-> f[v.array[i]]])
  <2>1. DOMAIN v = {"array"}
    BY <1>5 DEF IsArray
  <2> QED BY <2>1 DEF Written, Is
<1>6. ASSUME IsMap(v, parts)
      PROVE  Written(v, f) = EncodeLength(5, Len(v.map)) \o FlattenSeq(Sides(InOrder(Entries(v.map, f))))
  <2>1. DOMAIN v = {"map"}
    BY <1>6 DEF IsMap
  <2> QED BY <2>1 DEF Written, Is, Entries
<1> QED BY <1>1, <1>2, <1>3, <1>4, <1>5, <1>6

\* It depends on what is written of the parts, and on nothing else that is written.
LEMMA WrittenSame ==
  ASSUME NEW d \in 0..MaxDepth, NEW v \in Nesting[d], NEW f, NEW g, \A p \in Parts(v) : f[p] = g[p]
  PROVE  Written(v, f) = Written(v, g)
<1>1. v \in Simple \/ IsArray(v, Below(d)) \/ IsMap(v, Below(d))
  BY ShapeOf
<1>2. CASE v \in Simple
  <2>1. BoolValue(v) \/ IntValue(v) \/ BytesValue(v) \/ TextValue(v)
    BY <1>2, SimpleIs
  <2> QED BY <2>1, WrittenIs
<1>3. CASE IsArray(v, Below(d))
  <2>1. [i \in DOMAIN v.array |-> f[v.array[i]]] = [i \in DOMAIN v.array |-> g[v.array[i]]]
    BY <1>3, PartsAre
  <2> QED BY <1>3, <2>1, WrittenIs
<1>4. CASE IsMap(v, Below(d))
  <2>1. Entries(v.map, f) = Entries(v.map, g)
    <3>1. ASSUME NEW pair \in ToSet(v.map) PROVE f[pair[1]] = g[pair[1]] /\ f[pair[2]] = g[pair[2]]
      <4>1. PICK i \in DOMAIN v.map : pair = v.map[i]
        BY DEF ToSet
      <4>2. pair[1] \in Parts(v) /\ pair[2] \in Parts(v)
        BY <1>4, <4>1, PartsAre
      <4> QED BY <4>2
    <3> QED BY <3>1 DEF Entries
  <2> QED BY <1>4, <2>1, WrittenIs
<1> QED BY <1>1, <1>2, <1>3, <1>4

\* What is written of each value, by depth.
LEMMA EncodedExists == \E f : f = [d \in 0..MaxDepth |-> [v \in Nesting[d] |-> Written(v, f[d - 1])]]
<1> DEFINE F(f, d) == [v \in Nesting[d] |-> Written(v, f[d - 1])]
           Has(f, k) == f = [d \in 0..k |-> F(f, d)]
           T == {k \in Nat : \E f : Has(f, k)}
<1>0. ASSUME NEW f, NEW g PROVE F(f, 0) = F(g, 0)
  <2>1. ASSUME NEW v \in Nesting[0] PROVE Written(v, f[0 - 1]) = Written(v, g[0 - 1])
    <3>1. 0 \in 0..MaxDepth
      BY LayoutIs
    <3>2. \A p \in Parts(v) : FALSE
      BY <3>1, PartsBelow
    <3> QED BY <3>1, <3>2, WrittenSame
  <2> QED BY <2>1
<1>1. 0 \in T
  <2> PICK x : x = F(<<>>, 0)
    OBVIOUS
  <2> DEFINE f == [d \in 0..0 |-> x]
  <2>1. f[0] = x
    OBVIOUS
  <2> HIDE DEF f
  <2>2. x = F(f, 0)
    BY <1>0
  <2>3. f = [d \in 0..0 |-> F(f, d)]
    <3>1. \A d \in 0..0 : d = 0
      OBVIOUS
    <3>2. f = [d \in 0..0 |-> x]
      BY DEF f
    <3>3. \A d \in 0..0 : x = F(f, d)
      BY <2>2, <3>1
    <3> HIDE DEF F
    <3> QED BY <3>2, <3>3
  <2> QED BY <2>3
<1>2. ASSUME NEW k \in T PROVE k + 1 \in T
  <2>1. PICK f : Has(f, k)
    OBVIOUS
  <2>2. k \in Nat /\ \A d \in 0..k : f[d] = F(f, d)
    BY <2>1
  <2> PICK x : x = F(f, k + 1)
    OBVIOUS
  <2>3. PICK g : Deepens(g, f, k, x)
    BY <2>2, OneDeeper
  <2>4. ASSUME NEW d \in 0..k+1 PROVE g[d] = F(g, d)
    <3>1. CASE d = k + 1
      <4>1. g[d] = x /\ g[d - 1] = f[k] /\ d - 1 = k
        BY <2>2, <2>3, <3>1, Deeper
      <4> QED BY <3>1, <4>1
    <3>2. CASE d # k + 1
      <4>1. d \in 0..k /\ g[d] = f[d] /\ (d # 0 => g[d - 1] = f[d - 1])
        BY <2>2, <2>3, <3>2, Deeper
      <4>2. f[d] = F(f, d)
        BY <2>2, <4>1
      <4>3. CASE d = 0
        BY <1>0, <4>1, <4>2, <4>3
      <4>4. CASE d # 0
        BY <4>1, <4>2, <4>4
      <4> QED BY <4>3, <4>4
    <3> QED BY <3>1, <3>2
  <2>5. Has(g, k + 1)
    BY <2>3, <2>4 DEF Deepens
  <2> HIDE DEF Has
  <2> QED BY <2>2, <2>5
<1>3. MaxDepth \in T
  <2> HIDE DEF T
  <2>1. T \in SUBSET Nat
    BY DEF T
  <2> QED BY <1>1, <1>2, <2>1, Induction, LayoutIs
<1> QED BY <1>3

\* The encodings of all values.
Encodings == Encoded[MaxDepth]

\* An encoding is what is written of a value with the encodings of its parts.
LEMMA EncodingIs == \A v \in Value : Encoding(v) = Encodings[v] /\ Encoding(v) = Written(v, Encodings)
<1> DEFINE It(f) == [d \in 0..MaxDepth |-> [v \in Nesting[d] |-> Written(v, f[d - 1])]]
           f == CHOOSE f : f = It(f)
<1>1. Encoded = f
  BY DEF Encoded
<1>2. f = It(f)
  <2>1. \E h : h = It(h)
    BY EncodedExists
  <2> HIDE DEF It
  <2> QED BY <2>1
<1> HIDE DEF f
<1>3. ASSUME NEW d \in 0..MaxDepth, NEW v \in Nesting[d] PROVE f[d][v] = Written(v, f[d - 1])
  <2>1. f[d] = [w \in Nesting[d] |-> Written(w, f[d - 1])]
    BY <1>2
  <2> QED BY <2>1
<1>4. IsLevelled(f)
  BY <1>3, WrittenSame DEF IsLevelled
<1>5. \A d \in 0..MaxDepth : \A v \in Nesting[d] : f[d][v] = f[MaxDepth][v]
  BY <1>4, LevelsAgree
<1> TAKE v \in Value
<1>6. MaxDepth \in 0..MaxDepth /\ v \in Nesting[MaxDepth]
  BY LayoutIs DEF Value
<1>7. f[MaxDepth][v] = Written(v, f[MaxDepth - 1])
  BY <1>3, <1>6
<1>8. \A p \in Parts(v) : f[MaxDepth - 1][p] = f[MaxDepth][p]
  BY <1>5, <1>6, PartsBelow
<1>9. Written(v, f[MaxDepth - 1]) = Written(v, f[MaxDepth])
  BY <1>6, <1>8, WrittenSame
<1> QED BY <1>1, <1>7, <1>9 DEF Encoding, Encodings

-----------------------------------------------------------------------------
(* The order of the keys of a map (cbor.ts) *)

\* Bytes of a sequence are numbers.
LEMMA BytesOf8 == ASSUME NEW s \in Seq(Octet) PROVE Len(s) \in Nat /\ DOMAIN s = 1..Len(s) /\ \A i \in 1..Len(s) : s[i] \in Nat
BY LenProperties, ElementOfSeq, Octets

\* Where sequences first differ.
DifferAt(a, b, i) ==
  /\ i \in Nat /\ i >= 1 /\ (i <= Len(a) \/ i <= Len(b))
  /\ \A j \in 1..(i - 1) : j <= Len(a) /\ j <= Len(b) /\ a[j] = b[j]
  /\ i <= Len(a) /\ i <= Len(b) => a[i] # b[i]

\* Two sequences that differ do so first at some place.
LEMMA FirstDifference ==
  ASSUME NEW a \in Seq(Octet), NEW b \in Seq(Octet), a # b
  PROVE  \E i : DifferAt(a, b, i)
<1> DEFINE m == Len(a)
           n == Len(b)
           T == {i \in Nat : i >= 1 /\ (i <= m \/ i <= n) /\ (i <= m /\ i <= n => a[i] # b[i])}
<1>1. m \in Nat /\ n \in Nat /\ a = [i \in 1..m |-> a[i]] /\ b = [i \in 1..n |-> b[i]]
  BY LenProperties
<1> HIDE DEF m, n
<1>2. T # {}
  <2> SUFFICES ASSUME T = {} PROVE a = b
    OBVIOUS
  <2>1. \A i \in Nat : i >= 1 /\ (i <= m \/ i <= n) => i <= m /\ i <= n /\ a[i] = b[i]
    OBVIOUS
  <2> HIDE DEF T
  <2>2. ~(m > n)
    <3> SUFFICES ASSUME m > n PROVE FALSE
      OBVIOUS
    <3>1. m >= 1 /\ m <= m /\ ~(m <= n)
      BY <1>1
    <3> QED BY <1>1, <2>1, <3>1
  <2>3. ~(n > m)
    <3> SUFFICES ASSUME n > m PROVE FALSE
      OBVIOUS
    <3>1. n >= 1 /\ n <= n /\ ~(n <= m)
      BY <1>1
    <3> QED BY <1>1, <2>1, <3>1
  <2>4. m = n
    BY <1>1, <2>2, <2>3
  <2>5. \A i \in 1..m : a[i] = b[i]
    <3> TAKE i \in 1..m
    <3>1. i \in Nat /\ i >= 1 /\ i <= m
      BY <1>1
    <3> QED BY <2>1, <3>1
  <2> QED BY <1>1, <2>4, <2>5
<1>3. PICK i \in T : \A j \in T : i <= j
  <2>1. T \in SUBSET Nat
    OBVIOUS
  <2> HIDE DEF T
  <2> QED BY <1>2, <2>1, LeastOf
<1>4. ASSUME NEW j \in 1..(i - 1) PROVE j <= m /\ j <= n /\ a[j] = b[j]
  <2>1. j \in Nat /\ j >= 1 /\ j < i
    OBVIOUS
  <2>2. j \notin T
    <3> HIDE DEF T
    <3>1. i \in Nat
      BY DEF T
    <3> QED BY <1>3, <2>1, <3>1
  <2>3. j <= m \/ j <= n
    BY <1>1, <2>1
  <2> QED BY <2>1, <2>2, <2>3
<1>5. DifferAt(a, b, i)
  BY <1>4 DEF DifferAt, m, n
<1> QED BY <1>5

\* Of two sequences one is before the other.
LEMMA BeforeTotal ==
  ASSUME NEW a \in Seq(Octet), NEW b \in Seq(Octet), a # b
  PROVE  Before(a, b) \/ Before(b, a)
<1>1. PICK i : DifferAt(a, b, i)
  BY FirstDifference
<1>2. /\ Len(a) \in Nat /\ Len(b) \in Nat /\ DOMAIN a = 1..Len(a) /\ DOMAIN b = 1..Len(b)
      /\ \A k \in 1..Len(a) : a[k] \in Nat
      /\ \A k \in 1..Len(b) : b[k] \in Nat
  BY BytesOf8
<1>3. i \in Nat /\ i >= 1 /\ (i <= Len(a) \/ i <= Len(b)) /\ (i <= Len(a) /\ i <= Len(b) => a[i] # b[i])
  BY <1>1 DEF DifferAt
<1>4. \A j \in 1..(i - 1) : j \in DOMAIN a /\ j \in DOMAIN b /\ a[j] = b[j]
  BY <1>1, <1>2 DEF DifferAt
<1>5. CASE ~(i <= Len(a))
  <2>1. i \in DOMAIN b /\ i \notin DOMAIN a
    BY <1>2, <1>3, <1>5
  <2> QED BY <1>4, <2>1 DEF Before
<1>6. CASE ~(i <= Len(b))
  <2>1. i \in DOMAIN a /\ i \notin DOMAIN b
    BY <1>2, <1>3, <1>6
  <2> QED BY <1>4, <2>1 DEF Before
<1>7. CASE i <= Len(a) /\ i <= Len(b)
  <2>1. i \in DOMAIN a /\ i \in DOMAIN b /\ (a[i] < b[i] \/ b[i] < a[i])
    BY <1>2, <1>3, <1>7
  <2> QED BY <1>4, <2>1 DEF Before
<1> QED BY <1>5, <1>6, <1>7

\* None is before itself.
LEMMA BeforeStrict == ASSUME NEW a \in Seq(Octet) PROVE ~Before(a, a)
BY BytesOf8 DEF Before

\* What is before another is before all that the other is before.
LEMMA BeforeTransitive ==
  ASSUME NEW a \in Seq(Octet), NEW b \in Seq(Octet), NEW c \in Seq(Octet), Before(a, b), Before(b, c)
  PROVE  Before(a, c)
<1>1. /\ Len(a) \in Nat /\ Len(b) \in Nat /\ Len(c) \in Nat
      /\ DOMAIN a = 1..Len(a) /\ DOMAIN b = 1..Len(b) /\ DOMAIN c = 1..Len(c)
      /\ \A k \in DOMAIN a : a[k] \in Nat
      /\ \A k \in DOMAIN b : b[k] \in Nat
      /\ \A k \in DOMAIN c : c[k] \in Nat
  BY BytesOf8
<1>2. PICK i \in DOMAIN b : /\ \A j \in 1..(i - 1) : j \in DOMAIN a /\ a[j] = b[j]
                            /\ i \in DOMAIN a => a[i] < b[i]
  BY DEF Before
<1>3. PICK k \in DOMAIN c : /\ \A j \in 1..(k - 1) : j \in DOMAIN b /\ b[j] = c[j]
                            /\ k \in DOMAIN b => b[k] < c[k]
  BY DEF Before
<1>4. i \in Nat /\ k \in Nat /\ i >= 1 /\ k >= 1 /\ i <= Len(b) /\ k <= Len(c)
  BY <1>1
<1>5. CASE i < k
  <2>1. i \in DOMAIN c /\ i \in 1..(k - 1)
    BY <1>1, <1>4, <1>5
  <2>2. b[i] = c[i]
    BY <1>3, <2>1
  <2>3. \A j \in 1..(i - 1) : j \in DOMAIN a /\ a[j] = c[j]
    <3> TAKE j \in 1..(i - 1)
    <3>1. j \in 1..(k - 1)
      BY <1>4, <1>5
    <3> QED BY <1>2, <1>3, <3>1
  <2> QED BY <1>2, <2>1, <2>2, <2>3 DEF Before
<1>6. CASE ~(i < k)
  <2>1. \A j \in 1..(k - 1) : j \in DOMAIN a /\ a[j] = c[j]
    <3> TAKE j \in 1..(k - 1)
    <3>1. j \in 1..(i - 1)
      BY <1>4, <1>6
    <3> QED BY <1>2, <1>3, <3>1
  <2>2. k \in DOMAIN b
    BY <1>1, <1>4, <1>6
  <2>3. k \in DOMAIN a => a[k] < c[k]
    <3> SUFFICES ASSUME k \in DOMAIN a PROVE a[k] < c[k]
      OBVIOUS
    <3>1. b[k] < c[k] /\ a[k] \in Nat /\ b[k] \in Nat /\ c[k] \in Nat
      BY <1>1, <1>3, <2>2
    <3>2. a[k] <= b[k]
      <4>1. CASE k = i
        BY <1>2, <3>1, <4>1
      <4>2. CASE k # i
        <5>1. k \in 1..(i - 1)
          BY <1>4, <1>6, <4>2
        <5> QED BY <1>2, <3>1, <5>1
      <4> QED BY <4>1, <4>2
    <3> QED BY <3>1, <3>2
  <2> QED BY <2>1, <2>3 DEF Before
<1> QED BY <1>5, <1>6

\* Entries with keys that are bytes, each of its own.
Keyed(E) ==
  /\ IsFiniteSet(E) /\ \A e \in E : e[1] \in Seq(Octet)
  /\ \A e, x \in E : e[1] = x[1] => e = x
\* The entries before one of them, and how many they are.
Earlier(E, e) == {x \in E : Before(x[1], e[1])}
Rank(E, e) == Cardinality(Earlier(E, e))

\* Of two entries the one with the later key has more of them before it.
LEMMA RankGrows ==
  ASSUME NEW E, Keyed(E), NEW x \in E, NEW e \in E, Before(x[1], e[1])
  PROVE  Rank(E, x) < Rank(E, e) /\ Rank(E, x) \in Nat /\ Rank(E, e) \in Nat
<1> DEFINE X == Earlier(E, x)
           Y == Earlier(E, e)
<1>1. IsFiniteSet(E) /\ \A y \in E : y[1] \in Seq(Octet)
  BY DEF Keyed
<1>2. x \notin X /\ X \cup {x} \subseteq Y
  BY <1>1, BeforeStrict, BeforeTransitive DEF Earlier
<1>3. X \in SUBSET E /\ Y \in SUBSET E
  BY DEF Earlier
<1> HIDE DEF X, Y
<1>4. IsFiniteSet(X) /\ IsFiniteSet(Y)
  BY <1>1, <1>3, FS_Subset
<1>5. Cardinality(X \cup {x}) = Cardinality(X) + 1 /\ Cardinality(X) \in Nat /\ Cardinality(Y) \in Nat
  BY <1>2, <1>4, FS_AddElement, FS_CardinalityType
<1>6. Cardinality(X \cup {x}) <= Cardinality(Y)
  BY <1>2, <1>4, FS_Subset
<1> QED BY <1>5, <1>6 DEF Rank, X, Y

\* Fewer entries come before one than there are.
LEMMA RankBelow ==
  ASSUME NEW E, Keyed(E), NEW e \in E
  PROVE  Cardinality(E) \in Nat /\ Rank(E, e) \in 0..(Cardinality(E) - 1)
<1> DEFINE Y == Earlier(E, e)
<1>1. IsFiniteSet(E) /\ e[1] \in Seq(Octet)
  BY DEF Keyed
<1>2. e \notin Y /\ Y \in SUBSET E
  BY <1>1, BeforeStrict DEF Earlier
<1> HIDE DEF Y
<1>3. IsFiniteSet(Y) /\ Y \cup {e} \in SUBSET E
  BY <1>1, <1>2, FS_Subset
<1>4. Cardinality(Y \cup {e}) = Cardinality(Y) + 1 /\ Cardinality(Y) \in Nat /\ Cardinality(E) \in Nat
  BY <1>1, <1>2, <1>3, FS_AddElement, FS_CardinalityType
<1>5. Cardinality(Y \cup {e}) <= Cardinality(E)
  BY <1>1, <1>3, FS_Subset
<1> QED BY <1>4, <1>5 DEF Rank, Y

\* No two entries have as many before them.
LEMMA RanksDiffer ==
  ASSUME NEW E, Keyed(E), NEW x \in E, NEW e \in E, Rank(E, x) = Rank(E, e)
  PROVE  x = e
<1>1. x[1] \in Seq(Octet) /\ e[1] \in Seq(Octet) /\ (x[1] = e[1] => x = e)
  BY DEF Keyed
<1>2. ASSUME Before(x[1], e[1]) PROVE FALSE
  BY <1>2, RankGrows
<1>3. ASSUME Before(e[1], x[1]) PROVE FALSE
  BY <1>3, RankGrows
<1> QED BY <1>1, <1>2, <1>3, BeforeTotal

\* Every rank up to the number of entries is the rank of one.
LEMMA RankOfSome ==
  ASSUME NEW E, Keyed(E), NEW i \in 1..Cardinality(E)
  PROVE  \E e \in E : Rank(E, e) = i - 1
<1> DEFINE n == Cardinality(E)
           T == 0..(n - 1)
           f == [e \in E |-> Rank(E, e)]
<1>1. n \in Nat /\ i >= 1 /\ i <= n
  BY FS_CardinalityType DEF Keyed
<1>2. f \in Injection(E, T)
  <2>1. \A e \in E : f[e] = Rank(E, e) /\ Rank(E, e) \in T
    BY RankBelow
  <2>2. f \in [E -> T]
    BY <2>1
  <2>3. \A e, x \in E : f[e] = f[x] => e = x
    BY <2>1, RanksDiffer
  <2> HIDE DEF f, T
  <2> QED BY <2>2, <2>3 DEF Injection, IsInjective
<1>3. IsFiniteSet(T) /\ Cardinality(T) = n
  <2> HIDE DEF n
  <2>1. 0 \in Int /\ n - 1 \in Int /\ ~(0 > n - 1) /\ (n - 1) - 0 + 1 = n
    BY <1>1
  <2> QED BY <2>1, FS_Interval
<1>4. f \in Surjection(E, T)
  <2> HIDE DEF f, T
  <2> QED BY <1>2, <1>3, FS_Injection
<1>5. i - 1 \in T
  BY <1>1
<1>6. \E e \in E : f[e] = i - 1
  <2> HIDE DEF f, T
  <2> QED BY <1>4, <1>5 DEF Surjection
<1> QED BY <1>6

\* Entries in a row, by their keys.
Row(h, n) == {h[i] : i \in 1..n}
AreSorted(g, n) == \A i, j \in 1..n : i < j => Before(g[i][1], g[j][1])

\* The entries of a set in order are all of them, sorted.
LEMMA InOrderIs ==
  ASSUME NEW E, Keyed(E), NEW n, n = Cardinality(E), NEW g, g = InOrder(E)
  PROVE  /\ n \in Nat /\ g \in [1..n -> E] /\ AreSorted(g, n)
         /\ E = Row(g, n)
<1>1. n \in Nat
  BY FS_CardinalityType DEF Keyed
<1>2. g = [i \in 1..n |-> CHOOSE e \in E : Rank(E, e) = i - 1]
  BY DEF InOrder, Rank, Earlier
<1>3. ASSUME NEW i \in 1..n PROVE g[i] \in E /\ Rank(E, g[i]) = i - 1
  <2>1. \E e \in E : Rank(E, e) = i - 1
    BY RankOfSome
  <2> QED BY <1>2, <2>1
<1>4. g \in [1..n -> E]
  BY <1>2, <1>3
<1>5. ASSUME NEW i \in 1..n, NEW j \in 1..n, i < j PROVE Before(g[i][1], g[j][1])
  <2>1. g[i][1] \in Seq(Octet) /\ g[j][1] \in Seq(Octet) /\ g[i] \in E /\ g[j] \in E
    BY <1>3 DEF Keyed
  <2>2. Rank(E, g[i]) = i - 1 /\ Rank(E, g[j]) = j - 1 /\ i - 1 # j - 1 /\ ~(j - 1 < i - 1)
    BY <1>3, <1>5
  <2>3. g[i][1] # g[j][1]
    BY <2>1, <2>2 DEF Keyed
  <2>4. ~Before(g[j][1], g[i][1])
    BY <2>1, <2>2, RankGrows
  <2> QED BY <2>1, <2>3, <2>4, BeforeTotal
<1>6. ASSUME NEW e \in E PROVE \E i \in 1..n : g[i] = e
  <2> DEFINE i == Rank(E, e) + 1
  <2>1. i \in 1..n /\ i - 1 = Rank(E, e)
    BY <1>1, RankBelow
  <2> HIDE DEF i
  <2>2. g[i] \in E /\ Rank(E, g[i]) = Rank(E, e)
    BY <1>3, <2>1
  <2> QED BY <2>1, <2>2, RanksDiffer
<1>7. E = Row(g, n)
  BY <1>3, <1>6 DEF Row
<1> QED BY <1>1, <1>4, <1>5, <1>7 DEF AreSorted

\* Entries in a row with different keys are as many in a set.
HasKeys(h, n) == (\A i \in 1..n : h[i][1] \in Seq(Octet)) /\ \A i, j \in 1..n : i # j => h[i][1] # h[j][1]

\* A row of entries with different keys is a set of as many, each with its own key.
LEMMA KeyedRow ==
  ASSUME NEW n \in Nat, NEW h, HasKeys(h, n), NEW E, E = Row(h, n)
  PROVE  Keyed(E) /\ Cardinality(E) = n
<1>0. E = {h[i] : i \in 1..n} /\ (\A i \in 1..n : h[i][1] \in Seq(Octet)) /\ \A i, j \in 1..n : i # j => h[i][1] # h[j][1]
  BY DEF Row, HasKeys
<1> DEFINE f == [i \in 1..n |-> h[i]]
<1>1. f \in Bijection(1..n, E)
  <2>1. f \in [1..n -> E]
    BY <1>0
  <2>2. \A i, j \in 1..n : f[i] = f[j] => i = j
    BY <1>0
  <2>3. \A e \in E : \E i \in 1..n : f[i] = e
    BY <1>0
  <2> HIDE DEF f
  <2> QED BY <2>1, <2>2, <2>3 DEF Bijection, Injection, IsInjective, Surjection
<1>2. ExistsBijection(1..n, E)
  <2> HIDE DEF f
  <2> QED BY <1>1 DEF ExistsBijection
<1>3. IsFiniteSet(1..n) /\ Cardinality(1..n) = n
  BY FS_Interval
<1>4. IsFiniteSet(E) /\ Cardinality(E) = n
  BY <1>2, <1>3, FS_Bijection
<1>5. \A e, x \in E : e[1] = x[1] => e = x
  BY <1>0
<1>6. \A e \in E : e[1] \in Seq(Octet)
  BY <1>0
<1> QED BY <1>4, <1>5, <1>6 DEF Keyed

\* A sorted row of entries is the one that they make in order.
LEMMA SortedIs ==
  ASSUME NEW n \in Nat, NEW h, h = [i \in 1..n |-> h[i]], \A i \in 1..n : h[i][1] \in Seq(Octet), AreSorted(h, n),
         NEW E, E = Row(h, n)
  PROVE  InOrder(E) = h
<1>0. E = {h[i] : i \in 1..n}
  BY DEF Row
<1>1. ASSUME NEW i \in 1..n, NEW j \in 1..n, i # j PROVE h[i][1] # h[j][1]
  <2>1. Before(h[i][1], h[j][1]) \/ Before(h[j][1], h[i][1])
    <3>1. i < j \/ j < i
      BY <1>1
    <3> QED BY <3>1 DEF AreSorted
  <2> QED BY <2>1, BeforeStrict
<1>2. Keyed(E) /\ Cardinality(E) = n
  <2>1. HasKeys(h, n)
    BY <1>1 DEF HasKeys
  <2> QED BY <2>1, KeyedRow
<1>3. ASSUME NEW i \in 1..n PROVE Rank(E, h[i]) = i - 1
  <2> DEFINE X == {h[j] : j \in 1..(i - 1)}
  <2>1. i - 1 \in Nat /\ \A j \in 1..(i - 1) : j \in 1..n /\ j < i
    OBVIOUS
  <2>2. Earlier(E, h[i]) = X
    <3>1. ASSUME NEW x \in X PROVE x \in Earlier(E, h[i])
      <4>1. PICK j \in 1..(i - 1) : x = h[j]
        OBVIOUS
      <4> QED BY <1>0, <2>1, <4>1 DEF Earlier, AreSorted
    <3>2. ASSUME NEW x \in Earlier(E, h[i]) PROVE x \in X
      <4>1. PICK j \in 1..n : x = h[j] /\ Before(h[j][1], h[i][1])
        BY <1>0 DEF Earlier
      <4>2. ~(i < j)
        <5> SUFFICES ASSUME i < j PROVE FALSE
          OBVIOUS
        <5>1. Before(h[i][1], h[j][1])
          BY DEF AreSorted
        <5>2. Before(h[i][1], h[i][1])
          BY <4>1, <5>1, BeforeTransitive
        <5> QED BY <5>2, BeforeStrict
      <4>3. j # i
        BY <4>1, BeforeStrict
      <4>4. j \in 1..(i - 1)
        BY <4>2, <4>3
      <4> QED BY <4>1, <4>4
    <3> HIDE DEF X
    <3> QED BY <3>1, <3>2
  <2>3. Cardinality(X) = i - 1
    <3> PICK m \in Nat : m = i - 1
      BY <2>1
    <3>0. \A j \in 1..m : j \in 1..n
      BY <2>1
    <3>1. \A j \in 1..m : h[j][1] \in Seq(Octet)
      BY <3>0
    <3>2. \A j, k \in 1..m : j # k => h[j][1] # h[k][1]
      BY <1>1, <3>0
    <3>3. X = Row(h, m)
      BY DEF Row
    <3>4. HasKeys(h, m)
      BY <3>1, <3>2 DEF HasKeys
    <3> HIDE DEF X
    <3> QED BY <3>3, <3>4, KeyedRow
  <2> QED BY <2>2, <2>3 DEF Rank
<1>4. PICK g : g = InOrder(E)
  OBVIOUS
<1>5. g = [i \in 1..n |-> CHOOSE e \in E : Rank(E, e) = i - 1]
  BY <1>2, <1>4 DEF InOrder, Rank, Earlier
<1>6. ASSUME NEW i \in 1..n PROVE g[i] = h[i]
  <2>1. h[i] \in E /\ Rank(E, h[i]) = i - 1
    BY <1>0, <1>3
  <2>2. g[i] = CHOOSE e \in E : Rank(E, e) = i - 1
    BY <1>5
  <2>3. g[i] \in E /\ Rank(E, g[i]) = i - 1
    BY <2>1, <2>2
  <2> QED BY <1>2, <2>1, <2>3, RanksDiffer
<1>7. g = [i \in 1..n |-> g[i]]
  <2> DEFINE c(i) == CHOOSE e \in E : Rank(E, e) = i - 1
  <2>1. g = [i \in 1..n |-> c(i)]
    BY <1>5
  <2> HIDE DEF c
  <2> QED BY <2>1
<1> QED BY <1>4, <1>6, <1>7

-----------------------------------------------------------------------------
(* Sequences one behind the other (cbor.ts) *)

\* Where each of them starts and the last one ends.
IsTrail(p, at, ss, n) == p[0] = at /\ \A k \in 1..n : p[k] = p[k - 1] + Len(ss[k])
LieAlong(ss, input, p, n) == \A k \in 1..n : LiesAt(ss[k], input, p[k - 1])

\* Such places there are.
LEMMA TrailExists ==
  ASSUME NEW V, NEW ss \in Seq(Seq(V)), NEW n, n = Len(ss), NEW at \in Nat
  PROVE  \E p \in [0..n -> Nat] : IsTrail(p, at, ss, n)
<1>1. n \in Nat /\ \A k \in 1..n : ss[k] \in Seq(V) /\ Len(ss[k]) \in Nat
  BY LenProperties, ElementOfSeq
<1> DEFINE G == [q \in Nat \X (1..n) |-> q[1] + Len(ss[q[2]])]
<1>2. IsStep(G, n, Nat)
  BY <1>1 DEF IsStep
<1>3. PICK p \in [0..n -> Nat] : IsChain(p, at, n, G)
  <2> HIDE DEF G
  <2> QED BY <1>1, <1>2, ChainExists
<1>4. ASSUME NEW k \in 1..n PROVE p[k] = p[k - 1] + Len(ss[k])
  <2>1. k - 1 \in 0..n
    BY <1>1
  <2>2. p[k] = G[<<p[k - 1], k>>] /\ p[k - 1] \in Nat
    BY <1>3, <2>1 DEF IsChain
  <2> QED BY <2>2
<1> QED BY <1>3, <1>4 DEF IsTrail, IsChain

\* Three numbers add up in either order.
LEMMA SumOfThree == \A a, b, c \in Nat : (a + b) + c = a + (b + c)
OBVIOUS

\* Joined, they lie where each of them lies.
LEMMA TrailLies ==
  ASSUME NEW V, NEW ss \in Seq(Seq(V)), NEW n, n = Len(ss), NEW input \in Seq(V), NEW at \in Nat, at >= 1,
         at - 1 <= Len(input), NEW p, IsTrail(p, at, ss, n)
  PROVE  /\ FlattenSeq(ss) \in Seq(V) /\ p[n] = at + Len(FlattenSeq(ss))
         /\ LiesAt(FlattenSeq(ss), input, at) <=> LieAlong(ss, input, p, n)
<1>1. n \in Nat /\ \A k \in 1..n : ss[k] \in Seq(V)
  BY LenProperties, ElementOfSeq
<1>2. PICK h \in [0..n -> Seq(V)] : AreJoined(ss, n, h) /\ FlattenSeq(ss) = h[n]
  BY <1>1, FlattenIs DEF HasJoined
<1> DEFINE Lie(k) == \A j \in 1..k : LiesAt(ss[j], input, p[j - 1])
           T == {k \in Nat : k <= n => p[k] = at + Len(h[k]) /\ (LiesAt(h[k], input, at) <=> Lie(k))}
<1>3. 0 \in T
  <2>1. h[0] = <<>> /\ Len(<<>>) = 0 /\ p[0] = at
    BY <1>2 DEF AreJoined, IsTrail
  <2>2. LiesAt(<<>>, input, at) /\ Lie(0)
    BY LenProperties DEF LiesAt
  <2>3. p[0] = at + Len(h[0])
    BY <2>1
  <2> HIDE DEF Lie
  <2>4. p[0] = at + Len(h[0]) /\ (LiesAt(h[0], input, at) <=> Lie(0))
    BY <2>1, <2>2, <2>3
  <2> QED BY <2>4
<1>4. ASSUME NEW k \in T PROVE k + 1 \in T
  <2> SUFFICES ASSUME k + 1 <= n
               PROVE  p[k + 1] = at + Len(h[k + 1]) /\ (LiesAt(h[k + 1], input, at) <=> Lie(k + 1))
    OBVIOUS
  <2>1. k \in Nat /\ k \in 0..n /\ k + 1 \in 1..n /\ (k + 1) - 1 = k
    BY <1>1
  <2>2. p[k] = at + Len(h[k]) /\ (LiesAt(h[k], input, at) <=> Lie(k))
    BY <2>1
  <2>3. h[k + 1] = h[k] \o ss[k + 1] /\ p[k + 1] = p[k] + Len(ss[k + 1])
    BY <1>2, <2>1 DEF AreJoined, IsTrail
  <2>4. h[k] \in Seq(V) /\ ss[k + 1] \in Seq(V) /\ Len(h[k]) \in Nat /\ Len(ss[k + 1]) \in Nat
    BY <1>1, <2>1, LenProperties
  <2>5. Len(h[k] \o ss[k + 1]) = Len(h[k]) + Len(ss[k + 1])
    BY <2>4, ConcatProperties
  <2>6. LiesAt(h[k + 1], input, at) <=> LiesAt(h[k], input, at) /\ LiesAt(ss[k + 1], input, p[k])
    BY <2>2, <2>3, <2>4, BothLie
  <2>7. Lie(k + 1) <=> Lie(k) /\ LiesAt(ss[k + 1], input, p[k])
    <3>1. \A j \in 1..k : j \in 1..(k + 1)
      BY <2>1
    <3>2. \A j \in 1..(k + 1) : j \in 1..k \/ j = k + 1
      BY <2>1
    <3>3. k + 1 \in 1..(k + 1)
      BY <2>1
    <3> QED BY <2>1, <3>1, <3>2, <3>3
  <2>8. p[k + 1] = at + Len(h[k + 1])
    <3>1. Len(h[k + 1]) = Len(h[k]) + Len(ss[k + 1])
      BY <2>3, <2>5
    <3> HIDE DEF T
    <3> PICK x \in Nat, y \in Nat : x = Len(h[k]) /\ y = Len(ss[k + 1])
      BY <2>4
    <3>2. p[k + 1] = (at + x) + y /\ Len(h[k + 1]) = x + y
      BY <2>2, <2>3, <3>1
    <3>3. (at + x) + y = at + (x + y)
      BY SumOfThree
    <3> QED BY <3>2, <3>3
  <2> HIDE DEF Lie
  <2> QED BY <2>2, <2>6, <2>7, <2>8
<1>5. n \in T
  <2> HIDE DEF T
  <2>1. T \in SUBSET Nat
    BY DEF T
  <2> QED BY <1>1, <1>3, <1>4, <2>1, Induction
<1>6. n \in 0..n
  BY <1>1
<1> QED BY <1>1, <1>2, <1>5, <1>6 DEF LieAlong

\* Sequences that are not empty take at least so many places.
LEMMA TrailGrows ==
  ASSUME NEW at \in Nat, NEW n \in Nat, NEW ss, \A k \in 1..n : Len(ss[k]) \in Nat /\ Len(ss[k]) >= 1,
         NEW p, IsTrail(p, at, ss, n)
  PROVE  \A k \in 0..n : p[k] \in Nat /\ p[k] >= at + k
<1> DEFINE T == {k \in Nat : k <= n => p[k] \in Nat /\ p[k] >= at + k}
<1>1. 0 \in T
  BY DEF IsTrail
<1>2. ASSUME NEW k \in T PROVE k + 1 \in T
  <2> SUFFICES ASSUME k + 1 <= n PROVE p[k + 1] \in Nat /\ p[k + 1] >= at + (k + 1)
    OBVIOUS
  <2>1. k + 1 \in 1..n /\ (k + 1) - 1 = k /\ p[k] \in Nat /\ p[k] >= at + k
    OBVIOUS
  <2>2. p[k + 1] = p[k] + Len(ss[k + 1]) /\ Len(ss[k + 1]) \in Nat /\ Len(ss[k + 1]) >= 1
    BY <2>1 DEF IsTrail
  <2> HIDE DEF T
  <2>3. k \in Nat
    BY DEF T
  <2> QED BY <2>1, <2>2, <2>3
<1> HIDE DEF T
<1>3. T \in SUBSET Nat
  BY DEF T
<1>4. T = Nat
  BY <1>1, <1>2, <1>3, Induction
<1> QED BY <1>4 DEF T

\* The sides of pairs, two by two.
LEMMA SidesAre ==
  ASSUME NEW pairs, NEW n \in Nat, n = Len(pairs)
  PROVE  /\ DOMAIN Sides(pairs) = 1..(2 * n)
         /\ \A i \in 1..n : /\ 2 * i - 1 \in 1..(2 * n) /\ Sides(pairs)[2 * i - 1] = pairs[i][1]
                            /\ 2 * i \in 1..(2 * n) /\ Sides(pairs)[2 * i] = pairs[i][2]
<1>1. Sides(pairs) = [i \in 1..(2 * n) |-> pairs[(i + 1) \div 2][2 - (i % 2)]]
  BY DEF Sides
<1>2. ASSUME NEW i \in 1..n
      PROVE  /\ 2 * i - 1 \in 1..(2 * n) /\ ((2 * i - 1) + 1) \div 2 = i /\ 2 - ((2 * i - 1) % 2) = 1
             /\ 2 * i \in 1..(2 * n) /\ ((2 * i) + 1) \div 2 = i /\ 2 - ((2 * i) % 2) = 2
  BY SMT
<1>3. ASSUME NEW i \in 1..n PROVE Sides(pairs)[2 * i - 1] = pairs[i][1]
  BY <1>1, <1>2
<1>4. ASSUME NEW i \in 1..n PROVE Sides(pairs)[2 * i] = pairs[i][2]
  BY <1>1, <1>2
<1>5. DOMAIN Sides(pairs) = 1..(2 * n)
  BY <1>1
<1> QED BY <1>2, <1>3, <1>4, <1>5

\* Every place among them is the first or the second of a pair.
LEMMA SideOf ==
  ASSUME NEW n \in Nat, NEW k \in 1..(2 * n)
  PROVE  \E i \in 1..n : k = 2 * i - 1 \/ k = 2 * i
<1>1. (k + 1) \div 2 \in 1..n /\ (k = 2 * ((k + 1) \div 2) - 1 \/ k = 2 * ((k + 1) \div 2))
  BY SMT
<1> QED BY <1>1

\* The sides of a row of pairs are twice as many.
LEMMA SidesType ==
  ASSUME NEW V, NEW n \in Nat, NEW pairs, n = Len(pairs), \A i \in 1..n : pairs[i][1] \in V /\ pairs[i][2] \in V
  PROVE  Sides(pairs) \in Seq(V) /\ Len(Sides(pairs)) = 2 * n
<1> DEFINE s == Sides(pairs)
           m == 2 * n
<1>1. s = [i \in 1..m |-> pairs[(i + 1) \div 2][2 - (i % 2)]] /\ m \in Nat
  BY DEF Sides
<1>2. s = [i \in 1..m |-> s[i]]
  BY <1>1
<1>3. \A k \in 1..m : s[k] \in V
  <2> TAKE k \in 1..m
  <2>1. PICK i \in 1..n : k = 2 * i - 1 \/ k = 2 * i
    BY SideOf
  <2>2. s[2 * i - 1] = pairs[i][1] /\ s[2 * i] = pairs[i][2]
    BY SidesAre
  <2> HIDE DEF s, m
  <2> QED BY <2>1, <2>2
<1> HIDE DEF s, m
<1>4. s \in [1..m -> V]
  BY <1>2, <1>3
<1>5. s \in Seq(V) /\ Len(s) = m
  BY <1>1, <1>4, SeqDef, LenProperties
<1> QED BY <1>5 DEF s, m

\* And every row of sides of an even length is one of pairs.
AreSides(sides, n, V) == n \in Nat /\ sides \in Seq(V) /\ Len(sides) = 2 * n
ArePairs(pairs, sides, n, V) ==
  /\ pairs \in Seq(V \X V) /\ Len(pairs) = n /\ DOMAIN pairs = 1..n
  /\ \A i \in 1..n : pairs[i] = <<sides[2 * i - 1], sides[2 * i]>>
  /\ \A i \in 1..n : pairs[i][1] = sides[2 * i - 1] /\ pairs[i][2] = sides[2 * i]
  /\ Sides(pairs) = sides

\* A row of sides makes the pairs it was made of.
LEMMA PairsAre ==
  ASSUME NEW V, NEW n, NEW sides, AreSides(sides, n, V)
  PROVE  ArePairs(Pairs(sides), sides, n, V)
<1>0. n \in Nat /\ sides \in Seq(V) /\ Len(sides) = 2 * n
  BY DEF AreSides
<1> USE <1>0
<1> DEFINE q == Pairs(sides)
<1>1. (2 * n) \div 2 = n
  BY SMT
<1>2. q = [i \in 1..n |-> <<sides[2 * i - 1], sides[2 * i]>>]
  BY <1>1 DEF Pairs
<1>3. \A i \in 1..n : sides[2 * i - 1] \in V /\ sides[2 * i] \in V
  <2> TAKE i \in 1..n
  <2>1. 2 * i - 1 \in 1..Len(sides) /\ 2 * i \in 1..Len(sides)
    OBVIOUS
  <2> QED BY <2>1, ElementOfSeq
<1>4. q \in [1..n -> V \X V]
  BY <1>2, <1>3
<1>5. \A i \in 1..n : q[i] = <<sides[2 * i - 1], sides[2 * i]>>
  BY <1>2
<1> HIDE DEF q
<1>6. q \in Seq(V \X V) /\ Len(q) = n
  BY <1>4, SeqDef, LenProperties
<1>7. Sides(q) = sides
  <2> DEFINE s == Sides(q)
             m == 2 * n
  <2>1. s \in Seq(V) /\ Len(s) = m
    <3>1. \A i \in 1..n : q[i][1] \in V /\ q[i][2] \in V
      BY <1>3, <1>5
    <3> QED BY <1>6, <3>1, SidesType
  <2>2. \A k \in 1..m : s[k] = sides[k]
    <3> TAKE k \in 1..m
    <3>1. PICK i \in 1..n : k = 2 * i - 1 \/ k = 2 * i
      BY SideOf
    <3>2. s[2 * i - 1] = q[i][1] /\ s[2 * i] = q[i][2]
      BY <1>6, SidesAre
    <3>3. q[i][1] = sides[2 * i - 1] /\ q[i][2] = sides[2 * i]
      BY <1>5
    <3> HIDE DEF s, m
    <3> QED BY <3>1, <3>2, <3>3
  <2> HIDE DEF s
  <2>3. s = [k \in 1..m |-> s[k]] /\ sides = [k \in 1..m |-> sides[k]]
    BY <2>1, LenProperties
  <2>4. s = sides
    BY <2>2, <2>3
  <2> QED BY <2>4 DEF s
<1>8. DOMAIN q = 1..n
  BY <1>4
<1> QED BY <1>5, <1>6, <1>7, <1>8 DEF q, ArePairs

-----------------------------------------------------------------------------
(* Encodings (cbor.ts) *)

\* The encodings of values in a row, and of pairs of them.
Items(values) == [i \in DOMAIN values |-> Encoding(values[i])]
EntryRow(pairs) == [i \in 1..Len(pairs) |-> <<Encoding(pairs[i][1]), Encoding(pairs[i][2])>>]

\* What the encoding of each kind of value is.
LEMMA EncodingOf ==
  ASSUME NEW v \in Value
  PROVE  /\ BoolValue(v) => Encoding(v) = <<Initial(7, IF v.bool THEN Inline - 3 ELSE Inline - 4)>>
         /\ IntValue(v) => Encoding(v) = IF v.int >= 0 THEN EncodeLength(0, v.int) ELSE EncodeLength(1, -1 - v.int)
         /\ BytesValue(v) => Encoding(v) = EncodeLength(2, Len(v.bytes)) \o v.bytes
         /\ TextValue(v) => Encoding(v) = EncodeLength(3, Len(v.text)) \o v.text
         /\ IsArray(v, Value) => Encoding(v) = EncodeLength(4, Len(v.array)) \o FlattenSeq(Items(v.array))
         /\ IsMap(v, Value) =>
              Encoding(v) = EncodeLength(5, Len(v.map)) \o FlattenSeq(Sides(InOrder(Row(EntryRow(v.map), Len(v.map)))))
<1>1. Encoding(v) = Written(v, Encodings)
  BY EncodingIs
<1>2. ASSUME IsArray(v, Value) PROVE [i \in DOMAIN v.array |-> Encodings[v.array[i]]] = Items(v.array)
  <2>1. \A i \in DOMAIN v.array : Encodings[v.array[i]] = Encoding(v.array[i])
    <3> TAKE i \in DOMAIN v.array
    <3>1. v.array[i] \in Value
      BY <1>2, PartsAre, ValueIs
    <3> QED BY <3>1, EncodingIs
  <2> QED BY <2>1 DEF Items
<1>3. ASSUME IsMap(v, Value) PROVE Entries(v.map, Encodings) = Row(EntryRow(v.map), Len(v.map))
  <2> PICK s : s = v.map
    OBVIOUS
  <2> PICK h : h = EntryRow(s)
    OBVIOUS
  <2>0. DOMAIN s = 1..Len(s)
    BY <1>3, LenProperties DEF IsMap
  <2>1. ASSUME NEW i \in DOMAIN s PROVE h[i] = <<Encodings[s[i][1]], Encodings[s[i][2]]>>
    <3>1. s[i][1] \in Value /\ s[i][2] \in Value
      BY <1>3, PartsAre, ValueIs
    <3>2. h[i] = <<Encoding(s[i][1]), Encoding(s[i][2])>>
      BY <2>0 DEF EntryRow
    <3> QED BY <3>1, <3>2, EncodingIs
  <2>2. Entries(s, Encodings) = {<<Encodings[s[i][1]], Encodings[s[i][2]]>> : i \in DOMAIN s}
    BY DEF Entries, ToSet
  <2>3. Entries(s, Encodings) = {h[i] : i \in DOMAIN s}
    BY <2>1, <2>2
  <2> QED BY <2>0, <2>3 DEF Row
<1>4. BoolValue(v) => Encoding(v) = <<Initial(7, IF v.bool THEN Inline - 3 ELSE Inline - 4)>>
  BY <1>1, WrittenIs
<1>5. IntValue(v) => Encoding(v) = IF v.int >= 0 THEN EncodeLength(0, v.int) ELSE EncodeLength(1, -1 - v.int)
  BY <1>1, WrittenIs
<1>6. BytesValue(v) => Encoding(v) = EncodeLength(2, Len(v.bytes)) \o v.bytes
  BY <1>1, WrittenIs
<1>7. TextValue(v) => Encoding(v) = EncodeLength(3, Len(v.text)) \o v.text
  BY <1>1, WrittenIs
<1>8. ASSUME IsArray(v, Value) PROVE Encoding(v) = EncodeLength(4, Len(v.array)) \o FlattenSeq(Items(v.array))
  <2>1. Written(v, Encodings) = EncodeLength(4, Len(v.array)) \o FlattenSeq([i \in DOMAIN v.array |-> Encodings[v.array[i]]])
    BY <1>8, WrittenIs
  <2> QED BY <1>1, <1>2, <1>8, <2>1
<1>9. ASSUME IsMap(v, Value)
      PROVE  Encoding(v) = EncodeLength(5, Len(v.map)) \o FlattenSeq(Sides(InOrder(Row(EntryRow(v.map), Len(v.map)))))
  <2>1. Written(v, Encodings) = EncodeLength(5, Len(v.map)) \o FlattenSeq(Sides(InOrder(Entries(v.map, Encodings))))
    BY <1>9, WrittenIs
  <2> QED BY <1>1, <1>3, <1>9, <2>1
<1> QED BY <1>4, <1>5, <1>6, <1>7, <1>8, <1>9

\* A value can be encoded when it is within the limits and its parts can be encoded.
LEMMA EncodableIs == \A v \in Value : Encodable(v) <=> WithinLimits(v) /\ \A p \in Parts(v) : Encodable(p)
<1> TAKE v \in Value
<1>1. Within(v) = {v} \cup UNION {Within(p) : p \in Parts(v)}
  BY WithinIs
<1>2. \A p \in Parts(v) : p \in Value
  BY ValueIs
<1>3. \A x : x \in Within(v) <=> x = v \/ \E p \in Parts(v) : x \in Within(p)
  BY <1>1
<1> QED BY <1>2, <1>3 DEF Encodable, Value

\* It is ordered when its entries are and its parts are.
InKeyOrder(v) ==
  Is(v, "map") => \A i, j \in DOMAIN v.map : i < j => ~Before(Encoding(v.map[j][1]), Encoding(v.map[i][1]))

\* The maps in a value are in order where its own entries are and those of its parts.
LEMMA OrderedIs == \A v \in Value : Ordered(v) <=> InKeyOrder(v) /\ \A p \in Parts(v) : Ordered(p)
<1> TAKE v \in Value
<1>1. Within(v) = {v} \cup UNION {Within(p) : p \in Parts(v)}
  BY WithinIs
<1>2. \A x : x \in Within(v) <=> x = v \/ \E p \in Parts(v) : x \in Within(p)
  BY <1>1
<1>3. \A w : Ordered(w) <=> \A x \in Within(w) : InKeyOrder(x)
  BY DEF Ordered, InKeyOrder
<1> QED BY <1>2, <1>3

\* And no mark is in front of anything in it when none is in front of it or of its parts.
Bare(v) == Is(v, "text") => v.text = <<>> \/ v.text[1] # Mark

\* A value is unmarked where its own text is and its parts are.
LEMMA UnmarkedIs == \A v \in Value : Unmarked(v) <=> Bare(v) /\ \A p \in Parts(v) : Unmarked(p)
<1> TAKE v \in Value
<1>1. Within(v) = {v} \cup UNION {Within(p) : p \in Parts(v)}
  BY WithinIs
<1>2. \A x : x \in Within(v) <=> x = v \/ \E p \in Parts(v) : x \in Within(p)
  BY <1>1
<1>3. \A w : Unmarked(w) <=> \A x \in Within(w) : Bare(x)
  BY DEF Unmarked, Bare
<1> QED BY <1>2, <1>3

\* How a map is laid out: its entries as they are, and in order.
IsLaid(v, n, h, g) ==
  /\ n \in Nat /\ n = Len(v.map) /\ h = EntryRow(v.map) /\ HasKeys(h, n)
  /\ g = InOrder(Row(h, n)) /\ g \in [1..n -> Row(h, n)] /\ AreSorted(g, n) /\ Row(g, n) = Row(h, n)
  /\ Sides(g) \in Seq(Seq(Octet)) /\ Len(Sides(g)) = 2 * n
  /\ Encoding(v) = EncodeLength(5, n) \o FlattenSeq(Sides(g))

\* A map without equal keys is laid down entry by entry, in the order of the keys.
LEMMA MapLaid ==
  ASSUME NEW v \in Value, IsMap(v, Value), WithinLimits(v), \A p \in Parts(v) : Encoding(p) \in Seq(Octet)
  PROVE  \E n, h, g : IsLaid(v, n, h, g)
<1> PICK s : s = v.map
  OBVIOUS
<1> PICK n : n = Len(s)
  OBVIOUS
<1> PICK h : h = EntryRow(s)
  OBVIOUS
<1> PICK g : g = InOrder(Row(h, n))
  OBVIOUS
<1>1. n \in Nat /\ DOMAIN s = 1..n
  BY LenProperties DEF IsMap
<1>2. \A i \in 1..n : h[i][1] = Encoding(s[i][1]) /\ h[i][2] = Encoding(s[i][2])
  BY DEF EntryRow
<1>3. \A i \in 1..n : Encoding(s[i][1]) \in Seq(Octet) /\ Encoding(s[i][2]) \in Seq(Octet)
  BY <1>1, PartsAre
<1>4. HasKeys(h, n)
  <2>1. Is(v, "map")
    BY DEF Is, IsMap
  <2>2. \A i, j \in 1..n : i # j => Encoding(s[i][1]) # Encoding(s[j][1])
    BY <1>1, <2>1 DEF WithinLimits, DistinctKeys
  <2> QED BY <1>2, <1>3, <2>2 DEF HasKeys
<1>5. Keyed(Row(h, n)) /\ Cardinality(Row(h, n)) = n
  BY <1>1, <1>4, KeyedRow
<1>6. g \in [1..n -> Row(h, n)] /\ AreSorted(g, n) /\ Row(g, n) = Row(h, n)
  BY <1>5, InOrderIs
<1>7. Sides(g) \in Seq(Seq(Octet)) /\ Len(Sides(g)) = 2 * n
  <2>1. \A i \in 1..n : g[i][1] \in Seq(Octet) /\ g[i][2] \in Seq(Octet)
    <3> TAKE i \in 1..n
    <3>1. PICK j \in 1..n : g[i] = h[j]
      BY <1>6 DEF Row
    <3> QED BY <1>2, <1>3, <3>1
  <2>2. Len(g) = n
    <3>1. g \in Seq(Row(h, n))
      BY <1>1, <1>6, SeqDef
    <3> QED BY <1>1, <1>6, <3>1, LenProperties
  <2>3. n \in Nat
    BY <1>1
  <2> QED BY ONLY <2>1, <2>2, <2>3, SidesType
<1>8. Encoding(v) = EncodeLength(5, n) \o FlattenSeq(Sides(g))
  BY EncodingOf
<1>9. IsLaid(v, n, h, g)
  BY <1>1, <1>4, <1>6, <1>7, <1>8 DEF IsLaid
<1> QED BY <1>9

\* The encodings of values in a row are sequences in a row.
LEMMA ItemsType ==
  ASSUME NEW s, NEW n \in Nat, n = Len(s), DOMAIN s = 1..n, \A i \in 1..n : Encoding(s[i]) \in Seq(Octet)
  PROVE  Items(s) \in Seq(Seq(Octet)) /\ Len(Items(s)) = n /\ \A i \in 1..n : Items(s)[i] = Encoding(s[i])
<1>1. Items(s) \in [1..n -> Seq(Octet)] /\ \A i \in 1..n : Items(s)[i] = Encoding(s[i])
  BY DEF Items
<1>2. Items(s) \in Seq(Seq(Octet))
  BY <1>1, SeqDef
<1> QED BY <1>1, <1>2, LenProperties

\* A sequence of bytes behind a type and a number.
LEMMA BehindLength ==
  ASSUME NEW major \in 0..7, NEW n \in Nat, NEW s \in Seq(Octet)
  PROVE  EncodeLength(major, n) \o s \in Seq(Octet) /\ Len(EncodeLength(major, n) \o s) >= 1
<1> PICK head : head = EncodeLength(major, n)
  OBVIOUS
<1>1. head \in Seq(Octet) /\ Len(head) >= 1
  BY LengthType
<1>2. head \o s \in Seq(Octet) /\ Len(head \o s) = Len(head) + Len(s) /\ Len(head) \in Nat /\ Len(s) \in Nat
  BY <1>1, ConcatProperties, LenProperties
<1>3. Len(head \o s) >= 1
  BY <1>1, <1>2
<1> QED BY <1>2, <1>3

\* Sequences put one after the other are a sequence.
LEMMA FlattenType == ASSUME NEW V, NEW ss \in Seq(Seq(V)) PROVE FlattenSeq(ss) \in Seq(V)
<1>1. Len(ss) \in Nat
  BY LenProperties
<1>2. PICK h \in [0..Len(ss) -> Seq(V)] : FlattenSeq(ss) = h[Len(ss)]
  BY <1>1, FlattenIs DEF HasJoined
<1>3. Len(ss) \in 0..Len(ss)
  BY <1>1
<1> QED BY <1>2, <1>3

\* Texts are made of bytes.
LEMMA TextBytes == \A s \in Seq(TextUnit) : s \in Seq(Octet)
<1>1. TextUnit \subseteq Octet
  BY DEF TextUnit
<1> QED BY <1>1, SeqWider

\* The encoding of a value is bytes, at least one.
IsBytesOf(v) == Encoding(v) \in Seq(Octet) /\ Len(Encoding(v)) >= 1

\* The encoding of a value is made of bytes, and is not empty.
LEMMA EncodingType == \A v \in Value : Encodable(v) => IsBytesOf(v)
<1> DEFINE S == {v \in Value : Encodable(v) => IsBytesOf(v)}
<1>1. ASSUME NEW v \in Value, \A p \in Parts(v) : p \in S, Encodable(v) PROVE IsBytesOf(v)
  <2>0. WithinLimits(v) /\ \A p \in Parts(v) : Encoding(p) \in Seq(Octet)
    BY <1>1, EncodableIs DEF IsBytesOf
  <2> HIDE DEF S
  <2>9. 0 \in 0..7 /\ 1 \in 0..7 /\ 2 \in 0..7 /\ 3 \in 0..7 /\ 4 \in 0..7
    OBVIOUS
  <2>1. CASE BoolValue(v)
    <3>1. Inline - 3 \in Nat /\ Inline - 3 < Inline + 8 /\ Inline - 4 \in Nat /\ Inline - 4 < Inline + 8
      BY LayoutIs
    <3> PICK a : a = (IF v.bool THEN Inline - 3 ELSE Inline - 4)
      OBVIOUS
    <3>2. a \in Nat /\ a < Inline + 8
      BY <3>1
    <3>4. Encoding(v) = <<Initial(7, a)>>
      BY <2>1, EncodingOf
    <3>5. Initial(7, a) \in Octet
      BY <3>2, InitialIs
    <3>3. Len(Encoding(v)) = 1 /\ Encoding(v) \in Seq(Octet)
      BY <3>4, <3>5, OneByte
    <3> QED BY <3>3 DEF IsBytesOf
  <2>2. CASE IntValue(v)
    <3>1. v.int >= 0 => v.int \in Nat
      BY <2>2 DEF IntValue
    <3>2. ~(v.int >= 0) => -1 - v.int \in Nat
      BY <2>2 DEF IntValue
    <3>3. CASE v.int >= 0
      <4> PICK n \in Nat : n = v.int
        BY <3>1, <3>3
      <4>1. Encoding(v) = EncodeLength(0, n)
        BY <2>2, <3>3, EncodingOf
      <4> QED BY <2>9, <4>1, LengthType DEF IsBytesOf
    <3>4. CASE ~(v.int >= 0)
      <4> PICK n \in Nat : n = -1 - v.int
        BY <3>2, <3>4
      <4>1. Encoding(v) = EncodeLength(1, n)
        BY <2>2, <3>4, EncodingOf
      <4> QED BY <2>9, <4>1, LengthType DEF IsBytesOf
    <3> QED BY <3>3, <3>4
  <2>3. CASE BytesValue(v)
    <3> PICK t, n : t = v.bytes /\ n = Len(t)
      OBVIOUS
    <3>1. t \in Seq(Octet) /\ n \in Nat
      BY <2>3, LenProperties DEF BytesValue
    <3>2. Encoding(v) = EncodeLength(2, n) \o t
      BY <2>3, EncodingOf
    <3>3. EncodeLength(2, n) \o t \in Seq(Octet) /\ Len(EncodeLength(2, n) \o t) >= 1
      BY <2>9, <3>1, BehindLength
    <3> QED BY <3>2, <3>3 DEF IsBytesOf
  <2>4. CASE TextValue(v)
    <3> PICK t, n : t = v.text /\ n = Len(t)
      OBVIOUS
    <3>1. t \in Seq(Octet) /\ n \in Nat
      BY <2>4, TextBytes, LenProperties DEF TextValue
    <3>2. Encoding(v) = EncodeLength(3, n) \o t
      BY <2>4, EncodingOf
    <3>3. EncodeLength(3, n) \o t \in Seq(Octet) /\ Len(EncodeLength(3, n) \o t) >= 1
      BY <2>9, <3>1, BehindLength
    <3> QED BY <3>2, <3>3 DEF IsBytesOf
  <2>5. CASE IsArray(v, Value)
    <3> PICK s, n : s = v.array /\ n = Len(s)
      OBVIOUS
    <3>1. n \in Nat /\ Len(s) \in Nat /\ DOMAIN s = 1..Len(s)
      BY <2>5, LenProperties DEF IsArray
    <3>2. \A i \in 1..Len(s) : Encoding(s[i]) \in Seq(Octet)
      BY <2>0, <2>5, <3>1, PartsAre
    <3>3. Items(s) \in Seq(Seq(Octet))
      BY <3>1, <3>2, ItemsType
    <3>4. FlattenSeq(Items(s)) \in Seq(Octet)
      BY <3>3, FlattenType
    <3> PICK t : t = FlattenSeq(Items(s))
      OBVIOUS
    <3>5. Encoding(v) = EncodeLength(4, n) \o t
      BY <2>5, EncodingOf
    <3>6. EncodeLength(4, n) \o t \in Seq(Octet) /\ Len(EncodeLength(4, n) \o t) >= 1
      BY <2>9, <3>1, <3>4, BehindLength
    <3> QED BY <3>5, <3>6 DEF IsBytesOf
  <2>6. CASE IsMap(v, Value)
    <3>1. PICK n, h, g : IsLaid(v, n, h, g)
      BY <2>0, <2>6, MapLaid
    <3>2. n \in Nat /\ FlattenSeq(Sides(g)) \in Seq(Octet) /\ Encoding(v) = EncodeLength(5, n) \o FlattenSeq(Sides(g))
      BY <3>1, FlattenType DEF IsLaid
    <3> QED BY <3>2, BehindLength DEF IsBytesOf
  <2> QED BY <2>1, <2>2, <2>3, <2>4, <2>5, <2>6, ValueIs, SimpleIs
<1>2. \A v \in Value : (\A p \in Parts(v) : p \in S) => v \in S
  BY <1>1
<1>3. \A v \in Value : v \in S
  <2> HIDE DEF S
  <2> QED BY <1>2, AllValues
<1> QED BY <1>3

\* So a map that can be encoded is laid out.
LEMMA EncodableLaid ==
  ASSUME NEW v \in Value, IsMap(v, Value), Encodable(v)
  PROVE  \E n, h, g : IsLaid(v, n, h, g)
<1>1. WithinLimits(v) /\ \A p \in Parts(v) : p \in Value /\ Encodable(p)
  BY EncodableIs, ValueIs
<1>2. \A p \in Parts(v) : Encoding(p) \in Seq(Octet)
  BY <1>1, EncodingType DEF IsBytesOf
<1> QED BY <1>1, <1>2, MapLaid

\* When its entries are in order already, they are laid out as they are.
LEMMA OrderedLaid ==
  ASSUME NEW v \in Value, IsMap(v, Value), InKeyOrder(v), NEW n, NEW h, NEW g, IsLaid(v, n, h, g)
  PROVE  g = h
<1>1. n \in Nat /\ h = EntryRow(v.map) /\ n = Len(v.map) /\ HasKeys(h, n) /\ g = InOrder(Row(h, n)) /\ DOMAIN v.map = 1..n
  BY LenProperties DEF IsLaid, IsMap
<1>2. h = [i \in 1..n |-> h[i]] /\ \A i \in 1..n : h[i][1] = Encoding(v.map[i][1])
  BY <1>1 DEF EntryRow
<1>3. ASSUME NEW i \in 1..n, NEW j \in 1..n, i < j PROVE Before(h[i][1], h[j][1])
  <2>1. ~Before(h[j][1], h[i][1])
    <3>1. Is(v, "map")
      BY DEF Is, IsMap
    <3> QED BY <1>1, <1>2, <1>3, <3>1 DEF InKeyOrder
  <2>2. h[i][1] \in Seq(Octet) /\ h[j][1] \in Seq(Octet) /\ h[i][1] # h[j][1]
    <3>1. i # j
      BY <1>3
    <3> QED BY <1>1, <3>1 DEF HasKeys
  <2> QED BY <2>1, <2>2, BeforeTotal
<1>4. AreSorted(h, n)
  BY <1>3 DEF AreSorted
<1>5. \A i \in 1..n : h[i][1] \in Seq(Octet)
  BY <1>1 DEF HasKeys
<1> PICK row : row = Row(h, n)
  OBVIOUS
<1>6. InOrder(row) = h
  BY ONLY <1>1, <1>2, <1>4, <1>5, row = Row(h, n), SortedIs
<1> QED BY <1>1, <1>6

-----------------------------------------------------------------------------
(* Reading values in a row (cbor.ts) *)

\* A read that says something, or fails.
IsRead(r, V, last) == r = Failed \/ \E v \in V, m \in 1..last : r = Got(v, m)

\* What a read says, and what a read of some kind that did not fail is.
LEMMA ReadFields ==
  /\ Failed.next = 0
  /\ \A v, m : Got(v, m).next = m /\ Got(v, m).value = v
  /\ \A V, last, r : IsRead(r, V, last) /\ r.next # 0 => r.value \in V /\ r.next \in 1..last /\ r = Got(r.value, r.next)
<1>1. Failed.next = 0
  BY DEF Failed
<1>2. \A v, m : Got(v, m).next = m /\ Got(v, m).value = v
  BY DEF Got
<1>3. ASSUME NEW V, NEW last, NEW r, IsRead(r, V, last), r.next # 0
      PROVE  r.value \in V /\ r.next \in 1..last /\ r = Got(r.value, r.next)
  <2>1. PICK v \in V, m \in 1..last : r = Got(v, m)
    BY <1>1, <1>3 DEF IsRead
  <2> QED BY <1>2, <2>1
<1> QED BY <1>1, <1>2, <1>3

\* A read goes on with one more value.
NextItem(r, within) ==
  If(r.next # 0 /\ within[r.next].next # 0, Got(Append(r.value, within[r.next].value), within[r.next].next))
\* What there is after each value.
AreReads(u, count, at, within) == u[0] = Got(<<>>, at) /\ \A k \in 1..count : u[k] = NextItem(u[k - 1], within)
HasReads(u, count, at, within) == AreReads(u, count, at, within) /\ ReadItems(count, at, within) = u[count]
\* Reads of one kind, wherever they start.
ReadAll(within, V, last) == \A at \in 1..last : IsRead(within[at], V, last)

\* One more item behind a row of items is a row of items or a failure.
LEMMA NextItemType ==
  ASSUME NEW V, NEW last \in Nat, NEW within, ReadAll(within, V, last), NEW r, IsRead(r, Seq(V), last)
  PROVE  IsRead(NextItem(r, within), Seq(V), last)
<1>1. CASE r.next # 0 /\ within[r.next].next # 0
  <2>1. r.value \in Seq(V) /\ r.next \in 1..last
    BY <1>1, ReadFields
  <2>2. IsRead(within[r.next], V, last)
    BY <2>1 DEF ReadAll
  <2>3. within[r.next].value \in V /\ within[r.next].next \in 1..last
    BY <1>1, <2>2, ReadFields
  <2>4. Append(r.value, within[r.next].value) \in Seq(V)
    BY <2>1, <2>3, AppendProperties
  <2> QED BY <1>1, <2>3, <2>4 DEF NextItem, If, IsRead
<1>2. CASE ~(r.next # 0 /\ within[r.next].next # 0)
  BY <1>2 DEF NextItem, If, IsRead
<1> QED BY <1>1, <1>2

\* The reads of values in a row, up to each of them.
LEMMA ReadsExist ==
  ASSUME NEW V, NEW last \in Nat, NEW within, ReadAll(within, V, last), NEW count \in Nat, NEW at \in 1..last
  PROVE  \E u : HasReads(u, count, at, within) /\ \A k \in 0..count : IsRead(u[k], Seq(V), last)
<1> DEFINE X == {Failed} \cup {Got(s, m) : s \in Seq(V), m \in 1..last}
           G == [q \in X \X (1..count) |-> NextItem(q[1], within)]
           It(f) == [k \in 0..count |->
                       IF k = 0 THEN Got(<<>>, at)
                       ELSE If(f[k - 1].next # 0 /\ within[f[k - 1].next].next # 0,
                               Got(Append(f[k - 1].value, within[f[k - 1].next].value), within[f[k - 1].next].next))]
           f == CHOOSE f : f = It(f)
<1>1. \A r : r \in X <=> IsRead(r, Seq(V), last)
  BY DEF IsRead
<1>2. IsStep(G, count, X)
  <2>1. \A q \in X \X (1..count) : NextItem(q[1], within) \in X
    <3> TAKE q \in X \X (1..count)
    <3>1. q[1] \in X
      OBVIOUS
    <3> HIDE DEF X
    <3> QED BY <1>1, <3>1, NextItemType
  <2> HIDE DEF X
  <2> QED BY <2>1 DEF IsStep
<1>3. Got(<<>>, at) \in X
  <2>1. <<>> \in Seq(V)
    BY EmptySeq
  <2>2. IsRead(Got(<<>>, at), Seq(V), last)
    BY <2>1 DEF IsRead
  <2> HIDE DEF X
  <2> QED BY <1>1, <2>2
<1>4. PICK h \in [0..count -> X] : IsChain(h, Got(<<>>, at), count, G)
  <2> HIDE DEF X, G
  <2> QED BY <1>2, <1>3, ChainExists
<1>5. h[0] = Got(<<>>, at) /\ \A k \in 1..count : h[k] = NextItem(h[k - 1], within)
  <2>1. h[0] = Got(<<>>, at)
    BY <1>4 DEF IsChain
  <2>2. ASSUME NEW k \in 1..count PROVE h[k] = NextItem(h[k - 1], within)
    <3>1. k - 1 \in 0..count
      OBVIOUS
    <3> HIDE DEF X
    <3>2. h[k - 1] \in X /\ h[k] = G[<<h[k - 1], k>>]
      BY <1>4, <3>1 DEF IsChain
    <3> QED BY <3>2
  <2> QED BY <2>1, <2>2
<1> HIDE DEF X, G
<1>6. h = It(h)
  <2>1. h = [k \in 0..count |-> h[k]]
    BY <1>4
  <2>2. ASSUME NEW k \in 0..count
        PROVE  h[k] = IF k = 0 THEN Got(<<>>, at)
                      ELSE If(h[k - 1].next # 0 /\ within[h[k - 1].next].next # 0,
                              Got(Append(h[k - 1].value, within[h[k - 1].next].value), within[h[k - 1].next].next))
    <3>1. CASE k = 0
      BY <1>5, <3>1
    <3>2. CASE k # 0
      <4>1. k \in 1..count
        BY <3>2
      <4> QED BY <1>5, <3>2, <4>1 DEF NextItem
    <3> QED BY <3>1, <3>2
  <2> QED BY <2>1, <2>2
<1>7. f = It(f)
  <2> HIDE DEF It
  <2> QED BY <1>6
<1>8. ReadItems(count, at, within) = f[count]
  BY DEF ReadItems
<1> HIDE DEF f
<1>9. f[0] = Got(<<>>, at) /\ \A k \in 1..count : f[k] = NextItem(f[k - 1], within)
  <2>1. \A k \in 0..count :
          f[k] = IF k = 0 THEN Got(<<>>, at)
                 ELSE If(f[k - 1].next # 0 /\ within[f[k - 1].next].next # 0,
                         Got(Append(f[k - 1].value, within[f[k - 1].next].value), within[f[k - 1].next].next))
    BY <1>7
  <2>2. 0 \in 0..count /\ \A k \in 1..count : k \in 0..count /\ k # 0
    OBVIOUS
  <2> HIDE DEF It
  <2> QED BY <2>1, <2>2 DEF NextItem
<1> HIDE DEF It
<1>10. AreAlike(f, h, count)
  <2>1. StayAlike(f, h, count)
    BY <1>5, <1>9 DEF StayAlike
  <2> QED BY <2>1, ChainsAgree
<1>11. count \in 0..count
  OBVIOUS
<1>12. HasReads(h, count, at, within)
  BY <1>5, <1>8, <1>10, <1>11 DEF HasReads, AreReads, AreAlike
<1>13. \A k \in 0..count : IsRead(h[k], Seq(V), last)
  BY <1>1, <1>4
<1> QED BY <1>12, <1>13

\* The first values of a sequence, and one more.
LEMMA OneMore ==
  ASSUME NEW V, NEW s \in Seq(V), NEW k \in Nat, k + 1 <= Len(s)
  PROVE  Append([i \in 1..k |-> s[i]], s[k + 1]) = [i \in 1..(k + 1) |-> s[i]]
<1> DEFINE a == [i \in 1..k |-> s[i]]
           b == Append(a, s[k + 1])
<1>1. Len(s) \in Nat /\ \A i \in 1..(k + 1) : s[i] \in V
  <2>1. Len(s) \in Nat
    BY LenProperties
  <2>2. \A i \in 1..(k + 1) : i \in 1..Len(s)
    BY <2>1
  <2> QED BY <2>1, <2>2, ElementOfSeq
<1>2. a \in [1..k -> V] /\ s[k + 1] \in V
  BY <1>1
<1>3. a \in Seq(V) /\ Len(a) = k
  <2> HIDE DEF a
  <2>1. a \in Seq(V)
    BY <1>2, SeqDef
  <2> QED BY <1>2, <2>1, LenProperties
<1>4. \A i \in 1..k : a[i] = s[i]
  OBVIOUS
<1> HIDE DEF a
<1>5. /\ b \in Seq(V) /\ Len(b) = k + 1 /\ b[k + 1] = s[k + 1]
      /\ \A i \in 1..k : b[i] = a[i]
  BY <1>2, <1>3, AppendProperties
<1> HIDE DEF b
<1>6. b = [i \in 1..(k + 1) |-> b[i]]
  BY <1>5, LenProperties
<1>7. \A i \in 1..(k + 1) : b[i] = s[i]
  <2> TAKE i \in 1..(k + 1)
  <2>1. i \in 1..k \/ i = k + 1
    OBVIOUS
  <2> QED BY <1>4, <1>5, <2>1
<1>8. b = [i \in 1..(k + 1) |-> s[i]]
  BY <1>6, <1>7
<1> QED BY <1>8 DEF a, b

\* Values that are read at places, each where the one before it ends.
ItemsAt(s, p, count, at, within) == p[0] = at /\ \A k \in 1..count : within[p[k - 1]] = Got(s[k], p[k])

\* They are read in a row.
LEMMA ItemsRead ==
  ASSUME NEW V, NEW last \in Nat, NEW within, ReadAll(within, V, last), NEW count \in Nat, NEW at \in 1..last,
         NEW s \in Seq(V), Len(s) = count, NEW p \in [0..count -> 1..last], ItemsAt(s, p, count, at, within)
  PROVE  ReadItems(count, at, within) = Got(s, p[count])
<1>1. PICK u : HasReads(u, count, at, within)
  BY ReadsExist
<1> DEFINE a(k) == [i \in 1..k |-> s[i]]
           T == {k \in Nat : k <= count => u[k] = Got(a(k), p[k])}
<1>2. 0 \in T
  <2>1. a(0) = <<>>
    OBVIOUS
  <2>2. u[0] = Got(<<>>, at) /\ p[0] = at
    BY <1>1 DEF HasReads, AreReads, ItemsAt
  <2>3. u[0] = Got(a(0), p[0])
    BY <2>1, <2>2
  <2> QED BY <2>3
<1>3. ASSUME NEW k \in T PROVE k + 1 \in T
  <2> SUFFICES ASSUME k + 1 <= count PROVE u[k + 1] = Got(a(k + 1), p[k + 1])
    OBVIOUS
  <2>1. k \in Nat /\ k \in 0..count /\ k + 1 \in 1..count /\ k + 1 \in 0..count /\ (k + 1) - 1 = k
    OBVIOUS
  <2>2. u[k] = Got(a(k), p[k])
    BY <2>1
  <2> HIDE DEF T
  <2>3. u[k + 1] = NextItem(u[k], within) /\ within[p[k]] = Got(s[k + 1], p[k + 1])
    BY <1>1, <2>1 DEF HasReads, AreReads, ItemsAt
  <2>4. p[k] \in 1..last /\ p[k + 1] \in 1..last
    BY <2>1
  <2>5. p[k] # 0 /\ p[k + 1] # 0
    BY <2>4
  <2>6. a(k + 1) = Append(a(k), s[k + 1])
    BY <2>1, OneMore
  <2> HIDE DEF a
  <2>7. u[k].next = p[k] /\ u[k].value = a(k) /\ within[p[k]].next = p[k + 1] /\ within[p[k]].value = s[k + 1]
    BY <2>2, <2>3, ReadFields
  <2> QED BY <2>3, <2>5, <2>6, <2>7 DEF NextItem, If
<1>4. count \in T
  <2> HIDE DEF T
  <2>1. T \in SUBSET Nat
    BY DEF T
  <2> QED BY <1>2, <1>3, <2>1, Induction
<1>5. a(count) = s
  BY LenProperties
<1>6. u[count] = Got(a(count), p[count])
  BY <1>4
<1> HIDE DEF a
<1> QED BY <1>1, <1>5, <1>6 DEF HasReads

ItemsStand(s, p, V, last, count, at, within) ==
  /\ last \in Nat /\ ReadAll(within, V, last) /\ count \in Nat /\ at \in 1..last
  /\ s \in Seq(V) /\ Len(s) = count /\ p \in [0..count -> 1..last] /\ ItemsAt(s, p, count, at, within)

AreReadAs(s, p, count, at, within) == ReadItems(count, at, within) = Got(s, p[count])

\* Items that stand one behind the other are read one after the other.
LEMMA ItemsAreRead ==
  ASSUME NEW s, NEW p, NEW V, NEW last, NEW count, NEW at, NEW within, ItemsStand(s, p, V, last, count, at, within)
  PROVE  AreReadAs(s, p, count, at, within)
BY ItemsRead DEF ItemsStand, AreReadAs

\* And whatever is read in a row is read at such places.
RowRead(r, s, p, V, last, count, at, within) ==
  /\ s \in Seq(V) /\ p \in [0..count -> 1..last] /\ Len(s) = count
  /\ ItemsAt(s, p, count, at, within) /\ r = Got(s, p[count])
ReadsRow(r, V, last, count, at, within) ==
  /\ last \in Nat /\ ReadAll(within, V, last) /\ count \in Nat /\ at \in 1..last
  /\ r = ReadItems(count, at, within) /\ r.next # 0

\* What is read of a row, if it does not fail, is an item at each place of a trail.
LEMMA ItemsReadAt ==
  ASSUME NEW V, NEW last \in Nat, NEW within, ReadAll(within, V, last), NEW count \in Nat, NEW at \in 1..last,
         ReadItems(count, at, within).next # 0
  PROVE  \E s, p : RowRead(ReadItems(count, at, within), s, p, V, last, count, at, within)
<1>1. PICK u : HasReads(u, count, at, within) /\ \A k \in 0..count : IsRead(u[k], Seq(V), last)
  BY ReadsExist
<1>2. u[0] = Got(<<>>, at) /\ (\A k \in 1..count : u[k] = NextItem(u[k - 1], within)) /\ u[count].next # 0
  BY <1>1 DEF HasReads, AreReads
<1>3. \A k \in 0..count : u[k].next # 0
  <2> DEFINE T == {k \in Nat : k <= count => u[count - k].next # 0}
  <2>1. 0 \in T
    BY <1>2
  <2>2. ASSUME NEW k \in T PROVE k + 1 \in T
    <3> SUFFICES ASSUME k + 1 <= count PROVE u[count - (k + 1)].next # 0
      OBVIOUS
    <3>1. count - k \in 1..count /\ (count - k) - 1 = count - (k + 1) /\ u[count - k].next # 0
      OBVIOUS
    <3> HIDE DEF T
    <3>2. u[count - k] = NextItem(u[count - (k + 1)], within)
      BY <1>2, <3>1
    <3> QED BY <3>1, <3>2, ReadFields DEF NextItem, If
  <2> HIDE DEF T
  <2>3. T \in SUBSET Nat
    BY DEF T
  <2>4. T = Nat
    BY <2>1, <2>2, <2>3, Induction
  <2> TAKE k \in 0..count
  <2>5. count - k \in Nat /\ count - k <= count /\ count - (count - k) = k
    OBVIOUS
  <2>6. count - k \in T
    BY <2>4, <2>5
  <2> QED BY <2>5, <2>6 DEF T
<1> DEFINE p == [k \in 0..count |-> u[k].next]
           s == [k \in 1..count |-> within[u[k - 1].next].value]
<1>4. \A k \in 0..count : u[k].next \in 1..last
  BY <1>1, <1>3, ReadFields
<1>5. p \in [0..count -> 1..last]
  BY <1>4
<1>6. ASSUME NEW k \in 1..count
      PROVE  within[u[k - 1].next] = Got(within[u[k - 1].next].value, u[k].next) /\ within[u[k - 1].next].value \in V
  <2>1. k - 1 \in 0..count /\ k \in 0..count
    OBVIOUS
  <2>2. u[k] = NextItem(u[k - 1], within) /\ u[k].next # 0 /\ u[k - 1].next \in 1..last
    BY <1>2, <1>3, <1>4, <2>1
  <2> PICK r : r = within[u[k - 1].next]
    OBVIOUS
  <2>3. IsRead(r, V, last)
    BY <2>2 DEF ReadAll
  <2>4. r.next # 0 /\ u[k].next = r.next
    BY <2>2, ReadFields DEF NextItem, If
  <2> QED BY <2>3, <2>4, ReadFields
<1>7. s \in Seq(V) /\ Len(s) = count
  <2>1. s \in [1..count -> V]
    BY <1>6
  <2> HIDE DEF s
  <2>2. s \in Seq(V)
    BY <2>1, SeqDef
  <2> QED BY <2>1, <2>2, LenProperties
<1>8. ItemsAt(s, p, count, at, within)
  <2>1. p[0] = at
    BY <1>2, ReadFields
  <2>2. \A k \in 1..count : within[p[k - 1]] = Got(s[k], p[k])
    <3> TAKE k \in 1..count
    <3>1. k - 1 \in 0..count /\ k \in 0..count
      OBVIOUS
    <3>2. p[k - 1] = u[k - 1].next /\ p[k] = u[k].next /\ s[k] = within[u[k - 1].next].value
      BY <3>1
    <3> HIDE DEF p, s
    <3> QED BY <1>6, <3>2
  <2> HIDE DEF p, s
  <2> QED BY <2>1, <2>2 DEF ItemsAt
<1> HIDE DEF p, s
<1>9. ReadItems(count, at, within) = Got(s, p[count])
  BY <1>5, <1>7, <1>8, ItemsRead
<1>10. RowRead(ReadItems(count, at, within), s, p, V, last, count, at, within)
  BY <1>5, <1>7, <1>8, <1>9 DEF RowRead
<1> QED BY <1>10

\* The same, with all that is asked of the row in one predicate.
LEMMA RowIsRead ==
  ASSUME NEW r, NEW V, NEW last, NEW count, NEW at, NEW within, ReadsRow(r, V, last, count, at, within)
  PROVE  \E s, p : RowRead(r, s, p, V, last, count, at, within)
BY ItemsReadAt DEF ReadsRow

-----------------------------------------------------------------------------
(* The reader by depth (cbor.ts) *)

\* What is read at each place, of values with such values within them; and nothing read.
Reading(input, within) == [at \in 1..(Len(input) + 1) |-> ReadValue(input, at, within)]
NoReading(input) == [at \in 1..(Len(input) + 1) |-> Failed]
Inner(input, f, d) == IF d = 0 THEN NoReading(input) ELSE f[d - 1]

\* There is a reading of the input for every depth.
LEMMA ReadingsExist ==
  ASSUME NEW input
  PROVE  \E f : f = [d \in 0..MaxDepth |-> Reading(input, Inner(input, f, d))]
<1> DEFINE F(f, d) == Reading(input, Inner(input, f, d))
           Has(f, k) == f = [d \in 0..k |-> F(f, d)]
           T == {k \in Nat : \E f : Has(f, k)}
<1>1. 0 \in T
  <2> DEFINE f == [d \in 0..0 |-> Reading(input, NoReading(input))]
  <2>1. Has(f, 0)
    <3>1. \A d \in 0..0 : F(f, d) = Reading(input, NoReading(input))
      BY DEF Inner
    <3> HIDE DEF F
    <3> QED BY <3>1
  <2> HIDE DEF f, Has
  <2> QED BY <2>1
<1>2. ASSUME NEW k \in T PROVE k + 1 \in T
  <2>1. PICK f : Has(f, k)
    OBVIOUS
  <2>2. k \in Nat /\ \A d \in 0..k : f[d] = F(f, d)
    BY <2>1
  <2> PICK x : x = F(f, k + 1)
    OBVIOUS
  <2>3. PICK g : Deepens(g, f, k, x)
    BY <2>2, OneDeeper
  <2>4. ASSUME NEW d \in 0..k+1 PROVE g[d] = F(g, d)
    <3>1. CASE d = k + 1
      <4>1. d # 0 /\ g[d] = x /\ g[d - 1] = f[d - 1]
        BY <2>2, <2>3, <3>1, Deeper
      <4>2. Inner(input, g, d) = Inner(input, f, d)
        BY <4>1 DEF Inner
      <4> QED BY <3>1, <4>1, <4>2
    <3>2. CASE d # k + 1
      <4>1. d \in 0..k /\ g[d] = f[d] /\ (d # 0 => g[d - 1] = f[d - 1])
        BY <2>2, <2>3, <3>2, Deeper
      <4>2. Inner(input, g, d) = Inner(input, f, d)
        BY <4>1 DEF Inner
      <4> QED BY <2>2, <4>1, <4>2
    <3> QED BY <3>1, <3>2
  <2> HIDE DEF F
  <2>5. Has(g, k + 1)
    BY <2>3, <2>4 DEF Deepens
  <2> HIDE DEF Has
  <2> QED BY <2>2, <2>5
<1>3. MaxDepth \in T
  <2> HIDE DEF T
  <2>1. T \in SUBSET Nat
    BY DEF T
  <2> QED BY <1>1, <1>2, <2>1, Induction, LayoutIs
<1> QED BY <1>3

\* What is read of the whole input is what is read at its front, at the greatest depth.
HasDecoded(input, f) ==
  /\ \A d \in 0..MaxDepth : f[d] = Reading(input, Inner(input, f, d))
  /\ LET whole == If(Len(input) <= MaxBytes, f[MaxDepth][1])
     IN  Decoded(input) = If(whole.next = Len(input) + 1, whole)

\* What is decoded is what the reading of the last depth finds at the first place.
LEMMA DecodedIs == ASSUME NEW input PROVE \E f : HasDecoded(input, f)
<1> DEFINE It(f) == [d \in 0..MaxDepth |-> Reading(input, Inner(input, f, d))]
           f == CHOOSE f : f = It(f)
<1>1. f = It(f)
  <2>1. \E h : h = It(h)
    BY ReadingsExist
  <2> HIDE DEF It
  <2> QED BY <2>1
<1>2. LET whole == If(Len(input) <= MaxBytes, f[MaxDepth][1])
      IN  Decoded(input) = If(whole.next = Len(input) + 1, whole)
  BY DEF Decoded, Reading, NoReading, Inner
<1> HIDE DEF f
<1>3. \A d \in 0..MaxDepth : f[d] = Reading(input, Inner(input, f, d))
  BY <1>1
<1> QED BY <1>2, <1>3 DEF HasDecoded

-----------------------------------------------------------------------------
(* What is read was written (cbor.ts) *)

\* The type at a place, and what is read of each type.
Major(input, at) == input[at] \div (Inline + 8)
Additional(input, at) == input[at] % (Inline + 8)
Count(input, at) == ReadCount(input, at + 1, Additional(input, at), MaxItems)
Bytes(input, at) == ReadBytes(input, at + 1, Additional(input, at))
Length(input, at) == ReadLength(input, at + 1, Additional(input, at))
ArrayRead(items) == If(items.next # 0, Got([array |-> items.value], items.next))
MapRead(items) ==
  LET pairs == Pairs(items.value)
  IN  If(items.next # 0 /\ (\A i \in DOMAIN pairs : Encodable(pairs[i][1])) /\ DistinctKeys(pairs),
         Got([map |-> pairs], items.next))

IsValueRead(r, input, at, within) ==
  /\ Major(input, at) = 0 => r = If(Length(input, at).next # 0, Got([int |-> Length(input, at).value], Length(input, at).next))
  /\ Major(input, at) = 1 => r = If(Length(input, at).next # 0, Got([int |-> -1 - Length(input, at).value], Length(input, at).next))
  /\ Major(input, at) = 2 => r = If(Bytes(input, at).next # 0, Got([bytes |-> Bytes(input, at).value], Bytes(input, at).next))
  /\ Major(input, at) = 3 => r = If(Bytes(input, at).next # 0 /\ ValidText(Bytes(input, at).value),
                                   Got([text |-> TextOf(Bytes(input, at).value)], Bytes(input, at).next))
  /\ Major(input, at) = 4 => r = If(Count(input, at).next # 0,
                                   ArrayRead(ReadItems(Count(input, at).value, Count(input, at).next, within)))
  /\ Major(input, at) = 5 => r = If(Count(input, at).next # 0,
                                   MapRead(ReadItems(2 * Count(input, at).value, Count(input, at).next, within)))
  /\ Major(input, at) = 6 => r = Failed
  /\ Major(input, at) = 7 => r = If(Additional(input, at) \in {Inline - 4, Inline - 3},
                                   Got([bool |-> Additional(input, at) = Inline - 3], at + 1))

\* What is read at a place, by the type that the first byte there names.
LEMMA ValueRead ==
  ASSUME NEW input \in Seq(Octet), NEW at \in 1..Len(input), NEW within
  PROVE  IsValueRead(ReadValue(input, at, within), input, at, within)
<1> PICK r : r = ReadValue(input, at, within)
  OBVIOUS
<1> DEFINE major == Major(input, at)
<1>1. ~(at > Len(input))
  BY LenProperties
<1> DEFINE M == Major(input, at)
           A == Additional(input, at)
           length == ReadLength(input, at + 1, A)
           bytes == ReadBytes(input, at + 1, A)
           count == ReadCount(input, at + 1, A, MaxItems)
           items(n) == ReadItems(n, count.next, within)
           some == IF M = 4 THEN count.value ELSE 2 * count.value
           pairs == Pairs(items(some).value)
           X0 == If(length.next # 0, Got([int |-> length.value], length.next))
           X1 == If(length.next # 0, Got([int |-> -1 - length.value], length.next))
           X2 == If(bytes.next # 0, Got([bytes |-> bytes.value], bytes.next))
           X3 == If(bytes.next # 0 /\ ValidText(bytes.value), Got([text |-> TextOf(bytes.value)], bytes.next))
           X4 == If(count.next # 0 /\ items(some).next # 0, Got([array |-> items(some).value], items(some).next))
           X5 == If(/\ count.next # 0 /\ items(some).next # 0
                    /\ \A i \in DOMAIN pairs : Encodable(pairs[i][1])
                    /\ DistinctKeys(pairs),
                    Got([map |-> pairs], items(some).next))
           X7 == If(A \in {Inline - 4, Inline - 3}, Got([bool |-> A = Inline - 3], at + 1))
<1>2. r = CASE M = 0 -> X0 [] M = 1 -> X1 [] M = 2 -> X2 [] M = 3 -> X3 [] M = 4 -> X4 [] M = 5 -> X5
            [] M = 6 -> Failed [] M = 7 -> X7
  BY <1>1, Zenon DEF ReadValue, Major, Additional
<1>3. /\ major = M /\ Length(input, at) = length /\ Bytes(input, at) = bytes /\ Count(input, at) = count
      /\ A = Additional(input, at)
  BY DEF Length, Bytes, Count
<1>4. /\ M = 0 => r = X0
      /\ M = 1 => r = X1
      /\ M = 2 => r = X2
      /\ M = 3 => r = X3
      /\ M = 4 => r = X4
      /\ M = 5 => r = X5
      /\ M = 6 => r = Failed
      /\ M = 7 => r = X7
  <2> HIDE DEF M, X0, X1, X2, X3, X4, X5, X7
  <2> QED BY ONLY <1>2
<1>5. /\ major = 0 => r = If(Length(input, at).next # 0, Got([int |-> Length(input, at).value], Length(input, at).next))
      /\ major = 1 => r = If(Length(input, at).next # 0, Got([int |-> -1 - Length(input, at).value], Length(input, at).next))
      /\ major = 2 => r = If(Bytes(input, at).next # 0, Got([bytes |-> Bytes(input, at).value], Bytes(input, at).next))
      /\ major = 3 => r = If(Bytes(input, at).next # 0 /\ ValidText(Bytes(input, at).value),
                             Got([text |-> TextOf(Bytes(input, at).value)], Bytes(input, at).next))
      /\ major = 6 => r = Failed
  <2> HIDE DEF M, A, length, bytes, count, items, some, pairs
  <2> QED BY ONLY <1>3, <1>4
<1>6. major = 7 => r = If(Additional(input, at) \in {Inline - 4, Inline - 3},
                          Got([bool |-> Additional(input, at) = Inline - 3], at + 1))
  <2> HIDE DEF M, X0, X1, X2, X3, X4, X5
  <2> QED BY ONLY <1>3, <1>4
<1>7. major = 4 => r = If(Count(input, at).next # 0,
                          ArrayRead(ReadItems(Count(input, at).value, Count(input, at).next, within)))
  <2> SUFFICES ASSUME major = 4
               PROVE  r = If(count.next # 0, ArrayRead(ReadItems(count.value, count.next, within)))
    BY <1>3
  <2>1. some = count.value
    BY <1>3
  <2>2. items(some) = ReadItems(count.value, count.next, within)
    BY <2>1
  <2>3. r = If(count.next # 0 /\ items(some).next # 0, Got([array |-> items(some).value], items(some).next))
    BY <1>3, <1>4
  <2> HIDE DEF some, count, items
  <2> QED BY ONLY <2>2, <2>3 DEF If, ArrayRead
<1>8. major = 5 => r = If(Count(input, at).next # 0,
                          MapRead(ReadItems(2 * Count(input, at).value, Count(input, at).next, within)))
  <2> SUFFICES ASSUME major = 5
               PROVE  r = If(count.next # 0, MapRead(ReadItems(2 * count.value, count.next, within)))
    BY <1>3
  <2>1. some = 2 * count.value
    BY <1>3
  <2>2. items(some) = ReadItems(2 * count.value, count.next, within)
    BY <2>1
  <2>3. r = If(/\ count.next # 0 /\ items(some).next # 0
               /\ \A i \in DOMAIN pairs : Encodable(pairs[i][1])
               /\ DistinctKeys(pairs),
               Got([map |-> pairs], items(some).next))
    BY <1>3, <1>4
  <2>4. pairs = Pairs(items(some).value)
    OBVIOUS
  <2> HIDE DEF some, count, items, pairs
  <2> QED BY ONLY <2>2, <2>3, <2>4 DEF If, MapRead
<1> HIDE DEF length, bytes, count, A, M, pairs, items, some, X0, X1, X2, X3, X4, X5, X7
<1> QED BY <1>5, <1>6, <1>7, <1>8 DEF IsValueRead

\* A count that is read lies there, and is no more than what is behind it.
LEMMA CountIs ==
  ASSUME NEW input \in Seq(Octet), NEW at \in 1..Len(input), NEW most,
         NEW r, r = ReadCount(input, at + 1, Additional(input, at), most), r.next # 0
  PROVE  \E n : HeadLies(input, at, r, n) /\ n <= most /\ n <= Len(input) + 1 - r.next
<1> DEFINE c == ReadLength(input, at + 1, Additional(input, at))
<1>1. r = c /\ c.next # 0 /\ c.value <= most /\ c.value <= Len(input) + 1 - c.next
  <2>1. r = If(c.next # 0 /\ c.value <= most /\ c.value <= Len(input) + 1 - c.next, c)
    BY DEF ReadCount
  <2> HIDE DEF c
  <2> QED BY <2>1 DEF If, Failed
<1>2. PICK n : HeadLies(input, at, c, n)
  BY <1>1, HeadIs DEF Additional
<1> HIDE DEF c
<1>3. c = Got(n, c.next)
  BY <1>2, ReadFields DEF HeadLies
<1>4. c.value = n
  BY <1>3, ReadFields
<1> QED BY <1>1, <1>2, <1>4

\* Bytes that are read lie behind their number.
BytesLie(r, input, at, t, n, m) ==
  /\ t \in Seq(Octet) /\ n \in Nat /\ Len(t) = n /\ m \in 1..(Len(input) + 1) /\ r = Got(t, m)
  /\ EncodeLength(Major(input, at), n) \in Seq(Octet) /\ LiesAt(EncodeLength(Major(input, at), n), input, at)
  /\ LiesAt(t, input, at + Len(EncodeLength(Major(input, at), n)))
  /\ m = (at + Len(EncodeLength(Major(input, at), n))) + n

\* Bytes that are read lie behind a head that says how many they are.
LEMMA BytesAre ==
  ASSUME NEW input \in Seq(Octet), NEW at \in 1..Len(input), NEW r, r = Bytes(input, at), r.next # 0
  PROVE  \E t, n, m : BytesLie(r, input, at, t, n, m)
<1> DEFINE c == ReadCount(input, at + 1, Additional(input, at), Len(input))
<1>1. c.next # 0 /\ r = Got(SubSeq(input, c.next, c.next + c.value - 1), c.next + c.value)
  <2>1. r = If(c.next # 0, Got(SubSeq(input, c.next, c.next + c.value - 1), c.next + c.value))
    BY DEF ReadBytes, Bytes
  <2> HIDE DEF c
  <2> QED BY <2>1 DEF If, Failed
<1>2. PICK n : HeadLies(input, at, c, n) /\ n <= Len(input) + 1 - c.next
  BY <1>1, CountIs
<1> HIDE DEF c
<1> DEFINE head == EncodeLength(Major(input, at), n)
<1> PICK next : next = at + Len(head)
  OBVIOUS
<1>3. n \in Nat /\ LiesAt(head, input, at) /\ c = Got(n, next) /\ next <= Len(input) + 1 /\ Len(head) >= 1
  BY <1>2 DEF HeadLies, Major
<1>4. c.next = next /\ c.value = n
  BY <1>3, ReadFields
<1>5. Len(input) \in Nat /\ Len(head) \in Nat /\ head \in Seq(Octet)
  <2>1. Major(input, at) \in 0..7
    <3>1. input[at] \in Octet
      BY ElementOfSeq
    <3> QED BY <3>1, InitialOf DEF Major
  <2>2. head \in Seq(Octet)
    BY <1>3, <2>1, LengthType
  <2> HIDE DEF head
  <2> QED BY <2>2, LenProperties
<1> HIDE DEF head
<1>6. next \in Nat /\ next >= 1 /\ (next - 1) + n <= Len(input) /\ next + n \in 1..(Len(input) + 1)
  BY <1>2, <1>3, <1>4, <1>5
<1> PICK t : t = SubSeq(input, next, next + n - 1)
  OBVIOUS
<1>7. t \in Seq(Octet) /\ Len(t) = n /\ LiesAt(t, input, next)
  <2> PICK last : last = next + n - 1
    OBVIOUS
  <2>1. n \in Nat
    BY <1>3
  <2> QED BY <1>6, <2>1, CutLies
<1> PICK m : m = next + n
  OBVIOUS
<1>8. r = Got(t, m)
  BY <1>1, <1>4
<1>9. m = (at + Len(head)) + n /\ m \in 1..(Len(input) + 1)
  BY <1>6
<1> QED BY <1>3, <1>5, <1>7, <1>8, <1>9 DEF head, BytesLie

\* A value that the writer writes as it is, of bytes without a mark.
Clean(v, input) == Ordered(v) /\ Encodable(v) /\ Mark \notin ToSet(input)
\* What is read at a place was written there, up to where the next one starts.
WasWritten(v, m, at, input) == Clean(v, input) => LiesAt(Encoding(v), input, at) /\ m = at + Len(Encoding(v))
IsWritten(r, at, V, input) ==
  r = Failed \/ \E v \in V, m \in 1..(Len(input) + 1) : r = Got(v, m) /\ WasWritten(v, m, at, input)
AllWritten(within, V, input) == \A at \in 1..(Len(input) + 1) : IsWritten(within[at], at, V, input)

\* Of a read that fails nothing is claimed.
LEMMA FailedIsWritten == \A at, V, input, cond, r : ~cond => IsWritten(If(cond, r), at, V, input)
BY DEF IsWritten, If

\* A number.
LEMMA NumberWritten ==
  ASSUME NEW input \in Seq(Octet), NEW at \in 1..Len(input), NEW within, NEW r, r = ReadValue(input, at, within),
         Major(input, at) \in {0, 1}
  PROVE  IsWritten(r, at, Simple, input)
<1> PICK c, major : c = Length(input, at) /\ major = Major(input, at)
  OBVIOUS
<1> DEFINE v == IF major = 0 THEN [int |-> c.value] ELSE [int |-> -1 - c.value]
<1>1. r = If(c.next # 0, Got(v, c.next)) /\ major \in {0, 1}
  <2>1. major = 0 \/ major = 1
    OBVIOUS
  <2>2. IsValueRead(r, input, at, within)
    BY ValueRead
  <2> QED BY <2>1, <2>2 DEF IsValueRead
<1>2. CASE c.next = 0
  BY <1>1, <1>2, FailedIsWritten
<1>3. CASE c.next # 0
  <2>1. PICK n : HeadLies(input, at, c, n)
    BY <1>3, HeadIs DEF Length, Additional
  <2> DEFINE head == EncodeLength(major, n)
  <2> PICK m : m = at + Len(head)
    OBVIOUS
  <2>2. n \in Nat /\ LiesAt(head, input, at) /\ c = Got(n, m) /\ m <= Len(input) + 1 /\ Len(head) >= 1
    BY <2>1 DEF HeadLies, Major
  <2>3. head \in Seq(Octet) /\ Len(head) \in Nat /\ Len(input) \in Nat
    <3>1. major \in 0..7
      BY <1>1
    <3>2. head \in Seq(Octet)
      BY <2>2, <3>1, LengthType
    <3> HIDE DEF head
    <3> QED BY <3>2, LenProperties
  <2>4. c.value = n /\ c.next = m
    BY <2>2, ReadFields
  <2>5. IntValue(v) /\ v.int = IF major = 0 THEN n ELSE -1 - n
    BY <1>1, <2>2, <2>4 DEF IntValue
  <2>6. v \in Simple /\ v \in Value
    BY <2>5, SimpleIs, ValueIs
  <2> HIDE DEF v
  <2>7. Encoding(v) = head
    <3>1. CASE major = 0
      <4>1. v.int = n /\ v.int >= 0
        BY <2>2, <2>5, <3>1
      <4> QED BY <2>5, <2>6, <3>1, <4>1, EncodingOf
    <3>2. CASE major = 1
      <4>1. v.int = -1 - n /\ ~(v.int >= 0) /\ -1 - v.int = n
        BY <2>2, <2>5, <3>2
      <4> QED BY <2>5, <2>6, <3>2, <4>1, EncodingOf
    <3> QED BY <1>1, <3>1, <3>2
  <2>8. m \in 1..(Len(input) + 1)
    <3> HIDE DEF head
    <3> QED BY <2>2, <2>3
  <2>9. r = Got(v, m)
    BY <1>1, <1>3, <2>4 DEF If
  <2> QED BY <2>2, <2>6, <2>7, <2>8, <2>9 DEF IsWritten, WasWritten
<1> QED BY <1>2, <1>3

\* A boolean.
LEMMA BooleanWritten ==
  ASSUME NEW input \in Seq(Octet), NEW at \in 1..Len(input), NEW within, NEW r, r = ReadValue(input, at, within),
         Major(input, at) = 7
  PROVE  IsWritten(r, at, Simple, input)
<1> PICK additional : additional = Additional(input, at)
  OBVIOUS
<1> DEFINE v == [bool |-> additional = Inline - 3]
<1>1. r = If(additional \in {Inline - 4, Inline - 3}, Got(v, at + 1))
  <2>1. IsValueRead(r, input, at, within)
    BY ValueRead
  <2> QED BY <2>1 DEF IsValueRead
<1>2. CASE additional \notin {Inline - 4, Inline - 3}
  BY <1>1, <1>2, FailedIsWritten
<1>3. CASE additional \in {Inline - 4, Inline - 3}
  <2>1. BoolValue(v) /\ v.bool = (additional = Inline - 3)
    BY DEF BoolValue
  <2>2. v \in Simple /\ v \in Value
    BY <2>1, SimpleIs, ValueIs
  <2> HIDE DEF v
  <2>3. Encoding(v) = <<Initial(7, additional)>>
    <3>1. additional = IF v.bool THEN Inline - 3 ELSE Inline - 4
      BY <1>3, <2>1
    <3> QED BY <2>1, <2>2, <3>1, EncodingOf
  <2>4. input[at] \in Octet
    BY ElementOfSeq
  <2>5. Initial(7, additional) = input[at]
    BY <2>4, InitialOf DEF Major, Additional
  <2> PICK b : b = input[at]
    OBVIOUS
  <2>6. b \in Octet /\ Encoding(v) = <<b>> /\ <<b>>[1] = b /\ Len(<<b>>) = 1
    BY <2>3, <2>4, <2>5, OneByte
  <2>7. LiesAt(<<b>>, input, at)
    <3>1. Len(input) \in Nat
      BY LenProperties
    <3>2. at \in Nat /\ at >= 1 /\ (at - 1) + 1 <= Len(input) /\ (at - 1) + 1 = at
      BY <3>1
    <3>3. \A k \in 1..1 : k = 1
      OBVIOUS
    <3> QED BY <2>6, <3>2, <3>3 DEF LiesAt
  <2>8. at + 1 \in 1..(Len(input) + 1)
    BY LenProperties
  <2>9. r = Got(v, at + 1)
    BY <1>1, <1>3 DEF If
  <2>10. at + 1 = at + Len(Encoding(v)) /\ LiesAt(Encoding(v), input, at)
    BY <2>6, <2>7
  <2> QED BY <2>2, <2>8, <2>9, <2>10 DEF IsWritten, WasWritten
<1> QED BY <1>2, <1>3

\* Bytes, and a text.
LEMMA BytesWritten ==
  ASSUME NEW input \in Seq(Octet), NEW at \in 1..Len(input), NEW within, NEW r, r = ReadValue(input, at, within),
         Major(input, at) = 2
  PROVE  IsWritten(r, at, Simple, input)
<1> PICK c : c = Bytes(input, at)
  OBVIOUS
<1>1. r = If(c.next # 0, Got([bytes |-> c.value], c.next))
  <2>1. IsValueRead(r, input, at, within)
    BY ValueRead
  <2> QED BY <2>1 DEF IsValueRead
<1>2. CASE c.next = 0
  BY <1>1, <1>2, FailedIsWritten
<1>3. CASE c.next # 0
  <2> DEFINE head(n) == EncodeLength(2, n)
  <2>0. PICK t, n, m : BytesLie(c, input, at, t, n, m)
    BY <1>3, BytesAre
  <2>1. /\ t \in Seq(Octet) /\ n \in Nat /\ Len(t) = n /\ m \in 1..(Len(input) + 1) /\ c = Got(t, m)
        /\ LiesAt(head(n), input, at) /\ LiesAt(t, input, at + Len(head(n))) /\ m = (at + Len(head(n))) + n
    BY <2>0 DEF BytesLie
  <2>3. head(n) \in Seq(Octet)
    BY <2>0 DEF BytesLie
  <2> PICK v : v = [bytes |-> t]
    OBVIOUS
  <2>4. BytesValue(v) /\ v.bytes = t
    BY <2>1 DEF BytesValue
  <2>5. v \in Simple /\ v \in Value
    BY <2>4, SimpleIs, ValueIs
  <2>6. Encoding(v) = head(n) \o t
    BY <2>1, <2>4, <2>5, EncodingOf
  <2>7. r = Got(v, m)
    BY <1>1, <1>3, <2>1, ReadFields DEF If
  <2> HIDE DEF head
  <2>8. LiesAt(Encoding(v), input, at)
    <3>1. PICK a : a = head(n)
      OBVIOUS
    <3>2. a \in Seq(Octet) /\ t \in Seq(Octet) /\ LiesAt(a, input, at) /\ LiesAt(t, input, at + Len(a))
      BY <2>1, <2>3, <3>1
    <3>3. LiesAt(a \o t, input, at)
      BY <3>2, BothLie
    <3> QED BY <2>6, <3>1, <3>3
  <2>9. m = at + Len(Encoding(v))
    <3>1. Len(Encoding(v)) = Len(head(n)) + Len(t) /\ Len(head(n)) \in Nat
      BY <2>3, <2>6, ConcatProperties, LenProperties
    <3> QED BY <2>1, <3>1
  <2> QED BY <2>1, <2>5, <2>7, <2>8, <2>9 DEF IsWritten, WasWritten
<1> QED BY <1>2, <1>3

\* A text is its bytes but for a mark at its front.
LEMMA TextIs ==
  ASSUME NEW t \in Seq(Octet), ValidText(t)
  PROVE  /\ TextOf(t) \in Seq(TextUnit)
         /\ Mark \notin ToSet(t) => TextOf(t) = t
<1>1. t \in Seq(TextUnit)
  <2>1. t \in [1..Len(t) -> TextUnit] /\ Len(t) \in Nat
    BY LenProperties DEF ValidText
  <2> QED BY <2>1, SeqDef
<1>2. CASE t # <<>> /\ t[1] = Mark
  <2>1. Tail(t) \in Seq(TextUnit)
    BY <1>1, <1>2, HeadTailProperties
  <2>2. Mark \in ToSet(t)
    <3>1. 1 \in DOMAIN t
      BY <1>1, <1>2, EmptySeq, LenProperties
    <3> QED BY <1>2, <3>1 DEF ToSet
  <2> QED BY <1>2, <2>1, <2>2 DEF TextOf
<1>3. CASE ~(t # <<>> /\ t[1] = Mark)
  BY <1>1, <1>3 DEF TextOf
<1> QED BY <1>2, <1>3

\* A text without marks that is read was written.
LEMMA TextWritten ==
  ASSUME NEW input \in Seq(Octet), NEW at \in 1..Len(input), NEW within, NEW r, r = ReadValue(input, at, within),
         Major(input, at) = 3
  PROVE  IsWritten(r, at, Simple, input)
<1> PICK c : c = Bytes(input, at)
  OBVIOUS
<1>1. r = If(c.next # 0 /\ ValidText(c.value), Got([text |-> TextOf(c.value)], c.next))
  <2>1. IsValueRead(r, input, at, within)
    BY ValueRead
  <2> QED BY <2>1 DEF IsValueRead
<1>2. CASE ~(c.next # 0 /\ ValidText(c.value))
  BY <1>1, <1>2, FailedIsWritten
<1>3. CASE c.next # 0 /\ ValidText(c.value)
  <2> DEFINE head(n) == EncodeLength(3, n)
  <2>0. PICK t, n, m : BytesLie(c, input, at, t, n, m)
    BY <1>3, BytesAre
  <2>1. /\ t \in Seq(Octet) /\ n \in Nat /\ Len(t) = n /\ m \in 1..(Len(input) + 1) /\ c = Got(t, m)
        /\ LiesAt(head(n), input, at) /\ LiesAt(t, input, at + Len(head(n))) /\ m = (at + Len(head(n))) + n
    BY <2>0 DEF BytesLie
  <2>3. head(n) \in Seq(Octet)
    BY <2>0 DEF BytesLie
  <2>4. ValidText(t) /\ r = Got([text |-> TextOf(t)], m)
    BY <1>1, <1>3, <2>1, ReadFields DEF If
  <2>5. TextOf(t) \in Seq(TextUnit) /\ (Mark \notin ToSet(t) => TextOf(t) = t)
    BY <2>1, <2>4, TextIs
  <2> PICK v : v = [text |-> TextOf(t)]
    OBVIOUS
  <2>6. TextValue(v) /\ v.text = TextOf(t)
    BY <2>5 DEF TextValue
  <2>7. v \in Simple /\ v \in Value
    BY <2>6, SimpleIs, ValueIs
  <2> HIDE DEF head
  <2>8. ASSUME Clean(v, input) PROVE LiesAt(Encoding(v), input, at) /\ m = at + Len(Encoding(v))
    <3>1. Mark \notin ToSet(t)
      <4>1. ASSUME NEW k \in DOMAIN t PROVE t[k] \in ToSet(input)
        <5> PICK p : p = (at + Len(head(n))) - 1
          OBVIOUS
        <5>1. k \in 1..Len(t) /\ Len(t) \in Nat /\ Len(input) \in Nat /\ DOMAIN input = 1..Len(input)
          BY LenProperties
        <5>2. p \in Nat /\ p + Len(t) <= Len(input) /\ input[p + k] = t[k]
          <6>1. Len(head(n)) \in Nat
            BY <2>3, LenProperties
          <6> QED BY <2>1, <5>1, <6>1 DEF LiesAt
        <5>3. p + k \in DOMAIN input
          BY <5>1, <5>2
        <5> QED BY <5>2, <5>3 DEF ToSet
      <4> QED BY <2>8, <4>1 DEF Clean, ToSet
    <3>2. Encoding(v) = head(n) \o t
      BY <2>1, <2>5, <2>6, <2>7, <3>1, EncodingOf DEF head
    <3>3. LiesAt(Encoding(v), input, at)
      <4>1. PICK a : a = head(n)
        OBVIOUS
      <4>2. a \in Seq(Octet) /\ t \in Seq(Octet) /\ LiesAt(a, input, at) /\ LiesAt(t, input, at + Len(a))
        BY <2>1, <2>3, <4>1
      <4>3. LiesAt(a \o t, input, at)
        BY <4>2, BothLie
      <4> QED BY <3>2, <4>1, <4>3
    <3>4. Len(Encoding(v)) = Len(head(n)) + Len(t) /\ Len(head(n)) \in Nat
      BY <2>3, <3>2, ConcatProperties, LenProperties
    <3>5. m = at + Len(Encoding(v))
      BY <2>1, <3>4
    <3> QED BY <3>3, <3>5
  <2> QED BY <2>1, <2>4, <2>7, <2>8 DEF IsWritten, WasWritten
<1> QED BY <1>2, <1>3

\* Values in a row are written as they were read.
RowLies(s, m, at, input) ==
  /\ FlattenSeq(Items(s)) \in Seq(Octet)
  /\ LiesAt(FlattenSeq(Items(s)), input, at) /\ m = at + Len(FlattenSeq(Items(s)))
IsRow(r, s, m, count, V, at, input) ==
  /\ s \in Seq(V) /\ Len(s) = count /\ DOMAIN s = 1..count /\ m \in 1..(Len(input) + 1) /\ r = Got(s, m)
  /\ (\A i \in 1..count : Clean(s[i], input)) => RowLies(s, m, at, input)

\* Reads of what was written are reads of values of that depth.
LEMMA WrittenIsRead ==
  ASSUME NEW V, NEW input \in Seq(Octet), NEW within, AllWritten(within, V, input)
  PROVE  ReadAll(within, V, Len(input) + 1)
BY DEF AllWritten, IsWritten, ReadAll, IsRead

\* Sequences that lie in the input one behind the other.
Trailing(ss, n, p, at, input) ==
  /\ ss \in Seq(Seq(Octet)) /\ n = Len(ss) /\ input \in Seq(Octet)
  /\ at \in Nat /\ at >= 1 /\ at - 1 <= Len(input)
  /\ IsTrail(p, at, ss, n)
LieTogether(ss, n, p, at, input) ==
  /\ FlattenSeq(ss) \in Seq(Octet) /\ p[n] = at + Len(FlattenSeq(ss))
  /\ LiesAt(FlattenSeq(ss), input, at) <=> LieAlong(ss, input, p, n)

\* Encodings that follow one another lie in the input as one sequence.
LEMMA TrailingLies ==
  ASSUME NEW ss, NEW n, NEW p, NEW at, NEW input, Trailing(ss, n, p, at, input)
  PROVE  LieTogether(ss, n, p, at, input)
BY TrailLies DEF Trailing, LieTogether

\* A row of items that is read is the encodings of what was read, one behind the other.
LEMMA RowWritten ==
  ASSUME NEW V \in SUBSET Value, NEW input \in Seq(Octet), NEW within, AllWritten(within, V, input),
         NEW count \in Nat, NEW at \in 1..(Len(input) + 1),
         NEW r, r = ReadItems(count, at, within), r.next # 0
  PROVE  \E s, m : IsRow(r, s, m, count, V, at, input)
<1> PICK last : last = Len(input) + 1
  OBVIOUS
<1>1. last \in Nat /\ at \in 1..last /\ Len(input) \in Nat /\ at \in Nat /\ at >= 1 /\ at - 1 <= Len(input)
  BY LenProperties
<1>2. ReadAll(within, V, last)
  BY WrittenIsRead
<1>3. PICK s, p : s \in Seq(V) /\ p \in [0..count -> 1..last] /\ Len(s) = count /\ ItemsAt(s, p, count, at, within) /\ r = Got(s, p[count])
  <2>1. ReadsRow(r, V, last, count, at, within)
    BY <1>1, <1>2 DEF ReadsRow
  <2>2. \E s, p : RowRead(r, s, p, V, last, count, at, within)
    BY <2>1, RowIsRead, Zenon
  <2> QED BY <2>2 DEF RowRead
<1>4. DOMAIN s = 1..count /\ count \in 0..count /\ \A i \in 1..count : s[i] \in V
  BY <1>3, LenProperties, ElementOfSeq
<1>5. p[count] \in 1..(Len(input) + 1)
  BY <1>3, <1>4
<1>6. ASSUME \A i \in 1..count : Clean(s[i], input) PROVE RowLies(s, p[count], at, input)
  <2>1. ASSUME NEW k \in 1..count
        PROVE  LiesAt(Encoding(s[k]), input, p[k - 1]) /\ p[k] = p[k - 1] + Len(Encoding(s[k]))
    <3>1. k - 1 \in 0..count /\ k \in 0..count
      OBVIOUS
    <3> PICK q : q = p[k - 1]
      OBVIOUS
    <3>2. q \in 1..(Len(input) + 1)
      BY <1>3, <3>1
    <3>3. within[q] = Got(s[k], p[k])
      BY <1>3 DEF ItemsAt
    <3>4. IsWritten(within[q], q, V, input)
      BY <3>2 DEF AllWritten
    <3>5. within[q] # Failed
      <4>1. p[k] # 0
        <5>1. p[k] \in 1..last
          BY <1>3, <3>1
        <5> QED BY <5>1
      <4> QED BY <3>3, <4>1, ReadFields
    <3>6. PICK v \in V, m \in 1..(Len(input) + 1) : within[q] = Got(v, m) /\ WasWritten(v, m, q, input)
      BY <3>4, <3>5 DEF IsWritten
    <3>7. v = s[k] /\ m = p[k]
      <4>1. Got(v, m) = Got(s[k], p[k])
        BY <3>3, <3>6
      <4> QED BY ONLY <4>1, ReadFields
    <3> QED BY <1>6, <3>6, <3>7 DEF WasWritten
  <2>2. \A i \in 1..count : Encoding(s[i]) \in Seq(Octet)
    <3> TAKE i \in 1..count
    <3>1. s[i] \in Value /\ Encodable(s[i])
      BY <1>4, <1>6 DEF Clean
    <3> QED BY <3>1, EncodingType DEF IsBytesOf
  <2> PICK ss : ss = Items(s)
    OBVIOUS
  <2>3. ss \in Seq(Seq(Octet)) /\ Len(ss) = count /\ \A i \in 1..count : ss[i] = Encoding(s[i])
    BY <1>3, <1>4, <2>2, ItemsType
  <2>4. IsTrail(p, at, ss, count)
    <3>1. p[0] = at
      BY <1>3 DEF ItemsAt
    <3> QED BY <2>1, <2>3, <3>1 DEF IsTrail
  <2>5. LieAlong(ss, input, p, count)
    BY <2>1, <2>3 DEF LieAlong
  <2>6. FlattenSeq(ss) \in Seq(Octet) /\ p[count] = at + Len(FlattenSeq(ss)) /\ LiesAt(FlattenSeq(ss), input, at)
    <3>1. Trailing(ss, count, p, at, input)
      BY <1>1, <2>3, <2>4 DEF Trailing
    <3>2. LieTogether(ss, count, p, at, input)
      BY <3>1, TrailingLies, Zenon
    <3> QED BY <2>5, <3>2 DEF LieTogether
  <2> QED BY <2>6 DEF RowLies
<1>7. IsRow(r, s, p[count], count, V, at, input)
  BY <1>3, <1>4, <1>5, <1>6 DEF IsRow
<1> QED BY <1>7

\* A count with what is behind it.
CountLies(c, n, next, major, input, at) ==
  /\ n \in Nat /\ next \in 1..(Len(input) + 1) /\ c = Got(n, next)
  /\ EncodeLength(major, n) \in Seq(Octet) /\ LiesAt(EncodeLength(major, n), input, at)
  /\ next = at + Len(EncodeLength(major, n))

\* A count that is read lies in the input in its shortest form.
LEMMA CountAt ==
  ASSUME NEW input \in Seq(Octet), NEW at \in 1..Len(input), NEW major, major = Major(input, at),
         NEW c, c = Count(input, at), c.next # 0
  PROVE  \E n, next : CountLies(c, n, next, major, input, at)
<1>1. PICK n : HeadLies(input, at, c, n)
  BY CountIs DEF Count
<1> PICK head : head = EncodeLength(major, n)
  OBVIOUS
<1> PICK next : next = at + Len(head)
  OBVIOUS
<1>2. n \in Nat /\ LiesAt(head, input, at) /\ c = Got(n, next) /\ next <= Len(input) + 1 /\ Len(head) >= 1
  BY <1>1 DEF HeadLies, Major
<1>3. head \in Seq(Octet)
  <2>1. input[at] \in Octet
    BY ElementOfSeq
  <2>2. major \in 0..7
    BY <2>1, InitialOf DEF Major
  <2> QED BY <1>2, <2>2, LengthType
<1>4. next \in 1..(Len(input) + 1)
  <2>1. Len(head) \in Nat /\ Len(input) \in Nat
    BY <1>3, LenProperties
  <2> QED BY <1>2, <2>1
<1>5. CountLies(c, n, next, major, input, at)
  BY <1>2, <1>3, <1>4 DEF CountLies
<1> QED BY <1>5

\* A head and what is behind it.
Follows(c, n, next, major, input, at, t, m, e) ==
  /\ CountLies(c, n, next, major, input, at) /\ input \in Seq(Octet) /\ at \in Nat
  /\ t \in Seq(Octet) /\ LiesAt(t, input, next) /\ m = next + Len(t) /\ e = EncodeLength(major, n) \o t

\* A head and the row behind it lie in the input together.
LEMMA HeadAndRow ==
  ASSUME NEW c, NEW n, NEW next, NEW major, NEW input, NEW at, NEW t, NEW m, NEW e,
         Follows(c, n, next, major, input, at, t, m, e)
  PROVE  LiesAt(e, input, at) /\ m = at + Len(e)
<1> PICK a : a = EncodeLength(major, n)
  OBVIOUS
<1>1. /\ a \in Seq(Octet) /\ LiesAt(a, input, at) /\ next = at + Len(a) /\ m = next + Len(t) /\ at \in Nat
      /\ t \in Seq(Octet) /\ input \in Seq(Octet) /\ LiesAt(t, input, at + Len(a)) /\ e = a \o t
  BY DEF Follows, CountLies
<1>2. LiesAt(a \o t, input, at)
  BY <1>1, BothLie
<1>3. Len(a \o t) = Len(a) + Len(t) /\ Len(a) \in Nat /\ Len(t) \in Nat
  BY <1>1, ConcatProperties, LenProperties
<1>4. m = at + Len(a \o t)
  BY <1>1, <1>3
<1> QED BY <1>1, <1>2, <1>4

\* The parts of a value that the writer writes as it is are such values.
LEMMA CleanParts == \A v \in Value : \A input : Clean(v, input) => \A part \in Parts(v) : Clean(part, input)
BY OrderedIs, EncodableIs DEF Clean

\* An array.
LEMMA ArrayWritten ==
  ASSUME NEW d \in 0..MaxDepth, NEW input \in Seq(Octet), NEW at \in 1..Len(input), NEW within,
         AllWritten(within, Below(d), input), Below(d) \subseteq Value,
         NEW r, r = ReadValue(input, at, within), Major(input, at) = 4
  PROVE  IsWritten(r, at, Nesting[d], input)
<1> PICK c : c = Count(input, at)
  OBVIOUS
<1>1. r = If(c.next # 0, ArrayRead(ReadItems(c.value, c.next, within)))
  <2>1. IsValueRead(r, input, at, within)
    BY ValueRead
  <2> QED BY <2>1 DEF IsValueRead
<1>2. CASE c.next = 0
  BY <1>1, <1>2, FailedIsWritten
<1>3. CASE c.next # 0
  <2>1. PICK n, next : CountLies(c, n, next, 4, input, at)
    BY <1>3, CountAt
  <2>2. c = Got(n, next) /\ n \in Nat /\ next \in 1..(Len(input) + 1) /\ c.value = n /\ c.next = next
    BY <2>1, ReadFields DEF CountLies
  <2> PICK items : items = ReadItems(n, next, within)
    OBVIOUS
  <2>3. r = If(items.next # 0, Got([array |-> items.value], items.next))
    BY <1>1, <1>3, <2>2 DEF ArrayRead, If
  <2>4. CASE items.next = 0
    BY <2>3, <2>4, FailedIsWritten
  <2>5. CASE items.next # 0
    <3>1. PICK s, m : IsRow(items, s, m, n, Below(d), next, input)
      BY <2>2, <2>5, RowWritten
    <3>2. s \in Seq(Below(d)) /\ Len(s) = n /\ DOMAIN s = 1..n /\ m \in 1..(Len(input) + 1)
      BY <3>1 DEF IsRow
    <3> PICK v : v = [array |-> s]
      OBVIOUS
    <3>3. IsArray(v, Below(d)) /\ v.array = s
      BY <3>2 DEF IsArray
    <3>4. v \in Nesting[d] /\ v \in Value /\ IsArray(v, Value)
      <4>1. v \in Nesting[d] /\ IsArray(v, Value)
        BY <3>3, ShapeOf, ShapesGrow
      <4> QED BY <4>1, NestingGrows
    <3>5. r = Got(v, m)
      <4>1. items.value = s /\ items.next = m
        BY <3>1, ReadFields DEF IsRow
      <4> QED BY <2>3, <2>5, <4>1 DEF If
    <3>6. ASSUME Clean(v, input) PROVE LiesAt(Encoding(v), input, at) /\ m = at + Len(Encoding(v))
      <4>1. \A i \in 1..n : Clean(s[i], input)
        <5>1. Parts(v) = {s[i] : i \in 1..n}
          BY <3>2, <3>3, PartsAre
        <5> QED BY <3>4, <3>6, <5>1, CleanParts
      <4>2. RowLies(s, m, next, input)
        BY <3>1, <4>1 DEF IsRow
      <4> PICK t : t = FlattenSeq(Items(s))
        OBVIOUS
      <4>3. Encoding(v) = EncodeLength(4, n) \o t
        BY <3>2, <3>3, <3>4, EncodingOf
      <4>4. t \in Seq(Octet) /\ LiesAt(t, input, next) /\ m = next + Len(t)
        BY <4>2 DEF RowLies
      <4> PICK e : e = Encoding(v)
        OBVIOUS
      <4>5. Follows(c, n, next, 4, input, at, t, m, e)
        BY <2>1, <4>3, <4>4 DEF Follows
      <4>6. LiesAt(e, input, at) /\ m = at + Len(e)
        BY <4>5, HeadAndRow
      <4> QED BY <4>6
    <3> QED BY <3>2, <3>4, <3>5, <3>6 DEF IsWritten, WasWritten
  <2> QED BY <2>4, <2>5
<1> QED BY <1>2, <1>3

\* The row of entries of a map, side by side, is the row of the encodings of its sides.
LEMMA SidesOfPairs ==
  ASSUME NEW sides, NEW n \in Nat, sides \in Seq(Value), Len(sides) = 2 * n, NEW pairs, pairs = Pairs(sides)
  PROVE  /\ Len(pairs) = n /\ pairs \in Seq(Value \X Value)
         /\ Sides(EntryRow(pairs)) = Items(sides)
<1>1. /\ pairs \in Seq(Value \X Value) /\ Len(pairs) = n
      /\ \A i \in 1..n : pairs[i][1] = sides[2 * i - 1] /\ pairs[i][2] = sides[2 * i]
  <2>1. AreSides(sides, n, Value)
    BY DEF AreSides
  <2>2. ArePairs(Pairs(sides), sides, n, Value)
    BY <2>1, PairsAre
  <2> QED BY <2>2 DEF ArePairs
<1> PICK h : h = EntryRow(pairs)
  OBVIOUS
<1>2. h = [i \in 1..n |-> <<Encoding(sides[2 * i - 1]), Encoding(sides[2 * i])>>]
  BY <1>1 DEF EntryRow
<1>3. n = Len(h) /\ \A i \in 1..n : h[i][1] = Encoding(sides[2 * i - 1]) /\ h[i][2] = Encoding(sides[2 * i])
  BY <1>2, LenProperties, SeqDef
<1>4. /\ DOMAIN Sides(h) = 1..(2 * n)
      /\ \A i \in 1..n : Sides(h)[2 * i - 1] = h[i][1] /\ Sides(h)[2 * i] = h[i][2]
  <2>1. n \in Nat /\ n = Len(h)
    BY <1>1, <1>3
  <2> QED BY ONLY <2>1, SidesAre
<1>5. Items(sides) = [k \in 1..(2 * n) |-> Encoding(sides[k])]
  <2>1. DOMAIN sides = 1..(2 * n)
    BY LenProperties
  <2> QED BY <2>1 DEF Items
<1>6. \A k \in 1..(2 * n) : Sides(h)[k] = Encoding(sides[k])
  <2> TAKE k \in 1..(2 * n)
  <2>1. PICK i \in 1..n : k = 2 * i - 1 \/ k = 2 * i
    BY SideOf
  <2>2. h[i][1] = Encoding(sides[2 * i - 1]) /\ h[i][2] = Encoding(sides[2 * i])
    BY <1>3
  <2>3. Sides(h)[2 * i - 1] = h[i][1] /\ Sides(h)[2 * i] = h[i][2]
    BY <1>4
  <2>4. CASE k = 2 * i - 1
    BY ONLY <2>2, <2>3, <2>4
  <2>5. CASE k = 2 * i
    BY ONLY <2>2, <2>3, <2>5
  <2> QED BY <2>1, <2>4, <2>5
<1>7. Sides(h) = [k \in 1..(2 * n) |-> Sides(h)[k]]
  BY <1>4 DEF Sides
<1>8. Sides(h) = Items(sides)
  BY <1>5, <1>6, <1>7
<1> QED BY <1>1, <1>8

\* A map.
LEMMA MapWritten ==
  ASSUME NEW d \in 0..MaxDepth, NEW input \in Seq(Octet), NEW at \in 1..Len(input), NEW within,
         AllWritten(within, Below(d), input), Below(d) \subseteq Value,
         NEW r, r = ReadValue(input, at, within), Major(input, at) = 5
  PROVE  IsWritten(r, at, Nesting[d], input)
<1> PICK c : c = Count(input, at)
  OBVIOUS
<1>1. r = If(c.next # 0, MapRead(ReadItems(2 * c.value, c.next, within)))
  <2>1. IsValueRead(r, input, at, within)
    BY ValueRead
  <2> QED BY <2>1 DEF IsValueRead
<1>2. CASE c.next = 0
  BY <1>1, <1>2, FailedIsWritten
<1>3. CASE c.next # 0
  <2>1. PICK n, next : CountLies(c, n, next, 5, input, at)
    BY <1>3, CountAt
  <2>2. c = Got(n, next) /\ n \in Nat /\ next \in 1..(Len(input) + 1) /\ c.value = n /\ c.next = next
    BY <2>1, ReadFields DEF CountLies
  <2> PICK items : items = ReadItems(2 * n, next, within)
    OBVIOUS
  <2> DEFINE good(pairs) == (\A i \in DOMAIN pairs : Encodable(pairs[i][1])) /\ DistinctKeys(pairs)
  <2>3. r = MapRead(items)
    BY <1>1, <1>3, <2>2 DEF If
  <2>4. CASE ~(items.next # 0 /\ good(Pairs(items.value)))
    BY <2>3, <2>4, FailedIsWritten DEF MapRead
  <2>5. CASE items.next # 0 /\ good(Pairs(items.value))
    <3>1. PICK s, m : IsRow(items, s, m, 2 * n, Below(d), next, input)
      <4>1. 2 * n \in Nat
        BY <2>2
      <4> PICK count : count = 2 * n
        OBVIOUS
      <4>2. Below(d) \in SUBSET Value /\ count \in Nat /\ items = ReadItems(count, next, within)
        BY <4>1
      <4>3. \E s, m : IsRow(items, s, m, count, Below(d), next, input)
        BY <2>2, <2>5, <4>2, RowWritten
      <4> QED BY <4>3
    <3>2. s \in Seq(Below(d)) /\ Len(s) = 2 * n /\ DOMAIN s = 1..(2 * n) /\ m \in 1..(Len(input) + 1) /\ items = Got(s, m)
      BY <3>1 DEF IsRow
    <3>3. s \in Seq(Value)
      BY <3>2, SeqWider
    <3> PICK pairs : pairs = Pairs(s)
      OBVIOUS
    <3>4. Len(pairs) = n /\ pairs \in Seq(Value \X Value) /\ Sides(EntryRow(pairs)) = Items(s)
      BY <2>2, <3>2, <3>3, SidesOfPairs
    <3>5. /\ pairs \in Seq(Below(d) \X Below(d)) /\ DOMAIN pairs = 1..n
          /\ \A i \in 1..n : pairs[i][1] = s[2 * i - 1] /\ pairs[i][2] = s[2 * i]
      <4>1. AreSides(s, n, Below(d))
        BY <2>2, <3>2 DEF AreSides
      <4>2. ArePairs(Pairs(s), s, n, Below(d))
        BY <4>1, PairsAre
      <4> QED BY <4>2 DEF ArePairs
    <3> PICK v : v = [map |-> pairs]
      OBVIOUS
    <3>6. IsMap(v, Below(d)) /\ v.map = pairs
      BY <3>5 DEF IsMap
    <3>7. v \in Nesting[d] /\ v \in Value /\ IsMap(v, Value)
      <4>1. v \in Nesting[d] /\ IsMap(v, Value)
        BY <3>6, ShapeOf, ShapesGrow
      <4> QED BY <4>1, NestingGrows
    <3>8. r = Got(v, m)
      <4>1. items.value = s /\ items.next = m
        BY <3>2, ReadFields
      <4> QED BY <2>3, <2>5, <4>1 DEF If, MapRead
    <3>9. ASSUME Clean(v, input) PROVE LiesAt(Encoding(v), input, at) /\ m = at + Len(Encoding(v))
      <4>1. \A k \in 1..(2 * n) : Clean(s[k], input)
        <5> TAKE k \in 1..(2 * n)
        <5>1. PICK i \in 1..n : k = 2 * i - 1 \/ k = 2 * i
          BY <2>2, SideOf
        <5>2. pairs[i][1] \in Parts(v) /\ pairs[i][2] \in Parts(v)
          <6>1. i \in DOMAIN v.map
            BY <3>5, <3>6
          <6>2. SideParts(v, i)
            BY <3>6, <6>1, SidesAreParts
          <6> QED BY <3>6, <6>2 DEF SideParts
        <5>3. s[k] \in Parts(v)
          <6>1. pairs[i][1] = s[2 * i - 1] /\ pairs[i][2] = s[2 * i]
            BY <3>5
          <6> QED BY <5>1, <5>2, <6>1
        <5> QED BY <3>7, <3>9, <5>3, CleanParts
      <4>2. RowLies(s, m, next, input)
        BY <3>1, <4>1 DEF IsRow
      <4> PICK t : t = FlattenSeq(Items(s))
        OBVIOUS
      <4>3. PICK k, h, g : IsLaid(v, k, h, g)
        BY <3>7, <3>9, EncodableLaid DEF Clean
      <4>4. g = h
        <5>1. InKeyOrder(v)
          BY <3>7, <3>9, OrderedIs DEF Clean
        <5> QED BY <3>7, <4>3, <5>1, OrderedLaid
      <4>5. Encoding(v) = EncodeLength(5, n) \o t
        BY <3>4, <3>6, <4>3, <4>4 DEF IsLaid
      <4>6. t \in Seq(Octet) /\ LiesAt(t, input, next) /\ m = next + Len(t)
        BY <4>2 DEF RowLies
      <4> PICK e : e = Encoding(v)
        OBVIOUS
      <4>7. Follows(c, n, next, 5, input, at, t, m, e)
        BY <2>1, <4>5, <4>6 DEF Follows
      <4>8. LiesAt(e, input, at) /\ m = at + Len(e)
        BY <4>7, HeadAndRow
      <4> QED BY <4>8
    <3> QED BY <3>2, <3>7, <3>8, <3>9 DEF IsWritten, WasWritten
  <2> QED BY <2>4, <2>5
<1> QED BY <1>2, <1>3

\* A value of any type.
LEMMA ValueWritten ==
  ASSUME NEW d \in 0..MaxDepth, NEW input \in Seq(Octet), NEW at \in 1..(Len(input) + 1), NEW within,
         AllWritten(within, Below(d), input), Below(d) \subseteq Value
  PROVE  IsWritten(ReadValue(input, at, within), at, Nesting[d], input)
<1> PICK r : r = ReadValue(input, at, within)
  OBVIOUS
<1>1. CASE at > Len(input)
  BY <1>1 DEF ReadValue, IsWritten
<1>2. CASE ~(at > Len(input))
  <2>1. at \in 1..Len(input)
    BY <1>2, LenProperties
  <2>2. Major(input, at) \in 0..7
    <3>1. input[at] \in Octet
      BY <2>1, ElementOfSeq
    <3> QED BY <3>1, InitialOf DEF Major
  <2>3. Simple \subseteq Nesting[d]
    BY ShapeOf
  <2>4. CASE Major(input, at) \in {0, 1, 2, 3, 7}
    <3>1. IsWritten(r, at, Simple, input)
      <4>1. CASE Major(input, at) \in {0, 1}
        BY <2>1, <4>1, NumberWritten
      <4>2. CASE Major(input, at) = 2
        BY <2>1, <4>2, BytesWritten
      <4>3. CASE Major(input, at) = 3
        BY <2>1, <4>3, TextWritten
      <4>4. CASE Major(input, at) = 7
        BY <2>1, <4>4, BooleanWritten
      <4> QED BY <2>4, <4>1, <4>2, <4>3, <4>4
    <3> QED BY <2>3, <3>1 DEF IsWritten
  <2>5. CASE Major(input, at) = 4
    BY <2>1, <2>5, ArrayWritten
  <2>6. CASE Major(input, at) = 5
    BY <2>1, <2>6, MapWritten
  <2>7. CASE Major(input, at) = 6
    <3>1. IsValueRead(r, input, at, within)
      BY <2>1, ValueRead
    <3> QED BY <2>7, <3>1 DEF IsValueRead, IsWritten
  <2>8. \A k \in 0..7 : k \in {0, 1, 2, 3, 7} \/ k = 4 \/ k = 5 \/ k = 6
    OBVIOUS
  <2> QED BY <2>2, <2>4, <2>5, <2>6, <2>7, <2>8
<1> QED BY <1>1, <1>2

\* So is everything that is read, at every depth.
LEMMA BelowGrows == \A d \in 0..MaxDepth : Below(d) \subseteq Value
<1> TAKE d \in 0..MaxDepth
<1>1. CASE d = 0
  BY <1>1 DEF Below
<1>2. CASE d # 0
  <2>1. d - 1 \in 0..MaxDepth
    BY <1>2, LayoutIs
  <2> QED BY <1>2, <2>1, NestingGrows DEF Below
<1> QED BY <1>1, <1>2

\* At every depth, what is read was written.
LEMMA AllAreWritten ==
  ASSUME NEW input \in Seq(Octet), NEW f, HasDecoded(input, f)
  PROVE  \A d \in 0..MaxDepth : AllWritten(Inner(input, f, d), Below(d), input) /\ AllWritten(f[d], Nesting[d], input)
<1> DEFINE S == {d \in Nat : d <= MaxDepth =>
                   AllWritten(Inner(input, f, d), Below(d), input) /\ AllWritten(f[d], Nesting[d], input)}
<1>1. ASSUME NEW d \in 0..MaxDepth, AllWritten(Inner(input, f, d), Below(d), input)
      PROVE  AllWritten(f[d], Nesting[d], input)
  <2> PICK within : within = Inner(input, f, d)
    OBVIOUS
  <2>1. f[d] = Reading(input, within) /\ Below(d) \subseteq Value
    BY BelowGrows DEF HasDecoded
  <2>2. ASSUME NEW at \in 1..(Len(input) + 1) PROVE IsWritten(f[d][at], at, Nesting[d], input)
    <3>1. f[d][at] = ReadValue(input, at, within)
      BY <2>1 DEF Reading
    <3> QED BY <1>1, <2>1, <3>1, ValueWritten
  <2> QED BY <2>2 DEF AllWritten
<1>2. 0 \in S
  <2>1. AllWritten(Inner(input, f, 0), Below(0), input)
    BY DEF Inner, NoReading, AllWritten, IsWritten
  <2>2. 0 \in 0..MaxDepth
    BY LayoutIs
  <2> QED BY <1>1, <2>1, <2>2
<1>3. ASSUME NEW d \in S PROVE d + 1 \in S
  <2> SUFFICES ASSUME d + 1 <= MaxDepth
               PROVE  AllWritten(Inner(input, f, d + 1), Below(d + 1), input) /\ AllWritten(f[d + 1], Nesting[d + 1], input)
    OBVIOUS
  <2>1. d \in Nat /\ d <= MaxDepth /\ d + 1 \in 0..MaxDepth /\ d + 1 # 0 /\ (d + 1) - 1 = d
    BY LayoutIs
  <2>2. AllWritten(f[d], Nesting[d], input)
    BY <2>1
  <2>3. AllWritten(Inner(input, f, d + 1), Below(d + 1), input)
    BY <2>1, <2>2 DEF Inner, Below
  <2> QED BY <1>1, <2>1, <2>3
<1>4. S = Nat
  <2> HIDE DEF S
  <2>1. S \in SUBSET Nat
    BY DEF S
  <2> QED BY <1>2, <1>3, <2>1, Induction
<1> QED BY <1>4, LayoutIs

\* Bytes that are read are the encoding of what was read.
THEOREM BytesAreWrittenBack == \A input \in Seq(Octet) : WritesBack(input)
<1> TAKE input \in Seq(Octet)
<1>1. PICK f : HasDecoded(input, f)
  BY DecodedIs
<1> PICK r : r = Decoded(input)
  OBVIOUS
<1> SUFFICES ASSUME r.next # 0, Ordered(r.value), Mark \notin ToSet(input), Encodable(r.value)
             PROVE  Encoding(r.value) = input
  BY DEF WritesBack
<1>2. r = f[MaxDepth][1] /\ r.next = Len(input) + 1
  <2> PICK whole : whole = If(Len(input) <= MaxBytes, f[MaxDepth][1])
    OBVIOUS
  <2>1. r = If(whole.next = Len(input) + 1, whole)
    BY <1>1 DEF HasDecoded
  <2>2. r = whole /\ r.next = Len(input) + 1 /\ whole # Failed
    BY <2>1, ReadFields DEF If
  <2> QED BY <2>2 DEF If
<1>3. Len(input) \in Nat /\ 1 \in 1..(Len(input) + 1) /\ MaxDepth \in 0..MaxDepth
  BY LayoutIs, LenProperties
<1>4. IsWritten(r, 1, Nesting[MaxDepth], input)
  BY <1>1, <1>2, <1>3, AllAreWritten DEF AllWritten
<1>5. PICK v \in Nesting[MaxDepth], m \in 1..(Len(input) + 1) : r = Got(v, m) /\ WasWritten(v, m, 1, input)
  BY <1>4, ReadFields DEF IsWritten
<1>6. r.value = v /\ m = Len(input) + 1
  BY <1>2, <1>5, ReadFields
<1>7. LiesAt(Encoding(v), input, 1) /\ m = 1 + Len(Encoding(v)) /\ v \in Value /\ Encodable(v)
  <2>1. Clean(v, input) /\ WasWritten(v, m, 1, input)
    BY <1>5, <1>6 DEF Clean
  <2> QED BY <1>5, <2>1 DEF WasWritten, Clean, Value
<1> PICK e : e = Encoding(v)
  OBVIOUS
<1>8. e \in Seq(Octet)
  BY <1>7, EncodingType DEF IsBytesOf
<1>9. Len(e) \in Nat /\ Len(e) = Len(input) /\ DOMAIN e = 1..Len(e) /\ DOMAIN input = 1..Len(input)
  BY <1>6, <1>7, <1>8, LenProperties
<1>10. \A k \in 1..Len(e) : input[k] = e[k]
  <2> TAKE k \in 1..Len(e)
  <2>1. (1 - 1) + k = k
    BY <1>9
  <2> QED BY <1>7, <2>1 DEF LiesAt
<1>11. e = input
  BY <1>8, <1>9, <1>10, SeqEqual
<1> QED BY <1>6, <1>11

-----------------------------------------------------------------------------
(* What was written is read back (cbor.ts) *)

\* A value that can be written and has no mark at the front of a text lies at a place.
Readable(v, at, input) == Encodable(v) /\ Unmarked(v) /\ LiesAt(Encoding(v), input, at)
\* It is read back there, up to the order of its maps.
SameWritten(v, w) == Encodable(w) /\ Encoding(w) = Encoding(v) /\ (Ordered(v) => w = v)
IsReread(r, v, at, V) == \E w \in V : r = Got(w, at + Len(Encoding(v))) /\ SameWritten(v, w)
AllReread(within, V, input) == \A v \in V, at \in 1..Len(input) : Readable(v, at, input) => IsReread(within[at], v, at, V)

\* The number in front of a value is read.
Headed(input, at, major, n, t, e) ==
  /\ input \in Seq(Octet) /\ major \in 0..7 /\ n \in Nat /\ n <= MaxSafe /\ t \in Seq(Octet)
  /\ e = EncodeLength(major, n) \o t /\ LiesAt(e, input, at)
HeadThen(input, at, major, n, t, e, next) ==
  /\ at \in 1..Len(input) /\ Major(input, at) = major /\ Len(input) \in Nat
  /\ next \in 1..(Len(input) + 1) /\ Length(input, at) = Got(n, next) /\ LiesAt(t, input, next)
  /\ next + Len(t) = at + Len(e) /\ next + Len(t) <= Len(input) + 1

\* The number in the head of an encoding is read as it is.
LEMMA NumberRead ==
  ASSUME NEW input, NEW at, NEW major, NEW n, NEW t, NEW e, Headed(input, at, major, n, t, e)
  PROVE  \E next : HeadThen(input, at, major, n, t, e, next)
<1> PICK a : a = EncodeLength(major, n)
  OBVIOUS
<1>0. /\ input \in Seq(Octet) /\ major \in 0..7 /\ n \in Nat /\ n <= MaxSafe /\ t \in Seq(Octet)
      /\ e = a \o t /\ LiesAt(a \o t, input, at)
  BY DEF Headed
<1>1. a \in Seq(Octet) /\ Len(a) >= 1
  BY <1>0, LengthType
<1>2. LiesAt(a, input, at) /\ LiesAt(t, input, at + Len(a))
  BY <1>0, <1>1, BothLie
<1>3. IsHead(input, at, major, n, at + Len(a))
  BY <1>0, <1>2, HeadRead
<1> PICK next : next = at + Len(a)
  OBVIOUS
<1>4. at \in 1..Len(input) /\ Major(input, at) = major /\ Length(input, at) = Got(n, next)
  BY <1>3 DEF IsHead, Major, Length, Additional
<1>5. Len(a \o t) = Len(a) + Len(t) /\ Len(a) \in Nat /\ Len(t) \in Nat /\ Len(input) \in Nat
  BY <1>0, <1>1, ConcatProperties, LenProperties
<1>6. next \in Nat /\ next >= 1 /\ (next - 1) + Len(t) <= Len(input)
  BY <1>2, <1>4, <1>5 DEF LiesAt
<1>7. next \in 1..(Len(input) + 1) /\ next + Len(t) <= Len(input) + 1 /\ next + Len(t) = at + Len(a \o t)
  BY <1>4, <1>5, <1>6
<1>8. HeadThen(input, at, major, n, t, e, next)
  BY <1>0, <1>2, <1>4, <1>5, <1>7 DEF HeadThen
<1> QED BY <1>8

\* A value without others in it.
LEMMA AsItWas == \A v, V, m, at : v \in V /\ Encodable(v) /\ m = at + Len(Encoding(v)) => IsReread(Got(v, m), v, at, V)
BY DEF IsReread, SameWritten

\* An integer that was written is read back.
LEMMA NumberReread ==
  ASSUME NEW input \in Seq(Octet), NEW at \in 1..Len(input), NEW within, NEW v, v \in Simple, IntValue(v), Readable(v, at, input)
  PROVE  IsReread(ReadValue(input, at, within), v, at, Simple)
<1> PICK r, e : r = ReadValue(input, at, within) /\ e = Encoding(v)
  OBVIOUS
<1>1. Encodable(v) /\ LiesAt(e, input, at) /\ v \in Value /\ IsValueRead(r, input, at, within)
  BY ValueRead, ValueIs DEF Readable
<1>2. v.int \in -MaxSafe..MaxSafe /\ v = [int |-> v.int] /\ v.int \in Int
  <2>1. WithinLimits(v) /\ Is(v, "int")
    BY <1>1, EncodableIs DEF Is, IntValue
  <2> QED BY <2>1 DEF WithinLimits, IntValue
<1> PICK major : major = IF v.int >= 0 THEN 0 ELSE 1
  OBVIOUS
<1> PICK n : n = IF v.int >= 0 THEN v.int ELSE -1 - v.int
  OBVIOUS
<1>3. major \in 0..7 /\ n \in Nat /\ n <= MaxSafe /\ v.int = IF major = 0 THEN n ELSE -1 - n
  BY <1>2, LayoutIs
<1>4. e = EncodeLength(major, n)
  BY <1>1, EncodingOf
<1>5. e = EncodeLength(major, n) \o <<>> /\ <<>> \in Seq(Octet) /\ Len(<<>>) = 0
  <2>1. EncodeLength(major, n) \in Seq(Octet)
    BY <1>3, LengthType
  <2> QED BY <1>4, <2>1, ConcatEmptySeq, EmptySeq
<1>6. Headed(input, at, major, n, <<>>, e)
  BY <1>1, <1>3, <1>5 DEF Headed
<1>7. PICK next : HeadThen(input, at, major, n, <<>>, e, next)
  BY <1>6, NumberRead
<1> PICK c : c = Length(input, at)
  OBVIOUS
<1>8. Major(input, at) = major /\ next \in 1..(Len(input) + 1) /\ c = Got(n, next) /\ next = at + Len(e)
  BY <1>5, <1>7 DEF HeadThen
<1>9. c.next = next /\ c.value = n /\ next # 0
  BY <1>8, ReadFields
<1>10. r = Got(v, next)
  <2>1. CASE major = 0
    <3>1. r = If(c.next # 0, Got([int |-> c.value], c.next))
      BY <1>1, <1>8, <2>1 DEF IsValueRead
    <3> QED BY <1>2, <1>3, <1>9, <2>1, <3>1 DEF If
  <2>2. CASE major = 1
    <3>1. r = If(c.next # 0, Got([int |-> -1 - c.value], c.next))
      BY <1>1, <1>8, <2>2 DEF IsValueRead
    <3>2. v = [int |-> -1 - n]
      BY <1>2, <1>3, <2>2
    <3> QED BY <1>9, <3>1, <3>2 DEF If
  <2> QED BY <2>1, <2>2
<1> QED BY <1>1, <1>8, <1>10, AsItWas

\* A boolean that was written is read back.
LEMMA BooleanReread ==
  ASSUME NEW input \in Seq(Octet), NEW at \in 1..Len(input), NEW within, NEW v, v \in Simple, BoolValue(v), Readable(v, at, input)
  PROVE  IsReread(ReadValue(input, at, within), v, at, Simple)
<1> PICK r : r = ReadValue(input, at, within)
  OBVIOUS
<1> PICK additional : additional = IF v.bool THEN Inline - 3 ELSE Inline - 4
  OBVIOUS
<1>1. Encodable(v) /\ LiesAt(Encoding(v), input, at) /\ v \in Value /\ IsValueRead(r, input, at, within)
  BY ValueRead, ValueIs DEF Readable
<1>2. Encoding(v) = <<Initial(7, additional)>>
  BY <1>1, EncodingOf
<1>3. v.bool \in BOOLEAN /\ v = [bool |-> v.bool]
  BY DEF BoolValue
<1>4. 7 \in 0..7 /\ additional \in Nat /\ additional < Inline + 8 /\ additional \in {Inline - 4, Inline - 3}
      /\ (additional = Inline - 3 <=> v.bool)
  <2>1. Inline \in Nat /\ Inline >= 4
    BY LayoutIs
  <2>2. additional \in {Inline - 4, Inline - 3} /\ (v.bool => additional = Inline - 3) /\ (~v.bool => additional = Inline - 4)
    OBVIOUS
  <2>3. additional \in Nat /\ additional < Inline + 8 /\ Inline - 4 # Inline - 3
    BY ONLY <2>1, <2>2
  <2> QED BY <1>3, <2>2, <2>3
<1>5. Major(input, at) = 7 /\ Additional(input, at) = additional
  <2> PICK b : b = Initial(7, additional)
    OBVIOUS
  <2>1. LiesAt(<<b>>, input, at)
    BY <1>1, <1>2
  <2>2. input[at] = b
    BY <2>1, FirstByte
  <2> QED BY <1>4, <2>2, InitialIs DEF Major, Additional
<1>6. r = Got(v, at + 1)
  <2>1. r = If(additional \in {Inline - 4, Inline - 3}, Got([bool |-> additional = Inline - 3], at + 1))
    BY <1>1, <1>5 DEF IsValueRead
  <2>2. v = [bool |-> additional = Inline - 3]
    BY <1>3, <1>4
  <2> QED BY <1>4, <2>1, <2>2 DEF If
<1>7. at + 1 = at + Len(Encoding(v))
  BY <1>2
<1> QED BY <1>1, <1>6, <1>7, AsItWas

\* Bytes behind their number are cut out.
LEMMA BytesRead ==
  ASSUME NEW input, NEW at, NEW major, NEW n, NEW t, NEW e, Headed(input, at, major, n, t, e), n = Len(t),
         Len(input) <= MaxSafe
  PROVE  /\ Bytes(input, at) = Got(t, at + Len(e)) /\ Major(input, at) = major
         /\ at + Len(e) # 0
<1>1. PICK next : HeadThen(input, at, major, n, t, e, next)
  BY NumberRead
<1>2. input \in Seq(Octet) /\ t \in Seq(Octet) /\ n \in Nat
  BY DEF Headed
<1>3. /\ at \in 1..Len(input) /\ Major(input, at) = major /\ Len(input) \in Nat
      /\ next \in 1..(Len(input) + 1) /\ Length(input, at) = Got(n, next) /\ LiesAt(t, input, next)
      /\ next + n = at + Len(e) /\ next + n <= Len(input) + 1
  BY <1>1 DEF HeadThen
<1> PICK c : c = Length(input, at)
  OBVIOUS
<1>4. c.next = next /\ c.value = n /\ next # 0 /\ n <= Len(input) /\ n <= Len(input) + 1 - next
  <2>1. c.next = next /\ c.value = n
    BY <1>3, ReadFields
  <2> QED BY <1>2, <1>3, <2>1
<1>5. ReadCount(input, at + 1, Additional(input, at), Len(input)) = Got(n, next)
  <2>1. c = ReadLength(input, at + 1, Additional(input, at))
    BY DEF Length
  <2>2. ReadCount(input, at + 1, Additional(input, at), Len(input)) =
          If(c.next # 0 /\ c.value <= Len(input) /\ c.value <= Len(input) + 1 - c.next, c)
    BY <2>1 DEF ReadCount
  <2> QED BY <1>3, <1>4, <2>2 DEF If
<1> PICK size : size = Got(n, next)
  OBVIOUS
<1>6. size.next = next /\ size.value = n
  BY ReadFields
<1>7. Bytes(input, at) = Got(SubSeq(input, next, next + n - 1), next + n)
  <2>1. Bytes(input, at) = If(size.next # 0, Got(SubSeq(input, size.next, size.next + size.value - 1), size.next + size.value))
    BY <1>5 DEF Bytes, ReadBytes
  <2> QED BY <1>4, <1>6, <2>1 DEF If
<1>8. SubSeq(input, next, next + n - 1) = t
  <2>1. PICK last : last = next + n - 1
    OBVIOUS
  <2>2. last = next + Len(t) - 1 /\ input \in Seq(Octet) /\ t \in Seq(Octet) /\ LiesAt(t, input, next)
    BY <1>2, <1>3, <2>1
  <2>3. SubSeq(input, next, last) = t
    BY ONLY <2>2, LyingIsCut
  <2> QED BY <2>1, <2>3
<1>9. next + n # 0
  BY <1>2, <1>3
<1> QED BY <1>3, <1>7, <1>8, <1>9

\* Bytes and texts that were written are read back.
LEMMA BytesReread ==
  ASSUME NEW input \in Seq(Octet), Len(input) <= MaxSafe, NEW at \in 1..Len(input), NEW within,
         NEW v, v \in Simple, BytesValue(v) \/ TextValue(v), Readable(v, at, input)
  PROVE  IsReread(ReadValue(input, at, within), v, at, Simple)
<1> PICK r, e : r = ReadValue(input, at, within) /\ e = Encoding(v)
  OBVIOUS
<1>1. Encodable(v) /\ Unmarked(v) /\ LiesAt(e, input, at) /\ v \in Value /\ IsValueRead(r, input, at, within)
  BY ValueRead, ValueIs DEF Readable
<1> PICK major, t : major = (IF BytesValue(v) THEN 2 ELSE 3) /\ t = (IF BytesValue(v) THEN v.bytes ELSE v.text)
  OBVIOUS
<1>2. /\ BytesValue(v) => major = 2 /\ t = v.bytes /\ v = [bytes |-> t] /\ e = EncodeLength(2, Len(t)) \o t
      /\ ~BytesValue(v) => /\ TextValue(v) /\ major = 3 /\ t = v.text /\ v = [text |-> t]
                        /\ e = EncodeLength(3, Len(t)) \o t
  BY <1>1, EncodingOf DEF BytesValue, TextValue
<1>3. t \in Seq(Octet) /\ (~BytesValue(v) => t \in Seq(TextUnit) /\ (t = <<>> \/ t[1] # Mark))
  <2>1. CASE BytesValue(v)
    BY <1>2, <2>1 DEF BytesValue
  <2>2. CASE ~BytesValue(v)
    <3>1. t \in Seq(TextUnit) /\ Is(v, "text")
      BY <1>2, <2>2 DEF TextValue, Is
    <3>2. Bare(v)
      BY <1>1, UnmarkedIs
    <3> QED BY <1>2, <2>2, <3>1, <3>2, TextBytes DEF Bare
  <2> QED BY <2>1, <2>2
<1>4. Len(t) \in Nat /\ Len(t) <= MaxSafe /\ major \in 0..7 /\ e = EncodeLength(major, Len(t)) \o t
  <2>1. Len(t) \in Nat /\ Len(input) \in Nat
    BY <1>3, LenProperties
  <2>2. major \in 0..7 /\ e = EncodeLength(major, Len(t)) \o t
    <3>1. major \in 2..3 /\ \A k \in 2..3 : k \in 0..7
      BY <1>2
    <3> QED BY <1>2, <3>1
  <2>3. Len(t) <= Len(input)
    <3> PICK a : a = EncodeLength(major, Len(t))
      OBVIOUS
    <3>1. a \in Seq(Octet)
      BY <2>1, <2>2, LengthType
    <3>2. Len(a \o t) = Len(a) + Len(t) /\ Len(a) \in Nat
      BY <1>3, <3>1, ConcatProperties, LenProperties
    <3>3. (at - 1) + Len(e) <= Len(input)
      BY <1>1 DEF LiesAt
    <3> PICK k, l, m : k = Len(a) /\ l = Len(t) /\ m = Len(input)
      OBVIOUS
    <3>4. k \in Nat /\ l \in Nat /\ m \in Nat /\ (at - 1) + (k + l) <= m /\ at \in Nat /\ at >= 1
      <4>1. e = a \o t
        BY <2>2
      <4>2. Len(e) = k + l
        BY <3>2, <4>1
      <4>3. at \in Nat /\ at >= 1
        OBVIOUS
      <4> QED BY <2>1, <3>2, <3>3, <4>2, <4>3
    <3>5. l <= m
      BY ONLY <3>4
    <3> QED BY <3>5
  <2> QED BY <2>1, <2>2, <2>3, LayoutIs
<1> PICK n : n = Len(t)
  OBVIOUS
<1>5. Headed(input, at, major, n, t, e)
  BY <1>1, <1>3, <1>4 DEF Headed
<1>6. Bytes(input, at) = Got(t, at + Len(e)) /\ Major(input, at) = major /\ at + Len(e) # 0
  BY <1>5, BytesRead
<1> PICK c : c = Bytes(input, at)
  OBVIOUS
<1>7. c.next = at + Len(e) /\ c.value = t /\ c.next # 0
  BY <1>6, ReadFields
<1>8. r = Got(v, at + Len(e))
  <2>1. CASE BytesValue(v)
    <3>1. r = If(c.next # 0, Got([bytes |-> c.value], c.next))
      BY <1>1, <1>2, <1>6, <2>1 DEF IsValueRead
    <3> QED BY <1>2, <1>7, <2>1, <3>1 DEF If
  <2>2. CASE ~BytesValue(v)
    <3>1. r = If(c.next # 0 /\ ValidText(c.value), Got([text |-> TextOf(c.value)], c.next))
      BY <1>1, <1>2, <1>6, <2>2 DEF IsValueRead
    <3>2. ValidText(t) /\ TextOf(t) = t
      BY <1>3, <2>2, ElementOfSeq, LenProperties DEF ValidText, TextOf
    <3> QED BY <1>2, <1>7, <2>2, <3>1, <3>2 DEF If
  <2> QED BY <2>1, <2>2
<1> QED BY <1>1, <1>8, AsItWas

\* Every simple value that was written is read back.
LEMMA SimpleReread ==
  ASSUME NEW input \in Seq(Octet), Len(input) <= MaxSafe, NEW at \in 1..Len(input), NEW within,
         NEW v \in Simple, Readable(v, at, input)
  PROVE  IsReread(ReadValue(input, at, within), v, at, Simple)
BY SimpleIs, NumberReread, BooleanReread, BytesReread

\* Values in a row that lie in the input.
RowToRead(u, n, V, within, at, input) ==
  /\ V \subseteq Value /\ input \in Seq(Octet) /\ n \in Nat /\ u \in Seq(V) /\ Len(u) = n
  /\ AllReread(within, V, input) /\ ReadAll(within, V, Len(input) + 1) /\ at \in 1..(Len(input) + 1)
  /\ \A i \in 1..n : Encodable(u[i]) /\ Unmarked(u[i])
  /\ LiesAt(FlattenSeq(Items(u)), input, at)
\* They are read as values that are written alike.
RowReread(u, ws, n, V, within, at) ==
  /\ ws \in Seq(V) /\ Len(ws) = n /\ DOMAIN ws = 1..n
  /\ ReadItems(n, at, within) = Got(ws, at + Len(FlattenSeq(Items(u)))) /\ at + n <= at + Len(FlattenSeq(Items(u)))
  /\ Items(ws) = Items(u) /\ \A i \in 1..n : SameWritten(u[i], ws[i])

\* A row of values that was written is read back, each as it was or with its maps in order.
LEMMA RowIsReread ==
  ASSUME NEW u, NEW n, NEW V, NEW within, NEW at, NEW input, RowToRead(u, n, V, within, at, input)
  PROVE  \E ws : RowReread(u, ws, n, V, within, at)
<1>0. /\ V \subseteq Value /\ input \in Seq(Octet) /\ n \in Nat /\ u \in Seq(V) /\ Len(u) = n
      /\ AllReread(within, V, input) /\ ReadAll(within, V, Len(input) + 1) /\ at \in 1..(Len(input) + 1)
      /\ \A i \in 1..n : Encodable(u[i]) /\ Unmarked(u[i])
      /\ LiesAt(FlattenSeq(Items(u)), input, at)
  BY DEF RowToRead
<1> PICK last : last = Len(input) + 1
  OBVIOUS
<1> PICK ss, flat : ss = Items(u) /\ flat = FlattenSeq(Items(u))
  OBVIOUS
<1>1. Len(input) \in Nat /\ last \in Nat /\ at \in Nat /\ at >= 1 /\ at - 1 <= Len(input) /\ at \in 1..last
  BY <1>0, LenProperties
<1>2. DOMAIN u = 1..n /\ \A i \in 1..n : u[i] \in V /\ IsBytesOf(u[i])
  <2>1. DOMAIN u = 1..n /\ \A i \in 1..n : u[i] \in V
    BY <1>0, LenProperties, ElementOfSeq
  <2> QED BY <1>0, <2>1, EncodingType
<1>3. ss \in Seq(Seq(Octet)) /\ Len(ss) = n /\ \A i \in 1..n : ss[i] = Encoding(u[i])
  BY <1>0, <1>2, ItemsType DEF IsBytesOf
<1>4. \A i \in 1..n : ss[i] \in Seq(Octet) /\ Len(ss[i]) \in Nat /\ Len(ss[i]) >= 1
  BY <1>2, <1>3, LenProperties DEF IsBytesOf
<1>5. PICK p \in [0..n -> Nat] : IsTrail(p, at, ss, n)
  BY <1>1, <1>3, TrailExists
<1>6. flat \in Seq(Octet) /\ p[n] = at + Len(flat) /\ LieAlong(ss, input, p, n)
  <2>1. n = Len(ss) /\ LiesAt(FlattenSeq(ss), input, at) /\ at \in Nat /\ at >= 1 /\ at - 1 <= Len(input)
    BY <1>0, <1>1, <1>3
  <2>2. /\ FlattenSeq(ss) \in Seq(Octet) /\ p[n] = at + Len(FlattenSeq(ss))
        /\ LiesAt(FlattenSeq(ss), input, at) <=> LieAlong(ss, input, p, n)
    <3>1. Trailing(ss, n, p, at, input)
      BY <1>0, <1>3, <1>5, <2>1 DEF Trailing
    <3>2. LieTogether(ss, n, p, at, input)
      BY <3>1, TrailingLies
    <3> QED BY <3>2 DEF LieTogether
  <2> QED BY <2>1, <2>2
<1>7. \A k \in 0..n : p[k] \in Nat /\ p[k] >= at + k
  BY <1>0, <1>1, <1>4, <1>5, TrailGrows
<1>8. ASSUME NEW k \in 1..n
      PROVE  /\ k - 1 \in 0..n /\ k \in 0..n /\ p[k - 1] \in 1..Len(input) /\ p[k] \in 1..last
             /\ p[k] = p[k - 1] + Len(Encoding(u[k])) /\ LiesAt(Encoding(u[k]), input, p[k - 1])
  <2> PICK l, a, b : l = Len(ss[k]) /\ a = p[k - 1] /\ b = p[k]
    OBVIOUS
  <2>1. k - 1 \in 0..n /\ k \in 0..n
    BY <1>0
  <2>2. b = a + l /\ LiesAt(ss[k], input, a) /\ l \in Nat /\ l >= 1
    BY <1>4, <1>5, <1>6 DEF IsTrail, LieAlong
  <2>3. a \in Nat /\ a >= 1 /\ (a - 1) + l <= Len(input)
    BY <2>2 DEF LiesAt
  <2>4. a \in 1..Len(input) /\ b \in 1..last
    <3> PICK e : e = Len(input)
      OBVIOUS
    <3>1. e \in Nat /\ last = e + 1
      BY <1>1
    <3>2. (a - 1) + l <= e
      BY <2>3, <3>1
    <3>3. a + l <= e + 1 /\ a <= e
      BY ONLY <2>2, <2>3, <3>1, <3>2
    <3>4. a \in 1..e
      BY ONLY <2>3, <3>1, <3>3
    <3>5. b \in 1..(e + 1)
      BY ONLY <2>2, <2>3, <3>1, <3>3
    <3> QED BY <3>1, <3>4, <3>5
  <2> QED BY <1>3, <2>1, <2>2, <2>4
<1>9. \A k \in 1..n : \E w \in V : within[p[k - 1]] = Got(w, p[k]) /\ SameWritten(u[k], w)
  <2> TAKE k \in 1..n
  <2>1. p[k - 1] \in 1..Len(input) /\ p[k] = p[k - 1] + Len(Encoding(u[k])) /\ LiesAt(Encoding(u[k]), input, p[k - 1])
    BY <1>8
  <2>2. Readable(u[k], p[k - 1], input) /\ u[k] \in V
    BY <1>0, <1>2, <2>1 DEF Readable
  <2>3. IsReread(within[p[k - 1]], u[k], p[k - 1], V)
    BY <1>0, <2>1, <2>2 DEF AllReread
  <2> QED BY <2>1, <2>3 DEF IsReread
<1> DEFINE chosen(k, w) == w \in V /\ within[p[k - 1]] = Got(w, p[k]) /\ SameWritten(u[k], w)
           c(k) == CHOOSE w : chosen(k, w)
           ws == [k \in 1..n |-> c(k)]
<1>10. \A k \in 1..n : chosen(k, c(k))
  <2> TAKE k \in 1..n
  <2>1. \E w : chosen(k, w)
    BY <1>9
  <2> HIDE DEF chosen
  <2> QED BY <2>1
<1> HIDE DEF c
<1>11. \A k \in 1..n : c(k) \in V /\ within[p[k - 1]] = Got(c(k), p[k]) /\ SameWritten(u[k], c(k))
  BY <1>10
<1> HIDE DEF chosen
<1>12. ws \in [1..n -> V] /\ \A k \in 1..n : ws[k] = c(k)
  BY <1>11
<1> HIDE DEF ws
<1>13. ws \in Seq(V) /\ Len(ws) = n /\ DOMAIN ws = 1..n
  <2>1. ws \in Seq(V)
    BY <1>0, <1>12, SeqDef
  <2> QED BY <1>0, <1>12, <2>1, LenProperties
<1>14. ItemsAt(ws, p, n, at, within)
  <2>1. p[0] = at
    BY <1>5 DEF IsTrail
  <2>2. \A k \in 1..n : within[p[k - 1]] = Got(ws[k], p[k])
    BY <1>11, <1>12
  <2> QED BY <2>1, <2>2 DEF ItemsAt
<1>15. ReadItems(n, at, within) = Got(ws, p[n])
  <2>1. \A k \in 0..n : p[k] \in 1..last
    <3> TAKE k \in 0..n
    <3>1. CASE k = 0
      BY <1>1, <1>5, <3>1 DEF IsTrail
    <3>2. CASE k # 0
      <4>1. k \in 1..n
        BY <1>0, <3>2
      <4> QED BY <1>8, <4>1
    <3> QED BY <3>1, <3>2
  <2>2. p \in [0..n -> 1..last]
    BY <1>5, <2>1
  <2>3. ItemsStand(ws, p, V, last, n, at, within)
    BY <1>0, <1>1, <1>13, <1>14, <2>2 DEF ItemsStand
  <2>4. AreReadAs(ws, p, n, at, within)
    BY <2>3, ItemsAreRead
  <2> QED BY <2>4 DEF AreReadAs
<1>16. \A i \in 1..n : SameWritten(u[i], ws[i])
  BY <1>11, <1>12
<1>17. Items(ws) = Items(u)
  <2>1. \A i \in 1..n : Encoding(ws[i]) = Encoding(u[i])
    BY <1>16 DEF SameWritten
  <2> QED BY <1>2, <1>13, <2>1 DEF Items
<1>18. at + n <= at + Len(flat)
  BY <1>0, <1>6, <1>7
<1>19. RowReread(u, ws, n, V, within, at)
  BY <1>6, <1>13, <1>15, <1>16, <1>17, <1>18 DEF RowReread
<1> QED BY <1>19

\* A count that is no more than what is behind it is read.
LEMMA CountRead ==
  ASSUME NEW input, NEW at, NEW major, NEW n, NEW t, NEW e, NEW next, HeadThen(input, at, major, n, t, e, next),
         n \in Nat, n <= MaxItems, Len(t) \in Nat, n <= Len(t)
  PROVE  Count(input, at) = Got(n, next)
<1> PICK c : c = Length(input, at)
  OBVIOUS
<1>1. /\ next \in 1..(Len(input) + 1) /\ c = Got(n, next) /\ Len(input) \in Nat
      /\ next + Len(t) <= Len(input) + 1
  BY DEF HeadThen
<1>2. c.next = next /\ c.value = n
  BY <1>1, ReadFields
<1>3. next # 0 /\ n <= Len(input) + 1 - next
  BY <1>1
<1>4. Count(input, at) = If(c.next # 0 /\ c.value <= MaxItems /\ c.value <= Len(input) + 1 - c.next, c)
  BY DEF Count, ReadCount, Length
<1> QED BY <1>1, <1>2, <1>3, <1>4 DEF If

\* An array.
ToRead(d, input, within, at) ==
  /\ d \in 0..MaxDepth /\ input \in Seq(Octet) /\ Len(input) <= MaxSafe /\ at \in 1..Len(input)
  /\ AllReread(within, Below(d), input) /\ ReadAll(within, Below(d), Len(input) + 1)

\* The parts of a value that can be written can be, and start with no mark if it does not.
LEMMA PartsReadable ==
  ASSUME NEW v \in Value, Encodable(v), Unmarked(v)
  PROVE  \A p \in Parts(v) : Encodable(p) /\ Unmarked(p)
BY EncodableIs, UnmarkedIs

\* An array that was written is read back.
LEMMA ArrayReread ==
  ASSUME NEW d, NEW input, NEW within, NEW at, ToRead(d, input, within, at),
         NEW v, v \in Nesting[d], IsArray(v, Below(d)), Readable(v, at, input)
  PROVE  IsReread(ReadValue(input, at, within), v, at, Nesting[d])
<1>0. /\ d \in 0..MaxDepth /\ input \in Seq(Octet) /\ Len(input) <= MaxSafe /\ at \in 1..Len(input)
      /\ AllReread(within, Below(d), input) /\ ReadAll(within, Below(d), Len(input) + 1) /\ Below(d) \subseteq Value
  BY BelowGrows DEF ToRead
<1> PICK r, e : r = ReadValue(input, at, within) /\ e = Encoding(v)
  OBVIOUS
<1>1. Encodable(v) /\ Unmarked(v) /\ LiesAt(e, input, at) /\ IsValueRead(r, input, at, within)
  BY <1>0, ValueRead DEF Readable
<1>2. v \in Value /\ IsArray(v, Value)
  BY <1>0, NestingGrows, ShapesGrow
<1> PICK u, n : u = v.array /\ n = Len(u)
  OBVIOUS
<1>3. u \in Seq(Below(d)) /\ v = [array |-> u] /\ n \in Nat /\ DOMAIN u = 1..n /\ Is(v, "array")
  BY LenProperties DEF IsArray, Is
<1>4. n <= MaxItems
  <2>1. WithinLimits(v)
    BY <1>1, <1>2, EncodableIs
  <2> QED BY <1>3, <2>1 DEF WithinLimits
<1>5. \A i \in 1..n : u[i] \in Parts(v) /\ Encodable(u[i]) /\ Unmarked(u[i])
  <2>1. Parts(v) = {u[i] : i \in 1..n}
    BY <1>3, PartsAre
  <2> QED BY <1>1, <1>2, <2>1, PartsReadable
<1> PICK t : t = FlattenSeq(Items(u))
  OBVIOUS
<1>6. t \in Seq(Octet) /\ Len(t) \in Nat
  <2>1. \A i \in 1..n : Encoding(u[i]) \in Seq(Octet)
    BY <1>2, <1>5, ValueIs, EncodingType DEF IsBytesOf
  <2>2. Items(u) \in Seq(Seq(Octet))
    BY <1>3, <2>1, ItemsType
  <2>3. t \in Seq(Octet)
    BY <2>2, FlattenType
  <2> QED BY <2>3, LenProperties
<1>7. e = EncodeLength(4, n) \o t
  BY <1>2, EncodingOf
<1>8. PICK next : HeadThen(input, at, 4, n, t, e, next)
  <2>1. n <= MaxSafe
    BY <1>3, <1>4, LayoutAssumption
  <2>2. 4 \in 0..7
    OBVIOUS
  <2>3. Headed(input, at, 4, n, t, e)
    BY <1>0, <1>1, <1>3, <1>6, <1>7, <2>1, <2>2 DEF Headed
  <2> QED BY <2>3, NumberRead
<1>9. Major(input, at) = 4 /\ next \in 1..(Len(input) + 1) /\ LiesAt(t, input, next) /\ next + Len(t) = at + Len(e)
  BY <1>8 DEF HeadThen
<1>10. PICK ws : RowReread(u, ws, n, Below(d), within, next)
  <2>1. RowToRead(u, n, Below(d), within, next, input)
    BY <1>0, <1>3, <1>5, <1>9 DEF RowToRead
  <2> QED BY <2>1, RowIsReread
<1>11. /\ ws \in Seq(Below(d)) /\ Len(ws) = n /\ DOMAIN ws = 1..n
       /\ ReadItems(n, next, within) = Got(ws, at + Len(e)) /\ next + n <= next + Len(t)
       /\ Items(ws) = Items(u) /\ \A i \in 1..n : SameWritten(u[i], ws[i])
  BY <1>9, <1>10 DEF RowReread
<1>12. Count(input, at) = Got(n, next)
  <2>1. n <= Len(t)
    BY <1>3, <1>6, <1>9, <1>11
  <2> QED BY <1>3, <1>4, <1>6, <1>8, <2>1, CountRead
<1> PICK w : w = [array |-> ws]
  OBVIOUS
<1>13. IsArray(w, Below(d)) /\ w.array = ws
  BY <1>11 DEF IsArray
<1>14. w \in Nesting[d] /\ w \in Value /\ IsArray(w, Value)
  <2>1. w \in Nesting[d] /\ IsArray(w, Value)
    BY <1>0, <1>13, ShapeOf, ShapesGrow
  <2> QED BY <1>0, <2>1, NestingGrows
<1>15. r = Got(w, at + Len(e))
  <2> PICK items, c, m : items = ReadItems(n, next, within) /\ c = Count(input, at) /\ m = at + Len(e)
    OBVIOUS
  <2>1. c.next = next /\ c.value = n /\ next # 0 /\ items.next = m /\ items.value = ws
    <3>1. next # 0
      BY <1>9
    <3> QED BY <1>11, <1>12, <3>1, ReadFields
  <2>2. m # 0
    <3>1. m = next + Len(t)
      BY <1>9
    <3> QED BY <1>6, <1>9, <3>1
  <2>3. r = If(c.next # 0, ArrayRead(ReadItems(c.value, c.next, within)))
    BY <1>1, <1>9 DEF IsValueRead
  <2> QED BY <2>1, <2>2, <2>3 DEF If, ArrayRead
<1>16. Encoding(w) = e
  <2>1. Encoding(w) = EncodeLength(4, n) \o FlattenSeq(Items(ws))
    BY <1>11, <1>13, <1>14, EncodingOf
  <2> QED BY <1>7, <1>11, <2>1
<1>17. Encodable(w)
  <2>1. \A p \in Parts(w) : Encodable(p)
    <3>1. Parts(w) = {ws[i] : i \in 1..n}
      BY <1>11, <1>13, PartsAre
    <3> QED BY <1>11, <3>1 DEF SameWritten
  <2>2. WithinLimits(w)
    <3>1. DOMAIN w = {"array"}
      BY <1>13 DEF IsArray
    <3> QED BY <1>4, <1>11, <1>13, <3>1 DEF WithinLimits, Is
  <2> QED BY <1>14, <2>1, <2>2, EncodableIs
<1>18. ASSUME Ordered(v) PROVE w = v
  <2>1. \A i \in 1..n : ws[i] = u[i]
    <3>1. \A p \in Parts(v) : Ordered(p)
      BY <1>2, <1>18, OrderedIs
    <3> QED BY <1>5, <1>11, <3>1 DEF SameWritten
  <2>2. ws = u
    BY <1>3, <1>11, <2>1, SeqEqual
  <2> QED BY <1>3, <2>2
<1> QED BY <1>14, <1>15, <1>16, <1>17, <1>18 DEF IsReread, SameWritten

\* Pairs are the pairs of their sides.
LEMMA PairsOfSides ==
  ASSUME NEW V, NEW n \in Nat, NEW pairs \in Seq(V \X V), Len(pairs) = n
  PROVE  Sides(pairs) \in Seq(V) /\ Len(Sides(pairs)) = 2 * n /\ Pairs(Sides(pairs)) = pairs
<1>1. DOMAIN pairs = 1..n /\ \A i \in 1..n : pairs[i] \in V \X V
  BY LenProperties, ElementOfSeq
<1>2. \A i \in 1..n : pairs[i][1] \in V /\ pairs[i][2] \in V /\ pairs[i] = <<pairs[i][1], pairs[i][2]>>
  BY <1>1
<1> PICK s : s = Sides(pairs)
  OBVIOUS
<1>3. s \in Seq(V) /\ Len(s) = 2 * n
  BY <1>2, SidesType
<1>4. \A i \in 1..n : s[2 * i - 1] = pairs[i][1] /\ s[2 * i] = pairs[i][2]
  BY SidesAre
<1>5. ArePairs(Pairs(s), s, n, V)
  BY <1>3, PairsAre DEF AreSides
<1> PICK q : q = Pairs(s)
  OBVIOUS
<1>6. /\ q \in Seq(V \X V) /\ Len(q) = n
      /\ \A i \in 1..n : q[i] = <<s[2 * i - 1], s[2 * i]>>
  BY <1>5 DEF ArePairs
<1>7. \A i \in 1..n : q[i] = pairs[i]
  BY <1>2, <1>4, <1>6
<1>8. q = pairs
  BY <1>6, <1>7, SeqEqual
<1> QED BY <1>3, <1>8

\* The pairs of a map as they are laid out.
LaidPairs(v, n, h, g, pairs, u, V) ==
  /\ pairs \in Seq(V \X V) /\ Len(pairs) = n /\ u = Sides(pairs) /\ u \in Seq(V) /\ Len(u) = 2 * n /\ Pairs(u) = pairs
  /\ EntryRow(pairs) = g /\ Items(u) = Sides(g) /\ \A k \in 1..(2 * n) : u[k] \in Parts(v)
  /\ g = h => pairs = v.map

\* The entries of a map, in the order they are written, are the encodings of some of its pairs.
LEMMA PairsAreLaid ==
  ASSUME NEW V, V \subseteq Value, NEW v, IsMap(v, V), NEW n, NEW h, NEW g, IsLaid(v, n, h, g)
  PROVE  \E pairs, u : LaidPairs(v, n, h, g, pairs, u, V)
<1> PICK m : m = v.map
  OBVIOUS
<1>1. /\ n \in Nat /\ n = Len(m) /\ h = EntryRow(m) /\ HasKeys(h, n) /\ g \in [1..n -> Row(h, n)]
      /\ m \in Seq(V \X V)
  BY DEF IsLaid, IsMap
<1>2. DOMAIN m = 1..n /\ \A i \in 1..n : m[i] \in V \X V /\ h[i] = <<Encoding(m[i][1]), Encoding(m[i][2])>>
  <2>1. \A i \in 1..n : h[i] = <<Encoding(m[i][1]), Encoding(m[i][2])>>
    BY <1>1 DEF EntryRow
  <2> QED BY <1>1, <2>1, LenProperties, ElementOfSeq
<1> DEFINE q(i) == CHOOSE j \in 1..n : g[i] = h[j]
<1>3. \A i \in 1..n : q(i) \in 1..n /\ g[i] = h[q(i)]
  <2> TAKE i \in 1..n
  <2>1. g[i] \in Row(h, n)
    BY <1>1
  <2>2. \E j \in 1..n : g[i] = h[j]
    BY <2>1 DEF Row
  <2> QED BY <2>2
<1> HIDE DEF q
<1> DEFINE pairs == [i \in 1..n |-> m[q(i)]]
<1>4. pairs \in [1..n -> V \X V] /\ \A i \in 1..n : pairs[i] = m[q(i)]
  BY <1>2, <1>3
<1> HIDE DEF pairs
<1>5. pairs \in Seq(V \X V) /\ Len(pairs) = n /\ DOMAIN pairs = 1..n
  <2>1. pairs \in Seq(V \X V)
    BY <1>1, <1>4, SeqDef
  <2> QED BY <1>1, <1>4, <2>1, LenProperties
<1> PICK u : u = Sides(pairs)
  OBVIOUS
<1>6. u \in Seq(V) /\ Len(u) = 2 * n /\ Pairs(u) = pairs
  BY <1>1, <1>5, PairsOfSides
<1>7. EntryRow(pairs) = g
  <2>1. EntryRow(pairs) = [i \in 1..n |-> <<Encoding(pairs[i][1]), Encoding(pairs[i][2])>>]
    BY <1>5 DEF EntryRow
  <2>2. \A i \in 1..n : <<Encoding(pairs[i][1]), Encoding(pairs[i][2])>> = g[i]
    BY <1>2, <1>3, <1>4
  <2>3. g = [i \in 1..n |-> g[i]]
    BY <1>1
  <2> QED BY <2>1, <2>2, <2>3
<1>8. Items(u) = Sides(g)
  <2>1. u \in Seq(Value) /\ pairs = Pairs(u)
    BY <1>6, SeqWider
  <2>2. Sides(EntryRow(pairs)) = Items(u)
    BY <1>1, <1>6, <2>1, SidesOfPairs
  <2> QED BY <1>7, <2>2
<1>9. \A k \in 1..(2 * n) : u[k] \in Parts(v)
  <2> TAKE k \in 1..(2 * n)
  <2>1. PICK i \in 1..n : k = 2 * i - 1 \/ k = 2 * i
    BY <1>1, SideOf
  <2>2. u[2 * i - 1] = m[q(i)][1] /\ u[2 * i] = m[q(i)][2]
    <3>1. u[2 * i - 1] = pairs[i][1] /\ u[2 * i] = pairs[i][2]
      BY <1>1, <1>5, SidesAre
    <3>2. pairs[i] = m[q(i)]
      BY <1>4
    <3> QED BY <3>1, <3>2
  <2>3. SideParts(v, q(i))
    BY <1>2, <1>3, SidesAreParts
  <2>4. m[q(i)][1] \in Parts(v) /\ m[q(i)][2] \in Parts(v)
    BY <2>3 DEF SideParts
  <2> QED BY <2>1, <2>2, <2>4
<1>10. ASSUME g = h PROVE pairs = m
  <2>1. \A i \in 1..n : q(i) = i
    <3> TAKE i \in 1..n
    <3>1. h[i] = h[q(i)] /\ q(i) \in 1..n
      BY <1>3, <1>10
    <3>2. h[i][1] = h[q(i)][1]
      BY <3>1
    <3> QED BY <1>1, <3>1, <3>2 DEF HasKeys
  <2>2. \A i \in 1..n : pairs[i] = m[i]
    BY <1>4, <2>1
  <2> QED BY <1>1, <1>5, <2>2, SeqEqual
<1>11. LaidPairs(v, n, h, g, pairs, u, V)
  BY <1>5, <1>6, <1>7, <1>8, <1>9, <1>10 DEF LaidPairs
<1> QED BY <1>11

\* The keys of a map as it is laid out differ.
LEMMA LaidKeysDiffer ==
  ASSUME NEW v, NEW n, NEW h, NEW g, IsLaid(v, n, h, g)
  PROVE  \A i, j \in 1..n : i # j => g[i][1] # g[j][1]
<1>1. n \in Nat /\ HasKeys(h, n) /\ g \in [1..n -> Row(h, n)] /\ AreSorted(g, n)
  BY DEF IsLaid
<1>2. \A i \in 1..n : g[i][1] \in Seq(Octet)
  <2> TAKE i \in 1..n
  <2>1. g[i] \in Row(h, n)
    BY <1>1
  <2>2. PICK j \in 1..n : g[i] = h[j]
    BY <2>1 DEF Row
  <2> QED BY <1>1, <2>2 DEF HasKeys
<1> TAKE i, j \in 1..n
<1>3. i < j \/ j < i \/ i = j
  BY <1>1
<1> QED BY <1>1, <1>2, <1>3, BeforeStrict DEF AreSorted

\* A map.
LEMMA MapReread ==
  ASSUME NEW d, NEW input, NEW within, NEW at, ToRead(d, input, within, at),
         NEW v, v \in Nesting[d], IsMap(v, Below(d)), Readable(v, at, input)
  PROVE  IsReread(ReadValue(input, at, within), v, at, Nesting[d])
<1>0. /\ d \in 0..MaxDepth /\ input \in Seq(Octet) /\ Len(input) <= MaxSafe /\ at \in 1..Len(input)
      /\ AllReread(within, Below(d), input) /\ ReadAll(within, Below(d), Len(input) + 1) /\ Below(d) \subseteq Value
  BY BelowGrows DEF ToRead
<1> PICK r, e : r = ReadValue(input, at, within) /\ e = Encoding(v)
  OBVIOUS
<1>1. Encodable(v) /\ Unmarked(v) /\ LiesAt(e, input, at) /\ IsValueRead(r, input, at, within)
  BY <1>0, ValueRead DEF Readable
<1>2. v \in Value /\ IsMap(v, Value)
  BY <1>0, NestingGrows, ShapesGrow
<1>3. PICK n, h, g : IsLaid(v, n, h, g)
  BY <1>1, <1>2, EncodableLaid
<1>4. PICK pairs, u : LaidPairs(v, n, h, g, pairs, u, Below(d))
  BY <1>0, <1>3, PairsAreLaid
<1> PICK k : k = 2 * n
  OBVIOUS
<1>5. /\ n \in Nat /\ k \in Nat /\ n = Len(v.map) /\ v = [map |-> v.map] /\ Is(v, "map")
      /\ v.map \in Seq(Below(d) \X Below(d))
      /\ g = InOrder(Row(h, n)) /\ Row(g, n) = Row(h, n) /\ Sides(g) \in Seq(Seq(Octet))
      /\ e = EncodeLength(5, n) \o FlattenSeq(Sides(g))
  BY <1>3 DEF IsLaid, IsMap, Is
<1>6. /\ pairs \in Seq(Below(d) \X Below(d)) /\ Len(pairs) = n /\ u \in Seq(Below(d)) /\ Len(u) = k /\ Pairs(u) = pairs
      /\ EntryRow(pairs) = g /\ Items(u) = Sides(g) /\ (\A i \in 1..k : u[i] \in Parts(v)) /\ u = Sides(pairs)
      /\ g = h => pairs = v.map
  BY <1>4 DEF LaidPairs
<1>7. n <= MaxItems
  <2>1. WithinLimits(v)
    BY <1>1, <1>2, EncodableIs
  <2> QED BY <1>5, <2>1 DEF WithinLimits
<1>8. \A i \in 1..k : Encodable(u[i]) /\ Unmarked(u[i])
  BY <1>1, <1>2, <1>6, PartsReadable
<1> PICK t : t = FlattenSeq(Items(u))
  OBVIOUS
<1>9. t \in Seq(Octet) /\ Len(t) \in Nat
  <2>1. t \in Seq(Octet)
    BY <1>5, <1>6, FlattenType
  <2> QED BY <2>1, LenProperties
<1>10. PICK next : HeadThen(input, at, 5, n, t, e, next)
  <2>1. n <= MaxSafe
    BY <1>5, <1>7, LayoutAssumption
  <2>2. 5 \in 0..7
    OBVIOUS
  <2>3. Headed(input, at, 5, n, t, e)
    BY <1>0, <1>1, <1>5, <1>6, <1>9, <2>1, <2>2 DEF Headed
  <2> QED BY <2>3, NumberRead
<1>11. Major(input, at) = 5 /\ next \in 1..(Len(input) + 1) /\ LiesAt(t, input, next) /\ next + Len(t) = at + Len(e)
  BY <1>10 DEF HeadThen
<1>12. PICK ws : RowReread(u, ws, k, Below(d), within, next)
  <2>1. RowToRead(u, k, Below(d), within, next, input)
    BY <1>0, <1>5, <1>6, <1>8, <1>11 DEF RowToRead
  <2> QED BY <2>1, RowIsReread
<1>13. /\ ws \in Seq(Below(d)) /\ Len(ws) = k /\ DOMAIN ws = 1..k
       /\ ReadItems(k, next, within) = Got(ws, at + Len(e)) /\ next + k <= next + Len(t)
       /\ Items(ws) = Items(u) /\ \A i \in 1..k : SameWritten(u[i], ws[i])
  BY <1>11, <1>12 DEF RowReread
<1>14. Count(input, at) = Got(n, next)
  <2>1. n <= Len(t)
    BY <1>5, <1>9, <1>11, <1>13
  <2> QED BY <1>5, <1>7, <1>9, <1>10, <2>1, CountRead
<1> PICK back : back = Pairs(ws)
  OBVIOUS
<1>15. /\ back \in Seq(Below(d) \X Below(d)) /\ Len(back) = n /\ DOMAIN back = 1..n
       /\ \A i \in 1..n : back[i][1] = ws[2 * i - 1] /\ back[i][2] = ws[2 * i]
  <2>1. AreSides(ws, n, Below(d))
    BY <1>5, <1>13 DEF AreSides
  <2>2. ArePairs(Pairs(ws), ws, n, Below(d))
    BY <2>1, PairsAre
  <2> QED BY <2>2 DEF ArePairs
<1>16. \A i \in 1..n : /\ 2 * i - 1 \in 1..k /\ 2 * i \in 1..k
                       /\ u[2 * i - 1] = pairs[i][1] /\ u[2 * i] = pairs[i][2]
  BY <1>5, <1>6, SidesAre
<1>17. \A i \in 1..n : /\ Encodable(back[i][1]) /\ Encodable(back[i][2])
                       /\ Encoding(back[i][1]) = Encoding(pairs[i][1]) /\ Encoding(back[i][2]) = Encoding(pairs[i][2])
  BY <1>13, <1>15, <1>16 DEF SameWritten
<1>18. EntryRow(back) = g
  <2>1. EntryRow(back) = [i \in 1..n |-> <<Encoding(back[i][1]), Encoding(back[i][2])>>]
    BY <1>15 DEF EntryRow
  <2>2. EntryRow(pairs) = [i \in 1..n |-> <<Encoding(pairs[i][1]), Encoding(pairs[i][2])>>]
    BY <1>6 DEF EntryRow
  <2> QED BY <1>6, <1>17, <2>1, <2>2
<1>19. DistinctKeys(back)
  <2>1. \A i \in 1..n : g[i][1] = Encoding(back[i][1])
    BY <1>15, <1>18 DEF EntryRow
  <2>2. \A i, j \in 1..n : i # j => g[i][1] # g[j][1]
    BY <1>3, LaidKeysDiffer
  <2> QED BY <1>15, <2>1, <2>2 DEF DistinctKeys
<1> PICK w : w = [map |-> back]
  OBVIOUS
<1>20. IsMap(w, Below(d)) /\ w.map = back
  BY <1>15 DEF IsMap
<1>21. w \in Nesting[d] /\ w \in Value /\ IsMap(w, Value)
  <2>1. w \in Nesting[d] /\ IsMap(w, Value)
    BY <1>0, <1>20, ShapeOf, ShapesGrow
  <2> QED BY <1>0, <2>1, NestingGrows
<1>22. r = Got(w, at + Len(e))
  <2> PICK items, c, m : items = ReadItems(k, next, within) /\ c = Count(input, at) /\ m = at + Len(e)
    OBVIOUS
  <2>1. c.next = next /\ c.value = n /\ next # 0 /\ items.next = m /\ items.value = ws
    <3>1. next # 0
      BY <1>11
    <3> QED BY <1>13, <1>14, <3>1, ReadFields
  <2>2. m # 0
    <3>1. m = next + Len(t)
      BY <1>11
    <3> QED BY <1>9, <1>11, <3>1
  <2>3. r = If(c.next # 0, MapRead(ReadItems(2 * c.value, c.next, within)))
    BY <1>1, <1>11 DEF IsValueRead
  <2>4. r = MapRead(items)
    BY <2>1, <2>3 DEF If
  <2>5. \A i \in DOMAIN back : Encodable(back[i][1])
    BY <1>15, <1>17
  <2> QED BY <1>19, <2>1, <2>2, <2>4, <2>5 DEF If, MapRead
<1>23. Encoding(w) = e
  <2>1. Encoding(w) = EncodeLength(5, n) \o FlattenSeq(Sides(InOrder(Row(EntryRow(back), n))))
    BY <1>15, <1>20, <1>21, EncodingOf
  <2> QED BY <1>5, <1>18, <2>1
<1>24. Encodable(w)
  <2>1. \A p \in Parts(w) : Encodable(p)
    <3> TAKE p \in Parts(w)
    <3>1. IsSide(w, p)
      BY <1>20, PartsAreSides
    <3>2. PICK i \in 1..n : p = back[i][1] \/ p = back[i][2]
      BY <1>15, <1>20, <3>1 DEF IsSide
    <3> QED BY <1>17, <3>2
  <2>2. WithinLimits(w)
    <3>1. DOMAIN w = {"map"}
      BY <1>20 DEF IsMap
    <3> QED BY <1>7, <1>15, <1>19, <1>20, <3>1 DEF WithinLimits, Is
  <2> QED BY <1>21, <2>1, <2>2, EncodableIs
<1>25. ASSUME Ordered(v) PROVE w = v
  <2>1. InKeyOrder(v) /\ \A p \in Parts(v) : Ordered(p)
    BY <1>2, <1>25, OrderedIs
  <2>2. g = h
    BY <1>2, <1>3, <2>1, OrderedLaid
  <2>3. \A i \in 1..k : ws[i] = u[i]
    BY <1>6, <1>13, <2>1 DEF SameWritten
  <2>4. ws = u
    BY <1>6, <1>13, <2>3, SeqEqual
  <2>5. back = v.map
    BY <1>6, <2>2, <2>4
  <2> QED BY <1>5, <2>5
<1> QED BY <1>21, <1>22, <1>23, <1>24, <1>25 DEF IsReread, SameWritten

\* A value of any type, at every depth.
LEMMA ValueReread ==
  ASSUME NEW d, NEW input, NEW within, NEW at, ToRead(d, input, within, at),
         NEW v \in Nesting[d], Readable(v, at, input)
  PROVE  IsReread(ReadValue(input, at, within), v, at, Nesting[d])
<1>1. d \in 0..MaxDepth /\ input \in Seq(Octet) /\ Len(input) <= MaxSafe /\ at \in 1..Len(input)
  BY DEF ToRead
<1>2. CASE v \in Simple
  <2>1. IsReread(ReadValue(input, at, within), v, at, Simple)
    BY <1>1, <1>2, SimpleReread
  <2>2. Simple \subseteq Nesting[d]
    BY <1>1, ShapeOf
  <2> QED BY <2>1, <2>2 DEF IsReread
<1>3. CASE IsArray(v, Below(d))
  BY <1>3, ArrayReread
<1>4. CASE IsMap(v, Below(d))
  BY <1>4, MapReread
<1> QED BY <1>1, <1>2, <1>3, <1>4, ShapeOf

\* At every depth, what was written is read back.
LEMMA AllAreReread ==
  ASSUME NEW input \in Seq(Octet), Len(input) <= MaxSafe, NEW f, HasDecoded(input, f)
  PROVE  \A d \in 0..MaxDepth : AllReread(Inner(input, f, d), Below(d), input) /\ AllReread(f[d], Nesting[d], input)
<1> DEFINE S == {d \in Nat : d <= MaxDepth =>
                   AllReread(Inner(input, f, d), Below(d), input) /\ AllReread(f[d], Nesting[d], input)}
<1>1. ASSUME NEW d \in 0..MaxDepth, AllReread(Inner(input, f, d), Below(d), input)
      PROVE  AllReread(f[d], Nesting[d], input)
  <2> PICK within : within = Inner(input, f, d)
    OBVIOUS
  <2>1. f[d] = Reading(input, within)
    BY DEF HasDecoded
  <2>2. ReadAll(within, Below(d), Len(input) + 1)
    BY AllAreWritten, WrittenIsRead
  <2>3. ASSUME NEW v \in Nesting[d], NEW at \in 1..Len(input), Readable(v, at, input)
        PROVE  IsReread(f[d][at], v, at, Nesting[d])
    <3>1. at \in 1..(Len(input) + 1)
      BY LenProperties
    <3>2. f[d][at] = ReadValue(input, at, within)
      BY <2>1, <3>1 DEF Reading
    <3>3. ToRead(d, input, within, at)
      BY <1>1, <2>2 DEF ToRead
    <3> QED BY <2>3, <3>2, <3>3, ValueReread
  <2> QED BY <2>3 DEF AllReread
<1>2. 0 \in S
  <2>1. AllReread(Inner(input, f, 0), Below(0), input)
    BY DEF Below, AllReread
  <2>2. 0 \in 0..MaxDepth
    BY LayoutIs
  <2> QED BY <1>1, <2>1, <2>2
<1>3. ASSUME NEW d \in S PROVE d + 1 \in S
  <2> SUFFICES ASSUME d + 1 <= MaxDepth
               PROVE  AllReread(Inner(input, f, d + 1), Below(d + 1), input) /\ AllReread(f[d + 1], Nesting[d + 1], input)
    OBVIOUS
  <2>1. d \in Nat /\ d <= MaxDepth /\ d + 1 \in 0..MaxDepth /\ d + 1 # 0 /\ (d + 1) - 1 = d
    BY LayoutIs
  <2>2. AllReread(f[d], Nesting[d], input)
    BY <2>1
  <2>3. AllReread(Inner(input, f, d + 1), Below(d + 1), input)
    BY <2>1, <2>2 DEF Inner, Below
  <2> QED BY <1>1, <2>1, <2>3
<1>4. S = Nat
  <2> HIDE DEF S
  <2>1. S \in SUBSET Nat
    BY DEF S
  <2> QED BY <1>2, <1>3, <2>1, Induction
<1> QED BY <1>4, LayoutIs

\* The encoding of a value is read as a value that is written alike.
LEMMA EncodingIsRead ==
  ASSUME NEW v \in Value, Encodable(v), Unmarked(v), NEW input, input = Encoding(v), Len(input) <= MaxBytes
  PROVE  \E w : Decoded(input) = Got(w, Len(input) + 1) /\ SameWritten(v, w) /\ Len(input) \in Nat
<1>1. input \in Seq(Octet) /\ Len(input) >= 1 /\ Len(input) \in Nat
  BY EncodingType, LenProperties DEF IsBytesOf
<1>2. Len(input) <= MaxSafe
  BY <1>1, LayoutAssumption
<1>3. PICK f : HasDecoded(input, f)
  BY DecodedIs
<1>4. LiesAt(input, input, 1)
  <2>1. \A k \in 1..Len(input) : (1 - 1) + k = k
    BY <1>1
  <2> QED BY <1>1, <2>1 DEF LiesAt
<1>5. Readable(v, 1, input) /\ 1 \in 1..Len(input) /\ MaxDepth \in 0..MaxDepth
  BY <1>1, <1>4, LayoutIs DEF Readable
<1>6. IsReread(f[MaxDepth][1], v, 1, Value)
  <2>1. AllReread(f[MaxDepth], Value, input)
    BY <1>1, <1>2, <1>3, <1>5, AllAreReread DEF Value
  <2> QED BY <1>5, <2>1 DEF AllReread
<1>7. PICK w : f[MaxDepth][1] = Got(w, 1 + Len(input)) /\ SameWritten(v, w)
  BY <1>6 DEF IsReread
<1> PICK m : m = Len(input) + 1
  OBVIOUS
<1>8. f[MaxDepth][1] = Got(w, m)
  <2>1. 1 + Len(input) = m
    BY <1>1
  <2> QED BY <1>7, <2>1
<1>9. Decoded(input) = Got(w, m)
  <2> PICK whole : whole = If(Len(input) <= MaxBytes, f[MaxDepth][1])
    OBVIOUS
  <2>1. Decoded(input) = If(whole.next = m, whole)
    BY <1>3 DEF HasDecoded
  <2>2. whole = Got(w, m)
    BY <1>8 DEF If
  <2>3. whole.next = m
    BY <2>2, ReadFields
  <2> QED BY <2>1, <2>2, <2>3 DEF If
<1> QED BY <1>1, <1>7, <1>9

\* A function on the first numbers is a sequence.
LEMMA IsSequence == ASSUME NEW S, NEW n \in Nat, NEW s \in [1..n -> S] PROVE s \in Seq(S) /\ Len(s) = n
<1>1. s \in Seq(S)
  BY SeqDef
<1> QED BY <1>1, LenProperties

\* A map that is built in the other order is written alike.
LEMMA ReversedIsAlike ==
  ASSUME NEW v \in Value, Is(v, "map"), NEW w, w = [map |-> Reverse(v.map)]
  PROVE  Encoding(w) = Encoding(v)
<1>1. v \in Nesting[MaxDepth] /\ MaxDepth \in 0..MaxDepth
  BY LayoutIs DEF Value
<1>2. IsMap(v, Below(MaxDepth))
  <2>1. ~IsArray(v, Below(MaxDepth))
    BY DEF Is, IsArray
  <2>2. v \notin Simple
    BY SimpleIs DEF Is, BoolValue, IntValue, BytesValue, TextValue
  <2> QED BY <1>1, <2>1, <2>2, ShapeOf
<1> PICK m, n, P : m = v.map /\ n = Len(v.map) /\ P = Below(MaxDepth)
  OBVIOUS
<1>3. m \in Seq(P \X P) /\ n \in Nat /\ n = Len(m) /\ DOMAIN m = 1..n /\ \A i \in 1..n : m[i] \in P \X P
  BY <1>2, LenProperties, ElementOfSeq DEF IsMap
<1> PICK q : q = Reverse(m)
  OBVIOUS
<1>4. /\ q \in Seq(P \X P) /\ Len(q) = n /\ DOMAIN q = 1..n
      /\ \A i \in 1..n : (n - i) + 1 \in 1..n /\ q[i] = m[(n - i) + 1] /\ m[i] = q[(n - i) + 1]
  <2>1. q = [i \in 1..n |-> m[(n - i) + 1]]
    BY <1>3 DEF Reverse
  <2>2. \A i \in 1..n : (n - i) + 1 \in 1..n /\ (n - ((n - i) + 1)) + 1 = i
    BY <1>3
  <2>3. q \in [1..n -> P \X P]
    BY <1>3, <2>1, <2>2
  <2>4. q \in Seq(P \X P) /\ Len(q) = n
    <3> PICK V : V = P \X P
      OBVIOUS
    <3>1. n \in Nat /\ q \in [1..n -> V]
      BY <1>3, <2>3
    <3>2. q \in Seq(V) /\ Len(q) = n
      BY ONLY <3>1, IsSequence
    <3> QED BY <3>2
  <2>5. DOMAIN q = 1..n
    BY <2>3
  <2>6. \A i \in 1..n : q[i] = m[(n - i) + 1] /\ m[i] = q[(n - i) + 1]
    BY <2>1, <2>2
  <2> QED BY <2>2, <2>3, <2>4, <2>5, <2>6
<1>5. IsMap(w, P) /\ w.map = q
  BY <1>4 DEF IsMap
<1>6. w \in Value /\ IsMap(w, Value) /\ IsMap(v, Value)
  <2>1. w \in Value
    BY <1>1, <1>5, ShapeOf DEF Value
  <2>2. P \subseteq Value
    BY <1>1, BelowGrows
  <2> QED BY <1>2, <1>5, <2>1, <2>2, ShapesGrow
<1> PICK h, k : h = EntryRow(m) /\ k = EntryRow(q)
  OBVIOUS
<1>7. Row(k, n) = Row(h, n)
  <2>1. \A i \in 1..n : h[i] = <<Encoding(m[i][1]), Encoding(m[i][2])>> /\ k[i] = <<Encoding(q[i][1]), Encoding(q[i][2])>>
    BY <1>3, <1>4 DEF EntryRow
  <2>2. \A i \in 1..n : (n - i) + 1 \in 1..n /\ k[i] = h[(n - i) + 1] /\ h[i] = k[(n - i) + 1]
    <3> TAKE i \in 1..n
    <3> PICK j : j = (n - i) + 1
      OBVIOUS
    <3>1. j \in 1..n /\ q[i] = m[j] /\ m[i] = q[j]
      BY <1>4
    <3>2. h[i] = <<Encoding(m[i][1]), Encoding(m[i][2])>> /\ k[i] = <<Encoding(q[i][1]), Encoding(q[i][2])>>
      BY <2>1
    <3>3. h[j] = <<Encoding(m[j][1]), Encoding(m[j][2])>> /\ k[j] = <<Encoding(q[j][1]), Encoding(q[j][2])>>
      BY <2>1, <3>1
    <3>4. k[i] = h[j] /\ h[i] = k[j]
      BY <3>1, <3>2, <3>3
    <3> QED BY <3>1, <3>4
  <2> QED BY <2>2 DEF Row
<1>8. Encoding(v) = EncodeLength(5, n) \o FlattenSeq(Sides(InOrder(Row(h, n))))
  BY <1>6, EncodingOf
<1>9. Encoding(w) = EncodeLength(5, n) \o FlattenSeq(Sides(InOrder(Row(k, n))))
  <2>1. Len(w.map) = n /\ EntryRow(w.map) = k
    BY <1>4, <1>5
  <2> QED BY <1>6, <2>1, EncodingOf
<1> QED BY <1>7, <1>8, <1>9

\* A value that is written is read back.
THEOREM ValuesAreReadBack == \A v \in Value : ReadsBack(v)
<1> SUFFICES ASSUME NEW v \in Value, Encodable(v), Unmarked(v), Len(Encoding(v)) <= MaxBytes
             PROVE  /\ Ordered(v) => Decoded(Encoding(v)) = Got(v, Len(Encoding(v)) + 1)
                    /\ Decoded(Encoding(v)).next # 0 /\ Encoding(Decoded(Encoding(v)).value) = Encoding(v)
                    /\ Is(v, "map") => Encoding([map |-> Reverse(v.map)]) = Encoding(v)
  BY DEF ReadsBack
<1> PICK input : input = Encoding(v)
  OBVIOUS
<1>1. PICK w : Decoded(input) = Got(w, Len(input) + 1) /\ SameWritten(v, w) /\ Len(input) \in Nat
  BY EncodingIsRead
<1>2. Ordered(v) => Decoded(input) = Got(v, Len(input) + 1)
  BY <1>1 DEF SameWritten
<1>3. Decoded(input).next # 0 /\ Encoding(Decoded(input).value) = input
  <2>1. Decoded(input).next = Len(input) + 1 /\ Decoded(input).value = w
    BY <1>1, ReadFields
  <2>2. Len(input) + 1 # 0
    BY <1>1
  <2> QED BY <1>1, <2>1, <2>2 DEF SameWritten
<1>4. Is(v, "map") => Encoding([map |-> Reverse(v.map)]) = Encoding(v)
  BY ReversedIsAlike
<1> QED BY <1>2, <1>3, <1>4

-----------------------------------------------------------------------------
(* Base45 (base45.ts) *)

\* The numbers of two bytes, and the characters of the alphabet.
Word == {v \in Nat : v <= 65535}
Letter == 0..44

\* Bytes are words, and words and letters are numbers.
LEMMA Sizes ==
  /\ \A v \in Byte : v \in Word
  /\ \A v \in Word : v \in Nat
  /\ \A v \in Letter : v \in Nat
<1>1. \A v \in Byte : v \in Word
  BY SMT DEF Byte, Word
<1>2. \A v \in Word : v \in Nat
  BY SMT DEF Word
<1>3. \A v \in Letter : v \in Nat
  BY SMT DEF Letter
<1>. QED  BY <1>1, <1>2, <1>3

\* Which numbers are words, bytes and letters.
LEMMA Bounds ==
  /\ \A v \in Nat : v <= 65535 => v \in Word
  /\ \A v \in Nat : v <= 255 => v \in Byte
  /\ \A v \in Nat : v < 45 <=> v \in Letter
  /\ \A v \in Word : v <= 65535
  /\ \A v \in Byte : v <= 255
<1>1. \A v \in Nat : v <= 65535 => v \in Word
  BY SMT DEF Word
<1>2. \A v \in Nat : v <= 255 => v \in Byte
  BY SMT DEF Byte
<1>3. \A v \in Nat : v < 45 <=> v \in Letter
  BY SMT DEF Letter
<1>4. \A v \in Word : v <= 65535
  BY SMT DEF Word
<1>5. \A v \in Byte : v <= 255
  BY SMT DEF Byte
<1>. QED  BY <1>1, <1>2, <1>3, <1>4, <1>5

\* A number is three times a number and a remainder.
LEMMA DivMod3 ==
  ASSUME NEW n \in Nat
  PROVE  n \div 3 \in Nat /\ n % 3 \in 0..2 /\ n = 3 * (n \div 3) + (n % 3)
  BY SMT

\* A number is twice a number and a remainder.
LEMMA DivMod2 ==
  ASSUME NEW n \in Nat
  PROVE  n \div 2 \in Nat /\ n % 2 \in 0..1 /\ n = 2 * (n \div 2) + (n % 2)
  BY SMT

\* The three digits of a word are letters and make it up.
LEMMA Digits ==
  ASSUME NEW v \in Word
  PROVE  /\ v % 45 \in Letter /\ (v \div 45) % 45 \in Letter /\ v \div 2025 \in Letter
         /\ v \div 2025 <= 32
         /\ (v % 45) + ((v \div 45) % 45) * 45 + (v \div 2025) * 2025 = v
<1>0. v \in Nat /\ v <= 65535
  BY DEF Word
<1>. DEFINE q == v \div 45
            r == v % 45
            b == q % 45
            c == q \div 45
<1>1. q \in Nat /\ r \in 0..44 /\ v = 45 * q + r
  BY <1>0, SMT
<1>2. b \in 0..44 /\ c \in Nat /\ q = 45 * c + b
  BY <1>1, SMT
<1>3. v = 2025 * c + (45 * b + r) /\ 45 * b + r \in 0..2024
  <2>. HIDE DEF q, r, b, c
  <2>. QED  BY <1>1, <1>2, SMT
<1>4. v \div 2025 = c
  BY <1>0, <1>2, <1>3, SMT
<1>5. c \in 0..32
  BY <1>0, <1>2, <1>3, SMT
<1>. QED  BY <1>0, <1>1, <1>2, <1>3, <1>4, <1>5, SMT DEF Letter

\* A single byte has two digits.
LEMMA ByteDigits ==
  ASSUME NEW v \in Byte
  PROVE  v \div 45 \in 0..5 /\ (v \div 45) % 45 = v \div 45 /\ (v % 45) + (v \div 45) * 45 = v
  BY SMT DEF Byte

\* Three letters are the digits of what they make up.
LEMMA Undigits ==
  ASSUME NEW a \in Letter, NEW b \in Letter, NEW c \in Letter,
         NEW v, v = a + b * 45 + c * 2025
  PROVE  v % 45 = a /\ (v \div 45) % 45 = b /\ v \div 2025 = c
  BY SMT DEF Letter

\* Two bytes are the halves of the word they make up.
LEMMA BytesOfWord ==
  ASSUME NEW a \in Byte, NEW b \in Byte
  PROVE  LET v == a * 256 + b
         IN  v \in Word /\ v \div 256 = a /\ v % 256 = b
<1>1. a \in Int /\ b \in Int /\ 0 <= a /\ a <= 255 /\ 0 <= b /\ b <= 255
  BY SMT DEF Byte
<1>2. a * 256 + b = 256 * a + b /\ a * 256 + b \in Nat /\ a * 256 + b <= 65535
  BY <1>1, SMT
<1>3. \A v \in Nat : v = 256 * a + b => v \div 256 = a /\ v % 256 = b
  BY <1>1, SMT
<1>. QED  BY <1>1, <1>2, <1>3, SMT DEF Word

\* The halves of a word are bytes and make it up.
LEMMA Unbytes ==
  ASSUME NEW v \in Word
  PROVE  v \div 256 \in Byte /\ v % 256 \in Byte /\ (v \div 256) * 256 + (v % 256) = v
  BY SMT DEF Byte, Word

-----------------------------------------------------------------------------
(* Where a group lies in a text and in its bytes *)

\* The three characters of the g-th group.
LEMMA InText ==
  ASSUME NEW g \in Nat
  PROVE  /\ (3 * g + 1 - 1) \div 3 = g /\ (3 * g + 1 - 1) % 3 = 0
         /\ (3 * g + 2 - 1) \div 3 = g /\ (3 * g + 2 - 1) % 3 = 1
         /\ (3 * g + 3 - 1) \div 3 = g /\ (3 * g + 3 - 1) % 3 = 2
  BY SMT

\* The two bytes of the g-th group.
LEMMA InBytes ==
  ASSUME NEW g \in Nat
  PROVE  /\ (2 * g + 1 - 1) \div 2 = g /\ (2 * g + 1 - 1) % 2 = 0
         /\ (2 * g + 2 - 1) \div 2 = g /\ (2 * g + 2 - 1) % 2 = 1
  BY SMT

\* The length of a text tells that of its bytes, and which of its groups are whole.
LEMMA Lengths ==
  ASSUME NEW n \in Nat
  PROVE  /\ EncodedLength(n) \in Nat
         /\ EncodedLength(n) % 3 # 1
         /\ DecodedLength(EncodedLength(n)) = n
         /\ \A g \in Nat : /\ 3 * g + 1 <= EncodedLength(n) <=> 2 * g + 1 <= n
                           /\ 3 * g + 2 <= EncodedLength(n) <=> 2 * g + 1 <= n
                           /\ 3 * g + 2 < EncodedLength(n) <=> 2 * g + 1 < n
<1>1. PICK k \in Nat, r \in 0..1 : n \div 2 = k /\ n % 2 = r /\ n = 2 * k + r
  BY DivMod2
<1>2. EncodedLength(n) = 3 * k + 2 * r
  BY <1>1 DEF EncodedLength
<1>3. CASE r = 0
  <2>1. EncodedLength(n) = 3 * k /\ n = 2 * k
    BY <1>1, <1>2, <1>3
  <2>2. (3 * k) \div 3 = k /\ (3 * k) % 3 = 0
    BY SMT
  <2>. QED  BY <2>1, <2>2, SMT DEF DecodedLength
<1>4. CASE r = 1
  <2>1. EncodedLength(n) = 3 * k + 2 /\ n = 2 * k + 1
    BY <1>1, <1>2, <1>4
  <2>2. (3 * k + 2) \div 3 = k /\ (3 * k + 2) % 3 = 2
    BY SMT
  <2>. QED  BY <2>1, <2>2, SMT DEF DecodedLength
<1>. QED  BY <1>3, <1>4, SMT

\* The elements of a binary are bytes.
LEMMA BytesOf ==
  ASSUME NEW bytes \in Binary
  PROVE  Len(bytes) \in Nat /\ \A i \in 1..Len(bytes) : bytes[i] \in Byte
  BY ElementOfSeq, LenProperties DEF Binary

\* A group of bytes is a word, and a single byte at the end is a byte.
LEMMA ByteGroups ==
  ASSUME NEW bytes \in Binary, NEW g \in Nat, 2 * g + 1 <= Len(bytes)
  PROVE  /\ ByteGroup(bytes, g) \in Word
         /\ ~(2 * g + 1 < Len(bytes)) => ByteGroup(bytes, g) \in Byte
<1>1. Len(bytes) \in Nat /\ \A k \in 1..Len(bytes) : bytes[k] \in Byte
  BY BytesOf
<1>2. bytes[2 * g + 1] \in Byte /\ (2 * g + 1 < Len(bytes) => bytes[2 * g + 2] \in Byte)
  <2>1. 2 * g + 1 \in 1..Len(bytes) /\ (2 * g + 1 < Len(bytes) => 2 * g + 2 \in 1..Len(bytes))
    BY <1>1, SMT
  <2>. QED  BY <1>1, <2>1, Zenon
<1>3. CASE 2 * g + 1 < Len(bytes)
  <2>1. ByteGroup(bytes, g) = bytes[2 * g + 1] * 256 + bytes[2 * g + 2]
    BY <1>3, Zenon DEF ByteGroup
  <2>2. \A a, b \in Byte : a * 256 + b \in Word
    BY BytesOfWord
  <2>. QED  BY <1>2, <1>3, <2>1, <2>2, SMT
<1>4. CASE ~(2 * g + 1 < Len(bytes))
  <2>1. ByteGroup(bytes, g) = bytes[2 * g + 1]
    BY <1>4, Zenon DEF ByteGroup
  <2>. QED  BY <1>2, <1>4, <2>1, Sizes, Zenon
<1>. QED  BY <1>3, <1>4, Zenon

-----------------------------------------------------------------------------
(* From bytes to text and back *)

\* A function on 1..n is a sequence of length n.
LEMMA Sequence ==
  ASSUME NEW S, NEW n \in Nat, NEW f \in [1..n -> S]
  PROVE  f \in Seq(S) /\ Len(f) = n
<1>1. f \in Seq(S)
  BY SeqDef
<1>2. 1..Len(f) = 1..n /\ Len(f) \in Nat
  BY <1>1, LenProperties
<1>. QED  BY <1>1, <1>2, SMT

\* What a text is: its length, and the digits of each group.
LEMMA EncodedText ==
  ASSUME NEW bytes \in Binary
  PROVE  LET text == EncodeBase45(bytes)
         IN  /\ text \in Seq(Letter)
             /\ Len(text) = EncodedLength(Len(bytes))
             /\ \A g \in Nat : 2 * g + 1 <= Len(bytes) =>
                  /\ text[3 * g + 1] = ByteGroup(bytes, g) % 45
                  /\ text[3 * g + 2] = (ByteGroup(bytes, g) \div 45) % 45
                  /\ 2 * g + 1 < Len(bytes) => text[3 * g + 3] = ByteGroup(bytes, g) \div 2025
<1>. DEFINE text == EncodeBase45(bytes)
            n == Len(bytes)
            e == EncodedLength(n)
<1>0. n \in Nat /\ e \in Nat
  BY BytesOf, Lengths
<1>1. \A i \in 1..e : text[i] = Digit(ByteGroup(bytes, (i - 1) \div 3), (i - 1) % 3)
  BY DEF EncodeBase45
<1>2. \A g \in Nat : 2 * g + 1 <= n =>
        /\ 3 * g + 1 \in 1..e /\ 3 * g + 2 \in 1..e
        /\ 2 * g + 1 < n => 3 * g + 3 \in 1..e
  <2>. SUFFICES ASSUME NEW g \in Nat, 2 * g + 1 <= n
                PROVE  /\ 3 * g + 1 \in 1..e /\ 3 * g + 2 \in 1..e
                       /\ 2 * g + 1 < n => 3 * g + 3 \in 1..e
    OBVIOUS
  <2>1. /\ 3 * g + 1 <= e <=> 2 * g + 1 <= n
        /\ 3 * g + 2 <= e <=> 2 * g + 1 <= n
        /\ 3 * g + 2 < e <=> 2 * g + 1 < n
    BY <1>0, Lengths
  <2>. HIDE DEF n, e
  <2>. QED  BY <1>0, <2>1, SMT
<1>3. ASSUME NEW g \in Nat, 2 * g + 1 <= n
      PROVE  /\ text[3 * g + 1] = ByteGroup(bytes, g) % 45
             /\ text[3 * g + 2] = (ByteGroup(bytes, g) \div 45) % 45
             /\ 2 * g + 1 < n => text[3 * g + 3] = ByteGroup(bytes, g) \div 2025
  <2>0. /\ (3 * g + 1 - 1) \div 3 = g /\ (3 * g + 1 - 1) % 3 = 0
        /\ (3 * g + 2 - 1) \div 3 = g /\ (3 * g + 2 - 1) % 3 = 1
        /\ (3 * g + 3 - 1) \div 3 = g /\ (3 * g + 3 - 1) % 3 = 2
    BY InText
  <2>4. 3 * g + 1 \in 1..e /\ 3 * g + 2 \in 1..e /\ (2 * g + 1 < n => 3 * g + 3 \in 1..e)
    BY <1>2, <1>3
  <2>. HIDE DEF text, e, n
  <2>1. text[3 * g + 1] = Digit(ByteGroup(bytes, g), 0)
    BY <1>1, <2>0, <2>4
  <2>2. text[3 * g + 2] = Digit(ByteGroup(bytes, g), 1)
    BY <1>1, <2>0, <2>4
  <2>3. 2 * g + 1 < n => text[3 * g + 3] = Digit(ByteGroup(bytes, g), 2)
    BY <1>1, <2>0, <2>4
  <2>. QED  BY <2>1, <2>2, <2>3 DEF Digit, text, n
<1>4. \A i \in 1..e : text[i] \in Letter
  <2>. SUFFICES ASSUME NEW i \in 1..e
                PROVE  text[i] \in Letter
    OBVIOUS
  <2>1. PICK g \in Nat, p \in 0..2 : i = 3 * g + p + 1
    <3>1. i - 1 \in Nat
      BY <1>0, SMT
    <3>2. (i - 1) \div 3 \in Nat /\ (i - 1) % 3 \in 0..2 /\ i - 1 = 3 * ((i - 1) \div 3) + ((i - 1) % 3)
      BY <3>1, DivMod3
    <3>3. i = 3 * ((i - 1) \div 3) + ((i - 1) % 3) + 1
      BY <3>2, SMT
    <3>. QED  BY <3>2, <3>3
  <2>2. 2 * g + 1 <= n /\ (p = 2 => 2 * g + 1 < n)
    <3>1. /\ 3 * g + 1 <= e <=> 2 * g + 1 <= n
          /\ 3 * g + 2 < e <=> 2 * g + 1 < n
      BY <1>0, Lengths
    <3>. HIDE DEF n, e
    <3>. QED  BY <1>0, <2>1, <3>1, SMT
  <2>3. ByteGroup(bytes, g) \in Word /\ (~(2 * g + 1 < n) => ByteGroup(bytes, g) \in Byte)
    BY <2>2, ByteGroups
  <2>. DEFINE v == ByteGroup(bytes, g)
  <2>4. v \in Word
    BY <2>3
  <2>. HIDE DEF v
  <2>8. v % 45 \in Letter /\ (v \div 45) % 45 \in Letter /\ v \div 2025 \in Letter
    BY <2>4, Digits
  <2>5. text[3 * g + 1] \in Letter /\ text[3 * g + 2] \in Letter
    BY <1>3, <2>2, <2>8 DEF v
  <2>6. 2 * g + 1 < n => text[3 * g + 3] \in Letter
    BY <1>3, <2>2, <2>8 DEF v
  <2>7. i = 3 * g + 1 \/ i = 3 * g + 2 \/ (i = 3 * g + 3 /\ p = 2)
    BY <2>1, SMT
  <2>. QED  BY <2>2, <2>5, <2>6, <2>7
<1>5. text \in [1..e -> Letter]
  BY <1>4 DEF EncodeBase45
<1>. QED  BY <1>0, <1>3, <1>5, Sequence

\* A group of the text stands for the number its bytes stand for.
LEMMA GroupsAgree ==
  ASSUME NEW bytes \in Binary, NEW g \in Nat, 2 * g + 1 <= Len(bytes)
  PROVE  CharGroup(EncodeBase45(bytes), g) = ByteGroup(bytes, g)
<1>. DEFINE text == EncodeBase45(bytes)
            v == ByteGroup(bytes, g)
            last == 2 * g + 1 < Len(bytes)
<1>1. v \in Word /\ (~last => v \in Byte)
  BY ByteGroups
<1>2. /\ text[3 * g + 1] = v % 45
      /\ text[3 * g + 2] = (v \div 45) % 45
      /\ last => text[3 * g + 3] = v \div 2025
  BY EncodedText
<1>3. 3 * g + 2 < Len(text) <=> last
  <2>1. Len(bytes) \in Nat /\ Len(text) = EncodedLength(Len(bytes))
    BY EncodedText, BytesOf
  <2>. QED  BY <2>1, Lengths
<1>4. CharGroup(text, g) = text[3 * g + 1] + text[3 * g + 2] * 45 + (IF last THEN text[3 * g + 3] * 2025 ELSE 0)
  BY <1>3 DEF CharGroup
<1>. SUFFICES CharGroup(text, g) = v
  OBVIOUS
<1>. HIDE DEF text, v, last
<1>5. CASE last
  <2>1. (v % 45) + ((v \div 45) % 45) * 45 + (v \div 2025) * 2025 = v
    BY <1>1, Digits
  <2>. QED  BY <1>2, <1>4, <1>5, <2>1
<1>6. CASE ~last
  <2>1. (v % 45) + (v \div 45) * 45 = v /\ (v \div 45) % 45 = v \div 45 /\ v \in Nat
    BY <1>1, <1>6, ByteDigits, Sizes
  <2>2. CharGroup(text, g) = (v % 45) + (v \div 45) * 45 + 0
    BY <1>2, <1>4, <1>6, <2>1
  <2>. QED  BY <2>1, <2>2, SMT
<1>. QED  BY <1>5, <1>6

\* The length of bytes tells that of the text they came from.
LEMMA LengthsBack ==
  ASSUME NEW m \in Nat, m % 3 # 1
  PROVE  DecodedLength(m) \in Nat /\ EncodedLength(DecodedLength(m)) = m
<1>1. PICK k \in Nat, r \in 0..2 : m \div 3 = k /\ m % 3 = r /\ m = 3 * k + r
  BY DivMod3
<1>2. CASE r = 0
  <2>1. DecodedLength(m) = 2 * k
    BY <1>1, <1>2 DEF DecodedLength
  <2>2. (2 * k) \div 2 = k /\ (2 * k) % 2 = 0
    BY SMT
  <2>. QED  BY <1>1, <1>2, <2>1, <2>2, SMT DEF EncodedLength
<1>3. CASE r = 2
  <2>1. DecodedLength(m) = 2 * k + 1
    BY <1>1, <1>3 DEF DecodedLength
  <2>2. (2 * k + 1) \div 2 = k /\ (2 * k + 1) % 2 = 1
    BY SMT
  <2>. QED  BY <1>1, <1>3, <2>1, <2>2, SMT DEF EncodedLength
<1>. QED  BY <1>1, <1>2, <1>3, SMT

\* What a text that is not refused decodes to.
LEMMA DecodedBytes ==
  ASSUME NEW text \in Characters, Acceptable(text)
  PROVE  LET bytes == DecodeBase45(text)
         IN  /\ bytes \in Binary
             /\ Len(bytes) = DecodedLength(Len(text))
             /\ \A g \in Nat : 2 * g + 1 <= Len(bytes) => ByteGroup(bytes, g) = CharGroup(text, g)
<1>. DEFINE m == Len(text)
            n == DecodedLength(m)
            bytes == DecodeBase45(text)
<1>1. m \in Nat /\ m % 3 # 1 /\ n \in Nat /\ EncodedLength(n) = m
  BY LenProperties, LengthsBack DEF Characters, Acceptable
<1>2. \A i \in 1..m : text[i] \in Letter
  <2>. SUFFICES ASSUME NEW i \in 1..m
                PROVE  text[i] \in Letter
    OBVIOUS
  <2>1. text[i] \in Nat /\ text[i] < 45
    BY ElementOfSeq DEF Characters, Acceptable
  <2>. QED  BY <2>1, Bounds
<1>3. \A g \in Nat : /\ 3 * g + 1 <= m <=> 2 * g + 1 <= n
                     /\ 3 * g + 2 <= m <=> 2 * g + 1 <= n
                     /\ 3 * g + 2 < m <=> 2 * g + 1 < n
  BY <1>1, Lengths
<1>4. \A j \in 1..n : bytes[j] =
        IF 3 * ((j - 1) \div 2) + 2 >= m THEN CharGroup(text, (j - 1) \div 2)
        ELSE IF (j - 1) % 2 = 0 THEN CharGroup(text, (j - 1) \div 2) \div 256
        ELSE CharGroup(text, (j - 1) \div 2) % 256
  BY DEF DecodeBase45
<1>5. ASSUME NEW g \in Nat, 2 * g + 1 <= n
      PROVE  /\ 2 * g + 1 < n => CharGroup(text, g) \in Word
             /\ ~(2 * g + 1 < n) => CharGroup(text, g) \in Byte
  <2>1. 3 * g + 2 <= m /\ (3 * g + 2 < m <=> 2 * g + 1 < n)
    BY <1>3, <1>5
  <2>2. Fits(text, g)
    <3>1. g \in 0..((m + 2) \div 3 - 1)
      <4>1. m + 2 \in Nat
        BY <1>1, SMT
      <4>2. (m + 2) \div 3 \in Nat /\ (m + 2) % 3 \in 0..2 /\ m + 2 = 3 * ((m + 2) \div 3) + ((m + 2) % 3)
        BY <4>1, DivMod3
      <4>. HIDE DEF m
      <4>. QED  BY <1>1, <2>1, <4>2, SMT
    <3>. QED  BY <3>1 DEF Acceptable
  <2>3. CharGroup(text, g) \in Nat
    <3>1. text[3 * g + 1] \in Nat /\ text[3 * g + 2] \in Nat /\ (3 * g + 2 < m => text[3 * g + 3] \in Nat)
      <4>1. 3 * g + 1 \in 1..m /\ 3 * g + 2 \in 1..m /\ (3 * g + 2 < m => 3 * g + 3 \in 1..m)
        <5>. HIDE DEF m
        <5>. QED  BY <1>1, <2>1, SMT
      <4>. QED  BY <1>2, <4>1, Sizes
    <3>. DEFINE third == IF 3 * g + 2 < m THEN text[3 * g + 3] * 2025 ELSE 0
    <3>2. CharGroup(text, g) = text[3 * g + 1] + text[3 * g + 2] * 45 + third
      BY DEF CharGroup
    <3>3. third \in Nat
      <4>. HIDE DEF m
      <4>. QED  BY <3>1, SMT
    <3>. HIDE DEF third, m
    <3>4. \A x, y, z \in Nat : x + y * 45 + z \in Nat
      BY SMT
    <3>. QED  BY <3>1, <3>2, <3>3, <3>4
  <2>4. CharGroup(text, g) <= (IF 2 * g + 1 < n THEN 65535 ELSE 255)
    BY <2>1, <2>2 DEF Fits
  <2>. QED  BY <2>3, <2>4, Bounds
<1>6. ASSUME NEW g \in Nat, 2 * g + 1 <= n
      PROVE  IF 2 * g + 1 < n
             THEN bytes[2 * g + 1] = CharGroup(text, g) \div 256 /\ bytes[2 * g + 2] = CharGroup(text, g) % 256
             ELSE bytes[2 * g + 1] = CharGroup(text, g)
  <2>1. 3 * g + 2 >= m <=> ~(2 * g + 1 < n)
    <3>1. 3 * g + 2 < m <=> 2 * g + 1 < n
      BY <1>3
    <3>. HIDE DEF m, n
    <3>. QED  BY <1>1, <3>1, SMT
  <2>2. 2 * g + 1 \in 1..n /\ (2 * g + 1 < n => 2 * g + 2 \in 1..n)
    <3>. HIDE DEF n
    <3>. QED  BY <1>1, <1>6, SMT
  <2>3. CASE 2 * g + 1 < n
    <3>1. bytes[2 * g + 1] = CharGroup(text, g) \div 256
      BY <1>4, <2>1, <2>2, <2>3, InBytes
    <3>2. bytes[2 * g + 2] = CharGroup(text, g) % 256
      BY <1>4, <2>1, <2>2, <2>3, InBytes
    <3>. QED  BY <2>3, <3>1, <3>2
  <2>4. CASE ~(2 * g + 1 < n)
    BY <1>4, <2>1, <2>2, <2>4, InBytes
  <2>. QED  BY <2>3, <2>4
<1>7. \A j \in 1..n : bytes[j] \in Byte
  <2>. SUFFICES ASSUME NEW j \in 1..n
                PROVE  bytes[j] \in Byte
    OBVIOUS
  <2>1. PICK g \in Nat, p \in 0..1 : j = 2 * g + p + 1
    <3>1. j - 1 \in Nat
      BY <1>1, SMT
    <3>2. (j - 1) \div 2 \in Nat /\ (j - 1) % 2 \in 0..1 /\ j - 1 = 2 * ((j - 1) \div 2) + ((j - 1) % 2)
      BY <3>1, DivMod2
    <3>. QED  BY <3>2, SMT
  <2>2. 2 * g + 1 <= n /\ (j = 2 * g + 1 \/ (j = 2 * g + 2 /\ 2 * g + 1 < n))
    <3>. HIDE DEF n
    <3>. QED  BY <1>1, <2>1, SMT
  <2>3. CASE 2 * g + 1 < n
    <3>1. CharGroup(text, g) \in Word
      BY <1>5, <2>2, <2>3
    <3>2. CharGroup(text, g) \div 256 \in Byte /\ CharGroup(text, g) % 256 \in Byte
      BY <3>1, Unbytes
    <3>. QED  BY <1>6, <2>2, <2>3, <3>2
  <2>4. CASE ~(2 * g + 1 < n)
    BY <1>5, <1>6, <2>2, <2>4
  <2>. QED  BY <2>3, <2>4
<1>8. bytes \in Binary /\ Len(bytes) = n
  <2>1. bytes \in [1..n -> Byte]
    BY <1>7 DEF DecodeBase45
  <2>. QED  BY <1>1, <2>1, Sequence DEF Binary
<1>9. ASSUME NEW g \in Nat, 2 * g + 1 <= n
      PROVE  ByteGroup(bytes, g) = CharGroup(text, g)
  <2>1. CASE 2 * g + 1 < n
    <3>1. ByteGroup(bytes, g) = bytes[2 * g + 1] * 256 + bytes[2 * g + 2]
      BY <1>8, <2>1 DEF ByteGroup
    <3>2. CharGroup(text, g) \in Word
      BY <1>5, <1>9, <2>1
    <3>3. (CharGroup(text, g) \div 256) * 256 + (CharGroup(text, g) % 256) = CharGroup(text, g)
      BY <3>2, Unbytes
    <3>. QED  BY <1>6, <1>9, <2>1, <3>1, <3>3
  <2>2. CASE ~(2 * g + 1 < n)
    <3>1. ByteGroup(bytes, g) = bytes[2 * g + 1]
      BY <1>8, <2>2 DEF ByteGroup
    <3>. QED  BY <1>6, <1>9, <2>2, <3>1
  <2>. QED  BY <2>1, <2>2
<1>. QED  BY <1>8, <1>9

\* Bytes with the same groups are the same, and so are texts.
LEMMA SameBytes ==
  ASSUME NEW bytes \in Binary, NEW others \in Binary, Len(bytes) = Len(others),
         \A g \in Nat : 2 * g + 1 <= Len(bytes) => ByteGroup(bytes, g) = ByteGroup(others, g)
  PROVE  bytes = others
<1>. DEFINE n == Len(bytes)
<1>1. n \in Nat /\ \A i \in 1..n : bytes[i] \in Byte /\ others[i] \in Byte
  BY BytesOf
<1>2. ASSUME NEW j \in 1..n
      PROVE  bytes[j] = others[j]
  <2>1. PICK g \in Nat, p \in 0..1 : j = 2 * g + p + 1
    <3>1. j - 1 \in Nat
      BY <1>1, SMT
    <3>2. (j - 1) \div 2 \in Nat /\ (j - 1) % 2 \in 0..1 /\ j - 1 = 2 * ((j - 1) \div 2) + ((j - 1) % 2)
      BY <3>1, DivMod2
    <3>. QED  BY <3>2, SMT
  <2>2. /\ 2 * g + 1 <= n /\ 2 * g + 1 \in 1..n
        /\ 2 * g + 1 < n => 2 * g + 2 \in 1..n
        /\ j = 2 * g + 1 \/ (j = 2 * g + 2 /\ 2 * g + 1 < n)
    <3>. HIDE DEF n
    <3>. QED  BY <1>1, <2>1, SMT
  <2>3. ByteGroup(bytes, g) = ByteGroup(others, g)
    BY <2>2
  <2>4. CASE 2 * g + 1 < n
    <3>1. /\ ByteGroup(bytes, g) = bytes[2 * g + 1] * 256 + bytes[2 * g + 2]
          /\ ByteGroup(others, g) = others[2 * g + 1] * 256 + others[2 * g + 2]
      BY <2>4 DEF ByteGroup
    <3>2. /\ bytes[2 * g + 1] \in Byte /\ bytes[2 * g + 2] \in Byte
          /\ others[2 * g + 1] \in Byte /\ others[2 * g + 2] \in Byte
      BY <1>1, <2>2, <2>4
    <3>3. bytes[2 * g + 1] = others[2 * g + 1] /\ bytes[2 * g + 2] = others[2 * g + 2]
      <4>1. /\ ByteGroup(bytes, g) \div 256 = bytes[2 * g + 1] /\ ByteGroup(bytes, g) % 256 = bytes[2 * g + 2]
            /\ ByteGroup(others, g) \div 256 = others[2 * g + 1] /\ ByteGroup(others, g) % 256 = others[2 * g + 2]
        BY <3>1, <3>2, BytesOfWord
      <4>. QED  BY <2>3, <4>1
    <3>. QED  BY <2>2, <3>3
  <2>5. CASE ~(2 * g + 1 < n)
    <3>1. ByteGroup(bytes, g) = bytes[2 * g + 1] /\ ByteGroup(others, g) = others[2 * g + 1]
      BY <2>5 DEF ByteGroup
    <3>. QED  BY <2>2, <2>3, <2>5, <3>1
  <2>. QED  BY <2>4, <2>5
<1>3. bytes \in [1..n -> Byte] /\ others \in [1..n -> Byte]
  BY LenProperties DEF Binary
<1>. QED  BY <1>2, <1>3

\* Texts with the same length and the same groups are the same.
LEMMA SameText ==
  ASSUME NEW text \in Seq(Letter), NEW other \in Seq(Letter), Len(text) = Len(other), Len(text) % 3 # 1,
         \A g \in Nat : 3 * g + 1 <= Len(text) => CharGroup(text, g) = CharGroup(other, g)
  PROVE  text = other
<1>. DEFINE m == Len(text)
<1>1. m \in Nat /\ m % 3 # 1 /\ \A i \in 1..m : text[i] \in Letter /\ other[i] \in Letter
  BY LenProperties, ElementOfSeq
<1>2. ASSUME NEW j \in 1..m
      PROVE  text[j] = other[j]
  <2>1. PICK g \in Nat, p \in 0..2 : j = 3 * g + p + 1
    <3>1. j - 1 \in Nat
      BY <1>1, SMT
    <3>2. (j - 1) \div 3 \in Nat /\ (j - 1) % 3 \in 0..2 /\ j - 1 = 3 * ((j - 1) \div 3) + ((j - 1) % 3)
      BY <3>1, DivMod3
    <3>. QED  BY <3>2, SMT
  <2>2. /\ 3 * g + 1 <= m /\ 3 * g + 1 \in 1..m /\ 3 * g + 2 \in 1..m
        /\ 3 * g + 2 < m => 3 * g + 3 \in 1..m
        /\ j = 3 * g + 1 \/ j = 3 * g + 2 \/ (j = 3 * g + 3 /\ 3 * g + 2 < m)
    <3>1. (3 * g + 1) % 3 = 1
      BY SMT
    <3>2. m # 3 * g + 1
      BY <1>1, <3>1
    <3>. HIDE DEF m
    <3>. QED  BY <1>1, <2>1, <3>2, SMT
  <2>. DEFINE c == IF 3 * g + 2 < m THEN text[3 * g + 3] ELSE 0
              d == IF 3 * g + 2 < m THEN other[3 * g + 3] ELSE 0
  <2>3. /\ text[3 * g + 1] \in Letter /\ text[3 * g + 2] \in Letter /\ c \in Letter
        /\ other[3 * g + 1] \in Letter /\ other[3 * g + 2] \in Letter /\ d \in Letter
    <3>1. 0 \in Letter
      BY SMT DEF Letter
    <3>. QED  BY <1>1, <2>2, <3>1
  <2>4. /\ CharGroup(text, g) = text[3 * g + 1] + text[3 * g + 2] * 45 + c * 2025
        /\ CharGroup(other, g) = other[3 * g + 1] + other[3 * g + 2] * 45 + d * 2025
    BY SMT DEF CharGroup
  <2>5. CharGroup(text, g) = CharGroup(other, g)
    BY <2>2
  <2>6. text[3 * g + 1] = other[3 * g + 1] /\ text[3 * g + 2] = other[3 * g + 2] /\ c = d
    <3>. HIDE DEF c, d
    <3>1. /\ CharGroup(text, g) % 45 = text[3 * g + 1] /\ (CharGroup(text, g) \div 45) % 45 = text[3 * g + 2]
          /\ CharGroup(text, g) \div 2025 = c
      BY <2>3, <2>4, Undigits
    <3>2. /\ CharGroup(other, g) % 45 = other[3 * g + 1] /\ (CharGroup(other, g) \div 45) % 45 = other[3 * g + 2]
          /\ CharGroup(other, g) \div 2025 = d
      BY <2>3, <2>4, Undigits
    <3>. QED  BY <2>5, <3>1, <3>2
  <2>. QED  BY <2>2, <2>6
<1>3. text \in [1..m -> Letter] /\ other \in [1..m -> Letter]
  BY LenProperties
<1>. QED  BY <1>2, <1>3

-----------------------------------------------------------------------------
(* The properties of the code *)

\* DecodesBack: nothing that fits the limit is lost on its way through the text of a seal
\* (encodeBase45, decodeBase45).
THEOREM Base45DecodesBack ==
  ASSUME NEW bytes \in Binary
  PROVE  DecodesBack(bytes)
<1>. DEFINE n == Len(bytes)
            text == EncodeBase45(bytes)
            m == Len(text)
<1>. SUFFICES ASSUME n <= MaxBinary
              PROVE  Acceptable(text) /\ DecodeBase45(text) = bytes
  BY DEF DecodesBack
<1>0. n \in Nat /\ m = EncodedLength(n)
  BY BytesOf, EncodedText
<1>1. m \in Nat /\ m % 3 # 1 /\ DecodedLength(m) = n
  BY <1>0, Lengths
<1>2. text \in Characters /\ \A i \in 1..m : text[i] \in Letter
  <2>1. text \in Seq(Letter)
    BY EncodedText
  <2>2. \A i \in 1..m : text[i] \in Letter
    BY <2>1, ElementOfSeq
  <2>3. text \in [1..m -> Nat]
    BY <2>1, <2>2, LenProperties, Sizes
  <2>. QED  BY <1>1, <2>2, <2>3, Sequence DEF Characters
<1>3. m <= 3 * ((MaxBinary + 1) \div 2)
  <2>1. PICK k \in Nat, r \in 0..1 : n \div 2 = k /\ n % 2 = r /\ n = 2 * k + r
    BY <1>0, DivMod2
  <2>2. PICK h \in Nat, s \in 0..1 : (MaxBinary + 1) \div 2 = h /\ MaxBinary + 1 = 2 * h + s
    <3>1. MaxBinary + 1 \in Nat
      BY MaxBinaryAssumption
    <3>. QED  BY <3>1, DivMod2
  <2>3. m = 3 * k + 2 * r
    BY <1>0, <2>1 DEF EncodedLength
  <2>4. n <= MaxBinary
    OBVIOUS
  <2>. HIDE DEF n, m
  <2>5. k + r <= h
    BY <1>0, <2>1, <2>2, <2>4, MaxBinaryAssumption, SMT
  <2>6. m <= 3 * h
    BY <2>1, <2>2, <2>3, <2>5, SMT
  <2>. QED  BY <2>2, <2>6
<1>4. \A g \in Nat : /\ 3 * g + 1 <= m <=> 2 * g + 1 <= n
                     /\ 3 * g + 2 < m <=> 2 * g + 1 < n
  BY <1>0, Lengths
<1>5. ASSUME NEW g \in Nat, 2 * g + 1 <= n
      PROVE  CharGroup(text, g) = ByteGroup(bytes, g) /\ Fits(text, g)
  <2>1. CharGroup(text, g) = ByteGroup(bytes, g)
    BY <1>5, GroupsAgree
  <2>2. 3 * g + 2 < m <=> 2 * g + 1 < n
    BY <1>4
  <2>3. CASE 2 * g + 1 < n
    <3>1. CharGroup(text, g) <= 65535
      BY <1>5, <2>1, ByteGroups, Bounds
    <3>. QED  BY <2>1, <2>2, <2>3, <3>1 DEF Fits
  <2>4. CASE ~(2 * g + 1 < n)
    <3>1. CharGroup(text, g) <= 255
      BY <1>5, <2>1, <2>4, ByteGroups, Bounds
    <3>. QED  BY <2>1, <2>2, <2>4, <3>1 DEF Fits
  <2>. QED  BY <2>3, <2>4
<1>6. \A g \in 0..((m + 2) \div 3 - 1) : Fits(text, g)
  <2>. SUFFICES ASSUME NEW g \in 0..((m + 2) \div 3 - 1)
                PROVE  Fits(text, g)
    OBVIOUS
  <2>1. m + 2 \in Nat
    BY <1>1, SMT
  <2>2. (m + 2) \div 3 \in Nat /\ (m + 2) % 3 \in 0..2 /\ m + 2 = 3 * ((m + 2) \div 3) + ((m + 2) % 3)
    BY <2>1, DivMod3
  <2>3. g \in Nat /\ 3 * g + 1 <= m
    <3>. HIDE DEF m
    <3>. QED  BY <1>1, <2>2, SMT
  <2>. QED  BY <1>4, <1>5, <2>3
<1>7. Acceptable(text)
  <2>1. \A i \in 1..m : text[i] < 45
    BY <1>2, Sizes, Bounds
  <2>. QED  BY <1>1, <1>3, <1>6, <2>1 DEF Acceptable
<1>8. /\ Len(DecodeBase45(text)) = n /\ DecodeBase45(text) \in Binary
      /\ \A g \in Nat : 2 * g + 1 <= n => ByteGroup(DecodeBase45(text), g) = ByteGroup(bytes, g)
  BY <1>1, <1>2, <1>5, <1>7, DecodedBytes
<1>9. DecodeBase45(text) = bytes
  BY <1>8, SameBytes
<1>. QED  BY <1>7, <1>9

\* EncodesBack: decodeBase45 accepts one text only for each binary.
THEOREM Base45EncodesBack ==
  ASSUME NEW text \in Characters
  PROVE  EncodesBack(text)
<1>. DEFINE bytes == DecodeBase45(text)
            m == Len(text)
            n == Len(bytes)
<1>. SUFFICES ASSUME Acceptable(text)
              PROVE  bytes \in Binary /\ EncodeBase45(bytes) = text
  BY DEF EncodesBack
<1>1. m \in Nat /\ m % 3 # 1 /\ \A i \in 1..m : text[i] \in Letter
  BY LenProperties, ElementOfSeq, Bounds DEF Characters, Acceptable
<1>2. text \in Seq(Letter)
  <2>1. text \in [1..m -> Letter]
    BY <1>1, LenProperties DEF Characters
  <2>. QED  BY <1>1, <2>1, Sequence
<1>3. bytes \in Binary /\ n = DecodedLength(m) /\ EncodedLength(n) = m /\ n \in Nat
  BY <1>1, DecodedBytes, LengthsBack
<1>4. /\ EncodeBase45(bytes) \in Seq(Letter)
      /\ Len(EncodeBase45(bytes)) = m
  BY <1>3, EncodedText
<1>5. \A g \in Nat : 3 * g + 1 <= m <=> 2 * g + 1 <= n
  BY <1>3, Lengths
<1>6. \A g \in Nat : 3 * g + 1 <= m => CharGroup(EncodeBase45(bytes), g) = CharGroup(text, g)
  BY <1>3, <1>5, DecodedBytes, GroupsAgree
<1>. QED  BY <1>1, <1>2, <1>3, <1>4, <1>6, SameText

\* EndsInNoBlank: trimming what was scanned or typed (verify-input.ts, app.js, camera.js) takes
\* nothing off a seal.
THEOREM Base45EndsInNoBlank ==
  ASSUME NEW bytes \in Binary
  PROVE  EndsInNoBlank(bytes)
<1>. DEFINE n == Len(bytes)
            text == EncodeBase45(bytes)
            m == Len(text)
<1>. SUFFICES ASSUME bytes # <<>>
              PROVE  text[m] # Blank
  BY DEF EndsInNoBlank
<1>1. n \in Nat /\ n # 0 /\ m = EncodedLength(n)
  BY BytesOf, EncodedText, EmptySeq DEF Binary
<1>2. \A g \in Nat : 2 * g + 1 <= n =>
        /\ text[3 * g + 2] = (ByteGroup(bytes, g) \div 45) % 45
        /\ 2 * g + 1 < n => text[3 * g + 3] = ByteGroup(bytes, g) \div 2025
  BY EncodedText
<1>3. PICK k \in Nat, r \in 0..1 : n \div 2 = k /\ n % 2 = r /\ n = 2 * k + r
  BY <1>1, DivMod2
<1>4. CASE r = 1
  \* The last group is a single byte, whose second digit is at most five.
  <2>1. m = 3 * k + 2 /\ n = 2 * k + 1
    BY <1>1, <1>3, <1>4 DEF EncodedLength
  <2>2. 2 * k + 1 <= n /\ ~(2 * k + 1 < n)
    BY <2>1, SMT
  <2>3. ByteGroup(bytes, k) \in Byte
    BY <2>2, ByteGroups
  <2>4. text[m] = (ByteGroup(bytes, k) \div 45) % 45
    BY <1>2, <2>1, <2>2
  <2>5. \A x \in 0..5 : x # 36
    BY SMT
  <2>. QED  BY <2>3, <2>4, <2>5, ByteDigits DEF Blank
<1>5. CASE r = 0
  \* The last group has two bytes, and its third digit is at most 32.
  <2>1. PICK g \in Nat : k = g + 1
    <3>1. k - 1 \in Nat /\ k = (k - 1) + 1
      BY <1>1, <1>3, <1>5, SMT
    <3>. QED  BY <3>1
  <2>2. m = 3 * g + 3 /\ n = 2 * g + 2
    <3>1. m = 3 * k /\ n = 2 * k
      BY <1>1, <1>3, <1>5 DEF EncodedLength
    <3>. QED  BY <2>1, <3>1, SMT
  <2>3. 2 * g + 1 <= n /\ 2 * g + 1 < n
    BY <2>2, SMT
  <2>4. ByteGroup(bytes, g) \in Word
    BY <2>3, ByteGroups
  <2>5. text[m] = ByteGroup(bytes, g) \div 2025
    BY <1>2, <2>2, <2>3
  <2>6. text[m] <= 32
    BY <2>4, <2>5, Digits
  <2>. QED  BY <2>6, SMT DEF Blank
<1>. QED  BY <1>3, <1>4, <1>5, SMT

-----------------------------------------------------------------------------
(* Signatures (cose.ts, der-to-cose.ts) *)

\* A number as it is written: not negative, and no zero in front that is not needed.
Minimal(v) ==
  /\ v \in Seq(Byte) /\ v # <<>>
  /\ v[1] < 128
  /\ Len(v) > 1 /\ v[1] = 0 => v[2] >= 128

\* Bytes are numbers.
LEMMA BytesAreNumbers == \A b \in Byte : b \in Nat /\ b <= 255
BY DEF Byte

\* The zeros in front of a number end somewhere.
LEMMA NumbersBegin ==
  ASSUME NEW value \in Seq(Byte), value # <<>>
  PROVE  \E i \in 1..Len(value) : Begins(value, i)
<1> DEFINE T == {i \in 1..Len(value) : value[i] # 0 \/ i = Len(value)}
<1>1. Len(value) \in Nat /\ Len(value) >= 1
  BY EmptySeq, LenProperties
<1>2. T \in SUBSET Nat /\ Len(value) \in T
  BY <1>1
<1>3. PICK i \in T : \A j \in T : i <= j
  BY <1>2, LeastOf
<1>4. \A j \in 1..(i - 1) : value[j] = 0
  <2> SUFFICES ASSUME NEW j \in 1..(i - 1) PROVE value[j] = 0
    OBVIOUS
  <2>1. j \in 1..Len(value) /\ j < i
    BY <1>1
  <2>2. j \notin T
    BY <1>3, <2>1
  <2> QED BY <2>1, <2>2
<1> QED BY <1>3, <1>4 DEF Begins

\* They end in one place only, which is the one that is taken.
LEMMA BeginIsFound ==
  ASSUME NEW value \in Seq(Byte), NEW i \in 1..Len(value), Begins(value, i)
  PROVE  First(value) = i
<1> PICK last : last = Len(value)
  OBVIOUS
<1>1. last \in Nat /\ i \in 1..last
  BY LenProperties
<1>2. ASSUME NEW n \in 1..last, Begins(value, n)
      PROVE  n = i
  <2>0. /\ \A j \in 1..(i - 1) : value[j] = 0
        /\ value[i] # 0 \/ i = last
        /\ \A j \in 1..(n - 1) : value[j] = 0
        /\ value[n] # 0 \/ n = last
    BY <1>2 DEF Begins
  <2>1. ASSUME n < i PROVE FALSE
    <3>1. n \in 1..(i - 1) /\ n # last
      BY <1>1, <2>1
    <3> QED BY <2>0, <3>1
  <2>2. ASSUME i < n PROVE FALSE
    <3>1. i \in 1..(n - 1) /\ i # last
      BY <1>1, <2>2
    <3> QED BY <2>0, <3>1
  <2> QED BY <1>1, <2>1, <2>2
<1> QED BY <1>1, <1>2 DEF First

\* Two bytes are a sequence of bytes.
LEMMA PairIs ==
  ASSUME NEW a \in Byte, NEW b \in Byte
  PROVE  <<a, b>> \in Seq(Byte) /\ Len(<<a, b>>) = 2 /\ <<a, b>>[1] = a /\ <<a, b>>[2] = b
OBVIOUS

\* Two sequences one after the other, with their lengths named.
IsJoined(c, a, m, b, n) ==
  /\ m \in Nat /\ n \in Nat
  /\ c \in Seq(Byte) /\ Len(c) = m + n
  /\ \A k \in 1..m : c[k] = a[k]
  /\ \A k \in 1..n : c[m + k] = b[k]

\* What two sequences make one after the other.
LEMMA Joined ==
  ASSUME NEW m, NEW n, NEW a \in Seq(Byte), Len(a) = m, NEW b \in Seq(Byte), Len(b) = n
  PROVE  IsJoined(a \o b, a, m, b, n)
<1> PICK c : c = a \o b
  OBVIOUS
<1>1. m \in Nat /\ n \in Nat
  BY LenProperties
<1>2. /\ c \in Seq(Byte) /\ Len(c) = Len(a) + Len(b)
      /\ \A i \in 1..(Len(a) + Len(b)) : c[i] = IF i <= Len(a) THEN a[i] ELSE b[i - Len(a)]
  BY ConcatProperties
<1>3. /\ Len(c) = m + n
      /\ \A i \in 1..(m + n) : c[i] = IF i <= m THEN a[i] ELSE b[i - m]
  BY <1>2
<1>4. ASSUME NEW k \in 1..m PROVE c[k] = a[k]
  <2>1. k \in 1..(m + n) /\ k <= m
    BY <1>1
  <2> QED BY <1>3, <2>1
<1>5. ASSUME NEW k \in 1..n PROVE c[m + k] = b[k]
  <2> PICK i : i = m + k
    OBVIOUS
  <2>1. i \in 1..(m + n) /\ ~(i <= m) /\ i - m = k
    BY <1>1
  <2>2. c[i] = b[k]
    BY <1>3, <2>1
  <2> QED BY <2>2
<1> QED BY <1>1, <1>2, <1>3, <1>4, <1>5 DEF IsJoined

\* A number n of m bytes with a zero in front.
HasZeroBefore(w, n, m) ==
  /\ w \in Seq(Byte) /\ Len(w) = m + 1
  /\ w[1] = 0 /\ \A k \in 1..m : w[k + 1] = n[k]

\* What a number is with a zero in front.
LEMMA ZeroBefore ==
  ASSUME NEW n \in Seq(Byte), NEW m, Len(n) = m
  PROVE  HasZeroBefore(<<0>> \o n, n, m)
<1>1. <<0>> \in Seq(Byte) /\ Len(<<0>>) = 1 /\ <<0>>[1] = 0
  BY DEF Byte
<1> PICK zero : zero = <<0>>
  OBVIOUS
<1> PICK w : w = zero \o n
  OBVIOUS
<1>2. /\ m \in Nat /\ w \in Seq(Byte) /\ Len(w) = 1 + m
      /\ \A k \in 1..1 : w[k] = zero[k]
      /\ \A k \in 1..m : w[1 + k] = n[k]
  <2>1. zero \in Seq(Byte) /\ Len(zero) = 1
    BY <1>1
  <2>2. IsJoined(w, zero, 1, n, m)
    BY <2>1, Joined
  <2> QED BY <2>2 DEF IsJoined
<1>3. w[1] = 0
  <2>1. zero[1] = 0 /\ 1 \in 1..1
    BY <1>1
  <2> QED BY <1>2, <2>1
<1>4. Len(w) = m + 1 /\ \A k \in 1..m : w[k + 1] = n[k]
  <2>1. \A k \in 1..m : 1 + k = k + 1
    BY <1>2
  <2>2. 1 + m = m + 1
    BY <1>2
  <2> QED BY <1>2, <2>1, <2>2
<1> QED BY <1>2, <1>3, <1>4 DEF HasZeroBefore

\* Sequences of one length with the same elements are the same.
LEMMA SameSequence ==
  ASSUME NEW v \in Seq(Byte), NEW w \in Seq(Byte), NEW n, Len(v) = n, Len(w) = n, \A k \in 1..n : w[k] = v[k]
  PROVE  w = v
BY SeqEqual

\* A number whose first byte is zero is the rest of it with a zero in front.
LEMMA ZeroIsBefore ==
  ASSUME NEW n \in Seq(Byte), NEW v \in Seq(Byte), NEW m \in Nat, Len(n) = m, Len(v) = m + 1,
         v[1] = 0, \A k \in 1..m : n[k] = v[k + 1]
  PROVE  <<0>> \o n = v
<1>1. ASSUME NEW w, HasZeroBefore(w, n, m) PROVE w = v
  <2>1. w \in Seq(Byte) /\ Len(w) = m + 1 /\ w[1] = 0 /\ \A k \in 1..m : w[k + 1] = n[k]
    BY <1>1 DEF HasZeroBefore
  <2>2. ASSUME NEW k \in 1..(m + 1) PROVE w[k] = v[k]
    <3>1. CASE k = 1
      BY <2>1, <3>1
    <3>2. CASE k > 1
      <4>1. PICK j \in 1..m : k = j + 1
        <5>1. k - 1 \in 1..m /\ k = (k - 1) + 1
          BY <3>2
        <5> QED BY <5>1
      <4>2. w[j + 1] = v[j + 1]
        BY <2>1, <4>1
      <4> QED BY <4>1, <4>2
    <3> QED BY <3>1, <3>2
  <2> QED BY <2>1, <2>2, SameSequence
<1> QED BY <1>1, ZeroBefore

\* A number in as many bytes as there are.
LEMMA Padded ==
  ASSUME NEW u \in Seq(Byte), Len(u) <= Width
  PROVE  /\ LeftPad(u) \in Seq(Byte) /\ Len(LeftPad(u)) = Width
         /\ \A k \in 1..Width : LeftPad(u)[k] = IF k <= Width - Len(u) THEN 0 ELSE u[k - (Width - Len(u))]
<1> DEFINE n == Width - Len(u)
           zeros == [i \in 1..n |-> 0]
<1>1. Len(u) \in Nat /\ Width \in Nat /\ n \in Nat
  BY WidthAssumption, LenProperties
<1>2. zeros \in [1..n -> Byte]
  BY DEF Byte
<1> HIDE DEF zeros
<1>3. zeros \in Seq(Byte) /\ Len(zeros) = n
  BY <1>1, <1>2, SeqDef, LenProperties
<1>4. /\ zeros \o u \in Seq(Byte) /\ Len(zeros \o u) = Len(zeros) + Len(u)
      /\ \A i \in 1..(Len(zeros) + Len(u)) : (zeros \o u)[i] = IF i <= Len(zeros) THEN zeros[i] ELSE u[i - Len(zeros)]
  BY <1>3, ConcatProperties
<1>5. LeftPad(u) = zeros \o u
  BY DEF LeftPad, zeros
<1>6. \A k \in 1..n : zeros[k] = 0
  BY DEF zeros
<1>7. Len(zeros) + Len(u) = Width
  BY <1>1, <1>3
<1> QED BY <1>1, <1>3, <1>4, <1>5, <1>6, <1>7

\* A number and the same number without its leading zero say the same.
LEMMA Unsigned ==
  ASSUME NEW v, Minimal(v)
  PROVE  /\ WithoutZero(v) \in Seq(Byte)
         /\ v[1] # 0 => WithoutZero(v) = v
         /\ v[1] = 0 => /\ Len(WithoutZero(v)) = Len(v) - 1
                        /\ \A k \in 1..(Len(v) - 1) : WithoutZero(v)[k] = v[k + 1]
<1>1. v \in Seq(Byte) /\ v # <<>>
  BY DEF Minimal
<1>2. /\ Tail(v) \in Seq(Byte) /\ Len(Tail(v)) = Len(v) - 1
      /\ \A i \in 1..Len(Tail(v)) : Tail(v)[i] = v[i + 1]
  BY <1>1, HeadTailProperties
<1> QED BY <1>1, <1>2 DEF WithoutZero

\* From a fixed number of bytes to a number and back.
LEMMA WrittenReadsBack ==
  ASSUME NEW value \in Seq(Byte), Len(value) = Width
  PROVE  LET w == WriteInteger(value)
         IN  /\ Minimal(w) /\ Len(w) \in 1..(Width + 1)
             /\ Len(WithoutZero(w)) <= Width /\ LeftPad(WithoutZero(w)) = value
<1>1. Width \in Nat /\ Width >= 1 /\ value # <<>>
  BY WidthAssumption, EmptySeq
<1>2. PICK i \in 1..Width : Begins(value, i)
  BY <1>1, NumbersBegin
<1>3. PICK n : n = SubSeq(value, i, Width)
  OBVIOUS
<1>4. WriteInteger(value) = IF n[1] >= 128 THEN <<0>> \o n ELSE n
  <2>1. First(value) = i
    BY <1>2, BeginIsFound
  <2> QED BY <1>3, <2>1 DEF WriteInteger
<1>5. /\ n \in Seq(Byte) /\ Len(n) = Width - i + 1
      /\ \A k \in 1..(Width - i + 1) : n[k] = value[i + k - 1]
  <2>1. \A k \in i..Width : value[k] \in Byte
    BY <1>1, ElementOfSeq
  <2>2. i \in Int /\ Width \in Int /\ i <= Width
    BY <1>1, <1>2
  <2> QED BY <1>3, <2>1, <2>2, SubSeqProperties
<1>6. /\ \A k \in 1..(i - 1) : value[k] = 0
      /\ value[i] # 0 \/ i = Width
      /\ n[1] = value[i] /\ n[1] \in Byte
  BY <1>1, <1>2, <1>5, ElementOfSeq DEF Begins
<1>7. ASSUME NEW u \in Seq(Byte), Len(u) = Width - i + 1, \A k \in 1..(Width - i + 1) : u[k] = value[i + k - 1]
      PROVE  LeftPad(u) = value
  <2>1. /\ LeftPad(u) \in Seq(Byte) /\ Len(LeftPad(u)) = Width
        /\ \A k \in 1..Width : LeftPad(u)[k] = IF k <= Width - Len(u) THEN 0 ELSE u[k - (Width - Len(u))]
    BY <1>1, <1>7, Padded
  <2>2. \A k \in 1..Width : LeftPad(u)[k] = value[k]
    <3> SUFFICES ASSUME NEW k \in 1..Width PROVE LeftPad(u)[k] = value[k]
      OBVIOUS
    <3>1. CASE k <= i - 1
      BY <1>1, <1>6, <1>7, <2>1, <3>1
    <3>2. CASE k >= i
      <4>1. k - (i - 1) \in 1..(Width - i + 1) /\ i + (k - (i - 1)) - 1 = k /\ ~(k <= Width - Len(u)) /\ k - (Width - Len(u)) = k - (i - 1)
        BY <1>1, <1>7, <3>2
      <4> QED BY <1>7, <2>1, <4>1
    <3> QED BY <1>1, <3>1, <3>2
  <2> QED BY <2>1, <2>2, SeqEqual
<1>8. CASE n[1] >= 128
  <2> PICK w : w = <<0>> \o n
    OBVIOUS
  <2>2. /\ w \in Seq(Byte) /\ Len(w) = 1 + Len(n)
        /\ w[1] = 0 /\ \A k \in 1..Len(n) : w[k + 1] = n[k]
    <3> PICK m : m = Len(n)
      OBVIOUS
    <3>1. /\ w \in Seq(Byte) /\ Len(w) = m + 1
          /\ w[1] = 0 /\ \A k \in 1..m : w[k + 1] = n[k]
      BY <1>5, ZeroBefore DEF HasZeroBefore
    <3>2. m + 1 = 1 + m
      BY <1>1, <1>5
    <3> QED BY <3>1, <3>2
  <2>3. Minimal(w) /\ Len(w) \in 1..(Width + 1)
    <3>1. w # <<>> /\ w[2] = n[1]
      BY <1>1, <1>5, <2>2, EmptySeq
    <3> QED BY <1>1, <1>5, <1>8, <2>2, <3>1 DEF Minimal
  <2>4. /\ WithoutZero(w) \in Seq(Byte) /\ Len(WithoutZero(w)) = Len(n)
        /\ \A k \in 1..Len(n) : WithoutZero(w)[k] = n[k]
    <3>1. /\ WithoutZero(w) \in Seq(Byte) /\ Len(WithoutZero(w)) = Len(w) - 1
          /\ \A k \in 1..(Len(w) - 1) : WithoutZero(w)[k] = w[k + 1]
      BY <2>2, <2>3, Unsigned
    <3>2. Len(w) - 1 = Len(n)
      BY <1>1, <1>5, <2>2
    <3> QED BY <2>2, <3>1, <3>2
  <2>5. LeftPad(WithoutZero(w)) = value /\ Len(WithoutZero(w)) <= Width
    BY <1>1, <1>5, <1>7, <2>4
  <2> QED BY <1>4, <1>8, <2>3, <2>5
<1>9. CASE n[1] # 0 /\ n[1] < 128
  <2>1. Minimal(n) /\ Len(n) \in 1..(Width + 1)
    BY <1>1, <1>5, <1>9, EmptySeq DEF Minimal
  <2>2. WithoutZero(n) = n
    BY <1>9, <2>1, Unsigned
  <2>3. LeftPad(n) = value /\ Len(n) <= Width
    BY <1>1, <1>5, <1>7
  <2>4. n[1] \in Nat
    BY <1>6, BytesAreNumbers
  <2>5. WriteInteger(value) = n
    BY <1>4, <1>9, <2>4
  <2> QED BY <2>1, <2>2, <2>3, <2>5
<1>10. CASE n[1] = 0
  <2>1. i = Width /\ Len(n) = 1
    BY <1>1, <1>5, <1>6, <1>10
  <2>2. n # <<>> /\ n[1] < 128 /\ ~(n[1] >= 128)
    <3>1. n # <<>>
      <4>1. Len(<<>>) = 0
        BY EmptySeq
      <4> QED BY <2>1, <4>1
    <3> QED BY <1>10, <3>1
  <2>3. Minimal(n) /\ WriteInteger(value) = n
    BY <1>4, <1>5, <2>1, <2>2 DEF Minimal
  <2>4. WithoutZero(n) \in Seq(Byte) /\ Len(WithoutZero(n)) = 0
    BY <1>10, <2>1, <2>3, Unsigned
  <2> PICK u : u = WithoutZero(n)
    OBVIOUS
  <2>5. /\ LeftPad(u) \in Seq(Byte) /\ Len(LeftPad(u)) = Width
        /\ \A k \in 1..Width : LeftPad(u)[k] = IF k <= Width - Len(u) THEN 0 ELSE u[k - (Width - Len(u))]
    <3>1. u \in Seq(Byte) /\ Len(u) <= Width
      BY <1>1, <2>4
    <3> QED BY <3>1, Padded
  <2>6. \A k \in 1..Width : LeftPad(u)[k] = 0
    BY <1>1, <2>4, <2>5
  <2>7. \A k \in 1..Width : value[k] = 0
    <3> SUFFICES ASSUME NEW k \in 1..Width PROVE value[k] = 0
      OBVIOUS
    <3>1. k = Width \/ k \in 1..(Width - 1)
      BY <1>1
    <3>2. value[Width] = 0 /\ \A j \in 1..(Width - 1) : value[j] = 0
      BY <1>6, <1>10, <2>1
    <3> QED BY <3>1, <3>2
  <2>8. LeftPad(u) = value
    BY <2>5, <2>6, <2>7, SeqEqual
  <2>9. Len(n) \in 1..(Width + 1) /\ Len(u) <= Width
    BY <1>1, <2>1, <2>4
  <2> QED BY <2>3, <2>8, <2>9
<1>11. n[1] >= 128 \/ n[1] < 128
  BY <1>6, BytesAreNumbers
<1> QED BY <1>8, <1>9, <1>10, <1>11

\* From a number to a fixed number of bytes and back.
LEMMA ReadWritesBack ==
  ASSUME NEW v, Minimal(v), Len(WithoutZero(v)) <= Width
  PROVE  /\ LeftPad(WithoutZero(v)) \in Seq(Byte) /\ Len(LeftPad(WithoutZero(v))) = Width
         /\ WriteInteger(LeftPad(WithoutZero(v))) = v
<1> PICK u : u = WithoutZero(v)
  OBVIOUS
<1> PICK p : p = LeftPad(u)
  OBVIOUS
<1> PICK size : size = Len(v)
  OBVIOUS
<1>1. /\ v \in Seq(Byte) /\ v # <<>> /\ v[1] < 128
      /\ size > 1 /\ v[1] = 0 => v[2] >= 128
  BY DEF Minimal
<1>2. Width \in Nat /\ Width >= 1 /\ size \in Nat /\ size >= 1
  BY <1>1, WidthAssumption, EmptySeq, LenProperties
<1>3. \A k \in 1..size : v[k] \in Nat
  BY <1>1, ElementOfSeq, BytesAreNumbers
<1>4. /\ u \in Seq(Byte)
      /\ v[1] # 0 => u = v
      /\ v[1] = 0 => Len(u) = size - 1 /\ \A k \in 1..(size - 1) : u[k] = v[k + 1]
  BY Unsigned
<1>5. /\ p \in Seq(Byte) /\ Len(p) = Width
      /\ \A k \in 1..Width : p[k] = IF k <= Width - Len(u) THEN 0 ELSE u[k - (Width - Len(u))]
  BY <1>4, Padded
<1>6. p # <<>>
  <2>1. Len(<<>>) = 0
    BY EmptySeq
  <2> QED BY <1>2, <1>5, <2>1
<1>7. ASSUME NEW i \in 1..Width, Begins(p, i)
      PROVE  /\ WriteInteger(p) = IF SubSeq(p, i, Width)[1] >= 128 THEN <<0>> \o SubSeq(p, i, Width) ELSE SubSeq(p, i, Width)
             /\ SubSeq(p, i, Width) \in Seq(Byte) /\ Len(SubSeq(p, i, Width)) = Width - i + 1
             /\ \A k \in 1..(Width - i + 1) : SubSeq(p, i, Width)[k] = p[i + k - 1]
  <2>1. First(p) = i
    BY <1>5, <1>7, BeginIsFound
  <2>2. WriteInteger(p) = IF SubSeq(p, i, Width)[1] >= 128 THEN <<0>> \o SubSeq(p, i, Width) ELSE SubSeq(p, i, Width)
    BY <1>5, <2>1 DEF WriteInteger
  <2>3. \A k \in i..Width : p[k] \in Byte
    BY <1>2, <1>5, ElementOfSeq
  <2>4. i \in Int /\ Width \in Int /\ i <= Width
    BY <1>2
  <2>5. /\ SubSeq(p, i, Width) \in Seq(Byte) /\ Len(SubSeq(p, i, Width)) = Width - i + 1
        /\ \A k \in 1..(Width - i + 1) : SubSeq(p, i, Width)[k] = p[i + k - 1]
    BY <2>3, <2>4, SubSeqProperties
  <2> QED BY <2>2, <2>5
<1>8. CASE v[1] = 0 /\ size = 1
  <2>1. Len(u) = 0
    BY <1>4, <1>8
  <2>2. \A k \in 1..Width : p[k] = 0
    BY <1>2, <1>5, <2>1
  <2>3. Begins(p, Width)
    BY <1>2, <1>5, <2>2 DEF Begins
  <2> PICK n : n = SubSeq(p, Width, Width)
    OBVIOUS
  <2>4. Width \in 1..Width /\ Width - Width + 1 = 1 /\ Width + 1 - 1 = Width
    BY <1>2
  <2>5. n \in Seq(Byte) /\ Len(n) = 1 /\ n[1] = p[Width]
    BY <1>7, <2>3, <2>4
  <2>6. n = v
    <3>1. \A k \in 1..1 : n[k] = v[k]
      BY <1>8, <2>2, <2>4, <2>5
    <3> QED BY <1>1, <1>8, <2>5, <3>1, SeqEqual
  <2>7. ~(n[1] >= 128)
    BY <1>8, <2>6
  <2>8. WriteInteger(p) = n
    BY <1>7, <2>3, <2>4, <2>7
  <2> QED BY <1>5, <2>6, <2>8
<1>9. CASE v[1] # 0
  <2>1. u = v /\ Len(u) = size
    BY <1>4, <1>9
  <2> PICK i : i = Width - size + 1
    OBVIOUS
  <2>2. i \in 1..Width /\ Width - i + 1 = size /\ size <= Width
    BY <1>2, <2>1
  <2>3. \A k \in 1..(i - 1) : p[k] = 0
    <3> SUFFICES ASSUME NEW k \in 1..(i - 1) PROVE p[k] = 0
      OBVIOUS
    <3>1. k \in 1..Width /\ k <= Width - size
      BY <1>2, <2>2
    <3> QED BY <1>5, <2>1, <3>1
  <2>4. \A k \in 1..size : p[i + k - 1] = v[k]
    <3> SUFFICES ASSUME NEW k \in 1..size PROVE p[i + k - 1] = v[k]
      OBVIOUS
    <3> PICK j : j = i + k - 1
      OBVIOUS
    <3>1. j \in 1..Width /\ ~(j <= Width - Len(u)) /\ j - (Width - Len(u)) = k
      BY <1>2, <2>1, <2>2
    <3>2. p[j] = u[k]
      BY <1>5, <3>1
    <3> QED BY <2>1, <3>2
  <2>5. 1 \in 1..size /\ i + 1 - 1 = i
    BY <1>2, <2>2
  <2>6. p[i] = v[1]
    BY <2>4, <2>5
  <2>7. Begins(p, i)
    BY <1>9, <2>3, <2>6 DEF Begins
  <2> PICK n : n = SubSeq(p, i, Width)
    OBVIOUS
  <2>8. n \in Seq(Byte) /\ Len(n) = size /\ \A k \in 1..size : n[k] = p[i + k - 1]
    BY <1>7, <2>2, <2>7
  <2>9. n = v
    <3>1. \A k \in 1..size : n[k] = v[k]
      BY <2>4, <2>8
    <3> QED BY <1>1, <2>8, <3>1, SeqEqual
  <2>10. ~(n[1] >= 128)
    <3>1. v[1] < 128 /\ v[1] \in Nat
      BY <1>1, <1>3, <2>5
    <3>2. ~(v[1] >= 128)
      BY <3>1
    <3> QED BY <2>9, <3>2, Zenon
  <2>11. WriteInteger(p) = n
    BY <1>7, <2>2, <2>7, <2>10
  <2> QED BY <1>5, <2>9, <2>11
<1>10. CASE v[1] = 0 /\ size > 1
  <2>1. Len(u) = size - 1 /\ \A k \in 1..(size - 1) : u[k] = v[k + 1]
    BY <1>4, <1>10
  <2> PICK i : i = Width - (size - 1) + 1
    OBVIOUS
  <2>2. i \in 1..Width /\ Width - i + 1 = size - 1 /\ size - 1 <= Width
    BY <1>2, <1>10, <2>1
  <2>3. \A k \in 1..(i - 1) : p[k] = 0
    <3> SUFFICES ASSUME NEW k \in 1..(i - 1) PROVE p[k] = 0
      OBVIOUS
    <3>1. k \in 1..Width /\ k <= Width - Len(u)
      BY <1>2, <2>1, <2>2
    <3> QED BY <1>5, <3>1
  <2>4. \A k \in 1..(size - 1) : p[i + k - 1] = v[k + 1]
    <3> SUFFICES ASSUME NEW k \in 1..(size - 1) PROVE p[i + k - 1] = v[k + 1]
      OBVIOUS
    <3> PICK j : j = i + k - 1
      OBVIOUS
    <3>1. j \in 1..Width /\ ~(j <= Width - Len(u)) /\ j - (Width - Len(u)) = k
      BY <1>2, <2>1, <2>2
    <3>2. p[j] = u[k]
      BY <1>5, <3>1
    <3> QED BY <2>1, <3>2
  <2>5. 1 \in 1..(size - 1) /\ i + 1 - 1 = i /\ 1 + 1 = 2 /\ 2 \in 1..size
    BY <1>2, <1>10, <2>2
  <2>6. p[i] = v[2] /\ v[2] >= 128 /\ v[2] \in Nat
    BY <1>1, <1>3, <1>10, <2>4, <2>5
  <2>7. p[i] # 0
    BY <2>6
  <2>8. Begins(p, i)
    BY <2>3, <2>7 DEF Begins
  <2> PICK n : n = SubSeq(p, i, Width)
    OBVIOUS
  <2>9. n \in Seq(Byte) /\ Len(n) = size - 1 /\ \A k \in 1..(size - 1) : n[k] = p[i + k - 1]
    BY <1>7, <2>2, <2>8
  <2>10. \A k \in 1..(size - 1) : n[k] = v[k + 1]
    BY <2>4, <2>9
  <2>11. n[1] >= 128
    BY <2>5, <2>6, <2>10
  <2>12. WriteInteger(p) = <<0>> \o n
    BY <1>7, <2>2, <2>8, <2>11
  <2>13. <<0>> \o n = v
    <3> PICK m : m = size - 1
      OBVIOUS
    <3>1. m \in Nat /\ m + 1 = size
      BY <1>2
    <3>2. Len(n) = m /\ Len(v) = m + 1 /\ \A k \in 1..m : n[k] = v[k + 1]
      BY <2>9, <2>10, <3>1
    <3> QED BY <1>1, <1>10, <2>9, <3>1, <3>2, ZeroIsBefore
  <2> QED BY <1>5, <2>12, <2>13
<1> QED BY <1>2, <1>8, <1>9, <1>10

\* A content behind its tag and its length n.
IsTagged(t, tag, content, n) ==
  /\ n \in Nat
  /\ t \in Seq(Byte) /\ Len(t) = 2 + n
  /\ t[1] = tag /\ t[2] = n
  /\ \A k \in 1..n : t[2 + k] = content[k]

\* What a content is behind its tag and its length.
LEMMA TaggedIs ==
  ASSUME NEW n, n <= 255, NEW tag \in Byte, NEW content \in Seq(Byte), Len(content) = n
  PROVE  IsTagged(Tagged(tag, content), tag, content, n)
<1>1. n \in Nat /\ n \in Byte
  <2>1. n \in Nat
    BY LenProperties
  <2> QED BY <2>1 DEF Byte
<1> PICK head : head = <<tag, n>>
  OBVIOUS
<1>2. head \in Seq(Byte) /\ Len(head) = 2 /\ head[1] = tag /\ head[2] = n
  BY <1>1, PairIs
<1> PICK t : t = head \o content
  OBVIOUS
<1>3. /\ t \in Seq(Byte) /\ Len(t) = 2 + n
      /\ \A k \in 1..2 : t[k] = head[k]
      /\ \A k \in 1..n : t[2 + k] = content[k]
  <2>1. IsJoined(t, head, 2, content, n)
    BY <1>2, Joined
  <2> QED BY <2>1 DEF IsJoined
<1>4. Tagged(tag, content) = t
  BY DEF Tagged
<1>5. IsTagged(t, tag, content, n)
  BY <1>1, <1>2, <1>3 DEF IsTagged
<1> QED BY <1>4, <1>5

\* Where two numbers of lr and ls bytes are in a signature of n bytes.
Laid(der, n, r, lr, s, ls) ==
  /\ der \in Seq(Byte) /\ Len(der) = n
  /\ lr \in Nat /\ ls \in Nat /\ n = 6 + lr + ls /\ n <= 129
  /\ r \in Seq(Byte) /\ Len(r) = lr
  /\ s \in Seq(Byte) /\ Len(s) = ls
  /\ der[1] = SequenceTag /\ der[2] = n - 2
  /\ der[3] = IntegerTag /\ der[4] = lr
  /\ der[5 + lr] = IntegerTag /\ der[6 + lr] = ls
  /\ \A k \in 1..lr : der[4 + k] = r[k]
  /\ \A k \in 1..ls : der[6 + lr + k] = s[k]

\* A signature is written as it is laid out.
LEMMA SignatureIsLaid ==
  ASSUME NEW lr \in Nat, NEW ls \in Nat, NEW n, n = 6 + lr + ls, n <= 129,
         NEW r \in Seq(Byte), Len(r) = lr, NEW s \in Seq(Byte), Len(s) = ls
  PROVE  Laid(Tagged(SequenceTag, Tagged(IntegerTag, r) \o Tagged(IntegerTag, s)), n, r, lr, s, ls)
<1> PICK a : a = Tagged(IntegerTag, r)
  OBVIOUS
<1> PICK b : b = Tagged(IntegerTag, s)
  OBVIOUS
<1> PICK body : body = a \o b
  OBVIOUS
<1> PICK der : der = Tagged(SequenceTag, body)
  OBVIOUS
<1>0. IntegerTag \in Byte /\ SequenceTag \in Byte /\ lr <= 255 /\ ls <= 255 /\ n - 2 <= 255
  BY DEF IntegerTag, SequenceTag, Byte
<1>1. /\ a \in Seq(Byte) /\ Len(a) = 2 + lr /\ a[1] = IntegerTag /\ a[2] = lr
      /\ \A k \in 1..lr : a[2 + k] = r[k]
  <2>1. IsTagged(a, IntegerTag, r, lr)
    BY <1>0, TaggedIs
  <2> QED BY <2>1 DEF IsTagged
<1>2. /\ b \in Seq(Byte) /\ Len(b) = 2 + ls /\ b[1] = IntegerTag /\ b[2] = ls
      /\ \A k \in 1..ls : b[2 + k] = s[k]
  <2>1. IsTagged(b, IntegerTag, s, ls)
    BY <1>0, TaggedIs
  <2> QED BY <2>1 DEF IsTagged
<1>3. /\ body \in Seq(Byte) /\ Len(body) = (2 + lr) + (2 + ls)
      /\ \A k \in 1..(2 + lr) : body[k] = a[k]
      /\ \A k \in 1..(2 + ls) : body[(2 + lr) + k] = b[k]
  <2>1. IsJoined(body, a, 2 + lr, b, 2 + ls)
    BY <1>1, <1>2, Joined
  <2> QED BY <2>1 DEF IsJoined
<1>4. Len(body) = n - 2
  BY <1>3
<1>5. /\ der \in Seq(Byte) /\ Len(der) = 2 + (n - 2) /\ der[1] = SequenceTag /\ der[2] = n - 2
      /\ \A k \in 1..(n - 2) : der[2 + k] = body[k]
  <2>1. IsTagged(der, SequenceTag, body, n - 2)
    BY <1>0, <1>3, <1>4, TaggedIs
  <2> QED BY <2>1 DEF IsTagged
<1>6. \A k \in 1..(2 + lr) : der[2 + k] = a[k]
  <2> SUFFICES ASSUME NEW k \in 1..(2 + lr) PROVE der[2 + k] = a[k]
    OBVIOUS
  <2>1. k \in 1..(n - 2)
    OBVIOUS
  <2> QED BY <1>3, <1>5, <2>1
<1>7. \A k \in 1..(2 + ls) : der[4 + lr + k] = b[k]
  <2> SUFFICES ASSUME NEW k \in 1..(2 + ls) PROVE der[4 + lr + k] = b[k]
    OBVIOUS
  <2> PICK j : j = (2 + lr) + k
    OBVIOUS
  <2>1. j \in 1..(n - 2) /\ 4 + lr + k = 2 + j
    OBVIOUS
  <2>2. der[2 + j] = body[j] /\ body[j] = b[k]
    BY <1>3, <1>5, <2>1
  <2> QED BY <2>1, <2>2
<1>8. der[3] = IntegerTag /\ der[4] = lr /\ \A k \in 1..lr : der[4 + k] = r[k]
  <2>1. 1 \in 1..(2 + lr) /\ 2 \in 1..(2 + lr) /\ 2 + 1 = 3 /\ 2 + 2 = 4
    OBVIOUS
  <2>2. ASSUME NEW k \in 1..lr PROVE der[4 + k] = r[k]
    <3> PICK j : j = 2 + k
      OBVIOUS
    <3>1. j \in 1..(2 + lr) /\ 2 + j = 4 + k
      OBVIOUS
    <3> QED BY <1>1, <1>6, <3>1
  <2> QED BY <1>1, <1>6, <2>1, <2>2
<1>9. der[5 + lr] = IntegerTag /\ der[6 + lr] = ls /\ \A k \in 1..ls : der[6 + lr + k] = s[k]
  <2>1. 1 \in 1..(2 + ls) /\ 2 \in 1..(2 + ls) /\ 4 + lr + 1 = 5 + lr /\ 4 + lr + 2 = 6 + lr
    OBVIOUS
  <2>2. ASSUME NEW k \in 1..ls PROVE der[6 + lr + k] = s[k]
    <3> PICK j : j = 2 + k
      OBVIOUS
    <3>1. j \in 1..(2 + ls) /\ 4 + lr + j = 6 + lr + k
      OBVIOUS
    <3> QED BY <1>2, <1>7, <3>1
  <2> QED BY <1>2, <1>7, <2>1, <2>2
<1>10. Len(der) = n
  BY <1>5
<1> QED BY <1>5, <1>8, <1>9, <1>10 DEF Laid

\* Two signatures that are laid out alike are the same.
LEMMA LaidAlike ==
  ASSUME NEW lr, NEW ls, NEW n, NEW r, NEW s, NEW der, NEW der2,
         Laid(der, n, r, lr, s, ls), Laid(der2, n, r, lr, s, ls)
  PROVE  der = der2
<1>1. /\ der \in Seq(Byte) /\ Len(der) = n /\ der2 \in Seq(Byte) /\ Len(der2) = n
      /\ lr \in Nat /\ ls \in Nat /\ n = 6 + lr + ls
      /\ der[1] = der2[1] /\ der[2] = der2[2] /\ der[3] = der2[3] /\ der[4] = der2[4]
      /\ der[5 + lr] = der2[5 + lr] /\ der[6 + lr] = der2[6 + lr]
      /\ \A k \in 1..lr : der[4 + k] = der2[4 + k]
      /\ \A k \in 1..ls : der[6 + lr + k] = der2[6 + lr + k]
  BY DEF Laid
<1>2. ASSUME NEW i \in 1..n PROVE der[i] = der2[i]
  <2>1. i \in 1..4 \/ i - 4 \in 1..lr \/ i = 5 + lr \/ i = 6 + lr \/ i - (6 + lr) \in 1..ls
    BY <1>1
  <2>2. CASE i \in 1..4
    <3>1. i = 1 \/ i = 2 \/ i = 3 \/ i = 4
      BY <2>2
    <3> QED BY <1>1, <3>1
  <2>3. CASE i - 4 \in 1..lr
    <3>1. PICK k \in 1..lr : i = 4 + k
      BY <1>1, <2>3
    <3> QED BY <1>1, <3>1
  <2>4. CASE i - (6 + lr) \in 1..ls
    <3>1. PICK k \in 1..ls : i = 6 + lr + k
      BY <1>1, <2>4
    <3> QED BY <1>1, <3>1
  <2> QED BY <1>1, <2>1, <2>2, <2>3, <2>4
<1> QED BY <1>1, <1>2, SeqEqual

\* A sequence of n bytes.
IsOctets(v, n) == n \in Nat /\ v \in Seq(Byte) /\ Len(v) = n

\* The count bytes that follow the first b.
IsSlice(v, der, b, count) == IsOctets(v, count) /\ \A k \in 1..count : v[k] = der[b + k]

\* What is cut out of a sequence of bytes.
LEMMA SliceIs ==
  ASSUME NEW der, NEW n, IsOctets(der, n), NEW b \in Nat, NEW count \in Nat, b + count <= n, count >= 1
  PROVE  IsSlice(SubSeq(der, b + 1, b + count), der, b, count)
<1> PICK m : m = b + 1
  OBVIOUS
<1> PICK last : last = b + count
  OBVIOUS
<1>1. n \in Nat /\ der \in Seq(Byte) /\ Len(der) = n
  BY DEF IsOctets
<1>2. last \in Int /\ m \in Int /\ m <= last /\ last - m + 1 = count
  OBVIOUS
<1>3. \A k \in m..last : der[k] \in Byte
  <2>1. \A k \in m..last : k \in 1..n
    BY <1>1
  <2> QED BY <1>1, <2>1, ElementOfSeq
<1>4. /\ SubSeq(der, m, last) \in Seq(Byte)
      /\ Len(SubSeq(der, m, last)) = last - m + 1
      /\ \A k \in 1..(last - m + 1) : SubSeq(der, m, last)[k] = der[m + k - 1]
  BY <1>2, <1>3, SubSeqProperties
<1>5. ASSUME NEW k \in 1..count PROVE SubSeq(der, m, last)[k] = der[b + k]
  <2>1. m + k - 1 = b + k
    OBVIOUS
  <2> QED BY <1>2, <1>4, <2>1
<1>6. IsOctets(SubSeq(der, m, last), count)
  BY <1>2, <1>4 DEF IsOctets
<1> QED BY <1>5, <1>6 DEF IsSlice

\* What is cut out in one place is one thing.
LEMMA SameSlice ==
  ASSUME NEW v, NEW w, NEW der, NEW b, NEW count, IsSlice(v, der, b, count), IsSlice(w, der, b, count)
  PROVE  v = w
BY SeqEqual DEF IsSlice, IsOctets

\* A number v of count bytes, with its length in one byte.
IsNumber(der, n, at, count, v) ==
  /\ count \in 1..127 /\ at + 1 + count <= n
  /\ der[at] = IntegerTag /\ der[at + 1] = count
  /\ IsSlice(v, der, at + 1, count)

\* Both steps of reading a number.
FoundAt(der, at, count, next, v) ==
  /\ DerLength(der, at + 1) = [next |-> at + 2, value |-> count]
  /\ DerInteger(der, at) = [next |-> next, value |-> v]

\* A number in its place is read.
LEMMA NumberIsRead ==
  ASSUME NEW der, NEW n, IsOctets(der, n), NEW at \in Nat, at >= 1,
         NEW count, NEW v, IsNumber(der, n, at, count, v), NEW next, next = at + 2 + count
  PROVE  FoundAt(der, at, count, next, v)
<1>1. /\ count \in 1..127 /\ at + 1 + count <= n
      /\ der[at] = IntegerTag /\ der[at + 1] = count
      /\ IsSlice(v, der, at + 1, count)
  BY DEF IsNumber
<1>2. n \in Nat /\ Len(der) = n
  BY DEF IsOctets
<1>3. DerLength(der, at + 1) = [next |-> at + 2, value |-> count]
  <2>1. ~(at + 1 > Len(der)) /\ der[at + 1] < 128 /\ (at + 1) + 1 = at + 2
    BY <1>1, <1>2
  <2> QED BY <1>1, <2>1 DEF DerLength
<1> PICK slice : slice = Slice(der, at + 2, count)
  OBVIOUS
<1>4. slice = v
  <2>1. slice = SubSeq(der, (at + 1) + 1, (at + 1) + count)
    <3>1. at + 2 = (at + 1) + 1 /\ at + 2 + count - 1 = (at + 1) + count
      BY <1>1
    <3> QED BY <3>1 DEF Slice
  <2>2. IsSlice(slice, der, at + 1, count)
    <3>1. count \in Nat /\ count >= 1 /\ at + 1 \in Nat /\ (at + 1) + count <= n
      BY <1>1
    <3> QED BY <2>1, <3>1, SliceIs
  <2> QED BY <1>1, <2>2, SameSlice
<1>5. DerInteger(der, at) = [next |-> next, value |-> v]
  <2> PICK length : length = DerLength(der, at + 1)
    OBVIOUS
  <2>1. /\ length.next = at + 2 /\ length.value = count
    BY <1>3
  <2>2. /\ ~(at > Len(der)) /\ at + 2 # 0 /\ count # 0 /\ ~(at + 2 + count > Len(der) + 1)
    BY <1>1, <1>2
  <2> QED BY <1>1, <1>4, <2>1, <2>2 DEF DerInteger
<1> QED BY <1>3, <1>5 DEF FoundAt

\* No byte of it announces that a length has more than one byte.
ShortLengths(der, n) == \A i \in 1..n : der[i] \notin {129, 130}

\* A byte of a sequence of bytes is a number.
LEMMA ByteAt == ASSUME NEW der, NEW n, IsOctets(der, n), NEW i \in 1..n PROVE der[i] \in Nat
BY ElementOfSeq, BytesAreNumbers DEF IsOctets

\* A length that is read where there are short ones only is the next byte.
LEMMA ShortLengthIsRead ==
  ASSUME NEW der, NEW n, IsOctets(der, n), ShortLengths(der, n),
         NEW at \in Nat, at >= 1, DerLength(der, at).next # 0
  PROVE  at <= n /\ der[at] \in 0..127 /\ DerLength(der, at) = [next |-> at + 1, value |-> der[at]]
<1>1. n \in Nat /\ Len(der) = n /\ NoRead.next = 0
  BY DEF NoRead, IsOctets
<1>2. at <= n
  <2>1. ASSUME at > n PROVE FALSE
    BY <1>1, <2>1 DEF DerLength
  <2> QED BY <1>1, <2>1
<1>3. der[at] \in Nat /\ der[at] # 129 /\ der[at] # 130
  BY <1>1, <1>2, ByteAt DEF ShortLengths
<1>4. der[at] < 128
  <2>1. ASSUME ~(der[at] < 128) PROVE FALSE
    <3>1. der[at] - 128 \notin 1..2
      BY <1>3
    <3>2. ~(at > Len(der))
      BY <1>1, <1>2
    <3>3. DerLength(der, at) = NoRead
      BY <2>1, <3>1, <3>2 DEF DerLength
    <3> QED BY <1>1, <3>3
  <2> QED BY <2>1
<1> QED
  <2>1. ~(at > Len(der))
    BY <1>1, <1>2
  <2>2. DerLength(der, at) = [next |-> at + 1, value |-> der[at]]
    BY <1>4, <2>1 DEF DerLength
  <2>3. der[at] \in 0..127
    BY <1>3, <1>4
  <2> QED BY <1>2, <2>2, <2>3

\* What is read where there are short lengths only is a number in its place.
LEMMA ReadIsNumber ==
  ASSUME NEW der, NEW n, IsOctets(der, n), ShortLengths(der, n),
         NEW at \in Nat, at >= 1, DerInteger(der, at).next # 0
  PROVE  \E count, v : IsNumber(der, n, at, count, v)
<1>1. n \in Nat /\ Len(der) = n /\ NoRead.next = 0
  BY DEF NoRead, IsOctets
<1> PICK length : length = DerLength(der, at + 1)
  OBVIOUS
<1>2. /\ ~(at > n) /\ der[at] = IntegerTag /\ length.next # 0
      /\ length.value # 0 /\ ~(length.next + length.value > n + 1)
  BY <1>1 DEF DerInteger
<1>3. at + 1 <= n /\ der[at + 1] \in 0..127 /\ length = [next |-> at + 2, value |-> der[at + 1]]
  <2>1. at + 1 \in Nat /\ at + 1 >= 1 /\ (at + 1) + 1 = at + 2
    OBVIOUS
  <2> QED BY <1>2, <2>1, ShortLengthIsRead
<1> PICK count : count = der[at + 1]
  OBVIOUS
<1>4. count \in 1..127 /\ at + 1 + count <= n
  <2>1. length.next = at + 2 /\ length.value = count
    BY <1>3
  <2>2. count \in 0..127 /\ count # 0 /\ ~(at + 2 + count > n + 1)
    BY <1>2, <1>3, <2>1
  <2> QED BY <1>1, <2>2
<1>5. count \in Nat /\ count >= 1 /\ at + 1 \in Nat
  BY <1>4
<1> PICK b : b = at + 1
  OBVIOUS
<1> PICK v : v = SubSeq(der, b + 1, b + count)
  OBVIOUS
<1>6. IsSlice(v, der, b, count)
  BY <1>4, <1>5, SliceIs
<1>7. IsNumber(der, n, at, count, v)
  BY <1>2, <1>4, <1>6 DEF IsNumber
<1> QED BY <1>7

\* A strict length is a length; a short length is strict.
LEMMA StrictLengthIsRead ==
  ASSUME NEW der, NEW at
  PROVE  /\ StrictLength(der, at).next # 0 => StrictLength(der, at) = DerLength(der, at)
         /\ DerLength(der, at).next # 0 /\ ~(der[at] >= 128) => StrictLength(der, at) = DerLength(der, at)
BY DEF StrictLength, NoRead

\* The strict reader reads every minimal number.
LEMMA StrictNumberIsRead ==
  ASSUME NEW der, NEW n, IsOctets(der, n), NEW at \in Nat, at >= 1,
         NEW count, NEW v, IsNumber(der, n, at, count, v), Minimal(v)
  PROVE  StrictInteger(der, at) = DerInteger(der, at)
<1> PICK number : number = DerInteger(der, at)
  OBVIOUS
<1> PICK length : length = StrictLength(der, at + 1)
  OBVIOUS
<1>1. count \in 1..127 /\ der[at + 1] = count /\ IsSlice(v, der, at + 1, count)
  BY DEF IsNumber
<1> PICK next : next = at + 2 + count
  OBVIOUS
<1>2. number.next = at + 2 + count /\ number.value = v /\ DerLength(der, at + 1) = [next |-> at + 2, value |-> count]
  <2>1. FoundAt(der, at, count, next, v)
    BY NumberIsRead
  <2> QED BY <2>1 DEF FoundAt
<1>3. length.next = at + 2
  <2>1. DerLength(der, at + 1).next # 0 /\ ~(der[at + 1] >= 128)
    BY <1>1, <1>2
  <2>2. length = DerLength(der, at + 1)
    BY <2>1, StrictLengthIsRead
  <2> QED BY <1>2, <2>2
<1>4. number.next # 0 /\ length.next # 0
  BY <1>1, <1>2, <1>3
<1>5. v[1] < 128 /\ v[1] \in Nat /\ (Len(v) > 1 /\ v[1] = 0 => v[2] >= 128 /\ v[2] \in Nat)
  <2>1. IsOctets(v, count)
    BY <1>1 DEF IsSlice
  <2>2. 1 \in 1..count /\ Len(v) = count /\ (count > 1 => 2 \in 1..count)
    BY <1>1, <2>1 DEF IsOctets
  <2>3. v[1] \in Nat /\ (count > 1 => v[2] \in Nat)
    BY <2>1, <2>2, ByteAt
  <2> QED BY <2>2, <2>3 DEF Minimal
<1>6. ~(v[1] >= 128) /\ ~(Len(v) > 1 /\ v[1] = 0 /\ v[2] < 128)
  BY <1>5
<1>7. StrictInteger(der, at) = IF \/ number.next = 0 \/ length.next = 0
                                  \/ number.value[1] >= 128
                                  \/ Len(number.value) > 1 /\ number.value[1] = 0 /\ number.value[2] < 128
                               THEN NoRead ELSE number
  BY DEF StrictInteger
<1> QED BY <1>2, <1>4, <1>6, <1>7, Zenon

\* A number that the strict reader accepts.
NotPadded(v) == ~(v[1] >= 128) /\ ~(Len(v) > 1 /\ v[1] = 0 /\ v[2] < 128)

\* What the strict reader reads is read alike by the other one and is not padded.
LEMMA StrictNumberIsMinimal ==
  ASSUME NEW der, NEW at, StrictInteger(der, at).next # 0
  PROVE  StrictInteger(der, at) = DerInteger(der, at) /\ NotPadded(StrictInteger(der, at).value)
<1>1. NoRead.next = 0
  BY DEF NoRead
<1> QED BY <1>1, Zenon DEF StrictInteger, NotPadded

\* What has a number of lr bytes, and one of ls bytes, and nothing else.
LEMMA LaidNumbers ==
  ASSUME NEW der, NEW n, NEW r, NEW lr, NEW s, NEW ls, Laid(der, n, r, lr, s, ls), lr >= 1, ls >= 1
  PROVE  /\ IsOctets(der, n) /\ lr \in Nat /\ ls \in Nat /\ n = 6 + lr + ls /\ n <= 129
         /\ der[1] = SequenceTag /\ der[2] = n - 2
         /\ IsNumber(der, n, 3, lr, r) /\ IsNumber(der, n, 5 + lr, ls, s)
<1>1. /\ der \in Seq(Byte) /\ Len(der) = n
      /\ lr \in Nat /\ ls \in Nat /\ n = 6 + lr + ls /\ n <= 129
      /\ r \in Seq(Byte) /\ Len(r) = lr
      /\ s \in Seq(Byte) /\ Len(s) = ls
      /\ der[1] = SequenceTag /\ der[2] = n - 2
      /\ der[3] = IntegerTag /\ der[4] = lr
      /\ der[5 + lr] = IntegerTag /\ der[6 + lr] = ls
      /\ \A k \in 1..lr : der[4 + k] = r[k]
      /\ \A k \in 1..ls : der[6 + lr + k] = s[k]
  BY DEF Laid
<1>2. IsOctets(der, n) /\ IsOctets(r, lr) /\ IsOctets(s, ls)
  BY <1>1 DEF IsOctets
<1>3. IsNumber(der, n, 3, lr, r)
  <2>1. lr \in 1..127 /\ 3 + 1 + lr <= n /\ 3 + 1 = 4
    BY <1>1
  <2>2. IsSlice(r, der, 4, lr)
    BY <1>1, <1>2 DEF IsSlice
  <2> QED BY <1>1, <2>1, <2>2 DEF IsNumber
<1>4. IsNumber(der, n, 5 + lr, ls, s)
  <2>1. ls \in 1..127 /\ (5 + lr) + 1 + ls <= n /\ (5 + lr) + 1 = 6 + lr
    BY <1>1
  <2>2. IsSlice(s, der, 6 + lr, ls)
    BY <1>1, <1>2 DEF IsSlice
  <2> QED BY <1>1, <2>1, <2>2 DEF IsNumber
<1> QED BY <1>1, <1>2, <1>3, <1>4

\* Two numbers in their places are a signature.
LEMMA NumbersLaid ==
  ASSUME NEW der, NEW n, NEW r, NEW lr, NEW s, NEW ls, IsOctets(der, n),
         IsNumber(der, n, 3, lr, r), IsNumber(der, n, 5 + lr, ls, s), 
         der[1] = SequenceTag, der[2] = n - 2, n = 6 + lr + ls, n <= 129
  PROVE  Laid(der, n, r, lr, s, ls)
<1>1. /\ lr \in 1..127 /\ der[3] = IntegerTag /\ der[4] = lr /\ IsSlice(r, der, 4, lr)
  <2>1. 3 + 1 = 4
    OBVIOUS
  <2> QED BY <2>1 DEF IsNumber
<1>2. ls \in 1..127 /\ der[5 + lr] = IntegerTag /\ der[6 + lr] = ls /\ IsSlice(s, der, 6 + lr, ls)
  <2>1. (5 + lr) + 1 = 6 + lr
    BY <1>1
  <2> QED BY <2>1 DEF IsNumber
<1>3. r \in Seq(Byte) /\ Len(r) = lr /\ \A k \in 1..lr : der[4 + k] = r[k]
  BY <1>1 DEF IsSlice, IsOctets
<1>4. s \in Seq(Byte) /\ Len(s) = ls /\ \A k \in 1..ls : der[6 + lr + k] = s[k]
  BY <1>2 DEF IsSlice, IsOctets
<1>5. der \in Seq(Byte) /\ Len(der) = n
  BY DEF IsOctets
<1> QED BY <1>1, <1>2, <1>3, <1>4, <1>5 DEF Laid

\* The raw form is two numbers of Width bytes.
Halves(raw, a, b) ==
  /\ a \in Seq(Byte) /\ Len(a) = Width /\ a = SubSeq(raw, 1, Width)
  /\ b \in Seq(Byte) /\ Len(b) = Width /\ b = SubSeq(raw, Width + 1, 2 * Width)
  /\ raw = a \o b

\* A raw signature is two numbers.
LEMMA RawHalves ==
  ASSUME NEW raw \in Seq(Byte), Len(raw) = 2 * Width
  PROVE  \E a, b : Halves(raw, a, b)
<1> PICK a : a = SubSeq(raw, 0 + 1, 0 + Width)
  OBVIOUS
<1> PICK b : b = SubSeq(raw, Width + 1, Width + Width)
  OBVIOUS
<1>1. Width \in Nat /\ Width >= 1
  BY WidthAssumption
<1>2. IsOctets(raw, 2 * Width)
  BY <1>1 DEF IsOctets
<1>3. IsSlice(a, raw, 0, Width)
  BY <1>1, <1>2, SliceIs
<1>4. IsSlice(b, raw, Width, Width)
  BY <1>1, <1>2, SliceIs
<1>5. /\ a \in Seq(Byte) /\ Len(a) = Width /\ \A k \in 1..Width : a[k] = raw[k]
      /\ b \in Seq(Byte) /\ Len(b) = Width /\ \A k \in 1..Width : b[k] = raw[Width + k]
  <2>1. \A k \in 1..Width : 0 + k = k
    BY <1>1
  <2> QED BY <1>3, <1>4, <2>1 DEF IsSlice, IsOctets
<1> PICK c : c = a \o b
  OBVIOUS
<1>6. /\ c \in Seq(Byte) /\ Len(c) = Width + Width
      /\ \A k \in 1..Width : c[k] = a[k]
      /\ \A k \in 1..Width : c[Width + k] = b[k]
  <2>1. IsJoined(c, a, Width, b, Width)
    BY <1>5, Joined
  <2> QED BY <2>1 DEF IsJoined
<1>7. ASSUME NEW i \in 1..(2 * Width) PROVE c[i] = raw[i]
  <2>1. i \in 1..Width \/ i - Width \in 1..Width
    BY <1>1
  <2>2. CASE i - Width \in 1..Width
    <3>1. PICK k \in 1..Width : i = Width + k
      BY <1>1, <2>2
    <3> QED BY <1>5, <1>6, <3>1
  <2> QED BY <1>5, <1>6, <2>1, <2>2
<1>8. c = raw
  <2>1. Len(c) = 2 * Width
    BY <1>1, <1>6
  <2> QED BY <1>6, <1>7, <2>1, SeqEqual
<1>9. a = SubSeq(raw, 1, Width) /\ b = SubSeq(raw, Width + 1, 2 * Width)
  <2>1. 0 + 1 = 1 /\ 0 + Width = Width /\ Width + Width = 2 * Width
    BY <1>1
  <2> QED BY <2>1
<1> QED BY <1>5, <1>8, <1>9 DEF Halves

\* Two numbers are the halves of a raw signature.
LEMMA HalvesAre ==
  ASSUME NEW a \in Seq(Byte), Len(a) = Width, NEW b \in Seq(Byte), Len(b) = Width
  PROVE  Halves(a \o b, a, b)
<1> PICK c : c = a \o b
  OBVIOUS
<1>1. Width \in Nat /\ Width >= 1
  BY WidthAssumption
<1>2. /\ c \in Seq(Byte) /\ Len(c) = Width + Width
      /\ \A k \in 1..Width : c[k] = a[k]
      /\ \A k \in 1..Width : c[Width + k] = b[k]
  <2>1. IsJoined(c, a, Width, b, Width)
    BY Joined
  <2> QED BY <2>1 DEF IsJoined
<1>3. Len(c) = 2 * Width
  BY <1>1, <1>2
<1>4. PICK x, y : Halves(c, x, y)
  BY <1>2, <1>3, RawHalves
<1>5. IsOctets(c, 2 * Width)
  BY <1>1, <1>2, <1>3 DEF IsOctets
<1>6. x = a
  <2>1. x = SubSeq(c, 0 + 1, 0 + Width)
    <3>1. 0 + 1 = 1 /\ 0 + Width = Width
      BY <1>1
    <3> QED BY <1>4, <3>1 DEF Halves
  <2>2. IsSlice(x, c, 0, Width)
    BY <1>1, <1>5, <2>1, SliceIs
  <2>3. IsSlice(a, c, 0, Width)
    <3>1. \A k \in 1..Width : 0 + k = k
      BY <1>1
    <3> QED BY <1>1, <1>2, <3>1 DEF IsSlice, IsOctets
  <2> QED BY <2>2, <2>3, SameSlice
<1>7. y = b
  <2>1. y = SubSeq(c, Width + 1, Width + Width)
    <3>1. Width + Width = 2 * Width
      BY <1>1
    <3> QED BY <1>4, <3>1 DEF Halves
  <2>2. IsSlice(y, c, Width, Width)
    BY <1>1, <1>5, <2>1, SliceIs
  <2>3. IsSlice(b, c, Width, Width)
    BY <1>1, <1>2 DEF IsSlice, IsOctets
  <2> QED BY <2>2, <2>3, SameSlice
<1> QED BY <1>4, <1>6, <1>7

\* The length of what is laid out is read.
LEMMA LengthOfSequence ==
  ASSUME NEW der, NEW n, IsOctets(der, n), n >= 2, n <= 129, der[2] = n - 2
  PROVE  DerLength(der, 2) = [next |-> 3, value |-> n - 2]
<1>1. n \in Nat /\ Len(der) = n
  BY DEF IsOctets
<1>2. ~(2 > Len(der)) /\ n - 2 < 128 /\ 2 + 1 = 3
  BY <1>1
<1> QED BY <1>1, <1>2 DEF DerLength

\* Both readers find the two numbers of a signature that is laid out as one.
BothRead(der, raw) == DerToRaw(der) = raw /\ DerToCose(der) = raw

\* Both readers read what is laid out.
LEMMA LaidIsRead ==
  ASSUME NEW der, NEW n, NEW r, NEW lr, NEW s, NEW ls, Laid(der, n, r, lr, s, ls),
         Minimal(r), Minimal(s), Len(WithoutZero(r)) <= Width, Len(WithoutZero(s)) <= Width, lr >= 1, ls >= 1,
         NEW raw, raw = LeftPad(WithoutZero(r)) \o LeftPad(WithoutZero(s))
  PROVE  BothRead(der, raw)
<1> PICK at : at = 5 + lr
  OBVIOUS
<1>1. /\ IsOctets(der, n) /\ lr \in Nat /\ ls \in Nat /\ n = 6 + lr + ls /\ n <= 129
      /\ der[1] = SequenceTag /\ der[2] = n - 2
      /\ IsNumber(der, n, 3, lr, r) /\ IsNumber(der, n, at, ls, s)
  BY LaidNumbers
<1> PICK end : end = n + 1
  OBVIOUS
<1>2. at \in Nat /\ at >= 1 /\ at = 3 + 2 + lr /\ end = at + 2 + ls
  BY <1>1
<1>3. DerLength(der, 2) = [next |-> 3, value |-> n - 2]
  BY <1>1, LengthOfSequence
<1>4. DerInteger(der, 3) = [next |-> at, value |-> r]
  <2>1. FoundAt(der, 3, lr, at, r)
    BY <1>1, <1>2, NumberIsRead
  <2> QED BY <2>1 DEF FoundAt
<1>5. DerInteger(der, at) = [next |-> end, value |-> s]
  <2>1. FoundAt(der, at, ls, end, s)
    BY <1>1, <1>2, NumberIsRead
  <2> QED BY <2>1 DEF FoundAt
<1>6. StrictLength(der, 2) = DerLength(der, 2)
  <2>1. ~(der[2] >= 128) /\ DerLength(der, 2).next # 0
    BY <1>1, <1>3
  <2> QED BY <2>1, StrictLengthIsRead
<1>7. StrictInteger(der, 3) = DerInteger(der, 3) /\ StrictInteger(der, at) = DerInteger(der, at)
  BY <1>1, <1>2, StrictNumberIsRead
<1>8. DerSequence(der, [next |-> 3, value |-> n - 2], [next |-> at, value |-> r], [next |-> end, value |-> s]) = raw
  <2>1. der # <<>> /\ n - 2 = Len(der) + 1 - 3 /\ at # 0 /\ end = Len(der) + 1
    <3>1. Len(der) = n /\ n # 0
      BY <1>1 DEF IsOctets
    <3> QED BY <1>1, <1>2, <3>1, EmptySeq
  <2> PICK found : found = <<[next |-> 3, value |-> n - 2], [next |-> at, value |-> r], [next |-> end, value |-> s]>>
    OBVIOUS
  <2>2. /\ found[1].next = 3 /\ found[1].value = n - 2
        /\ found[2].next = at /\ found[2].value = r
        /\ found[3].next = end /\ found[3].value = s
    OBVIOUS
  <2>3. DerSequence(der, found[1], found[2], found[3]) = raw
    <3>1. 3 # 0
      OBVIOUS
    <3> QED BY <1>1, <2>1, <2>2, <3>1, Zenon DEF DerSequence
  <2> QED BY <2>3
<1>9. DerToRaw(der) = raw
  BY <1>3, <1>4, <1>5, <1>8 DEF DerToRaw
<1>10. DerToCose(der) = raw
  BY <1>3, <1>4, <1>5, <1>6, <1>7, <1>8 DEF DerToCose
<1> QED BY <1>9, <1>10 DEF BothRead

\* Whatever raw signature is written, both readers return it.
THEOREM SignaturesSurvive ==
  ASSUME NEW raw \in Seq(Byte), Len(raw) = 2 * Width
  PROVE  RawSurvives(raw)
<1>1. PICK a, b : Halves(raw, a, b)
  BY RawHalves
<1>2. /\ a \in Seq(Byte) /\ Len(a) = Width /\ a = SubSeq(raw, 1, Width)
      /\ b \in Seq(Byte) /\ Len(b) = Width /\ b = SubSeq(raw, Width + 1, 2 * Width)
      /\ raw = a \o b
  BY <1>1 DEF Halves
<1> PICK r : r = WriteInteger(a)
  OBVIOUS
<1> PICK s : s = WriteInteger(b)
  OBVIOUS
<1> PICK der : der = Tagged(SequenceTag, Tagged(IntegerTag, r) \o Tagged(IntegerTag, s))
  OBVIOUS
<1>3. /\ Minimal(r) /\ Len(r) \in 1..(Width + 1)
      /\ Len(WithoutZero(r)) <= Width /\ LeftPad(WithoutZero(r)) = a
  BY <1>2, WrittenReadsBack
<1>4. /\ Minimal(s) /\ Len(s) \in 1..(Width + 1)
      /\ Len(WithoutZero(s)) <= Width /\ LeftPad(WithoutZero(s)) = b
  BY <1>2, WrittenReadsBack
<1> PICK lr : lr = Len(r)
  OBVIOUS
<1> PICK ls : ls = Len(s)
  OBVIOUS
<1> PICK n : n = 6 + lr + ls
  OBVIOUS
<1>5. lr \in Nat /\ lr >= 1 /\ ls \in Nat /\ ls >= 1 /\ n <= 129
  BY <1>3, <1>4, WidthAssumption
<1>6. RawToDer(raw) = der
  BY <1>2 DEF RawToDer
<1>7. r \in Seq(Byte) /\ s \in Seq(Byte)
  BY <1>3, <1>4 DEF Minimal
<1>8. Laid(der, n, r, lr, s, ls)
  BY <1>5, <1>7, SignatureIsLaid
<1>9. BothRead(der, raw)
  <2>1. raw = LeftPad(WithoutZero(r)) \o LeftPad(WithoutZero(s))
    BY <1>2, <1>3, <1>4
  <2> QED BY <1>3, <1>4, <1>5, <1>8, <2>1, LaidIsRead
<1>10. Len(der) # 2 * Width => SignatureToRaw(der) = raw
  BY <1>9 DEF SignatureToRaw, BothRead
<1> QED BY <1>6, <1>9, <1>10 DEF RawSurvives, BothRead

\* What the lenient reader finds in a signature of n bytes.
Seen(der, n, sequence, r, s) ==
  /\ der[1] = SequenceTag
  /\ sequence = DerLength(der, 2) /\ sequence.next # 0 /\ sequence.value = n + 1 - sequence.next
  /\ r = DerInteger(der, sequence.next) /\ r.next # 0
  /\ s = DerInteger(der, r.next) /\ s.next = n + 1

\* What is read where there are short lengths only is laid out.
LEMMA SeenIsLaid ==
  ASSUME NEW der, NEW n, IsOctets(der, n), ShortLengths(der, n),
         NEW sequence, NEW r, NEW s, Seen(der, n, sequence, r, s)
  PROVE  \E lr \in 1..127, ls \in 1..127 : Laid(der, n, r.value, lr, s.value, ls)
<1>1. /\ der[1] = SequenceTag
      /\ sequence = DerLength(der, 2) /\ sequence.next # 0 /\ sequence.value = n + 1 - sequence.next
      /\ r = DerInteger(der, sequence.next) /\ r.next # 0
      /\ s = DerInteger(der, r.next) /\ s.next = n + 1
  BY DEF Seen
<1>2. n \in Nat
  BY DEF IsOctets
<1> PICK size : size = der[2]
  OBVIOUS
<1>3. 2 <= n /\ size \in 0..127 /\ sequence.next = 3 /\ sequence.value = size
  <2>1. DerLength(der, 2).next # 0
    BY <1>1
  <2>2. 2 <= n /\ der[2] \in 0..127 /\ DerLength(der, 2) = [next |-> 2 + 1, value |-> der[2]]
    BY <2>1, ShortLengthIsRead
  <2>3. 2 + 1 = 3
    OBVIOUS
  <2> QED BY <1>1, <2>2, <2>3
<1>4. size = n - 2 /\ n <= 129
  <2>1. size = n + 1 - 3
    BY <1>1, <1>3
  <2> QED BY <1>2, <1>3, <2>1
<1>5. r = DerInteger(der, 3)
  BY <1>1, <1>3
<1>6. PICK lr, v : IsNumber(der, n, 3, lr, v)
  <2>1. DerInteger(der, 3).next # 0
    BY <1>1, <1>5
  <2>2. 3 \in Nat /\ 3 >= 1
    OBVIOUS
  <2> QED BY <2>1, <2>2, ReadIsNumber
<1>7. lr \in 1..127
  BY <1>6 DEF IsNumber
<1> PICK at : at = 3 + 2 + lr
  OBVIOUS
<1>8. at \in Nat /\ at >= 1
  BY <1>7
<1>9. r = [next |-> at, value |-> v]
  <2>1. FoundAt(der, 3, lr, at, v)
    BY <1>6, NumberIsRead
  <2> QED BY <1>5, <2>1 DEF FoundAt
<1>10. r.next = at /\ r.value = v
  BY <1>9
<1>11. s = DerInteger(der, at)
  BY <1>1, <1>10
<1>12. PICK ls, w : IsNumber(der, n, at, ls, w)
  <2>1. DerInteger(der, at).next # 0
    <3>1. n + 1 # 0
      BY <1>2
    <3> QED BY <1>1, <1>11, <3>1
  <2> QED BY <1>8, <2>1, ReadIsNumber
<1>13. ls \in 1..127
  BY <1>12 DEF IsNumber
<1> PICK end : end = at + 2 + ls
  OBVIOUS
<1>14. s = [next |-> end, value |-> w]
  <2>1. FoundAt(der, at, ls, end, w)
    BY <1>8, <1>12, NumberIsRead
  <2> QED BY <1>11, <2>1 DEF FoundAt
<1>15. s.value = w /\ n + 1 = end
  BY <1>1, <1>14
<1>16. n = 6 + lr + ls /\ at = 5 + lr
  BY <1>2, <1>7, <1>13, <1>15
<1>17. Laid(der, n, v, lr, w, ls)
  <2>1. IsNumber(der, n, 5 + lr, ls, w)
    BY <1>12, <1>16
  <2>2. der[2] = n - 2
    BY <1>4
  <2> QED BY <1>1, <1>4, <1>6, <1>16, <2>1, <2>2, NumbersLaid
<1> QED BY <1>7, <1>10, <1>13, <1>15, <1>17

\* What the strict reader accepts is minimal.
LEMMA NotPaddedIsMinimal ==
  ASSUME NEW v, NEW n, IsOctets(v, n), n >= 1, NotPadded(v)
  PROVE  Minimal(v)
<1>1. ~(v[1] >= 128) /\ ~(Len(v) > 1 /\ v[1] = 0 /\ v[2] < 128)
  BY DEF NotPadded
<1>2. n \in Nat /\ v \in Seq(Byte) /\ Len(v) = n /\ Len(<<>>) = 0
  BY EmptySeq DEF IsOctets
<1>3. v[1] \in Nat /\ (n > 1 => v[2] \in Nat)
  <2>1. 1 \in 1..n /\ (n > 1 => 2 \in 1..n)
    BY <1>2
  <2> QED BY <2>1, ByteAt
<1>4. v # <<>> /\ v[1] < 128 /\ (Len(v) > 1 /\ v[1] = 0 => v[2] >= 128)
  BY <1>1, <1>2, <1>3
<1> QED BY <1>2, <1>4 DEF Minimal

\* The bytes are those that its two numbers are written as.
IsDerOf(der, r, s) == der = RawToDer(LeftPad(WithoutZero(r)) \o LeftPad(WithoutZero(s)))

\* What is laid out as a signature is the signature of its numbers.
LEMMA LaidIsWritten ==
  ASSUME NEW der, NEW n, NEW r, NEW lr \in 1..127, NEW s, NEW ls \in 1..127, Laid(der, n, r, lr, s, ls),
         NotPadded(r), NotPadded(s), Len(WithoutZero(r)) <= Width, Len(WithoutZero(s)) <= Width
  PROVE  IsDerOf(der, r, s)
<1> PICK raw : raw = LeftPad(WithoutZero(r)) \o LeftPad(WithoutZero(s))
  OBVIOUS
<1> PICK a : a = LeftPad(WithoutZero(r))
  OBVIOUS
<1> PICK b : b = LeftPad(WithoutZero(s))
  OBVIOUS
<1>1. /\ r \in Seq(Byte) /\ Len(r) = lr
      /\ s \in Seq(Byte) /\ Len(s) = ls
      /\ n = 6 + lr + ls /\ n <= 129
  BY DEF Laid
<1>2. Minimal(r) /\ Minimal(s)
  <2>1. IsOctets(r, lr) /\ IsOctets(s, ls) /\ lr >= 1 /\ ls >= 1
    BY <1>1 DEF IsOctets
  <2> QED BY <2>1, NotPaddedIsMinimal
<1>3. a \in Seq(Byte) /\ Len(a) = Width /\ WriteInteger(a) = r
  BY <1>2, ReadWritesBack
<1>4. b \in Seq(Byte) /\ Len(b) = Width /\ WriteInteger(b) = s
  BY <1>2, ReadWritesBack
<1>5. raw = a \o b
  OBVIOUS
<1>6. SubSeq(raw, 1, Width) = a /\ SubSeq(raw, Width + 1, 2 * Width) = b
  <2>1. Halves(raw, a, b)
    BY <1>3, <1>4, <1>5, HalvesAre
  <2> QED BY <2>1 DEF Halves
<1>7. RawToDer(raw) = Tagged(SequenceTag, Tagged(IntegerTag, r) \o Tagged(IntegerTag, s))
  BY <1>3, <1>4, <1>6 DEF RawToDer
<1>8. Laid(RawToDer(raw), n, r, lr, s, ls)
  <2>1. lr \in Nat /\ ls \in Nat
    OBVIOUS
  <2>2. Laid(Tagged(SequenceTag, Tagged(IntegerTag, r) \o Tagged(IntegerTag, s)), n, r, lr, s, ls)
    BY <1>1, <2>1, SignatureIsLaid
  <2> QED BY <1>7, <2>2
<1>9. der = RawToDer(raw)
  BY <1>8, LaidAlike
<1> QED BY <1>9 DEF IsDerOf

\* The strict reader accepts nothing that the other one reads otherwise, nor anything with short
\* lengths but what is written.
THEOREM ReadersDoAgree ==
  ASSUME NEW der \in Seq(Byte)
  PROVE  ReadersAgree(der)
<1> SUFFICES ASSUME DerToCose(der) # Refused
             PROVE  /\ DerToRaw(der) = DerToCose(der)
                    /\ der = RawToDer(DerToCose(der)) \/ \E i \in DOMAIN der : der[i] \in {129, 130}
  BY DEF ReadersAgree
<1> PICK sequence : sequence = StrictLength(der, 2)
  OBVIOUS
<1> PICK r : r = StrictInteger(der, sequence.next)
  OBVIOUS
<1> PICK s : s = StrictInteger(der, r.next)
  OBVIOUS
<1> PICK raw : raw = LeftPad(WithoutZero(r.value)) \o LeftPad(WithoutZero(s.value))
  OBVIOUS
<1> PICK n : n = Len(der)
  OBVIOUS
<1>1. DerToCose(der) = DerSequence(der, sequence, r, s)
  BY DEF DerToCose
<1>2. /\ DerToCose(der) = raw
      /\ der # <<>> /\ der[1] = SequenceTag
      /\ sequence.next # 0 /\ sequence.value = n + 1 - sequence.next
      /\ r.next # 0 /\ s.next = n + 1
      /\ Len(WithoutZero(r.value)) <= Width /\ Len(WithoutZero(s.value)) <= Width
  BY <1>1, Zenon DEF DerSequence
<1>3. n \in Nat /\ IsOctets(der, n) /\ s.next # 0
  <2>1. n \in Nat
    BY LenProperties
  <2>2. IsOctets(der, n)
    BY <2>1 DEF IsOctets
  <2>3. n + 1 # 0
    BY <2>1
  <2> QED BY <1>2, <2>1, <2>2, <2>3
<1>4. sequence = DerLength(der, 2)
  BY <1>2, StrictLengthIsRead
<1>5. r = DerInteger(der, sequence.next) /\ s = DerInteger(der, r.next)
  BY <1>2, <1>3, StrictNumberIsMinimal
<1>6. DerToRaw(der) = DerToCose(der)
  BY <1>1, <1>4, <1>5 DEF DerToRaw
<1>7. NotPadded(r.value) /\ NotPadded(s.value)
  BY <1>2, <1>3, StrictNumberIsMinimal
<1>8. ASSUME ~\E i \in DOMAIN der : der[i] \in {129, 130}
      PROVE  der = RawToDer(raw)
  <2>1. ShortLengths(der, n)
    <3>1. DOMAIN der = 1..n
      BY LenProperties
    <3> QED BY <1>8, <3>1 DEF ShortLengths
  <2>2. Seen(der, n, sequence, r, s)
    BY <1>2, <1>4, <1>5, Zenon DEF Seen
  <2>3. PICK lr \in 1..127, ls \in 1..127 : Laid(der, n, r.value, lr, s.value, ls)
    BY <1>3, <2>1, <2>2, SeenIsLaid
  <2>4. NotPadded(r.value) /\ NotPadded(s.value) /\ Len(WithoutZero(r.value)) <= Width /\ Len(WithoutZero(s.value)) <= Width
    BY <1>2, <1>7
  <2>5. IsDerOf(der, r.value, s.value)
    BY <2>3, <2>4, LaidIsWritten
  <2> QED BY <2>5 DEF IsDerOf
<1> QED BY <1>2, <1>6, <1>8

-----------------------------------------------------------------------------
(* Descriptors and payloads (validate-descriptor.ts, encode.ts, decode.ts, verify.ts) *)

\* All claims but the one are kept.
LEMMA KeptClaims ==
  ASSUME NEW claims
  PROVE  /\ DOMAIN Kept(claims) = DOMAIN claims \ {"__proto__"}
         /\ \A k \in DOMAIN claims \ {"__proto__"} : Kept(claims)[k] = claims[k]
BY DEF Kept, Restrict

\* What is known of a valid descriptor.
LEMMA ValidFacts ==
  ASSUME NEW d, NEW environment, ValidDescriptor(d, environment, FALSE)
  PROVE  /\ ValidIdentity(d.issuer) /\ ValidIdentity(d.document) /\ ValidIdentity(d.type)
         /\ d.issuedAt = "instant" /\ d.flat /\ ValidClaims(d.claims)
         /\ d.statusUrl \in {"absent", "https", "local"}
BY DEF ValidDescriptor, ValidUrl

\* What a payload p says: each field what it was made from.
Says(p, d, signer, options) ==
  /\ 1..7 \subseteq DOMAIN p /\ DOMAIN p \subseteq 1..10
  /\ p[1] = [int |-> 1] /\ p[2] = Text(d.issuer) /\ p[3] = Text(signer.key) /\ p[4] = Text(d.document)
  /\ p[5] = Text(d.type) /\ p[6] = Text(d.issuedAt) /\ p[7] = [map |-> Kept(d.claims)]
  /\ 8 \in DOMAIN p => p[8] = Text(d.statusUrl)
  /\ 9 \in DOMAIN p => p[9] = Text(options.artifact)
  /\ 10 \in DOMAIN p => p[10] = Text(PrintOf(signer, options))
  /\ 8 \in DOMAIN p <=> d.statusUrl # "absent"
  /\ 9 \in DOMAIN p <=> options.artifact # "absent"
  /\ 10 \in DOMAIN p <=> PrintOf(signer, options) # "absent"

\* A payload says what it is made of.
LEMMA PayloadSays ==
  ASSUME NEW d, NEW signer, NEW options
  PROVE  Says(Payload(d, signer, options), d, signer, options)
<1> PICK p : p = Payload(d, signer, options)
  OBVIOUS
<1> DEFINE dom == 1..7 \cup Optional(8, d.statusUrl) \cup Optional(9, options.artifact) \cup Optional(10, PrintOf(signer, options))
<1>1. DOMAIN p = dom
  BY DEF Payload
<1>2. 1..7 \subseteq dom /\ dom \subseteq 1..10
  BY DEF Optional
<1>3. /\ p[1] = [int |-> 1] /\ p[2] = Text(d.issuer) /\ p[3] = Text(signer.key) /\ p[4] = Text(d.document)
      /\ p[5] = Text(d.type) /\ p[6] = Text(d.issuedAt) /\ p[7] = [map |-> Kept(d.claims)]
  BY DEF Payload
<1>4. /\ 8 \in dom <=> d.statusUrl # "absent"
      /\ 9 \in dom <=> options.artifact # "absent"
      /\ 10 \in dom <=> PrintOf(signer, options) # "absent"
  BY DEF Optional
<1>5. /\ 8 \in dom => p[8] = Text(d.statusUrl)
      /\ 9 \in dom => p[9] = Text(options.artifact)
      /\ 10 \in dom => p[10] = Text(PrintOf(signer, options))
  BY DEF Payload
<1> HIDE DEF dom
<1>6. /\ 8 \in DOMAIN p => p[8] = Text(d.statusUrl)
      /\ 9 \in DOMAIN p => p[9] = Text(options.artifact)
      /\ 10 \in DOMAIN p => p[10] = Text(PrintOf(signer, options))
      /\ 8 \in DOMAIN p <=> d.statusUrl # "absent"
      /\ 9 \in DOMAIN p <=> options.artifact # "absent"
      /\ 10 \in DOMAIN p <=> PrintOf(signer, options) # "absent"
      /\ 1..7 \subseteq DOMAIN p /\ DOMAIN p \subseteq 1..10
  BY <1>1, <1>2, <1>4, <1>5
<1> QED BY <1>1, <1>3, <1>6 DEF Says

\* A text field is the text in it.
LEMMA TextFields == \A x : DOMAIN Text(x) = {"text"} /\ Text(x).text = x
BY DEF Text

\* What the way through the binary form leaves of a payload.
LEMMA CarriedFields ==
  ASSUME NEW p, 7 \in DOMAIN p, NEW q, q = Carried(p),
         NEW claims, claims = p[7].map
  PROVE  /\ DOMAIN q = DOMAIN p
         /\ \A f \in DOMAIN p \ {7} : q[f] = p[f]
         /\ DOMAIN q[7] = {"map"} /\ DOMAIN q[7].map = DOMAIN claims
         /\ q[7].map = [k \in DOMAIN claims |-> q[7].map[k]]
         /\ \A k \in DOMAIN claims : q[7].map[k] = IF claims[k] = "marked" THEN "text" ELSE claims[k]
<1> DEFINE new == [k \in DOMAIN claims |-> IF claims[k] = "marked" THEN "text" ELSE claims[k]]
<1>1. q = [p EXCEPT ![7] = [map |-> new]]
  BY DEF Carried
<1>2. /\ DOMAIN new = DOMAIN claims /\ new = [k \in DOMAIN new |-> new[k]]
      /\ \A k \in DOMAIN new : new[k] = IF claims[k] = "marked" THEN "text" ELSE claims[k]
  OBVIOUS
<1> HIDE DEF new
<1>3. /\ DOMAIN q = DOMAIN p /\ q[7] = [map |-> new]
      /\ \A f \in DOMAIN p \ {7} : q[f] = p[f]
  BY <1>1
<1>4. DOMAIN q[7] = {"map"} /\ q[7].map = new
  BY <1>3
<1> QED BY <1>2, <1>3, <1>4

\* What is read in a payload q as it comes out of a seal.
ReadsAs(q, d, signer) ==
  /\ q[2] = Text(d.issuer) /\ q[3] = Text(signer.key) /\ q[4] = Text(d.document)
  /\ q[5] = Text(d.type) /\ q[6] = Text(d.issuedAt) /\ q[1] = [int |-> 1]
  /\ 1..7 \subseteq DOMAIN q /\ DOMAIN q \subseteq 1..10
  /\ \A f \in DOMAIN q \cap 8..10 : HasText(q, f)
  /\ (IF 8 \in DOMAIN q THEN q[8].text ELSE "absent") = d.statusUrl
  /\ DOMAIN q[7] = {"map"} /\ DOMAIN q[7].map = DOMAIN d.claims \ {"__proto__"}
  /\ q[7].map = [k \in DOMAIN q[7].map |-> q[7].map[k]]
  /\ \A k \in DOMAIN q[7].map : q[7].map[k] = IF d.claims[k] = "marked" THEN "text" ELSE d.claims[k]

\* What is read of a seal is what its payload was made of.
LEMMA SealedPayloadReadsBack ==
  ASSUME NEW d, NEW signer, NEW options
  PROVE  ReadsAs(Carried(Payload(d, signer, options)), d, signer)
<1> PICK q : q = Carried(Payload(d, signer, options))
  OBVIOUS
<1> PICK p : p = Payload(d, signer, options)
  OBVIOUS
<1> PICK claims : claims = p[7].map
  OBVIOUS
<1>0. Says(p, d, signer, options)
  BY PayloadSays
<1>1. /\ p[2] = Text(d.issuer) /\ p[3] = Text(signer.key) /\ p[4] = Text(d.document)
      /\ p[5] = Text(d.type) /\ p[6] = Text(d.issuedAt) /\ p[1] = [int |-> 1]
      /\ 1..7 \subseteq DOMAIN p /\ DOMAIN p \subseteq 1..10 /\ p[7] = [map |-> Kept(d.claims)]
  BY <1>0 DEF Says
<1>2. /\ 8 \in DOMAIN p => p[8] = Text(d.statusUrl)
      /\ 9 \in DOMAIN p => p[9] = Text(options.artifact)
      /\ 10 \in DOMAIN p => p[10] = Text(PrintOf(signer, options))
      /\ 8 \in DOMAIN p <=> d.statusUrl # "absent"
  BY <1>0 DEF Says
<1>3. claims = Kept(d.claims)
  BY <1>1
<1>4. /\ DOMAIN q = DOMAIN p
      /\ \A f \in DOMAIN p \ {7} : q[f] = p[f]
      /\ DOMAIN q[7] = {"map"} /\ DOMAIN q[7].map = DOMAIN claims
      /\ q[7].map = [k \in DOMAIN claims |-> q[7].map[k]]
      /\ \A k \in DOMAIN claims : q[7].map[k] = IF claims[k] = "marked" THEN "text" ELSE claims[k]
  BY <1>1, CarriedFields
<1>5. \A f \in DOMAIN q \cap 8..10 : HasText(q, f)
  <2> SUFFICES ASSUME NEW f \in DOMAIN q \cap 8..10 PROVE "text" \in DOMAIN q[f]
    BY DEF HasText
  <2>1. f \in {8, 9, 10} /\ f \in DOMAIN p /\ q[f] = p[f]
    BY <1>4
  <2> QED BY <2>1, <1>2, TextFields
<1>6. (IF 8 \in DOMAIN q THEN q[8].text ELSE "absent") = d.statusUrl
  BY <1>2, <1>4, TextFields
<1>7. /\ q[2] = Text(d.issuer) /\ q[3] = Text(signer.key) /\ q[4] = Text(d.document)
      /\ q[5] = Text(d.type) /\ q[6] = Text(d.issuedAt) /\ q[1] = [int |-> 1]
  BY <1>1, <1>4
<1>8. /\ DOMAIN claims = DOMAIN d.claims \ {"__proto__"}
      /\ \A k \in DOMAIN claims : claims[k] = d.claims[k]
  BY <1>3, KeptClaims
<1> QED BY <1>1, <1>4, <1>5, <1>6, <1>7, <1>8 DEF ReadsAs

\* Claims stay valid on the way, and money keeps its currency.
LEMMA ClaimsSurvive ==
  ASSUME NEW claims, NEW read, ValidClaims(claims),
         DOMAIN read = DOMAIN claims \ {"__proto__"}, read = [k \in DOMAIN read |-> read[k]],
         \A k \in DOMAIN read : read[k] = IF claims[k] = "marked" THEN "text" ELSE claims[k]
  PROVE  /\ ValidClaims(read) /\ ValidClaims(Kept(read)) /\ Kept(read) = read
         /\ CurrencyStated(Kept(claims)) => CurrencyStated(read)
<1>1. ValidClaims(read)
  BY DEF ValidClaims
<1>2. Kept(read) = read
  <2>1. DOMAIN read \ {"__proto__"} = DOMAIN read
    OBVIOUS
  <2>2. Kept(read) = [k \in DOMAIN read |-> read[k]]
    BY <2>1 DEF Kept, Restrict
  <2> QED BY <2>2
<1>3. CurrencyStated(Kept(claims)) => CurrencyStated(read)
  BY KeptClaims DEF CurrencyStated
<1> QED BY <1>1, <1>2, <1>3

\* Whatever descriptor was sealed reads as it was issued.
THEOREM DescriptorsSurvive ==
  ASSUME NEW d, d.claims \in ClaimMaps, NEW signer, NEW options
  PROVE  SealsReadAsIssued(d, signer, options)
<1> SUFFICES ASSUME Sealable(d, signer, options)
             PROVE  LET payload == Carried(Payload(d, signer, options))
                    IN  /\ d.statusUrl # "local" => Accepted(payload)
                        /\ payload[3].text = signer.key
                        /\ "__proto__" \notin DOMAIN d.claims /\ (\A k \in DOMAIN d.claims : d.claims[k] # "marked")
                             => Matches(payload, d)
                        /\ Issuable(d, signer, options) => CurrencyStated(payload[7].map)
  BY DEF SealsReadAsIssued
<1> PICK q : q = Carried(Payload(d, signer, options))
  OBVIOUS
<1> PICK read : read = q[7].map
  OBVIOUS
<1>0. ReadsAs(q, d, signer)
  BY SealedPayloadReadsBack
<1>1. /\ q[2] = Text(d.issuer) /\ q[3] = Text(signer.key) /\ q[4] = Text(d.document)
      /\ q[5] = Text(d.type) /\ q[6] = Text(d.issuedAt) /\ q[1] = [int |-> 1]
      /\ 1..7 \subseteq DOMAIN q /\ DOMAIN q \subseteq 1..10
      /\ \A f \in DOMAIN q \cap 8..10 : HasText(q, f)
      /\ (IF 8 \in DOMAIN q THEN q[8].text ELSE "absent") = d.statusUrl
  BY <1>0 DEF ReadsAs
<1>2. /\ DOMAIN q[7] = {"map"} /\ DOMAIN read = DOMAIN d.claims \ {"__proto__"}
      /\ read = [k \in DOMAIN read |-> read[k]]
      /\ \A k \in DOMAIN read : read[k] = IF d.claims[k] = "marked" THEN "text" ELSE d.claims[k]
  BY <1>0 DEF ReadsAs
<1>3. ValidDescriptor(d, options.environment, FALSE) /\ signer.key # "blank"
  BY DEF Sealable
<1>4. /\ ValidIdentity(d.issuer) /\ ValidIdentity(d.document) /\ ValidIdentity(d.type)
      /\ d.issuedAt = "instant" /\ d.flat /\ ValidClaims(d.claims)
      /\ d.statusUrl \in {"absent", "https", "local"}
  BY <1>3, ValidFacts
<1>5. /\ ValidClaims(read) /\ ValidClaims(Kept(read)) /\ Kept(read) = read
      /\ CurrencyStated(Kept(d.claims)) => CurrencyStated(read)
  BY <1>2, <1>4, ClaimsSurvive
<1>6. DescriptorOf(q) = [issuer |-> d.issuer, document |-> d.document, type |-> d.type, issuedAt |-> d.issuedAt,
                         flat |-> TRUE, claims |-> read, statusUrl |-> d.statusUrl]
  BY <1>1, <1>5, TextFields DEF DescriptorOf
<1>7. ASSUME d.statusUrl # "local" PROVE Accepted(q)
  <2>1. \A f \in 2..5 : HasText(q, f) /\ q[f].text # "blank"
    BY <1>1, <1>3, <1>4, TextFields DEF HasText, ValidIdentity
  <2>2. HasText(q, 6)
    BY <1>1, TextFields DEF HasText
  <2>3. ValidDescriptor(DescriptorOf(q), "production", FALSE)
    BY <1>4, <1>5, <1>6, <1>7 DEF ValidDescriptor, ValidUrl
  <2>4. 7 \in DOMAIN q /\ "map" \in DOMAIN q[7] /\ ValidClaims(q[7].map)
    BY <1>1, <1>2, <1>5
  <2>5. 1 \in DOMAIN q /\ DOMAIN q \subseteq 1..10 /\ q[1] = [int |-> 1] /\ \A f \in DOMAIN q \cap 8..10 : HasText(q, f)
    BY <1>1
  <2> QED BY <2>1, <2>2, <2>3, <2>4, <2>5 DEF Accepted
<1>8. ASSUME "__proto__" \notin DOMAIN d.claims, \A k \in DOMAIN d.claims : d.claims[k] # "marked"
      PROVE  Matches(q, d)
  <2>1. read = d.claims
    <3>1. DOMAIN read = DOMAIN d.claims /\ \A k \in DOMAIN read : read[k] = d.claims[k]
      BY <1>2, <1>8
    <3>2. d.claims = [k \in DOMAIN d.claims |-> d.claims[k]]
      BY DEF ClaimMaps
    <3> QED BY <1>2, <3>1, <3>2
  <2> QED BY <1>6, <2>1 DEF Matches
<1>9. ASSUME Issuable(d, signer, options) PROVE CurrencyStated(read)
  BY <1>5, <1>9 DEF Issuable, ValidDescriptor
<1>10. q[3].text = signer.key
  BY <1>1, TextFields
<1> QED BY <1>7, <1>8, <1>9, <1>10

\* Whatever payload is accepted could have been made by an issuer, field by field.
THEOREM OnlyIssuablePayloadsAreRead ==
  ASSUME NEW payload, IsPayload(payload)
  PROVE  AcceptedCouldBeIssued(payload)
<1> PICK d : d = DescriptorOf(payload)
  OBVIOUS
<1> PICK print : print = (IF 10 \in DOMAIN payload THEN payload[10].text ELSE "absent")
  OBVIOUS
<1> PICK artifact : artifact = (IF 9 \in DOMAIN payload THEN payload[9].text ELSE "absent")
  OBVIOUS
<1> PICK signer : signer = [algorithm |-> "ES256", issuer |-> d.issuer, key |-> payload[3].text, print |-> print]
  OBVIOUS
<1> PICK options : options = [environment |-> "production", artifact |-> artifact, print |-> "absent"]
  OBVIOUS
<1> SUFFICES ASSUME Accepted(payload), "__proto__" \notin DOMAIN payload[7].map, Size(payload) <= MaxSize
             PROVE  Sealable(d, signer, options) /\ Payload(d, signer, options) = payload
  BY DEF AcceptedCouldBeIssued
<1>1. /\ DOMAIN payload \subseteq 1..10
      /\ \A f \in 2..6 : HasText(payload, f)
      /\ 7 \in DOMAIN payload /\ "map" \in DOMAIN payload[7] /\ 1 \in DOMAIN payload /\ payload[1] = [int |-> 1]
      /\ \A f \in DOMAIN payload \cap 8..10 : HasText(payload, f)
  <2>1. \A f \in 2..5 : HasText(payload, f)
    BY DEF Accepted
  <2>2. HasText(payload, 6) /\ \A f \in DOMAIN payload \cap 8..10 : HasText(payload, f)
    BY DEF Accepted
  <2>3. /\ DOMAIN payload \subseteq 1..10
        /\ 7 \in DOMAIN payload /\ "map" \in DOMAIN payload[7] /\ 1 \in DOMAIN payload /\ payload[1] = [int |-> 1]
    BY DEF Accepted
  <2> QED BY <2>1, <2>2, <2>3
<1>2. payload[3].text # "blank" /\ ValidDescriptor(d, "production", FALSE)
  <2>1. payload[3].text # "blank"
    BY DEF Accepted
  <2>2. ValidDescriptor(d, "production", FALSE)
    BY DEF Accepted
  <2> QED BY <2>1, <2>2
<1>3. payload = [f \in DOMAIN payload |-> payload[f]] /\ \A f \in DOMAIN payload : payload[f] \in PayloadFields
  BY DEF IsPayload
<1>4. \A x \in PayloadFields : "text" \in DOMAIN x => x = Text(x.text) /\ x.text \notin {"absent", "number"}
  BY DEF PayloadFields, Text
<1>5. \A x \in PayloadFields : "map" \in DOMAIN x => x = [map |-> x.map] /\ x.map \in ClaimMaps
  BY DEF PayloadFields
<1>6. \A f \in DOMAIN payload : HasText(payload, f) => payload[f] = Text(payload[f].text) /\ payload[f].text \notin {"absent", "number"}
  BY <1>3, <1>4 DEF HasText
<1>7. \A f \in 2..6 : f \in DOMAIN payload /\ payload[f] = Text(payload[f].text)
  BY <1>1, <1>6 DEF HasText
<1>8. Kept(payload[7].map) = payload[7].map /\ payload[7] = [map |-> payload[7].map]
  <2>1. payload[7].map \in ClaimMaps /\ payload[7] = [map |-> payload[7].map]
    BY <1>1, <1>3, <1>5
  <2> PICK claims : claims = payload[7].map
    OBVIOUS
  <2>2. claims = [k \in DOMAIN claims |-> claims[k]]
    BY <2>1 DEF ClaimMaps
  <2>3. DOMAIN claims \ {"__proto__"} = DOMAIN claims
    OBVIOUS
  <2>4. Kept(claims) = [k \in DOMAIN claims |-> claims[k]]
    BY <2>3 DEF Kept, Restrict
  <2> QED BY <2>1, <2>2, <2>4
<1>9. /\ d.issuer = payload[2].text /\ d.document = payload[4].text /\ d.type = payload[5].text
      /\ d.issuedAt = payload[6].text /\ d.claims = payload[7].map
      /\ d.statusUrl = IF 8 \in DOMAIN payload THEN payload[8].text ELSE "absent"
  BY <1>8 DEF DescriptorOf
<1>10. /\ signer.algorithm = "ES256" /\ signer.issuer = d.issuer /\ signer.key = payload[3].text /\ signer.print = print
       /\ options.environment = "production" /\ options.artifact = artifact /\ PrintOf(signer, options) = print
  BY DEF PrintOf
<1>11. /\ 8 \in DOMAIN payload => payload[8] = Text(d.statusUrl) /\ d.statusUrl # "absent"
       /\ 9 \in DOMAIN payload => payload[9] = Text(artifact) /\ artifact # "absent"
       /\ 10 \in DOMAIN payload => payload[10] = Text(print) /\ print # "absent"
  BY <1>1, <1>6, <1>9
<1>12. /\ 8 \notin DOMAIN payload => d.statusUrl = "absent"
       /\ 9 \notin DOMAIN payload => artifact = "absent"
       /\ 10 \notin DOMAIN payload => print = "absent"
  BY <1>9
<1>13. DOMAIN payload = 1..7 \cup Optional(8, d.statusUrl) \cup Optional(9, artifact) \cup Optional(10, print)
  BY <1>1, <1>7, <1>11, <1>12 DEF Optional
<1>14. Payload(d, signer, options) = payload
  <2> DEFINE made == Payload(d, signer, options)
  <2>1. made = [f \in DOMAIN payload |->
                  CASE f = 1 -> [int |-> 1]
                    [] f = 2 -> Text(d.issuer)
                    [] f = 3 -> Text(signer.key)
                    [] f = 4 -> Text(d.document)
                    [] f = 5 -> Text(d.type)
                    [] f = 6 -> Text(d.issuedAt)
                    [] f = 7 -> [map |-> Kept(d.claims)]
                    [] f = 8 -> Text(d.statusUrl)
                    [] f = 9 -> Text(options.artifact)
                    [] f = 10 -> Text(PrintOf(signer, options))]
    BY <1>10, <1>13, Zenon DEF Payload
  <2>2. DOMAIN made = DOMAIN payload
    BY <2>1
  <2>3. \A f \in DOMAIN payload : made[f] = payload[f]
    <3>1. Says(made, d, signer, options)
      BY PayloadSays
    <3> HIDE DEF made
    <3>2. /\ made[1] = payload[1] /\ made[2] = payload[2] /\ made[3] = payload[3] /\ made[4] = payload[4]
          /\ made[5] = payload[5] /\ made[6] = payload[6] /\ made[7] = payload[7]
      BY <3>1, <1>1, <1>7, <1>8, <1>9, <1>10 DEF Says
    <3>3. /\ 8 \in DOMAIN payload => made[8] = payload[8]
          /\ 9 \in DOMAIN payload => made[9] = payload[9]
          /\ 10 \in DOMAIN payload => made[10] = payload[10]
      BY <3>1, <2>2, <1>10, <1>11 DEF Says
    <3> QED BY <3>2, <3>3, <1>1
  <2>4. made = [f \in DOMAIN payload |-> made[f]]
    BY <2>1
  <2> HIDE DEF made
  <2>5. made = payload
    BY <1>3, <2>3, <2>4
  <2> QED BY <2>5 DEF made
<1>15. Sealable(d, signer, options)
  BY <1>2, <1>10, <1>14 DEF Sealable
<1> QED BY <1>14, <1>15

-----------------------------------------------------------------------------
(* Envelopes (cose.ts) *)

\* What a signer makes verifies under its key id.  Blank key ids are refused before; a marked
\* one would be read without its mark.
LEMMA MadeVerifies ==
  ASSUME NEW signer, Cose!ValidSigner(signer), signer.keyId \notin {"garbled", "marked"}, NEW payload
  PROVE  /\ Cose!VerifyCose(Cose!Created(signer, payload), [k \in {signer.keyId} |-> signer.key]) = "VALID"
         /\ Cose!KeyIdOf(Cose!HeadersOf(signer)) = {signer.keyId}
<1> DEFINE h == Cose!HeadersOf(signer)
           made == Cose!Created(signer, payload)
           id == signer.keyId
<1>1. DOMAIN h = {1, 4} /\ h[1] = [algorithm |-> "ES256"] /\ h[4] = [bytes |-> id]
  BY DEF Cose!HeadersOf, Cose!Algorithm, Cose!Bytes
<1>2. Cose!Header(h, 1) = {Cose!Algorithm("ES256")} /\ Cose!Header(h, 2) = {} /\ Cose!Header(h, 4) = {[bytes |-> id]}
  BY <1>1 DEF Cose!Header, Cose!Algorithm
<1>3. Cose!KeyIdOf(h) = {id}
  <2> DEFINE texts == {v \in Cose!Header(h, 4) : "bytes" \in DOMAIN v}
  <2>1. texts = {[bytes |-> id]}
    BY <1>2
  <2> HIDE DEF texts
  <2>2. \A v \in texts : v.bytes = id
    BY <2>1
  <2>3. {v.bytes : v \in texts} \ {"", "blank", "garbled"} = {id}
    BY <2>1, <2>2 DEF Cose!ValidSigner
  <2>4. Cose!KeyIdOf(h) = {IF t = "marked" THEN "k1" ELSE t : t \in {v.bytes : v \in texts} \ {"", "blank", "garbled"}}
    BY DEF Cose!KeyIdOf, texts
  <2> QED BY <2>3, <2>4
<1>4. Cose!Supported(h)
  BY <1>2, <1>3 DEF Cose!Supported, Cose!CriticalIsSupported
<1>5. Cose!Decodable(made)
  BY DEF Cose!Decodable, Cose!Created, Cose!Bytes, Cose!Other, Cose!NoHeaders, Cose!Reserved
<1>6. /\ made.protected = h /\ made.payload = Cose!Bytes(payload)
      /\ made.signature.by = signer.key /\ made.signature.over = Cose!SignatureInput(h, Cose!Bytes(payload))
  BY DEF Cose!Created
<1> HIDE DEF h, made
<1>7. Cose!VerifyCose(made, [k \in {id} |-> signer.key]) = "VALID"
  BY <1>3, <1>4, <1>5, <1>6 DEF Cose!VerifyCose
<1> QED BY <1>3, <1>7 DEF h, made

\* What still verifies under a signature is what was signed.
THEOREM SealsAreCovered ==
  ASSUME NEW signer, signer.keyId \notin {"garbled", "marked"}, NEW payload, NEW object, NEW keys
  PROVE  Cose!CoversTheSeal(signer, payload, object, keys)
<1> SUFFICES ASSUME Cose!ValidSigner(signer), object.signature = Cose!Created(signer, payload).signature,
                    Cose!VerifyCose(object, keys) = "VALID"
             PROVE  /\ Cose!KeyIdOf(object.protected) = {signer.keyId} /\ keys[signer.keyId] = signer.key
                    /\ \A label \in Cose!Reserved : Cose!Header(object.protected, label) = Cose!Header(Cose!Created(signer, payload).protected, label)
                    /\ object.payload = Cose!Created(signer, payload).payload
  BY MadeVerifies DEF Cose!CoversTheSeal
<1> DEFINE made == Cose!Created(signer, payload)
<1>1. /\ \A id \in Cose!KeyIdOf(object.protected) : object.signature.by = keys[id]
      /\ object.signature.over = Cose!SignatureInput(object.protected, object.payload)
  BY DEF Cose!VerifyCose
<1>2. /\ object.signature.by = signer.key
      /\ object.signature.over = Cose!SignatureInput(Cose!HeadersOf(signer), Cose!Bytes(payload))
      /\ made.protected = Cose!HeadersOf(signer) /\ made.payload = Cose!Bytes(payload)
  BY DEF Cose!Created
<1>3. object.protected = Cose!HeadersOf(signer) /\ object.payload = Cose!Bytes(payload)
  <2>1. Cose!SignatureInput(object.protected, object.payload) = Cose!SignatureInput(Cose!HeadersOf(signer), Cose!Bytes(payload))
    BY <1>1, <1>2
  <2>2. /\ Cose!SignatureInput(object.protected, object.payload).headers = Cose!SignatureInput(Cose!HeadersOf(signer), Cose!Bytes(payload)).headers
        /\ Cose!SignatureInput(object.protected, object.payload).payload = Cose!SignatureInput(Cose!HeadersOf(signer), Cose!Bytes(payload)).payload
    BY <2>1
  <2> QED BY <2>2 DEF Cose!SignatureInput
<1>4. Cose!KeyIdOf(object.protected) = {signer.keyId}
  BY <1>3, MadeVerifies
<1> QED BY <1>1, <1>2, <1>3, <1>4

-----------------------------------------------------------------------------
(* A behaviour gives one input *)

\* Whatever is given is one of the inputs.
GivenInv ==
  /\ form = "binary" => given \in Binaries
  /\ form = "text" => given \in Texts
  /\ form = "value" => given \in Values
  /\ form = "input" => given \in Inputs
  /\ form = "raw" => given \in Raws
  /\ form = "der" => given \in Ders
  /\ form = "descriptor" => given \in Seals
  /\ form = "payload" => given \in Payloads
  /\ form = "envelope" => given \in Envelopes

\* That invariant holds.
LEMMA InputsAreGiven == FormatSpec => []GivenInv
<1>1. Init => GivenInv
  BY DEF Init, GivenInv
<1>2. GivenInv /\ [FormatNext]_<<form, given>> => GivenInv'
  BY DEF GivenInv, FormatNext, Give, GiveBinary, GiveText, GiveValue, GiveInput, GiveRaw, GiveDer, GiveDescriptor, GivePayload, GiveEnvelope
<1> QED BY <1>1, <1>2, PTL DEF FormatSpec

\* The given text of a seal and its bytes stand for each other.
LEMMA TextsAgree == GivenInv => Base45IsABijection
<1> SUFFICES ASSUME GivenInv PROVE Base45IsABijection
  OBVIOUS
<1>1. ASSUME form = "binary" PROVE DecodesBack(given) /\ EndsInNoBlank(given)
  <2>1. given \in Binary
    BY <1>1, InputsAssumption DEF GivenInv
  <2> QED BY <2>1, Base45DecodesBack, Base45EndsInNoBlank
<1>2. ASSUME form = "text" PROVE EncodesBack(given)
  <2>1. given \in Characters
    BY <1>2, InputsAssumption DEF GivenInv
  <2> QED BY <2>1, Base45EncodesBack
<1> QED BY <1>1, <1>2 DEF Base45IsABijection

\* The text of a seal and its bytes stand for each other, for bytes and texts of any length.
THEOREM TextsAndBytesAgree == FormatSpec => []Base45IsABijection
  BY TextsAgree, InputsAreGiven, PTL

\* The given value is read back, and the given bytes are written back.
LEMMA ValuesAgree == GivenInv => CborIsDeterministic
<1> SUFFICES ASSUME GivenInv PROVE CborIsDeterministic
  OBVIOUS
<1>1. ReadsBack(given)
  <2>1. CASE given \in Value
    BY <2>1, ValuesAreReadBack
  <2>2. CASE given \notin Value
    <3>1. ~Encodable(given)
      BY <2>2 DEF Encodable, Value
    <3> QED BY <3>1 DEF ReadsBack
  <2> QED BY <2>1, <2>2
<1>2. ASSUME form = "input" PROVE WritesBack(given)
  <2>1. given \in Seq(Octet)
    BY <1>2, InputsAssumption DEF GivenInv
  <2> QED BY <2>1, BytesAreWrittenBack
<1> QED BY <1>1, <1>2 DEF CborIsDeterministic

\* A value has one encoding, and what is read is what was written: for every value, every input,
\* and any limits.
THEOREM ValuesAndBytesAgree == FormatSpec => []CborIsDeterministic
  BY ValuesAgree, InputsAreGiven, PTL

\* The given forms of a signature stand for each other.
LEMMA FormsAgree == GivenInv => SignatureFormsAgree
<1> SUFFICES ASSUME GivenInv PROVE SignatureFormsAgree
  OBVIOUS
<1>1. ASSUME form = "raw" PROVE RawSurvives(given)
  <2>1. given \in Seq(Byte) /\ Len(given) = 2 * Width
    BY <1>1, InputsAssumption DEF GivenInv
  <2> QED BY <2>1, SignaturesSurvive
<1>2. ASSUME form = "der" PROVE ReadersAgree(given)
  <2>1. given \in Seq(Byte)
    BY <1>2, InputsAssumption DEF GivenInv
  <2> QED BY <2>1, ReadersDoAgree
<1> QED BY <1>1, <1>2 DEF SignatureFormsAgree

\* The raw and the DER form of a signature stand for each other, whatever their bytes and for
\* numbers of any width a length of one byte allows.
THEOREM SignaturesAgree == FormatSpec => []SignatureFormsAgree
  BY FormsAgree, InputsAreGiven, PTL

\* The given descriptor survives, and the given payload could be issued.
LEMMA ProfilesAgree == GivenInv => ProfileIsFaithful
<1> SUFFICES ASSUME GivenInv PROVE ProfileIsFaithful
  OBVIOUS
<1>1. ASSUME form = "descriptor" PROVE SealsReadAsIssued(given[1], given[2], given[3])
  <2>1. given[1].claims \in ClaimMaps
    BY <1>1, InputsAssumption DEF GivenInv
  <2> QED BY <2>1, DescriptorsSurvive
<1>2. ASSUME form = "payload" PROVE AcceptedCouldBeIssued(given)
  <2>1. IsPayload(given)
    BY <1>2, InputsAssumption DEF GivenInv
  <2> QED BY <2>1, OnlyIssuablePayloadsAreRead
<1> QED BY <1>1, <1>2 DEF ProfileIsFaithful

\* Every descriptor survives its way through a seal, and every payload that is accepted could
\* have been made of one.
THEOREM ProfilesAreFaithful == FormatSpec => []ProfileIsFaithful
  BY ProfilesAgree, InputsAreGiven, PTL

\* The given envelope is covered by its signature.
LEMMA EnvelopesAgree == GivenInv => SignatureCoversTheSeal
<1> SUFFICES ASSUME GivenInv, form = "envelope" PROVE Cose!CoversTheSeal(given[1], "p1", given[2], given[3])
  BY DEF SignatureCoversTheSeal
<1>1. given[1].keyId \notin {"garbled", "marked"}
  BY InputsAssumption DEF GivenInv
<1> QED BY <1>1, SealsAreCovered

\* Nothing that a verifier reads of an envelope can be changed under a signature that still
\* verifies.
THEOREM EnvelopesAreCovered == FormatSpec => []SignatureCoversTheSeal
  BY EnvelopesAgree, InputsAreGiven, PTL
=============================================================================
