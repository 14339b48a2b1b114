-------------------------------- MODULE Cbor --------------------------------
(***************************************************************************)
(* The binary form of seals and of what their signatures cover             *)
(* (packages/paper/src/cbor.ts).  The first byte of an item holds its      *)
(* major type and `additional`, a small number or how many bytes of the    *)
(* number follow; Inline (24 in the code) is the first number that does    *)
(* not fit and everything else is laid out from it, so that a small        *)
(* instance has every boundary of the real one.                            *)
(*                                                                         *)
(* A value is a record with one field, named for its type.  What is        *)
(* written of it, and what is read at a place of the input, is made of     *)
(* what is written or read of the values within, one depth after another.  *)
(***************************************************************************)
EXTENDS Integers, Sequences, SequencesExt, FiniteSets

CONSTANTS
  Inline,      \* 24
  MaxSafe,     \* Number.MAX_SAFE_INTEGER
  MaxDepth,    \* MAX_CBOR_DEPTH
  MaxItems,    \* MAX_CBOR_ITEMS
  MaxBytes     \* MAX_CBOR_BYTES

\* How many numbers a byte can stand for (256): eight major types of Inline + 8 each.
\* And how many two and four bytes can.
Base == 8 * (Inline + 8)
Short == Base * Base
Long == Short * Short

\* The byte order mark, one unit here: a text decoder strips it from the front of a text.
Mark == Base - 1

\* Two additional numbers below Inline are the booleans; eight bytes hold every safe integer.
ASSUME LayoutAssumption ==
  /\ Inline \in Nat /\ Inline >= 4
  /\ MaxSafe \in Nat /\ MaxSafe >= Base /\ MaxSafe \div Long < Long
  /\ MaxDepth \in Nat /\ MaxItems \in 0..MaxSafe /\ MaxBytes \in 0..MaxSafe

-----------------------------------------------------------------------------
(* Values.  Texts are made of the bytes of the lower half, and of marks. *)

Octet == 0..(Base - 1)
TextUnit == {unit \in Octet : unit < Base \div 2 \/ unit = Mark}

Simple == [bool : BOOLEAN] \cup [int : Int] \cup [bytes : Seq(Octet)] \cup [text : Seq(TextUnit)]
Composite(parts) == [array : Seq(parts)] \cup [map : Seq(parts \X parts)]

\* The values that nest at most so deep.
Nesting[depth \in 0..MaxDepth] == Simple \cup Composite(IF depth = 0 THEN {} ELSE Nesting[depth - 1])

Is(value, type) == type \in DOMAIN value

\* The values that a value is made of, and all those within it.
Parts(value) ==
  CASE Is(value, "array") -> ToSet(value.array)
    [] Is(value, "map") -> {pair[1] : pair \in ToSet(value.map)} \cup {pair[2] : pair \in ToSet(value.map)}
    [] OTHER -> {}

WithinUpTo[depth \in 0..MaxDepth] ==
  [value \in Nesting[depth] |-> {value} \cup UNION {WithinUpTo[depth - 1][part] : part \in Parts(value)}]
Within(value) == WithinUpTo[MaxDepth][value]

-----------------------------------------------------------------------------
(* The writer *)

Initial(major, additional) == major * (Inline + 8) + additional

\* How many bytes follow in each form of a number, and the least number that needs it: anything
\* smaller has a shorter one.
ByteCount(form) == CASE form = 0 -> 1 [] form = 1 -> 2 [] form = 2 -> 4 [] form = 3 -> 8

\* Mutant: a number may be written longer than it needs to be.
AnyForm(form) == 0

Least(form) == CASE form = 0 -> Inline [] form = 1 -> Base [] form = 2 -> Short [] form = 3 -> Long

Form(n) ==
  CASE n < Base -> 0
    [] n >= Base /\ n < Short -> 1
    [] n >= Short /\ n < Long -> 2
    [] n >= Long -> 3

\* The bytes of a number, most significant first.
BigEndian(n, count) ==
  LET remaining[k \in 0..count] == IF k = 0 THEN n ELSE remaining[k - 1] \div Base
  IN  [i \in 1..count |-> remaining[count - i] % Base]

\* A type and its number, in the shortest form.
EncodeLength(major, n) ==
  IF n < Inline THEN <<Initial(major, n)>>
  ELSE <<Initial(major, Inline + Form(n))>> \o BigEndian(n, ByteCount(Form(n)))

\* compareBytes(left, right) < 0
Before(left, right) ==
  \E i \in DOMAIN right :
    /\ \A j \in 1..(i - 1) : j \in DOMAIN left /\ left[j] = right[j]
    /\ i \in DOMAIN left => left[i] < right[i]

\* The entries of a map by their keys, all of them different.
InOrder(entries) ==
  [i \in 1..Cardinality(entries) |->
     CHOOSE entry \in entries : Cardinality({e \in entries : Before(e[1], entry[1])}) = i - 1]

\* The sides of pairs in a row, and the pairs that a row of them makes.
Sides(pairs) == [i \in 1..(2 * Len(pairs)) |-> pairs[(i + 1) \div 2][2 - (i % 2)]]
Pairs(sides) == [i \in 1..(Len(sides) \div 2) |-> <<sides[2 * i - 1], sides[2 * i]>>]

Written(value, within) ==
  CASE Is(value, "bool") -> <<Initial(7, IF value.bool THEN Inline - 3 ELSE Inline - 4)>>
    [] Is(value, "int") -> IF value.int >= 0 THEN EncodeLength(0, value.int) ELSE EncodeLength(1, -1 - value.int)
    [] Is(value, "bytes") -> EncodeLength(2, Len(value.bytes)) \o value.bytes
    [] Is(value, "text") -> EncodeLength(3, Len(value.text)) \o value.text
    [] Is(value, "array") ->
         EncodeLength(4, Len(value.array)) \o FlattenSeq([i \in DOMAIN value.array |-> within[value.array[i]]])
    [] Is(value, "map") ->
         LET sorted == InOrder({<<within[pair[1]], within[pair[2]]>> : pair \in ToSet(value.map)})
         IN  EncodeLength(5, Len(value.map)) \o FlattenSeq(Sides(sorted))

Encoded[depth \in 0..MaxDepth] == [value \in Nesting[depth] |-> Written(value, Encoded[depth - 1])]
Encoding(value) == Encoded[MaxDepth][value]

\* No two entries of a map have the same key.
DistinctKeys(pairs) ==
  \A i, j \in DOMAIN pairs : i # j => Encoding(pairs[i][1]) # Encoding(pairs[j][1])

\* What encodeDeterministicCbor() does not refuse.
WithinLimits(value) ==
  /\ Is(value, "int") => value.int \in -MaxSafe..MaxSafe
  /\ Is(value, "array") => Len(value.array) <= MaxItems
  /\ Is(value, "map") => Len(value.map) <= MaxItems /\ DistinctKeys(value.map)
Encodable(value) == value \in Nesting[MaxDepth] /\ \A part \in Within(value) : WithinLimits(part)

-----------------------------------------------------------------------------
(* The reader.  A read either fails or says what it read and where the next one starts. *)

Failed == [next |-> 0]
Got(value, next) == [next |-> next, value |-> value]

If(condition, read) == IF condition THEN read ELSE Failed

\* The number that bytes stand for; anything above MaxSafe is MaxSafe + 1.
Number(bytes) ==
  LET read[k \in 0..Len(bytes)] ==
        IF k = 0 THEN 0
        ELSE IF read[k - 1] > (MaxSafe - bytes[k]) \div Base THEN MaxSafe + 1
        ELSE read[k - 1] * Base + bytes[k]
  IN  read[Len(bytes)]

ReadLength(input, at, additional) ==
  IF additional < Inline THEN Got(additional, at)
  ELSE LET form == additional - Inline
           next == at + ByteCount(form)
           n == Number(SubSeq(input, at, next - 1))
       IN  If(form <= 3 /\ next <= Len(input) + 1 /\ n >= Least(form) /\ n <= MaxSafe, Got(n, next))

\* A length or a count that cannot be right is refused before anything is read.
ReadCount(input, at, additional, most) ==
  LET count == ReadLength(input, at, additional)
  IN  If(count.next # 0 /\ count.value <= most /\ count.value <= Len(input) + 1 - count.next, count)

ReadBytes(input, at, additional) ==
  LET size == ReadCount(input, at, additional, Len(input))
  IN  If(size.next # 0, Got(SubSeq(input, size.next, size.next + size.value - 1), size.next + size.value))

\* So many values, one behind the other; within says what is read of a value at each place.
ReadItems(count, at, within) ==
  LET read[k \in 0..count] ==
        IF k = 0 THEN Got(<<>>, at)
        ELSE LET item == within[read[k - 1].next]
             IN  If(read[k - 1].next # 0 /\ item.next # 0, Got(Append(read[k - 1].value, item.value), item.next))
  IN  read[count]

\* One mark at the front of a text is dropped.
ValidText(bytes) == \A i \in DOMAIN bytes : bytes[i] \in TextUnit

TextOf(bytes) == IF bytes # <<>> /\ bytes[1] = Mark THEN Tail(bytes) ELSE bytes

ReadValue(input, at, within) ==
  IF at > Len(input) THEN Failed
  ELSE LET major == input[at] \div (Inline + 8)
           additional == input[at] % (Inline + 8)
           length == ReadLength(input, at + 1, additional)
           bytes == ReadBytes(input, at + 1, additional)
           count == ReadCount(input, at + 1, additional, MaxItems)
           items == ReadItems(IF major = 4 THEN count.value ELSE 2 * count.value, count.next, within)
           pairs == Pairs(items.value)
       IN  CASE major = 0 -> If(length.next # 0, Got([int |-> length.value], length.next))
             [] major = 1 -> If(length.next # 0, Got([int |-> -1 - length.value], length.next))
             [] major = 2 -> If(bytes.next # 0, Got([bytes |-> bytes.value], bytes.next))
             [] major = 3 -> If(bytes.next # 0 /\ ValidText(bytes.value), Got([text |-> TextOf(bytes.value)], bytes.next))
             [] major = 4 -> If(count.next # 0 /\ items.next # 0, Got([array |-> items.value], items.next))
             [] major = 5 ->
                  If(/\ count.next # 0 /\ items.next # 0
                     /\ \A i \in DOMAIN pairs : Encodable(pairs[i][1])
                     /\ DistinctKeys(pairs),
                     Got([map |-> pairs], items.next))
             [] major = 6 -> Failed
             [] major = 7 ->
                  If(additional \in {Inline - 4, Inline - 3}, Got([bool |-> additional = Inline - 3], at + 1))

\* decodeDeterministicCbor
Decoded(input) ==
  LET places == 1..(Len(input) + 1)
      read[depth \in 0..MaxDepth] ==
        [at \in places |-> ReadValue(input, at, IF depth = 0 THEN [place \in places |-> Failed] ELSE read[depth - 1])]
      whole == If(Len(input) <= MaxBytes, read[MaxDepth][1])
  IN  If(whole.next = Len(input) + 1, whole)

-----------------------------------------------------------------------------
(* Properties *)

\* Every map in a value has its entries in the order of the encoding.
Ordered(value) ==
  \A part \in Within(value) : Is(part, "map") =>
    \A i, j \in DOMAIN part.map : i < j => ~Before(Encoding(part.map[j][1]), Encoding(part.map[i][1]))

\* Nothing in a value starts with a byte order mark.
Unmarked(value) ==
  \A part \in Within(value) : Is(part, "text") => part.text = <<>> \/ part.text[1] # Mark

\* A value that can be written is read back as it was, and the order in which a map was built
\* does not show in its encoding.
ReadsBack(value) ==
  Encodable(value) /\ Unmarked(value) =>
    \A bytes \in {Encoding(value)} : \A read \in {Decoded(bytes)} : Len(bytes) <= MaxBytes =>
      /\ Ordered(value) => read = Got(value, Len(bytes) + 1)
      /\ read.next # 0 /\ Encoding(read.value) = bytes
      /\ Is(value, "map") => Encoding([map |-> Reverse(value.map)]) = bytes

\* Bytes that are read are the encoding of what was read, up to the order of maps, to byte order
\* marks and to the one integer that can be read and not be written.
WritesBack(input) ==
  \A read \in {Decoded(input)} :
    read.next # 0 /\ Ordered(read.value) /\ Mark \notin ToSet(input) /\ Encodable(read.value) =>
      Encoding(read.value) = input
=============================================================================
