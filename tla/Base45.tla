------------------------------- MODULE Base45 -------------------------------
(***************************************************************************)
(* The text form of a seal (packages/paper/src/base45.ts): two bytes       *)
(* become three characters, a last single byte two.  A character stands    *)
(* for its index in the alphabet; any number from 45 on is a character     *)
(* outside it.                                                             *)
(***************************************************************************)
EXTENDS Integers, Sequences

CONSTANT MaxBinary   \* MAX_BASE45_BINARY_BYTES

ASSUME MaxBinaryAssumption == MaxBinary \in Nat

Byte == 0..255

\* Bytes and texts that may come in: an encoder is given bytes, a decoder any characters.
Binary == Seq(Byte)
Characters == Seq(Nat)

EncodedLength(n) == 3 * (n \div 2) + 2 * (n % 2)

DecodedLength(n) == 2 * (n \div 3) + (IF n % 3 = 2 THEN 1 ELSE 0)

\* The number that the g-th group of bytes (from 0) stands for.
ByteGroup(bytes, g) ==
  IF 2 * g + 1 < Len(bytes) THEN bytes[2 * g + 1] * 256 + bytes[2 * g + 2] ELSE bytes[2 * g + 1]

\* The digits of a number, least significant first.
Digit(value, position) ==
  CASE position = 0 -> value % 45
    [] position = 1 -> (value \div 45) % 45
    [] position = 2 -> value \div 2025

EncodeBase45(bytes) ==
  [i \in 1..EncodedLength(Len(bytes)) |-> Digit(ByteGroup(bytes, (i - 1) \div 3), (i - 1) % 3)]

\* The number that the g-th group of characters stands for.
CharGroup(text, g) ==
  text[3 * g + 1] + text[3 * g + 2] * 45 + (IF 3 * g + 2 < Len(text) THEN text[3 * g + 3] * 2025 ELSE 0)

\* Mutant: the last group of two characters is held against two bytes.
FitsTwoBytes(text, g) == CharGroup(text, g) <= 65535

\* A group fits into its bytes.
Fits(text, g) == CharGroup(text, g) <= (IF 3 * g + 2 < Len(text) THEN 65535 ELSE 255)

\* What decodeBase45() does not refuse.
Acceptable(text) ==
  /\ Len(text) <= 3 * ((MaxBinary + 1) \div 2)
  /\ Len(text) % 3 # 1
  /\ \A i \in 1..Len(text) : text[i] < 45
  /\ \A g \in 0..((Len(text) + 2) \div 3 - 1) : Fits(text, g)

DecodeBase45(text) ==
  [j \in 1..DecodedLength(Len(text)) |->
     LET g == (j - 1) \div 2
         value == CharGroup(text, g)
     IN  IF 3 * g + 2 >= Len(text) THEN value
         ELSE IF (j - 1) % 2 = 0 THEN value \div 256 ELSE value % 256]

-----------------------------------------------------------------------------
(* Properties *)

\* Every binary within the limit has a text, which is accepted and decodes to it.
DecodesBack(bytes) ==
  Len(bytes) <= MaxBinary =>
    LET text == EncodeBase45(bytes)
    IN  Acceptable(text) /\ DecodeBase45(text) = bytes

\* An accepted text is the text of what it decodes to: no two texts stand for the same seal.
EncodesBack(text) ==
  Acceptable(text) =>
    LET bytes == DecodeBase45(text)
    IN  bytes \in Binary /\ EncodeBase45(bytes) = text

\* The alphabet has a blank, and callers trim what they read (verify-input.ts:61, app.js:52,
\* camera.js:19): no text ends with one, so that trimming leaves every seal whole.
Blank == 36

EndsInNoBlank(bytes) ==
  bytes # <<>> => LET text == EncodeBase45(bytes) IN text[Len(text)] # Blank
=============================================================================
