---------------------------- MODULE DerSignature ----------------------------
(***************************************************************************)
(* The two forms of an ES256 signature.  A seal carries the raw form, r    *)
(* and s of Width bytes each; node's verifier takes DER                    *)
(* (packages/paper/src/cose.ts), and signers return one or the other.      *)
(* The AWS provider has a reader of its own                                *)
(* (providers/aws-kms/src/der-to-cose.ts).                                 *)
(***************************************************************************)
EXTENDS Integers, Sequences, SequencesExt

CONSTANT Width   \* 32

ASSUME WidthAssumption == Width \in 1..60

SequenceTag == 48
IntegerTag == 2

\* Refused: no signature is empty.
Refused == <<>>
NoRead == [next |-> 0]

Slice(bytes, from, count) == SubSeq(bytes, from, from + count - 1)

-----------------------------------------------------------------------------
(* Writing DER (cose.ts) *)

\* Where the zeros in front of a number end; its last byte always counts.
Begins(value, i) ==
  /\ \A j \in 1..(i - 1) : value[j] = 0
  /\ value[i] # 0 \/ i = Len(value)
First(value) == CHOOSE i \in 1..Len(value) : Begins(value, i)

\* Leading zeros go, and one comes back before a byte that would make the number negative.
WriteInteger(value) ==
  LET normalized == SubSeq(value, First(value), Len(value))
  IN  IF normalized[1] >= 128 THEN <<0>> \o normalized ELSE normalized

Tagged(tag, content) == <<tag, Len(content)>> \o content

RawToDer(raw) ==
  LET r == WriteInteger(SubSeq(raw, 1, Width))
      s == WriteInteger(SubSeq(raw, Width + 1, 2 * Width))
  IN  Tagged(SequenceTag, Tagged(IntegerTag, r) \o Tagged(IntegerTag, s))

-----------------------------------------------------------------------------
(* Reading DER (cose.ts) *)

\* A length is one byte, or up to two bytes after their count.
DerLength(der, at) ==
  IF at > Len(der) THEN NoRead
  ELSE IF der[at] < 128 THEN [next |-> at + 1, value |-> der[at]]
  ELSE LET count == der[at] - 128
       IN  IF count \notin 1..2 \/ at + count > Len(der) THEN NoRead
           ELSE [next |-> at + 1 + count,
                 value |-> FoldLeft(LAMBDA n, b : n * 256 + b, 0, Slice(der, at + 1, count))]

DerInteger(der, at) ==
  LET length == DerLength(der, at + 1)
  IN  IF at > Len(der) \/ der[at] # IntegerTag \/ length.next = 0 THEN NoRead
      ELSE IF length.value = 0 \/ length.next + length.value > Len(der) + 1 THEN NoRead
      ELSE [next |-> length.next + length.value, value |-> Slice(der, length.next, length.value)]

\* Mutant: the leading zero of a number with its highest bit set is kept.
KeepZero(value) == value

WithoutZero(value) == IF value[1] = 0 THEN Tail(value) ELSE value

LeftPad(value) == [i \in 1..(Width - Len(value)) |-> 0] \o value

\* Both numbers, when the sequence holds them and nothing else.
DerSequence(der, sequence, r, s) ==
  LET fits(number) == Len(WithoutZero(number.value)) <= Width
  IN  IF /\ der # <<>> /\ der[1] = SequenceTag
         /\ sequence.next # 0 /\ sequence.value = Len(der) + 1 - sequence.next
         /\ r.next # 0 /\ s.next = Len(der) + 1
         /\ fits(r) /\ fits(s)
      THEN LeftPad(WithoutZero(r.value)) \o LeftPad(WithoutZero(s.value))
      ELSE Refused

DerToRaw(der) ==
  LET sequence == DerLength(der, 2)
      r == DerInteger(der, sequence.next)
  IN  DerSequence(der, sequence, r, DerInteger(der, r.next))

\* Signers may return either form: what has the length of the raw form is taken for it.
SignatureToRaw(signature) == IF Len(signature) = 2 * Width THEN signature ELSE DerToRaw(signature)

-----------------------------------------------------------------------------
(* The provider's reader (der-to-cose.ts) is stricter *)

StrictLength(der, at) ==
  LET length == DerLength(der, at)
  IN  IF length.next # 0 /\ der[at] >= 128 /\ der[at + 1] = 0 THEN NoRead ELSE length

StrictInteger(der, at) ==
  LET length == StrictLength(der, at + 1)
      number == DerInteger(der, at)
  IN  IF \/ number.next = 0 \/ length.next = 0
         \/ number.value[1] >= 128
         \/ Len(number.value) > 1 /\ number.value[1] = 0 /\ number.value[2] < 128
      THEN NoRead ELSE number

DerToCose(der) ==
  LET sequence == StrictLength(der, 2)
      r == StrictInteger(der, sequence.next)
  IN  DerSequence(der, sequence, r, StrictInteger(der, r.next))

-----------------------------------------------------------------------------
(* Properties *)

\* Both readers return the raw form that the DER was written from; so does the reader that has
\* to guess, unless the DER happens to have the length of the raw form.
RawSurvives(raw) ==
  LET der == RawToDer(raw)
  IN  /\ DerToRaw(der) = raw /\ DerToCose(der) = raw
      /\ Len(der) # 2 * Width => SignatureToRaw(der) = raw

\* What the strict reader accepts the other one reads alike, and nothing that writes its
\* lengths in one byte is accepted but the DER of that signature.
ReadersAgree(der) ==
  DerToCose(der) # Refused =>
    /\ DerToRaw(der) = DerToCose(der)
    /\ der = RawToDer(DerToCose(der)) \/ \E i \in DOMAIN der : der[i] \in {129, 130}
=============================================================================
