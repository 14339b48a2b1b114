------------------------------- MODULE Formats -------------------------------
(***************************************************************************)
(* The formats that a seal goes through: the text of its bytes, the        *)
(* binary form of its values, both forms of its signature, the payload     *)
(* made of a descriptor, and the envelope around it.  A behaviour gives    *)
(* one of their functions one input, of the sets that the constants name.  *)
(***************************************************************************)
EXTENDS Base45, Cbor, DerSignature, PaperProfile

Cose == INSTANCE CoseSign1

CONSTANTS
  Binaries, Texts,     \* for encodeBase45() and decodeBase45()
  Values, Inputs,      \* for encodeDeterministicCbor() and decodeDeterministicCbor()
  Raws, Ders,          \* signatures in either form
  Seals, Payloads,     \* a descriptor, a signer and options; decoded payloads
  Envelopes            \* a signer, what has become of its object, and keys by key id

\* What the types of the code leave possible.
ClaimMaps == UNION {[keys -> ClaimValues] : keys \in SUBSET ClaimKeys}
PayloadFields == [int : Int] \cup [text : STRING \ {"absent", "number"}] \cup [map : ClaimMaps]
IsPayload(payload) == DOMAIN payload \subseteq Nat /\ payload \in [DOMAIN payload -> PayloadFields]

\* Key ids come as texts that are well-formed and have no byte order mark.
ASSUME InputsAssumption ==
  /\ Binaries \subseteq Binary /\ Texts \subseteq Characters
  /\ Inputs \subseteq Seq(Octet)
  /\ \A raw \in Raws : raw \in Seq(Byte) /\ Len(raw) = 2 * Width
  /\ Ders \subseteq Seq(Byte)
  /\ \A seal \in Seals : seal[1].claims \in ClaimMaps
  /\ \A payload \in Payloads : IsPayload(payload)
  /\ \A envelope \in Envelopes : envelope[1].keyId \notin {"garbled", "marked"}

VARIABLES form, given

Init == form = "none" /\ given = <<>>

Give(f, inputs) == form = "none" /\ form' = f /\ given' \in inputs

GiveBinary == Give("binary", Binaries)
GiveText == Give("text", Texts)
GiveValue == Give("value", Values)
GiveInput == Give("input", Inputs)
GiveRaw == Give("raw", Raws)
GiveDer == Give("der", Ders)
GiveDescriptor == Give("descriptor", Seals)
GivePayload == Give("payload", Payloads)
GiveEnvelope == Give("envelope", Envelopes)

FormatNext ==
  \/ GiveBinary \/ GiveText
  \/ GiveValue \/ GiveInput
  \/ GiveRaw \/ GiveDer
  \/ GiveDescriptor \/ GivePayload
  \/ GiveEnvelope

FormatSpec == Init /\ [][FormatNext]_<<form, given>>

-----------------------------------------------------------------------------
(* Properties *)

\* The text of a seal stands for its bytes and for nothing else, and trimming takes nothing
\* off it (base45.ts).
Base45IsABijection ==
  /\ form = "binary" => DecodesBack(given) /\ EndsInNoBlank(given)
  /\ form = "text" => EncodesBack(given)

\* A value has one encoding, which reads back as the value; what is read is what was written
\* (cbor.ts).
CborIsDeterministic ==
  /\ form = "value" => ReadsBack(given)
  /\ form = "input" => WritesBack(given)

\* The two forms of a signature stand for each other, for every reader (cose.ts,
\* der-to-cose.ts).
SignatureFormsAgree ==
  /\ form = "raw" => RawSurvives(given)
  /\ form = "der" => ReadersAgree(given)

\* A descriptor survives its way through a seal, and nothing is read that could not have been
\* sealed (validate-descriptor.ts, encode.ts, decode.ts, verify.ts).
ProfileIsFaithful ==
  /\ form = "descriptor" => SealsReadAsIssued(given[1], given[2], given[3])
  /\ form = "payload" => AcceptedCouldBeIssued(given)

\* What still verifies of a seal is what was signed, under the key id it was
\* signed for (cose.ts).
SignatureCoversTheSeal ==
  form = "envelope" => Cose!CoversTheSeal(given[1], "p1", given[2], given[3])
=============================================================================
