--------------------------- MODULE Observability ---------------------------
(***************************************************************************)
(* The lines the loggers write (services/observability/src/logging.ts, and *)
(* its twin in services/status/src/logger.ts).                             *)
(*                                                                         *)
(* A logged value is [text], [bytes], [list] or [fields]; fields are a     *)
(* sequence of entries, each a key and a value.                            *)
(***************************************************************************)
EXTENDS Integers, Sequences, SequencesExt

CONSTANTS
  LogDepth,   \* how deep a logged value nests
  LogKeys     \* keys, by what the pattern finds in them

\* The keys that a logger's pattern finds: "pin" only the observability logger's.
SensitiveKeys(logger) == {"authorization", "documentBytes"} \cup (IF logger = "observability" THEN {"pin"} ELSE {})

Redacted == [text |-> "[REDACTED]"]

\* The values that nest at most so deep.
Leaves == {Redacted} \cup [text : STRING] \cup [bytes : STRING]
Nested(parts) == [list : Seq(parts)] \cup [fields : Seq(LogKeys \X parts)]
Logged[depth \in 0..LogDepth] == IF depth = 0 THEN Leaves ELSE Leaves \cup Nested(Logged[depth - 1])
LoggedFields == {value \in Logged[LogDepth] : "fields" \in DOMAIN value}

\* redactFields() and redactValue(), from what is written of the values within.
RedactedFields(logger, fields, within) ==
  [i \in DOMAIN fields |-> <<fields[i][1], IF fields[i][1] \in SensitiveKeys(logger) THEN Redacted ELSE within[fields[i][2]]>>]

\* Mutant: lists are written as they are.
OnlyFields(logger, value, within) ==
  CASE "bytes" \in DOMAIN value -> Redacted
    [] "fields" \in DOMAIN value -> [fields |-> RedactedFields(logger, value.fields, within)]
    [] OTHER -> value

RedactedValue(logger, value, within) ==
  CASE "bytes" \in DOMAIN value -> Redacted
    [] "list" \in DOMAIN value -> [list |-> [i \in DOMAIN value.list |-> within[value.list[i]]]]
    [] "fields" \in DOMAIN value -> [fields |-> RedactedFields(logger, value.fields, within)]
    [] OTHER -> value

Redact(logger, value) ==
  LET written[depth \in 0..LogDepth] == [v \in Logged[depth] |-> RedactedValue(logger, v, written[depth - 1])]
  IN written[LogDepth][value]

\* createCorrelationId(): the caller's when it looks like one, or a new one.
CorrelationId(candidate) == IF candidate = {[text |-> "uuid"]} THEN "uuid" ELSE "fresh"

\* A line of the log.
Line(logger, fields) ==
  [correlationId |-> CorrelationId({entry[2] : entry \in {e \in ToSet(fields.fields) : e[1] = "correlationId"}}),
   fields |-> Redact(logger, fields).fields]

-----------------------------------------------------------------------------
(* Properties *)

\* What is not to be logged, whatever a logger's pattern finds: credentials, the
\* bytes of documents and PINs.
SecretKeys == {"authorization", "documentBytes", "pin"}

\* Secrets in a value that is written, from those in the values within: bytes,
\* and all that is under a key of a secret, of those keys.
Shows(secrets, value, within) ==
  CASE "bytes" \in DOMAIN value -> TRUE
    [] "list" \in DOMAIN value -> \E i \in DOMAIN value.list : within[value.list[i]]
    [] "fields" \in DOMAIN value ->
         \E i \in DOMAIN value.fields :
           \/ value.fields[i][1] \in secrets /\ value.fields[i][2] # Redacted
           \/ within[value.fields[i][2]]
    [] OTHER -> FALSE

Exposed(secrets, value) ==
  LET exposed[depth \in 0..LogDepth] == [v \in Logged[depth] |-> Shows(secrets, v, exposed[depth - 1])]
  IN exposed[LogDepth][value]

\* The observability logger writes no secret at any depth; the status logger none
\* but PINs, which docs/privacy/retention.md:5 would have it omit too; what is
\* written, written again, is the same; and the two write the same unless a key
\* says pin.
WritesNoSecrets(fields) ==
  LET written(logger) == [fields |-> Line(logger, fields).fields]
  IN /\ ~Exposed(SecretKeys, written("observability"))
     /\ ~Exposed(SecretKeys \ {"pin"}, written("status"))
     /\ \A logger \in {"observability", "status"} : Line(logger, written(logger)).fields = written(logger).fields
     /\ ~Exposed(SecretKeys, Redact("status", fields)) => Line("observability", fields) = Line("status", fields)
=============================================================================
