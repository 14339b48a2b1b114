---------------------------- MODULE KeyLifecycle ----------------------------
(***************************************************************************)
(* The key lifecycle registry (packages/core/src/key-lifecycle.ts): an     *)
(* in-memory map from key versions to records, driven by operators.  Every *)
(* method is synchronous, so a call is one step; a call that throws        *)
(* changes nothing and is not a step.                                      *)
(*                                                                         *)
(* Timestamps, reasons and the certificate chain are left out, except that *)
(* a record knows whether it was ever activated.  Fingerprint and public   *)
(* key, which samePublicIdentity compares together, are one "material".    *)
(***************************************************************************)
EXTENDS Naturals, Sequences

CONSTANTS
  Issuers,      \* issuer ids
  KeyVersions,  \* key versions: records with an issuer, a key and a version
  Materials     \* certificate fingerprint + public key

ASSUME KeyVersionsAssumption == \A k \in KeyVersions : k.issuer \in Issuers

\* States of a record that a key never leaves for "ACTIVE".
EndedStates == {"RETIRED", "REVOKED", "COMPROMISED"}
Statuses == {"AUTHORIZED", "ACTIVE"} \union EndedStates

\* activated: activatedAt is defined.
Records == [status : Statuses, material : Materials, activated : BOOLEAN]

\* A key version records.get() knows nothing of.
Unlisted == [status |-> "UNLISTED"]

VARIABLES
  records,  \* records[k]: the record of key version k
  order     \* the listed key versions in the insertion order of the Map

vars == <<records, order>>

Listed(k) == records[k] # Unlisted
HasStatus(k, s) == records[k].status = s
ActiveKeys(i) == {k \in KeyVersions : k.issuer = i /\ HasStatus(k, "ACTIVE")}

-----------------------------------------------------------------------------
(* Operations *)

NewRecord(m) == [status |-> "AUTHORIZED", material |-> m, activated |-> FALSE]

\* authorize(): a listed reference is returned as it is, or refused when its
\* public material differs; neither is a step.
Authorize(k, m) ==
  /\ ~Listed(k)
  /\ records' = [records EXCEPT ![k] = NewRecord(m)]
  /\ order' = Append(order, k)

\* Mutant: a retired key may be activated again.
Reactivate(k) ==
  /\ records[k].status \in {"AUTHORIZED", "RETIRED"}
  /\ records' = [c \in KeyVersions |->
                   IF c = k THEN [records[c] EXCEPT !.status = "ACTIVE", !.activated = TRUE]
                   ELSE IF c \in ActiveKeys(k.issuer) THEN [records[c] EXCEPT !.status = "RETIRED"]
                   ELSE records[c]]
  /\ UNCHANGED order

\* activate(): every ACTIVE record of the issuer is retired first.
Activate(k) ==
  /\ HasStatus(k, "AUTHORIZED")
  /\ records' = [c \in KeyVersions |->
                   IF c = k THEN [records[c] EXCEPT !.status = "ACTIVE", !.activated = TRUE]
                   ELSE IF c \in ActiveKeys(k.issuer) THEN [records[c] EXCEPT !.status = "RETIRED"]
                   ELSE records[c]]
  /\ UNCHANGED order

\* require(): an unknown reference throws.
SetStatus(k, s) ==
  /\ Listed(k)
  /\ records' = [records EXCEPT ![k].status = s]
  /\ UNCHANGED order

\* Mutant: no state is refused.
RetireAnything(k) == SetStatus(k, "RETIRED")

\* retire(): from any state but REVOKED and COMPROMISED.
Retire(k) ==
  /\ records[k].status \notin {"REVOKED", "COMPROMISED"}
  /\ SetStatus(k, "RETIRED")

\* revoke() and compromise(): changeStatus asks for a reason, not for a state.
Revoke(k) == SetStatus(k, "REVOKED")
Compromise(k) == SetStatus(k, "COMPROMISED")

Init == /\ records = [k \in KeyVersions |-> Unlisted]
        /\ order = << >>

Operate(k) == \/ \E m \in Materials : Authorize(k, m)
              \/ Activate(k)
              \/ Retire(k)
              \/ Revoke(k)
              \/ Compromise(k)

Next == \E k \in KeyVersions : Operate(k)

Spec == Init /\ [][Next]_vars

-----------------------------------------------------------------------------
(* Properties *)

\* The records have their types, and the order lists what is listed, once.
TypeOK ==
  /\ records \in [KeyVersions -> Records \union {Unlisted}]
  /\ order \in Seq(KeyVersions)
  /\ \A k \in KeyVersions : Listed(k) <=> \E n \in DOMAIN order : order[n] = k
  /\ \A m, n \in DOMAIN order : order[m] = order[n] => m = n

\* getActive() has one answer: whatever operators call, in whatever order, at
\* most one key version of an issuer is ACTIVE.
OneActivePerIssuer ==
  \A i \in Issuers : \A k, l \in ActiveKeys(i) : k = l

\* An identity keeps its public material for ever and is never deleted
\* (authorize() refuses a reused reference with other material).
IdentityIsImmutable ==
  [][\A k \in KeyVersions : Listed(k) => Listed(k)' /\ records[k].material = records'[k].material]_vars

\* No call brings a REVOKED or COMPROMISED key back to AUTHORIZED, ACTIVE or
\* RETIRED: a withdrawn key is never taken for one that merely aged.
WithdrawnStaysWithdrawn ==
  [][\A k \in KeyVersions :
       records[k].status \in {"REVOKED", "COMPROMISED"}
         => records'[k].status \in {"REVOKED", "COMPROMISED"}]_vars

\* The registry implements the succession of signing keys: one at a time, none
\* twice, and handing over is one step.
Succession == INSTANCE KeySuccession WITH
  signing <- [i \in Issuers |-> ActiveKeys(i)],
  spent <- {k \in KeyVersions : records[k].status \in EndedStates}

KeepsSuccession == Succession!Spec
=============================================================================
