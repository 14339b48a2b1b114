--------------------------- MODULE IssuanceProofs ---------------------------
(***************************************************************************)
(* Proofs about issuance, for any signers whose key ids name the version   *)
(* (BareSigners = {}), any calls, and any calls of operators between any   *)
(* two of their steps; before them, of the registry of keys alone, for any *)
(* issuers, key versions and materials.                                    *)
(***************************************************************************)
EXTENDS Issuance, TLAPS

-----------------------------------------------------------------------------
(* The registry *)

\* What the proofs below need of a record's type; the order is not needed.
RecordTypes == records \in [KeyVersions -> Records \union {Unlisted}]

\* The two invariants are proved together: a key version can only be ACTIVE if
\* it is listed, and Activate counts on the ones it finds being of one issuer.
RegistryInv == RecordTypes /\ OneActivePerIssuer

\* Every operation of the registry changes the status of one key version, and
\* of the others only Activate does, from ACTIVE to RETIRED.
LEMMA RegistryInit == Init => RegistryInv
BY DEF Init, RegistryInv, RecordTypes, OneActivePerIssuer, ActiveKeys, HasStatus, Unlisted

\* A listed record is one of Records.
LEMMA ListedRecord ==
  ASSUME RecordTypes, NEW k \in KeyVersions, records[k].status \in Statuses
  PROVE  records[k] \in Records
BY DEF RecordTypes, Unlisted, Statuses, EndedStates

\* What activate() leaves: k ACTIVE, the issuer's other active keys RETIRED.
LEMMA ActivateEffect ==
  ASSUME RegistryInv, NEW k \in KeyVersions, Activate(k)
  PROVE  /\ RecordTypes'
         /\ records'[k].status = "ACTIVE"
         /\ \A c \in KeyVersions \ {k} :
              IF c.issuer = k.issuer /\ records[c].status = "ACTIVE"
                THEN records'[c].status = "RETIRED"
                ELSE records'[c] = records[c]
         /\ \A c \in KeyVersions : Listed(c) => Listed(c)' /\ records'[c].material = records[c].material
<1>1. records[k] \in Records
  BY ListedRecord DEF Activate, HasStatus, Statuses, RegistryInv
<1>2. \A c \in ActiveKeys(k.issuer) : records[c] \in Records
  BY ListedRecord DEF ActiveKeys, HasStatus, Statuses, RegistryInv
<1>3. \A c \in KeyVersions :
        records'[c] = IF c = k THEN [records[c] EXCEPT !.status = "ACTIVE", !.activated = TRUE]
                      ELSE IF c \in ActiveKeys(k.issuer) THEN [records[c] EXCEPT !.status = "RETIRED"]
                      ELSE records[c]
  BY DEF Activate
<1>4. /\ records'[k] \in Records
      /\ records'[k].status = "ACTIVE"
      /\ records'[k].material = records[k].material
  BY <1>1, <1>3 DEF Records, Statuses
<1>5. \A c \in ActiveKeys(k.issuer) \ {k} :
        /\ records'[c] \in Records
        /\ records'[c].status = "RETIRED"
        /\ records'[c].material = records[c].material
  BY <1>2, <1>3 DEF Records, Statuses, EndedStates, ActiveKeys
<1>6. \A c \in KeyVersions \ ({k} \union ActiveKeys(k.issuer)) : records'[c] = records[c]
  BY <1>3
<1>7. RecordTypes'
  <2>1. \A c \in KeyVersions : records'[c] \in Records \union {Unlisted}
    BY <1>4, <1>5, <1>6 DEF RegistryInv, RecordTypes
  <2>2. records' = [c \in KeyVersions |-> records'[c]]
    BY DEF Activate
  <2> QED BY <2>1, <2>2 DEF RecordTypes
<1>8. \A r \in Records : r # Unlisted
  BY DEF Records, Unlisted, Statuses, EndedStates
<1> QED
  BY <1>4, <1>5, <1>6, <1>7, <1>8 DEF ActiveKeys, HasStatus, Listed

\* What SetStatus leaves, for a status other than ACTIVE.
LEMMA SetStatusEffect ==
  ASSUME RecordTypes, NEW k \in KeyVersions, NEW s \in Statuses, SetStatus(k, s)
  PROVE  /\ RecordTypes'
         /\ records'[k].status = s
         /\ \A c \in KeyVersions \ {k} : records'[c] = records[c]
         /\ Listed(k) /\ Listed(k)'
         /\ records'[k].material = records[k].material
<1>1. records[k] \in Records
  BY DEF SetStatus, Listed, RecordTypes
<1>2. records' = [records EXCEPT ![k] = [records[k] EXCEPT !.status = s]]
  BY DEF SetStatus
<1>3. /\ [records[k] EXCEPT !.status = s] \in Records
      /\ [records[k] EXCEPT !.status = s].status = s
      /\ [records[k] EXCEPT !.status = s].material = records[k].material
  BY <1>1 DEF Records
<1>4. \A r \in Records : r # Unlisted
  BY DEF Records, Unlisted, Statuses, EndedStates
<1> QED
  BY <1>1, <1>2, <1>3, <1>4 DEF RecordTypes, Listed

\* What Authorize leaves.
LEMMA AuthorizeEffect ==
  ASSUME RecordTypes, NEW k \in KeyVersions, NEW m \in Materials, Authorize(k, m)
  PROVE  /\ RecordTypes'
         /\ ~Listed(k)
         /\ records'[k].status = "AUTHORIZED"
         /\ \A c \in KeyVersions \ {k} : records'[c] = records[c]
<1>1. NewRecord(m) \in Records /\ NewRecord(m).status = "AUTHORIZED"
  BY DEF NewRecord, Records, Statuses
<1> QED
  BY <1>1 DEF Authorize, RecordTypes, Listed

\* The invariant is inductive.
LEMMA RegistryStep == RegistryInv /\ [Next]_vars => RegistryInv'
<1> SUFFICES ASSUME RegistryInv, [Next]_vars
             PROVE  RegistryInv'
  OBVIOUS
<1> USE DEF OneActivePerIssuer, ActiveKeys, HasStatus
<1>1. ASSUME UNCHANGED vars PROVE RegistryInv'
  BY <1>1 DEF vars, RegistryInv, RecordTypes
<1>2. ASSUME NEW k \in KeyVersions, NEW m \in Materials, Authorize(k, m) PROVE RegistryInv'
  BY <1>2, AuthorizeEffect DEF RegistryInv
<1>3. ASSUME NEW k \in KeyVersions, Activate(k) PROVE RegistryInv'
  <2>1. PICK i \in Issuers : i = k.issuer
    BY KeyVersionsAssumption
  <2>2. \A c \in KeyVersions : c.issuer = i /\ records'[c].status = "ACTIVE" => c = k
    BY <1>3, <2>1, ActivateEffect
  <2>3. \A c \in KeyVersions : c.issuer # i => records'[c] = records[c]
    BY <1>3, <2>1, ActivateEffect
  <2> QED
    BY <1>3, <2>2, <2>3, ActivateEffect DEF RegistryInv
<1>4. ASSUME NEW k \in KeyVersions, NEW s \in EndedStates, SetStatus(k, s) PROVE RegistryInv'
  <2>1. s \in Statuses /\ s # "ACTIVE"
    BY DEF Statuses, EndedStates
  <2> QED
    BY <1>4, <2>1, SetStatusEffect DEF RegistryInv
<1> QED
  BY <1>1, <1>2, <1>3, <1>4 DEF Next, Operate, Retire, Revoke, Compromise, EndedStates

\* Whatever operators call, in whatever order, at most one key version of an
\* issuer is ACTIVE: getActive() has one answer.
THEOREM OneSigningKey == Spec => []OneActivePerIssuer
<1>1. RegistryInv => OneActivePerIssuer
  BY DEF RegistryInv
<1> QED
  BY <1>1, RegistryInit, RegistryStep, PTL DEF Spec

LEMMA RegistryInvariant == Spec => []RegistryInv
BY RegistryInit, RegistryStep, PTL DEF Spec

\* An identity, once listed, stays listed with the same public material.
THEOREM IdentitiesAreImmutable == Spec => IdentityIsImmutable
<1>1. RegistryInv /\ [Next]_vars
        => [\A k \in KeyVersions : Listed(k) => Listed(k)' /\ records[k].material = records'[k].material]_vars
  <2> SUFFICES ASSUME RegistryInv, Next, NEW c \in KeyVersions, Listed(c)
               PROVE  Listed(c)' /\ records[c].material = records'[c].material
    OBVIOUS
  <2>1. ASSUME NEW k \in KeyVersions, NEW m \in Materials, Authorize(k, m)
        PROVE  Listed(c)' /\ records[c].material = records'[c].material
    BY <2>1, AuthorizeEffect DEF RegistryInv, Listed
  <2>2. ASSUME NEW k \in KeyVersions, Activate(k)
        PROVE  Listed(c)' /\ records[c].material = records'[c].material
    BY <2>2, ActivateEffect
  <2>3. ASSUME NEW k \in KeyVersions, NEW s \in EndedStates, SetStatus(k, s)
        PROVE  Listed(c)' /\ records[c].material = records'[c].material
    BY <2>3, SetStatusEffect DEF RegistryInv, Listed, Statuses
  <2> QED
    BY <2>1, <2>2, <2>3 DEF Next, Operate, Retire, Revoke, Compromise, EndedStates
<1> QED
  BY <1>1, RegistryInvariant, PTL DEF Spec, IdentityIsImmutable

\* A REVOKED or COMPROMISED key stays one of the two.
THEOREM WithdrawalIsFinal == Spec => WithdrawnStaysWithdrawn
<1> DEFINE Withdrawn == {"REVOKED", "COMPROMISED"}
<1>1. RegistryInv /\ [Next]_vars
        => [\A k \in KeyVersions : records[k].status \in {"REVOKED", "COMPROMISED"}
              => records'[k].status \in {"REVOKED", "COMPROMISED"}]_vars
  <2> SUFFICES ASSUME RegistryInv, Next, NEW c \in KeyVersions, records[c].status \in Withdrawn
               PROVE  records'[c].status \in Withdrawn
    OBVIOUS
  <2>1. ASSUME NEW k \in KeyVersions, NEW m \in Materials, Authorize(k, m)
        PROVE  records'[c].status \in Withdrawn
    BY <2>1, AuthorizeEffect DEF RegistryInv, Listed, Unlisted
  <2>2. ASSUME NEW k \in KeyVersions, Activate(k)
        PROVE  records'[c].status \in Withdrawn
    <3>1. c # k /\ records[c].status # "ACTIVE"
      BY <2>2 DEF Activate, HasStatus
    <3> QED BY <2>2, <3>1, ActivateEffect
  <2>3. ASSUME NEW k \in KeyVersions, Retire(k)
        PROVE  records'[c].status \in Withdrawn
    <3>1. c # k
      BY <2>3 DEF Retire
    <3> QED BY <2>3, <3>1, SetStatusEffect DEF Retire, RegistryInv, Statuses, EndedStates
  <2>4. ASSUME NEW k \in KeyVersions, NEW s \in Withdrawn, SetStatus(k, s)
        PROVE  records'[c].status \in Withdrawn
    BY <2>4, SetStatusEffect DEF RegistryInv, Statuses, EndedStates
  <2> QED
    BY <2>1, <2>2, <2>3, <2>4 DEF Next, Operate, Revoke, Compromise
<1> QED
  BY <1>1, RegistryInvariant, PTL DEF Spec, WithdrawnStaysWithdrawn

\* The values the refinement maps signing and spent to.
Signing == [i \in Issuers |-> ActiveKeys(i)]
Spent == {k \in KeyVersions : records[k].status \in EndedStates}

\* Every step of the registry is a step of the succession, or none.
LEMMA SuccessionStep ==
  ASSUME RegistryInv, [Next]_vars
  PROVE  [Succession!Next]_(Succession!vars)
<1> USE DEF ActiveKeys, HasStatus
<1> SUFFICES \/ \E i \in Issuers, k \in KeyVersions :
                  /\ k \notin Spent \union Signing[i]
                  /\ Signing' = [Signing EXCEPT ![i] = {k}]
                  /\ Spent' = Spent \union Signing[i]
             \/ \E i \in Issuers :
                  /\ Signing[i] # {}
                  /\ Signing' = [Signing EXCEPT ![i] = {}]
                  /\ Spent' = Spent \union Signing[i]
             \/ \E k \in KeyVersions :
                  /\ \A i \in Issuers : k \notin Signing[i]
                  /\ Spent' = Spent \union {k}
                  /\ Signing' = Signing
             \/ Signing' = Signing /\ Spent' = Spent
  BY DEF Succession!Next, Succession!vars, Succession!Appoint, Succession!Dismiss,
         Succession!Withdraw, Signing, Spent
<1>1. ASSUME UNCHANGED vars PROVE Signing' = Signing /\ Spent' = Spent
  BY <1>1 DEF vars, Signing, Spent
<1>2. ASSUME NEW k \in KeyVersions, NEW m \in Materials, Authorize(k, m)
      PROVE  Signing' = Signing /\ Spent' = Spent
  <2>1. records[k].status \notin EndedStates \union {"ACTIVE"}
    BY <1>2, AuthorizeEffect DEF RegistryInv, Listed, Unlisted, EndedStates
  <2>2. records'[k].status \notin EndedStates \union {"ACTIVE"}
    BY <1>2, AuthorizeEffect DEF RegistryInv, EndedStates
  <2>3. \A c \in KeyVersions \ {k} : records'[c] = records[c]
    BY <1>2, AuthorizeEffect DEF RegistryInv
  <2> QED BY <2>1, <2>2, <2>3 DEF Signing, Spent
<1>3. ASSUME NEW k \in KeyVersions, Activate(k)
      PROVE  \E i \in Issuers, c \in KeyVersions :
               /\ c \notin Spent \union Signing[i]
               /\ Signing' = [Signing EXCEPT ![i] = {c}]
               /\ Spent' = Spent \union Signing[i]
  <2>1. PICK i \in Issuers : i = k.issuer
    BY KeyVersionsAssumption
  <2>2. records[k].status = "AUTHORIZED"
    BY <1>3 DEF Activate
  <2>3. k \notin Spent \union Signing[i]
    BY <2>2 DEF Spent, Signing, EndedStates
  <2>4. Signing' = [Signing EXCEPT ![i] = {k}]
    <3>1. ActiveKeys(i)' = {k}
      BY <1>3, <2>1, ActivateEffect
    <3>2. \A j \in Issuers \ {i} : ActiveKeys(j)' = ActiveKeys(j)
      BY <1>3, <2>1, ActivateEffect
    <3> QED BY <3>1, <3>2 DEF Signing
  <2>5. Spent' = Spent \union Signing[i]
    BY <1>3, <2>1, <2>2, ActivateEffect DEF Spent, Signing, EndedStates
  <2> QED BY <2>3, <2>4, <2>5
<1>4. ASSUME NEW k \in KeyVersions, NEW s \in EndedStates, SetStatus(k, s)
      PROVE  \/ \E i \in Issuers :
                  /\ Signing[i] # {}
                  /\ Signing' = [Signing EXCEPT ![i] = {}]
                  /\ Spent' = Spent \union Signing[i]
             \/ /\ \A i \in Issuers : k \notin Signing[i]
                /\ Spent' = Spent \union {k}
                /\ Signing' = Signing
  <2> PICK i \in Issuers : i = k.issuer
    BY KeyVersionsAssumption
  <2>1. /\ records'[k].status = s
        /\ \A c \in KeyVersions \ {k} : records'[c] = records[c]
    BY <1>4, SetStatusEffect DEF RegistryInv, Statuses
  <2>2. s # "ACTIVE"
    BY DEF EndedStates
  <2>3. Spent' = Spent \union {k}
    BY <2>1 DEF Spent
  <2>4. CASE records[k].status = "ACTIVE"
    <3>1. /\ k \in ActiveKeys(i)
          /\ \A c \in ActiveKeys(i) : c = k
          /\ Signing[i] = ActiveKeys(i)
      BY <2>4 DEF RegistryInv, OneActivePerIssuer, Signing
    <3>5. Signing[i] = {k}
      BY <3>1
    <3>2. ActiveKeys(i)' = {}
      BY <2>1, <2>2, <3>1
    <3>3. \A j \in Issuers \ {i} : ActiveKeys(j)' = ActiveKeys(j)
      BY <2>1
    <3>4. Signing' = [Signing EXCEPT ![i] = {}]
      <4>1. DOMAIN Signing' = Issuers /\ Signing'[i] = {}
        BY <3>2 DEF Signing
      <4>2. \A j \in Issuers \ {i} : Signing'[j] = Signing[j]
        BY <3>3 DEF Signing
      <4>3. Signing' = [j \in Issuers |-> Signing'[j]] /\ Signing = [j \in Issuers |-> Signing[j]]
        BY DEF Signing
      <4> HIDE DEF Signing
      <4> QED BY <4>1, <4>2, <4>3
    <3> QED BY <2>3, <3>4, <3>5
  <2>5. CASE records[k].status # "ACTIVE"
    <3>1. \A j \in Issuers : ActiveKeys(j)' = ActiveKeys(j)
      BY <2>1, <2>2, <2>5
    <3> QED BY <2>3, <2>5, <3>1 DEF Signing
  <2> QED BY <2>4, <2>5
<1> QED
  BY <1>1, <1>2, <1>3, <1>4 DEF Next, Operate, Retire, Revoke, Compromise, EndedStates

\* The registry implements the succession of signing keys: one at a time, none
\* twice, and handing over is one step.
THEOREM RegistryKeepsSuccession == Spec => KeepsSuccession
<1>1. Init => Succession!Init
  BY DEF Init, Succession!Init, ActiveKeys, HasStatus, Unlisted, EndedStates
<1>2. RegistryInv /\ [Next]_vars => [Succession!Next]_(Succession!vars)
  BY SuccessionStep
<1> QED
  BY <1>1, <1>2, RegistryInvariant, PTL DEF Spec, KeepsSuccession, Succession!Spec

\* The records have their types, and the insertion order lists exactly the
\* listed key versions, each once.
THEOREM RegistryTypes == Spec => []TypeOK
<1> DEFINE OrderOK == /\ order \in Seq(KeyVersions)
                      /\ \A k \in KeyVersions : Listed(k) <=> \E n \in DOMAIN order : order[n] = k
                      /\ \A m, n \in DOMAIN order : order[m] = order[n] => m = n
<1>1. Init => OrderOK
  BY DEF Init, Listed
<1>2. RegistryInv /\ OrderOK /\ [Next]_vars => OrderOK'
  <2> SUFFICES ASSUME RegistryInv, OrderOK, [Next]_vars
               PROVE  OrderOK'
    OBVIOUS
  <2>1. ASSUME UNCHANGED vars PROVE OrderOK'
    BY <2>1 DEF vars, Listed
  <2>2. ASSUME NEW k \in KeyVersions, NEW m \in Materials, Authorize(k, m) PROVE OrderOK'
    <3>1. /\ order' = Append(order, k)
          /\ ~Listed(k) /\ Listed(k)'
          /\ \A c \in KeyVersions \ {k} : Listed(c)' <=> Listed(c)
      <4>1. /\ ~Listed(k)
            /\ records'[k].status = "AUTHORIZED"
            /\ \A c \in KeyVersions \ {k} : records'[c] = records[c]
        BY <2>2, AuthorizeEffect DEF RegistryInv
      <4>2. order' = Append(order, k)
        BY <2>2 DEF Authorize
      <4>3. Listed(k)'
        BY <4>1 DEF Listed, Unlisted
      <4> QED BY <4>1, <4>2, <4>3 DEF Listed
    <3>2. /\ order' \in Seq(KeyVersions)
          /\ DOMAIN order = 1 .. Len(order)
          /\ DOMAIN order' = 1 .. Len(order) + 1
          /\ order'[Len(order) + 1] = k
          /\ \A n \in DOMAIN order : order'[n] = order[n]
          /\ Len(order) \in Nat
      BY <3>1
    <3>3. \A n \in DOMAIN order : order[n] # k
      BY <3>1
    <3>4. \A c \in KeyVersions : Listed(c)' <=> \E n \in DOMAIN order' : order'[n] = c
      <4> TAKE c \in KeyVersions
      <4>1. CASE c = k
        BY <3>1, <3>2, <4>1
      <4>2. CASE c # k
        BY <3>1, <3>2, <4>2
      <4> QED BY <4>1, <4>2
    <3>5. \A m1, n \in DOMAIN order' : order'[m1] = order'[n] => m1 = n
      BY <3>2, <3>3
    <3> QED BY <3>2, <3>4, <3>5
  <2>3. ASSUME NEW k \in KeyVersions, Activate(k) PROVE OrderOK'
    <3>1. \A c \in KeyVersions : Listed(c)' <=> Listed(c)
      <4>1. records[k].status = "AUTHORIZED"
        BY <2>3 DEF Activate, HasStatus
      <4>2. \A c \in KeyVersions : ~Listed(c) => c # k /\ records[c].status # "ACTIVE"
        BY <4>1 DEF Listed, Unlisted
      <4> QED BY <2>3, <4>2, ActivateEffect DEF Listed
    <3>2. order' = order
      BY <2>3 DEF Activate
    <3> QED BY <3>1, <3>2
  <2>4. ASSUME NEW k \in KeyVersions, NEW s \in EndedStates, SetStatus(k, s) PROVE OrderOK'
    <3>1. \A c \in KeyVersions : Listed(c)' <=> Listed(c)
      BY <2>4, SetStatusEffect DEF RegistryInv, Listed, Statuses
    <3>2. order' = order
      BY <2>4 DEF SetStatus
    <3> QED BY <3>1, <3>2
  <2> QED
    BY <2>1, <2>2, <2>3, <2>4 DEF Next, Operate, Retire, Revoke, Compromise, EndedStates
<1>3. RegistryInv /\ OrderOK => TypeOK
  BY DEF TypeOK, RegistryInv, RecordTypes
<1> QED
  BY <1>1, <1>2, <1>3, RegistryInvariant, PTL DEF Spec

-----------------------------------------------------------------------------
(* Issuance *)

\* The phases a call reaches only through the check.
CheckedPhases == {"encoding", "heading", "posting", "signing", "sealed", "abandoned", "late"}

\* A call in a checked phase has a signer whose key was activated; the sidecar
\* signs with the key it names; a call whose key had ended when it began is not
\* in a checked phase, and its key has still ended.
CallOK(q) ==
  /\ request[q].signer \in Signers
  /\ request[q].phase \in CheckedPhases
       => /\ records[KeyOf[request[q].signer]].activated = TRUE
          /\ Listed(KeyOf[request[q].signer])
          /\ ~request[q].spent
  /\ request[q].phase \in {"signing", "abandoned"} => request[q].headerId = SignerKeyId(request[q].signer)
  /\ Signed(q) => request[q].key = KeyOf[request[q].signer]
  /\ request[q].spent => records[KeyOf[request[q].signer]].status \in EndedStates

\* A key is ACTIVE only after activate().
ActiveIsActivated ==
  \A k \in KeyVersions : records[k].status = "ACTIVE" => records[k].activated = TRUE

IssuanceInv ==
  /\ RegistryInv
  /\ ActiveIsActivated
  /\ request \in [Requests -> Calls \union {Uncalled}]
  /\ \A q \in Requests : request[q] # Uncalled => CallOK(q)

LEMMA IssuanceInitially == IssuanceInit => IssuanceInv
BY RegistryInit DEF IssuanceInit, IssuanceInv, Init, ActiveIsActivated, Unlisted

-----------------------------------------------------------------------------
(* The registry's steps *)

\* A key once activated stays so, one that has ended stays so, and one that is
\* ACTIVE has been activated.
LEMMA RegistryIsMonotone ==
  ASSUME RegistryInv, ActiveIsActivated, Next
  PROVE  /\ ActiveIsActivated'
         /\ \A c \in KeyVersions :
              /\ Listed(c) => Listed(c)'
              /\ Listed(c) /\ records[c].activated = TRUE => records'[c].activated = TRUE
              /\ records[c].status \in EndedStates => records'[c].status \in EndedStates
<1>1. ASSUME NEW k \in KeyVersions, NEW m \in Materials, Authorize(k, m)
      PROVE  /\ ActiveIsActivated'
             /\ \A c \in KeyVersions :
                  /\ Listed(c) => Listed(c)'
                  /\ Listed(c) /\ records[c].activated = TRUE => records'[c].activated = TRUE
                  /\ records[c].status \in EndedStates => records'[c].status \in EndedStates
  <2>1. /\ ~Listed(k)
        /\ records'[k].status = "AUTHORIZED"
        /\ \A c \in KeyVersions \ {k} : records'[c] = records[c]
    BY <1>1, AuthorizeEffect DEF RegistryInv
  <2>2. records[k].status \notin EndedStates
    BY <2>1 DEF Listed, Unlisted, EndedStates
  <2> QED BY <2>1, <2>2 DEF ActiveIsActivated, Listed
<1>2. ASSUME NEW k \in KeyVersions, Activate(k)
      PROVE  /\ ActiveIsActivated'
             /\ \A c \in KeyVersions :
                  /\ Listed(c) => Listed(c)'
                  /\ Listed(c) /\ records[c].activated = TRUE => records'[c].activated = TRUE
                  /\ records[c].status \in EndedStates => records'[c].status \in EndedStates
  <2>1. records[k].status = "AUTHORIZED"
    BY <1>2 DEF Activate, HasStatus
  <2>2. records[k] \in Records
    BY <2>1, ListedRecord DEF RegistryInv, Statuses
  <2>3. \A c \in ActiveKeys(k.issuer) : records[c] \in Records
    BY ListedRecord DEF ActiveKeys, HasStatus, Statuses, RegistryInv
  <2>4. records'[k].activated = TRUE
    BY <1>2, <2>2 DEF Activate, Records
  <2>5. \A c \in ActiveKeys(k.issuer) \ {k} :
          records'[c].status = "RETIRED" /\ records'[c].activated = records[c].activated
    BY <1>2, <2>3 DEF Activate, Records, ActiveKeys
  <2>6. \A c \in KeyVersions \ ({k} \union ActiveKeys(k.issuer)) : records'[c] = records[c]
    BY <1>2 DEF Activate
  <2>7. /\ records'[k].status = "ACTIVE"
        /\ \A c \in KeyVersions : Listed(c) => Listed(c)'
    BY <1>2, ActivateEffect
  <2>8. \A c \in KeyVersions : records[c].status \in EndedStates => c # k /\ c \notin ActiveKeys(k.issuer)
    BY <2>1 DEF EndedStates, ActiveKeys, HasStatus
  <2> QED BY <2>4, <2>5, <2>6, <2>7, <2>8 DEF ActiveIsActivated
<1>3. ASSUME NEW k \in KeyVersions, NEW s \in EndedStates, SetStatus(k, s)
      PROVE  /\ ActiveIsActivated'
             /\ \A c \in KeyVersions :
                  /\ Listed(c) => Listed(c)'
                  /\ Listed(c) /\ records[c].activated = TRUE => records'[c].activated = TRUE
                  /\ records[c].status \in EndedStates => records'[c].status \in EndedStates
  <2>1. /\ records'[k].status = s
        /\ Listed(k)'
        /\ \A c \in KeyVersions \ {k} : records'[c] = records[c]
    BY <1>3, SetStatusEffect DEF RegistryInv, Statuses
  <2>2. records[k] \in Records
    BY <1>3 DEF SetStatus, Listed, RegistryInv, RecordTypes
  <2>3. records'[k].activated = records[k].activated
    BY <1>3, <2>2 DEF SetStatus, RegistryInv, RecordTypes, Records
  <2>4. s # "ACTIVE"
    BY DEF EndedStates
  <2> QED BY <2>1, <2>3, <2>4 DEF ActiveIsActivated, Listed
<1> QED
  BY <1>1, <1>2, <1>3 DEF Next, Operate, Retire, Revoke, Compromise, EndedStates

\* An operator's call disturbs no call in flight.
LEMMA OperatorKeepsInv ==
  ASSUME IssuanceInv, OperatorStep
  PROVE  IssuanceInv'
<1>1. RegistryInv' /\ request' = request
  BY RegistryStep DEF IssuanceInv, OperatorStep
<1>2. /\ ActiveIsActivated'
      /\ \A c \in KeyVersions :
           /\ Listed(c) => Listed(c)'
           /\ Listed(c) /\ records[c].activated = TRUE => records'[c].activated = TRUE
           /\ records[c].status \in EndedStates => records'[c].status \in EndedStates
  BY RegistryIsMonotone DEF IssuanceInv, OperatorStep
<1>3. ASSUME NEW q \in Requests, request[q] # Uncalled PROVE CallOK(q)'
  <2>1. CallOK(q) /\ KeyOf[request[q].signer] \in KeyVersions
    BY <1>3, KeyOfAssumption DEF IssuanceInv, CallOK
  <2> QED BY <1>1, <1>2, <2>1 DEF CallOK, SignerKeyId, Signed
<1> QED
  BY <1>1, <1>2, <1>3 DEF IssuanceInv

-----------------------------------------------------------------------------
(* The steps of a call *)

\* A step that leaves the registry alone keeps the invariant if the one call it
\* changes is all right afterwards.
LEMMA CallKeepsInv ==
  ASSUME IssuanceInv, UNCHANGED <<records, order>>, NEW q \in Requests, NEW c \in Calls,
         request' = [request EXCEPT ![q] = c],
         CallOK(q)'
  PROVE  IssuanceInv'
<1>1. RegistryInv' /\ ActiveIsActivated'
  BY DEF IssuanceInv, RegistryInv, RecordTypes, OneActivePerIssuer, ActiveKeys, HasStatus, ActiveIsActivated
<1>2. request' \in [Requests -> Calls \union {Uncalled}]
  BY DEF IssuanceInv
<1>3. ASSUME NEW p \in Requests, request'[p] # Uncalled PROVE CallOK(p)'
  <2>1. CASE p = q
    BY <2>1
  <2>2. CASE p # q
    BY <1>3, <2>2 DEF IssuanceInv, CallOK, Listed, SignerKeyId, Signed
  <2> QED BY <2>1, <2>2
<1> QED
  BY <1>1, <1>2, <1>3 DEF IssuanceInv

\* A call that has begun is a record of Calls.
LEMMA StartedCall ==
  ASSUME IssuanceInv, NEW q \in Requests, request[q].phase # "uncalled"
  PROVE  request[q] \in Calls /\ CallOK(q)
BY DEF IssuanceInv, Uncalled

\* A key version that matches a versioned id is the one it was made from.
LEMMA VersionedIdsAreExact ==
  ASSUME NEW k \in KeyVersions, NEW l \in KeyVersions, SameKeyId(k, KeyId(l, TRUE))
  PROVE  k = l
BY IdentityAssumption, UnversionedAssumption DEF SameKeyId, KeyId

\* The check lets a call pass only when its signer's key is ACTIVE.
LEMMA CheckPasses ==
  ASSUME BareSigners = {}, NEW s \in Signers, SigningKeyIsActive(SignerKeyId(s))
  PROVE  records[KeyOf[s]].status = "ACTIVE"
<1>1. SignerKeyId(s) = KeyId(KeyOf[s], TRUE) /\ KeyOf[s] \in KeyVersions
  BY KeyOfAssumption DEF SignerKeyId
<1>2. PICK k \in KeyVersions : records[k].status = "ACTIVE" /\ SameKeyId(k, KeyId(KeyOf[s], TRUE))
  BY <1>1 DEF SigningKeyIsActive, ActiveKeys, HasStatus
<1> QED
  BY <1>1, <1>2, VersionedIdsAreExact

LEMMA SignerKeyIdType == ASSUME NEW s \in Signers PROVE SignerKeyId(s) \in KeyIds
<1>1. KeyOf[s] \in KeyVersions
  BY KeyOfAssumption
<1>2. PICK b \in BOOLEAN : b = (s \notin BareSigners)
  BY Zenon
<1>3. SignerKeyId(s) = KeyId(KeyOf[s], b)
  BY <1>2, Zenon DEF SignerKeyId
<1> QED
  BY <1>1, <1>3 DEF KeyIds

\* Whom the sidecar signs for has the key that the sidecar signs with.
LEMMA SidecarIsTheSigners ==
  ASSUME BareSigners = {}, NEW q \in Requests, CallOK(q), request[q].phase \in {"signing", "abandoned"},
         SidecarAccepts(q)
  PROVE  SidecarKey = KeyOf[request[q].signer]
<1>1. request[q].headerId = KeyId(KeyOf[request[q].signer], TRUE)
  BY DEF CallOK, SignerKeyId
<1>2. KeyOf[request[q].signer] \in KeyVersions
  BY KeyOfAssumption DEF CallOK
<1> QED
  BY <1>1, <1>2, SidecarAssumption, IdentityAssumption, UnversionedAssumption DEF SidecarAccepts, KeyId

LEMMA CallStepKeepsInv ==
  ASSUME BareSigners = {}, IssuanceInv, NEW q \in Requests, CallStep(q)
  PROVE  IssuanceInv'
<1> USE DEF UntouchedByIssuance
<1>1. ASSUME NEW s \in Signers, NEW kind \in Kinds, NEW d \in Descriptors, Begin(q, s, kind, d)
      PROVE  IssuanceInv'
  <2> DEFINE c == [phase |-> "checking", kind |-> kind, descriptor |-> d, signer |-> s,
                   payloadId |-> NoKey, headerId |-> NoKey, key |-> NoKey,
                   spent |-> records[KeyOf[s]].status \in EndedStates]
  <2>1. c \in Calls
    BY KindsAssumption DEF Calls, InFlightPhases, AwaitingKeyInfo
  <2>2. request' = [request EXCEPT ![q] = c] /\ UNCHANGED <<records, order>>
    BY <1>1 DEF Begin
  <2>3. request'[q] = c
    BY <2>2 DEF IssuanceInv
  <2>4. CallOK(q)'
    <3>1. c.phase = "checking" /\ c.signer = s
      OBVIOUS
    <3>2. c.spent => records[KeyOf[c.signer]].status \in EndedStates
      OBVIOUS
    <3> HIDE DEF c
    <3> QED BY <2>2, <2>3, <3>1, <3>2 DEF CallOK, CheckedPhases, Signed
  <2> HIDE DEF c
  <2> QED BY <2>1, <2>2, <2>4, CallKeepsInv
<1>2. ASSUME Check(q) PROVE IssuanceInv'
  <2>1. request[q].phase = "checking" /\ UNCHANGED <<records, order>>
    BY <1>2 DEF Check, KeyInfoArrives
  <2>2. request[q] \in Calls /\ CallOK(q)
    BY <2>1, StartedCall
  <2> DEFINE p == IF ~SigningKeyIsActive(SignerKeyId(request[q].signer)) THEN "refused"
                  ELSE IF request[q].kind = "paper" THEN "encoding" ELSE "posting"
             c == [request[q] EXCEPT !.phase = p]
  <2>3. c \in Calls /\ c.phase = p /\ c.signer = request[q].signer /\ c.spent = request[q].spent
    BY <2>2 DEF Calls, InFlightPhases, AwaitingKeyInfo
  <2>4. request' = [request EXCEPT ![q] = c] /\ request'[q] = c
    BY <1>2 DEF Check, IssuanceInv
  <2>5. c.phase \in CheckedPhases => records[KeyOf[c.signer]].status = "ACTIVE"
    BY <2>2, <2>3, CheckPasses DEF CheckedPhases, CallOK
  <2>6. c.phase \in CheckedPhases =>
          /\ records[KeyOf[c.signer]].activated = TRUE
          /\ Listed(KeyOf[c.signer])
          /\ ~c.spent
    BY <2>2, <2>3, <2>5, KeyOfAssumption
       DEF IssuanceInv, ActiveIsActivated, CallOK, Listed, Unlisted, EndedStates
  <2>7. CallOK(q)'
    BY <2>1, <2>2, <2>3, <2>4, <2>6 DEF CallOK, Listed, Signed
  <2> HIDE DEF c
  <2> QED BY <2>1, <2>3, <2>4, <2>7, CallKeepsInv
<1>3. ASSUME Encode(q) PROVE IssuanceInv'
  <2>1. request[q].phase = "encoding" /\ UNCHANGED <<records, order>>
    BY <1>3 DEF Encode, KeyInfoArrives
  <2>2. request[q] \in Calls /\ CallOK(q)
    BY <2>1, StartedCall
  <2> DEFINE c == IF request[q].descriptor = "sealable"
                    THEN [request[q] EXCEPT !.phase = "heading", !.payloadId = SignerKeyId(request[q].signer)]
                    ELSE [request[q] EXCEPT !.phase = "refused"]
  <2>3. /\ c \in Calls /\ c.phase \in {"heading", "refused"}
        /\ c.signer = request[q].signer /\ c.spent = request[q].spent
    BY <2>2, SignerKeyIdType DEF Calls, InFlightPhases, AwaitingKeyInfo, CallOK
  <2>4. request' = [request EXCEPT ![q] = c] /\ request'[q] = c
    BY <1>3 DEF Encode, IssuanceInv
  <2>5. CallOK(q)'
    <3> HIDE DEF c
    <3> QED BY <2>1, <2>2, <2>3, <2>4 DEF CallOK, Listed, CheckedPhases, Signed
  <2> HIDE DEF c
  <2> QED BY <2>1, <2>3, <2>4, <2>5, CallKeepsInv
<1>4. ASSUME PutHeader(q) \/ Post(q) PROVE IssuanceInv'
  <2>1. request[q].phase \in {"heading", "posting"} /\ UNCHANGED <<records, order>>
    BY <1>4 DEF PutHeader, Post, KeyInfoArrives
  <2>2. request[q] \in Calls /\ CallOK(q)
    BY <2>1, StartedCall
  <2> DEFINE c == [request[q] EXCEPT !.phase = "signing", !.headerId = SignerKeyId(request[q].signer)]
  <2>3. /\ c \in Calls /\ c.phase = "signing" /\ c.headerId = SignerKeyId(c.signer)
        /\ c.signer = request[q].signer /\ c.spent = request[q].spent
    BY <2>2, SignerKeyIdType DEF Calls, InFlightPhases, AwaitingKeyInfo, CallOK
  <2>4. request' = [request EXCEPT ![q] = c] /\ request'[q] = c
    BY <1>4 DEF PutHeader, Post, IssuanceInv
  <2>5. CallOK(q)'
    <3> HIDE DEF c
    <3> QED BY <2>1, <2>2, <2>3, <2>4 DEF CallOK, Listed, CheckedPhases, SignerKeyId, Signed
  <2> HIDE DEF c
  <2> QED BY <2>1, <2>3, <2>4, <2>5, CallKeepsInv
<1>5. ASSUME Sign(q) PROVE IssuanceInv'
  <2>1. request[q].phase = "signing" /\ UNCHANGED <<records, order>>
    BY <1>5 DEF Sign
  <2>2. request[q] \in Calls /\ CallOK(q)
    BY <2>1, StartedCall
  <2> DEFINE c == [request[q] EXCEPT !.phase = "sealed", !.key = KeyOf[request[q].signer]]
  <2>3. /\ c \in Calls /\ c.phase = "sealed" /\ c.key = KeyOf[c.signer]
        /\ c.signer = request[q].signer /\ c.spent = request[q].spent
    BY <2>2, KeyOfAssumption DEF Calls, CallOK
  <2>4. request' = [request EXCEPT ![q] = c] /\ request'[q] = c
    BY <1>5 DEF Sign, IssuanceInv
  <2>5. CallOK(q)'
    <3> HIDE DEF c
    <3> QED BY <2>1, <2>2, <2>3, <2>4 DEF CallOK, Listed, CheckedPhases, Signed
  <2> HIDE DEF c
  <2> QED BY <2>1, <2>3, <2>4, <2>5, CallKeepsInv
<1>6. ASSUME SidecarSigns(q) PROVE IssuanceInv'
  <2>1. request[q].phase = "signing" /\ UNCHANGED <<records, order>>
    BY <1>6 DEF SidecarSigns
  <2>2. request[q] \in Calls /\ CallOK(q)
    BY <2>1, StartedCall
  <2> DEFINE c == IF SidecarAccepts(q)
                    THEN [request[q] EXCEPT !.phase = "sealed", !.key = SidecarKey]
                    ELSE [request[q] EXCEPT !.phase = "failed"]
  <2>3. SidecarAccepts(q) => SidecarKey = KeyOf[request[q].signer]
    BY <2>1, <2>2, SidecarIsTheSigners
  <2>4. /\ c \in Calls /\ c.phase \in {"sealed", "failed"}
        /\ c.phase = "sealed" => c.key = KeyOf[c.signer]
        /\ c.signer = request[q].signer /\ c.spent = request[q].spent
    BY <2>2, <2>3, SidecarAssumption DEF Calls
  <2>5. request' = [request EXCEPT ![q] = c] /\ request'[q] = c
    BY <1>6 DEF SidecarSigns, IssuanceInv
  <2>6. CallOK(q)'
    <3> HIDE DEF c
    <3> QED BY <2>1, <2>2, <2>4, <2>5 DEF CallOK, Listed, CheckedPhases, Signed
  <2> HIDE DEF c
  <2> QED BY <2>1, <2>4, <2>5, <2>6, CallKeepsInv
<1>7. ASSUME ProviderFails(q) PROVE IssuanceInv'
  <2>1. request[q].phase \in InFlightPhases /\ UNCHANGED <<records, order>>
    BY <1>7 DEF ProviderFails, InFlightPhases
  <2>2. request[q] \in Calls /\ CallOK(q)
    BY <2>1, StartedCall DEF InFlightPhases, AwaitingKeyInfo
  <2> DEFINE p == IF request[q].phase = "signing" THEN "abandoned" ELSE "failed"
             c == [request[q] EXCEPT !.phase = p]
  <2>3. /\ c \in Calls /\ c.phase = p /\ c.headerId = request[q].headerId
        /\ c.signer = request[q].signer /\ c.spent = request[q].spent
    BY <2>2 DEF Calls
  <2>4. request' = [request EXCEPT ![q] = c] /\ request'[q] = c
    BY <1>7 DEF ProviderFails, IssuanceInv
  <2>5. CallOK(q)'
    <3> HIDE DEF c
    <3> QED BY <2>1, <2>2, <2>3, <2>4 DEF CallOK, Listed, CheckedPhases, Signed
  <2> HIDE DEF c
  <2> QED BY <2>1, <2>3, <2>4, <2>5, CallKeepsInv
<1>8. ASSUME SignsLate(q) PROVE IssuanceInv'
  <2>1. request[q].phase = "abandoned" /\ UNCHANGED <<records, order>>
    BY <1>8 DEF SignsLate
  <2>2. request[q] \in Calls /\ CallOK(q)
    BY <2>1, StartedCall
  <2>3. SidecarAccepts(q) => SidecarKey = KeyOf[request[q].signer]
    BY <2>1, <2>2, SidecarIsTheSigners
  <2> DEFINE c == [request[q] EXCEPT !.phase = "late", !.key = KeyOf[request[q].signer]]
  <2>4. /\ c \in Calls /\ c.phase = "late" /\ c.key = KeyOf[c.signer]
        /\ c.signer = request[q].signer /\ c.spent = request[q].spent
    BY <2>2, KeyOfAssumption DEF Calls, CallOK
  <2>5. request' = [request EXCEPT ![q] = c] /\ request'[q] = c
    BY <1>8, <2>3 DEF SignsLate, IssuanceInv
  <2>6. CallOK(q)'
    <3> HIDE DEF c
    <3> QED BY <2>1, <2>2, <2>4, <2>5 DEF CallOK, Listed, CheckedPhases, Signed
  <2> HIDE DEF c
  <2> QED BY <2>1, <2>4, <2>5, <2>6, CallKeepsInv
<1> QED
  BY <1>1, <1>2, <1>3, <1>4, <1>5, <1>6, <1>7, <1>8 DEF CallStep

-----------------------------------------------------------------------------
(* The theorems *)

LEMMA IssuanceKeepsInv ==
  ASSUME BareSigners = {}
  PROVE  IssuanceInv /\ [IssuanceNext]_issuanceVars => IssuanceInv'
<1>1. ASSUME IssuanceInv, UNCHANGED <<records, order, request>> PROVE IssuanceInv'
  BY <1>1 DEF IssuanceInv, RegistryInv, RecordTypes, OneActivePerIssuer, ActiveKeys, HasStatus,
              ActiveIsActivated, CallOK, Listed, SignerKeyId, Signed
<1>2. ASSUME NEW v \in Reports, NEW q \in Requests, ReportStep(v, q)
      PROVE  UNCHANGED <<records, order, request>>
  BY <1>2 DEF ReportStep, ReportPaper, ReportPdf, UntouchedByIssuance
<1>3. ASSUME NEW s \in Signers, HealthCheck(s)
      PROVE  UNCHANGED <<records, order, request>>
  BY <1>3 DEF HealthCheck, UntouchedByIssuance
<1> QED
  BY <1>1, <1>2, <1>3, OperatorKeepsInv, CallStepKeepsInv DEF IssuanceNext, issuanceVars

\* A key that was only ever AUTHORIZED, or revoked before it was activated, has
\* signed nothing, whatever operators do between the check and the signature.
THEOREM OnlyOnceActiveKeysSign ==
  ASSUME BareSigners = {}
  PROVE  IssuanceSpec => []SignedByOnceActive
<1>1. IssuanceInv => SignedByOnceActive
  <2> SUFFICES ASSUME IssuanceInv, NEW q \in Requests, Signed(q)
               PROVE  records[request[q].key].status # "UNLISTED" /\ records[request[q].key].activated
    BY DEF SignedByOnceActive
  <2>1. request[q].phase \in {"sealed", "late"} /\ CallOK(q)
    BY StartedCall DEF Signed
  <2>2. /\ request[q].key \in KeyVersions
        /\ Listed(request[q].key)
        /\ records[request[q].key].activated = TRUE
    BY <2>1, KeyOfAssumption DEF CallOK, CheckedPhases, Signed
  <2> QED BY <2>2 DEF IssuanceInv, RegistryInv, RecordTypes, Listed, Records, Statuses, EndedStates
<1> QED
  BY <1>1, IssuanceInitially, IssuanceKeepsInv, PTL DEF IssuanceSpec

\* Retiring, revoking or compromising a key stops every call that begins
\* afterwards.
THEOREM EndedKeysStaySilent ==
  ASSUME BareSigners = {}
  PROVE  IssuanceSpec => []EndedKeysDoNotSign
<1>1. IssuanceInv => EndedKeysDoNotSign
  BY StartedCall DEF EndedKeysDoNotSign, Signed, CallOK, CheckedPhases
<1> QED
  BY <1>1, IssuanceInitially, IssuanceKeepsInv, PTL DEF IssuanceSpec
-----------------------------------------------------------------------------
(* What a verification reports of the key *)

\* The key ids in a seal are the signer's: the payload's from encoding on, the
\* header's from signing on.  Each kind of call takes its own phases.
SealOK(c) ==
  /\ c.phase \in {"encoding", "heading"} => c.kind = "paper"
  /\ c.phase = "posting" => c.kind = "pdf"
  /\ c.kind = "paper" /\ c.phase \in {"heading", "signing", "sealed"}
       => c.payloadId = SignerKeyId(c.signer)
  /\ c.phase = "sealed" => c.headerId = SignerKeyId(c.signer)

SealInv == \A q \in Requests : request[q] # Uncalled => SealOK(request[q])

ReportTypes == [of : Requests, state : States, actual : States]

\* A report is about a seal, and a paper report names the state of its key.
ReportInv ==
  /\ report \in [Reports -> ReportTypes \union {Unread}]
  /\ \A v \in Reports : report[v] # Unread =>
       /\ Sealed(report[v].of)
       /\ request[report[v].of].kind = "paper" => report[v].state = report[v].actual

\* No call of the SDK is a call of the registry, so the registry behaves in the
\* composed system as it does alone.
LEMMA RegistryInside == IssuanceSpec => Spec
<1>1. IssuanceInit => Init
  BY DEF IssuanceInit
<1>2. [IssuanceNext]_issuanceVars => [Next]_vars
  BY DEF IssuanceNext, issuanceVars, vars, OperatorStep, HealthCheck, CallStep, Begin, Check,
         Encode, PutHeader, Sign, Post, SidecarSigns, ProviderFails, SignsLate, KeyInfoArrives, ReportStep,
         ReportPaper, ReportPdf, UntouchedByIssuance
<1> QED
  BY <1>1, <1>2, PTL DEF IssuanceSpec, Spec

\* What one step of a call does to the calls.
LEMMA CallStepEffect ==
  ASSUME IssuanceInv, SealInv, NEW q \in Requests, CallStep(q)
  PROVE  /\ ~Sealed(q) /\ SealOK(request'[q])
         /\ \A p \in Requests \ {q} : request'[p] = request[p]
<1> USE DEF IssuanceInv
<1>0. \A c : request' = [request EXCEPT ![q] = c] =>
        request'[q] = c /\ \A p \in Requests \ {q} : request'[p] = request[p]
  OBVIOUS
<1> DEFINE c == request[q]
<1>1. ASSUME NEW s \in Signers, NEW kind \in Kinds, NEW d \in Descriptors, Begin(q, s, kind, d)
      PROVE  ~Sealed(q) /\ SealOK(request'[q]) /\ \A p \in Requests \ {q} : request'[p] = request[p]
  <2>1. request'[q].phase = "checking" /\ \A p \in Requests \ {q} : request'[p] = request[p]
    BY <1>0, <1>1 DEF Begin
  <2> QED BY <1>1, <2>1 DEF Begin, Sealed, SealOK, Uncalled
<1>2. ASSUME NEW phase, c.phase = phase, phase \notin {"uncalled", "sealed"}
      PROVE  c \in Calls /\ CallOK(q) /\ SealOK(c) /\ ~Sealed(q)
  BY <1>2, StartedCall DEF Sealed, SealInv, Uncalled
<1>3. CASE Check(q)
  <2> DEFINE p == IF ~SigningKeyIsActive(SignerKeyId(c.signer)) THEN "refused"
                  ELSE IF c.kind = "paper" THEN "encoding" ELSE "posting"
  <2>1. c.phase = "checking" /\ request' = [request EXCEPT ![q] = [c EXCEPT !.phase = p]]
    BY <1>3 DEF Check, KeyInfoArrives
  <2>2. c \in Calls /\ ~Sealed(q)
    BY <1>2, <2>1
  <2>3. request'[q].phase = p /\ request'[q].kind = c.kind /\ c.kind \in {"paper", "pdf"}
    BY <1>0, <2>1, <2>2 DEF Calls
  <2> QED BY <1>0, <2>1, <2>2, <2>3 DEF SealOK
<1>4. CASE Encode(q)
  <2> DEFINE d == IF c.descriptor = "sealable"
                    THEN [c EXCEPT !.phase = "heading", !.payloadId = SignerKeyId(c.signer)]
                    ELSE [c EXCEPT !.phase = "refused"]
  <2>1. c.phase = "encoding" /\ request' = [request EXCEPT ![q] = d]
    BY <1>4 DEF Encode, KeyInfoArrives
  <2>2. c \in Calls /\ SealOK(c) /\ ~Sealed(q)
    BY <1>2, <2>1
  <2>3. /\ d.phase \in {"heading", "refused"} /\ d.kind = c.kind /\ d.signer = c.signer
        /\ d.phase = "heading" => d.payloadId = SignerKeyId(c.signer)
    BY <2>2 DEF Calls
  <2> HIDE DEF d
  <2> QED BY <1>0, <2>1, <2>2, <2>3 DEF SealOK
<1>5. CASE PutHeader(q) \/ Post(q)
  <2> DEFINE d == [c EXCEPT !.phase = "signing", !.headerId = SignerKeyId(c.signer)]
  <2>1. c.phase \in {"heading", "posting"} /\ request' = [request EXCEPT ![q] = d]
    BY <1>5 DEF PutHeader, Post, KeyInfoArrives
  <2>2. c \in Calls /\ SealOK(c) /\ ~Sealed(q)
    BY <1>2, <2>1
  <2>3. d.phase = "signing" /\ d.kind = c.kind /\ d.signer = c.signer /\ d.payloadId = c.payloadId
    BY <2>2 DEF Calls
  <2> HIDE DEF d
  <2> QED BY <1>0, <2>1, <2>2, <2>3 DEF SealOK
<1>6. CASE Sign(q) \/ SidecarSigns(q) \/ ProviderFails(q) \/ SignsLate(q)
  <2> DEFINE Phases == {"sealed", "failed", "abandoned", "late"}
             Waiting == InFlightPhases \union {"abandoned"}
  <2>0. \E p \in Phases : \E k :
          /\ c.phase \in Waiting /\ (p = "sealed" => c.phase = "signing")
          /\ request' = [request EXCEPT ![q] = [c EXCEPT !.phase = p, !.key = k]]
    <3>1. CASE Sign(q)
      BY <3>1 DEF Sign, InFlightPhases
    <3>2. CASE SidecarSigns(q) /\ SidecarAccepts(q)
      BY <3>2 DEF SidecarSigns, InFlightPhases
    <3>3. CASE ProviderFails(q) \/ (SidecarSigns(q) /\ ~SidecarAccepts(q))
      <4>1. PICK p \in {"failed", "abandoned"} : c.phase \in InFlightPhases /\ request' = [request EXCEPT ![q] = [c EXCEPT !.phase = p]]
        BY <3>3 DEF ProviderFails, SidecarSigns, InFlightPhases
      <4>2. c \in Calls
        BY <4>1, <1>2 DEF InFlightPhases, AwaitingKeyInfo
      <4>3. [c EXCEPT !.phase = p] = [c EXCEPT !.phase = p, !.key = c.key]
        BY <4>2 DEF Calls
      <4> QED BY <4>1, <4>3
    <3>4. CASE SignsLate(q)
      BY <3>4 DEF SignsLate
    <3> QED BY <1>6, <3>1, <3>2, <3>3, <3>4
  <2>1a. PICK p \in Phases : \E k :
           /\ c.phase \in Waiting /\ (p = "sealed" => c.phase = "signing")
           /\ request' = [request EXCEPT ![q] = [c EXCEPT !.phase = p, !.key = k]]
    BY <2>0
  <2>1. PICK k :
          /\ c.phase \in Waiting /\ (p = "sealed" => c.phase = "signing")
          /\ request' = [request EXCEPT ![q] = [c EXCEPT !.phase = p, !.key = k]]
    BY <2>1a
  <2> DEFINE d == [c EXCEPT !.phase = p, !.key = k]
  <2>2. c \in Calls /\ SealOK(c) /\ CallOK(q) /\ ~Sealed(q)
    BY <1>2, <2>1 DEF InFlightPhases, AwaitingKeyInfo
  <2>3. /\ d.phase = p /\ d.kind = c.kind /\ d.signer = c.signer
        /\ d.payloadId = c.payloadId /\ d.headerId = c.headerId
    BY <2>2 DEF Calls
  <2> HIDE DEF d
  <2> QED BY <1>0, <2>1, <2>2, <2>3 DEF SealOK, CallOK, d
<1> QED
  BY <1>1, <1>3, <1>4, <1>5, <1>6 DEF CallStep

\* What was sealed stays as it is, and every call keeps its seal's key ids.
LEMMA SealsStay ==
  ASSUME IssuanceInv, SealInv, [IssuanceNext]_issuanceVars
  PROVE  SealInv' /\ \A q \in Requests : Sealed(q) => request'[q] = request[q]
<1>1. CASE request' = request
  BY <1>1 DEF SealInv, SealOK, SignerKeyId
<1>2. ASSUME NEW q \in Requests, CallStep(q)
      PROVE  SealInv' /\ \A p \in Requests : Sealed(p) => request'[p] = request[p]
  <2>1. /\ ~Sealed(q) /\ SealOK(request'[q])
        /\ \A p \in Requests \ {q} : request'[p] = request[p]
    BY <1>2, CallStepEffect
  <2>2. \A p \in Requests : request'[p] # Uncalled => SealOK(request'[p])
    BY <2>1 DEF SealInv
  <2>3. SealInv'
    BY <2>2 DEF SealInv, SealOK, SignerKeyId
  <2> QED BY <2>1, <2>3
<1>3. request' = request \/ \E q \in Requests : CallStep(q)
  BY DEF IssuanceNext, issuanceVars, OperatorStep, HealthCheck, ReportStep, ReportPaper, ReportPdf
<1> QED
  BY <1>1, <1>2, <1>3

\* A listed key version is found under its versioned key id, and nothing else is.
LEMMA VersionedIdsAreFound ==
  ASSUME TypeOK, NEW k \in KeyVersions, Listed(k)
  PROVE  KeyLifecycleState(KeyId(k, TRUE)) = {Exposed(records[k].status)}
<1> DEFINE id == KeyId(k, TRUE)
           Matches(n) == SameKeyId(order[n], id)
<1>1. \A n \in DOMAIN order : order[n] \in KeyVersions /\ (Matches(n) <=> order[n] = k)
  <2> TAKE n \in DOMAIN order
  <2>1. order[n] \in KeyVersions
    BY DEF TypeOK
  <2>2. SameKeyId(k, id)
    BY DEF SameKeyId, KeyId
  <2> QED BY <2>1, <2>2, VersionedIdsAreExact
<1>2. PICK n \in DOMAIN order : order[n] = k
  BY DEF TypeOK
<1>3. \A m \in 1 .. n - 1 : m \in DOMAIN order /\ m # n
  <2>1. DOMAIN order = 1 .. Len(order) /\ Len(order) \in Nat
    BY DEF TypeOK
  <2> QED BY <1>2, <2>1
<1>4. \A m \in 1 .. n - 1 : ~Matches(m)
  BY <1>1, <1>2, <1>3 DEF TypeOK
<1>5. \A l \in FirstMatch(id) : l = k
  BY <1>1 DEF FirstMatch
<1>6. k \in FirstMatch(id)
  BY <1>1, <1>2, <1>4 DEF FirstMatch
<1>7. FirstMatch(id) = {k}
  BY <1>5, <1>6
<1> QED
  BY <1>7 DEF KeyLifecycleState

LEMMA ExposedIsState ==
  ASSUME RegistryInv, NEW k \in KeyVersions, Listed(k)
  PROVE  Exposed(records[k].status) \in States
<1>1. records[k].status \in Statuses
  BY DEF RegistryInv, RecordTypes, Listed, Records
<1> QED
  BY <1>1 DEF Exposed, States, Statuses, EndedStates

\* What the call that made a seal left in it.
LEMMA SealFacts ==
  ASSUME BareSigners = {}, IssuanceInv, SealInv, NEW q \in Requests, Sealed(q)
  PROVE  LET c == request[q] IN
         /\ c \in Calls /\ c.key \in KeyVersions /\ Listed(c.key)
         /\ c.headerId = KeyId(c.key, TRUE)
         /\ c.kind = "paper" => c.payloadId = KeyId(c.key, TRUE)
<1> DEFINE c == request[q]
<1>1. c \in Calls /\ CallOK(q) /\ SealOK(c) /\ c.phase = "sealed"
  BY StartedCall DEF Sealed, SealInv, Uncalled
<1>2. c.signer \in Signers /\ c.key = KeyOf[c.signer] /\ c.key \in KeyVersions /\ Listed(c.key)
  BY <1>1, KeyOfAssumption DEF CallOK, CheckedPhases, Signed
<1>3. SignerKeyId(c.signer) = KeyId(c.key, TRUE)
  BY <1>2 DEF SignerKeyId
<1> QED
  BY <1>1, <1>2, <1>3 DEF SealOK

\* A verification reads the registry after its last await: what it reports is what
\* the registry says then.
LEMMA ReportsKeepInv ==
  ASSUME BareSigners = {}, IssuanceInv, SealInv, TypeOK, ReportInv, [IssuanceNext]_issuanceVars
  PROVE  ReportInv'
<1>0. /\ SealInv'
      /\ \A q \in Requests : Sealed(q) => request'[q] = request[q]
  BY SealsStay
<1>1. ASSUME NEW v \in Reports, NEW q \in Requests, NEW state \in States, NEW actual \in States,
             report' = [report EXCEPT ![v] = [of |-> q, state |-> state, actual |-> actual]],
             Sealed(q), request[q].kind = "paper" => state = actual
      PROVE  ReportInv'
  <2> DEFINE r == [of |-> q, state |-> state, actual |-> actual]
  <2>1. r \in ReportTypes /\ r.of = q /\ r.state = state /\ r.actual = actual
    BY DEF ReportTypes
  <2> HIDE DEF r
  <2>2. /\ report' \in [Reports -> ReportTypes \union {Unread}]
        /\ \A u \in Reports : report'[u] = r \/ report'[u] = report[u]
    BY <1>1, <2>1 DEF ReportInv, r
  <2>3. ASSUME NEW u \in Reports, report'[u] # Unread
        PROVE  /\ Sealed(report[u].of)'
               /\ request'[report'[u].of].kind = "paper" => report'[u].state = report'[u].actual
    <3> DEFINE p == report'[u].of
    <3>1. /\ p \in Requests /\ Sealed(p)
          /\ request[p].kind = "paper" => report'[u].state = report'[u].actual
      BY <1>1, <2>1, <2>2, <2>3 DEF ReportInv, ReportTypes
    <3> QED BY <1>0, <3>1 DEF Sealed
  <2> QED BY <2>2, <2>3 DEF ReportInv
<1>2. ASSUME NEW v \in Reports, NEW q \in Requests, ReportPaper(v, q) PROVE ReportInv'
  <2>1. /\ request[q].key \in KeyVersions /\ Listed(request[q].key) /\ Sealed(q)
        /\ request[q].payloadId = KeyId(request[q].key, TRUE)
    BY <1>2, SealFacts DEF ReportPaper
  <2> DEFINE x == Exposed(records[request[q].key].status)
  <2>2. x \in States /\ KeyLifecycleState(request[q].payloadId) = {x}
    BY <2>1, ExposedIsState, VersionedIdsAreFound DEF IssuanceInv
  <2>3. report' = [report EXCEPT ![v] = [of |-> q, state |-> x, actual |-> x]]
    BY <1>2, <2>2 DEF ReportPaper
  <2> HIDE DEF x
  <2> QED BY <1>1, <2>1, <2>2, <2>3
<1>3. ASSUME NEW v \in Reports, NEW q \in Requests, ReportPdf(v, q) PROVE ReportInv'
  <2>1. request[q].key \in KeyVersions /\ Listed(request[q].key) /\ Sealed(q) /\ request[q].kind = "pdf"
    BY <1>3, SealFacts DEF ReportPdf
  <2> DEFINE x == Exposed(records[request[q].key].status)
  <2>2. x \in States /\ "NONE" \in States
    BY <2>1, ExposedIsState DEF IssuanceInv, States
  <2>3. report' = [report EXCEPT ![v] = [of |-> q, state |-> "NONE", actual |-> x]]
    BY <1>3 DEF ReportPdf
  <2> HIDE DEF x
  <2> QED BY <1>1, <2>1, <2>2, <2>3
<1>4. CASE report' = report
  BY <1>0, <1>4 DEF ReportInv, Sealed, ReportTypes
<1>5. report' = report \/ \E v \in Reports, q \in Requests : ReportStep(v, q)
  BY DEF IssuanceNext, issuanceVars, OperatorStep, HealthCheck, CallStep, Begin, Check, Encode,
         PutHeader, Sign, Post, SidecarSigns, ProviderFails, SignsLate, KeyInfoArrives
<1> QED
  BY <1>2, <1>3, <1>4, <1>5 DEF ReportStep

\* Whatever operators do, a paper result carries the lifecycle state of the key that
\* made the seal, payload and header of which name it alike.
THEOREM ReportsNameTheKeysState ==
  ASSUME BareSigners = {}
  PROVE  IssuanceSpec => []PaperStateIsTheKeys
<1> DEFINE CachedOK == cached \in [Signers -> BOOLEAN]
<1>1. IssuanceInit => SealInv /\ ReportInv /\ CachedOK
  BY DEF IssuanceInit, SealInv, ReportInv
<1>2. /\ IssuanceInv /\ SealInv /\ TypeOK /\ ReportInv /\ [IssuanceNext]_issuanceVars
           => SealInv' /\ ReportInv'
      /\ IssuanceInv /\ CachedOK /\ [IssuanceNext]_issuanceVars => CachedOK'
  <2>1. ASSUME IssuanceInv, CachedOK, [IssuanceNext]_issuanceVars PROVE CachedOK'
    <3>1. cached' = cached \/ \E s : cached' = [cached EXCEPT ![s] = TRUE]
      BY <2>1 DEF IssuanceNext, issuanceVars, OperatorStep, HealthCheck, CallStep, Begin, Check,
                  Encode, PutHeader, Sign, Post, SidecarSigns, ProviderFails, SignsLate, KeyInfoArrives,
                  ReportStep, ReportPaper, ReportPdf
    <3> QED BY <2>1, <3>1
  <2> QED BY <2>1, SealsStay, ReportsKeepInv
<1>3. IssuanceSpec => []TypeOK
  BY RegistryInside, RegistryTypes, PTL
<1>4. IssuanceInv /\ SealInv /\ TypeOK /\ ReportInv /\ CachedOK => PaperStateIsTheKeys
  <2> SUFFICES ASSUME IssuanceInv, SealInv, TypeOK, ReportInv, CachedOK
               PROVE  PaperStateIsTheKeys
    OBVIOUS
  <2>1. ASSUME NEW q \in Requests, Sealed(q)
        PROVE  /\ request[q].key # NoKey /\ request[q].headerId # NoKey
               /\ request[q].kind = "paper" => request[q].payloadId = request[q].headerId
    <3>1. KeyId(request[q].key, TRUE) # NoKey
      BY DEF KeyId, NoKey
    <3> QED BY <2>1, <3>1, SealFacts, NoKeyAssumption
  <2>2. IssuanceTypeOK
    BY <2>1 DEF IssuanceTypeOK, ReportInv, ReportTypes, IssuanceInv
  <2> QED BY <2>2 DEF PaperStateIsTheKeys, ReportInv
<1> QED
  BY <1>1, <1>2, <1>3, <1>4, IssuanceInitially, IssuanceKeepsInv, PTL DEF IssuanceSpec
=============================================================================
