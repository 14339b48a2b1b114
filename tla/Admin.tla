------------------------------- MODULE Admin -------------------------------
(***************************************************************************)
(* The admin service (apps/admin): an operator with a token of the         *)
(* identity provider opens a session, changes or reads the status of a     *)
(* document, or has a remote signature authorised.  Each request is one    *)
(* run of handle(), which waits for the provider's keys, for the body and  *)
(* for the status repository; requests interleave at those awaits.         *)
(***************************************************************************)
EXTENDS Integers, Sequences, FiniteSets

CONSTANTS
  Operations,      \* requests
  AdminDocuments,
  AdminStates,
  ProviderKeys,    \* keys the identity provider may sign tokens with
  Asks,            \* what requests may ask, see Asked
  Tolerance,       \* clockToleranceSeconds
  CacheMaxAge,     \* cacheMaxAgeMilliseconds
  Cooldown,        \* cooldownMilliseconds
  FetchTimeout,    \* timeoutMilliseconds
  AdminEnd,        \* bound on the clock
  AdminMaxFaults   \* bound on key changes, failures and broken connections

ASSUME AdminBounds ==
  /\ Tolerance \in Nat /\ CacheMaxAge \in Nat \ {0} /\ Cooldown \in 1..CacheMaxAge /\ FetchTimeout \in Nat
  /\ AdminEnd \in Nat /\ AdminMaxFaults \in Nat

VARIABLES
  operation,    \* the continuation of handle() for each request
  records,      \* the status repository
  trail,        \* what the audit sink was given
  keySet,       \* the fetched keys of the provider, and when they arrived
  fetch,        \* the fetch in flight: asked, or answered by the provider with the keys it then served
  published,    \* the keys the provider serves
  servedUntil,  \* history: when a key that is no longer served was withdrawn
  adminClock,
  adminFaults,
  changed       \* history: operations whose change took effect

adminVars == <<operation, records, trail, keySet, fetch, published, servedUntil, adminClock, adminFaults, changed>>

Routes == {"session", "transition", "lookup", "sign"}
Roles == {"admin", "signer"}

\* A bearer token as jwtVerify() sees it: who signed it, for which roles, and until when.
Tokens == [key : ProviderKeys, roles : SUBSET Roles, expires : 0..AdminEnd]

\* A request: its route, its token, whether the CSRF header equals the cookie, and what its body says.
\* inScope is whether the configured scopes list the issuer and key it asks for.
Asked == [route : Routes, token : Tokens, csrf : BOOLEAN, wellFormed : BOOLEAN,
          document : AdminDocuments, status : AdminStates, inScope : BOOLEAN]

ASSUME AdminAsks == Asks \subseteq Asked

Idle == [phase |-> "idle"]

NoFetch == [phase |-> "none", began |-> 0, keys |-> {}]

Answered(op, code) == [op EXCEPT !.phase = "answered", !.reply = code]

\* Nothing was fetched before the clock started; the clock starts late enough for that to be stale.
AdminInit ==
  /\ operation = [o \in Operations |-> Idle]
  /\ records = [d \in AdminDocuments |-> "UNCHECKED"]
  /\ trail = <<>>
  /\ keySet = [keys |-> {}, at |-> 0]
  /\ fetch = NoFetch
  /\ published \in {{k} : k \in ProviderKeys}
  /\ servedUntil = [k \in ProviderKeys |-> 0]
  /\ adminClock = CacheMaxAge
  /\ adminFaults = 0
  /\ changed = {}

Fault == adminFaults < AdminMaxFaults /\ adminFaults' = adminFaults + 1

Continue(o, op) == operation' = [operation EXCEPT ![o] = op]

-----------------------------------------------------------------------------
(* Authentication and authorisation *)

Fresh == adminClock < keySet.at + CacheMaxAge

CoolingDown == adminClock < keySet.at + Cooldown

\* jwtVerify(): a known key, and an expiry within the tolerance.
Verified(token, keys) == token.key \in keys /\ adminClock < token.expires + Tolerance

\* Mutant: authorizeAdmin() without its own check of the expiry.
AuthorizedWithinTolerance(op) == "admin" \in op.token.roles /\ (op.route = "transition" => op.csrf)

\* authorizeAdmin() is strict about the expiry; only a POST needs the CSRF token.
Authorized(op) ==
  /\ adminClock < op.token.expires
  /\ "admin" \in op.token.roles
  /\ op.route = "transition" => op.csrf

\* What a route does with an authenticated token before its next await. A session is answered at
\* once; the route of remote signing looks at the CSRF token only.
Proceed(op) ==
  LET known == [op EXCEPT !.since = adminClock]
  IN  CASE op.route = "session" -> Answered(known, IF "admin" \in op.token.roles THEN 200 ELSE 403)
        [] op.route = "transition" -> IF Authorized(op) THEN [known EXCEPT !.phase = "reading"] ELSE Answered(op, 403)
        [] op.route = "lookup" -> IF ~Authorized(op) THEN Answered(op, 403)
                                  ELSE IF ~op.wellFormed THEN Answered(op, 400)
                                  ELSE [known EXCEPT !.phase = "looking"]
        [] op.route = "sign" -> IF op.csrf THEN [known EXCEPT !.phase = "reading"] ELSE Answered(op, 403)

Decide(op, keys) == IF Verified(op.token, keys) THEN Proceed(op) ELSE Answered(op, 401)

\* Answered before any await: preflight, health, a foreign origin, no token, an unknown route, or
\* an authenticated route of a service without a configured provider.
Turn(o) ==
  /\ operation[o].phase = "idle"
  /\ \E code \in {204, 200, 403, 401, 404, 501} : Continue(o, [phase |-> "turned", reply |-> code])
  /\ UNCHANGED <<records, trail, keySet, fetch, published, servedUntil, adminClock, adminFaults, changed>>

\* A request whose token has to be verified. The keys at hand decide when they can; they are fetched
\* when they are stale, or lack the key of the token and were not fetched just now.
Ask(o, asked) ==
  /\ operation[o].phase = "idle"
  /\ LET op == [phase |-> "fetching", reply |-> 0, since |-> 0, broken |-> FALSE,
                route |-> asked.route, token |-> asked.token, csrf |-> asked.csrf, wellFormed |-> asked.wellFormed,
                document |-> asked.document, status |-> asked.status, inScope |-> asked.inScope]
     IN  IF Fresh /\ (asked.token.key \in keySet.keys \/ CoolingDown)
         THEN Continue(o, Decide(op, keySet.keys)) /\ UNCHANGED fetch
         ELSE /\ Continue(o, op)
              /\ fetch' = IF fetch = NoFetch THEN [phase |-> "asked", began |-> adminClock, keys |-> {}] ELSE fetch
  /\ UNCHANGED <<records, trail, keySet, published, servedUntil, adminClock, adminFaults, changed>>

\* The provider answers with the keys it serves now; they may be withdrawn before they arrive.
KeysAreProduced ==
  /\ fetch.phase = "asked"
  /\ fetch' = [fetch EXCEPT !.phase = "produced", !.keys = published]
  /\ UNCHANGED <<operation, records, trail, keySet, published, servedUntil, adminClock, adminFaults, changed>>

InTime == adminClock <= fetch.began + FetchTimeout

\* One fetch serves every request that waits for keys, whenever it came. The keys count as fetched
\* when they arrive, not when the provider gave them.
KeysArrive ==
  /\ fetch.phase = "produced" /\ InTime
  /\ keySet' = [keys |-> fetch.keys, at |-> adminClock]
  /\ operation' = [o \in Operations |-> IF operation[o].phase = "fetching" THEN Decide(operation[o], fetch.keys)
                                        ELSE operation[o]]
  /\ fetch' = NoFetch
  /\ UNCHANGED <<records, trail, published, servedUntil, adminClock, adminFaults, changed>>

\* The fetch takes too long, fails or is too large: authentication fails, the keys at hand stay.
KeysFail ==
  /\ fetch # NoFetch
  /\ IF InTime THEN Fault ELSE UNCHANGED adminFaults
  /\ operation' = [o \in Operations |-> IF operation[o].phase = "fetching" THEN Answered(operation[o], 401)
                                        ELSE operation[o]]
  /\ fetch' = NoFetch
  /\ UNCHANGED <<records, trail, keySet, published, servedUntil, adminClock, changed>>

-----------------------------------------------------------------------------
(* The body, the repository and the audit sink *)

Audit(o) == trail' = Append(trail, o)

\* A body that is too large, no JSON, or lacks what the route needs; the signing route also fails on null.
Refusals(op) == {400, 413} \cup (IF op.route = "sign" THEN {500} ELSE {})

\* The body has arrived. A transition goes to the repository; a signing request is decided and audited.
Read(o) ==
  LET op == operation[o]
      granted == "signer" \in op.token.roles /\ op.inScope
  IN  /\ op.phase = "reading" /\ ~op.broken
      /\ \/ /\ ~op.wellFormed
            /\ \E code \in Refusals(op) : Continue(o, Answered(op, code))
            /\ UNCHANGED trail
         \/ /\ op.wellFormed /\ op.route = "transition"
            /\ Continue(o, [op EXCEPT !.phase = "storing"])
            /\ UNCHANGED trail
         \/ /\ op.wellFormed /\ op.route = "sign"
            /\ Continue(o, Answered(op, IF granted THEN 200 ELSE 403))
            /\ IF granted THEN Audit(o) ELSE UNCHANGED trail
      /\ UNCHANGED <<records, keySet, fetch, published, servedUntil, adminClock, adminFaults, changed>>

\* The client leaves. During authentication nobody listens to the body yet, so that reading it will
\* never settle; while it is read the request is answered (400, to nobody).
Leave(o) ==
  LET op == operation[o]
  IN  /\ Fault
      /\ op.phase \in {"fetching", "reading"} /\ ~op.broken
      /\ Continue(o, IF op.phase = "reading" THEN Answered(op, 400) ELSE [op EXCEPT !.broken = TRUE])
      /\ UNCHANGED <<records, trail, keySet, fetch, published, servedUntil, adminClock, changed>>

\* The repository stores what it is given; the launcher's has no rules about what may follow what.
Store(o) ==
  LET op == operation[o]
  IN  /\ op.phase = "storing"
      /\ records' = [records EXCEPT ![op.document] = op.status]
      /\ changed' = changed \cup {o}
      /\ Continue(o, [op EXCEPT !.phase = "stored"])
      /\ UNCHANGED <<trail, keySet, fetch, published, servedUntil, adminClock, adminFaults>>

\* Mutant: the change is audited before the repository has made it.
RecordAhead(o) ==
  /\ operation[o].phase = "storing"
  /\ Audit(o)
  /\ Continue(o, Answered(operation[o], 201))
  /\ UNCHANGED <<records, keySet, fetch, published, servedUntil, adminClock, adminFaults, changed>>

\* The repository's answer arrives: audit, then reply.
Record(o) ==
  /\ operation[o].phase = "stored"
  /\ Audit(o)
  /\ Continue(o, Answered(operation[o], 201))
  /\ UNCHANGED <<records, keySet, fetch, published, servedUntil, adminClock, adminFaults, changed>>

\* A read is audited as well, before the reply.
Look(o) ==
  /\ operation[o].phase = "looking"
  /\ Audit(o)
  /\ Continue(o, Answered(operation[o], 200))
  /\ UNCHANGED <<records, keySet, fetch, published, servedUntil, adminClock, adminFaults, changed>>

\* The repository rejects, before or after it has stored, or the audit sink throws: 500.
Fail(o) ==
  /\ Fault
  /\ operation[o].phase \in {"storing", "stored", "looking"}
  /\ Continue(o, Answered(operation[o], 500))
  /\ UNCHANGED <<records, trail, keySet, fetch, published, servedUntil, adminClock, changed>>

-----------------------------------------------------------------------------
(* The identity provider and time *)

\* The provider replaces its key.
Rotate ==
  /\ Fault
  /\ \E k \in ProviderKeys \ published : published' = {k}
  /\ servedUntil' = [k \in ProviderKeys |-> IF k \in published THEN adminClock ELSE servedUntil[k]]
  /\ UNCHANGED <<operation, records, trail, keySet, fetch, adminClock, changed>>

AdminTick ==
  /\ adminClock < AdminEnd
  /\ adminClock' = adminClock + 1
  /\ UNCHANGED <<operation, records, trail, keySet, fetch, published, servedUntil, adminFaults, changed>>

AdminNext ==
  \/ \E o \in Operations :
       \/ Turn(o) \/ Read(o) \/ Leave(o) \/ Store(o) \/ Record(o) \/ Look(o) \/ Fail(o)
       \/ \E asked \in Asks : Ask(o, asked)
  \/ KeysAreProduced \/ KeysArrive \/ KeysFail \/ Rotate \/ AdminTick

AdminSpec == AdminInit /\ [][AdminNext]_adminVars

-----------------------------------------------------------------------------
(* Properties *)

Entries(o) == Cardinality({i \in 1..Len(trail) : trail[i] = o})

\* The last moment at which the provider served a key.
Served(k) == IF k \in published THEN adminClock ELSE servedUntil[k]

\* Part of ChangesAreAudited.
AdminTypeOK ==
  /\ records \in [AdminDocuments -> AdminStates \cup {"UNCHECKED"}]
  /\ trail \in Seq(Operations) /\ changed \subseteq Operations
  /\ keySet.keys \subseteq ProviderKeys /\ published \subseteq ProviderKeys
  /\ {keySet.at, adminClock} \subseteq 0..AdminEnd \cup {CacheMaxAge}

\* Behind every change stands a token that was not expired when it was looked at, of an administrator,
\* with the CSRF token, signed by a key that the provider served less than CacheMaxAge and the time of a
\* fetch before: the age of the keys at hand counts from their arrival, and they may have been withdrawn
\* on the way. So it is whatever the provider and the clock do between the steps of handle()
\* (oidc.ts:25-34, server.ts:117-119, jwks.ts:104-110).
ChangesAreAuthorised ==
  \A o \in changed :
    LET op == operation[o]
    IN  /\ op.route = "transition" /\ "admin" \in op.token.roles /\ op.csrf
        /\ op.since < op.token.expires
        /\ op.since < Served(op.token.key) + CacheMaxAge + FetchTimeout

\* A change that took effect is in the audit trail once, is still being handled, or its caller was told
\* that it failed; what the trail reports as a change took effect; a caller who was told 201 has both.
\* So it is whatever the repository and the sink do between the steps of handle() (server.ts:119-126).
ChangesAreAudited ==
  /\ AdminTypeOK
  /\ \A o \in Operations :
       /\ Entries(o) <= 1
       /\ o \in changed => \/ operation[o].phase = "stored" /\ Entries(o) = 0
                           \/ operation[o].phase = "answered" /\ operation[o].reply = 201 /\ Entries(o) = 1
                           \/ operation[o].phase = "answered" /\ operation[o].reply = 500 /\ Entries(o) = 0
       /\ Entries(o) = 1 /\ operation[o].route = "transition" => o \in changed
=============================================================================
