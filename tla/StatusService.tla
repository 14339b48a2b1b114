--------------------------- MODULE StatusService ---------------------------
(***************************************************************************)
(* The document lifecycle status service (services/status/src): HTTP       *)
(* requests served by one or more replicas of StatusService over an        *)
(* append-only StatusRepository, in memory or in PostgreSQL.               *)
(*                                                                         *)
(* A transition reads the current record, decides, stamps the new record   *)
(* with the replica's clock and appends it; every await between those      *)
(* steps is a point at which other requests, other replicas, a database    *)
(* error, a crash or a shutdown may come in between.                       *)
(***************************************************************************)
EXTENDS Naturals, Sequences

CONSTANTS
  Documents,    \* issuer + document references
  Requests,     \* POST /v1/status/transition requests
  Lookups,      \* GET /v1/status requests
  Replicas,     \* processes running startStatusServer
  Persistence,  \* "postgres" or "memory" (statusPersistence)
  Requested,    \* the states clients ask for
  MaxAge,       \* maxAgeMs, in clock ticks
  MaxTime,      \* bound: the last clock value a replica reaches
  MaxFaults,    \* bound: database errors, outages, shutdowns and crashes in a
                \* behaviour
  Serialized    \* TRUE: no client starts a transition of a document while
                \* another one of it is in flight or may still be stored

ClosingStates == {"REVOKED", "CANCELLED", "SUPERSEDED", "EXPIRED"}
Statuses == {"ACTIVE"} \union ClosingStates

ASSUME PersistenceAssumption == Persistence \in {"postgres", "memory"}
\* The in-memory repository lives in one process.
ASSUME MemoryAssumption == Persistence = "memory" => \E r \in Replicas : Replicas = {r}
ASSUME RequestedAssumption == Requested \subseteq Statuses
ASSUME BoundsAssumption == /\ MaxAge \in Nat
                           /\ MaxTime \in Nat
                           /\ MaxFaults \in Nat
                           /\ Serialized \in BOOLEAN

NoStatus == "NONE"
Records == [status : Statuses, updatedAt : 0 .. MaxTime]
NoRecord == [status |-> NoStatus, updatedAt |-> 0]

VARIABLES
  history,    \* history[d]: the records of d in the order they were appended
  request,    \* request[q]: the handler of transition request q
  lookup,     \* lookup[g]: the handler of status lookup g
  available,  \* available[r]: StatusService.available
  clock,      \* clock[r]: what new Date() returns at r
  server,     \* server[r]: "up", "closing" (close() called) or "closed"
  faults      \* faults spent of MaxFaults

vars == <<history, request, lookup, available, clock, server, faults>>

-----------------------------------------------------------------------------
(* Handlers *)

\* Where a transition waits.  "receiving": its body is being read; "reading":
\* SELECT under way; "deciding": the row has arrived; "inserting": INSERT under
\* way; "committed": the row is stored, the reply not sent.
InFlightPhases == {"receiving", "reading", "deciding", "inserting", "committed"}

\* "orphan": the INSERT is out of the handler's hands, as its process died or lost
\* the connection; "done": over.
Phases == InFlightPhases \union {"orphan", "done"}

\* 201; "refused": 403, 413 or 400; 409; 503; "lost": the connection broke.
Replies == {"created", "refused", "conflict", "unavailable", "lost"}
NoReply == "none"

Unsent == [phase |-> "unsent"]

RequestStates ==
  [phase : Phases, replica : Replicas, doc : Documents, status : Statuses,
   seen : Records \union {NoRecord}, record : Records \union {NoRecord},
   reply : Replies \union {NoReply}]

\* A lookup reads the row, then takes the time; acked is a history variable:
\* the states whose transitions were acknowledged before the lookup began.
LookupStates ==
  [phase : {"reading", "answering", "done"}, replica : Replicas, doc : Documents,
   strict : BOOLEAN, acked : SUBSET Statuses, seen : Records \union {NoRecord},
   answer : Statuses \union {"UNCHECKED", "ERROR", NoStatus},
   freshness : {"FRESH", "STALE", "UNAVAILABLE"}]

InFlight(q) == request[q].phase \in InFlightPhases
Pending(q) == InFlight(q) \/ request[q].phase = "orphan"
LookupInFlight(g) == lookup[g].phase \in {"reading", "answering"}
Answered(q, c) == request[q].phase = "done" /\ request[q].reply = c

Acknowledged(d) ==
  {request[q].status : q \in {p \in Requests : Answered(p, "created") /\ request[p].doc = d}}

\* The handler moves on to a phase, or ends with a reply; what it acknowledges
\* is remembered, its other locals are gone.
Advance(q, p) == request' = [request EXCEPT ![q].phase = p]
Ended(q, c) ==
  [request[q] EXCEPT !.phase = "done", !.reply = c, !.seen = NoRecord,
     !.record = IF c = "created" THEN @ ELSE NoRecord]
Finish(q, c) == request' = [request EXCEPT ![q] = Ended(q, c)]

-----------------------------------------------------------------------------
(* The repository *)

Appended(d) == {history[d][i] : i \in DOMAIN history[d]}

\* Mutant: ORDER BY updated_at ASC.
IsOldest(d, i) == \A j \in DOMAIN history[d] : history[d][j].updatedAt >= history[d][i].updatedAt

\* The row current() returns: the last one appended in memory, the one with
\* the latest updated_at in PostgreSQL.
IsCurrent(d, i) ==
  IF Persistence = "memory"
    THEN i = Len(history[d])
    ELSE \A j \in DOMAIN history[d] : history[d][j].updatedAt <= history[d][i].updatedAt

\* What current() may return for d.
Current(d) ==
  IF history[d] = << >>
    THEN {NoRecord}
    ELSE {history[d][i] : i \in {j \in DOMAIN history[d] : IsCurrent(d, j)}}

\* The primary key (issuer_id, document_id, updated_at) of the table.
KeyTaken(d, record) ==
  /\ Persistence = "postgres"
  /\ \E other \in Appended(d) : other.updatedAt = record.updatedAt

AppendRecord(d, record) == history' = [history EXCEPT ![d] = Append(@, record)]

-----------------------------------------------------------------------------
(* POST /v1/status/transition *)

\* A connection is accepted and its body is on the way.
Accept(q, r, d, s) ==
  /\ request[q] = Unsent
  /\ server[r] = "up"
  /\ Serialized =>
       \A p \in Requests : Pending(p) => request[p].doc # d
  /\ request' = [request EXCEPT ![q] =
       [phase |-> "receiving", replica |-> r, doc |-> d, status |-> s,
        seen |-> NoRecord, record |-> NoRecord, reply |-> NoReply]]
  /\ UNCHANGED <<history, lookup, available, clock, server, faults>>

\* Why the handler answers before it reads the repository: the token, the body
\* (size, JSON, fields), StatusService.available, an empty reason.
Refusals(r) ==
  {"refused"} \union IF available[r] THEN {"conflict"} ELSE {"unavailable"}

Refuse(q) ==
  /\ request[q].phase = "receiving"
  /\ \E c \in Refusals(request[q].replica) : Finish(q, c)
  /\ UNCHANGED <<history, lookup, available, clock, server, faults>>

Enter(q) ==
  /\ request[q].phase = "receiving"
  /\ available[request[q].replica]
  /\ Advance(q, "reading")
  /\ UNCHANGED <<history, lookup, available, clock, server, faults>>

ReadCurrent(q) ==
  /\ request[q].phase = "reading"
  /\ \E record \in Current(request[q].doc) :
       request' = [request EXCEPT ![q].phase = "deciding", ![q].seen = record]
  /\ UNCHANGED <<history, lookup, available, clock, server, faults>>

\* Mutant: isAllowed does not look at the previous state.
IsAllowedFromAnything(previous, next) ==
  IF previous = NoStatus THEN next \in Statuses ELSE next \in ClosingStates

IsAllowed(previous, next) ==
  IF previous = NoStatus
    THEN next = "ACTIVE"
    ELSE previous = "ACTIVE" /\ next \in ClosingStates

Reject(q) ==
  /\ request[q].phase = "deciding"
  /\ ~IsAllowed(request[q].seen.status, request[q].status)
  /\ Finish(q, "conflict")
  /\ UNCHANGED <<history, lookup, available, clock, server, faults>>

\* The record is stamped after the read.  In memory it is also stored before
\* anything else runs; in PostgreSQL the INSERT leaves for the database.
Stamp(q) ==
  LET record == [status |-> request[q].status, updatedAt |-> clock[request[q].replica]]
  IN /\ request[q].phase = "deciding"
     /\ IsAllowed(request[q].seen.status, request[q].status)
     /\ \/ /\ Persistence = "memory"
           /\ AppendRecord(request[q].doc, record)
           /\ request' = [request EXCEPT ![q].phase = "committed",
                             ![q].seen = NoRecord, ![q].record = record]
        \/ /\ Persistence = "postgres"
           /\ request' = [request EXCEPT ![q].phase = "inserting",
                             ![q].seen = NoRecord, ![q].record = record]
           /\ UNCHANGED history
     /\ UNCHANGED <<lookup, available, clock, server, faults>>

\* The database stores the row, unless the key is taken.
Insert(q) ==
  /\ request[q].phase = "inserting"
  /\ ~KeyTaken(request[q].doc, request[q].record)
  /\ AppendRecord(request[q].doc, request[q].record)
  /\ Advance(q, "committed")
  /\ UNCHANGED <<lookup, available, clock, server, faults>>

\* Mutant: a conflicting INSERT is retried for ever.
InsertRetried(q) ==
  /\ request[q].phase = "inserting"
  /\ KeyTaken(request[q].doc, request[q].record)
  /\ UNCHANGED vars

InsertConflict(q) ==
  /\ request[q].phase = "inserting"
  /\ KeyTaken(request[q].doc, request[q].record)
  /\ Finish(q, "conflict")
  /\ UNCHANGED <<history, lookup, available, clock, server, faults>>

\* What the client was told of an INSERT that nobody waits for: the error that
\* broke the connection to the database, or nothing.
OrphanReply(q) == IF request[q].reply = "conflict" THEN "conflict" ELSE "lost"

\* An INSERT that nobody waits for still reaches the database, or does not.
OrphanInsert(q) ==
  /\ request[q].phase = "orphan"
  /\ \/ /\ ~KeyTaken(request[q].doc, request[q].record)
        /\ AppendRecord(request[q].doc, request[q].record)
     \/ UNCHANGED history
  /\ Finish(q, OrphanReply(q))
  /\ UNCHANGED <<lookup, available, clock, server, faults>>

\* The connection breaks with the INSERT on the wire: the client is answered
\* now, and the row may be stored later.
LosesStatement(q) ==
  /\ request[q].phase = "inserting"
  /\ request' = [request EXCEPT ![q].phase = "orphan", ![q].reply = "conflict"]

\* A query fails: every error of transition() but unavailability is a 409,
\* also when the row had been stored or may still be.
DatabaseError(q) ==
  /\ Persistence = "postgres"
  /\ faults < MaxFaults
  /\ \/ request[q].phase \in {"reading", "inserting", "committed"} /\ Finish(q, "conflict")
     \/ LosesStatement(q)
  /\ faults' = faults + 1
  /\ UNCHANGED <<history, lookup, available, clock, server>>

\* Mutant: the append is not awaited before the 201.
ReplyEarly(q) ==
  /\ request[q].phase \in {"inserting", "committed"}
  /\ Finish(q, "created")
  /\ UNCHANGED <<history, lookup, available, clock, server, faults>>

Reply(q) ==
  /\ request[q].phase = "committed"
  /\ Finish(q, "created")
  /\ UNCHANGED <<history, lookup, available, clock, server, faults>>

-----------------------------------------------------------------------------
(* GET /v1/status, and StatusService.get called by a host with requireFreshness *)

BeginLookup(g, r, d) ==
  /\ lookup[g] = Unsent
  /\ server[r] = "up"
  /\ \E strict \in BOOLEAN :
       lookup' = [lookup EXCEPT ![g] =
         [phase |-> IF available[r] THEN "reading" ELSE "done",
          replica |-> r, doc |-> d, strict |-> strict, acked |-> Acknowledged(d),
          seen |-> NoRecord, freshness |-> "UNAVAILABLE",
          answer |-> IF available[r] THEN NoStatus ELSE "UNCHECKED"]]
  /\ UNCHANGED <<history, request, available, clock, server, faults>>

LookupRead(g) ==
  /\ lookup[g].phase = "reading"
  /\ \E record \in Current(lookup[g].doc) :
       lookup' = [lookup EXCEPT ![g].phase = "answering", ![g].seen = record]
  /\ UNCHANGED <<history, request, available, clock, server, faults>>

\* The age of a record from a replica whose clock is ahead is negative: FRESH.
Freshness(record, now) ==
  IF record # NoRecord /\ now > record.updatedAt + MaxAge THEN "STALE" ELSE "FRESH"

\* Mutant: get() does not return early when there is no record.
LookupAnswerOfRecord(g) ==
  /\ lookup[g].phase = "answering"
  /\ lookup' = [lookup EXCEPT ![g].phase = "done", ![g].answer = lookup[g].seen.status,
       ![g].seen = NoRecord,
       ![g].freshness = Freshness(lookup[g].seen, clock[lookup[g].replica])]
  /\ UNCHANGED <<history, request, available, clock, server, faults>>

LookupAnswer(g) ==
  LET freshness == Freshness(lookup[g].seen, clock[lookup[g].replica])
      unchecked == \/ lookup[g].seen = NoRecord
                   \/ lookup[g].strict /\ freshness # "FRESH"
  IN /\ lookup[g].phase = "answering"
     /\ lookup' = [lookup EXCEPT ![g].phase = "done", ![g].freshness = freshness,
          ![g].seen = NoRecord,
          ![g].answer = IF unchecked THEN "UNCHECKED" ELSE lookup[g].seen.status]
     /\ UNCHANGED <<history, request, available, clock, server, faults>>

\* The SELECT fails: 500.
LookupError(g) ==
  /\ Persistence = "postgres"
  /\ faults < MaxFaults
  /\ lookup[g].phase = "reading"
  /\ faults' = faults + 1
  /\ lookup' = [lookup EXCEPT ![g].phase = "done", ![g].answer = "ERROR"]
  /\ UNCHANGED <<history, request, available, clock, server>>

-----------------------------------------------------------------------------
(* Processes *)

Tick(r) ==
  /\ clock[r] < MaxTime
  /\ clock' = [clock EXCEPT ![r] = @ + 1]
  /\ UNCHANGED <<history, request, lookup, available, server, faults>>

SetAvailable(r) ==
  /\ server[r] # "closed"
  /\ \/ available[r] /\ faults < MaxFaults /\ faults' = faults + 1
     \/ ~available[r] /\ UNCHANGED faults
  /\ available' = [available EXCEPT ![r] = ~@]
  /\ UNCHANGED <<history, request, lookup, clock, server>>

\* SIGTERM or SIGINT: close() stops accepting connections.
Shutdown(r) ==
  /\ server[r] = "up"
  /\ faults < MaxFaults
  /\ faults' = faults + 1
  /\ server' = [server EXCEPT ![r] = "closing"]
  /\ UNCHANGED <<history, request, lookup, available, clock>>

\* Mutant: connections whose reply was sent are waited for too.
ConnectionsOf(r) ==
  {q \in Requests : request[q] # Unsent /\ request[q].replica = r}
    \union {g \in Lookups : LookupInFlight(g) /\ lookup[g].replica = r}

HandlersOf(r) ==
  {q \in Requests : InFlight(q) /\ request[q].replica = r}
    \union {g \in Lookups : LookupInFlight(g) /\ lookup[g].replica = r}

\* server.close() has called back: no handler is left, the pool is ended.
CloseRuntime(r) ==
  /\ server[r] = "closing"
  /\ HandlersOf(r) = {}
  /\ server' = [server EXCEPT ![r] = "closed"]
  /\ UNCHANGED <<history, request, lookup, available, clock, faults>>

\* Mutant: createStatusRuntime ignores the database configuration.
StartEmpty(r) ==
  /\ server[r] = "closed"
  /\ server' = [server EXCEPT ![r] = "up"]
  /\ available' = [available EXCEPT ![r] = TRUE]
  /\ history' = [d \in Documents |-> << >>]
  /\ UNCHANGED <<request, lookup, clock, faults>>

\* createStatusRuntime: an in-memory repository starts empty.
Start(r) ==
  /\ server[r] = "closed"
  /\ server' = [server EXCEPT ![r] = "up"]
  /\ available' = [available EXCEPT ![r] = TRUE]
  /\ history' = IF Persistence = "memory" THEN [d \in Documents |-> << >>] ELSE history
  /\ UNCHANGED <<request, lookup, clock, faults>>

\* The process dies.  An INSERT on the wire is out of its hands.
Crash(r) ==
  /\ faults < MaxFaults
  /\ server[r] # "closed"
  /\ faults' = faults + 1
  /\ server' = [server EXCEPT ![r] = "closed"]
  /\ request' = [q \in Requests |->
       IF ~(InFlight(q) /\ request[q].replica = r) THEN request[q]
       ELSE IF request[q].phase = "inserting" THEN [request[q] EXCEPT !.phase = "orphan"]
       ELSE Ended(q, "lost")]
  /\ lookup' = [g \in Lookups |->
       IF LookupInFlight(g) /\ lookup[g].replica = r
         THEN [lookup[g] EXCEPT !.phase = "done", !.answer = "ERROR"]
         ELSE lookup[g]]
  /\ UNCHANGED <<history, available, clock>>

-----------------------------------------------------------------------------
Init ==
  /\ history   = [d \in Documents |-> << >>]
  /\ request   = [q \in Requests |-> Unsent]
  /\ lookup    = [g \in Lookups |-> Unsent]
  /\ available = [r \in Replicas |-> TRUE]
  /\ clock     = [r \in Replicas |-> 0]
  /\ server    = [r \in Replicas |-> "up"]
  /\ faults    = 0

TransitionStep(q) ==
  \/ Refuse(q) \/ Enter(q) \/ ReadCurrent(q) \/ Reject(q) \/ Stamp(q)
  \/ Insert(q) \/ InsertConflict(q) \/ Reply(q)

LookupStep(g) == LookupRead(g) \/ LookupAnswer(g)

Next ==
  \/ \E q \in Requests :
       \/ \E r \in Replicas, d \in Documents, s \in Requested : Accept(q, r, d, s)
       \/ TransitionStep(q) \/ OrphanInsert(q) \/ DatabaseError(q)
  \/ \E g \in Lookups :
       \/ \E r \in Replicas, d \in Documents : BeginLookup(g, r, d)
       \/ LookupStep(g) \/ LookupError(g)
  \/ \E r \in Replicas :
       Tick(r) \/ SetAvailable(r) \/ Shutdown(r) \/ CloseRuntime(r) \/ Start(r) \/ Crash(r)

Spec == Init /\ [][Next]_vars

\* The event loop and the database make progress, and close() is carried
\* through; nobody is obliged to call, to shut down or to restart.
Fairness ==
  /\ \A q \in Requests : WF_vars(TransitionStep(q))
  /\ \A g \in Lookups : WF_vars(LookupStep(g))
  /\ \A r \in Replicas : WF_vars(CloseRuntime(r))

FairSpec == Spec /\ Fairness

-----------------------------------------------------------------------------
(* Properties *)

\* Every variable has its type, and an ended lookup has an answer.
TypeOK ==
  /\ history \in [Documents -> Seq(Records)]
  /\ request \in [Requests -> {Unsent} \union RequestStates]
  /\ lookup \in [Lookups -> {Unsent} \union LookupStates]
  /\ \A g \in Lookups : lookup[g].phase = "done" => lookup[g].answer # NoStatus
  /\ available \in [Replicas -> BOOLEAN]
  /\ clock \in [Replicas -> 0 .. MaxTime]
  /\ server \in [Replicas -> {"up", "closing", "closed"}]
  /\ faults \in 0 .. MaxFaults

\* Whatever requests race, crash or are retried, on whichever clocks: the first
\* record ever stored for a document is its issuance, so no document is revoked
\* that was never issued (transition() reads before it appends).
IssuedFirst ==
  \A d \in Documents : history[d] # << >> => history[d][1].status = "ACTIVE"

\* A 201 is a promise: the record it acknowledged is in the durable history,
\* after crashes, database errors and restarts too.
AcknowledgedIsStored ==
  Persistence = "postgres" =>
    \A q \in Requests :
      Answered(q, "created") => request[q].record \in Appended(request[q].doc)

\* A lookup that begins after a transition of the document was acknowledged
\* never answers "unchecked, fresh", the answer for a document the service has
\* never heard of (get() with no record).
AcknowledgedIsVisible ==
  Persistence = "postgres" =>
    \A g \in Lookups :
      /\ lookup[g].phase = "done"
      /\ lookup[g].acked # {}
      /\ ~lookup[g].strict
      => ~(lookup[g].answer = "UNCHECKED" /\ lookup[g].freshness = "FRESH")

\* A graceful shutdown ends the process and its pool only after the last
\* handler: no request in flight is ever served by a closed replica.
ServedByLiveReplica ==
  /\ \A q \in Requests : InFlight(q) => server[request[q].replica] # "closed"
  /\ \A g \in Lookups : LookupInFlight(g) => server[lookup[g].replica] # "closed"

\* With one clock and serialized clients: a lookup that begins after a closing
\* transition was acknowledged never reports the document as ACTIVE.
ClosureIsVisible ==
  \A g \in Lookups :
    lookup[g].phase = "done" /\ lookup[g].acked \intersect ClosingStates # {}
      => lookup[g].answer # "ACTIVE"

\* services/status/test/status-service.test.ts: after REVOKED every further
\* transition is rejected, so a closing record is the last one.
ClosureIsFinal ==
  \A d \in Documents : \A i \in DOMAIN history[d] :
    history[d][i].status \in ClosingStates => i = Len(history[d])

\* Every transition whose connection was accepted is answered or lost.
RequestsEnd == \A q \in Requests : InFlight(q) ~> ~InFlight(q)

\* close() completes, however many handlers were waiting when it was called.
ShutdownEnds == \A r \in Replicas : server[r] = "closing" ~> server[r] = "closed"

\* What the service promises about each document (StatusHistory), read off the
\* records and off what current() returns.
Path(d) == [i \in DOMAIN history[d] |-> history[d][i].status]
Projected(d) == (CHOOSE record \in Current(d) : TRUE).status

Promise == INSTANCE StatusHistory WITH
  path    <- [d \in Documents |-> Path(d)],
  current <- [d \in Documents |-> Projected(d)]

KeepsPromise == Promise!Spec
=============================================================================
