------------------------ MODULE StatusServiceProofs ------------------------
(* Theorems about the status service and the checks that ask it, for every *)
(* value of their constants.                                               *)
EXTENDS StatusLookup, TLAPS

\* The part of the state each group of actions works on.
RequestsOK == request \in [Requests -> {Unsent} \union RequestStates]
LookupsOK == /\ lookup \in [Lookups -> {Unsent} \union LookupStates]
             /\ \A g \in Lookups : lookup[g].phase = "done" => lookup[g].answer # NoStatus

\* A handler that has started has a full state.
LEMMA StartedRequest ==
  ASSUME RequestsOK, NEW q \in Requests, request[q].phase # "unsent"
  PROVE  request[q] \in RequestStates
BY DEF RequestsOK, Unsent

LEMMA StartedLookup ==
  ASSUME LookupsOK, NEW g \in Lookups, lookup[g].phase # "unsent"
  PROVE  lookup[g] \in LookupStates
BY DEF LookupsOK, Unsent

\* Replacing one handler's state keeps the type of all.
LEMMA RequestUpdate ==
  ASSUME RequestsOK, NEW q \in Requests, NEW state \in RequestStates,
         request' = [request EXCEPT ![q] = state]
  PROVE  RequestsOK'
BY DEF RequestsOK

\* A handler that moves on or ends keeps its type.
LEMMA AdvanceType ==
  ASSUME RequestsOK, NEW q \in Requests, request[q].phase # "unsent",
         NEW p \in Phases, Advance(q, p)
  PROVE  RequestsOK'
<1>1. request[q] \in RequestStates
  BY StartedRequest
<1>2. [request[q] EXCEPT !.phase = p] \in RequestStates
  BY <1>1 DEF RequestStates
<1>3. request' = [request EXCEPT ![q] = [request[q] EXCEPT !.phase = p]]
  BY DEF Advance
<1> QED BY <1>2, <1>3, RequestUpdate

LEMMA EndedType ==
  ASSUME RequestsOK, NEW q \in Requests, request[q].phase # "unsent", NEW c \in Replies
  PROVE  Ended(q, c) \in RequestStates
<1>1. request[q] \in RequestStates
  BY StartedRequest
<1> QED BY <1>1 DEF Ended, RequestStates, Phases

LEMMA FinishType ==
  ASSUME RequestsOK, NEW q \in Requests, request[q].phase # "unsent",
         NEW c \in Replies, Finish(q, c)
  PROVE  RequestsOK'
BY EndedType, RequestUpdate DEF Finish

\* Every row current() may return is a record, or there is none.
LEMMA CurrentType ==
  ASSUME TypeOK, NEW d \in Documents, NEW record \in Current(d)
  PROVE  /\ record \in Records \union {NoRecord}
         /\ record # NoRecord => history[d] # << >>
<1>1. history[d] \in Seq(Records)
  BY DEF TypeOK
<1> QED BY <1>1 DEF Current

LEMMA AppendType ==
  ASSUME TypeOK, NEW d \in Documents, NEW record \in Records, AppendRecord(d, record)
  PROVE  history' \in [Documents -> Seq(Records)]
BY DEF TypeOK, AppendRecord

\* A record stamped by a running handler.
LEMMA StampType ==
  ASSUME TypeOK, NEW r \in Replicas, NEW s \in Statuses
  PROVE  [status |-> s, updatedAt |-> clock[r]] \in Records
BY DEF TypeOK, Records

\* What an INSERT is about is a record, once it has been stamped.
Stamped ==
  \A q \in Requests : request[q].phase \in {"inserting", "committed", "orphan"} =>
    request[q].record \in Records

Types == TypeOK /\ Stamped

LEMMA InitTypes == Init => Types
BY BoundsAssumption DEF Init, Types, TypeOK, Stamped, Unsent

\* Steps of a transition handler.
LEMMA TransitionTypes ==
  ASSUME Types, NEW q \in Requests,
         TransitionStep(q) \/ OrphanInsert(q) \/ DatabaseError(q)
  PROVE  Types'
<1> USE DEF Types
<1>1. RequestsOK
  BY DEF TypeOK, RequestsOK
<1>2. ASSUME request[q].phase # "unsent"
      PROVE  /\ request[q] \in RequestStates
             /\ request[q].replica \in Replicas /\ request[q].doc \in Documents
             /\ request[q].status \in Statuses
  BY <1>1, <1>2, StartedRequest DEF RequestStates
<1>3. ASSUME request[q].phase # "unsent", NEW c \in Replies, Finish(q, c)
      PROVE  RequestsOK' /\ Stamped'
  <2>1. RequestsOK'
    BY <1>1, <1>3, FinishType
  <2>2. request'[q].phase = "done" /\ \A p \in Requests \ {q} : request'[p] = request[p]
    BY <1>1, <1>2, <1>3 DEF Finish, Ended, RequestsOK, RequestStates
  <2> QED BY <2>1, <2>2 DEF Stamped
<1>4. CASE Refuse(q)
  <2>1. PICK c \in Refusals(request[q].replica) : Finish(q, c)
    BY <1>4 DEF Refuse
  <2>2. c \in Replies
    BY <2>1 DEF Refusals, Replies
  <2> QED BY <1>3, <1>4, <2>1, <2>2 DEF Refuse, TypeOK, RequestsOK
<1>5. CASE Enter(q)
  <2>1. RequestsOK'
    BY <1>1, <1>5, AdvanceType DEF Enter, Phases, InFlightPhases
  <2> QED BY <1>1, <1>2, <1>5, <2>1 DEF Enter, Advance, TypeOK, RequestsOK, RequestStates, Stamped
<1>6. CASE ReadCurrent(q)
  <2>1. PICK record \in Current(request[q].doc) :
          request' = [request EXCEPT ![q].phase = "deciding", ![q].seen = record]
    BY <1>6 DEF ReadCurrent
  <2>2. record \in Records \union {NoRecord}
    BY <1>2, <1>6, <2>1, CurrentType DEF ReadCurrent
  <2>3. [request[q] EXCEPT !.phase = "deciding", !.seen = record] \in RequestStates
    BY <1>2, <1>6, <2>2 DEF ReadCurrent, RequestStates, Phases, InFlightPhases
  <2>4. request' = [request EXCEPT ![q] =
                      [request[q] EXCEPT !.phase = "deciding", !.seen = record]]
    BY <2>1
  <2>5. RequestsOK'
    BY <1>1, <2>3, <2>4, RequestUpdate
  <2> QED BY <1>1, <1>2, <1>6, <2>4, <2>5
          DEF ReadCurrent, TypeOK, RequestsOK, RequestStates, Stamped
<1>7. CASE Reject(q)
  BY <1>3, <1>7 DEF Reject, Replies, TypeOK, RequestsOK
<1>8. CASE Stamp(q)
  <2> DEFINE record == [status |-> request[q].status,
                        updatedAt |-> clock[request[q].replica]]
             state(p) == [request[q] EXCEPT !.phase = p, !.seen = NoRecord,
                            !.record = record]
  <2>1. record \in Records
    BY <1>2, <1>8, StampType DEF Stamp
  <2>2. PICK p \in {"inserting", "committed"} : request' = [request EXCEPT ![q] = state(p)]
    BY <1>8 DEF Stamp
  <2>3. state(p) \in RequestStates
    BY <1>2, <1>8, <2>1, <2>2 DEF Stamp, RequestStates, Phases, InFlightPhases
  <2>4. RequestsOK'
    BY <1>1, <2>2, <2>3, RequestUpdate
  <2>5. Stamped'
    BY <1>1, <1>2, <1>8, <2>1, <2>2 DEF Stamp, RequestsOK, RequestStates, Stamped
  <2>6. history' \in [Documents -> Seq(Records)]
    BY <1>2, <1>8, <2>1, AppendType DEF Stamp, TypeOK
  <2> QED BY <1>8, <2>4, <2>5, <2>6 DEF Stamp, TypeOK, RequestsOK
<1>9. CASE Insert(q)
  <2>1. RequestsOK'
    BY <1>1, <1>9, AdvanceType DEF Insert, Phases, InFlightPhases
  <2>2. Stamped'
    BY <1>1, <1>2, <1>9 DEF Insert, Advance, RequestsOK, RequestStates, Stamped
  <2>3. history' \in [Documents -> Seq(Records)]
    BY <1>2, <1>9, AppendType DEF Insert, Stamped
  <2> QED BY <1>9, <2>1, <2>2, <2>3 DEF Insert, TypeOK, RequestsOK
<1>10. CASE InsertConflict(q)
  BY <1>3, <1>10 DEF InsertConflict, Replies, TypeOK, RequestsOK
<1>11. CASE Reply(q)
  BY <1>3, <1>11 DEF Reply, Replies, TypeOK, RequestsOK
<1>12. CASE OrphanInsert(q)
  <2>1. history' \in [Documents -> Seq(Records)]
    BY <1>2, <1>12, AppendType DEF OrphanInsert, Stamped, TypeOK
  <2>2. OrphanReply(q) \in Replies
    BY DEF OrphanReply, Replies
  <2> QED BY <1>3, <1>12, <2>1, <2>2 DEF OrphanInsert, TypeOK, RequestsOK
<1>13. CASE DatabaseError(q)
  <2>1. faults' \in 0 .. MaxFaults
    BY <1>13, BoundsAssumption DEF DatabaseError, TypeOK
  <2>2. CASE Finish(q, "conflict") /\ request[q].phase # "unsent"
    BY <1>3, <1>13, <2>1, <2>2 DEF DatabaseError, Replies, TypeOK, RequestsOK
  <2>3. CASE LosesStatement(q)
    <3>1. /\ request' = [request EXCEPT ![q] =
                           [request[q] EXCEPT !.phase = "orphan", !.reply = "conflict"]]
          /\ request[q].phase = "inserting"
      BY <2>3 DEF LosesStatement
    <3>2. [request[q] EXCEPT !.phase = "orphan", !.reply = "conflict"] \in RequestStates
      BY <1>2, <3>1 DEF RequestStates, Phases, Replies
    <3>3. RequestsOK'
      BY <1>1, <3>1, <3>2, RequestUpdate
    <3>4. Stamped'
      BY <1>1, <1>2, <3>1 DEF RequestsOK, RequestStates, Stamped
    <3> QED BY <1>13, <2>1, <3>3, <3>4 DEF DatabaseError, TypeOK, RequestsOK
  <2> QED BY <1>13, <2>2, <2>3 DEF DatabaseError
<1> QED BY <1>4, <1>5, <1>6, <1>7, <1>8, <1>9, <1>10, <1>11, <1>12, <1>13 DEF TransitionStep

\* Steps of a lookup handler.
LEMMA LookupTypes ==
  ASSUME Types, NEW g \in Lookups,
         \/ \E r \in Replicas, d \in Documents : BeginLookup(g, r, d)
         \/ LookupStep(g)
         \/ LookupError(g)
  PROVE  Types'
<1> USE DEF Types
<1>0. LookupsOK
  BY DEF TypeOK, LookupsOK
<1>1. ASSUME NEW state \in LookupStates, lookup' = [lookup EXCEPT ![g] = state],
             state.phase = "done" => state.answer # NoStatus
      PROVE  LookupsOK'
  BY <1>0, <1>1 DEF LookupsOK
<1>2. ASSUME UNCHANGED <<history, request, available, clock, server>>,
             LookupsOK', faults' \in 0 .. MaxFaults
      PROVE  Types'
  BY <1>2 DEF TypeOK, LookupsOK, Stamped
<1>3. ASSUME NEW r \in Replicas, NEW d \in Documents, BeginLookup(g, r, d)
      PROVE  Types'
  <2>1. PICK strict \in BOOLEAN : lookup' = [lookup EXCEPT ![g] =
         [phase |-> IF available[r] THEN "reading" ELSE "done",
          replica |-> r, doc |-> d, strict |-> strict, acked |-> Acknowledged(d),
          seen |-> NoRecord, freshness |-> "UNAVAILABLE",
          answer |-> IF available[r] THEN NoStatus ELSE "UNCHECKED"]]
    BY <1>3 DEF BeginLookup
  <2>2. Acknowledged(d) \in SUBSET Statuses
    BY DEF Acknowledged, Answered, TypeOK, RequestStates, Unsent
  <2>3. LookupsOK'
    <3> DEFINE state == [phase |-> IF available[r] THEN "reading" ELSE "done",
          replica |-> r, doc |-> d, strict |-> strict, acked |-> Acknowledged(d),
          seen |-> NoRecord, freshness |-> "UNAVAILABLE",
          answer |-> IF available[r] THEN NoStatus ELSE "UNCHECKED"]
    <3>1. state \in LookupStates
      BY <2>2 DEF LookupStates
    <3>2. state.phase = "done" => state.answer # NoStatus
      BY DEF NoStatus
    <3> QED BY <1>1, <2>1, <3>1, <3>2
  <2> QED BY <1>2, <1>3, <2>3 DEF BeginLookup, TypeOK
<1>4. ASSUME lookup[g].phase # "unsent"
      PROVE  lookup[g] \in LookupStates
  BY <1>0, <1>4, StartedLookup
<1>5. CASE LookupRead(g)
  <2>1. PICK record \in Current(lookup[g].doc) :
          lookup' = [lookup EXCEPT ![g].phase = "answering", ![g].seen = record]
    BY <1>5 DEF LookupRead
  <2>2. lookup[g] \in LookupStates /\ lookup[g].doc \in Documents
    BY <1>4, <1>5 DEF LookupRead, LookupStates
  <2>3. record \in Records \union {NoRecord}
    BY <2>1, <2>2, CurrentType
  <2>4. [lookup[g] EXCEPT !.phase = "answering", !.seen = record] \in LookupStates
    BY <2>2, <2>3 DEF LookupStates
  <2>5. [lookup[g] EXCEPT !.phase = "answering", !.seen = record].phase # "done"
    BY <2>2 DEF LookupStates
  <2> QED BY <1>1, <1>2, <1>5, <2>1, <2>4, <2>5 DEF LookupRead, TypeOK
<1>6. CASE LookupAnswer(g)
  <2> DEFINE freshness == Freshness(lookup[g].seen, clock[lookup[g].replica])
             unchecked == \/ lookup[g].seen = NoRecord
                          \/ lookup[g].strict /\ freshness # "FRESH"
             answer == IF unchecked THEN "UNCHECKED" ELSE lookup[g].seen.status
  <2>1. lookup[g] \in LookupStates
    BY <1>4, <1>6 DEF LookupAnswer
  <2>2. freshness \in {"FRESH", "STALE"}
    BY DEF Freshness
  <2>3. answer \in Statuses \union {"UNCHECKED"}
    BY <2>1 DEF LookupStates, Records
  <2>4. answer # NoStatus
    BY <2>3 DEF Statuses, ClosingStates, NoStatus
  <2> DEFINE state == [lookup[g] EXCEPT !.phase = "done", !.freshness = freshness,
                         !.seen = NoRecord, !.answer = answer]
  <2>5. lookup' = [lookup EXCEPT ![g] = state]
    BY <1>6 DEF LookupAnswer
  <2> HIDE DEF freshness, answer
  <2>6. state \in LookupStates /\ state.answer = answer
    BY <2>1, <2>2, <2>3 DEF LookupStates
  <2> HIDE DEF state
  <2>7. LookupsOK'
    BY <1>1, <2>4, <2>5, <2>6
  <2> QED BY <1>2, <1>6, <2>7 DEF LookupAnswer, TypeOK
<1>7. CASE LookupError(g)
  <2>1. lookup[g] \in LookupStates
    BY <1>4, <1>7 DEF LookupError
  <2>2. [lookup[g] EXCEPT !.phase = "done", !.answer = "ERROR"] \in LookupStates
    BY <2>1 DEF LookupStates
  <2>3. [lookup[g] EXCEPT !.phase = "done", !.answer = "ERROR"].answer # NoStatus
    BY <2>1 DEF LookupStates, NoStatus
  <2>4. lookup' = [lookup EXCEPT ![g] = [lookup[g] EXCEPT !.phase = "done", !.answer = "ERROR"]]
    BY <1>7 DEF LookupError
  <2>5. faults' \in 0 .. MaxFaults
    BY <1>7, BoundsAssumption DEF LookupError, TypeOK
  <2> QED BY <1>1, <1>2, <1>7, <2>2, <2>3, <2>4, <2>5 DEF LookupError
<1> QED BY <1>3, <1>5, <1>6, <1>7 DEF LookupStep

\* Steps of a process.
LEMMA ProcessTypes ==
  ASSUME Types, NEW r \in Replicas,
         \/ Tick(r) \/ SetAvailable(r) \/ Shutdown(r)
         \/ CloseRuntime(r) \/ Start(r) \/ Crash(r)
  PROVE  Types'
<1> USE DEF Types
<1>1. CASE Tick(r)
  BY <1>1, BoundsAssumption DEF Tick, TypeOK, Stamped
<1>2. CASE SetAvailable(r)
  BY <1>2, BoundsAssumption DEF SetAvailable, TypeOK, Stamped
<1>3. CASE Shutdown(r)
  BY <1>3, BoundsAssumption DEF Shutdown, TypeOK, Stamped
<1>4. CASE CloseRuntime(r)
  BY <1>4 DEF CloseRuntime, TypeOK, Stamped
<1>5. CASE Start(r)
  BY <1>5 DEF Start, TypeOK, Stamped
<1>6. CASE Crash(r)
  <2>1. RequestsOK /\ LookupsOK
    BY DEF TypeOK, RequestsOK, LookupsOK
  <2>2. \A q \in Requests : InFlight(q) => request[q].phase # "unsent"
    BY DEF InFlight, InFlightPhases
  <2>3. \A q \in Requests : request'[q] \in {Unsent} \union RequestStates
    <3> TAKE q \in Requests
    <3>1. CASE ~(InFlight(q) /\ request[q].replica = r)
      BY <1>6, <2>1, <3>1 DEF Crash, RequestsOK
    <3>2. CASE InFlight(q) /\ request[q].replica = r
      <4>1. request[q] \in RequestStates /\ Ended(q, "lost") \in RequestStates
        BY <2>1, <2>2, <3>2, StartedRequest, EndedType DEF Replies
      <4>2. [request[q] EXCEPT !.phase = "orphan"] \in RequestStates
        BY <4>1 DEF RequestStates, Phases
      <4> QED BY <1>6, <3>2, <4>1, <4>2 DEF Crash
    <3> QED BY <3>1, <3>2
  <2>4. RequestsOK'
    BY <1>6, <2>3 DEF Crash, RequestsOK
  <2>5. Stamped'
    <3> SUFFICES ASSUME NEW q \in Requests,
                        request'[q].phase \in {"inserting", "committed", "orphan"}
                 PROVE  request'[q].record \in Records
      BY DEF Stamped
    <3>1. CASE ~(InFlight(q) /\ request[q].replica = r)
      BY <1>6, <3>1 DEF Crash, Stamped
    <3>2. CASE InFlight(q) /\ request[q].replica = r /\ request[q].phase = "inserting"
      <4>1. request[q] \in RequestStates
        BY <2>1, <2>2, <3>2, StartedRequest
      <4> QED BY <1>6, <3>2, <4>1 DEF Crash, Stamped, RequestStates
    <3>3. CASE InFlight(q) /\ request[q].replica = r /\ request[q].phase # "inserting"
      <4>1. request[q] \in RequestStates
        BY <2>1, <2>2, <3>3, StartedRequest
      <4>2. request'[q] = Ended(q, "lost")
        BY <1>6, <3>3 DEF Crash
      <4>3. Ended(q, "lost").phase = "done"
        BY <4>1 DEF Ended, RequestStates
      <4> QED BY <4>2, <4>3
    <3> QED BY <3>1, <3>2, <3>3
  <2>6. LookupsOK'
    <3>1. \A g \in Lookups : /\ lookup'[g] \in {Unsent} \union LookupStates
                             /\ lookup'[g].phase = "done" => lookup'[g].answer # NoStatus
      <4> TAKE g \in Lookups
      <4>1. CASE ~(LookupInFlight(g) /\ lookup[g].replica = r)
        BY <1>6, <2>1, <4>1 DEF Crash, LookupsOK
      <4>2. CASE LookupInFlight(g) /\ lookup[g].replica = r
        <5>1. lookup[g] \in LookupStates
          BY <2>1, <4>2, StartedLookup DEF LookupInFlight
        <5>2. [lookup[g] EXCEPT !.phase = "done", !.answer = "ERROR"] \in LookupStates
          BY <5>1 DEF LookupStates
        <5>3. [lookup[g] EXCEPT !.phase = "done", !.answer = "ERROR"].answer # NoStatus
          BY <5>1 DEF LookupStates, NoStatus
        <5> QED BY <1>6, <4>2, <5>2, <5>3 DEF Crash
      <4> QED BY <4>1, <4>2
    <3> QED BY <1>6, <3>1 DEF Crash, LookupsOK
  <2>7. faults < MaxFaults /\ faults' = faults + 1
    BY <1>6 DEF Crash
  <2>8. faults' \in 0 .. MaxFaults
    BY <2>7, BoundsAssumption DEF TypeOK
  <2>9. server' = [server EXCEPT ![r] = "closed"]
    BY <1>6 DEF Crash
  <2>10. server' \in [Replicas -> {"up", "closing", "closed"}]
    BY <2>9 DEF TypeOK
  <2> QED BY <1>6, <2>4, <2>5, <2>6, <2>8, <2>10 DEF Crash, TypeOK, RequestsOK, LookupsOK
<1> QED BY <1>1, <1>2, <1>3, <1>4, <1>5, <1>6

\* A client's connection is accepted.
LEMMA AcceptTypes ==
  ASSUME Types, NEW q \in Requests, NEW r \in Replicas, NEW d \in Documents,
         NEW s \in Requested, Accept(q, r, d, s)
  PROVE  Types'
<1> DEFINE state == [phase |-> "receiving", replica |-> r, doc |-> d, status |-> s,
                     seen |-> NoRecord, record |-> NoRecord, reply |-> NoReply]
<1>1. RequestsOK
  BY DEF Types, TypeOK, RequestsOK
<1>2. state \in RequestStates
  BY RequestedAssumption DEF RequestStates, Phases, InFlightPhases
<1>3. request' = [request EXCEPT ![q] = state]
  BY DEF Accept
<1>4. RequestsOK'
  BY <1>1, <1>2, <1>3, RequestUpdate
<1>5. Stamped'
  BY <1>1, <1>3 DEF Types, Stamped, RequestsOK
<1> QED BY <1>4, <1>5 DEF Accept, Types, TypeOK, RequestsOK

-----------------------------------------------------------------------------
(* Shutdown and crashes: who serves a handler *)

\* What a step of handler q leaves alone.
LEMMA HandlerStep ==
  ASSUME Types, NEW q \in Requests,
         TransitionStep(q) \/ OrphanInsert(q) \/ DatabaseError(q)
  PROVE  /\ request[q] \in RequestStates
         /\ request'[q].replica = request[q].replica
         /\ request'[q].doc = request[q].doc
         /\ request'[q].status = request[q].status
         /\ InFlight(q)' => InFlight(q)
         /\ \A p \in Requests \ {q} : request'[p] = request[p]
         /\ UNCHANGED <<lookup, server>>
<1>1. request \in [Requests -> {Unsent} \union RequestStates]
  BY DEF Types, TypeOK
<1>2. request[q].phase # "unsent"
  BY DEF TransitionStep, Refuse, Enter, ReadCurrent, Reject, Stamp, Insert, InsertConflict,
         Reply, OrphanInsert, DatabaseError, LosesStatement
<1>3. request[q] \in RequestStates
  BY <1>1, <1>2 DEF Unsent
<1>4. ASSUME NEW c, Finish(q, c)
      PROVE  /\ request'[q].replica = request[q].replica
             /\ request'[q].doc = request[q].doc
             /\ request'[q].status = request[q].status
             /\ request'[q].phase = "done"
             /\ \A p \in Requests \ {q} : request'[p] = request[p]
  BY <1>1, <1>3, <1>4 DEF Finish, Ended, RequestStates
<1>5. CASE \/ Refuse(q) \/ Reject(q) \/ InsertConflict(q) \/ Reply(q) \/ OrphanInsert(q)
           \/ DatabaseError(q) /\ Finish(q, "conflict")
  BY <1>3, <1>4, <1>5 DEF Refuse, Reject, InsertConflict, Reply, OrphanInsert, DatabaseError,
     InFlight, InFlightPhases
<1>9. CASE DatabaseError(q) /\ LosesStatement(q)
  BY <1>1, <1>3, <1>9
     DEF DatabaseError, LosesStatement, RequestStates, InFlight, InFlightPhases
<1>6. CASE Enter(q) \/ Insert(q)
  BY <1>1, <1>3, <1>6 DEF Enter, Insert, Advance, RequestStates, InFlight, InFlightPhases
<1>7. CASE ReadCurrent(q)
  <2>1. PICK record \in Current(request[q].doc) :
          request' = [request EXCEPT ![q].phase = "deciding", ![q].seen = record]
    BY <1>7 DEF ReadCurrent
  <2> QED BY <1>1, <1>3, <1>7, <2>1 DEF ReadCurrent, RequestStates, InFlight, InFlightPhases
<1>8. CASE Stamp(q)
  BY <1>1, <1>3, <1>8 DEF Stamp, RequestStates, InFlight, InFlightPhases
<1> QED BY <1>3, <1>5, <1>6, <1>7, <1>8, <1>9 DEF TransitionStep, DatabaseError

\* A statement is lost: the handler lets go of it.
LEMMA LosingStep ==
  ASSUME Types, NEW q \in Requests, DatabaseError(q), LosesStatement(q)
  PROVE  /\ UNCHANGED <<history, clock>>
         /\ request[q].phase = "inserting" /\ request'[q].phase = "orphan"
         /\ request'[q].record = request[q].record /\ request'[q].reply = "conflict"
<1>1. request \in [Requests -> {Unsent} \union RequestStates] /\ request[q] \in RequestStates
  BY HandlerStep DEF Types, TypeOK
<1> QED BY <1>1 DEF DatabaseError, LosesStatement, RequestStates

\* What a step of a lookup leaves alone.
LEMMA LookupHandlerStep ==
  ASSUME Types, NEW g \in Lookups, LookupStep(g) \/ LookupError(g)
  PROVE  /\ LookupInFlight(g)
         /\ lookup'[g].replica = lookup[g].replica
         /\ \A h \in Lookups \ {g} : lookup'[h] = lookup[h]
         /\ UNCHANGED <<history, request, server>>
<1>1. lookup \in [Lookups -> {Unsent} \union LookupStates]
  BY DEF Types, TypeOK
<1>2. LookupInFlight(g)
  BY DEF LookupStep, LookupRead, LookupAnswer, LookupError, LookupInFlight
<1>3. lookup[g] \in LookupStates
  BY <1>1, <1>2 DEF Unsent, LookupInFlight
<1>4. CASE LookupRead(g)
  <2>1. PICK record \in Current(lookup[g].doc) :
          lookup' = [lookup EXCEPT ![g].phase = "answering", ![g].seen = record]
    BY <1>4 DEF LookupRead
  <2> QED BY <1>1, <1>2, <1>3, <1>4, <2>1 DEF LookupRead, LookupStates
<1>5. CASE LookupAnswer(g)
  BY <1>1, <1>2, <1>3, <1>5 DEF LookupAnswer, LookupStates
<1>6. CASE LookupError(g)
  BY <1>1, <1>2, <1>3, <1>6 DEF LookupError, LookupStates
<1> QED BY <1>4, <1>5, <1>6 DEF LookupStep

\* A step of a process: handlers it does not end are left alone.
LEMMA CrashStep ==
  ASSUME Types, NEW r \in Replicas, Crash(r)
  PROVE  /\ \A q \in Requests :
              /\ request'[q].doc = request[q].doc \/ request[q] = Unsent
              /\ InFlight(q)' => request'[q] = request[q] /\ request[q].replica # r
              /\ \/ request'[q] = request[q]
                 \/ /\ request[q] \in RequestStates
                    /\ request[q].phase = "inserting" /\ request'[q].phase = "orphan"
                    /\ request'[q].record = request[q].record
                 \/ request'[q].phase = "done" /\ request'[q].reply = "lost"
         /\ \A g \in Lookups :
              LookupInFlight(g)' => lookup'[g] = lookup[g] /\ lookup[g].replica # r
         /\ server' = [server EXCEPT ![r] = "closed"]
<1>1. /\ request \in [Requests -> {Unsent} \union RequestStates]
      /\ lookup \in [Lookups -> {Unsent} \union LookupStates]
  BY DEF Types, TypeOK
<1>2. ASSUME NEW q \in Requests
      PROVE  /\ request'[q].doc = request[q].doc \/ request[q] = Unsent
             /\ InFlight(q)' => request'[q] = request[q] /\ request[q].replica # r
             /\ \/ request'[q] = request[q]
                \/ /\ request[q] \in RequestStates
                   /\ request[q].phase = "inserting" /\ request'[q].phase = "orphan"
                   /\ request'[q].record = request[q].record
                \/ request'[q].phase = "done" /\ request'[q].reply = "lost"
  <2>1. CASE ~(InFlight(q) /\ request[q].replica = r)
    BY <2>1 DEF Crash, InFlight
  <2>2. CASE InFlight(q) /\ request[q].replica = r
    <3>1. request[q] \in RequestStates
      BY <1>1, <2>2 DEF Unsent, InFlight, InFlightPhases
    <3>2. CASE request[q].phase = "inserting"
      <4>1. request'[q] = [request[q] EXCEPT !.phase = "orphan"]
        BY <2>2, <3>2 DEF Crash
      <4> QED BY <3>1, <3>2, <4>1 DEF RequestStates, InFlight, InFlightPhases
    <3>3. CASE request[q].phase # "inserting"
      <4>1. request'[q] = Ended(q, "lost")
        BY <2>2, <3>3 DEF Crash
      <4> QED BY <3>1, <4>1 DEF Ended, RequestStates, InFlight, InFlightPhases
    <3> QED BY <3>2, <3>3
  <2> QED BY <2>1, <2>2
<1>3. ASSUME NEW g \in Lookups, LookupInFlight(g)'
      PROVE  lookup'[g] = lookup[g] /\ lookup[g].replica # r
  <2>1. CASE ~(LookupInFlight(g) /\ lookup[g].replica = r)
    BY <1>3, <2>1 DEF Crash, LookupInFlight
  <2>2. CASE LookupInFlight(g) /\ lookup[g].replica = r
    <3>1. lookup[g] \in LookupStates
      BY <1>1, <2>2 DEF Unsent, LookupInFlight
    <3>2. lookup'[g] = [lookup[g] EXCEPT !.phase = "done", !.answer = "ERROR"]
      BY <2>2 DEF Crash
    <3> QED BY <1>3, <3>1, <3>2 DEF LookupStates, LookupInFlight
  <2> QED BY <2>1, <2>2
<1> QED BY <1>2, <1>3 DEF Crash

ServedInv == Types /\ ServedByLiveReplica

LEMMA TypesStep == Types /\ [Next]_vars => Types'
<1> SUFFICES ASSUME Types, [Next]_vars PROVE Types'
  OBVIOUS
<1>1. CASE UNCHANGED vars
  BY <1>1 DEF vars, Types, TypeOK, Stamped
<1>2. ASSUME NEW q \in Requests, NEW r \in Replicas, NEW d \in Documents,
             NEW s \in Requested, Accept(q, r, d, s)
      PROVE  Types'
  BY <1>2, AcceptTypes
<1>3. ASSUME NEW q \in Requests, TransitionStep(q) \/ OrphanInsert(q) \/ DatabaseError(q)
      PROVE  Types'
  BY <1>3, TransitionTypes
<1>4. ASSUME NEW g \in Lookups,
             \/ \E r \in Replicas, d \in Documents : BeginLookup(g, r, d)
             \/ LookupStep(g)
             \/ LookupError(g)
      PROVE  Types'
  BY <1>4, LookupTypes
<1>5. ASSUME NEW r \in Replicas,
             \/ Tick(r) \/ SetAvailable(r) \/ Shutdown(r)
             \/ CloseRuntime(r) \/ Start(r) \/ Crash(r)
      PROVE  Types'
  BY <1>5, ProcessTypes
<1> QED BY <1>1, <1>2, <1>3, <1>4, <1>5 DEF Next

\* Type correctness: every reachable state of the service has the types of
\* TypeOK, however many requests, replicas, documents and faults there are.
THEOREM TypeCorrect == Spec => []TypeOK
<1>1. Init => Types
  BY InitTypes
<1>2. Types /\ [Next]_vars => Types'
  BY TypesStep
<1>3. Types => TypeOK
  BY DEF Types
<1> QED BY <1>1, <1>2, <1>3, PTL DEF Spec

LEMMA ServedStep == ServedInv /\ [Next]_vars => ServedByLiveReplica'
<1> SUFFICES ASSUME ServedInv, [Next]_vars PROVE ServedByLiveReplica'
  OBVIOUS
<1> USE DEF ServedInv
<1>0. /\ request \in [Requests -> {Unsent} \union RequestStates]
      /\ lookup \in [Lookups -> {Unsent} \union LookupStates]
      /\ server \in [Replicas -> {"up", "closing", "closed"}]
  BY DEF Types, TypeOK
<1>a. /\ \A q \in Requests : InFlight(q) => request[q].replica \in Replicas
      /\ \A g \in Lookups : LookupInFlight(g) => lookup[g].replica \in Replicas
  BY <1>0 DEF InFlight, InFlightPhases, LookupInFlight, Unsent, RequestStates, LookupStates
<1>1. CASE UNCHANGED vars
  BY <1>1 DEF vars, ServedByLiveReplica, InFlight, LookupInFlight
<1>2. ASSUME NEW q \in Requests, NEW r \in Replicas, NEW d \in Documents,
             NEW s \in Requested, Accept(q, r, d, s)
      PROVE  ServedByLiveReplica'
  <2>1. request'[q].replica = r /\ \A p \in Requests \ {q} : request'[p] = request[p]
    BY <1>0, <1>2 DEF Accept
  <2> QED BY <1>2, <2>1 DEF Accept, ServedByLiveReplica, InFlight, LookupInFlight
<1>3. ASSUME NEW q \in Requests, TransitionStep(q) \/ OrphanInsert(q) \/ DatabaseError(q)
      PROVE  ServedByLiveReplica'
  BY <1>3, HandlerStep DEF ServedByLiveReplica, InFlight, LookupInFlight
<1>4. ASSUME NEW g \in Lookups, NEW r \in Replicas, NEW d \in Documents, BeginLookup(g, r, d)
      PROVE  ServedByLiveReplica'
  <2>1. lookup'[g].replica = r /\ \A h \in Lookups \ {g} : lookup'[h] = lookup[h]
    BY <1>0, <1>4 DEF BeginLookup
  <2> QED BY <1>4, <2>1 DEF BeginLookup, ServedByLiveReplica, InFlight, LookupInFlight
<1>5. ASSUME NEW g \in Lookups, LookupStep(g) \/ LookupError(g)
      PROVE  ServedByLiveReplica'
  BY <1>5, LookupHandlerStep DEF ServedByLiveReplica, InFlight, LookupInFlight
<1>6. ASSUME NEW r \in Replicas, Tick(r) \/ SetAvailable(r) \/ Shutdown(r) \/ Start(r)
      PROVE  ServedByLiveReplica'
  <2>1. UNCHANGED <<request, lookup>>
    BY <1>6 DEF Tick, SetAvailable, Shutdown, Start
  <2>2. \A p \in Replicas : server[p] # "closed" => server'[p] # "closed"
    BY <1>0, <1>6 DEF Tick, SetAvailable, Shutdown, Start
  <2> QED BY <1>a, <2>1, <2>2 DEF ServedByLiveReplica, InFlight, LookupInFlight
<1>7. ASSUME NEW r \in Replicas, CloseRuntime(r)
      PROVE  ServedByLiveReplica'
  <2>1. \A q \in Requests : InFlight(q) => request[q].replica # r
    BY <1>7 DEF CloseRuntime, HandlersOf
  <2>2. \A g \in Lookups : LookupInFlight(g) => lookup[g].replica # r
    BY <1>7 DEF CloseRuntime, HandlersOf
  <2>3. server' = [server EXCEPT ![r] = "closed"] /\ UNCHANGED <<request, lookup>>
    BY <1>7 DEF CloseRuntime
  <2> QED BY <1>0, <2>1, <2>2, <2>3 DEF ServedByLiveReplica, InFlight, LookupInFlight
<1>8. ASSUME NEW r \in Replicas, Crash(r)
      PROVE  ServedByLiveReplica'
  <2>1. \A p \in Replicas \ {r} : server'[p] = server[p]
    BY <1>0, <1>8, CrashStep
  <2>2. ASSUME NEW q \in Requests, InFlight(q)'
        PROVE  server'[request'[q].replica] # "closed"
    <3>1. request'[q] = request[q] /\ request[q].replica # r
      BY <1>8, <2>2, CrashStep
    <3>2. InFlight(q)
      BY <2>2, <3>1 DEF InFlight
    <3> QED BY <1>a, <2>1, <3>1, <3>2 DEF ServedByLiveReplica
  <2>3. ASSUME NEW g \in Lookups, LookupInFlight(g)'
        PROVE  server'[lookup'[g].replica] # "closed"
    <3>1. lookup'[g] = lookup[g] /\ lookup[g].replica # r
      BY <1>8, <2>3, CrashStep
    <3>2. LookupInFlight(g)
      BY <2>3, <3>1 DEF LookupInFlight
    <3> QED BY <1>a, <2>1, <3>1, <3>2 DEF ServedByLiveReplica
  <2> QED BY <2>2, <2>3 DEF ServedByLiveReplica
<1> QED BY <1>1, <1>2, <1>3, <1>4, <1>5, <1>6, <1>7, <1>8 DEF Next

\* A graceful shutdown waits for every handler and a crash takes its handlers
\* along, so no handler in flight ever belongs to a closed process.
THEOREM HandlersAreServed == Spec => []ServedByLiveReplica
<1>1. Init => ServedInv
  BY InitTypes DEF ServedInv, Init, ServedByLiveReplica, InFlight, InFlightPhases,
     LookupInFlight, Unsent
<1>2. ServedInv /\ [Next]_vars => ServedInv'
  BY TypesStep, ServedStep DEF ServedInv
<1>3. ServedInv => ServedByLiveReplica
  BY DEF ServedInv
<1> QED BY <1>1, <1>2, <1>3, PTL DEF Spec

-----------------------------------------------------------------------------
(* Issuance comes first *)

\* What a handler knows of the history: a row it has seen is still there, and
\* an INSERT under way issues the document or follows another record.
Grounded ==
  \A q \in Requests :
    /\ request[q].phase = "deciding" /\ request[q].seen # NoRecord
         => history[request[q].doc] # << >>
    /\ request[q].phase \in {"inserting", "orphan"}
         => /\ Persistence = "postgres"
            /\ request[q].record.status = "ACTIVE" \/ history[request[q].doc] # << >>

IssuedInv == ServedInv /\ IssuedFirst /\ Grounded

LEMMA AppendGrows ==
  ASSUME TypeOK, IssuedFirst, NEW d \in Documents, NEW record \in Records,
         AppendRecord(d, record), history[d] = << >> => record.status = "ACTIVE"
  PROVE  /\ IssuedFirst'
         /\ history'[d] # << >>
         /\ \A e \in Documents : history[e] # << >> => history'[e] # << >>
<1>1. history \in [Documents -> Seq(Records)]
  BY DEF TypeOK
<1>2. history'[d] = Append(history[d], record) /\ history[d] \in Seq(Records)
  BY <1>1 DEF AppendRecord
<1>3. \A e \in Documents \ {d} : history'[e] = history[e]
  BY <1>1 DEF AppendRecord
<1>4. history'[d] # << >>
  BY <1>2
<1>5. history'[d][1].status = "ACTIVE"
  <2>1. CASE history[d] = << >>
    BY <1>2, <2>1
  <2>2. CASE history[d] # << >>
    <3>1. history'[d][1] = history[d][1]
      BY <1>2, <2>2
    <3> QED BY <2>2, <3>1 DEF IssuedFirst
  <2> QED BY <2>1, <2>2
<1> QED BY <1>3, <1>4, <1>5 DEF IssuedFirst

\* A handler's step keeps the invariant if it does not disturb the history.
LEMMA QuietStep ==
  ASSUME IssuedInv, NEW q \in Requests, UNCHANGED history,
         \A p \in Requests \ {q} : request'[p] = request[p],
         request'[q].phase = "deciding" /\ request'[q].seen # NoRecord
           => history[request'[q].doc] # << >>,
         request'[q].phase \in {"inserting", "orphan"}
           => /\ Persistence = "postgres"
              /\ request'[q].record.status = "ACTIVE" \/ history[request'[q].doc] # << >>
  PROVE  IssuedFirst' /\ Grounded'
BY DEF IssuedInv, IssuedFirst, Grounded

LEMMA TransitionIssued ==
  ASSUME IssuedInv, NEW q \in Requests,
         TransitionStep(q) \/ OrphanInsert(q) \/ DatabaseError(q)
  PROVE  IssuedFirst' /\ Grounded'
<1>1. Types /\ TypeOK /\ Stamped /\ IssuedFirst /\ Grounded
  BY DEF IssuedInv, ServedInv, Types
<1>2. request \in [Requests -> {Unsent} \union RequestStates]
  BY <1>1 DEF TypeOK
<1>3. /\ request[q] \in RequestStates /\ request[q].doc \in Documents
      /\ request'[q].doc = request[q].doc
      /\ \A p \in Requests \ {q} : request'[p] = request[p]
  BY <1>1, HandlerStep DEF RequestStates
<1>4. ASSUME NEW c, Finish(q, c)
      PROVE  request'[q].phase = "done"
  BY <1>2, <1>3, <1>4 DEF Finish, Ended, RequestStates
<1>5. ASSUME NEW record \in Records, AppendRecord(request[q].doc, record),
             history[request[q].doc] = << >> => record.status = "ACTIVE",
             request'[q].phase \in {"committed", "done"}
      PROVE  IssuedFirst' /\ Grounded'
  <2>1. /\ IssuedFirst'
        /\ \A e \in Documents : history[e] # << >> => history'[e] # << >>
    BY <1>1, <1>3, <1>5, AppendGrows
  <2>2. \A p \in Requests \ {q} : request[p].phase # "unsent" => request[p].doc \in Documents
    BY <1>2 DEF Unsent, RequestStates
  <2> QED BY <1>1, <1>3, <1>5, <2>1, <2>2 DEF Grounded
<1>6. CASE \/ Refuse(q) \/ Reject(q) \/ InsertConflict(q) \/ Reply(q)
           \/ DatabaseError(q) /\ Finish(q, "conflict")
  <2>1. request'[q].phase = "done" /\ UNCHANGED history
    BY <1>4, <1>6 DEF Refuse, Reject, InsertConflict, Reply, DatabaseError
  <2> QED BY <1>3, <2>1, QuietStep
<1>7. CASE Enter(q)
  <2>1. request'[q].phase = "reading" /\ UNCHANGED history
    BY <1>2, <1>3, <1>7 DEF Enter, Advance, RequestStates
  <2> QED BY <1>3, <2>1, QuietStep
<1>8. CASE ReadCurrent(q)
  <2>1. PICK record \in Current(request[q].doc) :
          request' = [request EXCEPT ![q].phase = "deciding", ![q].seen = record]
    BY <1>8 DEF ReadCurrent
  <2>2. request'[q].phase = "deciding" /\ request'[q].seen = record
    BY <1>2, <1>3, <2>1 DEF RequestStates
  <2>3. record # NoRecord => history[request[q].doc] # << >>
    BY <1>1, <1>3, <2>1, CurrentType
  <2>4. UNCHANGED history
    BY <1>8 DEF ReadCurrent
  <2> QED BY <1>3, <2>2, <2>3, <2>4, QuietStep
<1>9. CASE Stamp(q)
  <2> DEFINE record == [status |-> request[q].status,
                        updatedAt |-> clock[request[q].replica]]
  <2>1. record \in Records
    BY <1>1, <1>3, StampType DEF RequestStates
  <2>2. record.status = request[q].status
    OBVIOUS
  <2> HIDE DEF record
  <2>3. record.status = "ACTIVE" \/ history[request[q].doc] # << >>
    <3>1. CASE request[q].seen = NoRecord
      BY <1>9, <2>2, <3>1 DEF Stamp, IsAllowed, NoRecord
    <3>2. CASE request[q].seen # NoRecord
      BY <1>1, <1>9, <3>2 DEF Stamp, Grounded
    <3> QED BY <3>1, <3>2
  <2>4. CASE Persistence = "memory"
    <3>1. /\ AppendRecord(request[q].doc, record)
          /\ request' = [request EXCEPT ![q].phase = "committed",
                           ![q].seen = NoRecord, ![q].record = record]
      BY <1>9, <2>4 DEF Stamp, record
    <3>2. request'[q].phase = "committed"
      BY <1>2, <1>3, <3>1 DEF RequestStates
    <3> QED BY <1>5, <2>1, <2>3, <3>1, <3>2
  <2>5. CASE Persistence = "postgres"
    <3>1. /\ UNCHANGED history
          /\ request' = [request EXCEPT ![q].phase = "inserting",
                           ![q].seen = NoRecord, ![q].record = record]
      BY <1>9, <2>5 DEF Stamp, record
    <3>2. request'[q].phase = "inserting" /\ request'[q].record = record
      BY <1>2, <1>3, <3>1 DEF RequestStates
    <3> QED BY <1>3, <2>3, <2>5, <3>1, <3>2, QuietStep
  <2> QED BY <2>4, <2>5, PersistenceAssumption
<1>10. CASE Insert(q)
  <2>1. /\ request[q].record \in Records
        /\ history[request[q].doc] = << >> => request[q].record.status = "ACTIVE"
    BY <1>1, <1>10 DEF Insert, Stamped, Grounded
  <2>2. request'[q].phase = "committed"
    BY <1>2, <1>3, <1>10 DEF Insert, Advance, RequestStates
  <2> QED BY <1>5, <1>10, <2>1, <2>2 DEF Insert
<1>11. CASE OrphanInsert(q)
  <2>1. /\ request[q].record \in Records
        /\ history[request[q].doc] = << >> => request[q].record.status = "ACTIVE"
    BY <1>1, <1>11 DEF OrphanInsert, Stamped, Grounded
  <2>2. request'[q].phase = "done"
    BY <1>4, <1>11 DEF OrphanInsert
  <2>3. CASE AppendRecord(request[q].doc, request[q].record)
    BY <1>5, <2>1, <2>2, <2>3
  <2>4. CASE UNCHANGED history
    BY <1>3, <2>2, <2>4, QuietStep
  <2> QED BY <1>11, <2>3, <2>4 DEF OrphanInsert
<1>12. CASE DatabaseError(q) /\ LosesStatement(q)
  <2>1. /\ UNCHANGED history /\ request[q].phase = "inserting" /\ request'[q].phase = "orphan"
        /\ request'[q].record = request[q].record
    BY <1>1, <1>12, LosingStep
  <2> QED BY <1>1, <1>3, <2>1, QuietStep DEF Grounded
<1> QED BY <1>6, <1>7, <1>8, <1>9, <1>10, <1>11, <1>12 DEF TransitionStep, DatabaseError

LEMMA ProcessIssued ==
  ASSUME IssuedInv, NEW r \in Replicas,
         \/ Tick(r) \/ SetAvailable(r) \/ Shutdown(r)
         \/ CloseRuntime(r) \/ Start(r) \/ Crash(r)
  PROVE  IssuedFirst' /\ Grounded'
<1>1. Types /\ TypeOK /\ ServedByLiveReplica /\ IssuedFirst /\ Grounded
  BY DEF IssuedInv, ServedInv, Types
<1>2. CASE Tick(r) \/ SetAvailable(r) \/ Shutdown(r) \/ CloseRuntime(r)
  <2>1. UNCHANGED <<history, request>>
    BY <1>2 DEF Tick, SetAvailable, Shutdown, CloseRuntime
  <2> QED BY <1>1, <2>1 DEF IssuedFirst, Grounded
<1>3. CASE Start(r)
  <2>1. CASE Persistence = "postgres"
    BY <1>1, <1>3, <2>1 DEF Start, IssuedFirst, Grounded
  <2>2. CASE Persistence = "memory"
    <3>1. history' = [d \in Documents |-> << >>] /\ UNCHANGED request
      BY <1>3, <2>2 DEF Start
    <3>2. \A q \in Requests : request[q].phase \notin {"deciding", "inserting", "orphan"}
      <4>1. \A q \in Requests : InFlight(q) => request[q].replica \in Replicas
        BY <1>1 DEF TypeOK, InFlight, InFlightPhases, Unsent, RequestStates
      <4>2. \A q \in Requests : ~InFlight(q)
        BY <1>1, <1>3, <2>2, <4>1, MemoryAssumption DEF Start, ServedByLiveReplica
      <4> QED BY <1>1, <2>2, <4>2 DEF InFlight, InFlightPhases, Grounded
    <3> QED BY <3>1, <3>2 DEF IssuedFirst, Grounded
  <2> QED BY <2>1, <2>2, PersistenceAssumption
<1>4. CASE Crash(r)
  <2>1. UNCHANGED history
    BY <1>4 DEF Crash
  <2>2. ASSUME NEW q \in Requests
        PROVE  /\ request'[q].phase = "deciding" /\ request'[q].seen # NoRecord
                    => history'[request'[q].doc] # << >>
               /\ request'[q].phase \in {"inserting", "orphan"}
                    => /\ Persistence = "postgres"
                       /\ \/ request'[q].record.status = "ACTIVE"
                          \/ history'[request'[q].doc] # << >>
    <3>1. \/ request'[q] = request[q]
          \/ /\ request[q] \in RequestStates
             /\ request[q].phase = "inserting" /\ request'[q].phase = "orphan"
             /\ request'[q].record = request[q].record
             /\ request'[q].doc = request[q].doc
          \/ request'[q].phase = "done"
      <4>1. request[q] \in RequestStates => request[q] # Unsent
        BY DEF RequestStates, Unsent, Phases, InFlightPhases
      <4> QED BY <1>1, <1>4, <4>1, CrashStep
    <3> QED BY <1>1, <2>1, <3>1 DEF Grounded
  <2> QED BY <1>1, <2>1, <2>2 DEF IssuedFirst, Grounded
<1> QED BY <1>2, <1>3, <1>4

LEMMA IssuedStep == IssuedInv /\ [Next]_vars => IssuedFirst' /\ Grounded'
<1> SUFFICES ASSUME IssuedInv, [Next]_vars PROVE IssuedFirst' /\ Grounded'
  OBVIOUS
<1>1. Types /\ IssuedFirst /\ Grounded
  BY DEF IssuedInv, ServedInv
<1>2. ASSUME UNCHANGED <<history, request>>
      PROVE  IssuedFirst' /\ Grounded'
  BY <1>1, <1>2 DEF IssuedFirst, Grounded
<1>3. CASE UNCHANGED vars
  BY <1>2, <1>3 DEF vars
<1>4. ASSUME NEW q \in Requests, NEW r \in Replicas, NEW d \in Documents,
             NEW s \in Requested, Accept(q, r, d, s)
      PROVE  IssuedFirst' /\ Grounded'
  <2>1. /\ request'[q].phase = "receiving" /\ UNCHANGED history
        /\ \A p \in Requests \ {q} : request'[p] = request[p]
    BY <1>1, <1>4 DEF Accept, Types, TypeOK
  <2> QED BY <2>1, QuietStep
<1>5. ASSUME NEW q \in Requests, TransitionStep(q) \/ OrphanInsert(q) \/ DatabaseError(q)
      PROVE  IssuedFirst' /\ Grounded'
  BY <1>5, TransitionIssued
<1>6. ASSUME NEW g \in Lookups, NEW r \in Replicas, NEW d \in Documents, BeginLookup(g, r, d)
      PROVE  IssuedFirst' /\ Grounded'
  BY <1>2, <1>6 DEF BeginLookup
<1>7. ASSUME NEW g \in Lookups, LookupStep(g) \/ LookupError(g)
      PROVE  IssuedFirst' /\ Grounded'
  BY <1>1, <1>2, <1>7, LookupHandlerStep
<1>8. ASSUME NEW r \in Replicas,
             \/ Tick(r) \/ SetAvailable(r) \/ Shutdown(r)
             \/ CloseRuntime(r) \/ Start(r) \/ Crash(r)
      PROVE  IssuedFirst' /\ Grounded'
  BY <1>8, ProcessIssued
<1> QED BY <1>3, <1>4, <1>5, <1>6, <1>7, <1>8 DEF Next

\* For every number of requests, replicas, clocks and faults: the first record
\* stored for a document is its issuance.
THEOREM IssuanceComesFirst == Spec => []IssuedFirst
<1>1. Init => IssuedInv
  BY InitTypes DEF IssuedInv, ServedInv, Init, ServedByLiveReplica, InFlight, InFlightPhases,
     LookupInFlight, Unsent, IssuedFirst, Grounded
<1>2. IssuedInv /\ [Next]_vars => IssuedInv'
  BY TypesStep, ServedStep, IssuedStep DEF IssuedInv, ServedInv
<1>3. IssuedInv => IssuedFirst
  BY DEF IssuedInv
<1> QED BY <1>1, <1>2, <1>3, PTL DEF Spec

-----------------------------------------------------------------------------
(* What is acknowledged is stored *)

Holds(q) == request[q].phase = "committed" \/ Answered(q, "created")

\* The record of a handler that is about to acknowledge, or did, is stored.
Stored ==
  Persistence = "postgres" =>
    \A q \in Requests : Holds(q) => request[q].record \in Appended(request[q].doc)

StoredInv == Types /\ Stored

\* An append keeps every stored record and adds the new one.
LEMMA AppendStores ==
  ASSUME TypeOK, NEW d \in Documents, NEW record \in Records, AppendRecord(d, record)
  PROVE  /\ record \in Appended(d)'
         /\ \A e \in Documents : Appended(e) \subseteq Appended(e)'
<1>1. history \in [Documents -> Seq(Records)]
  BY DEF TypeOK
<1>2. history'[d] = Append(history[d], record) /\ history[d] \in Seq(Records)
  BY <1>1 DEF AppendRecord
<1>3. \A e \in Documents \ {d} : history'[e] = history[e]
  BY <1>1 DEF AppendRecord
<1>4. /\ Len(history'[d]) \in DOMAIN history'[d]
      /\ history'[d][Len(history'[d])] = record
  BY <1>2
<1>5. record \in Appended(d)'
  BY <1>4 DEF Appended
<1>6. Appended(d) \subseteq Appended(d)'
  <2>1. \A i \in DOMAIN history[d] : i \in DOMAIN history'[d] /\ history'[d][i] = history[d][i]
    BY <1>2
  <2> QED BY <2>1 DEF Appended
<1>7. \A e \in Documents \ {d} : Appended(e)' = Appended(e)
  BY <1>3 DEF Appended
<1> QED BY <1>5, <1>6, <1>7

LEMMA TransitionStored ==
  ASSUME StoredInv, Persistence = "postgres", NEW q \in Requests,
         TransitionStep(q) \/ OrphanInsert(q) \/ DatabaseError(q)
  PROVE  Stored'
<1>1. Types /\ TypeOK /\ Stamped /\ Stored
  BY DEF StoredInv, Types
<1>2. request \in [Requests -> {Unsent} \union RequestStates]
  BY <1>1 DEF TypeOK
<1>3. /\ request[q] \in RequestStates /\ request[q].doc \in Documents
      /\ request'[q].doc = request[q].doc
      /\ \A p \in Requests \ {q} : request'[p] = request[p]
  BY <1>1, HandlerStep DEF RequestStates
<1>4. ASSUME NEW c, Finish(q, c)
      PROVE  /\ request'[q].phase = "done" /\ request'[q].reply = c
             /\ c = "created" => request'[q].record = request[q].record
  BY <1>2, <1>3, <1>4 DEF Finish, Ended, RequestStates
<1>5. ASSUME \A e \in Documents : Appended(e) \subseteq Appended(e)',
             Holds(q)' => request'[q].record \in Appended(request[q].doc)'
      PROVE  Stored'
  <2>1. \A p \in Requests \ {q} : Holds(p)' => Holds(p) /\ request[p].doc \in Documents
    BY <1>2, <1>3 DEF Holds, Answered, Unsent, RequestStates
  <2> QED BY <1>1, <1>3, <1>5, <2>1 DEF Stored
<1>6. ASSUME UNCHANGED history
      PROVE  \A e \in Documents : Appended(e) \subseteq Appended(e)'
  BY <1>6 DEF Appended
<1>7. CASE \/ Refuse(q) \/ Reject(q) \/ InsertConflict(q)
           \/ DatabaseError(q) /\ Finish(q, "conflict")
  <2>1. UNCHANGED history /\ \E c : c # "created" /\ Finish(q, c)
    BY <1>7 DEF Refuse, Refusals, Reject, InsertConflict, DatabaseError
  <2>2. ~Holds(q)'
    BY <1>4, <2>1 DEF Holds, Answered
  <2> QED BY <1>5, <1>6, <2>1, <2>2
<1>8. CASE Enter(q)
  <2>1. request'[q].phase = "reading" /\ UNCHANGED history
    BY <1>2, <1>3, <1>8 DEF Enter, Advance, RequestStates
  <2> QED BY <1>5, <1>6, <2>1 DEF Holds, Answered
<1>9. CASE ReadCurrent(q)
  <2>1. request'[q].phase = "deciding" /\ UNCHANGED history
    BY <1>2, <1>3, <1>9 DEF ReadCurrent, RequestStates
  <2> QED BY <1>5, <1>6, <2>1 DEF Holds, Answered
<1>10. CASE Stamp(q)
  <2>1. request'[q].phase = "inserting" /\ UNCHANGED history
    BY <1>2, <1>3, <1>10 DEF Stamp, RequestStates
  <2> QED BY <1>5, <1>6, <2>1 DEF Holds, Answered
<1>11. CASE Insert(q)
  <2>1. request'[q].record = request[q].record /\ request[q].record \in Records
    BY <1>1, <1>2, <1>3, <1>11 DEF Insert, Advance, RequestStates, Stamped
  <2> QED BY <1>1, <1>3, <1>5, <1>11, <2>1, AppendStores DEF Insert
<1>12. CASE Reply(q)
  <2>1. request'[q].record = request[q].record /\ Holds(q) /\ UNCHANGED history
    BY <1>4, <1>12 DEF Reply, Holds
  <2>2. request'[q].record \in Appended(request[q].doc)'
    BY <1>1, <1>3, <1>6, <2>1 DEF Stored
  <2> QED BY <1>5, <1>6, <2>1, <2>2
<1>13. CASE OrphanInsert(q)
  <2>1. ~Holds(q)'
    BY <1>4, <1>13 DEF OrphanInsert, OrphanReply, Holds, Answered
  <2>2. CASE AppendRecord(request[q].doc, request[q].record)
    <3>1. request[q].record \in Records
      BY <1>1, <1>13 DEF OrphanInsert, Stamped
    <3> QED BY <1>1, <1>3, <1>5, <2>1, <2>2, <3>1, AppendStores
  <2>3. CASE UNCHANGED history
    BY <1>5, <1>6, <2>1, <2>3
  <2> QED BY <1>13, <2>2, <2>3 DEF OrphanInsert
<1>14. CASE DatabaseError(q) /\ LosesStatement(q)
  <2>1. UNCHANGED history /\ request'[q].phase = "orphan"
    BY <1>1, <1>14, LosingStep
  <2> QED BY <1>5, <1>6, <2>1 DEF Holds, Answered
<1> QED BY <1>7, <1>8, <1>9, <1>10, <1>11, <1>12, <1>13, <1>14 DEF TransitionStep, DatabaseError

LEMMA StoredStep == StoredInv /\ [Next]_vars => Stored'
<1> SUFFICES ASSUME StoredInv, [Next]_vars, Persistence = "postgres" PROVE Stored'
  BY DEF Stored
<1>1. Types /\ Stored
  BY DEF StoredInv
<1>2. ASSUME UNCHANGED history, \A p \in Requests : Holds(p)' => request'[p] = request[p]
      PROVE  Stored'
  BY <1>1, <1>2 DEF Stored, Appended, Holds, Answered
<1>3. CASE UNCHANGED vars
  BY <1>2, <1>3 DEF vars
<1>4. ASSUME NEW q \in Requests, NEW r \in Replicas, NEW d \in Documents,
             NEW s \in Requested, Accept(q, r, d, s)
      PROVE  Stored'
  <2>1. /\ request'[q].phase = "receiving" /\ UNCHANGED history
        /\ \A p \in Requests \ {q} : request'[p] = request[p]
    BY <1>1, <1>4 DEF Accept, Types, TypeOK
  <2>2. ~Holds(q)'
    BY <2>1 DEF Holds, Answered
  <2> QED BY <1>2, <2>1, <2>2
<1>5. ASSUME NEW q \in Requests, TransitionStep(q) \/ OrphanInsert(q) \/ DatabaseError(q)
      PROVE  Stored'
  BY <1>5, TransitionStored
<1>6. ASSUME NEW g \in Lookups, NEW r \in Replicas, NEW d \in Documents, BeginLookup(g, r, d)
      PROVE  Stored'
  BY <1>2, <1>6 DEF BeginLookup
<1>7. ASSUME NEW g \in Lookups, LookupStep(g) \/ LookupError(g)
      PROVE  Stored'
  BY <1>1, <1>2, <1>7, LookupHandlerStep
<1>8. ASSUME NEW r \in Replicas,
             \/ Tick(r) \/ SetAvailable(r) \/ Shutdown(r) \/ CloseRuntime(r) \/ Start(r)
      PROVE  Stored'
  BY <1>2, <1>8 DEF Tick, SetAvailable, Shutdown, CloseRuntime, Start
<1>9. ASSUME NEW r \in Replicas, Crash(r)
      PROVE  Stored'
  <2>1. UNCHANGED history
    BY <1>9 DEF Crash
  <2>2. \A p \in Requests : Holds(p)' => request'[p] = request[p]
    BY <1>1, <1>9, CrashStep DEF Holds, Answered
  <2> QED BY <1>2, <2>1, <2>2
<1> QED BY <1>3, <1>4, <1>5, <1>6, <1>7, <1>8, <1>9 DEF Next

\* With PostgreSQL: the record a 201 acknowledges is in the history, in every
\* state after the answer, through crashes, database errors and restarts.
THEOREM AcknowledgementIsDurable == Spec => []AcknowledgedIsStored
<1>1. Init => StoredInv
  BY InitTypes DEF StoredInv, Stored, Holds, Answered, Init, Unsent
<1>2. StoredInv /\ [Next]_vars => StoredInv'
  BY TypesStep, StoredStep DEF StoredInv
<1>3. StoredInv => AcknowledgedIsStored
  BY DEF StoredInv, Stored, Holds, AcknowledgedIsStored
<1> QED BY <1>1, <1>2, <1>3, PTL DEF Spec
-----------------------------------------------------------------------------
(* What is acknowledged is visible *)

\* What a step may do to one lookup.
LEMMA LookupCases ==
  ASSUME Types, [Next]_vars, NEW g \in Lookups
  PROVE  \/ lookup'[g] = lookup[g]
         \/ \E r \in Replicas, d \in Documents : BeginLookup(g, r, d)
         \/ LookupStep(g)
         \/ /\ lookup[g] \in LookupStates
            /\ lookup'[g] = [lookup[g] EXCEPT !.phase = "done", !.answer = "ERROR"]
<1>1. lookup \in [Lookups -> {Unsent} \union LookupStates]
  BY DEF Types, TypeOK
<1>2. CASE UNCHANGED lookup
  BY <1>2
<1>3. ASSUME NEW h \in Lookups, NEW r \in Replicas, NEW d \in Documents, BeginLookup(h, r, d)
      PROVE  lookup'[g] = lookup[g] \/ (h = g /\ BeginLookup(g, r, d))
  BY <1>1, <1>3 DEF BeginLookup
<1>4. ASSUME NEW h \in Lookups, LookupStep(h) \/ LookupError(h)
      PROVE  \/ lookup'[g] = lookup[g]
             \/ LookupStep(g)
             \/ /\ lookup[g] \in LookupStates
                /\ lookup'[g] = [lookup[g] EXCEPT !.phase = "done", !.answer = "ERROR"]
  <2>1. CASE h # g
    BY <1>4, <2>1, LookupHandlerStep
  <2>2. CASE h = g /\ LookupError(g)
    <3>1. lookup[g] \in LookupStates
      BY <1>1, <2>2 DEF LookupError, Unsent
    <3> QED
      BY <1>1, <2>2, <3>1 DEF LookupError
  <2> QED
    BY <1>4, <2>1, <2>2
<1>5. ASSUME NEW r \in Replicas, Crash(r)
      PROVE  \/ lookup'[g] = lookup[g]
             \/ /\ lookup[g] \in LookupStates
                /\ lookup'[g] = [lookup[g] EXCEPT !.phase = "done", !.answer = "ERROR"]
  <2>1. LookupInFlight(g) => lookup[g] \in LookupStates
    BY <1>1 DEF LookupInFlight, Unsent
  <2> QED
    BY <1>5, <2>1 DEF Crash
<1>6. ASSUME NEW q \in Requests,
             \/ \E r \in Replicas, d \in Documents, s \in Requested : Accept(q, r, d, s)
             \/ TransitionStep(q) \/ OrphanInsert(q) \/ DatabaseError(q)
      PROVE  UNCHANGED lookup
  BY <1>6, HandlerStep DEF Accept
<1>7. ASSUME NEW r \in Replicas, Tick(r) \/ SetAvailable(r) \/ Shutdown(r) \/ CloseRuntime(r) \/ Start(r)
      PROVE  UNCHANGED lookup
  BY <1>7 DEF Tick, SetAvailable, Shutdown, CloseRuntime, Start
<1> QED
  BY <1>2, <1>3, <1>4, <1>5, <1>6, <1>7 DEF Next, vars

\* What a step of a transition handler may do to the history.
LEMMA TransitionAppends ==
  ASSUME Types, NEW q \in Requests,
         TransitionStep(q) \/ OrphanInsert(q) \/ DatabaseError(q)
  PROVE  \/ UNCHANGED history
         \/ \E record \in Records : AppendRecord(request[q].doc, record)
<1>1. request[q] \in RequestStates
  BY HandlerStep
<1>2. CASE Stamp(q)
  <2>1. [status |-> request[q].status, updatedAt |-> clock[request[q].replica]] \in Records
    BY <1>1, StampType DEF Types, RequestStates
  <2> QED
    BY <1>2, <2>1 DEF Stamp
<1>3. CASE Insert(q) \/ OrphanInsert(q)
  <2>1. request[q].record \in Records
    BY <1>3 DEF Insert, OrphanInsert, Types, Stamped
  <2> QED
    BY <1>3, <2>1 DEF Insert, OrphanInsert
<1>4. CASE Refuse(q) \/ Enter(q) \/ ReadCurrent(q) \/ Reject(q) \/ InsertConflict(q) \/ Reply(q) \/ DatabaseError(q)
  BY <1>4 DEF Refuse, Enter, ReadCurrent, Reject, InsertConflict, Reply, DatabaseError
<1> QED
  BY <1>2, <1>3, <1>4 DEF TransitionStep

\* With PostgreSQL no step shortens a history.
LEMMA HistoryGrows ==
  ASSUME Types, [Next]_vars, Persistence = "postgres", NEW d \in Documents
  PROVE  \/ history'[d] = history[d]
         \/ \E record \in Records : history'[d] = Append(history[d], record)
<1>1. history \in [Documents -> Seq(Records)]
  BY DEF Types, TypeOK
<1>2. CASE UNCHANGED history
  BY <1>2
<1>3. ASSUME NEW q \in Requests, TransitionStep(q) \/ OrphanInsert(q) \/ DatabaseError(q)
      PROVE  \/ history'[d] = history[d]
             \/ \E record \in Records : history'[d] = Append(history[d], record)
  BY <1>1, <1>3, TransitionAppends DEF AppendRecord
<1>4. ASSUME NEW q \in Requests, NEW r \in Replicas, NEW e \in Documents, NEW s \in Requested, Accept(q, r, e, s)
      PROVE  UNCHANGED history
  BY <1>4 DEF Accept
<1>5. ASSUME NEW g \in Lookups,
             \/ \E r \in Replicas, e \in Documents : BeginLookup(g, r, e)
             \/ LookupStep(g) \/ LookupError(g)
      PROVE  UNCHANGED history
  BY <1>5, LookupHandlerStep DEF BeginLookup
<1>6. ASSUME NEW r \in Replicas,
             Tick(r) \/ SetAvailable(r) \/ Shutdown(r) \/ CloseRuntime(r) \/ Start(r) \/ Crash(r)
      PROVE  UNCHANGED history
  BY <1>6 DEF Tick, SetAvailable, Shutdown, CloseRuntime, Start, Crash
<1> QED
  BY <1>2, <1>3, <1>4, <1>5, <1>6 DEF Next, vars

\* A lookup that began after an acknowledgement of its document finds a record.
FindsRecord(seeking) ==
  seeking.phase # "unsent" /\ seeking.acked # {} =>
    /\ history[seeking.doc] # << >>
    /\ seeking.phase = "answering" => seeking.seen # NoRecord
    /\ seeking.phase = "done" /\ ~seeking.strict => ~(seeking.answer = "UNCHECKED" /\ seeking.freshness = "FRESH")

VisibleInv == StoredInv /\ (Persistence = "postgres" => \A g \in Lookups : FindsRecord(lookup[g]))

LEMMA VisibleStep ==
  ASSUME VisibleInv, [Next]_vars, Persistence = "postgres", NEW g \in Lookups
  PROVE  FindsRecord(lookup[g])'
<1>1. Types /\ TypeOK /\ Stored /\ FindsRecord(lookup[g])
  BY DEF VisibleInv, StoredInv, Types
<1>2. lookup \in [Lookups -> {Unsent} \union LookupStates] /\ history \in [Documents -> Seq(Records)]
  BY <1>1 DEF TypeOK
<1>3. \A d \in Documents : history[d] # << >> => history'[d] # << >>
  BY <1>1, <1>2, HistoryGrows
<1>4. lookup[g].phase # "unsent" => lookup[g] \in LookupStates /\ lookup[g].doc \in Documents
  BY <1>2 DEF Unsent, LookupStates
<1>5. CASE lookup'[g] = lookup[g]
  BY <1>1, <1>3, <1>4, <1>5 DEF FindsRecord
<1>6. ASSUME NEW r \in Replicas, NEW d \in Documents, BeginLookup(g, r, d)
      PROVE  FindsRecord(lookup[g])'
  <2>1. PICK strict \in BOOLEAN : lookup'[g] =
         [phase |-> IF available[r] THEN "reading" ELSE "done",
          replica |-> r, doc |-> d, strict |-> strict, acked |-> Acknowledged(d),
          seen |-> NoRecord, freshness |-> "UNAVAILABLE",
          answer |-> IF available[r] THEN NoStatus ELSE "UNCHECKED"]
    BY <1>2, <1>6 DEF BeginLookup
  <2>2. Acknowledged(d) # {} => history[d] # << >>
    <3> SUFFICES ASSUME NEW q \in Requests, Answered(q, "created"), request[q].doc = d PROVE history[d] # << >>
      BY DEF Acknowledged
    <3>1. request[q].record \in Appended(d)
      BY <1>1 DEF Stored, Holds
    <3> QED
      BY <3>1 DEF Appended
  <2>3. UNCHANGED history
    BY <1>6 DEF BeginLookup
  <2> QED
    BY <2>1, <2>2, <2>3 DEF FindsRecord
<1>7. CASE LookupRead(g)
  <2>1. lookup[g] \in LookupStates /\ lookup[g].doc \in Documents /\ UNCHANGED history
    BY <1>4, <1>7 DEF LookupRead
  <2>2. PICK record \in Current(lookup[g].doc) :
          lookup' = [lookup EXCEPT ![g].phase = "answering", ![g].seen = record]
    BY <1>7 DEF LookupRead
  <2>3. lookup'[g] = [lookup[g] EXCEPT !.phase = "answering", !.seen = record]
    BY <1>2, <2>2
  <2>4. /\ lookup'[g].phase = "answering" /\ lookup'[g].seen = record
        /\ lookup'[g].acked = lookup[g].acked /\ lookup'[g].doc = lookup[g].doc
    BY <2>1, <2>3 DEF LookupStates
  <2>5. history[lookup[g].doc] # << >> => record # NoRecord
    <3>1. NoRecord \notin Records
      BY DEF NoRecord, Records, NoStatus, Statuses, ClosingStates
    <3>2. history[lookup[g].doc] # << >> => record \in Records
      BY <1>2, <2>1, <2>2 DEF Current
    <3> QED
      BY <3>1, <3>2
  <2> QED
    BY <1>1, <1>7, <2>1, <2>4, <2>5 DEF FindsRecord, LookupRead
<1>8. CASE LookupAnswer(g)
  <2> DEFINE freshness == Freshness(lookup[g].seen, clock[lookup[g].replica])
             unchecked == \/ lookup[g].seen = NoRecord
                          \/ lookup[g].strict /\ freshness # "FRESH"
             answer == IF unchecked THEN "UNCHECKED" ELSE lookup[g].seen.status
  <2>1. lookup[g] \in LookupStates /\ UNCHANGED history /\ lookup[g].phase = "answering"
    BY <1>4, <1>8 DEF LookupAnswer
  <2>2. lookup'[g] = [lookup[g] EXCEPT !.phase = "done", !.freshness = freshness, !.seen = NoRecord, !.answer = answer]
    BY <1>2, <1>8 DEF LookupAnswer
  <2>3. lookup[g].seen # NoRecord /\ ~lookup[g].strict => answer # "UNCHECKED"
    BY <2>1 DEF LookupStates, Records, Statuses, ClosingStates
  <2> HIDE DEF freshness, answer
  <2>4. /\ lookup'[g].phase = "done" /\ lookup'[g].answer = answer /\ lookup'[g].strict = lookup[g].strict
        /\ lookup'[g].acked = lookup[g].acked /\ lookup'[g].doc = lookup[g].doc
    BY <2>1, <2>2 DEF LookupStates
  <2> QED
    BY <1>1, <2>1, <2>3, <2>4 DEF FindsRecord
<1>9. CASE /\ lookup[g] \in LookupStates
           /\ lookup'[g] = [lookup[g] EXCEPT !.phase = "done", !.answer = "ERROR"]
  <2>1. /\ lookup'[g].phase = "done" /\ lookup'[g].answer = "ERROR"
        /\ lookup'[g].acked = lookup[g].acked /\ lookup'[g].doc = lookup[g].doc
    BY <1>9 DEF LookupStates
  <2>2. lookup[g].phase # "unsent"
    BY <1>9 DEF LookupStates
  <2> QED
    BY <1>1, <1>3, <1>4, <2>1, <2>2 DEF FindsRecord
<1> QED
  BY <1>1, <1>5, <1>6, <1>7, <1>8, <1>9, LookupCases DEF LookupStep

\* With PostgreSQL, a lookup that begins after a transition of its document was
\* acknowledged is never answered as if the document had never been heard of.
THEOREM AcknowledgementIsVisible == Spec => []AcknowledgedIsVisible
<1>1. Init => VisibleInv
  BY InitTypes DEF VisibleInv, FindsRecord, StoredInv, Stored, Holds, Answered, Init, Unsent
<1>2. VisibleInv /\ [Next]_vars => VisibleInv'
  BY TypesStep, StoredStep, VisibleStep DEF VisibleInv, StoredInv
<1>3. VisibleInv => AcknowledgedIsVisible
  BY DEF VisibleInv, FindsRecord, AcknowledgedIsVisible
<1> QED
  BY <1>1, <1>2, <1>3, PTL DEF Spec
-----------------------------------------------------------------------------
(* What a verification reports was held *)

\* While a verification waits, held has every state that the service held since,
\* and the lookup that serves it has read one of them.
ChecksHeld(g) ==
  /\ check[g] = Unasked => lookup[g] = Unsent
  /\ check[g] # Unasked =>
       /\ check[g] \in CheckStates
       /\ check[g].status # "UNCHECKED" => check[g].status \in check[g].held
  /\ Waiting(g) =>
       /\ check[g].status = "UNCHECKED"
       /\ HeldStates(check[g].doc) \subseteq check[g].held
       /\ lookup[g] # Unsent =>
            /\ lookup[g].doc = check[g].doc
            /\ lookup[g].phase = "answering" => lookup[g].seen.status \in check[g].held \union {NoStatus}
            /\ lookup[g].phase = "done" /\ lookup[g].answer \in Statuses => lookup[g].answer \in check[g].held

HeldInv ==
  /\ Types
  /\ DOMAIN check = Lookups
  /\ \A g \in Lookups : ChecksHeld(g)

LEMMA HeldType ==
  ASSUME TypeOK, NEW d \in Documents
  PROVE  HeldStates(d) \subseteq Statuses \union {NoStatus}
BY CurrentType DEF HeldStates, Records, NoRecord

LEMMA AskHeld ==
  ASSUME HeldInv, NEW g \in Lookups, NEW d \in Documents, NEW url \in StatusUrls, Ask(g, d, url)
  PROVE  HeldInv'
<1>1. Types' /\ TypeOK
  BY DEF HeldInv, Ask, vars, Types, TypeOK, Stamped
<1> DEFINE begun == Begun(d, IF Target(url) = "usable" THEN "waiting" ELSE "checked", "UNCHECKED")
<1>2. /\ begun \in CheckStates /\ begun # Unasked
      /\ begun.phase \in {"waiting", "checked"} /\ begun.doc = d /\ begun.status = "UNCHECKED" /\ begun.held = HeldStates(d)
  <2>1. HeldStates(d) \subseteq Statuses \union {NoStatus}
    BY <1>1, HeldType
  <2>2. /\ begun \in CheckStates
        /\ begun.phase \in {"waiting", "checked"} /\ begun.doc = d /\ begun.status = "UNCHECKED" /\ begun.held = HeldStates(d)
    BY <2>1 DEF Begun, CheckStates
  <2>3. begun # Unasked
    BY <2>2 DEF Unasked
  <2> QED
    BY <2>2, <2>3
<1>3. check[g] = Unasked /\ check' = [check EXCEPT ![g] = begun] /\ UNCHANGED <<history, lookup>>
  BY DEF Ask, vars
<1> HIDE DEF begun
<1>4. DOMAIN check' = Lookups /\ \A h \in Lookups : check'[h] = IF h = g THEN begun ELSE check[h]
  BY <1>3 DEF HeldInv
<1>5. \A e : HeldStates(e)' = HeldStates(e)
  BY <1>3 DEF HeldStates, Current, IsCurrent
<1>6. ChecksHeld(g)'
  BY <1>2, <1>3, <1>4, <1>5 DEF HeldInv, ChecksHeld, Waiting
<1>7. \A h \in Lookups \ {g} : ChecksHeld(h)'
  BY <1>3, <1>4, <1>5 DEF HeldInv, ChecksHeld, Waiting
<1> QED
  BY <1>1, <1>4, <1>6, <1>7 DEF HeldInv

\* A check that ends, with the service at rest.
LEMMA EndHeld ==
  ASSUME HeldInv, UNCHANGED vars, NEW g \in Lookups, NEW c \in CheckStates, check' = [check EXCEPT ![g] = c],
         c.phase = "checked", c.status # "UNCHECKED" => c.status \in c.held
  PROVE  HeldInv'
<1>1. Types'
  BY DEF HeldInv, vars, Types, TypeOK, Stamped
<1>2. DOMAIN check' = Lookups /\ \A h \in Lookups : check'[h] = IF h = g THEN c ELSE check[h]
  BY DEF HeldInv
<1>3. UNCHANGED <<history, lookup>>
  BY DEF vars
<1>4. \A e : HeldStates(e)' = HeldStates(e)
  BY <1>3 DEF HeldStates, Current, IsCurrent
<1>5. ChecksHeld(g)'
  BY <1>2 DEF ChecksHeld, Waiting, Unasked
<1>6. \A h \in Lookups \ {g} : ChecksHeld(h)'
  BY <1>2, <1>3, <1>4 DEF HeldInv, ChecksHeld, Waiting
<1> QED
  BY <1>1, <1>2, <1>5, <1>6 DEF HeldInv

LEMMA WaitingCheck ==
  ASSUME HeldInv, NEW g \in Lookups, Waiting(g)
  PROVE  check[g] \in CheckStates /\ check[g].status = "UNCHECKED" /\ ChecksHeld(g)
BY DEF HeldInv, ChecksHeld, Waiting, Unasked

LEMMA ReceiveHeld ==
  ASSUME HeldInv, NEW g \in Lookups, Receive(g)
  PROVE  HeldInv'
<1> DEFINE status == IF lookup[g].answer \in Statuses THEN lookup[g].answer ELSE "UNCHECKED"
           c == [check[g] EXCEPT !.phase = "checked", !.status = status]
<1>1. Waiting(g) /\ lookup[g].phase = "done" /\ UNCHANGED vars
  BY DEF Receive
<1>2. check[g] \in CheckStates /\ ChecksHeld(g)
  BY <1>1, WaitingCheck
<1>3. status \in Statuses \union {"UNCHECKED"}
  OBVIOUS
<1>4. status # "UNCHECKED" => status \in check[g].held
  BY <1>1, <1>2 DEF ChecksHeld, Unsent
<1>5. check' = [check EXCEPT ![g] = c]
  BY DEF Receive
<1> HIDE DEF status
<1>6. c \in CheckStates /\ c.phase = "checked" /\ c.status = status /\ c.held = check[g].held
  BY <1>2, <1>3 DEF CheckStates
<1> HIDE DEF c
<1> QED
  BY <1>1, <1>4, <1>5, <1>6, EndHeld

LEMMA AbortHeld ==
  ASSUME HeldInv, NEW g \in Lookups, Abort(g)
  PROVE  HeldInv'
<1> DEFINE c == [check[g] EXCEPT !.phase = "checked"]
<1>1. Waiting(g) /\ UNCHANGED vars /\ check' = [check EXCEPT ![g] = c]
  BY DEF Abort
<1>2. check[g] \in CheckStates /\ check[g].status = "UNCHECKED"
  BY <1>1, WaitingCheck
<1>3. c \in CheckStates /\ c.phase = "checked" /\ c.status = "UNCHECKED"
  BY <1>2 DEF CheckStates
<1> HIDE DEF c
<1> QED
  BY <1>1, <1>3, EndHeld

LEMMA ArriveHeld ==
  ASSUME HeldInv, NEW g \in Lookups, NEW r \in Replicas, Arrive(g, r)
  PROVE  HeldInv'
<1> DEFINE d == check[g].doc
<1>1. Waiting(g) /\ BeginLookup(g, r, d) /\ UNCHANGED check
  BY DEF Arrive
<1>2. check[g] \in CheckStates /\ ChecksHeld(g) /\ d \in Documents
  BY <1>1, WaitingCheck DEF CheckStates
<1>3. Types'
  <2>1. Next
    BY <1>1, <1>2 DEF Next
  <2> QED
    BY <2>1, TypesStep DEF HeldInv
<1>4. lookup \in [Lookups -> {Unsent} \union LookupStates]
  BY DEF HeldInv, Types, TypeOK
<1>5. /\ UNCHANGED history
      /\ \A h \in Lookups \ {g} : lookup'[h] = lookup[h]
      /\ lookup'[g].doc = d /\ lookup'[g].phase \in {"reading", "done"} /\ lookup'[g].answer \in {NoStatus, "UNCHECKED"}
  BY <1>1, <1>4 DEF BeginLookup
<1>6. \A e : HeldStates(e)' = HeldStates(e)
  BY <1>5 DEF HeldStates, Current, IsCurrent
<1>7. ChecksHeld(g)'
  BY <1>1, <1>2, <1>5, <1>6 DEF ChecksHeld, Waiting, Unasked, NoStatus, Statuses, ClosingStates
<1>8. \A h \in Lookups \ {g} : ChecksHeld(h)'
  BY <1>1, <1>5, <1>6 DEF HeldInv, ChecksHeld, Waiting
<1> QED
  BY <1>1, <1>3, <1>7, <1>8 DEF HeldInv

\* The service moves: what it holds afterwards is noted by every check that waits.
LEMMA ServiceHeld ==
  ASSUME HeldInv, ServiceStep
  PROVE  HeldInv'
<1>1. /\ Types /\ TypeOK /\ Types' /\ TypeOK' /\ [Next]_vars
  BY TypesStep DEF HeldInv, ServiceStep, Types
<1>2. DOMAIN check' = Lookups
  BY DEF ServiceStep
<1>3. ASSUME NEW g \in Lookups PROVE ChecksHeld(g)'
  <2>1. ChecksHeld(g)
    BY DEF HeldInv
  <2>2. lookup[g] = Unsent => lookup'[g] = Unsent
    BY DEF ServiceStep
  <2>3. CASE ~Waiting(g)
    <3>1. check'[g] = check[g]
      BY <2>3 DEF ServiceStep
    <3> QED
      BY <2>1, <2>2, <2>3, <3>1 DEF ChecksHeld, Waiting
  <2>4. CASE Waiting(g)
    <3>1. check[g] \in CheckStates /\ check[g].status = "UNCHECKED" /\ check[g] # Unasked
      BY <2>4, WaitingCheck DEF CheckStates, Waiting, Unasked
    <3>0. PICK d \in Documents : d = check[g].doc
      BY <3>1 DEF CheckStates
    <3> DEFINE heldNow(e) == HeldStates(e)'
               now == heldNow(d)
               c == [check[g] EXCEPT !.held = check[g].held \union now]
    <3>2. check'[g] = c
      <4>1. check' = [h \in Lookups |->
                        IF Waiting(h)
                          THEN [check[h] EXCEPT !.held = check[h].held \union [e \in Documents |-> heldNow(e)][check[h].doc]]
                          ELSE check[h]]
        BY DEF ServiceStep
      <4> HIDE DEF heldNow
      <4>2. check'[g] = [check[g] EXCEPT !.held = check[g].held \union [e \in Documents |-> heldNow(e)][d]]
        BY <2>4, <3>0, <4>1
      <4>3. [e \in Documents |-> heldNow(e)][d] = now
        BY <3>0
      <4> QED
        BY <4>2, <4>3
    <3>3. now \subseteq Statuses \union {NoStatus}
      <4>1. history' \in [Documents -> Seq(Records)]
        BY <1>1 DEF TypeOK
      <4>2. \A record \in Current(d)' : record \in Records \union {NoRecord}
        BY <4>1 DEF Current
      <4>3. now = {record.status : record \in Current(d)'}
        BY DEF HeldStates
      <4>4. \A record \in Records \union {NoRecord} : record.status \in Statuses \union {NoStatus}
        BY DEF Records, NoRecord
      <4> HIDE DEF now
      <4> QED
        BY <4>2, <4>3, <4>4
    <3> HIDE DEF now
    <3>4. /\ c \in CheckStates /\ c.phase = "waiting" /\ c.doc = d /\ c.status = "UNCHECKED"
          /\ c.held = check[g].held \union now
      BY <2>4, <3>0, <3>1, <3>3 DEF CheckStates, Waiting
    <3>5. /\ HeldStates(d) \subseteq check[g].held
          /\ lookup[g] # Unsent =>
               /\ lookup[g].doc = d
               /\ lookup[g].phase = "answering" => lookup[g].seen.status \in check[g].held \union {NoStatus}
               /\ lookup[g].phase = "done" /\ lookup[g].answer \in Statuses => lookup[g].answer \in check[g].held
      BY <2>1, <2>4, <3>0 DEF ChecksHeld
    <3> DEFINE asked(served) ==
          served # Unsent =>
            /\ served.doc = d
            /\ served.phase = "answering" => served.seen.status \in check[g].held \union {NoStatus}
            /\ served.phase = "done" /\ served.answer \in Statuses => served.answer \in check[g].held
    <3>6. asked(lookup'[g])
      <4>1. lookup \in [Lookups -> {Unsent} \union LookupStates]
        BY <1>1 DEF TypeOK
      <4>2. CASE lookup'[g] = lookup[g] \/ lookup'[g] = Unsent
        BY <3>5, <4>2
      <4>3. CASE \E r \in Replicas, e \in Documents : BeginLookup(g, r, e)
        BY <2>2, <4>3 DEF BeginLookup
      <4>4. CASE LookupRead(g)
        <5>1. PICK record \in Current(lookup[g].doc) :
                lookup' = [lookup EXCEPT ![g].phase = "answering", ![g].seen = record]
          BY <4>4 DEF LookupRead
        <5>2. lookup[g] \in LookupStates /\ lookup[g] # Unsent
          BY <4>1, <4>4 DEF LookupRead, Unsent
        <5>3. lookup'[g].phase = "answering" /\ lookup'[g].seen = record /\ lookup'[g].doc = lookup[g].doc
          BY <4>1, <5>1, <5>2 DEF LookupStates
        <5>4. record.status \in HeldStates(d)
          BY <3>5, <5>1, <5>2 DEF HeldStates
        <5> QED
          BY <3>5, <5>2, <5>3, <5>4
      <4>5. CASE LookupAnswer(g)
        <5>1. lookup[g] \in LookupStates /\ lookup[g] # Unsent /\ lookup[g].phase = "answering"
          BY <4>1, <4>5 DEF LookupAnswer, Unsent
        <5>2. /\ lookup'[g].phase = "done" /\ lookup'[g].doc = lookup[g].doc
              /\ lookup'[g].answer \in {"UNCHECKED", lookup[g].seen.status}
          BY <4>1, <4>5, <5>1 DEF LookupAnswer, LookupStates
        <5>3. "UNCHECKED" \notin Statuses /\ NoStatus \notin Statuses
          BY DEF NoStatus, Statuses, ClosingStates
        <5> QED
          BY <3>5, <5>1, <5>2, <5>3
      <4>6. CASE /\ lookup[g] \in LookupStates
                 /\ lookup'[g] = [lookup[g] EXCEPT !.phase = "done", !.answer = "ERROR"]
        <5>1. /\ lookup'[g].phase = "done" /\ lookup'[g].answer = "ERROR"
              /\ lookup'[g].doc = lookup[g].doc /\ lookup[g] # Unsent
          BY <4>6 DEF LookupStates, Unsent
        <5>2. "ERROR" \notin Statuses
          BY DEF Statuses, ClosingStates
        <5> QED
          BY <3>5, <5>1, <5>2
      <4> QED
        BY <1>1, <4>2, <4>3, <4>4, <4>5, <4>6, LookupCases DEF LookupStep
    <3>7. HeldStates(d)' = now
      BY DEF now
    <3> HIDE DEF c
    <3>8. c # Unasked
      BY <3>4 DEF Unasked
    <3> QED
      BY <3>2, <3>4, <3>6, <3>7, <3>8 DEF ChecksHeld, Waiting
  <2> QED
    BY <2>3, <2>4
<1> QED
  BY <1>1, <1>2, <1>3 DEF HeldInv

LEMMA HeldStep == HeldInv /\ [LookupNext]_lookupVars => HeldInv'
<1> SUFFICES ASSUME HeldInv, [LookupNext]_lookupVars PROVE HeldInv'
  OBVIOUS
<1>1. CASE UNCHANGED lookupVars
  <2>1. UNCHANGED <<history, lookup, check>> /\ Types'
    BY <1>1 DEF lookupVars, vars, HeldInv, Types, TypeOK, Stamped
  <2>2. \A e : HeldStates(e)' = HeldStates(e)
    BY <2>1 DEF HeldStates, Current, IsCurrent
  <2> QED
    BY <2>1, <2>2 DEF HeldInv, ChecksHeld, Waiting
<1>2. ASSUME NEW g \in Lookups, \E d \in Documents, url \in StatusUrls : Ask(g, d, url) PROVE HeldInv'
  BY <1>2, AskHeld
<1>3. ASSUME NEW g \in Lookups, (\E r \in Replicas : Arrive(g, r)) \/ Receive(g) \/ Abort(g) PROVE HeldInv'
  BY <1>3, ArriveHeld, ReceiveHeld, AbortHeld
<1>4. CASE ServiceStep
  BY <1>4, ServiceHeld
<1> QED
  BY <1>1, <1>2, <1>3, <1>4 DEF LookupNext

\* A lifecycle status in a verification result is one that the service held for
\* the document at a moment of that verification, whatever transitions, outages,
\* restarts and late answers come in between (applyStatusResolver).
THEOREM ReportsWereHeld == LookupSpec => []ReportedWasHeld
<1>1. LookupInit => HeldInv
  BY InitTypes DEF LookupInit, Init, HeldInv, ChecksHeld, Waiting, Unasked
<1>2. HeldInv => ReportedWasHeld
  BY DEF HeldInv, ChecksHeld, ReportedWasHeld
<1> QED
  BY <1>1, <1>2, HeldStep, PTL DEF LookupSpec
-----------------------------------------------------------------------------
(* Serialized clients, one clock *)

\* Conditions on the constants: PostgreSQL, one replica at most, and clients that
\* do not transition a document while another transition of it is under way.
OneClock ==
  /\ Persistence = "postgres" /\ Serialized
  /\ \A r, s \in Replicas : r = s

Latest(h) == IF h = << >> THEN NoRecord ELSE h[Len(h)]

\* A history that follows the transition table, in the order of its clock.
Lifecycle(h) ==
  /\ Len(h) \in 0 .. 2
  /\ Len(h) >= 1 => h[1].status = "ACTIVE"
  /\ Len(h) = 2 => h[2].status \in ClosingStates /\ h[1].updatedAt < h[2].updatedAt

\* A record that may follow a history, if its time is not taken.
Continues(h, record) ==
  IF h = << >> THEN record.status = "ACTIVE"
  ELSE Len(h) = 1 /\ record.status \in ClosingStates /\ h[1].updatedAt <= record.updatedAt

Past(record) == \A r \in Replicas : record.updatedAt <= clock[r]

OneAtATime ==
  \A p, q \in Requests : Pending(p) /\ Pending(q) /\ p # q => request[p].doc # request[q].doc

\* What a transition handler knows of its document: the row it has seen is the
\* last one still, and the record it stores continues the history.
Informed(q) ==
  /\ request[q].phase = "deciding" => request[q].seen = Latest(history[request[q].doc])
  /\ request[q].phase \in {"inserting", "orphan"} =>
       Continues(history[request[q].doc], request[q].record) /\ Past(request[q].record)

HistoriesOK ==
  \A d \in Documents : Lifecycle(history[d]) /\ \A i \in DOMAIN history[d] : Past(history[d][i])

LifecycleInv ==
  /\ Types
  /\ HistoriesOK
  /\ OneAtATime
  /\ \A q \in Requests : Informed(q)

\* What is acknowledged is the state that was asked for.
Honest(q) ==
  request[q].phase \in {"inserting", "orphan", "committed"} \/ Answered(q, "created") =>
    request[q].record.status = request[q].status

\* A lookup that began after a closure was acknowledged finds it.
FindsClosure(seeking) ==
  seeking.phase # "unsent" /\ seeking.acked \intersect ClosingStates # {} =>
    /\ Len(history[seeking.doc]) = 2
    /\ seeking.phase = "answering" => seeking.seen.status \in ClosingStates
    /\ seeking.phase = "done" => seeking.answer # "ACTIVE"

ClosureInv ==
  /\ LifecycleInv /\ Stored
  /\ \A q \in Requests : Honest(q)
  /\ \A g \in Lookups : FindsClosure(lookup[g])

LEMMA NoRecordIsNone == NoRecord \notin Records /\ NoRecord.status = NoStatus /\ NoStatus \notin Statuses
BY DEF NoRecord, Records, NoStatus, Statuses, ClosingStates

LEMMA AppendLength ==
  ASSUME NEW h \in Seq(Records), NEW record \in Records
  PROVE  Len(Append(h, record)) = Len(h) + 1
OBVIOUS

LEMMA RowTime ==
  ASSUME NEW h \in Seq(Records), NEW i \in DOMAIN h
  PROVE  h[i] \in Records /\ h[i].updatedAt \in Nat
<1>1. h[i] \in Records
  OBVIOUS
<1>2. \A record \in Records : record.updatedAt \in Nat
  BY BoundsAssumption DEF Records
<1> QED
  BY <1>1, <1>2

\* The row that current() finds in such a history is its last one.
LEMMA LifecycleRow ==
  ASSUME NEW h \in Seq(Records), Lifecycle(h), h # << >>
  PROVE  /\ Len(h) \in DOMAIN h /\ Latest(h) = h[Len(h)] /\ Latest(h) \in Records
         /\ \A i \in DOMAIN h : (\A j \in DOMAIN h : h[j].updatedAt <= h[i].updatedAt) <=> i = Len(h)
<1>1. Len(h) \in {1, 2} /\ DOMAIN h = 1 .. Len(h)
  BY DEF Lifecycle
<1>2. \A i \in DOMAIN h : h[i] \in Records /\ h[i].updatedAt \in Nat
  BY RowTime
<1>3. CASE Len(h) = 1
  BY <1>1, <1>2, <1>3 DEF Latest
<1>4. CASE Len(h) = 2
  <2>1. h[1].updatedAt < h[2].updatedAt
    BY <1>4 DEF Lifecycle
  <2> QED
    BY <1>1, <1>2, <1>4, <2>1 DEF Latest
<1> QED
  BY <1>1, <1>3, <1>4

LEMMA LifecycleLatest ==
  ASSUME NEW h \in Seq(Records), Lifecycle(h)
  PROVE  /\ Latest(h) = NoRecord => h = << >>
         /\ Latest(h).status = "ACTIVE" => Len(h) = 1
         /\ Len(h) = 2 => Latest(h).status \in ClosingStates
<1>1. "ACTIVE" # NoStatus /\ "ACTIVE" \notin ClosingStates
  BY DEF NoStatus, ClosingStates
<1>2. CASE h = << >>
  BY <1>1, <1>2, NoRecordIsNone DEF Latest
<1>3. CASE h # << >>
  <2>1. Latest(h) \in Records /\ Latest(h) = h[Len(h)] /\ Len(h) \in {1, 2}
    BY <1>3, LifecycleRow DEF Lifecycle
  <2> QED
    BY <1>1, <1>3, <2>1, NoRecordIsNone DEF Lifecycle
<1> QED
  BY <1>2, <1>3

\* What current() may return of a history with PostgreSQL.
Rows(h) ==
  IF h = << >> THEN {NoRecord}
  ELSE {h[i] : i \in {j \in DOMAIN h : \A k \in DOMAIN h : h[k].updatedAt <= h[j].updatedAt}}

LEMMA LifecycleRows ==
  ASSUME NEW h \in Seq(Records), Lifecycle(h)
  PROVE  Rows(h) = {Latest(h)}
<1>1. CASE h = << >>
  BY <1>1 DEF Rows, Latest
<1>2. CASE h # << >>
  BY <1>2, LifecycleRow DEF Rows
<1> QED
  BY <1>1, <1>2

LEMMA CurrentIsLatest ==
  ASSUME OneClock, TypeOK, HistoriesOK, NEW d \in Documents
  PROVE  Current(d) = {Latest(history[d])}
<1>1. history[d] \in Seq(Records) /\ Lifecycle(history[d]) /\ Persistence # "memory"
  BY DEF TypeOK, HistoriesOK, OneClock
<1>2. Current(d) = Rows(history[d])
  BY <1>1 DEF Current, IsCurrent, Rows
<1> QED
  BY <1>1, <1>2, LifecycleRows

\* A record that continues a history, at another time, leaves a history that
\* follows the table.
LEMMA LifecycleAppend ==
  ASSUME NEW h \in Seq(Records), NEW record \in Records, Lifecycle(h), Continues(h, record),
         \A i \in DOMAIN h : h[i].updatedAt # record.updatedAt
  PROVE  Lifecycle(Append(h, record))
<1>1. CASE h = << >>
  BY <1>1 DEF Lifecycle, Continues
<1>2. CASE h # << >>
  <2>1. Len(h) = 1 /\ record.status \in ClosingStates /\ h[1].updatedAt <= record.updatedAt
    BY <1>2 DEF Continues
  <2>2. 1 \in DOMAIN h /\ h[1].updatedAt \in Nat /\ h[1].updatedAt # record.updatedAt
    BY <2>1, RowTime
  <2>5. record.updatedAt \in Nat
    BY BoundsAssumption DEF Records
  <2>3. h[1].updatedAt < record.updatedAt
    BY <2>1, <2>2, <2>5
  <2>4. Len(Append(h, record)) = 2 /\ Append(h, record)[1] = h[1] /\ Append(h, record)[2] = record
    <3>1. Len(h) = 1
      BY <2>1
    <3>2. Len(Append(h, record)) = Len(h) + 1
      OBVIOUS
    <3>3. Append(h, record)[Len(h) + 1] = record
      OBVIOUS
    <3>4. Append(h, record)[1] = h[1]
      BY <3>1
    <3> QED
      BY <3>1, <3>2, <3>3, <3>4
  <2> QED
    BY <2>1, <2>3, <2>4 DEF Lifecycle
<1> QED
  BY <1>1, <1>2

\* With PostgreSQL, what a step of a transition handler does: it leaves the
\* history alone and ends or moves on, reads, stamps, or stores its record.
LEMMA HandlerCases ==
  ASSUME Types, Persistence = "postgres", NEW q \in Requests,
         TransitionStep(q) \/ OrphanInsert(q) \/ DatabaseError(q)
  PROVE  /\ UNCHANGED clock
         /\ Pending(q)
         /\ \/ /\ UNCHANGED history
               /\ request'[q].phase \in {"reading", "done"}
               /\ Answered(q, "created")' => request[q].phase = "committed" /\ request'[q].record = request[q].record
            \/ ReadCurrent(q)
            \/ Stamp(q)
            \/ /\ request[q].phase \in {"inserting", "orphan"}
               /\ ~KeyTaken(request[q].doc, request[q].record)
               /\ AppendRecord(request[q].doc, request[q].record)
               /\ \/ request'[q].phase = "committed" /\ request'[q].record = request[q].record
                  \/ request'[q].phase = "done" /\ request'[q].reply # "created"
            \/ /\ UNCHANGED history
               /\ request[q].phase = "inserting" /\ request'[q].phase = "orphan"
               /\ request'[q].record = request[q].record
<1>1. request \in [Requests -> {Unsent} \union RequestStates] /\ request[q] \in RequestStates
  BY HandlerStep DEF Types, TypeOK
<1>2. ASSUME NEW c, Finish(q, c)
      PROVE  /\ request'[q].phase = "done" /\ request'[q].reply = c
             /\ c = "created" => request'[q].record = request[q].record
  BY <1>1, <1>2 DEF Finish, Ended, RequestStates
<1>3. CASE \/ Refuse(q) \/ Reject(q) \/ InsertConflict(q)
           \/ /\ DatabaseError(q) /\ Finish(q, "conflict")
              /\ request[q].phase \in {"reading", "inserting", "committed"}
  <2>1. UNCHANGED <<history, clock>> /\ \E c : c # "created" /\ Finish(q, c)
    BY <1>3 DEF Refuse, Refusals, Reject, InsertConflict, DatabaseError
  <2>2. Pending(q)
    BY <1>3 DEF Refuse, Reject, InsertConflict, DatabaseError, Pending, InFlight, InFlightPhases
  <2> QED
    BY <1>2, <2>1, <2>2 DEF Answered
<1>4. CASE Reply(q)
  <2>1. UNCHANGED <<history, clock>> /\ request[q].phase = "committed" /\ Finish(q, "created")
    BY <1>4 DEF Reply
  <2> QED
    BY <1>2, <2>1 DEF Pending, InFlight, InFlightPhases
<1>5. CASE Enter(q)
  <2>1. UNCHANGED <<history, clock>> /\ request[q].phase = "receiving" /\ request'[q].phase = "reading"
    BY <1>1, <1>5 DEF Enter, Advance, RequestStates
  <2> QED
    BY <2>1 DEF Pending, InFlight, InFlightPhases, Answered
<1>6. CASE ReadCurrent(q) \/ Stamp(q)
  <2>1. UNCHANGED clock /\ request[q].phase \in {"reading", "deciding"}
    BY <1>6 DEF ReadCurrent, Stamp
  <2> QED
    BY <1>6, <2>1 DEF Pending, InFlight, InFlightPhases
<1>7. CASE Insert(q)
  <2>1. /\ UNCHANGED clock /\ request[q].phase = "inserting"
        /\ ~KeyTaken(request[q].doc, request[q].record) /\ AppendRecord(request[q].doc, request[q].record)
        /\ request'[q].phase = "committed" /\ request'[q].record = request[q].record
    BY <1>1, <1>7 DEF Insert, Advance, RequestStates
  <2> QED
    BY <2>1 DEF Pending, InFlight, InFlightPhases
<1>8. CASE OrphanInsert(q)
  <2>1. /\ UNCHANGED clock /\ request[q].phase = "orphan" /\ Finish(q, OrphanReply(q))
        /\ \/ /\ ~KeyTaken(request[q].doc, request[q].record)
              /\ AppendRecord(request[q].doc, request[q].record)
           \/ UNCHANGED history
    BY <1>8 DEF OrphanInsert
  <2>2. request'[q].phase = "done" /\ request'[q].reply # "created"
    BY <1>2, <2>1 DEF OrphanReply
  <2> QED
    BY <2>1, <2>2 DEF Pending, Answered
<1>9. CASE DatabaseError(q) /\ LosesStatement(q)
  BY <1>9, LosingStep DEF Pending, InFlight, InFlightPhases
<1> QED
  BY <1>3, <1>4, <1>5, <1>6, <1>7, <1>8, <1>9 DEF TransitionStep, DatabaseError

\* A step that leaves histories and clocks alone.
LEMMA QuietHistories ==
  ASSUME HistoriesOK, UNCHANGED <<history, clock>>
  PROVE  HistoriesOK'
BY DEF HistoriesOK, Past

LEMMA QuietInformed ==
  ASSUME NEW p \in Requests, Informed(p), UNCHANGED clock, request'[p] = request[p],
         Pending(p) => history'[request[p].doc] = history[request[p].doc]
  PROVE  Informed(p)'
BY DEF Informed, Past, Pending, InFlight, InFlightPhases

\* A handler's record is stored: it continues the history of its document, and
\* no other handler is at work on that document.
LEMMA StoreLifecycle ==
  ASSUME OneClock, LifecycleInv, NEW q \in Requests, UNCHANGED clock,
         request[q] \in RequestStates, request[q].phase \in {"inserting", "orphan"},
         ~KeyTaken(request[q].doc, request[q].record),
         AppendRecord(request[q].doc, request[q].record)
  PROVE  /\ HistoriesOK'
         /\ \A e \in Documents \ {request[q].doc} : history'[e] = history[e]
<1>1. PICK d \in Documents : d = request[q].doc
  BY DEF RequestStates
<1>2. PICK record \in Records : record = request[q].record
  BY DEF LifecycleInv, Types, Stamped
<1>3. history \in [Documents -> Seq(Records)]
  BY DEF LifecycleInv, Types, TypeOK
<1>4. /\ history'[d] = Append(history[d], record) /\ history[d] \in Seq(Records)
      /\ \A e \in Documents \ {d} : history'[e] = history[e]
  BY <1>1, <1>2, <1>3 DEF AppendRecord
<1>5. Continues(history[d], record) /\ Past(record)
  BY <1>1, <1>2 DEF LifecycleInv, Informed
<1>6. /\ \A e \in Documents : Lifecycle(history[e])
      /\ \A e \in Documents : \A i \in DOMAIN history[e] : Past(history[e][i])
  BY DEF LifecycleInv, HistoriesOK
<1>7. \A i \in DOMAIN history[d] : history[d][i].updatedAt # record.updatedAt
  BY <1>1, <1>2 DEF KeyTaken, Appended, OneClock
<1>8. Lifecycle(history'[d])
  BY <1>4, <1>5, <1>6, <1>7, LifecycleAppend
<1>9. \A i \in DOMAIN history'[d] : history'[d][i] = record \/ (i \in DOMAIN history[d] /\ history'[d][i] = history[d][i])
  BY <1>4
<1>10. \A i \in DOMAIN history'[d] : Past(history'[d][i])
  BY <1>5, <1>6, <1>9
<1>11. ASSUME NEW e \in Documents
       PROVE  Lifecycle(history'[e]) /\ \A i \in DOMAIN history'[e] : Past(history'[e][i])
  BY <1>4, <1>6, <1>8, <1>10
<1> QED
  BY <1>1, <1>4, <1>11 DEF HistoriesOK, Past

\* A record that is stamped continues the history its handler has seen.
LEMMA StampContinues ==
  ASSUME OneClock, LifecycleInv, NEW q \in Requests, request[q] \in RequestStates,
         request[q].phase = "deciding", IsAllowed(request[q].seen.status, request[q].status),
         NEW record \in Records,
         record = [status |-> request[q].status, updatedAt |-> clock[request[q].replica]]
  PROVE  Continues(history[request[q].doc], record) /\ Past(record)
<1> DEFINE h == history[request[q].doc]
<1>1. h \in Seq(Records) /\ Lifecycle(h) /\ \A i \in DOMAIN h : Past(h[i])
  BY DEF LifecycleInv, HistoriesOK, Types, TypeOK, RequestStates
<1>2. request[q].seen = Latest(h) /\ record.status = request[q].status
  BY DEF LifecycleInv, Informed
<1>3. request[q].replica \in Replicas /\ clock \in [Replicas -> 0 .. MaxTime]
  BY DEF LifecycleInv, Types, TypeOK, RequestStates
<1>4. Past(record)
  BY <1>3, BoundsAssumption DEF OneClock, Past
<1> HIDE DEF h
<1>5. CASE h = << >>
  <2>1. Latest(h).status = NoStatus
    BY <1>5, NoRecordIsNone DEF Latest
  <2> QED
    BY <1>2, <1>4, <1>5, <2>1 DEF IsAllowed, Continues, h
<1>6. CASE h # << >>
  <2>1. Latest(h) \in Records
    BY <1>1, <1>6, LifecycleRow
  <2>2. Latest(h).status # NoStatus
    BY <2>1, NoRecordIsNone DEF Records
  <2>3. Latest(h).status = "ACTIVE" /\ record.status \in ClosingStates
    BY <1>2, <2>2 DEF IsAllowed
  <2>4. Len(h) = 1
    BY <1>1, <2>3, LifecycleLatest
  <2>5. 1 \in DOMAIN h
    BY <1>1, <2>4
  <2>6. h[1].updatedAt <= record.updatedAt
    BY <1>1, <1>3, <2>5 DEF Past
  <2> QED
    BY <1>4, <1>6, <2>3, <2>4, <2>6 DEF Continues, h
<1> QED
  BY <1>5, <1>6

LEMMA TransitionLifecycle ==
  ASSUME OneClock, LifecycleInv, NEW q \in Requests,
         TransitionStep(q) \/ OrphanInsert(q) \/ DatabaseError(q)
  PROVE  HistoriesOK' /\ OneAtATime' /\ \A p \in Requests : Informed(p)'
<1>1. Types /\ TypeOK /\ Persistence = "postgres" /\ HistoriesOK /\ OneAtATime
  BY DEF LifecycleInv, Types, OneClock
<1>2. request \in [Requests -> {Unsent} \union RequestStates]
  BY <1>1 DEF TypeOK
<1>3. /\ request[q] \in RequestStates /\ request[q].doc \in Documents
      /\ request'[q].doc = request[q].doc
      /\ \A p \in Requests \ {q} : request'[p] = request[p]
  BY <1>1, HandlerStep DEF RequestStates
<1>4. UNCHANGED clock /\ Pending(q)
  BY <1>1, HandlerCases
<1>5. OneAtATime'
  BY <1>1, <1>3, <1>4 DEF OneAtATime, Pending, InFlight
<1>6. ASSUME UNCHANGED history
      PROVE  HistoriesOK' /\ \A p \in Requests \ {q} : Informed(p)'
  BY <1>1, <1>3, <1>4, <1>6, QuietHistories, QuietInformed DEF LifecycleInv
<1>7. CASE UNCHANGED history /\ request'[q].phase \in {"reading", "done"}
  <2>1. Informed(q)'
    BY <1>7 DEF Informed
  <2> QED
    BY <1>5, <1>6, <1>7, <2>1
<1>8. CASE ReadCurrent(q)
  <2>1. PICK record \in Current(request[q].doc) :
          request' = [request EXCEPT ![q].phase = "deciding", ![q].seen = record]
    BY <1>8 DEF ReadCurrent
  <2>2. record = Latest(history[request[q].doc])
    BY <1>1, <1>3, <2>1, CurrentIsLatest
  <2>3. request'[q].phase = "deciding" /\ request'[q].seen = record /\ UNCHANGED history
    BY <1>2, <1>3, <1>8, <2>1 DEF ReadCurrent, RequestStates
  <2>4. Informed(q)'
    BY <1>3, <2>2, <2>3 DEF Informed
  <2> QED
    BY <1>5, <1>6, <2>3, <2>4
<1>9. CASE Stamp(q)
  <2> DEFINE stamped == [status |-> request[q].status, updatedAt |-> clock[request[q].replica]]
  <2>1. PICK record \in Records : record = stamped
    BY <1>1, <1>3, StampType DEF RequestStates
  <2>2. /\ request[q].phase = "deciding" /\ IsAllowed(request[q].seen.status, request[q].status)
        /\ UNCHANGED history
        /\ request' = [request EXCEPT ![q].phase = "inserting", ![q].seen = NoRecord, ![q].record = record]
    BY <1>1, <1>9, <2>1 DEF Stamp
  <2>3. Continues(history[request[q].doc], record) /\ Past(record)
    BY <1>3, <2>1, <2>2, StampContinues
  <2>4. request'[q].phase = "inserting" /\ request'[q].record = record
    BY <1>2, <1>3, <2>2 DEF RequestStates
  <2>5. Informed(q)'
    BY <1>3, <1>4, <2>2, <2>3, <2>4 DEF Informed, Past
  <2> QED
    BY <1>5, <1>6, <2>2, <2>5
<1>10. CASE /\ request[q].phase \in {"inserting", "orphan"}
            /\ ~KeyTaken(request[q].doc, request[q].record)
            /\ AppendRecord(request[q].doc, request[q].record)
            /\ request'[q].phase \in {"committed", "done"}
  <2>1. HistoriesOK' /\ \A e \in Documents \ {request[q].doc} : history'[e] = history[e]
    BY <1>3, <1>4, <1>10, StoreLifecycle
  <2>2. ASSUME NEW p \in Requests \ {q} PROVE Informed(p)'
    <3>1. Pending(p) => request[p].doc \in Documents \ {request[q].doc}
      <4>1. Pending(p) => request[p] \in RequestStates
        BY <1>2 DEF Pending, InFlight, InFlightPhases, Unsent
      <4> QED
        BY <1>1, <1>4, <4>1 DEF OneAtATime, RequestStates
    <3> QED
      BY <1>3, <1>4, <2>1, <3>1, QuietInformed DEF LifecycleInv
  <2>3. Informed(q)'
    BY <1>10 DEF Informed
  <2> QED
    BY <1>5, <2>1, <2>2, <2>3
<1>11. CASE /\ UNCHANGED history
            /\ request[q].phase = "inserting" /\ request'[q].phase = "orphan"
            /\ request'[q].record = request[q].record
  <2>1. Informed(q)'
    BY <1>3, <1>4, <1>11 DEF LifecycleInv, Informed, Past
  <2> QED
    BY <1>5, <1>6, <1>11, <2>1
<1> QED
  BY <1>1, <1>7, <1>8, <1>9, <1>10, <1>11, HandlerCases

LEMMA LifecycleStep == OneClock /\ LifecycleInv /\ [Next]_vars => LifecycleInv'
<1> SUFFICES ASSUME OneClock, LifecycleInv, [Next]_vars PROVE LifecycleInv'
  OBVIOUS
<1>1. Types /\ TypeOK /\ Types' /\ HistoriesOK /\ OneAtATime
  BY TypesStep DEF LifecycleInv, Types
<1>2. ASSUME UNCHANGED <<history, request, clock>> PROVE LifecycleInv'
  <2>1. \A p \in Requests : Informed(p)'
    BY <1>2, QuietInformed DEF LifecycleInv
  <2> QED
    BY <1>1, <1>2, <2>1, QuietHistories DEF LifecycleInv, OneAtATime, Pending, InFlight
<1>3. CASE UNCHANGED vars
  BY <1>2, <1>3 DEF vars
<1>4. ASSUME NEW q \in Requests, NEW r \in Replicas, NEW d \in Documents,
             NEW s \in Requested, Accept(q, r, d, s)
      PROVE  LifecycleInv'
  <2>1. /\ request'[q].phase = "receiving" /\ request'[q].doc = d
        /\ \A p \in Requests \ {q} : request'[p] = request[p]
        /\ UNCHANGED <<history, clock>>
        /\ \A p \in Requests : Pending(p) => request[p].doc # d
    BY <1>1, <1>4 DEF Accept, TypeOK, OneClock
  <2>2. \A p \in Requests \ {q} : Informed(p)'
    BY <2>1, QuietInformed DEF LifecycleInv
  <2>3. Informed(q)'
    BY <2>1 DEF Informed
  <2>4. OneAtATime'
    BY <1>1, <2>1 DEF OneAtATime, Pending, InFlight
  <2> QED
    BY <1>1, <2>1, <2>2, <2>3, <2>4, QuietHistories DEF LifecycleInv
<1>5. ASSUME NEW q \in Requests, TransitionStep(q) \/ OrphanInsert(q) \/ DatabaseError(q)
      PROVE  LifecycleInv'
  BY <1>1, <1>5, TransitionLifecycle DEF LifecycleInv
<1>6. ASSUME NEW g \in Lookups,
             \/ \E r \in Replicas, d \in Documents : BeginLookup(g, r, d)
             \/ LookupStep(g) \/ LookupError(g)
      PROVE  LifecycleInv'
  BY <1>2, <1>6 DEF BeginLookup, LookupStep, LookupRead, LookupAnswer, LookupError
<1>7. ASSUME NEW r \in Replicas, SetAvailable(r) \/ Shutdown(r) \/ CloseRuntime(r) \/ Start(r)
      PROVE  LifecycleInv'
  BY <1>2, <1>7 DEF SetAvailable, Shutdown, CloseRuntime, Start, OneClock
<1>8. ASSUME NEW r \in Replicas, Tick(r)
      PROVE  LifecycleInv'
  <2>1. UNCHANGED <<history, request>> /\ \A s \in Replicas : clock[s] \in Nat /\ clock'[s] \in Nat /\ clock[s] <= clock'[s]
    BY <1>1, <1>8, BoundsAssumption DEF Tick, TypeOK
  <2>2. ASSUME NEW record \in Records, Past(record) PROVE \A s \in Replicas : record.updatedAt <= clock'[s]
    <3>1. record.updatedAt \in Nat
      BY BoundsAssumption DEF Records
    <3> QED
      BY <2>1, <2>2, <3>1 DEF Past
  <2>3. HistoriesOK'
    <3>1. \A d \in Documents : \A i \in DOMAIN history[d] : history[d][i] \in Records
      BY <1>1 DEF TypeOK
    <3> QED
      BY <1>1, <2>1, <2>2, <3>1 DEF HistoriesOK, Past
  <2>4. ASSUME NEW q \in Requests PROVE Informed(q)'
    <3>1. request[q].phase \in {"inserting", "orphan"} => request[q].record \in Records
      BY <1>1 DEF Types, Stamped
    <3> QED
      BY <2>1, <2>2, <3>1 DEF LifecycleInv, Informed, Past
  <2>5. OneAtATime'
    BY <1>1, <2>1 DEF OneAtATime, Pending, InFlight
  <2> QED
    BY <1>1, <2>3, <2>4, <2>5 DEF LifecycleInv
<1>9. ASSUME NEW r \in Replicas, Crash(r)
      PROVE  LifecycleInv'
  <2>1. UNCHANGED <<history, clock>>
    BY <1>9 DEF Crash
  <2>2. ASSUME NEW q \in Requests
        PROVE  /\ Pending(q)' => Pending(q) /\ request'[q].doc = request[q].doc
               /\ Informed(q)'
    <3>1. /\ request'[q].doc = request[q].doc \/ request[q] = Unsent
          /\ \/ request'[q] = request[q]
             \/ /\ request[q].phase = "inserting" /\ request'[q].phase = "orphan"
                /\ request'[q].record = request[q].record
             \/ request'[q].phase = "done"
      BY <1>1, <1>9, CrashStep
    <3>2. CASE request'[q] = request[q]
      BY <2>1, <3>2, QuietInformed DEF LifecycleInv, Pending, InFlight
    <3>3. CASE /\ request[q].phase = "inserting" /\ request'[q].phase = "orphan"
               /\ request'[q].record = request[q].record
      BY <2>1, <3>1, <3>3 DEF LifecycleInv, Informed, Past, Pending, InFlight, InFlightPhases, Unsent
    <3>4. CASE request'[q].phase = "done"
      BY <3>4 DEF Informed, Pending, InFlight, InFlightPhases
    <3> QED
      BY <3>1, <3>2, <3>3, <3>4
  <2>3. OneAtATime'
    BY <1>1, <2>2 DEF OneAtATime
  <2> QED
    BY <1>1, <2>1, <2>2, <2>3, QuietHistories DEF LifecycleInv
<1> QED
  BY <1>3, <1>4, <1>5, <1>6, <1>7, <1>8, <1>9 DEF Next

LEMMA InitLifecycle == Init => LifecycleInv
BY InitTypes DEF Init, LifecycleInv, HistoriesOK, Lifecycle, OneAtATime, Pending, InFlight, InFlightPhases, Informed, Unsent

-----------------------------------------------------------------------------
(* The promise is kept: StatusService implements StatusHistory *)

StatusesOf(h) == [i \in DOMAIN h |-> h[i].status]

LEMMA StatusesOfEmpty == ASSUME NEW h \in Seq(Records), h = << >> PROVE StatusesOf(h) = << >>
BY DEF StatusesOf

LEMMA StatusesOfAppend ==
  ASSUME NEW h \in Seq(Records), NEW record \in Records
  PROVE  StatusesOf(Append(h, record)) = Append(StatusesOf(h), record.status)
<1> DEFINE statuses == [i \in 1 .. Len(h) |-> h[i].status]
           longer == [i \in 1 .. Len(h) + 1 |-> Append(h, record)[i].status]
<1>0. /\ Len(h) \in Nat /\ DOMAIN h = 1 .. Len(h)
      /\ \A i \in 1 .. Len(h) : h[i].status \in Statuses
      /\ DOMAIN Append(h, record) = 1 .. Len(h) + 1
      /\ \A i \in 1 .. Len(h) + 1 : Append(h, record)[i].status \in Statuses
  <2>1. \A row \in Records : row.status \in Statuses
    BY DEF Records
  <2>2. Append(h, record) \in Seq(Records) /\ Len(Append(h, record)) = Len(h) + 1
    OBVIOUS
  <2>3. /\ DOMAIN Append(h, record) = 1 .. Len(h) + 1
        /\ \A i \in 1 .. Len(h) + 1 : Append(h, record)[i] \in Records
    BY <2>2
  <2>4. DOMAIN h = 1 .. Len(h) /\ \A i \in 1 .. Len(h) : h[i] \in Records
    OBVIOUS
  <2> QED
    BY <2>1, <2>3, <2>4
<1>1. statuses \in Seq(Statuses) /\ Len(statuses) = Len(h) /\ StatusesOf(h) = statuses
  <2>1. statuses \in [1 .. Len(h) -> Statuses] /\ StatusesOf(h) = statuses
    BY <1>0 DEF StatusesOf
  <2> QED
    BY <1>0, <2>1
<1>2. longer \in Seq(Statuses) /\ Len(longer) = Len(h) + 1 /\ StatusesOf(Append(h, record)) = longer
  <2>1. longer \in [1 .. Len(h) + 1 -> Statuses] /\ StatusesOf(Append(h, record)) = longer
    BY <1>0 DEF StatusesOf
  <2>2. Len(h) + 1 \in Nat
    BY <1>0
  <2> HIDE DEF longer
  <2> QED
    BY <2>1, <2>2
<1>3. \A i \in 1 .. Len(h) + 1 : longer[i] = Append(statuses, record.status)[i]
  BY <1>1
<1> HIDE DEF statuses, longer
<1>4. Append(statuses, record.status) \in Seq(Statuses) /\ Len(Append(statuses, record.status)) = Len(h) + 1
  BY <1>1 DEF Records
<1>5. longer = Append(statuses, record.status)
  BY <1>2, <1>3, <1>4
<1> QED
  BY <1>1, <1>2, <1>5

\* Storing a record of a continued history is issuing or closing the document.
LEMMA StoreKeepsPromise ==
  ASSUME OneClock, TypeOK, HistoriesOK, TypeOK', HistoriesOK', NEW d \in Documents, NEW record \in Records,
         Continues(history[d], record), AppendRecord(d, record)
  PROVE  Promise!Next
<1> DEFINE s == record.status
           states(e) == Path(e)
           current(e) == Projected(e)
<1>1. history \in [Documents -> Seq(Records)] /\ history[d] \in Seq(Records)
  BY DEF TypeOK
<1>2. /\ history'[d] = Append(history[d], record)
      /\ \A e \in Documents \ {d} : history'[e] = history[e]
  BY <1>1 DEF AppendRecord
<1>3. \A e \in Documents : Path(e) = StatusesOf(history[e]) /\ Path(e)' = StatusesOf(history'[e])
  BY DEF Path, StatusesOf
<1>4. \A e \in Documents : Projected(e) = Latest(history[e]).status
  <2>1. ASSUME NEW e \in Documents PROVE Current(e) = {Latest(history[e])}
    BY CurrentIsLatest
  <2> QED
    BY <2>1 DEF Projected
<1>5. \A e \in Documents : Projected(e)' = Latest(history'[e]).status
  <2>1. ASSUME NEW e \in Documents PROVE Current(e)' = {Latest(history'[e])}
    <3>1. history'[e] \in Seq(Records) /\ Lifecycle(history'[e]) /\ Persistence # "memory"
      BY DEF TypeOK, HistoriesOK, OneClock
    <3>2. Current(e)' = Rows(history'[e])
      BY <3>1 DEF Current, IsCurrent, Rows
    <3> QED
      BY <3>1, <3>2, LifecycleRows
  <2>2. ASSUME NEW e \in Documents PROVE Projected(e)' = (CHOOSE row \in Current(e)' : TRUE).status
    BY DEF Projected
  <2> QED
    BY <2>1, <2>2
<1>6. Path(d)' = Append(Path(d), s) /\ Projected(d)' = s
  <2>1. Path(d)' = StatusesOf(Append(history[d], record))
    BY <1>2, <1>3
  <2>2. Path(d) = StatusesOf(history[d])
    BY <1>3
  <2>3. Path(d)' = Append(Path(d), s)
    BY <1>1, <2>1, <2>2, StatusesOfAppend
  <2>4. Latest(Append(history[d], record)) = record
    BY <1>1 DEF Latest
  <2> QED
    BY <1>2, <1>5, <2>3, <2>4
<1>7. \A e \in Documents \ {d} : Path(e)' = Path(e) /\ Projected(e)' = Projected(e)
  BY <1>2, <1>3, <1>4, <1>5
<1> DEFINE paths == [e \in Documents |-> Path(e)]
           currents == [e \in Documents |-> Projected(e)]
<1>8. paths' = [paths EXCEPT ![d] = Append(Path(d), s)]
  BY <1>6, <1>7
<1>9. currents' = [currents EXCEPT ![d] = s]
  BY <1>6, <1>7
<1>10. (currents[d] = NoStatus /\ s = "ACTIVE") \/ (currents[d] = "ACTIVE" /\ s \in ClosingStates)
  <2>1. currents[d] = Latest(history[d]).status /\ Lifecycle(history[d])
    BY <1>4 DEF HistoriesOK
  <2>2. CASE history[d] = << >>
    BY <2>1, <2>2, NoRecordIsNone DEF Continues, Latest
  <2>3. CASE history[d] # << >>
    <3>1. Len(history[d]) = 1 /\ s \in ClosingStates
      BY <2>3 DEF Continues
    <3>2. Latest(history[d]) = history[d][1] /\ history[d][1].status = "ACTIVE"
      BY <2>1, <2>3, <3>1 DEF Latest, Lifecycle
    <3> QED
      BY <2>1, <3>1, <3>2
  <2> QED
    BY <2>2, <2>3
<1> QED
  BY <1>8, <1>9, <1>10
     DEF Promise!Next, Promise!Issue, Promise!Close, Promise!Record, Promise!ClosingStates, Promise!NoStatus,
         ClosingStates, NoStatus

LEMMA PromiseStep ==
  ASSUME OneClock, LifecycleInv, LifecycleInv', [Next]_vars
  PROVE  [Promise!Next]_(Promise!vars)
<1>1. Types /\ TypeOK /\ HistoriesOK /\ TypeOK' /\ HistoriesOK'
  BY DEF LifecycleInv, Types
<1>2. ASSUME UNCHANGED history PROVE UNCHANGED Promise!vars
  <2>1. \A d \in Documents : Path(d)' = Path(d) /\ Projected(d)' = Projected(d)
    BY <1>2 DEF Path, Projected, Current, IsCurrent
  <2> QED
    BY <2>1 DEF Promise!vars
<1>3. ASSUME NEW q \in Requests, TransitionStep(q) \/ OrphanInsert(q) \/ DatabaseError(q)
      PROVE  UNCHANGED history \/ Promise!Next
  <2>1. CASE UNCHANGED history \/ ReadCurrent(q) \/ Stamp(q)
    BY <2>1 DEF ReadCurrent, Stamp, OneClock
  <2>2. CASE request[q].phase \in {"inserting", "orphan"} /\ AppendRecord(request[q].doc, request[q].record)
    <3>1. PICK d \in Documents : d = request[q].doc
      BY <1>1, <1>3, HandlerStep DEF RequestStates
    <3>2. PICK record \in Records : record = request[q].record
      BY <1>1, <2>2 DEF Types, Stamped
    <3>3. Continues(history[d], record) /\ AppendRecord(d, record)
      BY <2>2, <3>1, <3>2 DEF LifecycleInv, Informed
    <3> QED
      BY <1>1, <3>3, StoreKeepsPromise
  <2> QED
    BY <1>1, <1>3, <2>1, <2>2, HandlerCases DEF OneClock
<1>4. CASE UNCHANGED vars
  BY <1>2, <1>4 DEF vars
<1>5. ASSUME NEW q \in Requests, NEW r \in Replicas, NEW d \in Documents, NEW s \in Requested, Accept(q, r, d, s)
      PROVE  UNCHANGED history
  BY <1>5 DEF Accept
<1>6. ASSUME NEW g \in Lookups,
             \/ \E r \in Replicas, d \in Documents : BeginLookup(g, r, d)
             \/ LookupStep(g) \/ LookupError(g)
      PROVE  UNCHANGED history
  BY <1>6 DEF BeginLookup, LookupStep, LookupRead, LookupAnswer, LookupError
<1>7. ASSUME NEW r \in Replicas,
             Tick(r) \/ SetAvailable(r) \/ Shutdown(r) \/ CloseRuntime(r) \/ Start(r) \/ Crash(r)
      PROVE  UNCHANGED history
  BY <1>7 DEF Tick, SetAvailable, Shutdown, CloseRuntime, Start, Crash, OneClock
<1> QED
  BY <1>2, <1>3, <1>4, <1>5, <1>6, <1>7 DEF Next

LEMMA InitPromise == Init => Promise!Init
<1> SUFFICES ASSUME Init PROVE Promise!Init
  OBVIOUS
<1>1. \A d \in Documents : history[d] = << >>
  BY DEF Init
<1>2. ASSUME NEW d \in Documents PROVE Path(d) = << >> /\ Projected(d) = NoStatus
  <2>1. Path(d) = StatusesOf(history[d]) /\ history[d] = << >> /\ << >> \in Seq(Records)
    BY <1>1 DEF Path, StatusesOf
  <2>2. Current(d) = {NoRecord}
    BY <1>1 DEF Current
  <2> QED
    BY <2>1, <2>2, StatusesOfEmpty, NoRecordIsNone DEF Projected
<1> QED
  BY <1>2 DEF Promise!Init, Promise!NoStatus, NoStatus

\* With PostgreSQL, one clock and serialized clients, the service implements
\* StatusHistory: every behaviour, with its crashes, database errors and INSERTs
\* that outlive their process, issues each document once, closes it at most once,
\* takes nothing back, and projects the last state recorded.
THEOREM ServiceKeepsItsPromise == ASSUME OneClock PROVE Spec => KeepsPromise
<1>1. LifecycleInv /\ [Next]_vars => LifecycleInv'
  BY LifecycleStep
<1>2. LifecycleInv /\ LifecycleInv' /\ [Next]_vars => [Promise!Next]_(Promise!vars)
  BY PromiseStep
<1>3. Init => LifecycleInv /\ Promise!Init
  BY InitLifecycle, InitPromise
<1> QED
  BY <1>1, <1>2, <1>3, PTL DEF Spec, KeepsPromise, Promise!Spec

-----------------------------------------------------------------------------
(* An acknowledged closure is visible *)

LEMMA HonestStep ==
  ASSUME OneClock, Types, [Next]_vars, NEW q \in Requests, Honest(q)
  PROVE  Honest(q)'
<1>1. request \in [Requests -> {Unsent} \union RequestStates] /\ Persistence = "postgres"
  BY DEF Types, TypeOK, OneClock
<1>2. ASSUME NEW p \in Requests, TransitionStep(p) \/ OrphanInsert(p) \/ DatabaseError(p)
      PROVE  Honest(q)'
  <2>1. request[p] \in RequestStates /\ request'[p].status = request[p].status /\ (p # q => request'[q] = request[q])
    BY <1>2, HandlerStep
  <2>2. CASE p # q
    BY <2>1, <2>2 DEF Honest, Answered
  <2>3. CASE p = q /\ ReadCurrent(q)
    <3>1. PICK record \in Current(request[q].doc) :
            request' = [request EXCEPT ![q].phase = "deciding", ![q].seen = record]
      BY <2>3 DEF ReadCurrent
    <3>2. request'[q].phase = "deciding"
      BY <1>1, <2>1, <2>3, <3>1 DEF RequestStates
    <3> QED
      BY <3>2 DEF Honest, Answered
  <2>4. CASE p = q /\ Stamp(q)
    <3>1. request'[q].record.status = request[q].status
      BY <1>1, <2>1, <2>4 DEF Stamp, RequestStates
    <3> QED
      BY <2>1, <2>4, <3>1 DEF Honest
  <2>5. CASE p = q /\ request'[q].phase \in {"reading", "done"}
             /\ (Answered(q, "created")' => request[q].phase = "committed" /\ request'[q].record = request[q].record)
    BY <2>1, <2>5 DEF Honest
  <2>6. CASE /\ p = q /\ request[q].phase \in {"inserting", "orphan"}
             /\ \/ request'[q].phase = "committed" /\ request'[q].record = request[q].record
                \/ request'[q].phase = "done" /\ request'[q].reply # "created"
    BY <2>1, <2>6 DEF Honest, Answered
  <2>7. CASE /\ p = q /\ request[q].phase = "inserting"
             /\ request'[q].phase = "orphan" /\ request'[q].record = request[q].record
    BY <2>1, <2>7 DEF Honest, Answered
  <2> QED
    BY <1>1, <1>2, <2>2, <2>3, <2>4, <2>5, <2>6, <2>7, HandlerCases
<1>3. CASE UNCHANGED request
  BY <1>3 DEF Honest, Answered
<1>4. ASSUME NEW p \in Requests, NEW r \in Replicas, NEW d \in Documents, NEW s \in Requested, Accept(p, r, d, s)
      PROVE  Honest(q)'
  <2>1. request'[q] = request[q] \/ request'[q].phase = "receiving"
    BY <1>1, <1>4 DEF Accept
  <2> QED
    BY <2>1 DEF Honest, Answered
<1>5. ASSUME NEW g \in Lookups,
             \/ \E r \in Replicas, d \in Documents : BeginLookup(g, r, d)
             \/ LookupStep(g) \/ LookupError(g)
      PROVE  UNCHANGED request
  BY <1>5 DEF BeginLookup, LookupStep, LookupRead, LookupAnswer, LookupError
<1>6. ASSUME NEW r \in Replicas,
             Tick(r) \/ SetAvailable(r) \/ Shutdown(r) \/ CloseRuntime(r) \/ Start(r)
      PROVE  UNCHANGED request
  BY <1>6 DEF Tick, SetAvailable, Shutdown, CloseRuntime, Start
<1>7. ASSUME NEW r \in Replicas, Crash(r)
      PROVE  Honest(q)'
  <2>1. CASE ~(InFlight(q) /\ request[q].replica = r)
    <3>1. request'[q] = request[q]
      BY <1>7, <2>1 DEF Crash
    <3> QED
      BY <3>1 DEF Honest, Answered
  <2>2. CASE InFlight(q) /\ request[q].replica = r /\ request[q].phase = "inserting"
    <3>0. request[q] \in RequestStates
      BY <1>1, <2>2 DEF Unsent
    <3>1. request'[q] = [request[q] EXCEPT !.phase = "orphan"]
      BY <1>7, <2>2 DEF Crash
    <3>2. request'[q].record = request[q].record /\ request'[q].status = request[q].status
      BY <3>0, <3>1 DEF RequestStates
    <3> QED
      BY <2>2, <3>2 DEF Honest
  <2>3. CASE InFlight(q) /\ request[q].replica = r /\ request[q].phase # "inserting"
    <3>0. request[q] \in RequestStates
      BY <1>1, <2>3 DEF Unsent, InFlight, InFlightPhases
    <3>1. request'[q] = Ended(q, "lost")
      BY <1>7, <2>3 DEF Crash
    <3>2. request'[q].phase = "done" /\ request'[q].reply = "lost"
      BY <3>0, <3>1 DEF Ended, RequestStates
    <3> QED
      BY <3>2 DEF Honest, Answered
  <2> QED
    BY <2>1, <2>2, <2>3
<1> QED
  BY <1>2, <1>3, <1>4, <1>5, <1>6, <1>7 DEF Next, vars

\* An acknowledged closure is the second record of its document.
LEMMA ClosureIsStored ==
  ASSUME OneClock, ClosureInv, NEW d \in Documents, Acknowledged(d) \intersect ClosingStates # {}
  PROVE  Len(history[d]) = 2
<1>1. PICK q \in Requests : Answered(q, "created") /\ request[q].doc = d /\ request[q].status \in ClosingStates
  BY DEF Acknowledged
<1>2. request[q].record.status \in ClosingStates
  BY <1>1 DEF ClosureInv, Honest
<1>3. PICK i \in DOMAIN history[d] : history[d][i] = request[q].record
  BY <1>1 DEF ClosureInv, Stored, Holds, OneClock, Appended
<1>4. history[d] \in Seq(Records) /\ Lifecycle(history[d])
  BY DEF ClosureInv, LifecycleInv, Types, TypeOK, HistoriesOK
<1>5. i \in 1 .. Len(history[d]) /\ (i = 1 => history[d][i].status = "ACTIVE")
  BY <1>3, <1>4 DEF Lifecycle
<1>6. i # 1
  BY <1>2, <1>3, <1>5 DEF ClosingStates
<1> QED
  BY <1>4, <1>5, <1>6 DEF Lifecycle

LEMMA ClosureStep ==
  ASSUME OneClock, ClosureInv, LifecycleInv', [Next]_vars, NEW g \in Lookups
  PROVE  FindsClosure(lookup[g])'
<1>1. Types /\ TypeOK /\ HistoriesOK /\ FindsClosure(lookup[g]) /\ HistoriesOK' /\ TypeOK'
  BY DEF ClosureInv, LifecycleInv, Types
<1>2. lookup \in [Lookups -> {Unsent} \union LookupStates] /\ history \in [Documents -> Seq(Records)]
  BY <1>1 DEF TypeOK
<1>3. \A d \in Documents : Len(history[d]) = 2 => Len(history'[d]) = 2
  <2> SUFFICES ASSUME NEW d \in Documents, Len(history[d]) = 2 PROVE Len(history'[d]) = 2
    OBVIOUS
  <2>1. Lifecycle(history'[d]) /\ history[d] \in Seq(Records)
    BY <1>1, <1>2 DEF HistoriesOK
  <2>2. Len(history'[d]) \in 0 .. 2
    BY <2>1 DEF Lifecycle
  <2>3. ASSUME NEW record \in Records PROVE Len(Append(history[d], record)) = 3
    <3>1. Len(Append(history[d], record)) = Len(history[d]) + 1
      BY <2>1, AppendLength
    <3> QED
      BY <3>1
  <2> QED
    BY <1>1, <2>2, <2>3, HistoryGrows DEF OneClock
<1>4. lookup[g].phase # "unsent" => lookup[g] \in LookupStates /\ lookup[g].doc \in Documents
  BY <1>2 DEF Unsent, LookupStates
<1>5. CASE lookup'[g] = lookup[g]
  BY <1>1, <1>3, <1>4, <1>5 DEF FindsClosure
<1>6. ASSUME NEW r \in Replicas, NEW d \in Documents, BeginLookup(g, r, d)
      PROVE  FindsClosure(lookup[g])'
  <2>1. PICK strict \in BOOLEAN : lookup'[g] =
         [phase |-> IF available[r] THEN "reading" ELSE "done",
          replica |-> r, doc |-> d, strict |-> strict, acked |-> Acknowledged(d),
          seen |-> NoRecord, freshness |-> "UNAVAILABLE",
          answer |-> IF available[r] THEN NoStatus ELSE "UNCHECKED"]
    BY <1>2, <1>6 DEF BeginLookup
  <2>2. /\ lookup'[g].doc = d /\ lookup'[g].acked = Acknowledged(d)
        /\ lookup'[g].phase \in {"reading", "done"} /\ lookup'[g].answer # "ACTIVE"
    BY <2>1 DEF NoStatus
  <2>3. Acknowledged(d) \intersect ClosingStates # {} => Len(history'[d]) = 2
    BY <1>3, ClosureIsStored
  <2> QED
    BY <2>2, <2>3 DEF FindsClosure
<1>7. CASE LookupRead(g)
  <2>1. lookup[g] \in LookupStates /\ lookup[g].doc \in Documents /\ UNCHANGED history
    BY <1>4, <1>7 DEF LookupRead
  <2>2. PICK record \in Current(lookup[g].doc) :
          lookup' = [lookup EXCEPT ![g].phase = "answering", ![g].seen = record]
    BY <1>7 DEF LookupRead
  <2>3. lookup'[g] = [lookup[g] EXCEPT !.phase = "answering", !.seen = record]
    BY <1>2, <2>2
  <2>4. /\ lookup'[g].phase = "answering" /\ lookup'[g].seen = record
        /\ lookup'[g].acked = lookup[g].acked /\ lookup'[g].doc = lookup[g].doc
    BY <2>1, <2>3 DEF LookupStates
  <2>5. Len(history[lookup[g].doc]) = 2 => record.status \in ClosingStates
    <3>1. record = Latest(history[lookup[g].doc])
      BY <1>1, <2>1, <2>2, CurrentIsLatest
    <3> QED
      BY <1>1, <1>2, <2>1, <3>1, LifecycleLatest DEF HistoriesOK
  <2> QED
    BY <1>1, <1>7, <2>1, <2>4, <2>5 DEF FindsClosure, LookupRead
<1>8. CASE LookupAnswer(g)
  <2>1. lookup[g] \in LookupStates /\ UNCHANGED history /\ lookup[g].phase = "answering"
    BY <1>4, <1>8 DEF LookupAnswer
  <2>2. /\ lookup'[g].phase = "done" /\ lookup'[g].answer \in {"UNCHECKED", lookup[g].seen.status}
        /\ lookup'[g].acked = lookup[g].acked /\ lookup'[g].doc = lookup[g].doc
    BY <1>2, <1>8, <2>1 DEF LookupAnswer, LookupStates
  <2>3. "ACTIVE" \notin ClosingStates
    BY DEF ClosingStates
  <2> QED
    BY <1>1, <2>1, <2>2, <2>3 DEF FindsClosure
<1>9. CASE /\ lookup[g] \in LookupStates
           /\ lookup'[g] = [lookup[g] EXCEPT !.phase = "done", !.answer = "ERROR"]
  <2>1. /\ lookup'[g].phase = "done" /\ lookup'[g].answer = "ERROR"
        /\ lookup'[g].acked = lookup[g].acked /\ lookup'[g].doc = lookup[g].doc
    BY <1>9 DEF LookupStates
  <2>2. lookup[g].phase # "unsent"
    BY <1>9 DEF LookupStates
  <2> QED
    BY <1>1, <1>3, <1>4, <2>1, <2>2 DEF FindsClosure
<1> QED
  BY <1>1, <1>5, <1>6, <1>7, <1>8, <1>9, LookupCases DEF LookupStep

\* With PostgreSQL, one clock and serialized clients, a lookup that begins after
\* a closing transition was acknowledged never reports the document as ACTIVE.
THEOREM ClosuresAreVisible == ASSUME OneClock PROVE Spec => []ClosureIsVisible
<1>1. Init => ClosureInv
  BY InitLifecycle DEF ClosureInv, FindsClosure, Honest, Stored, Holds, Answered, Init, Unsent
<1>2. ClosureInv /\ [Next]_vars => ClosureInv'
  <2> SUFFICES ASSUME ClosureInv, [Next]_vars PROVE ClosureInv'
    OBVIOUS
  <2>1. LifecycleInv' /\ Stored'
    BY LifecycleStep, StoredStep DEF ClosureInv, StoredInv, LifecycleInv
  <2>2. \A q \in Requests : Honest(q)'
    BY HonestStep DEF ClosureInv, LifecycleInv
  <2>3. \A g \in Lookups : FindsClosure(lookup[g])'
    BY <2>1, ClosureStep
  <2> QED
    BY <2>1, <2>2, <2>3 DEF ClosureInv
<1>3. ClosureInv => ClosureIsVisible
  BY DEF ClosureInv, FindsClosure, ClosureIsVisible
<1> QED
  BY <1>1, <1>2, <1>3, PTL DEF Spec

\* Under the same conditions a closing record is the last of its document: it
\* takes concurrent clients, or clocks that disagree, to record anything after it.
THEOREM SerializedClosureIsFinal == ASSUME OneClock PROVE Spec => []ClosureIsFinal
<1>1. LifecycleInv => ClosureIsFinal
  <2> SUFFICES ASSUME LifecycleInv, NEW d \in Documents, NEW i \in DOMAIN history[d],
                      history[d][i].status \in ClosingStates
               PROVE  i = Len(history[d])
    BY DEF ClosureIsFinal
  <2>1. history[d] \in Seq(Records) /\ Lifecycle(history[d])
    BY DEF LifecycleInv, Types, TypeOK, HistoriesOK
  <2>2. i \in 1 .. Len(history[d]) /\ Len(history[d]) \in 0 .. 2
    <3>1. i \in 1 .. Len(history[d])
      BY <2>1
    <3> QED
      BY <2>1, <3>1 DEF Lifecycle
  <2>3. i # 1
    BY <2>1, <2>2 DEF Lifecycle, ClosingStates
  <2>4. \A n \in 0 .. 2 : \A j \in 1 .. n : j = 1 \/ j = n
    OBVIOUS
  <2> QED
    BY <2>2, <2>3, <2>4
<1> QED
  BY <1>1, InitLifecycle, LifecycleStep, PTL DEF Spec
=============================================================================
