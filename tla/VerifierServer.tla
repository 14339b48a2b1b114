--------------------------- MODULE VerifierServer ---------------------------
(***************************************************************************)
(* The verifier service (apps/verifier-web/src/server.ts): a request is    *)
(* admitted by the rate limiter, its body is read under a size limit and a *)
(* timeout, the body is verified under another timeout, and exactly one    *)
(* reply is sent.  Data, end, error and timer callbacks of a request come  *)
(* in any order, and a verification that timed out goes on running.        *)
(***************************************************************************)
EXTENDS RateLimiter, Sequences

CONSTANTS
  MaxRequests,   \* bound: the HTTP requests that arrive
  Verifications, \* bound: those of them that may ask for a verification
  MaxBody        \* the size limit of a body (requestLimit), in chunks

\* Requests are numbered in the order they arrive.
Requests == 1 .. MaxRequests

ASSUME BodyAssumption == /\ MaxRequests \in Nat
                         /\ Verifications \subseteq Requests
                         /\ MaxBody \in Nat

VARIABLES
  request,  \* request[q]: the connection and handler of request q
  server    \* "up", "closing" (close() called) or "closed"

serverVars == <<now, bucket, evicted, request, server>>

-----------------------------------------------------------------------------
(* Requests *)

\* "free": answered without a check: a preflight, a denied origin, /health, the
\* user interface.  "plain": checked and answered in the same turn: /v1/health,
\* /v1/version, an unknown route, an unsupported content type, a Content-Length
\* that is malformed or too large.  "verify": POST /v1/verify and its variants.
\* Only the last kind has a body here.
Kinds == {"free", "plain", "verify"}

\* "answered", "verdict" and "rejected" stand for the replies of a plain request
\* and of a verification; the others are the statuses of WebError.
Replies == {"answered", "verdict", "rejected", "400", "408", "413", "429", "504"}

Unsent == [phase |-> "unsent"]

\* stream: what the socket still delivers; size and sent: the body in chunks, as
\* the client means to send it and so far sent; taken: the chunks kept;
\* work: verifier.verifyInput().  at is a history variable: when the limiter was
\* asked.
RequestStates ==
  [phase : {"reading", "verifying", "done"}, client : Clients, kind : Kinds,
   at : 0 .. MaxTime, stream : {"open", "ended", "broken"},
   size : 0 .. MaxBody + 1, sent : 0 .. MaxBody + 1, taken : 0 .. MaxBody,
   work : {"none", "running", "over"}, replies : Seq(Replies)]

Arrived(q) == request[q].phase # "unsent"
InFlight(q) == request[q].phase \in {"reading", "verifying"}
Got(q, reply) == Arrived(q) /\ \E i \in DOMAIN request[q].replies : request[q].replies[i] = reply
Admitted(q) == Arrived(q) /\ request[q].kind # "free" /\ ~Got(q, "429")

\* The record of a request after its handler replied.
Replied(r, reply) == [r EXCEPT !.phase = "done", !.taken = 0, !.replies = Append(@, reply)]

Step(q, r) ==
  /\ request' = [request EXCEPT ![q] = r]
  /\ UNCHANGED <<limiterVars, server>>

\* The bodies a client may mean to send, with one that is too large.
Sizes(kind) == IF kind = "verify" THEN 0 .. MaxBody + 1 ELSE {0}

NewRequest(c, kind, size) ==
  [phase |-> "reading", client |-> c, kind |-> kind, at |-> now,
   stream |-> IF kind = "verify" THEN "open" ELSE "ended",
   size |-> size, sent |-> 0, taken |-> 0, work |-> "none", replies |-> << >>]

\* handleRequest() up to its first await.
Arrive(q, c, kind, size) ==
  /\ request[q] = Unsent /\ \A p \in Requests : p < q => request[p] # Unsent
  /\ server = "up"
  /\ kind = "verify" => q \in Verifications
  /\ LET r == NewRequest(c, kind, size)
     IN request' = [request EXCEPT ![q] =
          IF kind # "free" /\ ~Admits(c) THEN Replied(r, "429")
          ELSE IF kind = "verify" THEN r ELSE Replied(r, "answered")]
  /\ IF kind = "free" THEN UNCHANGED limiterVars ELSE Check(c)
  /\ UNCHANGED server

-----------------------------------------------------------------------------
(* readBody *)

TooMuch(q) == request[q].taken + 1 > MaxBody

\* A chunk arrives.  Once the body was refused chunks are let go.
Data(q) ==
  /\ Arrived(q)
  /\ request[q].stream = "open" /\ request[q].sent < request[q].size
  /\ LET r == [request[q] EXCEPT !.sent = @ + 1]
     IN Step(q, IF request[q].phase # "reading" THEN r
                ELSE IF TooMuch(q) THEN Replied(r, "413")
                ELSE [r EXCEPT !.taken = @ + 1])

\* The body is complete: verifyInput() is called with it, under withTimeout().
End(q) ==
  /\ Arrived(q)
  /\ request[q].stream = "open" /\ request[q].sent = request[q].size
  /\ LET r == [request[q] EXCEPT !.stream = "ended"]
     IN Step(q, IF request[q].phase # "reading" THEN r
                ELSE [r EXCEPT !.phase = "verifying", !.work = "running"])

\* The client goes away, or Node's own request timeout cuts the connection.
Break(q) ==
  /\ Arrived(q)
  /\ request[q].stream = "open"
  /\ LET r == [request[q] EXCEPT !.stream = "broken"]
     IN Step(q, IF request[q].phase = "reading" THEN Replied(r, "400") ELSE r)

\* requestTimeoutMs have passed; the timer is cleared whenever reading ends.
BodyTimeout(q) ==
  /\ request[q].phase = "reading"
  /\ Step(q, Replied(request[q], "408"))

-----------------------------------------------------------------------------
(* verifyInput under withTimeout *)

\* Mutant: a verdict is sent although the timeout was.
AnswerLate(q, reply) ==
  /\ Arrived(q) /\ request[q].work = "running"
  /\ Step(q, [Replied(request[q], reply) EXCEPT !.work = "over"])

\* verifyInput() settles; after the timeout nobody listens.
Answer(q, reply) ==
  /\ Arrived(q) /\ request[q].work = "running"
  /\ LET r == [request[q] EXCEPT !.work = "over"]
     IN Step(q, IF request[q].phase = "verifying" THEN Replied(r, reply) ELSE r)

\* Mutant: without a timer the handler waits for verifyInput().
NoTimeout(q) ==
  /\ request[q].phase = "verifying"
  /\ request[q].work = "over"
  /\ Step(q, Replied(request[q], "504"))

\* parseTimeoutMs have passed.
ParseTimeout(q) ==
  /\ request[q].phase = "verifying"
  /\ Step(q, Replied(request[q], "504"))

-----------------------------------------------------------------------------
(* The process *)

\* SIGTERM or SIGINT.
Shutdown ==
  /\ server = "up"
  /\ server' = "closing"
  /\ UNCHANGED <<limiterVars, request>>

\* Mutant: the process also waits for verifications nobody listens to.
Busy(q) ==
  /\ Arrived(q)
  /\ InFlight(q) \/ request[q].stream = "open" \/ request[q].work = "running"

\* A connection is closed once it was answered and its body is in.
Connected(q) == /\ Arrived(q)
                /\ InFlight(q) \/ request[q].stream = "open"

\* server.close() calls back after the last connection, and the process exits.
Exit ==
  /\ server = "closing"
  /\ \A q \in Requests : ~Connected(q)
  /\ server' = "closed"
  /\ request' = [q \in Requests |->
       IF Arrived(q) /\ request[q].work = "running"
         THEN [request[q] EXCEPT !.work = "over"] ELSE request[q]]
  /\ UNCHANGED limiterVars

\* Time passes for the limiter.
LimiterTick == Tick /\ UNCHANGED <<request, server>>

ServerInit == /\ LimiterInit
              /\ request = [q \in Requests |-> Unsent]
              /\ server = "up"

TimerStep(q) == BodyTimeout(q) \/ ParseTimeout(q)

ServerNext ==
  \/ \E q \in Requests :
       \/ \E c \in Clients, kind \in Kinds : \E size \in Sizes(kind) : Arrive(q, c, kind, size)
       \/ Data(q) \/ End(q) \/ Break(q) \/ TimerStep(q)
       \/ \E reply \in {"verdict", "rejected"} : Answer(q, reply)
  \/ Shutdown \/ Exit \/ LimiterTick

ServerSpec == ServerInit /\ [][ServerNext]_serverVars

\* Timers fire, Node cuts connections that stay open, and close() is carried
\* through.  Clients need not send, and the verifier need not answer.
ServerFairness ==
  /\ \A q \in Requests : WF_serverVars(TimerStep(q)) /\ WF_serverVars(Break(q))
  /\ WF_serverVars(Exit)

FairServerSpec == ServerSpec /\ ServerFairness

-----------------------------------------------------------------------------
(* Properties *)

\* Every variable has its type.
ServerTypeOK ==
  /\ LimiterTypeOK
  /\ request \in [Requests -> RequestStates \union {Unsent}]
  /\ server \in {"up", "closing", "closed"}

\* Whatever order data, end, error, both timeouts and the verdict come in: a
\* request gets one reply, and one that is over has got it.
AnsweredOnce ==
  \A q \in Requests : Arrived(q) =>
    Len(request[q].replies) = IF InFlight(q) THEN 0 ELSE 1

\* What is verified is the whole body, within its limit: a verdict is about all
\* the client sent, and a body refused with 400, 408 or 413 is never verified.
OnlyWholeBodiesAreVerified ==
  \A q \in Requests : Arrived(q) =>
    /\ request[q].work # "none" => /\ request[q].stream = "ended"
                                   /\ request[q].sent = request[q].size
                                   /\ request[q].size <= MaxBody
                                   /\ \A reply \in {"400", "408", "413", "429"} : ~Got(q, reply)
    /\ Got(q, "verdict") => request[q].work = "over"

\* The worst burst of a fixed window: in any span of one window's length a client
\* is admitted at most twice less one, the end of one window and all of the
\* next, unless its bucket was given up for the cap.
AdmittedIn(c, from) ==
  {q \in Requests : /\ Admitted(q) /\ request[q].client = c
                    /\ request[q].at >= from /\ request[q].at < from + Window}

BurstsAreBounded ==
  \A c \in Clients \ evicted : \A from \in 0 .. MaxTime :
    Cardinality(AdmittedIn(c, from)) < 2 * Limit

\* A 429 is deserved: the client was admitted limit times within the window
\* that ends with the refused request.
RefusalsAreDeserved ==
  \A q \in Requests : Got(q, "429") =>
    Cardinality({p \in Requests : /\ Admitted(p) /\ request[p].client = request[q].client
                                  /\ request[p].at <= request[q].at
                                  /\ request[p].at + Window > request[q].at}) >= Limit

\* Every request is answered: a client that stops sending and a verification
\* that never settles included.
RequestsAreAnswered == \A q \in Requests : InFlight(q) ~> ~InFlight(q)

\* A shutdown completes, with stalled clients and verifications still running.
ShutdownCompletes == server = "closing" ~> server = "closed"
=============================================================================
