---------------------------- MODULE DssBoundary ----------------------------
(***************************************************************************)
(* The DSS boundary: DssPdfSignatureEngine in the application              *)
(* (adapters/pades-dss/src/dss-engine.ts, normalizers.ts) and the Java     *)
(* sidecar it posts to (DssBoundaryApplication.java), an HTTP server with  *)
(* a fixed pool of threads over one engine whose sign and verify are       *)
(* synchronized.  A timestamp is fetched inside that monitor.              *)
(*                                                                         *)
(* The client gives up on its own timer; the sidecar has none, notices a   *)
(* client that is gone only when it reads from or writes to it, and goes   *)
(* on with what it has begun.  Bytes, Base64 and JSON are left out; what   *)
(* the checks distinguish is kept.                                         *)
(***************************************************************************)
EXTENDS Naturals, Sequences, FiniteSets

CONSTANTS
  Calls,       \* engine calls, and curl of healthcheck.sh, numbered as they begin
  PoolSize,    \* threads of the sidecar (newFixedThreadPool)
  Identities,  \* issuer, key id and algorithm, as signers and the sidecar name them
  Asks,        \* what the calls ask for
  Configs,     \* [tsa, as]: DSS_TSA_URL is set; DSS_ISSUER_ID and DSS_KEY_ID
  Stamping,    \* supportsTimestamping: the client's engine was told of a TSA
  MaxStarts    \* bound: how often the sidecar is started again

\* A signature in a PDF; other: neither of the two baseline levels.
Marks == [valid : BOOLEAN, intact : BOOLEAN, level : {"B-B", "B-T", "other"}]

\* digest: the artifact digest is the one of the bytes that are sent; well: the
\* probe is JSON.
AskTypes ==
  [op : {"sign"}, level : {"B-B", "B-T"}, as : Identities, digest : BOOLEAN]
    \cup [op : {"verify"}, marks : Seq(Marks)]
    \cup [op : {"probe"}, well : BOOLEAN]
    \cup [op : {"health"}]

ASSUME CallsAssumption == Calls \subseteq Nat
ASSUME PoolAssumption == PoolSize \in Nat \ {0} /\ MaxStarts \in Nat /\ Stamping \in BOOLEAN
ASSUME AsksAssumption == Asks \subseteq AskTypes
ASSUME ConfigsAssumption == Configs \subseteq [tsa : BOOLEAN, as : Identities]

VARIABLES
  call,     \* call[c]: the client's side of call c
  job,      \* job[c]: the sidecar's side of it
  queue,    \* the executor's queue: exchanges no thread has taken up
  up,       \* the sidecar is running
  sidecar,  \* its configuration
  starts    \* restarts spent of MaxStarts

dssVars == <<call, job, queue, up, sidecar, starts>>

-----------------------------------------------------------------------------
(* What the sidecar makes of a request *)

\* "signed": the level in the PDF and who signed it; "told" is the level in the
\* response, which is the one that was asked for.
NoSignature == [level |-> "none"]
Nothing == [kind |-> "nothing"]
Answers ==
  [kind : {"signed"}, told : {"B-B", "B-T"}]
    \cup [kind : {"verified"}, crypto : {"VALID", "INVALID"},
          integrity : {"VALID", "INVALID"}, level : {"B-B", "B-T", "UNKNOWN"}]
    \cup [kind : {"ready", "accepted", "declined", "error"}]

\* Mutant: assertSigner() lets every signer pass.
SignsForAnyone(ask) ==
  /\ ask.level = "B-T" => sidecar.tsa
  /\ ask.digest

\* sign() of the sidecar, up to the engine: the level, the signer, the digest.
MaySign(ask) ==
  /\ ask.level = "B-T" => sidecar.tsa
  /\ ask.as = sidecar.as
  /\ ask.digest

\* Mutant: the verdict is the one of the first signature.
FirstSignature(marks) ==
  [kind |-> "verified", crypto |-> IF marks # <<>> /\ marks[1].valid THEN "VALID" ELSE "INVALID",
   integrity |-> IF marks # <<>> /\ marks[1].intact THEN "VALID" ELSE "INVALID",
   level |-> IF marks # <<>> /\ marks[1].level # "other" THEN marks[1].level ELSE "UNKNOWN"]

\* verify() of the engine: every signature counts, the level is the first one's.
Validation(marks) ==
  LET Outcome(ok) == IF ok /\ marks # <<>> THEN "VALID" ELSE "INVALID"
  IN [kind |-> "verified",
      crypto |-> Outcome(\A i \in DOMAIN marks : marks[i].valid),
      integrity |-> Outcome(\A i \in DOMAIN marks : marks[i].intact),
      level |-> IF marks # <<>> /\ marks[1].level # "other" THEN marks[1].level ELSE "UNKNOWN"]

-----------------------------------------------------------------------------
(* The client *)

\* normalizeSignedPdfResponse(), normalizePdfVerificationResponse() and the HTTP
\* status: what the engine's caller is told.
Accepts(ask, answer) ==
  CASE answer.kind = "signed" -> answer.told = ask.level
    [] answer.kind = "verified" ->
         \/ answer.level # "UNKNOWN"
         \/ answer.crypto = "INVALID" /\ answer.integrity = "INVALID"
    [] OTHER -> answer.kind \in {"ready", "accepted"}

\* "posted": the request is out, its answer is awaited; "headed": the status is
\* there, the body is read.  "refused": the client or the sidecar (400) refused it;
\* "failed": 500, or an answer that makes no sense; "unread": 200, but the body could
\* not be read (told as invalid JSON); "expired": the client's timer before any
\* status, while the sidecar may still be at it; "gone": the connection broke
\* before any status, or the call expired and its job is over.
Outcomes == {"accepted", "refused", "failed", "unread", "expired"}
CallStates ==
  [phase : {"idle", "gone"}]
    \cup [phase : {"posted", "headed"} \cup Outcomes, ask : Asks, answer : Answers \cup {Nothing}]

\* curl has no timer, and what it sends and is answered comes in one piece.
Short(ask) == ask.op \in {"probe", "health"}

Idle == [phase |-> "idle"]
Gone == [phase |-> "gone"]
Posted(c) == call[c].phase = "posted"
Headed(c) == call[c].phase = "headed"
Expired(c) == call[c].phase = "expired"
Ask(c) == call[c].ask
End(c, outcome, answer) == call' = [call EXCEPT ![c].phase = outcome, ![c].answer = answer]

\* The sidecar's side.  "reading": a thread reads the body; "entering": it waits
\* for the monitor; "holding": it has it; "answering": it writes the response.
Running == {"reading", "entering", "holding", "answering"}
JobStates ==
  [phase : {"none", "queued", "over"} \cup Running, answer : Answers \cup {Nothing},
   made : {NoSignature} \cup [level : {"B-B", "B-T"}, as : Identities]]
NoJob == [phase |-> "none", answer |-> Nothing, made |-> NoSignature]
Over == [NoJob EXCEPT !.phase = "over"]
In(c, phase) == job[c].phase = phase
Proceed(c, phase) == job' = [job EXCEPT ![c].phase = phase]
Done(j) == [j EXCEPT !.phase = "over", !.answer = Nothing]
Busy == {c \in Calls : job[c].phase \in Running}

\* sign() and verify() of the engine up to fetch(), and curl.  B-T is refused
\* before anything is sent when the engine was not told of a TSA.
Begin(c, ask) ==
  /\ call[c] = Idle /\ \A b \in Calls : b < c => call[b] # Idle
  /\ LET refused == ask.op = "sign" /\ ask.level = "B-T" /\ ~Stamping
         phase == IF refused THEN "refused" ELSE "posted"
         reaches == ~refused /\ up
     IN /\ call' = [call EXCEPT ![c] =
             IF refused \/ reaches THEN [phase |-> phase, ask |-> ask, answer |-> Nothing] ELSE Gone]
        /\ IF reaches THEN queue' = Append(queue, c) /\ Proceed(c, "queued")
           ELSE UNCHANGED <<queue, job>>
  /\ UNCHANGED <<up, sidecar, starts>>

\* Mutant: post() starts no timer.
NeverGiveUp(c) == FALSE /\ UNCHANGED dssVars

\* The body of a response cannot be read: its status decides.  The text of an error
\* may be missing, an answer may not.
Unread(k) ==
  [k EXCEPT !.answer = Nothing,
            !.phase = CASE k.answer.kind = "declined" -> "refused"
                        [] k.answer.kind = "error" -> "failed"
                        [] OTHER -> "unread"]

\* The timer of post() aborts the fetch, or the reading of the body.
GiveUp(c) ==
  /\ \/ /\ Posted(c) /\ ~Short(Ask(c))
        /\ End(c, "expired", Nothing)
     \/ /\ Headed(c)
        /\ call' = [call EXCEPT ![c] = Unread(call[c])]
  /\ UNCHANGED <<job, queue, up, sidecar, starts>>

-----------------------------------------------------------------------------
(* The sidecar *)

\* A thread of the pool is free for the next exchange.
TakeUp ==
  /\ queue # <<>> /\ Cardinality(Busy) < PoolSize
  /\ queue' = Tail(queue)
  /\ Proceed(Head(queue), "reading")
  /\ UNCHANGED <<call, up, sidecar, starts>>

Respond(c, answer) == job' = [job EXCEPT ![c].phase = "answering", ![c].answer = answer]

\* The request has been read whole: a client that is gone, or whose body stalls,
\* never gets here.
ReadRequest(c) ==
  /\ In(c, "reading") /\ Posted(c)
  /\ LET ask == Ask(c)
     IN CASE ask.op = "sign" ->
               IF MaySign(ask) THEN Proceed(c, "entering") ELSE Respond(c, [kind |-> "declined"])
          [] ask.op = "verify" -> Proceed(c, "entering")
          [] ask.op = "health" -> Respond(c, [kind |-> "ready"])
          [] ask.op = "probe" -> ask.well /\ Respond(c, [kind |-> "accepted"])
  /\ UNCHANGED <<call, queue, up, sidecar, starts>>

\* A probe that is not JSON: nothing catches the BadRequest, the exchange is closed.
ProbeThrows(c) ==
  /\ In(c, "reading") /\ Posted(c)
  /\ Ask(c).op = "probe" /\ ~Ask(c).well
  /\ job' = [job EXCEPT ![c] = Over] /\ call' = [call EXCEPT ![c] = Gone]
  /\ UNCHANGED <<queue, up, sidecar, starts>>

\* The connection of a client that is gone ends while its body is read.
ReadFails(c) ==
  /\ In(c, "reading") /\ ~Posted(c)
  /\ job' = [job EXCEPT ![c] = Over] /\ call' = [call EXCEPT ![c] = Gone]
  /\ UNCHANGED <<queue, up, sidecar, starts>>

\* synchronized: one thread at a time is in sign() or verify().
EnterMonitor(c) ==
  /\ In(c, "entering")
  /\ \A other \in Calls : ~In(other, "holding")
  /\ Proceed(c, "holding")
  /\ UNCHANGED <<call, queue, up, sidecar, starts>>

\* The engine signs, for B-T after the TSA has answered.
EngineSigns(c) ==
  /\ In(c, "holding") /\ Ask(c).op = "sign"
  /\ job' = [job EXCEPT ![c] =
       [phase |-> "answering", answer |-> [kind |-> "signed", told |-> Ask(c).level],
        made |-> [level |-> Ask(c).level, as |-> sidecar.as]]]
  /\ UNCHANGED <<call, queue, up, sidecar, starts>>

EngineVerifies(c) ==
  /\ In(c, "holding") /\ Ask(c).op = "verify"
  /\ Respond(c, Validation(Ask(c).marks))
  /\ UNCHANGED <<call, queue, up, sidecar, starts>>

\* The TSA cannot be reached, the PDF cannot be read: 500.
EngineFails(c) ==
  /\ In(c, "holding")
  /\ Respond(c, [kind |-> "error"])
  /\ UNCHANGED <<call, queue, up, sidecar, starts>>

OutcomeOf(ask, answer) ==
  CASE answer.kind = "declined" -> "refused"
    [] answer.kind = "error" -> "failed"
    [] OTHER -> IF Accepts(ask, answer) THEN "accepted" ELSE "failed"

\* The status of the response reaches the client, ahead of the body.
AnswerBegins(c) ==
  /\ In(c, "answering") /\ Posted(c) /\ ~Short(Ask(c))
  /\ End(c, "headed", job[c].answer)
  /\ UNCHANGED <<job, queue, up, sidecar, starts>>

\* The response is written whole, or fails to be because the client is gone or has
\* stopped reading.
Answer(c) ==
  /\ In(c, "answering")
  /\ \/ /\ Headed(c) \/ (Posted(c) /\ Short(Ask(c)))
        /\ LET outcome == OutcomeOf(Ask(c), job[c].answer)
           IN End(c, outcome, IF outcome = "accepted" THEN job[c].answer ELSE Nothing)
        /\ job' = [job EXCEPT ![c] = Done(job[c])]
     \/ /\ Expired(c)
        /\ call' = [call EXCEPT ![c] = Gone] /\ job' = [job EXCEPT ![c] = Over]
     \/ /\ call[c].phase \in {"refused", "failed", "unread"}
        /\ job' = [job EXCEPT ![c] = Done(job[c])]
        /\ UNCHANGED call
  /\ UNCHANGED <<queue, up, sidecar, starts>>

\* The container stops: every connection breaks.
Stop ==
  /\ up /\ starts < MaxStarts
  /\ up' = FALSE
  /\ call' = [c \in Calls |-> IF Posted(c) \/ Expired(c) THEN Gone
                             ELSE IF Headed(c) THEN Unread(call[c]) ELSE call[c]]
  /\ job' = [c \in Calls |-> IF Posted(c) \/ Expired(c) THEN Over
                            ELSE IF In(c, "answering") THEN Done(job[c]) ELSE job[c]]
  /\ queue' = <<>>
  /\ UNCHANGED <<sidecar, starts>>

\* It starts, perhaps configured otherwise.
Start ==
  /\ ~up /\ up' = TRUE
  /\ starts' = starts + 1
  /\ sidecar' \in Configs
  /\ UNCHANGED <<call, job, queue>>

-----------------------------------------------------------------------------
DssInit ==
  /\ call = [c \in Calls |-> Idle]
  /\ job = [c \in Calls |-> NoJob]
  /\ queue = <<>>
  /\ up = TRUE
  /\ sidecar \in Configs
  /\ starts = 0

Work(c) == EngineSigns(c) \/ EngineVerifies(c) \/ EngineFails(c)

DssNext ==
  \/ \E c \in Calls :
       \/ \E ask \in Asks : Begin(c, ask)
       \/ GiveUp(c) \/ ReadRequest(c) \/ ProbeThrows(c) \/ ReadFails(c)
       \/ EnterMonitor(c) \/ Work(c) \/ AnswerBegins(c) \/ Answer(c)
  \/ TakeUp \/ Stop \/ Start

DssSpec == DssInit /\ [][DssNext]_dssVars

\* The threads run, the monitor is handed on to someone, the engine's work ends
\* (the TSA answers or its client gives up), and so does the client's timer.
\* Nothing makes the PDF in a request arrive.
ThreadStep(c) ==
  \/ Posted(c) /\ Short(Ask(c)) /\ (ReadRequest(c) \/ ProbeThrows(c))
  \/ ReadFails(c) \/ Work(c) \/ AnswerBegins(c) \/ Answer(c)

DssFairness ==
  /\ WF_dssVars(TakeUp)
  /\ WF_dssVars(\E c \in Calls : EnterMonitor(c))
  /\ \A c \in Calls : WF_dssVars(GiveUp(c)) /\ WF_dssVars(ThreadStep(c))

DssFairSpec == DssSpec /\ DssFairness

-----------------------------------------------------------------------------
(* Properties *)

\* Every variable has its type, and the queue holds what is queued.
DssTypeOK ==
  /\ call \in [Calls -> CallStates]
  /\ job \in [Calls -> JobStates]
  /\ queue \in Seq(Calls) /\ \A c \in Calls : In(c, "queued") <=> \E i \in DOMAIN queue : queue[i] = c
  /\ up \in BOOLEAN
  /\ sidecar \in Configs
  /\ starts \in 0 .. MaxStarts

\* What the client is told of a signing call is true of the PDF, whichever way
\* both sides are configured and reconfigured, and wherever the response breaks off:
\* accepted, there is a signature of the level that was asked for, by the identity
\* that was asked for, over the bytes that were sent; refused or failed, there is no
\* signature and there will be none; an unreadable answer means that there is one,
\* which nobody received (dss-engine.ts post, DssBoundaryApplication.java sign).
ToldTheTruth ==
  \A c \in Calls : call[c].phase \in Outcomes \ {"expired"} /\ Ask(c).op = "sign" =>
    IF call[c].phase \in {"accepted", "unread"}
    THEN Ask(c).digest /\ job[c].made = [level |-> Ask(c).level, as |-> Ask(c).as]
    ELSE job[c].made = NoSignature /\ job[c].phase \in {"none", "answering", "over"}

\* A PDF is reported as valid and intact only if every signature in it is, and
\* never one without signatures; no call is told of another call's PDF
\* (DssBoundaryApplication.java verify, "every PDF signature" in its README).
ValidMeansEverySignature ==
  \A c \in Calls : call[c].phase = "accepted" /\ Ask(c).op = "verify" =>
    /\ call[c].answer.crypto = "VALID" =>
         Ask(c).marks # <<>> /\ \A i \in DOMAIN Ask(c).marks : Ask(c).marks[i].valid
    /\ call[c].answer.integrity = "VALID" => \A i \in DOMAIN Ask(c).marks : Ask(c).marks[i].intact

\* The health check shares the pool with bodies that stall and with threads that
\* wait for a timestamp: it is answered all the same (healthcheck.sh), unless the
\* container stops.
HealthIsAnswered ==
  \A c \in Calls :
    (Posted(c) /\ Ask(c).op = "health") ~> call[c].phase \in {"accepted", "gone"}
=============================================================================
