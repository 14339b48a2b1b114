------------------------- MODULE DssBoundaryProofs -------------------------
(***************************************************************************)
(* Proofs about DssBoundary: the types, that a caller is told the truth    *)
(* about its PDF, and that valid means every signature.                    *)
(*                                                                         *)
(* Both sides of a call are described together (CallOK): what the sidecar  *)
(* may be doing for a client that waits, gave up or is gone, and what it   *)
(* has checked by then.  The configuration it has checked against is still *)
(* the one it runs with, because a restart ends every job.                 *)
(***************************************************************************)
EXTENDS DssBoundary, TLAPS

Pending == {"queued"} \cup Running

\* What the sidecar has to say about a request, and the signature it made.
AnswerOK(ask, answer, made) ==
  /\ ask.op = "sign" =>
       \/ /\ answer = [kind |-> "signed", told |-> ask.level]
          /\ ask.digest
          /\ made = [level |-> ask.level, as |-> ask.as]
       \/ /\ answer.kind \in {"declined", "error"}
          /\ made = NoSignature
  /\ ask.op = "verify" =>
       \/ answer = Validation(ask.marks)
       \/ answer.kind = "error"

Told == Outcomes \ {"expired"}

\* What the client was told.
ToldOK(k, made) ==
  /\ k.ask.op = "sign" =>
       IF k.phase \in {"accepted", "unread"}
       THEN k.ask.digest /\ made = [level |-> k.ask.level, as |-> k.ask.as]
       ELSE made = NoSignature
  /\ k.ask.op = "verify" /\ k.phase = "accepted" => k.answer = Validation(k.ask.marks)

\* Both sides of a call: k the client's, j the sidecar's, which runs or not and is
\* configured as s says.
CallOK(k, j, running, s) ==
  /\ k.phase = "idle" => j = NoJob
  /\ j.phase \in Pending \ {"answering"} =>
       running /\ k.phase \in {"posted", "expired"} /\ j.made = NoSignature
  /\ j.phase \in {"entering", "holding"} =>
       /\ k.ask.op \in {"sign", "verify"}
       /\ k.ask.op = "sign" => k.ask.as = s.as /\ k.ask.digest
  /\ j.phase = "answering" =>
       /\ running /\ k.phase \in {"posted", "headed", "expired", "refused", "failed", "unread"}
       /\ AnswerOK(k.ask, j.answer, j.made)
  /\ k.phase = "headed" => j.phase = "answering" /\ k.answer = j.answer
  /\ k.phase \in Told => j.phase \in {"none", "answering", "over"} /\ ToldOK(k, j.made)

\* No exchange is queued twice.
QueuedOnce == \A i, k \in DOMAIN queue : queue[i] = queue[k] => i = k

DssInv ==
  /\ DssTypeOK
  /\ QueuedOnce
  /\ ~up => starts < MaxStarts
  /\ \A c \in Calls : CallOK(call[c], job[c], up, sidecar)

-----------------------------------------------------------------------------
(* One call *)

LEMMA CallFacts ==
  ASSUME DssInv, NEW c \in Calls
  PROVE  /\ call[c] \in CallStates /\ job[c] \in JobStates
         /\ CallOK(call[c], job[c], up, sidecar)
  BY DEF DssInv, DssTypeOK

\* A call that was begun and whose connection is still of use has a request.
LEMMA AskFacts ==
  ASSUME NEW k \in CallStates, k.phase \notin {"idle", "gone"}
  PROVE  /\ k.ask \in Asks /\ k.answer \in Answers \cup {Nothing}
         /\ k.phase \in {"posted", "headed"} \cup Outcomes
  BY DEF CallStates, Outcomes

Begun == [phase : {"posted", "headed"} \cup Outcomes, ask : Asks, answer : Answers \cup {Nothing}]

\* What End() makes of the client's side.
Ended(k, outcome, answer) == [k EXCEPT !.phase = outcome, !.answer = answer]

LEMMA EndFacts ==
  ASSUME NEW k \in CallStates, k.phase \notin {"idle", "gone"},
         NEW outcome \in {"headed"} \cup Outcomes, NEW answer \in Answers \cup {Nothing}
  PROVE  /\ Ended(k, outcome, answer) \in CallStates
         /\ Ended(k, outcome, answer).phase = outcome
         /\ Ended(k, outcome, answer).ask = k.ask
         /\ Ended(k, outcome, answer).answer = answer
  <1> DEFINE e == Ended(k, outcome, answer)
  <1>1. k \in Begun
    BY DEF CallStates, Begun
  <1>2. e \in Begun /\ e.phase = outcome /\ e.ask = k.ask /\ e.answer = answer
    BY <1>1 DEF Begun, Ended
  <1> QED
    BY <1>2 DEF CallStates, Begun

\* What the steps of a job make of the sidecar's side.
At(j, phase) == [j EXCEPT !.phase = phase]
Answering(j, phase, answer) == [j EXCEPT !.phase = phase, !.answer = answer]

LEMMA JobFacts ==
  ASSUME NEW j \in JobStates, NEW phase \in {"none", "queued", "over"} \cup Running,
         NEW answer \in Answers \cup {Nothing}
  PROVE  /\ At(j, phase) \in JobStates /\ At(j, phase).phase = phase
         /\ At(j, phase).answer = j.answer /\ At(j, phase).made = j.made
         /\ Answering(j, phase, answer) \in JobStates
         /\ Answering(j, phase, answer).phase = phase
         /\ Answering(j, phase, answer).answer = answer
         /\ Answering(j, phase, answer).made = j.made
  BY DEF JobStates, At, Answering

LEMMA NoJobFacts ==
  /\ NoJob \in JobStates /\ NoJob.phase = "none" /\ NoJob.made = NoSignature
  /\ Over \in JobStates /\ Over.phase = "over" /\ Over.made = NoSignature
  /\ Idle \in CallStates /\ Idle.phase = "idle" /\ Gone \in CallStates /\ Gone.phase = "gone"
  /\ Nothing \in Answers \cup {Nothing}
  <1>1. Over = [phase |-> "over", answer |-> Nothing, made |-> NoSignature]
    BY DEF Over, NoJob
  <1> QED
    BY <1>1 DEF NoJob, JobStates, Idle, Gone, CallStates

\* A step of one call that neither queues it nor takes it up.
LEMMA OneCall ==
  ASSUME DssInv, NEW c \in Calls, NEW k \in CallStates, NEW j \in JobStates,
         call' = [call EXCEPT ![c] = k], job' = [job EXCEPT ![c] = j],
         UNCHANGED <<queue, up, sidecar, starts>>,
         j.phase = "queued" <=> job[c].phase = "queued",
         CallOK(k, j, up, sidecar)
  PROVE  DssInv'
  <1>1. \A d \in Calls : /\ call'[d] = IF d = c THEN k ELSE call[d]
                         /\ job'[d] = IF d = c THEN j ELSE job[d]
    BY DEF DssInv, DssTypeOK
  <1>2. call' \in [Calls -> CallStates] /\ job' \in [Calls -> JobStates]
    BY DEF DssInv, DssTypeOK
  <1>3. \A d \in Calls : job'[d].phase = "queued" <=> job[d].phase = "queued"
    BY <1>1
  <1>4. DssTypeOK'
    BY <1>2, <1>3 DEF DssInv, DssTypeOK, In
  <1>5. QueuedOnce'
    BY DEF DssInv, QueuedOnce
  <1>6. ASSUME NEW d \in Calls
        PROVE  CallOK(call'[d], job'[d], up', sidecar')
    <2>1. CASE d = c
      BY <1>1, <2>1
    <2>2. CASE d # c
      BY <1>1, <2>2, CallFacts
    <2> QED
      BY <2>1, <2>2
  <1> QED
    BY <1>4, <1>5, <1>6 DEF DssInv

\* The same where only one side moves.
LEMMA OneJob ==
  ASSUME DssInv, NEW c \in Calls, NEW j \in JobStates, job' = [job EXCEPT ![c] = j],
         UNCHANGED <<call, queue, up, sidecar, starts>>,
         j.phase # "queued", job[c].phase # "queued",
         CallOK(call[c], j, up, sidecar)
  PROVE  DssInv'
  <1>1. call[c] \in CallStates
    BY CallFacts
  <1>2. call' = [call EXCEPT ![c] = call[c]]
    BY DEF DssInv, DssTypeOK
  <1> QED
    BY <1>1, <1>2, OneCall

\* What the engine reports of a PDF is an answer the client can read, and says no
\* more than its signatures do.
LEMMA ValidationFacts ==
  ASSUME NEW marks \in Seq(Marks)
  PROVE  /\ Validation(marks) \in Answers
         /\ Validation(marks).kind = "verified"
         /\ Validation(marks).crypto = "VALID" =>
              marks # <<>> /\ \A i \in DOMAIN marks : marks[i].valid
         /\ Validation(marks).integrity = "VALID" => \A i \in DOMAIN marks : marks[i].intact
  <1>1. marks # <<>> => marks[1].level \in {"B-B", "B-T", "other"}
    <2>1. marks # <<>> => 1 \in DOMAIN marks
      OBVIOUS
    <2>2. marks # <<>> => marks[1] \in Marks
      BY <2>1
    <2> QED
      BY <2>2 DEF Marks
  <1> QED
    BY <1>1 DEF Validation, Answers

-----------------------------------------------------------------------------
(* The actions *)

\* A body that cannot be read: the client is told by the status, and that is true.
LEMMA UnreadFacts ==
  ASSUME NEW k \in CallStates, k.phase = "headed", NEW made, AnswerOK(k.ask, k.answer, made)
  PROVE  /\ Unread(k) \in CallStates /\ Unread(k).phase \in {"refused", "failed", "unread"}
         /\ Unread(k).ask = k.ask /\ ToldOK(Unread(k), made)
  <1> DEFINE u == Unread(k)
             phase == CASE k.answer.kind = "declined" -> "refused"
                        [] k.answer.kind = "error" -> "failed"
                        [] OTHER -> "unread"
  <1>1. /\ phase \in {"refused", "failed", "unread"}
        /\ phase = "unread" <=> k.answer.kind \notin {"declined", "error"}
    OBVIOUS
  <1>2. k.phase \notin {"idle", "gone"} /\ Nothing \in Answers \cup {Nothing} /\ phase \in {"headed"} \cup Outcomes
    BY <1>1 DEF Outcomes
  <1>3. u = Ended(k, phase, Nothing)
    BY DEF Unread, Ended
  <1> HIDE DEF phase, u
  <1>4. u \in CallStates /\ u.phase = phase /\ u.ask = k.ask
    BY <1>2, <1>3, EndFacts
  <1>5. k.ask.op = "sign" => IF phase = "unread" THEN k.ask.digest /\ made = [level |-> k.ask.level, as |-> k.ask.as]
                             ELSE made = NoSignature
    BY <1>1 DEF AnswerOK
  <1>6. ToldOK(u, made)
    BY <1>1, <1>4, <1>5 DEF ToldOK
  <1> QED
    BY <1>1, <1>4, <1>6 DEF u

\* A client stops to wait for the body.
LEMMA UnreadKeeps ==
  ASSUME DssInv, NEW c \in Calls, Headed(c),
         call' = [call EXCEPT ![c] = Unread(call[c])], UNCHANGED <<job, queue, up, sidecar, starts>>
  PROVE  DssInv'
  <1>1. /\ call[c] \in CallStates /\ job[c] \in JobStates /\ CallOK(call[c], job[c], up, sidecar)
        /\ job[c].phase = "answering" /\ AnswerOK(call[c].ask, call[c].answer, job[c].made) /\ up
    BY CallFacts DEF Headed, CallOK
  <1> DEFINE k == Unread(call[c])
  <1>2. /\ k \in CallStates /\ k.phase \in {"refused", "failed", "unread"}
        /\ k.ask = call[c].ask /\ ToldOK(k, job[c].made)
    BY <1>1, UnreadFacts DEF Headed
  <1>3. call' = [call EXCEPT ![c] = k] /\ job' = [job EXCEPT ![c] = job[c]]
    BY DEF DssInv, DssTypeOK
  <1> HIDE DEF k
  <1>4. CallOK(k, job[c], up, sidecar)
    BY <1>1, <1>2 DEF CallOK, Pending, Running, Told, Outcomes
  <1> QED
    BY <1>1, <1>2, <1>3, <1>4, OneCall

LEMMA GiveUpKeeps ==
  ASSUME DssInv, NEW c \in Calls, GiveUp(c)
  PROVE  DssInv'
  <1>1. CASE Posted(c) /\ End(c, "expired", Nothing)
    <2> DEFINE k == Ended(call[c], "expired", Nothing)
    <2>1. /\ call[c] \in CallStates /\ job[c] \in JobStates
          /\ CallOK(call[c], job[c], up, sidecar) /\ call[c].phase = "posted"
      BY <1>1, CallFacts DEF Posted
    <2>2. /\ call' = [call EXCEPT ![c] = k] /\ job' = [job EXCEPT ![c] = job[c]]
          /\ UNCHANGED <<queue, up, sidecar, starts>>
      BY <1>1 DEF GiveUp, End, Ended, DssInv, DssTypeOK
    <2>3. k \in CallStates /\ k.phase = "expired" /\ k.ask = call[c].ask
      <3>1. "expired" \in {"headed"} \cup Outcomes /\ Nothing \in Answers \cup {Nothing}
        BY DEF Outcomes
      <3>2. call[c].phase \notin {"idle", "gone"}
        BY <2>1
      <3> QED
        BY <2>1, <3>1, <3>2, EndFacts
    <2> HIDE DEF k
    <2>4. CallOK(k, job[c], up, sidecar)
      BY <2>1, <2>3 DEF CallOK, Told, Outcomes
    <2> QED
      BY <2>1, <2>2, <2>3, <2>4, OneCall
  <1>2. CASE Headed(c) /\ call' = [call EXCEPT ![c] = Unread(call[c])]
    BY <1>2, UnreadKeeps DEF GiveUp
  <1> QED
    BY <1>1, <1>2 DEF GiveUp

LEMMA BeginKeeps ==
  ASSUME DssInv, NEW c \in Calls, NEW ask \in Asks, Begin(c, ask)
  PROVE  DssInv'
  <1>1. /\ call[c] = Idle /\ job[c] = NoJob /\ job[c] \in JobStates
        /\ CallOK(call[c], job[c], up, sidecar)
    BY CallFacts, NoJobFacts DEF Begin, CallOK
  <1>2. call[c].phase = "idle" /\ job[c].phase = "none" /\ job[c].made = NoSignature
    BY <1>1, NoJobFacts
  <1> DEFINE Made(phase) == [phase |-> phase, ask |-> ask, answer |-> Nothing]
  <1>3. \A phase \in {"posted", "refused"} :
          /\ Made(phase) \in CallStates /\ Made(phase).phase = phase /\ Made(phase).ask = ask
    BY DEF CallStates, Outcomes
  <1>4. CASE /\ call' = [call EXCEPT ![c] = Made("refused")]
             /\ UNCHANGED <<job, queue, up, sidecar, starts>>
    <2>1. job' = [job EXCEPT ![c] = job[c]]
      BY <1>4 DEF DssInv, DssTypeOK
    <2> DEFINE k == Made("refused")
    <2>2. k \in CallStates /\ k.phase = "refused" /\ k.ask = ask /\ call' = [call EXCEPT ![c] = k]
      BY <1>3, <1>4
    <2> HIDE DEF k, Made
    <2>3. CallOK(k, job[c], up, sidecar)
      BY <1>2, <2>2 DEF CallOK, ToldOK, Pending, Running
    <2> QED
      BY <1>1, <1>4, <2>1, <2>2, <2>3, OneCall
  <1>5. CASE /\ call' = [call EXCEPT ![c] = Gone]
             /\ UNCHANGED <<job, queue, up, sidecar, starts>>
    <2>1. job' = [job EXCEPT ![c] = job[c]] /\ call' = [call EXCEPT ![c] = Gone]
      BY <1>5 DEF DssInv, DssTypeOK
    <2>2. CallOK(Gone, job[c], up, sidecar)
      BY <1>2, NoJobFacts DEF CallOK, Pending, Running, Told, Outcomes
    <2> QED
      BY <1>1, <1>5, <2>1, <2>2, NoJobFacts, OneCall
  <1>6. CASE /\ call' = [call EXCEPT ![c] = Made("posted")] /\ up
             /\ queue' = Append(queue, c) /\ Proceed(c, "queued")
             /\ UNCHANGED <<up, sidecar, starts>>
    <2> DEFINE k == Made("posted")
               j == At(job[c], "queued")
    <2>1. k \in CallStates /\ k.phase = "posted" /\ k.ask = ask /\ call' = [call EXCEPT ![c] = k]
      BY <1>3, <1>6
    <2>2. j \in JobStates /\ j.phase = "queued" /\ j.made = NoSignature
      BY <1>1, <1>2, JobFacts, NoJobFacts
    <2>3. job' = [job EXCEPT ![c] = j]
      BY <1>6 DEF Proceed, At
    <2> HIDE DEF k, j, Made
    <2>4. \A d \in Calls : /\ call'[d] = IF d = c THEN k ELSE call[d]
                           /\ job'[d] = IF d = c THEN j ELSE job[d]
      BY <2>1, <2>3 DEF DssInv, DssTypeOK
    <2>5. /\ queue \in Seq(Calls) /\ Len(queue) \in Nat /\ DOMAIN queue = 1 .. Len(queue)
          /\ \A d \in Calls : job[d].phase = "queued" <=> \E i \in DOMAIN queue : queue[i] = d
      BY DEF DssInv, DssTypeOK, In
    <2>6. /\ queue' \in Seq(Calls) /\ DOMAIN queue' = 1 .. Len(queue) + 1
          /\ \A i \in 1 .. Len(queue) : queue'[i] = queue[i]
          /\ queue'[Len(queue) + 1] = c
      BY <1>6, <2>5
    <2>7. \A i \in DOMAIN queue : queue[i] # c
      BY <1>2, <2>5
    <2>8. QueuedOnce'
      <3> SUFFICES ASSUME NEW a \in DOMAIN queue', NEW b \in DOMAIN queue', queue'[a] = queue'[b]
                   PROVE  a = b
        BY DEF QueuedOnce
      <3>1. \A i \in DOMAIN queue' : i \in DOMAIN queue \/ i = Len(queue) + 1
        BY <2>5, <2>6
      <3> QED
        BY <2>5, <2>6, <2>7, <3>1 DEF DssInv, QueuedOnce
    <2>9. ASSUME NEW d \in Calls
          PROVE  job'[d].phase = "queued" <=> \E i \in DOMAIN queue' : queue'[i] = d
      <3>1. CASE d = c
        BY <2>2, <2>4, <2>5, <2>6, <3>1
      <3>2. CASE d # c
        <4>1. \A i \in DOMAIN queue' : queue'[i] = d => i \in DOMAIN queue
          BY <2>5, <2>6, <3>2
        <4> QED
          BY <2>4, <2>5, <2>6, <3>2, <4>1
      <3> QED
        BY <3>1, <3>2
    <2>10. call' \in [Calls -> CallStates] /\ job' \in [Calls -> JobStates]
      BY <2>1, <2>2, <2>3 DEF DssInv, DssTypeOK
    <2>11. DssTypeOK'
      BY <1>6, <2>6, <2>9, <2>10 DEF DssInv, DssTypeOK, In
    <2>12. CallOK(k, j, up, sidecar)
      BY <1>6, <2>1, <2>2 DEF CallOK, Pending, Running, Told, Outcomes
    <2>13. \A d \in Calls : CallOK(call'[d], job'[d], up', sidecar')
      BY <1>6, <2>4, <2>12 DEF DssInv
    <2> QED
      BY <1>6, <2>8, <2>11, <2>13 DEF DssInv
  <1> QED
    BY <1>4, <1>5, <1>6 DEF Begin

LEMMA TakeUpKeeps ==
  ASSUME DssInv, TakeUp
  PROVE  DssInv'
  <1> DEFINE c == Head(queue)
             j == At(job[c], "reading")
  <1>1. /\ queue \in Seq(Calls) /\ Len(queue) \in Nat \ {0} /\ DOMAIN queue = 1 .. Len(queue)
        /\ c = queue[1] /\ c \in Calls
        /\ \A d \in Calls : job[d].phase = "queued" <=> \E i \in DOMAIN queue : queue[i] = d
    BY DEF TakeUp, DssInv, DssTypeOK, In
  <1>2. /\ queue' = Tail(queue) /\ job' = [job EXCEPT ![c] = j]
        /\ UNCHANGED <<call, up, sidecar, starts>>
    BY DEF TakeUp, Proceed, At
  <1>3. /\ queue' \in Seq(Calls) /\ DOMAIN queue' = 1 .. Len(queue) - 1
        /\ \A i \in DOMAIN queue' : i + 1 \in DOMAIN queue /\ queue'[i] = queue[i + 1]
    BY <1>1, <1>2
  <1>4. /\ job[c] \in JobStates /\ job[c].phase = "queued" /\ CallOK(call[c], job[c], up, sidecar)
    BY <1>1, CallFacts
  <1>5. /\ j \in JobStates /\ j.phase = "reading" /\ j.made = job[c].made
    BY <1>4, JobFacts, NoJobFacts DEF Running
  <1> HIDE DEF c, j
  <1>6. \A d \in Calls : job'[d] = IF d = c THEN j ELSE job[d]
    BY <1>2 DEF DssInv, DssTypeOK
  <1>7. job' \in [Calls -> JobStates]
    BY <1>2, <1>5 DEF DssInv, DssTypeOK
  <1>8. QueuedOnce'
    <2> SUFFICES ASSUME NEW a \in DOMAIN queue', NEW b \in DOMAIN queue', queue'[a] = queue'[b]
                 PROVE  a = b
      BY DEF QueuedOnce
    <2>1. a + 1 = b + 1 /\ a \in Nat /\ b \in Nat
      BY <1>1, <1>3 DEF DssInv, QueuedOnce
    <2> QED
      BY <2>1
  <1>9. ASSUME NEW d \in Calls
        PROVE  job'[d].phase = "queued" <=> \E i \in DOMAIN queue' : queue'[i] = d
    <2>1. CASE d = c
      <3>1. ASSUME NEW i \in DOMAIN queue', queue'[i] = c
            PROVE  FALSE
        <4>1. i + 1 \in DOMAIN queue /\ queue[i + 1] = queue[1] /\ 1 \in DOMAIN queue /\ i \in 1 .. Len(queue) - 1
          BY <1>1, <1>3, <3>1
        <4>2. i + 1 = 1
          BY <4>1 DEF DssInv, QueuedOnce
        <4> QED
          BY <1>1, <4>1, <4>2
      <3> QED
        BY <1>5, <1>6, <2>1, <3>1
    <2>2. CASE d # c
      <3>1. ASSUME NEW i \in DOMAIN queue, queue[i] = d
            PROVE  \E k \in DOMAIN queue' : queue'[k] = d
        <4>1. i # 1 /\ i \in 1 .. Len(queue)
          BY <1>1, <2>2, <3>1
        <4>2. i - 1 \in DOMAIN queue' /\ queue'[i - 1] = queue[i]
          <5>1. i - 1 \in DOMAIN queue' /\ (i - 1) + 1 = i
            BY <1>1, <1>3, <4>1
          <5> QED
            BY <1>3, <5>1
        <4> QED
          BY <3>1, <4>2
      <3> QED
        BY <1>1, <1>3, <1>6, <2>2, <3>1
    <2> QED
      BY <2>1, <2>2
  <1>10. DssTypeOK'
    BY <1>2, <1>3, <1>7, <1>9 DEF DssInv, DssTypeOK, In
  <1>11. CallOK(call[c], j, up, sidecar)
    BY <1>4, <1>5 DEF CallOK, Pending, Running, Told, Outcomes
  <1>12. \A d \in Calls : CallOK(call'[d], job'[d], up', sidecar')
    BY <1>2, <1>6, <1>11 DEF DssInv
  <1> QED
    BY <1>2, <1>8, <1>10, <1>12 DEF DssInv

\* A job without a signature has its answer.
LEMMA RespondKeeps ==
  ASSUME DssInv, NEW c \in Calls, NEW answer \in Answers, Respond(c, answer),
         job[c].phase \in {"reading", "holding"}, AnswerOK(call[c].ask, answer, NoSignature),
         UNCHANGED <<call, queue, up, sidecar, starts>>
  PROVE  DssInv'
  <1> DEFINE j == Answering(job[c], "answering", answer)
  <1>1. /\ call[c] \in CallStates /\ job[c] \in JobStates
        /\ CallOK(call[c], job[c], up, sidecar)
    BY CallFacts
  <1>2. job[c].made = NoSignature /\ up /\ call[c].phase \in {"posted", "expired"}
    BY <1>1 DEF CallOK, Pending, Running, Told, Outcomes
  <1>3. "answering" \in Running /\ answer \in Answers \cup {Nothing}
    BY DEF Running
  <1>4. j \in JobStates /\ j.phase = "answering" /\ j.answer = answer /\ j.made = NoSignature
    BY <1>1, <1>2, <1>3, JobFacts
  <1>5. job' = [job EXCEPT ![c] = j]
    BY DEF Respond, Answering
  <1> HIDE DEF j
  <1>6. CallOK(call[c], j, up, sidecar)
    BY <1>1, <1>2, <1>4 DEF CallOK, Pending, Running, Told, Outcomes
  <1> QED
    BY <1>4, <1>5, <1>6, OneJob

\* A request that a thread has read, has been checked.
LEMMA ReadRequestKeeps ==
  ASSUME DssInv, NEW c \in Calls, ReadRequest(c)
  PROVE  DssInv'
  <1> DEFINE ask == call[c].ask
  <1>1. /\ call[c] \in CallStates /\ job[c] \in JobStates
        /\ CallOK(call[c], job[c], up, sidecar)
        /\ call[c].phase = "posted" /\ job[c].phase = "reading" /\ job[c].made = NoSignature
        /\ up /\ UNCHANGED <<call, queue, up, sidecar, starts>>
    BY CallFacts DEF ReadRequest, In, Posted, CallOK, Pending, Running
  <1>2. ask \in AskTypes
    BY <1>1, AskFacts, AsksAssumption
  <1>4. ASSUME Proceed(c, "entering"), ask.op \in {"sign", "verify"},
               ask.op = "sign" => ask.as = sidecar.as /\ ask.digest
        PROVE  DssInv'
    <2> DEFINE j == At(job[c], "entering")
    <2>1. j \in JobStates /\ j.phase = "entering" /\ j.made = NoSignature
      BY <1>1, JobFacts, NoJobFacts DEF Running
    <2>2. job' = [job EXCEPT ![c] = j]
      BY <1>4 DEF Proceed, At
    <2> HIDE DEF j
    <2>3. CallOK(call[c], j, up, sidecar)
      BY <1>1, <1>4, <2>1 DEF CallOK, Pending, Running, Told, Outcomes
    <2> QED
      BY <1>1, <2>1, <2>2, <2>3, OneJob
  <1>5. CASE ask.op = "sign"
    <2>1. IF MaySign(ask) THEN Proceed(c, "entering") ELSE Respond(c, [kind |-> "declined"])
      BY <1>5 DEF ReadRequest, Ask
    <2>2. CASE MaySign(ask)
      BY <1>4, <1>5, <2>1, <2>2 DEF MaySign
    <2>3. CASE ~MaySign(ask)
      <3>1. /\ [kind |-> "declined"] \in Answers
            /\ AnswerOK(ask, [kind |-> "declined"], NoSignature)
        BY <1>5 DEF Answers, AnswerOK
      <3> QED
        BY <1>1, <2>1, <2>3, <3>1, RespondKeeps
    <2> QED
      BY <2>2, <2>3
  <1>6. CASE ask.op = "verify"
    <2>1. Proceed(c, "entering")
      BY <1>6 DEF ReadRequest, Ask
    <2> QED
      BY <1>4, <1>6, <2>1
  <1>7. CASE ask.op \in {"health", "probe"}
    <2>1. \E kind \in {"ready", "accepted"} : Respond(c, [kind |-> kind])
      BY <1>7 DEF ReadRequest, Ask
    <2>2. \A kind \in {"ready", "accepted"} :
            [kind |-> kind] \in Answers /\ AnswerOK(ask, [kind |-> kind], NoSignature)
      BY <1>7 DEF Answers, AnswerOK
    <2> QED
      BY <1>1, <2>1, <2>2, RespondKeeps
  <1> QED
    BY <1>2, <1>5, <1>6, <1>7 DEF AskTypes

\* Both sides of a call that is over.
LEMMA GoneKeeps ==
  ASSUME DssInv, NEW c \in Calls, job[c].phase # "queued",
         job' = [job EXCEPT ![c] = Over], call' = [call EXCEPT ![c] = Gone],
         UNCHANGED <<queue, up, sidecar, starts>>
  PROVE  DssInv'
  <1>1. CallOK(Gone, Over, up, sidecar)
    BY NoJobFacts DEF CallOK, Pending, Running, Told, Outcomes
  <1> QED
    BY <1>1, NoJobFacts, OneCall

LEMMA EnterMonitorKeeps ==
  ASSUME DssInv, NEW c \in Calls, EnterMonitor(c)
  PROVE  DssInv'
  <1> DEFINE j == At(job[c], "holding")
  <1>1. /\ call[c] \in CallStates /\ job[c] \in JobStates
        /\ CallOK(call[c], job[c], up, sidecar) /\ job[c].phase = "entering"
        /\ UNCHANGED <<call, queue, up, sidecar, starts>>
    BY CallFacts DEF EnterMonitor, In
  <1>2. j \in JobStates /\ j.phase = "holding" /\ j.made = job[c].made
    BY <1>1, JobFacts, NoJobFacts DEF Running
  <1>3. job' = [job EXCEPT ![c] = j]
    BY DEF EnterMonitor, Proceed, At
  <1> HIDE DEF j
  <1>4. CallOK(call[c], j, up, sidecar)
    BY <1>1, <1>2 DEF CallOK, Pending, Running, Told, Outcomes
  <1> QED
    BY <1>1, <1>2, <1>3, <1>4, OneJob

\* What the engine does, it says.
LEMMA WorkKeeps ==
  ASSUME DssInv, NEW c \in Calls, Work(c)
  PROVE  DssInv'
  <1> DEFINE ask == call[c].ask
  <1>1. /\ call[c] \in CallStates /\ job[c] \in JobStates
        /\ CallOK(call[c], job[c], up, sidecar)
        /\ call[c].phase \in {"posted", "expired"} /\ job[c].phase = "holding"
        /\ job[c].made = NoSignature /\ up
        /\ UNCHANGED <<call, queue, up, sidecar, starts>>
    BY CallFacts DEF Work, EngineSigns, EngineVerifies, EngineFails, In, CallOK, Pending, Running
  <1>2. /\ ask \in AskTypes
        /\ ask.op \in {"sign", "verify"}
        /\ ask.op = "sign" => ask.as = sidecar.as /\ ask.digest
    BY <1>1, AskFacts, AsksAssumption DEF CallOK
  <1>4. CASE EngineSigns(c)
    <2> DEFINE answer == [kind |-> "signed", told |-> ask.level]
               made == [level |-> ask.level, as |-> sidecar.as]
               j == [phase |-> "answering", answer |-> answer, made |-> made]
    <2>1. ask.op = "sign" /\ ask.level \in {"B-B", "B-T"} /\ ask.as \in Identities
      BY <1>2, <1>4 DEF EngineSigns, Ask, AskTypes
    <2>2. answer \in Answers /\ AnswerOK(ask, answer, made)
      BY <1>2, <2>1 DEF Answers, AnswerOK
    <2>3. made \in [level : {"B-B", "B-T"}, as : Identities]
      BY <1>2, <2>1
    <2>4. job' = [job EXCEPT ![c] = j]
      BY <1>4 DEF EngineSigns, Ask
    <2> HIDE DEF answer, made
    <2>5. j \in JobStates /\ j.phase = "answering" /\ j.answer = answer /\ j.made = made
      BY <2>2, <2>3 DEF JobStates, Running
    <2> HIDE DEF j
    <2>6. CallOK(call[c], j, up, sidecar)
      BY <1>1, <2>2, <2>5 DEF CallOK, Pending, Running, Told, Outcomes
    <2> QED
      BY <1>1, <2>4, <2>5, <2>6, OneJob
  <1>5. CASE EngineVerifies(c)
    <2>1. ask.op = "verify" /\ ask.marks \in Seq(Marks) /\ Respond(c, Validation(ask.marks))
      BY <1>2, <1>5 DEF EngineVerifies, Ask, AskTypes
    <2>2. Validation(ask.marks) \in Answers /\ AnswerOK(ask, Validation(ask.marks), NoSignature)
      BY <2>1, ValidationFacts DEF AnswerOK
    <2> QED
      BY <1>1, <2>1, <2>2, RespondKeeps
  <1>6. CASE EngineFails(c)
    <2>1. [kind |-> "error"] \in Answers /\ AnswerOK(ask, [kind |-> "error"], NoSignature)
      BY DEF Answers, AnswerOK
    <2>2. Respond(c, [kind |-> "error"])
      BY <1>6 DEF EngineFails
    <2> QED
      BY <1>1, <2>1, <2>2, RespondKeeps
  <1> QED
    BY <1>4, <1>5, <1>6 DEF Work

\* The status reaches the client; the answer is still the sidecar's.
LEMMA AnswerBeginsKeeps ==
  ASSUME DssInv, NEW c \in Calls, AnswerBegins(c)
  PROVE  DssInv'
  <1> DEFINE k == Ended(call[c], "headed", job[c].answer)
  <1>1. /\ call[c] \in CallStates /\ job[c] \in JobStates
        /\ CallOK(call[c], job[c], up, sidecar) /\ call[c].phase = "posted" /\ job[c].phase = "answering"
    BY CallFacts DEF AnswerBegins, Posted, In
  <1>2. /\ call' = [call EXCEPT ![c] = k] /\ job' = [job EXCEPT ![c] = job[c]]
        /\ UNCHANGED <<queue, up, sidecar, starts>>
    BY DEF AnswerBegins, End, Ended, DssInv, DssTypeOK
  <1>3. job[c].answer \in Answers \cup {Nothing} /\ call[c].phase \notin {"idle", "gone"}
    BY <1>1 DEF JobStates
  <1>4. k \in CallStates /\ k.phase = "headed" /\ k.ask = call[c].ask /\ k.answer = job[c].answer
    BY <1>1, <1>3, EndFacts
  <1> HIDE DEF k
  <1>5. CallOK(k, job[c], up, sidecar)
    BY <1>1, <1>4 DEF CallOK, Pending, Running, Told, Outcomes
  <1> QED
    BY <1>1, <1>2, <1>4, <1>5, OneCall

LEMMA DoneFacts ==
  ASSUME NEW j \in JobStates
  PROVE  Done(j) \in JobStates /\ Done(j).phase = "over" /\ Done(j).made = j.made
  BY DEF JobStates, Done

\* The client is told what the sidecar has to say, if it still listens.
LEMMA AnswerKeeps ==
  ASSUME DssInv, NEW c \in Calls, Answer(c)
  PROVE  DssInv'
  <1> DEFINE ask == call[c].ask
             answer == job[c].answer
             outcome == OutcomeOf(ask, answer)
             kept == IF outcome = "accepted" THEN answer ELSE Nothing
             k == Ended(call[c], outcome, kept)
             j == Done(job[c])
  <1>1. /\ call[c] \in CallStates /\ job[c] \in JobStates
        /\ CallOK(call[c], job[c], up, sidecar) /\ job[c].phase = "answering"
        /\ AnswerOK(ask, answer, job[c].made)
        /\ UNCHANGED <<queue, up, sidecar, starts>>
    BY CallFacts DEF Answer, In, CallOK
  <1>2. CASE Expired(c) /\ call' = [call EXCEPT ![c] = Gone] /\ job' = [job EXCEPT ![c] = Over]
    BY <1>1, <1>2, GoneKeeps
  <1>3. j \in JobStates /\ j.phase = "over" /\ j.made = job[c].made
    BY <1>1, DoneFacts
  <1>4. CASE /\ call[c].phase \in {"refused", "failed", "unread"}
             /\ job' = [job EXCEPT ![c] = j] /\ UNCHANGED call
    <2> HIDE DEF j
    <2>1. CallOK(call[c], j, up, sidecar)
      BY <1>1, <1>3, <1>4 DEF CallOK, Pending, Running, Told, Outcomes
    <2> QED
      BY <1>1, <1>3, <1>4, <2>1, OneJob
  <1>5. CASE /\ call[c].phase \in {"posted", "headed"}
             /\ call' = [call EXCEPT ![c] = k] /\ job' = [job EXCEPT ![c] = j]
    <2>1. /\ outcome \in {"accepted", "refused", "failed"}
          /\ outcome = "accepted" => answer.kind \notin {"declined", "error"}
          /\ answer.kind = "signed" => (answer.told = ask.level => outcome = "accepted")
      BY DEF OutcomeOf, Accepts
    <2>2. /\ call[c].phase \notin {"idle", "gone"} /\ kept \in Answers \cup {Nothing}
          /\ outcome \in {"headed"} \cup Outcomes
      BY <1>1, <1>5, <2>1 DEF JobStates, Outcomes
    <2> HIDE DEF outcome, answer
    <2>3. k \in CallStates /\ k.phase = outcome /\ k.ask = ask /\ k.answer = kept
      BY <1>1, <2>2, EndFacts
    <2>4. ToldOK(k, job[c].made)
      <3> DEFINE made == job[c].made
      <3>1. AnswerOK(k.ask, answer, made)
        BY <1>1, <2>3 DEF answer
      <3> HIDE DEF made, k
      <3>2. ASSUME k.ask.op = "sign"
            PROVE  IF k.phase \in {"accepted", "unread"}
                   THEN k.ask.digest /\ made = [level |-> k.ask.level, as |-> k.ask.as]
                   ELSE made = NoSignature
        <4>1. CASE /\ answer = [kind |-> "signed", told |-> k.ask.level]
                   /\ k.ask.digest
                   /\ made = [level |-> k.ask.level, as |-> k.ask.as]
          <5>1. answer.kind = "signed" /\ answer.told = k.ask.level
            BY <4>1
          <5>2. k.phase = "accepted"
            BY <2>1, <2>3, <5>1
          <5> QED
            BY <4>1, <5>2
        <4>2. CASE answer.kind \in {"declined", "error"} /\ made = NoSignature
          BY <2>1, <2>3, <4>2
        <4> QED
          BY <3>1, <3>2, <4>1, <4>2 DEF AnswerOK
      <3>3. ASSUME k.ask.op = "verify", k.phase = "accepted"
            PROVE  k.answer = Validation(k.ask.marks)
        BY <2>1, <2>3, <3>1, <3>3 DEF AnswerOK
      <3> QED
        BY <3>2, <3>3 DEF ToldOK, made
    <2> HIDE DEF k, j
    <2>5. CallOK(k, j, up, sidecar)
      BY <1>3, <2>1, <2>3, <2>4 DEF CallOK, Pending, Running, Told, Outcomes
    <2> QED
      BY <1>1, <1>3, <1>5, <2>3, <2>5, OneCall
  <1> QED
    <2>1. \/ Headed(c) \/ Posted(c)
          \/ Expired(c) /\ call' = [call EXCEPT ![c] = Gone] /\ job' = [job EXCEPT ![c] = Over]
          \/ call[c].phase \in {"refused", "failed", "unread"} /\ job' = [job EXCEPT ![c] = j] /\ UNCHANGED call
      BY DEF Answer
    <2>2. Headed(c) \/ Posted(c) => call' = [call EXCEPT ![c] = k] /\ job' = [job EXCEPT ![c] = j]
      BY DEF Answer, End, Ended, Ask, Headed, Posted, Expired
    <2> QED
      BY <1>2, <1>4, <1>5, <2>1, <2>2 DEF Headed, Posted

\* The container stops: no job is left, and what was told stays true.
LEMMA StopKeeps ==
  ASSUME DssInv, Stop
  PROVE  DssInv'
  <1>1. /\ up' = FALSE /\ queue' = <<>> /\ UNCHANGED <<sidecar, starts>> /\ starts < MaxStarts
        /\ \A c \in Calls :
             /\ call'[c] = IF Posted(c) \/ Expired(c) THEN Gone
                            ELSE IF Headed(c) THEN Unread(call[c]) ELSE call[c]
             /\ job'[c] = IF Posted(c) \/ Expired(c) THEN Over
                           ELSE IF In(c, "answering") THEN Done(job[c]) ELSE job[c]
    BY DEF Stop
  <1>2. ASSUME NEW c \in Calls
        PROVE  /\ call'[c] \in CallStates /\ job'[c] \in JobStates
               /\ job'[c].phase \notin Pending
               /\ CallOK(call'[c], job'[c], up', sidecar')
    <2>1. /\ call[c] \in CallStates /\ job[c] \in JobStates /\ CallOK(call[c], job[c], up, sidecar)
      BY CallFacts
    <2>2. Done(job[c]) \in JobStates /\ Done(job[c]).phase = "over" /\ Done(job[c]).made = job[c].made
      BY <2>1, DoneFacts
    <2>3. CASE Posted(c) \/ Expired(c)
      BY <1>1, <2>3, NoJobFacts DEF CallOK, Pending, Running, Told, Outcomes
    <2>4. CASE Headed(c)
      <3> DEFINE k == Unread(call[c])
                 j == Done(job[c])
      <3>1. call'[c] = k /\ job'[c] = j
        BY <1>1, <2>1, <2>4 DEF Posted, Expired, Headed, CallOK, In
      <3>2. /\ k \in CallStates /\ k.phase \in {"refused", "failed", "unread"} /\ ToldOK(k, job[c].made)
        BY <2>1, <2>4, UnreadFacts DEF Headed, CallOK
      <3> HIDE DEF k, j
      <3>3. CallOK(k, j, up', sidecar')
        BY <2>2, <3>2 DEF CallOK, Pending, Running, Told, Outcomes, j
      <3> QED
        BY <2>2, <3>1, <3>2, <3>3 DEF Pending, Running, j
    <2>5. CASE ~Posted(c) /\ ~Expired(c) /\ ~Headed(c) /\ In(c, "answering")
      <3>1. call'[c] = call[c] /\ job'[c] = Done(job[c])
        BY <1>1, <2>5
      <3>2. CallOK(call[c], Done(job[c]), FALSE, sidecar)
        BY <2>1, <2>2, <2>5 DEF CallOK, Pending, Running, Told, Outcomes, Headed, In
      <3> QED
        BY <1>1, <2>1, <2>2, <3>1, <3>2 DEF Pending, Running
    <2>6. CASE ~Posted(c) /\ ~Expired(c) /\ ~Headed(c) /\ ~In(c, "answering")
      <3>1. call'[c] = call[c] /\ job'[c] = job[c]
        BY <1>1, <2>6
      <3>2. job[c].phase \notin Pending
        BY <2>1, <2>6 DEF CallOK, Pending, Running, Told, Outcomes, Posted, Expired, In
      <3>3. CallOK(call[c], job[c], FALSE, sidecar)
        BY <2>1, <2>6, <3>2 DEF CallOK, Pending, Running, Told, Outcomes
      <3> QED
        BY <1>1, <2>1, <3>1, <3>2, <3>3
    <2> QED
      BY <2>3, <2>4, <2>5, <2>6
  <1>3. call' \in [Calls -> CallStates] /\ job' \in [Calls -> JobStates]
    <2>1. DOMAIN call' = Calls /\ DOMAIN job' = Calls
      BY DEF Stop
    <2>2. call' = [c \in Calls |-> call'[c]] /\ job' = [c \in Calls |-> job'[c]]
      BY DEF Stop
    <2> QED
      BY <1>2, <2>1, <2>2
  <1>4. DssTypeOK'
    <2>1. queue' \in Seq(Calls) /\ DOMAIN queue' = {}
      BY <1>1
    <2>2. \A c \in Calls : ~In(c, "queued")'
      BY <1>2 DEF In, Pending
    <2> QED
      BY <1>1, <1>3, <2>1, <2>2 DEF DssInv, DssTypeOK
  <1>5. QueuedOnce'
    BY <1>1 DEF QueuedOnce
  <1> QED
    BY <1>1, <1>2, <1>4, <1>5 DEF DssInv

\* It starts with whatever configuration: no job was checked against another.
LEMMA StartKeeps ==
  ASSUME DssInv, Start
  PROVE  DssInv'
  <1>1. /\ up' = TRUE /\ ~up /\ sidecar' \in Configs /\ UNCHANGED <<call, job, queue>>
        /\ starts' \in 0 .. MaxStarts
    BY PoolAssumption DEF Start, DssInv, DssTypeOK
  <1>2. ASSUME NEW c \in Calls
        PROVE  CallOK(call'[c], job'[c], up', sidecar')
    <2>1. CallOK(call[c], job[c], up, sidecar) /\ job[c].phase \notin Pending
      BY <1>1, CallFacts DEF CallOK
    <2>2. CallOK(call[c], job[c], TRUE, sidecar')
      BY <2>1 DEF CallOK, Pending, Running, Told, Outcomes
    <2> QED
      BY <1>1, <2>2
  <1>3. DssTypeOK' /\ QueuedOnce'
    BY <1>1 DEF DssInv, DssTypeOK, In, QueuedOnce
  <1> QED
    BY <1>1, <1>2, <1>3 DEF DssInv

-----------------------------------------------------------------------------
(* The theorems *)

LEMMA DssInvariant == DssSpec => []DssInv
  <1>1. DssInit => DssInv
    <2> SUFFICES ASSUME DssInit PROVE DssInv
      OBVIOUS
    <2>1. /\ queue \in Seq(Calls) /\ DOMAIN queue = {} /\ up
          /\ \A c \in Calls : call[c] = Idle /\ job[c] = NoJob
      BY DEF DssInit
    <2>2. \A c \in Calls : CallOK(call[c], job[c], up, sidecar)
      BY <2>1, NoJobFacts DEF CallOK, Pending, Running, Told, Outcomes
    <2>3. \A c \in Calls : ~In(c, "queued")
      BY <2>1, NoJobFacts DEF In
    <2>4. DssTypeOK
      BY <2>1, <2>3, NoJobFacts, PoolAssumption DEF DssInit, DssTypeOK
    <2> QED
      BY <2>1, <2>2, <2>4 DEF DssInv, QueuedOnce
  <1>2. DssInv /\ [DssNext]_dssVars => DssInv'
    <2> SUFFICES ASSUME DssInv, [DssNext]_dssVars PROVE DssInv'
      OBVIOUS
    <2>1. ASSUME NEW c \in Calls, NEW ask \in Asks, Begin(c, ask) PROVE DssInv'
      BY <2>1, BeginKeeps
    <2>2. ASSUME NEW c \in Calls, GiveUp(c) PROVE DssInv'
      BY <2>2, GiveUpKeeps
    <2>3. ASSUME NEW c \in Calls, ReadRequest(c) PROVE DssInv'
      BY <2>3, ReadRequestKeeps
    <2>4. ASSUME NEW c \in Calls, ProbeThrows(c) \/ ReadFails(c) PROVE DssInv'
      BY <2>4, GoneKeeps DEF ProbeThrows, ReadFails, In
    <2>5. ASSUME NEW c \in Calls, EnterMonitor(c) PROVE DssInv'
      BY <2>5, EnterMonitorKeeps
    <2>6. ASSUME NEW c \in Calls, Work(c) PROVE DssInv'
      BY <2>6, WorkKeeps
    <2>7. ASSUME NEW c \in Calls, AnswerBegins(c) \/ Answer(c) PROVE DssInv'
      BY <2>7, AnswerBeginsKeeps, AnswerKeeps
    <2>8. CASE TakeUp
      BY <2>8, TakeUpKeeps
    <2>9. CASE Stop
      BY <2>9, StopKeeps
    <2>10. CASE Start
      BY <2>10, StartKeeps
    <2>11. CASE UNCHANGED dssVars
      BY <2>11 DEF dssVars, DssInv, DssTypeOK, QueuedOnce, In
    <2> QED
      BY <2>1, <2>2, <2>3, <2>4, <2>5, <2>6, <2>7, <2>8, <2>9, <2>10, <2>11 DEF DssNext
  <1> QED
    BY <1>1, <1>2, PTL DEF DssSpec

\* Every variable has its type, and the executor's queue holds exactly the calls
\* that are queued.
THEOREM DssTypes == DssSpec => []DssTypeOK
  <1>1. DssInv => DssTypeOK
    BY DEF DssInv
  <1> QED
    BY <1>1, DssInvariant, PTL

\* Whatever the number of calls and threads, however either side times out, fails or
\* is restarted with another credential, and wherever a response breaks off: a signing
\* call that was accepted has the signature it asked for, one that was refused or
\* failed has none, and one whose answer could not be read has one that nobody received.
THEOREM CallersAreToldTheTruth == DssSpec => []ToldTheTruth
  <1>1. DssInv => ToldTheTruth
    <2> SUFFICES ASSUME DssInv, NEW c \in Calls,
                        call[c].phase \in Told, Ask(c).op = "sign"
                 PROVE  IF call[c].phase \in {"accepted", "unread"}
                        THEN Ask(c).digest /\ job[c].made = [level |-> Ask(c).level, as |-> Ask(c).as]
                        ELSE job[c].made = NoSignature /\ job[c].phase \in {"none", "answering", "over"}
      BY DEF ToldTheTruth, Told
    <2>1. job[c].phase \in {"none", "answering", "over"} /\ ToldOK(call[c], job[c].made)
      BY CallFacts DEF CallOK
    <2> QED
      BY <2>1 DEF ToldOK, Ask
  <1> QED
    BY <1>1, DssInvariant, PTL

\* A PDF that is reported as valid and intact has a signature, and every one of
\* its signatures is valid and intact.
THEOREM ValidIsEverySignature == DssSpec => []ValidMeansEverySignature
  <1>1. DssInv => ValidMeansEverySignature
    <2> SUFFICES ASSUME DssInv, NEW c \in Calls, call[c].phase = "accepted", Ask(c).op = "verify"
                 PROVE  /\ call[c].answer.crypto = "VALID" =>
                             Ask(c).marks # <<>> /\ \A i \in DOMAIN Ask(c).marks : Ask(c).marks[i].valid
                        /\ call[c].answer.integrity = "VALID" =>
                             \A i \in DOMAIN Ask(c).marks : Ask(c).marks[i].intact
      BY DEF ValidMeansEverySignature
    <2> DEFINE ask == call[c].ask
    <2>1. call[c].answer = Validation(ask.marks)
      BY CallFacts DEF CallOK, ToldOK, Ask, Told, Outcomes
    <2>2. ask \in AskTypes /\ ask.op = "verify"
      BY CallFacts, AskFacts, AsksAssumption DEF Ask
    <2>3. ask.marks \in Seq(Marks)
      BY <2>2 DEF AskTypes
    <2> QED
      BY <2>1, <2>3, ValidationFacts DEF Ask
  <1> QED
    BY <1>1, DssInvariant, PTL
=============================================================================
