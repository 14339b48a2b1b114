-------------------------- MODULE FrontEndsProofs --------------------------
(***************************************************************************)
(* Theorems about the four front ends, each about the specification of its *)
(* own component: the camera of the verifier's page, browser printing, the *)
(* admin service and the demo.                                             *)
(***************************************************************************)
EXTENDS Admin, Playground, PrintPage, Camera, FiniteSetTheorems, TLAPS

-----------------------------------------------------------------------------
(* The camera *)

\* As long as no start was clicked while another was pending: at most one click waits for its stream,
\* and none does while a camera is on.
OneStartAtATime ==
  /\ \A s, t \in Starts : stream[s] = "pending" /\ stream[t] = "pending" => s = t
  /\ \A s \in Starts : stream[s] = "pending" => activeStream = Nothing

\* The streams that are on, the intervals that run and the buttons agree with activeStream and scanTimer.
CameraAgrees ==
  /\ \A s \in Starts : stream[s] = "open" <=> s = activeStream
  /\ \A s \in Starts : s \in intervals <=> s = scanTimer
  /\ "stop" \in buttons <=> activeStream # Nothing
  /\ "start" \in buttons <=> activeStream = Nothing
  /\ scanTimer # Nothing => scanTimer = activeStream

CameraInv == CameraTypeOK /\ (~overlapped => OneStartAtATime /\ CameraAgrees)

LEMMA CameraStarts == CameraInit => CameraInv
BY NothingAssumption DEF CameraInit, CameraInv, CameraTypeOK, OneStartAtATime, CameraAgrees

\* Turning the camera off, whatever else the step does.
LEMMA StopKeepsCamera ==
  ASSUME CameraInv, StopCamera, UNCHANGED overlapped
  PROVE  CameraInv'
<1> USE DEF StopCamera, StopInterval
<1>1. CameraTypeOK'
  BY NothingAssumption DEF CameraInv, CameraTypeOK
<1>2. ASSUME ~overlapped PROVE OneStartAtATime' /\ CameraAgrees'
  <2>1. CameraTypeOK /\ OneStartAtATime /\ CameraAgrees
    BY <1>2 DEF CameraInv
  <2>2. \A s \in Starts : stream'[s] # "open" /\ (stream'[s] = "pending" => stream[s] = "pending")
    BY <2>1, NothingAssumption DEF CameraTypeOK, CameraAgrees
  <2>3. \A s \in Starts : s \notin intervals'
    BY <2>1 DEF CameraAgrees
  <2>4. "stop" \notin buttons' /\ "start" \in buttons'
    OBVIOUS
  <2> QED
    BY <2>1, <2>2, <2>3, <2>4, NothingAssumption DEF OneStartAtATime, CameraAgrees
<1> QED
  BY <1>1, <1>2 DEF CameraInv

\* A click on "Start camera".
LEMMA ClickStartKeepsCamera ==
  ASSUME CameraInv, NEW s \in Starts, ClickStart(s)
  PROVE  CameraInv'
<1> USE DEF ClickStart
<1>1. CameraTypeOK'
  BY DEF CameraInv, CameraTypeOK
<1>2. ASSUME ~overlapped' PROVE OneStartAtATime' /\ CameraAgrees'
  <2>1. ~overlapped /\ \A t \in Starts : stream[t] # "pending"
    BY <1>2
  <2>2. CameraTypeOK /\ CameraAgrees
    BY <2>1 DEF CameraInv
  <2>3. activeStream = Nothing
    BY <2>2 DEF CameraAgrees
  <2>4. \A t \in Starts : stream'[t] = IF t = s THEN "pending" ELSE stream[t]
    BY <2>2 DEF CameraTypeOK
  <2>5. OneStartAtATime'
    BY <2>1, <2>3, <2>4 DEF OneStartAtATime
  <2>6. CameraAgrees'
    BY <2>2, <2>3, <2>4, NothingAssumption DEF CameraAgrees
  <2> QED
    BY <2>5, <2>6
<1> QED
  BY <1>1, <1>2 DEF CameraInv

\* A stream has been obtained.
LEMMA OpensKeepsCamera ==
  ASSUME CameraInv, NEW s \in Starts, Opens(s)
  PROVE  CameraInv'
<1> USE DEF Opens
<1>1. CameraTypeOK'
  BY DEF CameraInv, CameraTypeOK
<1>2. ASSUME ~overlapped' PROVE OneStartAtATime' /\ CameraAgrees'
  <2>1. CameraTypeOK /\ OneStartAtATime /\ CameraAgrees
    BY <1>2 DEF CameraInv
  <2>2. activeStream = Nothing /\ scanTimer = Nothing
    BY <2>1 DEF OneStartAtATime, CameraAgrees
  <2>3. \A t \in Starts : stream'[t] = IF t = s THEN "open" ELSE stream[t]
    BY <2>1 DEF CameraTypeOK
  <2>4. \A t \in Starts : t # s => stream'[t] \notin {"open", "pending"}
    BY <2>1, <2>2, <2>3, NothingAssumption DEF OneStartAtATime, CameraAgrees
  <2>5. OneStartAtATime'
    BY <2>3, <2>4 DEF OneStartAtATime
  <2>6. \A t \in Starts : t \in intervals' <=> t = scanTimer'
    BY <2>1, <2>2, NothingAssumption DEF CameraAgrees
  <2>7. CameraAgrees'
    BY <2>2, <2>3, <2>4, <2>6, NothingAssumption DEF CameraAgrees
  <2> QED
    BY <2>5, <2>7
<1> QED
  BY <1>1, <1>2 DEF CameraInv

\* A stream was refused.
LEMMA DeniedKeepsCamera ==
  ASSUME CameraInv, NEW s \in Starts, Denied(s)
  PROVE  CameraInv'
<1> USE DEF Denied
<1>1. CameraTypeOK'
  BY DEF CameraInv, CameraTypeOK
<1>2. ASSUME ~overlapped' PROVE OneStartAtATime' /\ CameraAgrees'
  <2>1. CameraTypeOK /\ OneStartAtATime /\ CameraAgrees
    BY <1>2 DEF CameraInv
  <2>2. \A t \in Starts : stream'[t] = IF t = s THEN "denied" ELSE stream[t]
    BY <2>1 DEF CameraTypeOK
  <2> QED
    BY <2>1, <2>2 DEF OneStartAtATime, CameraAgrees
<1> QED
  BY <1>1, <1>2 DEF CameraInv

\* Steps that leave the camera alone, but for the button of the form.
LEMMA EvidenceKeepsCamera ==
  ASSUME CameraInv, UNCHANGED <<stream, activeStream, intervals, scanTimer, overlapped>>,
         buttons' \ {"submit"} = buttons \ {"submit"}
  PROVE  CameraInv'
<1>1. buttons \subseteq {"start", "stop", "submit"} => buttons' \subseteq {"start", "stop", "submit"}
  OBVIOUS
<1>2. /\ "stop" \in buttons' <=> "stop" \in buttons
      /\ "start" \in buttons' <=> "start" \in buttons
  OBVIOUS
<1> QED
  BY <1>1, <1>2 DEF CameraInv, CameraTypeOK, OneStartAtATime, CameraAgrees

LEMMA CameraInvIsInductive == CameraInv /\ [CameraNext]_cameraVars => CameraInv'
<1> SUFFICES ASSUME CameraInv, [CameraNext]_cameraVars PROVE CameraInv'
  OBVIOUS
<1>1. CASE UNCHANGED cameraVars
  BY <1>1, EvidenceKeepsCamera DEF cameraVars
<1>2. CASE ClickStop
  BY <1>2, StopKeepsCamera DEF ClickStop
<1>3. ASSUME NEW s \in Starts, ClickStart(s) \/ Opens(s) \/ Denied(s) PROVE CameraInv'
  BY <1>3, ClickStartKeepsCamera, OpensKeepsCamera, DeniedKeepsCamera
<1>4. ASSUME NEW a \in Attempts, Found(a) PROVE CameraInv'
  BY <1>4, StopKeepsCamera DEF Found
<1>5. ASSUME NEW a \in Attempts, Scan(a) \/ ClickCapture(a) \/ NotFound(a) \/ Submit(a) \/ Answer(a)
      PROVE  CameraInv'
  <2>1. UNCHANGED <<stream, activeStream, intervals, scanTimer, overlapped>>
    BY <1>5 DEF Scan, ClickCapture, NotFound, Submit, Answer
  <2>2. buttons' \ {"submit"} = buttons \ {"submit"}
    BY <1>5 DEF Scan, ClickCapture, NotFound, Submit, Answer
  <2> QED
    BY <2>1, <2>2, EvidenceKeepsCamera
<1> QED
  BY <1>1, <1>2, <1>3, <1>4, <1>5 DEF CameraNext

\* Unless a start was clicked while another was pending, the camera is off whenever the page offers to
\* start it, no interval looks at a picture any more, and a camera that is on is the one that the stop
\* button turns off: late detections, photos and permissions change nothing about it (app.js:100-163).
THEOREM StoppedMeansOff == CameraSpec => []StoppedCameraIsOff
<1>1. CameraInv => StoppedCameraIsOff
  <2> SUFFICES ASSUME CameraInv, ~overlapped
      PROVE  /\ Open = {activeStream} \ {Nothing}
             /\ intervals = {scanTimer} \ {Nothing}
    BY DEF CameraInv, CameraAgrees, StoppedCameraIsOff
  <2>1. CameraTypeOK /\ CameraAgrees
    BY DEF CameraInv
  <2>2. \A s : s \in Open <=> s \in {activeStream} \ {Nothing}
    BY <2>1, NothingAssumption DEF CameraTypeOK, CameraAgrees, Open
  <2>3. \A s : s \in intervals <=> s \in {scanTimer} \ {Nothing}
    BY <2>1, NothingAssumption DEF CameraTypeOK, CameraAgrees
  <2> QED
    BY <2>2, <2>3
<1> QED
  BY <1>1, CameraStarts, CameraInvIsInductive, PTL DEF CameraSpec
-----------------------------------------------------------------------------
(* Browser printing *)

\* The calls in their phases.
PrintCalls(p) ==
  [phase : {"idle"}]
    \cup [phase : {"requested", "rejected"}, target : Targets, prints : BOOLEAN]
    \cup [phase : {"answering", "prepared", "rejected"}, target : Targets, prints : BOOLEAN, answer : {p, NoSeal}]

Prepared(p) == preparation[p].phase = "prepared"

\* A target holds nothing, or the seal of a call that was prepared for it.
SealsOK ==
  \A t \in Targets : \/ seals[t] = <<>>
                     \/ \E p \in Preparations : seals[t] = <<p>> /\ Prepared(p) /\ preparation[p].target = t

\* The style is there before anything is printed.
PrintsOK ==
  /\ \A p \in Preparations : Prepared(p) => styled = 1
  /\ \A print \in prints :
       /\ print.by \in Preparations /\ print.shown \subseteq Preparations
       /\ Prepared(print.by) /\ print.style = 1
       /\ print.within = "prepareAndPrint" => print.shown = {print.by}

PrintInv ==
  /\ DOMAIN preparation = Preparations /\ \A p \in Preparations : preparation[p] \in PrintCalls(p)
  /\ DOMAIN seals = Targets /\ seals \in [Targets -> Seq(Preparations)]
  /\ styled \in 0..1
  /\ SealsOK
  /\ PrintsOK

LEMMA PrintStarts == PrintInit => PrintInv
BY DEF PrintInit, PrintInv, PrintCalls, SealsOK, PrintsOK, Prepared

\* What is shown in a target is seals of calls.
LEMMA ContentsAreSeals ==
  ASSUME NEW all, \A u \in Targets : all[u] = <<>> \/ \E p \in Preparations : all[u] = <<p>>, NEW t \in Targets
  PROVE  Contents(all, t) \subseteq Preparations
<1>1. Inside[t] \subseteq Targets
  BY InsideAssumption
<1>2. \A u \in Inside[t] : {all[u][i] : i \in 1..Len(all[u])} \subseteq Preparations
  <2> SUFFICES ASSUME NEW u \in Inside[t], NEW i \in 1..Len(all[u]) PROVE all[u][i] \in Preparations
    OBVIOUS
  <2>1. CASE all[u] = <<>>
    BY <2>1
  <2>2. ASSUME NEW p \in Preparations, all[u] = <<p>> PROVE all[u][i] \in Preparations
    BY <2>2
  <2> QED
    BY <1>1, <2>1, <2>2
<1> QED
  BY <1>2 DEF Contents

\* After an injection the target shows the injected seal and no other.
LEMMA InjectedShowsItself ==
  ASSUME NEW t \in Targets, NEW p
  PROVE  Contents(Injected(t, p), t) = {p}
<1> DEFINE after == Injected(t, p)
<1>1. t \in Inside[t] /\ Inside[t] \subseteq Targets
  BY InsideAssumption
<1>2. after[t] = <<p>> /\ \A u \in Inside[t] : u # t => after[u] = <<>>
  BY <1>1 DEF Injected
<1> HIDE DEF after
<1>3. {after[t][i] : i \in 1..Len(after[t])} = {p}
  BY <1>2
<1>4. \A u \in Inside[t] : u # t => {after[u][i] : i \in 1..Len(after[u])} = {}
  BY <1>2
<1>5. Contents(after, t) = {p}
  <2> DEFINE sealsIn(u) == {after[u][i] : i \in 1..Len(after[u])}
  <2>1. Contents(after, t) = UNION {sealsIn(u) : u \in Inside[t]}
    BY DEF Contents
  <2>2. sealsIn(t) = {p} /\ \A u \in Inside[t] : u # t => sealsIn(u) = {}
    BY <1>3, <1>4
  <2> HIDE DEF sealsIn
  <2>3. \A x : x \in UNION {sealsIn(u) : u \in Inside[t]} <=> x \in {p}
    BY <1>1, <2>2
  <2> QED
    BY <2>1, <2>3
<1> QED
  BY <1>5 DEF after

\* A step that moves a call which is not prepared, to anything but "prepared", disturbs nothing.
LEMMA OtherCallsKeepPrints ==
  ASSUME PrintInv, NEW p \in Preparations, ~Prepared(p), NEW call \in PrintCalls(p), call.phase # "prepared",
         preparation' = [preparation EXCEPT ![p] = call], UNCHANGED <<seals, styled, prints>>
  PROVE  PrintInv'
<1>1. /\ DOMAIN preparation' = Preparations
      /\ \A q \in Preparations : preparation'[q] = IF q = p THEN call ELSE preparation[q]
  BY DEF PrintInv
<1>2. \A q \in Preparations : Prepared(q)' <=> Prepared(q)
  BY <1>1 DEF Prepared
<1>3. \A q \in Preparations : Prepared(q) => preparation'[q] = preparation[q]
  BY <1>1
<1>4. SealsOK'
  BY <1>2, <1>3 DEF PrintInv, SealsOK
<1>5. PrintsOK'
  BY <1>2 DEF PrintInv, PrintsOK
<1>6. \A q \in Preparations : preparation'[q] \in PrintCalls(q)
  BY <1>1 DEF PrintInv
<1> QED
  BY <1>1, <1>4, <1>5, <1>6 DEF PrintInv, PrintCalls

\* The seal of a call arrives and takes its place.
LEMMA SealArrivesKeepsPrints ==
  ASSUME PrintInv, NEW p \in Preparations, SealArrives(p)
  PROVE  PrintInv'
<1> DEFINE t == preparation[p].target
           after == Injected(t, p)
<1>1. /\ preparation[p] \in PrintCalls(p) /\ preparation[p].phase = "answering" /\ preparation[p].answer = p
      /\ t \in Targets
  BY DEF PrintInv, PrintCalls, SealArrives
<1>2. /\ DOMAIN preparation' = Preparations
      /\ \A q \in Preparations : preparation'[q] = IF q = p THEN [preparation[p] EXCEPT !.phase = "prepared"] ELSE preparation[q]
  BY DEF PrintInv, SealArrives
<1>3. /\ preparation'[p] \in PrintCalls(p)
      /\ preparation'[p].phase = "prepared" /\ preparation'[p].target = t
  BY <1>1, <1>2 DEF PrintCalls
<1>4. \A q \in Preparations : Prepared(q)' <=> Prepared(q) \/ q = p
  BY <1>2, <1>3 DEF Prepared
<1>5. seals' = after /\ styled' = 1
  BY <1>1 DEF SealArrives, PrintInv
<1>6. \A u \in Targets : (seals'[u] = <<p>> /\ u = t) \/ seals'[u] = <<>> \/ seals'[u] = seals[u]
  BY <1>5 DEF Injected
<1>7. SealsOK'
  <2> SUFFICES ASSUME NEW u \in Targets
               PROVE  \/ seals'[u] = <<>>
                      \/ \E q \in Preparations : seals'[u] = <<q>> /\ Prepared(q)' /\ preparation'[q].target = u
    BY DEF SealsOK
  <2>1. CASE seals'[u] = <<p>> /\ u = t
    BY <2>1, <1>3, <1>4
  <2>2. ASSUME NEW q \in Preparations, seals'[u] = <<q>>, Prepared(q), preparation[q].target = u
        PROVE  Prepared(q)' /\ preparation'[q].target = u
    BY <2>2, <1>1, <1>2, <1>4 DEF Prepared
  <2>3. CASE seals'[u] = seals[u]
    BY <2>2, <2>3 DEF PrintInv, SealsOK
  <2> QED
    BY <1>6, <2>1, <2>3
<1>8. DOMAIN seals' = Targets /\ seals' \in [Targets -> Seq(Preparations)]
  <2>1. \A u \in Targets : seals[u] \in Seq(Preparations)
    BY DEF PrintInv
  <2>2. <<p>> \in Seq(Preparations) /\ <<>> \in Seq(Preparations)
    OBVIOUS
  <2>3. \A u \in Targets : seals'[u] \in Seq(Preparations)
    BY <1>6, <2>1, <2>2
  <2> QED
    BY <1>5, <2>3 DEF Injected
<1>9. Contents(after, t) = {p}
  BY <1>1, InjectedShowsItself
<1>10. \A print \in prints' :
         \/ print \in prints
         \/ print.by = p /\ print.shown = {p} /\ print.style = 1
  BY <1>1, <1>5, <1>9 DEF SealArrives
<1>11. PrintsOK'
  BY <1>4, <1>5, <1>10 DEF PrintInv, PrintsOK
<1>12. \A q \in Preparations : preparation'[q] \in PrintCalls(q)
  BY <1>2, <1>3 DEF PrintInv
<1> QED
  BY <1>2, <1>5, <1>7, <1>8, <1>11, <1>12 DEF PrintInv, PrintCalls

LEMMA PrintInvIsInductive == PrintInv /\ [PrintNext]_printVars => PrintInv'
<1> SUFFICES ASSUME PrintInv, [PrintNext]_printVars PROVE PrintInv'
  OBVIOUS
<1>1. CASE UNCHANGED printVars
  BY <1>1 DEF printVars, PrintInv, PrintCalls, SealsOK, PrintsOK, Prepared
<1>2. ASSUME NEW p \in Preparations, Prepare(p) PROVE PrintInv'
  <2>1. PICK t \in Targets, prints_ \in BOOLEAN :
          preparation' = [preparation EXCEPT ![p] = [phase |-> "requested", target |-> t, prints |-> prints_]]
    BY <1>2 DEF Prepare
  <2> DEFINE call == [phase |-> "requested", target |-> t, prints |-> prints_]
  <2>2. call \in PrintCalls(p) /\ call.phase # "prepared" /\ ~Prepared(p)
    BY <1>2 DEF PrintCalls, Prepare, Prepared
  <2> HIDE DEF call
  <2>3. preparation' = [preparation EXCEPT ![p] = call] /\ UNCHANGED <<seals, styled, prints>>
    BY <1>2, <2>1 DEF call, Prepare
  <2> QED
    BY <2>2, <2>3, OtherCallsKeepPrints
<1>3. ASSUME NEW p \in Preparations, Issue(p) PROVE PrintInv'
  <2>1. PICK answer \in {p, NoSeal} :
          preparation' = [preparation EXCEPT ![p] = [phase |-> "answering", target |-> @.target, prints |-> @.prints, answer |-> answer]]
    BY <1>3 DEF Issue
  <2> DEFINE call == [phase |-> "answering", target |-> preparation[p].target, prints |-> preparation[p].prints, answer |-> answer]
  <2>2. call \in PrintCalls(p) /\ call.phase # "prepared" /\ ~Prepared(p)
    BY <1>3 DEF PrintInv, PrintCalls, Issue, Prepared
  <2>3. preparation' = [preparation EXCEPT ![p] = call]
    BY <2>1
  <2>4. UNCHANGED <<seals, styled, prints>>
    BY <1>3 DEF Issue
  <2> HIDE DEF call
  <2> QED
    BY <2>2, <2>3, <2>4, OtherCallsKeepPrints
<1>4. ASSUME NEW p \in Preparations, SealArrives(p) PROVE PrintInv'
  BY <1>4, SealArrivesKeepsPrints
<1>5. ASSUME NEW p \in Preparations, Rejected(p) PROVE PrintInv'
  <2> DEFINE call == [preparation[p] EXCEPT !.phase = "rejected"]
  <2>1. call \in PrintCalls(p) /\ call.phase # "prepared" /\ ~Prepared(p)
    <3>1. preparation[p] \in PrintCalls(p) /\ preparation[p].phase \in {"answering", "requested"}
      BY <1>5 DEF PrintInv, Rejected
    <3> QED
      BY <3>1 DEF PrintCalls, Prepared
  <2>2. preparation' = [preparation EXCEPT ![p] = call]
    BY <1>5 DEF Rejected, PrintInv
  <2>3. UNCHANGED <<seals, styled, prints>>
    BY <1>5 DEF Rejected
  <2> HIDE DEF call
  <2> QED
    BY <2>1, <2>2, <2>3, OtherCallsKeepPrints
<1>6. ASSUME NEW p \in Preparations, PrintPrepared(p) PROVE PrintInv'
  <2> DEFINE visible == Contents(seals, preparation[p].target)
  <2>1. Prepared(p) /\ styled = 1 /\ preparation[p].target \in Targets
    BY <1>6 DEF PrintPrepared, PrintInv, PrintsOK, Prepared, PrintCalls
  <2>2. \A u \in Targets : seals[u] = <<>> \/ \E q \in Preparations : seals[u] = <<q>>
    BY DEF PrintInv, SealsOK
  <2>3. visible \subseteq Preparations
    BY <2>1, <2>2, ContentsAreSeals
  <2> HIDE DEF visible
  <2>4. /\ prints' = prints \cup {[by |-> p, within |-> "print", shown |-> visible, style |-> styled]}
        /\ UNCHANGED <<preparation, seals, styled>>
    BY <1>6 DEF PrintPrepared, visible
  <2>5. PrintsOK'
    BY <2>1, <2>3, <2>4 DEF PrintInv, PrintsOK, Prepared
  <2>6. SealsOK'
    BY <2>4 DEF PrintInv, SealsOK, Prepared
  <2> QED
    BY <2>4, <2>5, <2>6 DEF PrintInv, PrintCalls
<1> QED
  BY <1>1, <1>2, <1>3, <1>4, <1>5, <1>6 DEF PrintNext

\* What prepareAndPrint() prints shows in its target the seal of its own call and no other, with the
\* style for print; calls that were rejected print nothing and leave nothing; no element has two seals
\* (docs/product-specification.md:1119; seal-element.ts:11-33).
THEOREM PrintedPagesCarryTheirSeal == PrintSpec => []PrintedPageCarriesItsSeal
<1>1. PrintInv => PrintedPageCarriesItsSeal
  <2> SUFFICES ASSUME PrintInv PROVE PrintedPageCarriesItsSeal
    OBVIOUS
  <2>1. ASSUME NEW t \in Targets
        PROVE  /\ Len(seals[t]) <= 1
               /\ \A i \in 1..Len(seals[t]) :
                    preparation[seals[t][i]].phase = "prepared" /\ preparation[seals[t][i]].target = t
    <3>1. CASE seals[t] = <<>>
      BY <3>1
    <3>2. ASSUME NEW p \in Preparations, seals[t] = <<p>>, Prepared(p), preparation[p].target = t
          PROVE  /\ Len(seals[t]) <= 1
                 /\ \A i \in 1..Len(seals[t]) :
                      preparation[seals[t][i]].phase = "prepared" /\ preparation[seals[t][i]].target = t
      BY <3>2 DEF Prepared
    <3> QED
      BY <3>1, <3>2 DEF PrintInv, SealsOK
  <2>2. PrintTypeOK
    BY DEF PrintInv, PrintsOK, PrintTypeOK
  <2>3. \A print \in prints :
          /\ preparation[print.by].phase = "prepared" /\ print.style = 1
          /\ print.within = "prepareAndPrint" => print.shown = {print.by}
    BY DEF PrintInv, PrintsOK, Prepared
  <2> QED
    BY <2>1, <2>2, <2>3 DEF PrintedPageCarriesItsSeal
<1> QED
  BY <1>1, PrintStarts, PrintInvIsInductive, PTL DEF PrintSpec
-----------------------------------------------------------------------------
(* The admin service *)

Phases == {"fetching", "reading", "storing", "stored", "looking", "answered"}

\* The requests whose token has to be verified.
Call == [phase : Phases, reply : Nat, since : Nat, broken : BOOLEAN, route : Routes, token : Tokens, csrf : BOOLEAN,
         wellFormed : BOOLEAN, document : AdminDocuments, status : AdminStates, inScope : BOOLEAN]

OperationStates == {Idle} \cup [phase : {"turned"}, reply : Nat] \cup Call

\* The same request, at another point of handle().
SameRequest(op, before) ==
  op.route = before.route /\ op.token = before.token /\ op.csrf = before.csrf /\ op.since = before.since

AdminTypes ==
  /\ AdminTypeOK
  /\ operation \in [Operations -> OperationStates]
  /\ keySet \in [keys : SUBSET ProviderKeys, at : Nat]
  /\ fetch \in [phase : {"none", "asked", "produced"}, began : Nat, keys : SUBSET ProviderKeys]
  /\ servedUntil \in [ProviderKeys -> Nat] /\ adminClock \in Nat

\* A withdrawn key was withdrawn in the past; a key on its way was served after the fetch began; a fetched
\* key was served at most the time of a fetch before it arrived.
KeysWereServed ==
  /\ \A k \in ProviderKeys : servedUntil[k] <= adminClock
  /\ fetch.began <= adminClock
  /\ \A k \in fetch.keys : fetch.began <= Served(k)
  /\ \A k \in keySet.keys : keySet.at <= Served(k) + FetchTimeout

\* What authorizeAdmin() and jwtVerify() had established about a request when it was let through.
LetThrough(op) ==
  /\ "admin" \in op.token.roles /\ op.csrf
  /\ op.since < op.token.expires
  /\ op.since < Served(op.token.key) + CacheMaxAge + FetchTimeout

\* The phase of a request, how often it is in the trail, and whether its change took effect.
Handled(op, entries, took) ==
  /\ op.phase \in {"idle", "turned", "fetching", "reading", "storing", "looking"} => entries = 0 /\ ~took
  /\ op.phase \in {"storing", "stored"} => op.route = "transition"
  /\ op.phase = "looking" => op.route = "lookup"
  /\ op.phase = "stored" => entries = 0 /\ took
  /\ op.phase = "answered" =>
       /\ entries = 0 \/ entries = 1
       /\ took => op.route = "transition" /\ ((op.reply = 201 /\ entries = 1) \/ (op.reply = 500 /\ entries = 0))
       /\ entries = 1 /\ op.route = "transition" => took

\* A change is stored for a request that was let through.
Authorised(op, took) ==
  took \/ (op.phase \in {"reading", "storing", "stored"} /\ op.route = "transition") => LetThrough(op)

AdminInv ==
  /\ AdminTypes
  /\ KeysWereServed
  /\ \A o \in Operations : Handled(operation[o], Entries(o), o \in changed)
  /\ \A o \in Operations : Authorised(operation[o], o \in changed)

LEMMA AdminStarts == AdminInit => AdminInv
<1> SUFFICES ASSUME AdminInit PROVE AdminInv
  OBVIOUS
<1> USE DEF AdminInit
<1>1. AdminTypes
  BY AdminBounds DEF AdminTypes, AdminTypeOK, OperationStates, NoFetch
<1>2. KeysWereServed
  BY AdminBounds DEF KeysWereServed, NoFetch
<1>3. \A o \in Operations : Entries(o) = 0
  <2> SUFFICES ASSUME NEW o \in Operations PROVE Entries(o) = 0
    OBVIOUS
  <2>1. {i \in 1..Len(trail) : trail[i] = o} = {}
    OBVIOUS
  <2> QED
    BY <2>1, FS_EmptySet DEF Entries
<1>4. \A o \in Operations : operation[o].phase = "idle" /\ o \notin changed
  BY DEF Idle
<1> QED
  BY <1>1, <1>2, <1>3, <1>4 DEF AdminInv, Handled, Authorised

\* An entry in the trail counts once, for its own operation.
LEMMA AuditedOnce ==
  ASSUME trail \in Seq(Operations), NEW o \in Operations, Audit(o)
  PROVE  /\ trail' \in Seq(Operations)
         /\ \A p \in Operations : Entries(p) \in Nat /\ Entries(p)' = Entries(p) + (IF p = o THEN 1 ELSE 0)
<1>1. /\ trail' \in Seq(Operations) /\ Len(trail') = Len(trail) + 1 /\ Len(trail) \in Nat
      /\ \A i \in 1..Len(trail) : trail'[i] = trail[i]
      /\ trail'[Len(trail) + 1] = o
  BY DEF Audit
<1> SUFFICES ASSUME NEW p \in Operations
             PROVE  Entries(p) \in Nat /\ Entries(p)' = Entries(p) + (IF p = o THEN 1 ELSE 0)
  BY <1>1
<1> DEFINE before == {i \in 1..Len(trail) : trail[i] = p}
           after == {i \in 1..Len(trail') : trail'[i] = p}
           last == Len(trail) + 1
<1>2. IsFiniteSet(before)
  <2>1. IsFiniteSet(1..Len(trail))
    BY <1>1, FS_Interval
  <2> QED
    BY <2>1, FS_Subset
<1>3. Cardinality(before) \in Nat
  BY <1>2, FS_CardinalityType
<1>4. last \notin before
  BY <1>1
<1>5. after = IF p = o THEN before \cup {last} ELSE before
  <2>1. \A i : i \in after <=> i \in before \/ (i = last /\ p = o)
    BY <1>1
  <2> HIDE DEF before, after, last
  <2> QED
    BY <2>1
<1>6. Cardinality(before \cup {last}) = Cardinality(before) + 1
  <2> HIDE DEF before, last
  <2> QED
    BY <1>2, <1>4, FS_AddElement
<1>7. Entries(p) = Cardinality(before) /\ Entries(p)' = Cardinality(after)
  BY DEF Entries
<1> HIDE DEF before, after, last
<1> QED
  BY <1>3, <1>5, <1>6, <1>7

LEMMA EntriesStay ==
  ASSUME UNCHANGED trail
  PROVE  \A p \in Operations : Entries(p)' = Entries(p)
BY DEF Entries

LEMMA AnsweredFacts ==
  ASSUME NEW op \in Call, NEW code \in Nat
  PROVE  /\ Answered(op, code) \in Call /\ SameRequest(Answered(op, code), op)
         /\ Answered(op, code).phase = "answered" /\ Answered(op, code).reply = code
BY DEF Answered, Call, Phases, SameRequest

LEMMA MovedFacts ==
  ASSUME NEW op \in Call, NEW phase \in Phases
  PROVE  /\ [op EXCEPT !.phase = phase] \in Call /\ SameRequest([op EXCEPT !.phase = phase], op)
         /\ [op EXCEPT !.phase = phase].phase = phase
BY DEF Call, SameRequest

\* What the keys decide about a request whose token is looked at now.
LEMMA DecideIsSound ==
  ASSUME AdminTypes, NEW op \in Call, op.phase = "fetching", NEW keys
  PROVE  /\ Decide(op, keys) \in Call
         /\ Decide(op, keys).phase \in {"reading", "looking", "answered"}
         /\ Decide(op, keys).phase = "looking" => Decide(op, keys).route = "lookup"
         /\ Decide(op, keys).phase = "reading" /\ Decide(op, keys).route = "transition" =>
              /\ "admin" \in Decide(op, keys).token.roles /\ Decide(op, keys).csrf
              /\ Decide(op, keys).since = adminClock /\ adminClock < Decide(op, keys).token.expires
              /\ Decide(op, keys).token.key \in keys
<1> DEFINE known == [op EXCEPT !.since = adminClock]
<1>1. /\ known \in Call /\ known.route = op.route /\ known.token = op.token /\ known.csrf = op.csrf
      /\ known.since = adminClock
  BY DEF Call, AdminTypes
<1>2. \A code \in {200, 400, 401, 403} : \A c \in {op, known} :
        Answered(c, code) \in Call /\ Answered(c, code).phase = "answered"
  BY <1>1, AnsweredFacts
<1> DEFINE result == Decide(op, keys)
           reading == [known EXCEPT !.phase = "reading"]
           looking == [known EXCEPT !.phase = "looking"]
<1>3. op.route \in Routes
  BY DEF Call
<1>4. \/ \E code \in {200, 400, 401, 403} : \E c \in {op, known} : result = Answered(c, code)
      \/ result = looking /\ op.route = "lookup"
      \/ result = reading /\ (op.route = "sign" \/ (op.route = "transition" /\ Authorized(op) /\ Verified(op.token, keys)))
  <2>1. CASE ~Verified(op.token, keys)
    BY <2>1 DEF Decide
  <2>2. CASE Verified(op.token, keys) /\ op.route = "session"
    BY <2>2 DEF Decide, Proceed
  <2>3. CASE Verified(op.token, keys) /\ op.route = "transition"
    BY <2>3 DEF Decide, Proceed
  <2>4. CASE Verified(op.token, keys) /\ op.route = "lookup"
    BY <2>4 DEF Decide, Proceed
  <2>5. CASE Verified(op.token, keys) /\ op.route = "sign"
    <3>1. result = IF op.csrf THEN reading ELSE Answered(op, 403)
      BY <2>5 DEF Decide, Proceed
    <3>2. CASE op.csrf
      <4>1. result = reading
        BY <3>1, <3>2
      <4> HIDE DEF result, known, reading, looking
      <4> QED
        BY <2>5, <4>1
    <3>3. CASE ~op.csrf
      <4>1. result = Answered(op, 403)
        BY <3>1, <3>3
      <4> QED
        BY <4>1
    <3> QED
      BY <3>2, <3>3
  <2> QED
    BY <1>3, <2>1, <2>2, <2>3, <2>4, <2>5 DEF Routes
<1>5. reading \in Call /\ SameRequest(reading, known) /\ reading.phase = "reading"
  <2> HIDE DEF known
  <2> QED
    BY <1>1 DEF Call, Phases, SameRequest
<1>6. looking \in Call /\ SameRequest(looking, known) /\ looking.phase = "looking"
  <2> HIDE DEF known
  <2> QED
    BY <1>1 DEF Call, Phases, SameRequest
<1> HIDE DEF result, known, reading, looking
<1>7. CASE \E code \in {200, 400, 401, 403} : \E c \in {op, known} : result = Answered(c, code)
  BY <1>7, <1>2 DEF result
<1>8. CASE result = looking /\ op.route = "lookup"
  BY <1>8, <1>1, <1>6 DEF result, SameRequest
<1>9. CASE result = reading /\ (op.route = "sign" \/ (op.route = "transition" /\ Authorized(op) /\ Verified(op.token, keys)))
  BY <1>9, <1>1, <1>5 DEF result, SameRequest, Authorized, Verified
<1> QED
  BY <1>4, <1>7, <1>8, <1>9

\* A step of one request that leaves the provider's keys and the clock alone; it may start a fetch.
LEMMA OneRequestMoves ==
  ASSUME AdminInv, NEW o \in Operations, NEW op \in OperationStates, Continue(o, op), AdminTypeOK',
         UNCHANGED <<keySet, published, servedUntil, adminClock>>,
         UNCHANGED fetch \/ fetch' = [phase |-> "asked", began |-> adminClock, keys |-> {}],
         \A p \in Operations \ {o} : Entries(p)' = Entries(p) /\ (p \in changed' <=> p \in changed),
         Handled(op, Entries(o)', o \in changed'),
         o \in changed' \/ (op.phase \in {"reading", "storing", "stored"} /\ op.route = "transition") => LetThrough(op)
  PROVE  AdminInv'
<1>1. operation' \in [Operations -> OperationStates] /\ \A p \in Operations : operation'[p] = IF p = o THEN op ELSE operation[p]
  BY DEF AdminInv, AdminTypes, Continue
<1>2. AdminTypes'
  BY <1>1 DEF AdminInv, AdminTypes
<1>3. KeysWereServed'
  <2>1. \A k : Served(k)' = Served(k)
    BY DEF Served
  <2>2. fetch'.began <= adminClock /\ \A k \in fetch'.keys : fetch'.began <= Served(k)
    BY DEF AdminInv, AdminTypes, KeysWereServed
  <2> QED
    BY <2>1, <2>2 DEF AdminInv, KeysWereServed
<1>4. \A call : LetThrough(call)' <=> LetThrough(call)
  BY DEF LetThrough, Served
<1>5. \A p \in Operations : Handled(operation[p], Entries(p), p \in changed)'
  <2>1. ASSUME NEW p \in Operations \ {o} PROVE Handled(operation[p], Entries(p), p \in changed)'
    <3>1. Handled(operation[p], Entries(p), p \in changed)
      BY DEF AdminInv
    <3>2. operation'[p] = operation[p] /\ Entries(p)' = Entries(p) /\ (p \in changed' <=> p \in changed)
      BY <1>1
    <3> QED
      BY <3>1, <3>2 DEF Handled
  <2>2. Handled(operation[o], Entries(o), o \in changed)'
    BY <1>1
  <2> QED
    BY <2>1, <2>2
<1>6. \A p \in Operations : Authorised(operation[p], p \in changed)'
  <2>1. ASSUME NEW p \in Operations \ {o} PROVE Authorised(operation[p], p \in changed)'
    <3>1. Authorised(operation[p], p \in changed)
      BY DEF AdminInv
    <3>2. operation'[p] = operation[p] /\ (p \in changed' <=> p \in changed)
      BY <1>1
    <3> QED
      BY <1>4, <3>1, <3>2 DEF Authorised
  <2>2. Authorised(operation[o], o \in changed)'
    BY <1>1, <1>4 DEF Authorised
  <2> QED
    BY <2>1, <2>2
<1> QED
  BY <1>2, <1>3, <1>5, <1>6 DEF AdminInv

\* A request is turned away before any await.
LEMMA TurnKeepsAdmin ==
  ASSUME AdminInv, NEW o \in Operations, Turn(o)
  PROVE  AdminInv'
<1>1. PICK code \in {204, 200, 403, 401, 404, 501} : Continue(o, [phase |-> "turned", reply |-> code])
  BY DEF Turn
<1> DEFINE op == [phase |-> "turned", reply |-> code]
<1>2. UNCHANGED <<records, trail, keySet, fetch, published, servedUntil, adminClock, changed>>
  BY DEF Turn
<1>3. op \in OperationStates /\ op.phase = "turned" /\ Continue(o, op)
  BY <1>1 DEF OperationStates
<1>4. Entries(o) = 0 /\ o \notin changed
  BY DEF AdminInv, Handled, Turn
<1>5. AdminTypeOK'
  BY <1>2 DEF AdminInv, AdminTypes, AdminTypeOK
<1>6. \A p \in Operations : Entries(p)' = Entries(p) /\ (p \in changed' <=> p \in changed)
  BY <1>2, EntriesStay
<1> HIDE DEF op
<1>7. Handled(op, Entries(o)', o \in changed')
  BY <1>3, <1>4, <1>6 DEF Handled
<1> QED
  BY <1>2, <1>3, <1>4, <1>5, <1>6, <1>7, OneRequestMoves

\* A key that verifies a token at once was served less than CacheMaxAge and the time of a fetch ago.
LEMMA VerifiedKeysWereServed ==
  ASSUME AdminInv, Fresh
  PROVE  \A k \in keySet.keys : adminClock < Served(k) + CacheMaxAge + FetchTimeout
<1>1. /\ keySet.at \in Nat /\ adminClock \in Nat /\ CacheMaxAge \in Nat /\ FetchTimeout \in Nat
      /\ keySet.keys \subseteq ProviderKeys
  BY AdminBounds DEF AdminInv, AdminTypes
<1>2. \A k \in ProviderKeys : Served(k) \in Nat
  BY <1>1 DEF AdminInv, AdminTypes, Served
<1> QED
  BY <1>1, <1>2 DEF AdminInv, KeysWereServed, Fresh

\* A request comes with a token.
LEMMA AskKeepsAdmin ==
  ASSUME AdminInv, NEW o \in Operations, NEW asked \in Asks, Ask(o, asked)
  PROVE  AdminInv'
<1> DEFINE op == [phase |-> "fetching", reply |-> 0, since |-> 0, broken |-> FALSE,
                  route |-> asked.route, token |-> asked.token, csrf |-> asked.csrf, wellFormed |-> asked.wellFormed,
                  document |-> asked.document, status |-> asked.status, inScope |-> asked.inScope]
           decided == Decide(op, keySet.keys)
<1>1. asked \in Asked
  BY AdminAsks
<1>2. op \in Call /\ op.phase = "fetching"
  BY <1>1 DEF Asked, Call, Phases
<1>3. UNCHANGED <<records, trail, keySet, published, servedUntil, adminClock, changed>>
  BY DEF Ask
<1> DEFINE started == [phase |-> "asked", began |-> adminClock, keys |-> {}]
<1>4. \/ Continue(o, op) /\ (fetch' = started \/ UNCHANGED fetch)
      \/ Continue(o, decided) /\ Fresh /\ UNCHANGED fetch
  BY DEF Ask
<1>5. AdminTypes /\ Entries(o) = 0 /\ o \notin changed
  BY DEF AdminInv, Handled, Ask
<1>6. AdminTypeOK'
  BY <1>3 DEF AdminInv, AdminTypes, AdminTypeOK
<1>7. \A p \in Operations : Entries(p)' = Entries(p) /\ (p \in changed' <=> p \in changed)
  BY <1>3, EntriesStay
<1> HIDE DEF op
<1>8. CASE Continue(o, op) /\ (fetch' = started \/ UNCHANGED fetch)
  <2>1. Handled(op, Entries(o)', o \in changed')
    BY <1>2, <1>5, <1>7 DEF Handled
  <2>2. op \in OperationStates
    BY <1>2 DEF OperationStates
  <2> QED
    BY <1>2, <1>3, <1>5, <1>6, <1>7, <1>8, <2>1, <2>2, OneRequestMoves
<1>9. CASE Continue(o, decided) /\ Fresh /\ UNCHANGED fetch
  <2>1. /\ decided \in Call
        /\ decided.phase \in {"reading", "looking", "answered"}
        /\ decided.phase = "looking" => decided.route = "lookup"
        /\ decided.phase = "reading" /\ decided.route = "transition" =>
             /\ "admin" \in decided.token.roles /\ decided.csrf
             /\ decided.since = adminClock /\ adminClock < decided.token.expires
             /\ decided.token.key \in keySet.keys
    BY <1>2, <1>5, DecideIsSound
  <2>2. \A k \in keySet.keys : adminClock < Served(k) + CacheMaxAge + FetchTimeout
    BY <1>9, VerifiedKeysWereServed
  <2> HIDE DEF decided
  <2>3. Handled(decided, Entries(o)', o \in changed')
    BY <2>1, <1>5, <1>7 DEF Handled
  <2>4. decided.phase = "reading" /\ decided.route = "transition" => LetThrough(decided)
    BY <2>1, <2>2 DEF LetThrough
  <2>5. decided \in OperationStates
    BY <2>1 DEF OperationStates
  <2> QED
    BY <1>3, <1>5, <1>6, <1>7, <1>9, <2>1, <2>3, <2>4, <2>5, OneRequestMoves
<1> QED
  BY <1>4, <1>8, <1>9

\* A fetch ends: every request that waits for keys is decided with them, or fails.
LEMMA WaitingRequestsMove ==
  ASSUME AdminInv, UNCHANGED <<records, trail, published, servedUntil, adminClock, changed>>,
         fetch' = NoFetch, KeysWereServed', keySet' \in [keys : SUBSET ProviderKeys, at : Nat], AdminTypeOK',
         DOMAIN operation' = Operations,
         \A o \in Operations : operation[o].phase # "fetching" => operation'[o] = operation[o],
         \A o \in Operations : operation[o].phase = "fetching" =>
           /\ operation'[o] \in Call
           /\ operation'[o].phase \in {"reading", "looking", "answered"}
           /\ operation'[o].phase = "looking" => operation'[o].route = "lookup"
           /\ operation'[o].phase = "reading" /\ operation'[o].route = "transition" => LetThrough(operation'[o]),
         operation' = [o \in Operations |-> operation'[o]]
  PROVE  AdminInv'
<1>1. \A o \in Operations : operation'[o] \in OperationStates
  BY DEF AdminInv, AdminTypes, OperationStates
<1>2. AdminTypes'
  BY <1>1 DEF AdminInv, AdminTypes, NoFetch
<1>3. \A call : LetThrough(call)' <=> LetThrough(call)
  BY DEF LetThrough, Served
<1>4. \A o \in Operations : Entries(o)' = Entries(o)
  BY EntriesStay
<1>5. ASSUME NEW o \in Operations PROVE Handled(operation[o], Entries(o), o \in changed)'
  <2>1. Handled(operation[o], Entries(o), o \in changed)
    BY DEF AdminInv
  <2>2. CASE operation[o].phase = "fetching"
    BY <1>4, <2>1, <2>2 DEF Handled
  <2>3. CASE operation[o].phase # "fetching"
    BY <1>4, <2>1, <2>3 DEF Handled
  <2> QED
    BY <2>2, <2>3
<1>6. ASSUME NEW o \in Operations PROVE Authorised(operation[o], o \in changed)'
  <2>1. Authorised(operation[o], o \in changed) /\ Handled(operation[o], Entries(o), o \in changed)
    BY DEF AdminInv
  <2>2. CASE operation[o].phase = "fetching"
    <3>1. o \notin changed'
      BY <2>1, <2>2 DEF Handled
    <3> QED
      BY <1>3, <2>2, <3>1 DEF Authorised
  <2>3. CASE operation[o].phase # "fetching"
    BY <1>3, <2>1, <2>3 DEF Authorised
  <2> QED
    BY <2>2, <2>3
<1> QED
  BY <1>2, <1>5, <1>6 DEF AdminInv

LEMMA KeysArriveKeepsAdmin ==
  ASSUME AdminInv, KeysArrive
  PROVE  AdminInv'
<1>1. /\ UNCHANGED <<records, trail, published, servedUntil, adminClock, changed>>
      /\ fetch' = NoFetch
      /\ keySet' = [keys |-> fetch.keys, at |-> adminClock]
      /\ operation' = [o \in Operations |-> IF operation[o].phase = "fetching" THEN Decide(operation[o], fetch.keys)
                                            ELSE operation[o]]
  BY DEF KeysArrive
<1>2. AdminTypes /\ KeysWereServed
  BY DEF AdminInv
<1>3. /\ fetch.keys \subseteq ProviderKeys /\ fetch.began \in Nat
      /\ \A k \in ProviderKeys : Served(k) \in Nat /\ Served(k)' = Served(k)
  BY <1>1, <1>2 DEF AdminTypes, Served
<1>4. \A k \in fetch.keys : Served(k) \in Nat /\ adminClock \in Nat /\ adminClock <= Served(k) + FetchTimeout
  BY <1>2, <1>3, AdminBounds DEF AdminTypes, KeysWereServed, KeysArrive, InTime
<1>8. KeysWereServed'
  BY <1>1, <1>2, <1>3, <1>4 DEF AdminTypes, KeysWereServed, NoFetch
<1>9. AdminTypeOK' /\ keySet' \in [keys : SUBSET ProviderKeys, at : Nat]
  BY <1>1, <1>2, <1>3 DEF AdminTypes, AdminTypeOK
<1>5. ASSUME NEW o \in Operations, operation[o].phase = "fetching"
      PROVE  /\ operation'[o] \in Call
             /\ operation'[o].phase \in {"reading", "looking", "answered"}
             /\ operation'[o].phase = "looking" => operation'[o].route = "lookup"
             /\ operation'[o].phase = "reading" /\ operation'[o].route = "transition" => LetThrough(operation'[o])
  <2> DEFINE decided == Decide(operation[o], fetch.keys)
  <2>1. operation[o] \in Call
    BY <1>2, <1>5 DEF AdminTypes, OperationStates, Idle
  <2>2. /\ decided \in Call
        /\ decided.phase \in {"reading", "looking", "answered"}
        /\ decided.phase = "looking" => decided.route = "lookup"
        /\ decided.phase = "reading" /\ decided.route = "transition" =>
             /\ "admin" \in decided.token.roles /\ decided.csrf
             /\ decided.since = adminClock /\ adminClock < decided.token.expires
             /\ decided.token.key \in fetch.keys
    BY <1>2, <1>5, <2>1, DecideIsSound
  <2>3. operation'[o] = decided
    BY <1>1, <1>5
  <2> HIDE DEF decided
  <2>4. \A k \in fetch.keys : adminClock < Served(k) + CacheMaxAge + FetchTimeout
    BY <1>4, AdminBounds
  <2> QED
    BY <2>2, <2>3, <2>4 DEF LetThrough
<1>6. \A o \in Operations : operation[o].phase # "fetching" => operation'[o] = operation[o]
  BY <1>1
<1>7. DOMAIN operation' = Operations /\ operation' = [o \in Operations |-> operation'[o]]
  BY <1>1
<1> QED
  BY <1>1, <1>5, <1>6, <1>7, <1>8, <1>9, WaitingRequestsMove

LEMMA KeysFailKeepsAdmin ==
  ASSUME AdminInv, KeysFail
  PROVE  AdminInv'
<1>1. /\ UNCHANGED <<records, trail, published, servedUntil, adminClock, changed, keySet>> /\ fetch' = NoFetch
      /\ operation' = [o \in Operations |-> IF operation[o].phase = "fetching" THEN Answered(operation[o], 401)
                                            ELSE operation[o]]
  BY DEF KeysFail
<1>2. AdminTypes
  BY DEF AdminInv
<1>3. KeysWereServed'
  BY <1>1, <1>2 DEF AdminInv, AdminTypes, KeysWereServed, Served, NoFetch
<1>4. AdminTypeOK' /\ keySet' \in [keys : SUBSET ProviderKeys, at : Nat]
  BY <1>1, <1>2 DEF AdminTypes, AdminTypeOK
<1>5. ASSUME NEW o \in Operations, operation[o].phase = "fetching"
      PROVE  operation'[o] \in Call /\ operation'[o].phase = "answered"
  <2>1. operation[o] \in Call
    BY <1>2, <1>5 DEF AdminTypes, OperationStates, Idle
  <2>2. Answered(operation[o], 401) \in Call /\ Answered(operation[o], 401).phase = "answered"
    BY <2>1, AnsweredFacts
  <2> QED
    BY <1>1, <1>5, <2>2
<1>6. \A o \in Operations : operation[o].phase # "fetching" => operation'[o] = operation[o]
  BY <1>1
<1>7. DOMAIN operation' = Operations /\ operation' = [o \in Operations |-> operation'[o]]
  BY <1>1
<1> QED
  BY <1>1, <1>3, <1>4, <1>5, <1>6, <1>7, WaitingRequestsMove

\* A request moves on or is answered without a change in the repository; the audit sink may be given an
\* entry.
LEMMA RequestMovesOn ==
  ASSUME AdminInv, NEW o \in Operations, NEW op \in Call, Continue(o, op), SameRequest(op, operation[o]),
         UNCHANGED <<records, keySet, fetch, published, servedUntil, adminClock, changed>>,
         Audit(o) \/ UNCHANGED trail,
         Handled(op, Entries(o)', o \in changed),
         op.phase \in {"reading", "storing", "stored"} => operation[o].phase \in {"reading", "storing", "stored"}
  PROVE  AdminInv'
<1>1. AdminTypes
  BY DEF AdminInv
<1>2. trail \in Seq(Operations)
  BY <1>1 DEF AdminTypes, AdminTypeOK
<1>3. trail' \in Seq(Operations) /\ \A p \in Operations \ {o} : Entries(p)' = Entries(p)
  <2>1. CASE UNCHANGED trail
    BY <1>2, <2>1, EntriesStay
  <2>2. CASE Audit(o)
    BY <1>2, <2>2, AuditedOnce
  <2> QED
    BY <2>1, <2>2
<1>4. AdminTypeOK'
  BY <1>1, <1>3 DEF AdminTypes, AdminTypeOK
<1>5. op \in OperationStates
  BY DEF OperationStates
<1>6. o \in changed' \/ (op.phase \in {"reading", "storing", "stored"} /\ op.route = "transition") => LetThrough(op)
  <2>1. Authorised(operation[o], o \in changed)
    BY DEF AdminInv
  <2>2. LetThrough(operation[o]) => LetThrough(op)
    BY DEF SameRequest, LetThrough
  <2> QED
    BY <2>1, <2>2 DEF Authorised, SameRequest
<1>7. Handled(op, Entries(o)', o \in changed')
  OBVIOUS
<1>8. \A p \in Operations \ {o} : Entries(p)' = Entries(p) /\ (p \in changed' <=> p \in changed)
  BY <1>3
<1> QED
  BY <1>4, <1>5, <1>6, <1>7, <1>8, OneRequestMoves

\* What a request was before it moves.
LEMMA BeforeItMoves ==
  ASSUME AdminInv, NEW o \in Operations, operation[o].phase \in Phases
  PROVE  /\ operation[o] \in Call /\ Handled(operation[o], Entries(o), o \in changed)
         /\ trail \in Seq(Operations)
BY DEF AdminInv, AdminTypes, AdminTypeOK, OperationStates, Idle, Phases

LEMMA ReadKeepsAdmin ==
  ASSUME AdminInv, NEW o \in Operations, Read(o)
  PROVE  AdminInv'
<1> DEFINE op == operation[o]
<1>1. /\ op.phase = "reading"
      /\ UNCHANGED <<records, keySet, fetch, published, servedUntil, adminClock, changed>>
  BY DEF Read
<1>2. op \in Call /\ trail \in Seq(Operations) /\ Entries(o) = 0 /\ o \notin changed
  BY <1>1, BeforeItMoves DEF Handled, Phases
<1>3. ASSUME NEW code \in Nat, Continue(o, Answered(op, code)), UNCHANGED trail
      PROVE  AdminInv'
  <2> DEFINE next == Answered(op, code)
  <2>1. next \in Call /\ SameRequest(next, op) /\ next.phase = "answered"
    BY <1>2, AnsweredFacts
  <2>2. Entries(o)' = 0
    BY <1>2, <1>3, EntriesStay
  <2>3. Continue(o, next)
    BY <1>3
  <2> HIDE DEF next
  <2>4. Handled(next, Entries(o)', o \in changed)
    BY <1>2, <2>1, <2>2 DEF Handled
  <2> QED
    BY <1>1, <1>3, <2>1, <2>3, <2>4, RequestMovesOn
<1>4. ASSUME op.route = "transition", Continue(o, [op EXCEPT !.phase = "storing"]), UNCHANGED trail
      PROVE  AdminInv'
  <2> DEFINE next == [op EXCEPT !.phase = "storing"]
  <2>1. next \in Call /\ SameRequest(next, op) /\ next.phase = "storing"
    BY <1>2 DEF Call, Phases, SameRequest
  <2>2. Entries(o)' = 0
    BY <1>2, <1>4, EntriesStay
  <2>3. Continue(o, next)
    BY <1>4
  <2> HIDE DEF next
  <2>4. Handled(next, Entries(o)', o \in changed)
    BY <1>2, <1>4, <2>1, <2>2 DEF Handled, SameRequest
  <2> QED
    BY <1>1, <1>4, <2>1, <2>3, <2>4, RequestMovesOn
<1>5. ASSUME op.route = "sign", Continue(o, Answered(op, 200)), Audit(o)
      PROVE  AdminInv'
  <2> DEFINE next == Answered(op, 200)
  <2>1. next \in Call /\ SameRequest(next, op) /\ next.phase = "answered"
    BY <1>2, AnsweredFacts
  <2>2. Entries(o)' = 1
    BY <1>2, <1>5, AuditedOnce
  <2>3. Continue(o, next)
    BY <1>5
  <2> HIDE DEF next
  <2>4. Handled(next, Entries(o)', o \in changed)
    BY <1>2, <1>5, <2>1, <2>2 DEF Handled, SameRequest
  <2> QED
    BY <1>1, <1>5, <2>1, <2>3, <2>4, RequestMovesOn
<1>6. \/ \E code \in Nat : Continue(o, Answered(op, code)) /\ UNCHANGED trail
      \/ op.route = "transition" /\ Continue(o, [op EXCEPT !.phase = "storing"]) /\ UNCHANGED trail
      \/ op.route = "sign" /\ Continue(o, Answered(op, 200)) /\ Audit(o)
  <2>1. Refusals(op) \subseteq Nat
    BY DEF Refusals
  <2> QED
    BY <2>1 DEF Read
<1> QED
  BY <1>3, <1>4, <1>5, <1>6

LEMMA LeaveKeepsAdmin ==
  ASSUME AdminInv, NEW o \in Operations, Leave(o)
  PROVE  AdminInv'
<1> DEFINE op == operation[o]
<1>1. /\ op.phase \in {"fetching", "reading"}
      /\ UNCHANGED <<records, trail, keySet, fetch, published, servedUntil, adminClock, changed>>
  BY DEF Leave
<1>2. op \in Call /\ Entries(o) = 0 /\ o \notin changed
  BY <1>1, BeforeItMoves DEF Handled, Phases
<1>3. Entries(o)' = 0
  BY <1>1, <1>2, EntriesStay
<1> DEFINE broken == [op EXCEPT !.broken = TRUE]
           next == IF op.phase = "reading" THEN Answered(op, 400) ELSE broken
<1>4. Answered(op, 400) \in Call /\ SameRequest(Answered(op, 400), op) /\ Answered(op, 400).phase = "answered"
  BY <1>2, AnsweredFacts
<1>5. next \in Call /\ SameRequest(next, op) /\ next.phase \in {"answered", "fetching"}
  <2>1. CASE op.phase = "reading"
    BY <1>4, <2>1
  <2>2. CASE op.phase = "fetching"
    <3>1. broken \in Call /\ broken.phase = op.phase
      BY <1>2 DEF Call
    <3>2. SameRequest(broken, op)
      BY <1>2 DEF Call, SameRequest
    <3>3. next = broken
      BY <2>2
    <3> HIDE DEF broken, next
    <3> QED
      BY <2>2, <3>1, <3>2, <3>3
  <2> QED
    BY <1>1, <2>1, <2>2
<1>6. Continue(o, next)
  BY DEF Leave
<1> HIDE DEF next
<1>7. Handled(next, Entries(o)', o \in changed)
  BY <1>2, <1>3, <1>5 DEF Handled
<1> QED
  BY <1>1, <1>5, <1>6, <1>7, RequestMovesOn

LEMMA StoreKeepsAdmin ==
  ASSUME AdminInv, NEW o \in Operations, Store(o)
  PROVE  AdminInv'
<1> DEFINE op == operation[o]
           next == [op EXCEPT !.phase = "stored"]
<1>1. /\ op.phase = "storing"
      /\ records' = [records EXCEPT ![op.document] = op.status]
      /\ changed' = changed \cup {o}
      /\ Continue(o, next)
      /\ UNCHANGED <<trail, keySet, fetch, published, servedUntil, adminClock>>
  BY DEF Store
<1>2. op \in Call /\ Entries(o) = 0 /\ op.route = "transition"
  BY <1>1, BeforeItMoves DEF Handled, Phases
<1>3. next \in Call /\ SameRequest(next, op) /\ next.phase = "stored"
  BY <1>2 DEF Call, Phases, SameRequest
<1>4. AdminTypeOK'
  BY <1>1, <1>2 DEF AdminInv, AdminTypes, AdminTypeOK, Call
<1>5. LetThrough(next)
  <2>1. LetThrough(op)
    BY <1>1, <1>2 DEF AdminInv, Authorised
  <2> HIDE DEF next
  <2> QED
    BY <1>3, <2>1 DEF SameRequest, LetThrough
<1> HIDE DEF next
<1>6. \A p \in Operations \ {o} : Entries(p)' = Entries(p) /\ (p \in changed' <=> p \in changed)
  BY <1>1, EntriesStay
<1>7. Handled(next, Entries(o)', o \in changed')
  <2>1. Entries(o)' = 0 /\ o \in changed'
    BY <1>1, <1>2, EntriesStay
  <2> QED
    BY <1>2, <1>3, <2>1 DEF Handled, SameRequest
<1>8. next \in OperationStates
  BY <1>3 DEF OperationStates
<1> QED
  BY <1>1, <1>4, <1>5, <1>6, <1>7, <1>8, OneRequestMoves

LEMMA RecordKeepsAdmin ==
  ASSUME AdminInv, NEW o \in Operations, Record(o)
  PROVE  AdminInv'
<1> DEFINE op == operation[o]
           next == Answered(op, 201)
<1>1. /\ op.phase = "stored" /\ Audit(o) /\ Continue(o, next)
      /\ UNCHANGED <<records, keySet, fetch, published, servedUntil, adminClock, changed>>
  BY DEF Record
<1>2. op \in Call /\ Entries(o) = 0 /\ op.route = "transition" /\ o \in changed /\ trail \in Seq(Operations)
  BY <1>1, BeforeItMoves DEF Handled, Phases
<1>3. next \in Call /\ SameRequest(next, op) /\ next.phase = "answered" /\ next.reply = 201
  BY <1>2, AnsweredFacts
<1>4. Entries(o)' = 1
  BY <1>1, <1>2, AuditedOnce
<1> HIDE DEF next
<1>5. Handled(next, Entries(o)', o \in changed)
  BY <1>2, <1>3, <1>4 DEF Handled, SameRequest
<1> QED
  BY <1>1, <1>3, <1>5, RequestMovesOn

LEMMA LookKeepsAdmin ==
  ASSUME AdminInv, NEW o \in Operations, Look(o)
  PROVE  AdminInv'
<1> DEFINE op == operation[o]
           next == Answered(op, 200)
<1>1. /\ op.phase = "looking" /\ Audit(o) /\ Continue(o, next)
      /\ UNCHANGED <<records, keySet, fetch, published, servedUntil, adminClock, changed>>
  BY DEF Look
<1>2. op \in Call /\ Entries(o) = 0 /\ op.route = "lookup" /\ o \notin changed /\ trail \in Seq(Operations)
  BY <1>1, BeforeItMoves DEF Handled, Phases
<1>3. next \in Call /\ SameRequest(next, op) /\ next.phase = "answered"
  BY <1>2, AnsweredFacts
<1>4. Entries(o)' = 1
  BY <1>1, <1>2, AuditedOnce
<1> HIDE DEF next
<1>5. Handled(next, Entries(o)', o \in changed)
  BY <1>2, <1>3, <1>4 DEF Handled, SameRequest
<1> QED
  BY <1>1, <1>3, <1>5, RequestMovesOn

LEMMA FailKeepsAdmin ==
  ASSUME AdminInv, NEW o \in Operations, Fail(o)
  PROVE  AdminInv'
<1> DEFINE op == operation[o]
           next == Answered(op, 500)
<1>1. /\ op.phase \in {"storing", "stored", "looking"} /\ Continue(o, next)
      /\ UNCHANGED <<records, trail, keySet, fetch, published, servedUntil, adminClock, changed>>
  BY DEF Fail
<1>2. /\ op \in Call /\ Entries(o) = 0
      /\ o \in changed => op.route = "transition"
  BY <1>1, BeforeItMoves DEF Handled, Phases
<1>3. next \in Call /\ SameRequest(next, op) /\ next.phase = "answered" /\ next.reply = 500
  BY <1>2, AnsweredFacts
<1>4. Entries(o)' = 0
  BY <1>1, <1>2, EntriesStay
<1> HIDE DEF next
<1>5. Handled(next, Entries(o)', o \in changed)
  BY <1>2, <1>3, <1>4 DEF Handled, SameRequest
<1> QED
  BY <1>1, <1>3, <1>5, RequestMovesOn

\* The provider replaces its key, or time passes: what was served stays served as recently.
LEMMA OutsideKeepsAdmin ==
  ASSUME AdminInv, UNCHANGED <<operation, records, trail, keySet, fetch, changed>>, AdminTypeOK',
         servedUntil' \in [ProviderKeys -> Nat], adminClock' \in Nat,
         adminClock <= adminClock', \A k \in ProviderKeys : servedUntil'[k] <= adminClock',
         \A k \in ProviderKeys : Served(k) <= Served(k)'
  PROVE  AdminInv'
<1>1. AdminTypes'
  BY DEF AdminInv, AdminTypes
<1>2. \A k \in ProviderKeys : Served(k) \in Nat /\ Served(k)' \in Nat
  BY DEF AdminInv, AdminTypes, Served
<1>3. /\ keySet.at \in Nat /\ keySet.keys \subseteq ProviderKeys /\ CacheMaxAge \in Nat /\ FetchTimeout \in Nat
      /\ fetch.began \in Nat /\ fetch.keys \subseteq ProviderKeys /\ adminClock \in Nat
  BY AdminBounds DEF AdminInv, AdminTypes
<1>4. KeysWereServed'
  BY <1>2, <1>3 DEF AdminInv, KeysWereServed
<1>5. ASSUME NEW op \in Call, LetThrough(op) PROVE LetThrough(op)'
  <2>1. op.since \in Nat /\ op.token.key \in ProviderKeys
    BY DEF Call, Tokens
  <2> QED
    BY <1>2, <1>3, <1>5, <2>1 DEF LetThrough
<1>6. ASSUME NEW o \in Operations
      PROVE  Handled(operation[o], Entries(o), o \in changed)' /\ Authorised(operation[o], o \in changed)'
  <2>1. /\ Handled(operation[o], Entries(o), o \in changed) /\ Authorised(operation[o], o \in changed)
        /\ operation[o] \in OperationStates
    BY DEF AdminInv, AdminTypes
  <2>2. Handled(operation[o], Entries(o), o \in changed)'
    BY <2>1, EntriesStay DEF Handled
  <2>3. o \in changed \/ operation[o].phase \in {"reading", "storing", "stored"} => operation[o] \in Call
    BY <2>1 DEF Handled, OperationStates, Idle
  <2> QED
    BY <1>5, <2>1, <2>2, <2>3 DEF Authorised
<1> QED
  BY <1>1, <1>4, <1>6 DEF AdminInv

LEMMA RotateKeepsAdmin ==
  ASSUME AdminInv, Rotate
  PROVE  AdminInv'
<1>1. /\ UNCHANGED <<operation, records, trail, keySet, fetch, adminClock, changed>>
      /\ published' \subseteq ProviderKeys
      /\ servedUntil' = [k \in ProviderKeys |-> IF k \in published THEN adminClock ELSE servedUntil[k]]
  BY DEF Rotate
<1>2. AdminTypes /\ KeysWereServed
  BY DEF AdminInv
<1>3. AdminTypeOK'
  BY <1>1, <1>2 DEF AdminTypes, AdminTypeOK
<1>4. servedUntil' \in [ProviderKeys -> Nat] /\ adminClock' \in Nat
  BY <1>1, <1>2 DEF AdminTypes
<1>5. /\ adminClock <= adminClock' /\ \A k \in ProviderKeys : servedUntil'[k] <= adminClock'
      /\ \A k \in ProviderKeys : Served(k) <= Served(k)'
  BY <1>1, <1>2 DEF AdminTypes, KeysWereServed, Served
<1> QED
  BY <1>1, <1>3, <1>4, <1>5, OutsideKeepsAdmin

LEMMA AdminTickKeepsAdmin ==
  ASSUME AdminInv, AdminTick
  PROVE  AdminInv'
<1>1. /\ UNCHANGED <<operation, records, trail, keySet, fetch, published, servedUntil, changed>>
      /\ adminClock' = adminClock + 1 /\ adminClock < AdminEnd
  BY DEF AdminTick
<1>2. AdminTypes /\ KeysWereServed
  BY DEF AdminInv
<1>3. AdminTypeOK'
  BY <1>1, <1>2, AdminBounds DEF AdminTypes, AdminTypeOK
<1>4. servedUntil' \in [ProviderKeys -> Nat] /\ adminClock' \in Nat
  BY <1>1, <1>2 DEF AdminTypes
<1>5. /\ adminClock <= adminClock' /\ \A k \in ProviderKeys : servedUntil'[k] <= adminClock'
      /\ \A k \in ProviderKeys : Served(k) <= Served(k)'
  BY <1>1, <1>2 DEF AdminTypes, KeysWereServed, Served
<1> QED
  BY <1>1, <1>3, <1>4, <1>5, OutsideKeepsAdmin

LEMMA KeysAreProducedKeepsAdmin ==
  ASSUME AdminInv, KeysAreProduced
  PROVE  AdminInv'
<1>1. /\ UNCHANGED <<operation, records, trail, keySet, published, servedUntil, adminClock, changed>>
      /\ fetch' = [fetch EXCEPT !.phase = "produced", !.keys = published]
  BY DEF KeysAreProduced
<1>2. AdminTypes /\ KeysWereServed
  BY DEF AdminInv
<1>3. published \subseteq ProviderKeys
  BY <1>2 DEF AdminTypes, AdminTypeOK
<1>4. AdminTypes'
  BY <1>1, <1>2, <1>3 DEF AdminTypes, AdminTypeOK
<1>5. fetch'.keys = published /\ fetch'.began = fetch.began /\ fetch.began <= adminClock
  BY <1>1, <1>2 DEF AdminTypes, KeysWereServed
<1>6. \A k : Served(k)' = Served(k)
  BY <1>1 DEF Served
<1>7. \A k \in published : Served(k) = adminClock
  BY DEF Served
<1>8. KeysWereServed'
  BY <1>1, <1>2, <1>5, <1>6, <1>7 DEF KeysWereServed
<1>9. ASSUME NEW o \in Operations
      PROVE  Handled(operation[o], Entries(o), o \in changed)' /\ Authorised(operation[o], o \in changed)'
  <2>1. Handled(operation[o], Entries(o), o \in changed) /\ Authorised(operation[o], o \in changed)
    BY DEF AdminInv
  <2>2. Entries(o)' = Entries(o) /\ (LetThrough(operation[o])' <=> LetThrough(operation[o]))
    BY <1>1, <1>6, EntriesStay DEF LetThrough
  <2> QED
    BY <1>1, <2>1, <2>2 DEF Handled, Authorised
<1> QED
  BY <1>4, <1>8, <1>9 DEF AdminInv

LEMMA AdminInvIsInductive == AdminInv /\ [AdminNext]_adminVars => AdminInv'
<1> SUFFICES ASSUME AdminInv, [AdminNext]_adminVars PROVE AdminInv'
  OBVIOUS
<1>1. CASE UNCHANGED adminVars
  <2>1. AdminTypes
    BY DEF AdminInv
  <2>2. AdminTypeOK' /\ servedUntil' \in [ProviderKeys -> Nat] /\ adminClock' \in Nat
    BY <1>1, <2>1 DEF adminVars, AdminTypes, AdminTypeOK
  <2>3. /\ adminClock <= adminClock' /\ \A k \in ProviderKeys : servedUntil'[k] <= adminClock'
        /\ \A k \in ProviderKeys : Served(k) <= Served(k)'
    BY <1>1, <2>1 DEF adminVars, AdminInv, AdminTypes, KeysWereServed, Served
  <2> QED
    BY <1>1, <2>2, <2>3, OutsideKeepsAdmin DEF adminVars
<1>2. ASSUME NEW o \in Operations,
             Turn(o) \/ Read(o) \/ Leave(o) \/ Store(o) \/ Record(o) \/ Look(o) \/ Fail(o) \/ \E asked \in Asks : Ask(o, asked)
      PROVE  AdminInv'
  BY <1>2, TurnKeepsAdmin, ReadKeepsAdmin, LeaveKeepsAdmin, StoreKeepsAdmin, RecordKeepsAdmin, LookKeepsAdmin, FailKeepsAdmin,
     AskKeepsAdmin
<1>3. CASE KeysAreProduced \/ KeysArrive \/ KeysFail \/ Rotate \/ AdminTick
  BY <1>3, KeysAreProducedKeepsAdmin, KeysArriveKeepsAdmin, KeysFailKeepsAdmin, RotateKeepsAdmin, AdminTickKeepsAdmin
<1> QED
  BY <1>1, <1>2, <1>3 DEF AdminNext

\* A change that took effect is in the audit trail once, is still being handled, or its caller was told
\* that it failed; what the trail reports as a change took effect; a caller told 201 has both, whatever
\* the repository, the sink and the provider do between the steps (server.ts:119-126).
THEOREM EveryChangeIsAudited == AdminSpec => []ChangesAreAudited
<1>1. AdminInv => ChangesAreAudited
  <2> SUFFICES ASSUME AdminInv PROVE ChangesAreAudited
    OBVIOUS
  <2>1. AdminTypeOK
    BY DEF AdminInv, AdminTypes
  <2>2. ASSUME NEW o \in Operations
        PROVE  /\ Entries(o) <= 1
               /\ o \in changed => \/ operation[o].phase = "stored" /\ Entries(o) = 0
                                   \/ operation[o].phase = "answered" /\ operation[o].reply = 201 /\ Entries(o) = 1
                                   \/ operation[o].phase = "answered" /\ operation[o].reply = 500 /\ Entries(o) = 0
               /\ Entries(o) = 1 /\ operation[o].route = "transition" => o \in changed
    <3>1. Handled(operation[o], Entries(o), o \in changed) /\ operation[o] \in OperationStates
      BY DEF AdminInv, AdminTypes
    <3>2. operation[o].phase \in {"idle", "turned"} \cup Phases
      BY <3>1 DEF OperationStates, Call, Idle
    <3> QED
      BY <3>1, <3>2 DEF Handled, Phases
  <2> QED
    BY <2>1, <2>2 DEF ChangesAreAudited
<1> QED
  BY <1>1, AdminStarts, AdminInvIsInductive, PTL DEF AdminSpec

\* Behind every change stands an unexpired administrator's token with the CSRF token, signed by a key
\* that the provider served less than CacheMaxAge and the time of a fetch before it was looked at, whatever
\* the provider and the clock do between the steps (oidc.ts:25-34, server.ts:117-119, jwks.ts:104-110).
THEOREM EveryChangeIsAuthorised == AdminSpec => []ChangesAreAuthorised
<1>1. AdminInv => ChangesAreAuthorised
  <2> SUFFICES ASSUME AdminInv, NEW o \in changed PROVE operation[o].route = "transition" /\ LetThrough(operation[o])
    BY DEF ChangesAreAuthorised, LetThrough
  <2>1. /\ o \in Operations /\ operation[o] \in OperationStates
        /\ Handled(operation[o], Entries(o), o \in changed) /\ Authorised(operation[o], o \in changed)
    BY DEF AdminInv, AdminTypes, AdminTypeOK
  <2>2. operation[o].phase \in {"idle", "turned"} \cup Phases
    BY <2>1 DEF OperationStates, Call, Idle
  <2> QED
    BY <2>1, <2>2 DEF Handled, Authorised, Phases
<1> QED
  BY <1>1, AdminStarts, AdminInvIsInductive, PTL DEF AdminSpec
-----------------------------------------------------------------------------
(* The demo *)

DemoReplies == {"", "200", "400", "409", "413", "500", "VALID_TRUSTED", "VALID", "INVALID", "UNVERIFIABLE"}

\* Generating, before and after the renderer; tampering and verifying.
DemoStates ==
  [phase : {"idle"}]
    \cup [phase : {"sealing", "rendering", "replied"}, reply : DemoReplies, left : {Generated}]
    \cup [phase : {"signing", "checking", "writing", "failing", "replied"}, reply : DemoReplies, left : SUBSET Generated, marked : {TRUE}]
    \cup [phase : {"tampering", "saving", "reading", "verifying", "replied"}, reply : DemoReplies,
          base : Sessions \cup {NoSession}, artifact : {"none", "paper", "original", "tampered"}]

\* A generation that was answered with its files written; such a request never moves again.
Finished(g) == demo[g].phase = "replied" /\ demo[g].reply = "200" /\ demo[g].marked

OneGeneration(s) ==
  /\ s.signed = s.seal /\ s.verifier = s.seal /\ s.tampered \in {NoSession, s.seal}
  /\ Finished(s.seal)

VerdictFits(call) ==
  \/ call.reply \in {"200", "400", "409", "413", "500"}
  \/ call.artifact = "paper" /\ call.reply = "VALID_TRUSTED"
  \/ call.artifact = "original" /\ call.reply \in {"VALID", "UNVERIFIABLE"}
  \/ call.artifact = "tampered" /\ call.reply \in {"INVALID", "UNVERIFIABLE"}

\* The session a request has captured was one generation, and still is when it is used.
CallOK(call) ==
  /\ call.phase \in {"tampering", "saving", "reading", "verifying"} => call.base # NoSession /\ OneGeneration(call.base)
  /\ call.phase = "verifying" => call.artifact \in {"paper", "original", "tampered"}
  /\ call.phase = "replied" => VerdictFits(call)

DemoInv ==
  /\ DemoTypeOK
  /\ demo \in [DemoCalls -> DemoStates]
  /\ session # NoSession => OneGeneration(session)
  /\ \A c \in DemoCalls : CallOK(demo[c])

LEMMA DemoStarts == DemoInit => DemoInv
BY DemoBounds DEF DemoInit, DemoInv, DemoTypeOK, DemoStates, CallOK

\* What a request that has not been answered may do to the others: nothing that they rely on.
LEMMA DemoCallMoves ==
  ASSUME DemoInv, NEW c \in DemoCalls, demo[c].phase # "replied", NEW call \in DemoStates, Goes(c, call), DemoTypeOK',
         call.phase \in {"tampering", "saving", "reading", "verifying"} => call.base \in Sessions /\ OneGeneration(call.base),
         call.phase \in {"tampering", "saving", "reading", "verifying"} => call.base # NoSession,
         call.phase = "verifying" => call.artifact \in {"paper", "original", "tampered"},
         call.phase = "replied" => VerdictFits(call),
         \/ session' = session
         \/ session' \in Sessions /\ OneGeneration(session')
         \/ session' = [seal |-> c, signed |-> c, verifier |-> c, tampered |-> NoSession]
            /\ call.phase = "replied" /\ call.reply = "200" /\ call.marked
  PROVE  DemoInv'
<1>1. demo' \in [DemoCalls -> DemoStates] /\ \A d \in DemoCalls : demo'[d] = IF d = c THEN call ELSE demo[d]
  BY DEF DemoInv, Goes
<1>2. \A g \in DemoCalls : Finished(g) => Finished(g)'
  BY <1>1 DEF Finished
<1>3. \A s \in Sessions : OneGeneration(s) => OneGeneration(s)'
  BY <1>2 DEF Sessions, OneGeneration
<1>4. ASSUME session' # NoSession PROVE OneGeneration(session)'
  <2>1. CASE session' = session
    <3>1. session \in Sessions /\ OneGeneration(session)
      BY <1>4, <2>1 DEF DemoInv, DemoTypeOK
    <3> QED
      BY <1>3, <2>1, <3>1
  <2>2. CASE session' \in Sessions /\ OneGeneration(session')
    <3>1. PICK s \in Sessions : s = session' /\ OneGeneration(s)
      BY <2>2
    <3>2. OneGeneration(s)'
      BY <1>3, <3>1
    <3> QED
      BY <3>1, <3>2 DEF OneGeneration
  <2>3. CASE /\ session' = [seal |-> c, signed |-> c, verifier |-> c, tampered |-> NoSession]
             /\ call.phase = "replied" /\ call.reply = "200" /\ call.marked
    BY <1>1, <2>3 DEF OneGeneration, Finished
  <2> QED
    BY <2>1, <2>2, <2>3
<1>5. ASSUME NEW d \in DemoCalls PROVE CallOK(demo[d])'
  <2>1. CASE d = c
    <3>1. CallOK(call)'
      BY <1>3 DEF CallOK, VerdictFits
    <3> QED
      BY <1>1, <2>1, <3>1
  <2>2. CASE d # c
    <3>1. demo'[d] = demo[d] /\ demo[d] \in DemoStates /\ CallOK(demo[d])
      BY <1>1, <2>2 DEF DemoInv
    <3>2. demo[d].phase \in {"tampering", "saving", "reading", "verifying"} => demo[d].base \in Sessions
      BY <3>1 DEF DemoStates, CallOK
    <3> QED
      BY <1>3, <3>1, <3>2 DEF CallOK, VerdictFits
  <2> QED
    BY <2>1, <2>2
<1> QED
  BY <1>1, <1>4, <1>5 DEF DemoInv

\* The request and its phase, as the lemmas below need them.
LEMMA DemoCallBefore ==
  ASSUME DemoInv, NEW c \in DemoCalls
  PROVE  demo[c] \in DemoStates /\ CallOK(demo[c]) /\ DemoTypeOK
BY DEF DemoInv

LEMMA StartGenerateKeepsDemo ==
  ASSUME DemoInv, NEW c \in DemoCalls, StartGenerate(c)
  PROVE  DemoInv'
<1> DEFINE call == [phase |-> "sealing", reply |-> "", left |-> Generated]
<1>1. call \in DemoStates /\ call.phase = "sealing"
  BY DEF DemoStates, DemoReplies
<1>2. demo[c].phase # "replied" /\ Goes(c, call) /\ UNCHANGED <<session, files, demoFaults>>
  BY DEF StartGenerate
<1>3. DemoTypeOK'
  BY <1>2 DEF DemoInv, DemoTypeOK
<1> HIDE DEF call
<1> QED
  BY <1>1, <1>2, <1>3, DemoCallMoves

\* A request that is answered with a code.
LEMMA CodeKeepsDemo ==
  ASSUME DemoInv, NEW c \in DemoCalls, demo[c].phase \notin {"idle", "replied"},
         NEW code \in {"400", "413", "500"}, Replies(c, demo[c], code),
         UNCHANGED <<session, files>>, demoFaults' \in 0..DemoMaxFaults
  PROVE  DemoInv'
<1> DEFINE call == [demo[c] EXCEPT !.phase = "replied", !.reply = code]
<1>1. demo[c] \in DemoStates
  BY DEF DemoInv
<1>2. call \in DemoStates /\ call.phase = "replied" /\ call.reply = code
  BY <1>1 DEF DemoStates, DemoReplies
<1>3. Goes(c, call)
  BY DEF Replies
<1>4. DemoTypeOK'
  BY DEF DemoInv, DemoTypeOK
<1> HIDE DEF call
<1>5. VerdictFits(call)
  BY <1>2 DEF VerdictFits
<1> QED
  BY <1>2, <1>3, <1>4, <1>5, DemoCallMoves

LEMMA AdvanceKeepsDemo ==
  ASSUME DemoInv, NEW c \in DemoCalls, Advance(c)
  PROVE  DemoInv'
<1>1. demo[c] \in DemoStates /\ UNCHANGED <<session, files, demoFaults>> /\ DemoTypeOK
  BY DEF DemoInv, Advance
<1>2. DemoTypeOK'
  BY <1>1 DEF DemoTypeOK
<1>3. ASSUME NEW call \in DemoStates, call.phase \in {"rendering", "signing", "checking", "writing"}, Goes(c, call),
             demo[c].phase # "replied"
      PROVE  DemoInv'
  BY <1>1, <1>2, <1>3, DemoCallMoves
<1>4. CASE demo[c].phase = "sealing" /\ Goes(c, [demo[c] EXCEPT !.phase = "rendering"])
  <2> DEFINE call == [demo[c] EXCEPT !.phase = "rendering"]
  <2>1. call \in DemoStates /\ call.phase = "rendering"
    BY <1>1, <1>4 DEF DemoStates
  <2> HIDE DEF call
  <2>2. Goes(c, call)
    BY <1>4 DEF call
  <2> QED
    BY <1>3, <1>4, <2>1, <2>2
<1>5. ASSUME NEW marked \in BOOLEAN, demo[c].phase = "rendering",
             IF Places(marked) THEN Goes(c, [phase |-> "signing", reply |-> "", left |-> Generated, marked |-> marked])
             ELSE Replies(c, demo[c], "500")
      PROVE  DemoInv'
  <2>1. CASE marked
    <3> DEFINE call == [phase |-> "signing", reply |-> "", left |-> Generated, marked |-> TRUE]
    <3>1. call \in DemoStates /\ call.phase = "signing"
      BY DEF DemoStates, DemoReplies
    <3>2. marked = TRUE
      BY <2>1
    <3>3. Goes(c, call)
      BY <1>5, <3>2 DEF Places
    <3> HIDE DEF call
    <3> QED
      BY <1>3, <1>5, <3>1, <3>3
  <2>2. CASE ~marked
    <3>1. Replies(c, demo[c], "500")
      BY <1>5, <2>2 DEF Places
    <3>2. demoFaults' \in 0..DemoMaxFaults
      BY <1>1 DEF DemoTypeOK
    <3> QED
      BY <1>1, <1>5, <3>1, <3>2, CodeKeepsDemo
  <2> QED
    BY <2>1, <2>2
<1>6. CASE demo[c].phase = "signing" /\ Goes(c, [demo[c] EXCEPT !.phase = "checking"])
  <2> DEFINE call == [demo[c] EXCEPT !.phase = "checking"]
  <2>1. call \in DemoStates /\ call.phase = "checking"
    BY <1>1, <1>6 DEF DemoStates
  <2> HIDE DEF call
  <2>2. Goes(c, call)
    BY <1>6 DEF call
  <2> QED
    BY <1>3, <1>6, <2>1, <2>2
<1>7. CASE demo[c].phase = "checking" /\ Goes(c, [demo[c] EXCEPT !.phase = "writing"])
  <2> DEFINE call == [demo[c] EXCEPT !.phase = "writing"]
  <2>1. call \in DemoStates /\ call.phase = "writing"
    BY <1>1, <1>7 DEF DemoStates
  <2> HIDE DEF call
  <2>2. Goes(c, call)
    BY <1>7 DEF call
  <2> QED
    BY <1>3, <1>7, <2>1, <2>2
<1> QED
  BY <1>4, <1>5, <1>6, <1>7 DEF Advance

\* A file is written; the last one replaces the session by the generation of the request.
LEMMA WriteFileKeepsDemo ==
  ASSUME DemoInv, NEW c \in DemoCalls, WriteFile(c)
  PROVE  DemoInv'
<1>1. /\ demo[c] \in DemoStates /\ DemoTypeOK /\ UNCHANGED demoFaults
      /\ demo[c].phase \in {"writing", "failing"}
  BY DEF DemoInv, WriteFile
<1>2. demo[c] \in [phase : {"signing", "checking", "writing", "failing", "replied"}, reply : DemoReplies, left : SUBSET Generated, marked : {TRUE}]
  BY <1>1 DEF DemoStates
<1>3. PICK f \in demo[c].left :
        /\ files' = [files EXCEPT ![f] = c]
        /\ IF demo[c].phase = "writing" /\ demo[c].left = {f}
           THEN /\ session' = [seal |-> c, signed |-> c, verifier |-> c, tampered |-> NoSession]
                /\ Replies(c, [demo[c] EXCEPT !.left = {}], "200")
           ELSE /\ Goes(c, [demo[c] EXCEPT !.left = @ \ {f}])
                /\ UNCHANGED session
  BY DEF WriteFile
<1>4. files' \in [Generated \cup {Preview} -> DemoCalls \cup {NoSession}]
  BY <1>1, <1>2, <1>3 DEF DemoTypeOK
<1>5. CASE demo[c].phase = "writing" /\ demo[c].left = {f}
  <2> DEFINE written == [demo[c] EXCEPT !.left = {}]
             call == [written EXCEPT !.phase = "replied", !.reply = "200"]
  <2>1. call \in DemoStates /\ call.phase = "replied" /\ call.reply = "200" /\ call.marked
    BY <1>2 DEF DemoStates, DemoReplies
  <2>2. Goes(c, call) /\ session' = [seal |-> c, signed |-> c, verifier |-> c, tampered |-> NoSession]
    BY <1>3, <1>5 DEF Replies
  <2>3. DemoTypeOK'
    BY <1>1, <1>4, <2>2 DEF DemoTypeOK, Sessions
  <2> HIDE DEF call, written
  <2>4. VerdictFits(call)
    BY <2>1 DEF VerdictFits
  <2> QED
    BY <1>1, <2>1, <2>2, <2>3, <2>4, DemoCallMoves
<1>6. CASE ~(demo[c].phase = "writing" /\ demo[c].left = {f})
  <2> DEFINE call == [demo[c] EXCEPT !.left = demo[c].left \ {f}]
  <2>1. call \in DemoStates /\ call.phase \in {"writing", "failing"}
    BY <1>1, <1>2 DEF DemoStates
  <2>2. Goes(c, call) /\ UNCHANGED session
    BY <1>2, <1>3, <1>6
  <2>3. DemoTypeOK'
    BY <1>1, <1>4, <2>2 DEF DemoTypeOK
  <2> HIDE DEF call
  <2> QED
    BY <1>1, <2>1, <2>2, <2>3, DemoCallMoves
<1> QED
  BY <1>5, <1>6

LEMMA StageFailsKeepsDemo ==
  ASSUME DemoInv, NEW c \in DemoCalls, StageFails(c)
  PROVE  DemoInv'
<1>1. demo[c] \in DemoStates /\ DemoTypeOK /\ UNCHANGED <<session, files>>
  BY DEF DemoInv, StageFails
<1>2. demoFaults' \in 0..DemoMaxFaults
  <2>1. DemoFault
    BY DEF StageFails
  <2> QED
    BY <1>1, <2>1, DemoBounds DEF DemoFault, DemoTypeOK
<1>3. CASE demo[c].phase \in {"sealing", "rendering", "signing", "checking", "tampering", "saving"} /\ Replies(c, demo[c], "500")
  BY <1>1, <1>2, <1>3, CodeKeepsDemo
<1>4. ASSUME demo[c].phase = "writing", NEW f \in demo[c].left,
             Goes(c, [demo[c] EXCEPT !.phase = "failing", !.reply = "500", !.left = @ \ {f}])
      PROVE  DemoInv'
  <2> DEFINE call == [demo[c] EXCEPT !.phase = "failing", !.reply = "500", !.left = demo[c].left \ {f}]
  <2>1. demo[c] \in [phase : {"signing", "checking", "writing", "failing", "replied"}, reply : DemoReplies, left : SUBSET Generated, marked : {TRUE}]
    BY <1>1, <1>4 DEF DemoStates
  <2>2. call \in DemoStates /\ call.phase = "failing"
    BY <2>1 DEF DemoStates, DemoReplies
  <2>3. Goes(c, call)
    BY <1>4, <2>1
  <2>4. DemoTypeOK'
    BY <1>1, <1>2 DEF DemoTypeOK
  <2> HIDE DEF call
  <2> QED
    BY <1>1, <1>4, <2>2, <2>3, <2>4, DemoCallMoves
<1> QED
  BY <1>3, <1>4 DEF StageFails

\* Tampering and verifying capture the session as it is.
LEMMA StartOtherKeepsDemo ==
  ASSUME DemoInv, NEW c \in DemoCalls, StartOther(c)
  PROVE  DemoInv'
<1>1. DemoTypeOK /\ UNCHANGED <<session, files, demoFaults>> /\ demo[c].phase = "idle"
  BY DEF DemoInv, StartOther
<1>2. PICK phase \in {"tampering", "reading"} :
        Goes(c, [phase |-> IF session = NoSession THEN "replied" ELSE phase, reply |-> "409", base |-> session, artifact |-> "none"])
  BY DEF StartOther
<1> DEFINE call == [phase |-> IF session = NoSession THEN "replied" ELSE phase, reply |-> "409", base |-> session, artifact |-> "none"]
<1>3. /\ call \in DemoStates /\ call.base = session /\ call.reply = "409"
      /\ session # NoSession => call.phase \in {"tampering", "reading"}
      /\ session = NoSession => call.phase = "replied"
  BY <1>1 DEF DemoStates, DemoReplies, DemoTypeOK
<1>4. Goes(c, call)
  BY <1>2
<1>5. DemoTypeOK'
  BY <1>1 DEF DemoTypeOK
<1>6. session # NoSession => session \in Sessions /\ OneGeneration(session)
  BY <1>1 DEF DemoInv, DemoTypeOK
<1> HIDE DEF call
<1>7. VerdictFits(call)
  BY <1>3 DEF VerdictFits
<1> QED
  BY <1>1, <1>3, <1>4, <1>5, <1>6, <1>7, DemoCallMoves

\* The session that a request of the other kinds has captured.
LEMMA CapturedSession ==
  ASSUME DemoInv, NEW c \in DemoCalls, demo[c].phase \in {"tampering", "saving", "reading", "verifying"}
  PROVE  /\ demo[c] \in [phase : {"tampering", "saving", "reading", "verifying", "replied"}, reply : DemoReplies,
                         base : Sessions \cup {NoSession}, artifact : {"none", "paper", "original", "tampered"}]
         /\ demo[c].base \in Sessions /\ demo[c].base # NoSession /\ OneGeneration(demo[c].base)
         /\ demo[c].phase = "verifying" => demo[c].artifact \in {"paper", "original", "tampered"}
<1>1. demo[c] \in DemoStates /\ CallOK(demo[c])
  BY DEF DemoInv
<1>2. demo[c] \in [phase : {"tampering", "saving", "reading", "verifying", "replied"}, reply : DemoReplies,
                   base : Sessions \cup {NoSession}, artifact : {"none", "paper", "original", "tampered"}]
  BY <1>1 DEF DemoStates
<1> QED
  BY <1>1, <1>2 DEF CallOK

LEMMA TamperKeepsDemo ==
  ASSUME DemoInv, NEW c \in DemoCalls, Tamper(c)
  PROVE  DemoInv'
<1> DEFINE old == demo[c]
<1>1. DemoTypeOK /\ UNCHANGED demoFaults /\ old.phase \in {"tampering", "saving"}
  BY DEF DemoInv, Tamper
<1>2. /\ old \in [phase : {"tampering", "saving", "reading", "verifying", "replied"}, reply : DemoReplies,
                  base : Sessions \cup {NoSession}, artifact : {"none", "paper", "original", "tampered"}]
      /\ old.base \in Sessions /\ old.base # NoSession /\ OneGeneration(old.base)
  BY <1>1, CapturedSession
<1>3. CASE Goes(c, [old EXCEPT !.phase = "saving"]) /\ UNCHANGED <<session, files>>
  <2> DEFINE call == [old EXCEPT !.phase = "saving"]
  <2>1. call \in DemoStates /\ call.phase = "saving" /\ call.base = old.base
    BY <1>2 DEF DemoStates
  <2>2. DemoTypeOK'
    BY <1>1, <1>3 DEF DemoTypeOK
  <2>3. Goes(c, call)
    BY <1>3
  <2> HIDE DEF call
  <2> QED
    BY <1>1, <1>2, <1>3, <2>1, <2>2, <2>3, DemoCallMoves
<1>4. CASE /\ files' = [files EXCEPT ![Preview] = old.base.seal]
           /\ session' = [old.base EXCEPT !.tampered = old.base.seal]
           /\ Replies(c, old, "200")
  <2> DEFINE call == [old EXCEPT !.phase = "replied", !.reply = "200"]
             new == [old.base EXCEPT !.tampered = old.base.seal]
  <2>1. call \in DemoStates /\ call.phase = "replied" /\ call.reply = "200"
    BY <1>2 DEF DemoStates, DemoReplies
  <2>2. Goes(c, call)
    BY <1>4 DEF Replies
  <2>3. /\ new \in Sessions /\ new.seal = old.base.seal /\ new.signed = old.base.signed
        /\ new.verifier = old.base.verifier /\ new.tampered = old.base.seal /\ old.base.seal \in DemoCalls
    BY <1>2 DEF Sessions
  <2>4. session' = new
    BY <1>4
  <2>5. DemoTypeOK'
    BY <1>1, <1>4, <2>3 DEF DemoTypeOK
  <2> HIDE DEF call, new
  <2>6. OneGeneration(new)
    BY <1>2, <2>3 DEF OneGeneration
  <2>7. VerdictFits(call)
    BY <2>1 DEF VerdictFits
  <2>8. session' \in Sessions /\ OneGeneration(session')
    BY <2>3, <2>4, <2>6
  <2> QED
    BY <1>1, <2>1, <2>2, <2>5, <2>7, <2>8, DemoCallMoves
<1> QED
  BY <1>3, <1>4 DEF Tamper

LEMMA ReadArtifactKeepsDemo ==
  ASSUME DemoInv, NEW c \in DemoCalls, ReadArtifact(c)
  PROVE  DemoInv'
<1> DEFINE old == demo[c]
<1>1. DemoTypeOK /\ UNCHANGED <<session, files, demoFaults>> /\ old.phase = "reading"
  BY DEF DemoInv, ReadArtifact
<1>2. /\ old \in [phase : {"tampering", "saving", "reading", "verifying", "replied"}, reply : DemoReplies,
                  base : Sessions \cup {NoSession}, artifact : {"none", "paper", "original", "tampered"}]
      /\ old.base \in Sessions /\ old.base # NoSession /\ OneGeneration(old.base)
  BY <1>1, CapturedSession
<1>3. CASE Replies(c, old, "400")
  BY <1>1, <1>3, CodeKeepsDemo DEF DemoTypeOK
<1>4. ASSUME NEW artifact \in {"paper", "original", "tampered"},
             Goes(c, [old EXCEPT !.phase = "verifying", !.artifact = artifact, !.base = old.base])
      PROVE  DemoInv'
  <2> DEFINE call == [old EXCEPT !.phase = "verifying", !.artifact = artifact, !.base = old.base]
  <2>1. call \in DemoStates /\ call.phase = "verifying" /\ call.base = old.base /\ call.artifact = artifact
    BY <1>2 DEF DemoStates
  <2>2. DemoTypeOK'
    BY <1>1 DEF DemoTypeOK
  <2>3. Goes(c, call)
    BY <1>4
  <2> HIDE DEF call
  <2> QED
    BY <1>1, <1>2, <2>1, <2>2, <2>3, DemoCallMoves
<1> QED
  BY <1>3, <1>4 DEF ReadArtifact, Judged

LEMMA BodyFailsKeepsDemo ==
  ASSUME DemoInv, NEW c \in DemoCalls, BodyFails(c)
  PROVE  DemoInv'
<1>1. PICK code \in {"400", "413"} : Replies(c, demo[c], code)
  BY DEF BodyFails
<1>2. demo[c].phase = "reading" /\ UNCHANGED <<session, files, demoFaults>> /\ DemoTypeOK
  BY DEF BodyFails, DemoInv
<1> QED
  BY <1>1, <1>2, CodeKeepsDemo DEF DemoTypeOK

LEMMA VerifyKeepsDemo ==
  ASSUME DemoInv, NEW c \in DemoCalls, Verify(c)
  PROVE  DemoInv'
<1> DEFINE old == demo[c]
<1>1. DemoTypeOK /\ UNCHANGED <<session, files>> /\ old.phase = "verifying"
  BY DEF DemoInv, Verify
<1>2. /\ old \in [phase : {"tampering", "saving", "reading", "verifying", "replied"}, reply : DemoReplies,
                  base : Sessions \cup {NoSession}, artifact : {"none", "paper", "original", "tampered"}]
      /\ old.base \in Sessions /\ old.base # NoSession /\ OneGeneration(old.base)
      /\ old.artifact \in {"paper", "original", "tampered"}
  BY <1>1, CapturedSession
<1>3. demoFaults' \in 0..DemoMaxFaults
  BY <1>1, DemoBounds DEF Verify, DemoFault, DemoTypeOK
<1>4. DemoTypeOK'
  BY <1>1, <1>3 DEF DemoTypeOK
<1>5. ASSUME NEW reply \in DemoReplies, Replies(c, old, reply),
             \/ old.artifact = "paper" /\ reply = "VALID_TRUSTED"
             \/ old.artifact = "original" /\ reply \in {"VALID", "UNVERIFIABLE"}
             \/ old.artifact = "tampered" /\ reply \in {"INVALID", "UNVERIFIABLE"}
      PROVE  DemoInv'
  <2> DEFINE call == [old EXCEPT !.phase = "replied", !.reply = reply]
  <2>1. call \in DemoStates /\ call.phase = "replied" /\ call.reply = reply /\ call.artifact = old.artifact
    BY <1>2 DEF DemoStates
  <2>2. Goes(c, call)
    BY <1>5 DEF Replies
  <2> HIDE DEF call
  <2>3. VerdictFits(call)
    BY <1>5, <2>1 DEF VerdictFits
  <2> QED
    BY <1>1, <1>4, <2>1, <2>2, <2>3, DemoCallMoves
<1>6. CASE Replies(c, old, VerdictOf(old))
  <2>1. \/ old.artifact = "paper" /\ VerdictOf(old) = "VALID_TRUSTED"
        \/ old.artifact = "original" /\ VerdictOf(old) = "VALID"
        \/ old.artifact = "tampered" /\ VerdictOf(old) = "INVALID"
    BY <1>2 DEF VerdictOf, OneGeneration
  <2> QED
    BY <1>5, <1>6, <2>1 DEF DemoReplies
<1>7. CASE old.artifact # "paper" /\ Replies(c, old, "UNVERIFIABLE")
  BY <1>2, <1>5, <1>7 DEF DemoReplies
<1> QED
  BY <1>6, <1>7 DEF Verify

LEMMA DemoInvIsInductive == DemoInv /\ [DemoNext]_demoVars => DemoInv'
<1> SUFFICES ASSUME DemoInv, [DemoNext]_demoVars PROVE DemoInv'
  OBVIOUS
<1>1. CASE UNCHANGED demoVars
  BY <1>1 DEF demoVars, DemoInv, DemoTypeOK, OneGeneration, Finished, CallOK, VerdictFits
<1>2. ASSUME NEW c \in DemoCalls, StartGenerate(c) \/ Advance(c) \/ WriteFile(c) \/ StageFails(c) PROVE DemoInv'
  BY <1>2, StartGenerateKeepsDemo, AdvanceKeepsDemo, WriteFileKeepsDemo, StageFailsKeepsDemo
<1>3. ASSUME NEW c \in DemoCalls, StartOther(c) \/ Tamper(c) \/ ReadArtifact(c) \/ BodyFails(c) \/ Verify(c) PROVE DemoInv'
  BY <1>3, StartOtherKeepsDemo, TamperKeepsDemo, ReadArtifactKeepsDemo, BodyFailsKeepsDemo, VerifyKeepsDemo
<1> QED
  BY <1>1, <1>2, <1>3 DEF DemoNext

\* However the requests of the demo overlap: the session is one generation that was signed with its seal
\* in place, the paper seal is VALID_TRUSTED and the changed PDF never valid (demo.ts:13-20).
THEOREM DemoShowsWhatItAnnounces == DemoSpec => []DemoVerdictsHold
<1>1. DemoInv => DemoVerdictsHold
  <2> SUFFICES ASSUME DemoInv PROVE DemoVerdictsHold
    OBVIOUS
  <2>1. SessionIsOneGeneration
    BY DEF DemoInv, OneGeneration, Finished, SessionIsOneGeneration
  <2>2. \A c \in DemoCalls : demo[c].phase = "replied" => VerdictFits(demo[c])
    BY DEF DemoInv, CallOK
  <2> QED
    BY <2>1, <2>2 DEF DemoInv, VerdictFits, DemoVerdictsHold
<1> QED
  BY <1>1, DemoStarts, DemoInvIsInductive, PTL DEF DemoSpec
=============================================================================
