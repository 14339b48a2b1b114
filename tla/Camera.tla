------------------------------- MODULE Camera -------------------------------
(***************************************************************************)
(* The page of the verifier (apps/verifier-web/src/ui): one camera at a    *)
(* time, an interval that looks for a QR code in its picture, photos, and  *)
(* the form.  Whatever finds evidence turns the camera off and sends it;   *)
(* every click and callback is a turn of the page's event loop.            *)
(***************************************************************************)
EXTENDS Naturals, FiniteSets

CONSTANTS
  Starts,     \* clicks on "Start camera"; the stream a click obtains has its name, and so has its interval
  Attempts,   \* pieces of evidence: a look at the picture, a photo, a use of the form
  Nothing,    \* undefined
  Detects     \* whether the browser has a BarcodeDetector

ASSUME DetectsAssumption == Detects \in BOOLEAN

ASSUME NothingAssumption == Nothing \notin Starts

VARIABLES
  stream,        \* what has become of the stream of each click
  activeStream,
  intervals,     \* the intervals that are running
  scanTimer,     \* the interval that stopCamera() knows of
  buttons,       \* which of the buttons "start", "stop" and "submit" are enabled
  attempt,       \* each attempt: its kind and phase
  shown,         \* the attempt whose result the page shows
  overlapped     \* history: a start was clicked while another one was pending

cameraVars == <<stream, activeStream, intervals, scanTimer, buttons, attempt, shown, overlapped>>

CameraInit ==
  /\ stream = [s \in Starts |-> "none"]
  /\ activeStream = Nothing
  /\ intervals = {}
  /\ scanTimer = Nothing
  /\ buttons = {"start", "submit"}
  /\ attempt = [a \in Attempts |-> [kind |-> "none", phase |-> "idle"]]
  /\ shown = Nothing
  /\ overlapped = FALSE

Becomes(a, kind, phase) == attempt' = [attempt EXCEPT ![a] = [kind |-> kind, phase |-> phase]]

\* Mutant: the interval is not cleared.
LeaveIntervals == UNCHANGED <<intervals, scanTimer>>

\* stopCamera(), the interval.
StopInterval ==
  /\ intervals' = intervals \ {scanTimer}
  /\ scanTimer' = Nothing

\* stopCamera(), the rest: the active stream's tracks and the buttons.
StopCamera ==
  /\ StopInterval
  /\ stream' = IF activeStream = Nothing THEN stream ELSE [stream EXCEPT ![activeStream] = "stopped"]
  /\ activeStream' = Nothing
  /\ buttons' = (buttons \cup {"start"}) \ {"stop"}

-----------------------------------------------------------------------------
(* The camera *)

\* The button stays enabled while the browser asks for permission.
ClickStart(s) ==
  /\ "start" \in buttons /\ stream[s] = "none"
  /\ overlapped' = (overlapped \/ \E t \in Starts : stream[t] = "pending")
  /\ stream' = [stream EXCEPT ![s] = "pending"]
  /\ UNCHANGED <<activeStream, intervals, scanTimer, buttons, attempt, shown>>

\* getUserMedia() has given a stream; with a detector an interval is started.
Opens(s) ==
  /\ stream[s] = "pending"
  /\ stream' = [stream EXCEPT ![s] = "open"]
  /\ activeStream' = s
  /\ buttons' = (buttons \cup {"stop"}) \ {"start"}
  /\ IF Detects THEN intervals' = intervals \cup {s} /\ scanTimer' = s
     ELSE UNCHANGED <<intervals, scanTimer>>
  /\ UNCHANGED <<attempt, shown, overlapped>>

Denied(s) ==
  /\ stream[s] = "pending"
  /\ stream' = [stream EXCEPT ![s] = "denied"]
  /\ UNCHANGED <<activeStream, intervals, scanTimer, buttons, attempt, shown, overlapped>>

ClickStop ==
  /\ "stop" \in buttons
  /\ StopCamera
  /\ UNCHANGED <<attempt, shown, overlapped>>

-----------------------------------------------------------------------------
(* Evidence *)

\* A tick of an interval, while the video has a picture: the detector looks at it. The next tick does
\* not wait for it.
Scan(a) ==
  /\ attempt[a].phase = "idle"
  /\ intervals # {} /\ activeStream # Nothing
  /\ Becomes(a, "scan", "working")
  /\ UNCHANGED <<stream, activeStream, intervals, scanTimer, buttons, shown, overlapped>>

\* Capturing is always possible; without a picture the photo is blank.
ClickCapture(a) ==
  /\ attempt[a].phase = "idle"
  /\ Becomes(a, "photo", "working")
  /\ UNCHANGED <<stream, activeStream, intervals, scanTimer, buttons, shown, overlapped>>

\* A code was found, or the photo is ready: the camera goes off, whichever is on by now, and the
\* evidence is sent.
Found(a) ==
  /\ attempt[a].phase = "working"
  /\ StopCamera
  /\ Becomes(a, attempt[a].kind, "sent")
  /\ UNCHANGED <<shown, overlapped>>

\* No code in the picture, a detector that fails, or no photo.
NotFound(a) ==
  /\ attempt[a].phase = "working"
  /\ Becomes(a, attempt[a].kind, "over")
  /\ shown' = IF attempt[a].kind = "photo" THEN a ELSE shown
  /\ UNCHANGED <<stream, activeStream, intervals, scanTimer, buttons, overlapped>>

\* The form: one use at a time, since its button is disabled meanwhile.
Submit(a) ==
  /\ "submit" \in buttons /\ attempt[a].phase = "idle"
  /\ Becomes(a, "form", "sent")
  /\ buttons' = buttons \ {"submit"}
  /\ UNCHANGED <<stream, activeStream, intervals, scanTimer, shown, overlapped>>

\* The service answers, in any order, or fails; the failure of a scan is not shown.
Answer(a) ==
  /\ attempt[a].phase = "sent"
  /\ \E ok \in BOOLEAN : shown' = IF ok \/ attempt[a].kind # "scan" THEN a ELSE shown
  /\ buttons' = IF attempt[a].kind = "form" THEN buttons \cup {"submit"} ELSE buttons
  /\ Becomes(a, attempt[a].kind, "over")
  /\ UNCHANGED <<stream, activeStream, intervals, scanTimer, overlapped>>

CameraNext ==
  \/ ClickStop
  \/ \E s \in Starts : ClickStart(s) \/ Opens(s) \/ Denied(s)
  \/ \E a \in Attempts : Scan(a) \/ ClickCapture(a) \/ Found(a) \/ NotFound(a) \/ Submit(a) \/ Answer(a)

CameraSpec == CameraInit /\ [][CameraNext]_cameraVars

-----------------------------------------------------------------------------
(* Properties *)

\* Part of StoppedCameraIsOff.
CameraTypeOK ==
  /\ stream \in [Starts -> {"none", "pending", "open", "stopped", "denied"}]
  /\ activeStream \in Starts \cup {Nothing} /\ scanTimer \in Starts \cup {Nothing}
  /\ intervals \subseteq Starts
  /\ buttons \subseteq {"start", "stop", "submit"}

Open == {s \in Starts : stream[s] = "open"}

\* Unless a start was clicked while another was pending: a camera that the page offers to start is off,
\* nothing looks at its picture any more, and while it is on it is the one that "Stop camera" turns off,
\* whatever late detections, photos and permissions arrive (app.js:100-163).
StoppedCameraIsOff ==
  /\ CameraTypeOK
  /\ ~overlapped =>
       /\ Open = {activeStream} \ {Nothing}
       /\ intervals = {scanTimer} \ {Nothing}
       /\ "stop" \in buttons <=> activeStream # Nothing
       /\ "start" \in buttons <=> activeStream = Nothing
       /\ scanTimer # Nothing => scanTimer = activeStream
=============================================================================
