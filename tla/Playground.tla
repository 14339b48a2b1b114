----------------------------- MODULE Playground -----------------------------
(***************************************************************************)
(* The demo (apps/playground): one server with one session.  Generating    *)
(* runs the pipeline of packages/pdf: seal the claims, render, place the   *)
(* seal, have the sidecar sign; then it writes files and replaces the      *)
(* session.  Tampering renders another total around the seal of the        *)
(* session and adds it; verifying judges an artifact of the session.  The  *)
(* three run concurrently and each looks at the session once, at its start.*)
(***************************************************************************)
EXTENDS Naturals, FiniteSets

CONSTANTS
  DemoCalls,      \* POST requests
  NoSession,      \* no invoice was generated yet
  DemoMaxFaults   \* bound on failing stages and unanswered verifications

ASSUME DemoBounds == DemoMaxFaults \in Nat

VARIABLES
  demo,        \* the continuation of handleRequest() for each request
  session,     \* the session of the server: which generation each of its parts comes from
  files,       \* the generation whose content each file has
  demoFaults

demoVars == <<demo, session, files, demoFaults>>

\* What writeGeneratedArtifacts() writes, by the two files that the page shows, and the preview.
Generated == {"sealed.pdf", "paper-seal.png"}
Preview == "tampered-preview.pdf"

\* A generation is named by the request that made it. Every generation has a key pair of its own
\* under the same key id, since every LocalSigner makes one.
Sessions == [seal : DemoCalls, signed : DemoCalls, verifier : DemoCalls, tampered : DemoCalls \cup {NoSession}]

DemoInit ==
  /\ demo = [c \in DemoCalls |-> [phase |-> "idle"]]
  /\ session = NoSession
  /\ files = [f \in Generated \cup {Preview} |-> NoSession]
  /\ demoFaults = 0

Goes(c, call) == demo' = [demo EXCEPT ![c] = call]

DemoFault == demoFaults < DemoMaxFaults /\ demoFaults' = demoFaults + 1

Replies(c, call, reply) == Goes(c, [call EXCEPT !.phase = "replied", !.reply = reply])

-----------------------------------------------------------------------------
(* Generating *)

StartGenerate(c) ==
  /\ demo[c].phase = "idle"
  /\ Goes(c, [phase |-> "sealing", reply |-> "", left |-> Generated])
  /\ UNCHANGED <<session, files, demoFaults>>

\* placePaperSealBeforeSigning() refuses a PDF that does not show the marker of the seal.
Places(marked) == marked

\* The stages before the files: each is an await, and the next begins when it has succeeded. What the
\* renderer made may lack the marker.
Advance(c) ==
  LET call == demo[c]
  IN  /\ \/ call.phase = "sealing" /\ Goes(c, [call EXCEPT !.phase = "rendering"])
         \/ \E marked \in BOOLEAN :
              /\ call.phase = "rendering"
              /\ IF Places(marked) THEN Goes(c, [phase |-> "signing", reply |-> "", left |-> Generated, marked |-> marked])
                 ELSE Replies(c, call, "500")
         \/ call.phase = "signing" /\ Goes(c, [call EXCEPT !.phase = "checking"])
         \/ call.phase = "checking" /\ Goes(c, [call EXCEPT !.phase = "writing"])
      /\ UNCHANGED <<session, files, demoFaults>>

\* The files are written in parallel. When the last one is there the session is replaced and the
\* request answered; the writes of a request that has failed still go on.
WriteFile(c) ==
  LET call == demo[c]
  IN  /\ call.phase \in {"writing", "failing"}
      /\ \E f \in call.left :
           /\ files' = [files EXCEPT ![f] = c]
           /\ IF call.phase = "writing" /\ call.left = {f}
              THEN /\ session' = [seal |-> c, signed |-> c, verifier |-> c, tampered |-> NoSession]
                   /\ Replies(c, [call EXCEPT !.left = {}], "200")
              ELSE /\ Goes(c, [call EXCEPT !.left = @ \ {f}])
                   /\ UNCHANGED session
      /\ UNCHANGED demoFaults

\* A stage fails: 500 at once. A write that failed is not repeated, the others are not stopped.
StageFails(c) ==
  LET call == demo[c]
  IN  /\ DemoFault
      /\ \/ call.phase \in {"sealing", "rendering", "signing", "checking", "tampering", "saving"} /\ Replies(c, call, "500")
         \/ /\ call.phase = "writing"
            /\ \E f \in call.left : Goes(c, [call EXCEPT !.phase = "failing", !.reply = "500", !.left = @ \ {f}])
      /\ UNCHANGED <<session, files>>

-----------------------------------------------------------------------------
(* Tampering and verifying *)

\* Both take the session as it is when the request arrives: 409 without one.
StartOther(c) ==
  /\ demo[c].phase = "idle"
  /\ \E phase \in {"tampering", "reading"} :
       Goes(c, [phase |-> IF session = NoSession THEN "replied" ELSE phase, reply |-> "409", base |-> session, artifact |-> "none"])
  /\ UNCHANGED <<session, files, demoFaults>>

\* The preview is rendered around the captured seal, written, and added to the captured session,
\* which becomes the session of the server, whatever that has become meanwhile.
Tamper(c) ==
  LET call == demo[c]
  IN  /\ \/ /\ call.phase = "tampering"
            /\ Goes(c, [call EXCEPT !.phase = "saving"])
            /\ UNCHANGED <<session, files>>
         \/ /\ call.phase = "saving"
            /\ files' = [files EXCEPT ![Preview] = call.base.seal]
            /\ session' = [call.base EXCEPT !.tampered = call.base.seal]
            /\ Replies(c, call, "200")
      /\ UNCHANGED demoFaults

\* Mutant: the artifacts are taken from the session as it is after the body, the verifier is not.
JudgedLate(call) == [session EXCEPT !.verifier = call.base.verifier]

\* Artifacts and verifier are those of the captured session.
Judged(call) == call.base

\* The body has arrived and names an artifact: 400 for one that the captured session lacks.
ReadArtifact(c) ==
  LET call == demo[c]
  IN  /\ call.phase = "reading"
      /\ \E artifact \in {"paper", "original", "tampered", "other"} :
           IF artifact = "other" \/ (artifact = "tampered" /\ call.base.tampered = NoSession)
           THEN Replies(c, call, "400")
           ELSE Goes(c, [call EXCEPT !.phase = "verifying", !.artifact = artifact, !.base = Judged(call)])
      /\ UNCHANGED <<session, files, demoFaults>>

\* The body is too large, no object, or breaks off.
BodyFails(c) ==
  /\ demo[c].phase = "reading"
  /\ \E code \in {"400", "413"} : Replies(c, demo[c], code)
  /\ UNCHANGED <<session, files, demoFaults>>

\* The verdict of the session's verifier: it trusts the key of its own generation, and resolves every
\* seal to that key; the preview carries no signature.
VerdictOf(call) ==
  CASE call.artifact = "paper" -> IF call.base.seal = call.base.verifier THEN "VALID_TRUSTED" ELSE "INVALID"
    [] call.artifact = "original" -> "VALID"
    [] call.artifact = "tampered" -> "INVALID"

\* Without an answer of the sidecar a PDF is UNVERIFIABLE.
Verify(c) ==
  LET call == demo[c]
  IN  /\ call.phase = "verifying"
      /\ \/ Replies(c, call, VerdictOf(call)) /\ UNCHANGED demoFaults
         \/ DemoFault /\ call.artifact # "paper" /\ Replies(c, call, "UNVERIFIABLE")
      /\ UNCHANGED <<session, files>>

DemoNext ==
  \E c \in DemoCalls :
    \/ StartGenerate(c) \/ Advance(c) \/ WriteFile(c) \/ StageFails(c)
    \/ StartOther(c) \/ Tamper(c) \/ ReadArtifact(c) \/ BodyFails(c) \/ Verify(c)

DemoSpec == DemoInit /\ [][DemoNext]_demoVars

-----------------------------------------------------------------------------
(* Properties *)

\* Part of DemoVerdictsHold.
DemoTypeOK ==
  /\ session \in Sessions \cup {NoSession}
  /\ files \in [Generated \cup {Preview} -> DemoCalls \cup {NoSession}]
  /\ demoFaults \in 0..DemoMaxFaults

\* Every part of the session is of one generation, and that one was signed with its seal in place.
SessionIsOneGeneration ==
  session # NoSession =>
    /\ session.signed = session.seal /\ session.verifier = session.seal
    /\ session.tampered \in {NoSession, session.seal}
    /\ demo[session.seal].reply = "200" /\ demo[session.seal].marked

\* The demo shows what describeTamperResult() announces (demo.ts:13-20), however its requests overlap:
\* the paper seal is VALID_TRUSTED, the changed PDF is never valid, and what is verified is one
\* generation that was signed with its seal in place (pipeline.ts:56-60, seal.ts:72-78).
DemoVerdictsHold ==
  /\ DemoTypeOK
  /\ SessionIsOneGeneration
  /\ \A c \in DemoCalls : demo[c].phase = "replied" =>
       \/ demo[c].reply \in {"200", "400", "409", "413", "500"}
       \/ demo[c].artifact = "paper" /\ demo[c].reply = "VALID_TRUSTED"
       \/ demo[c].artifact = "original" /\ demo[c].reply \in {"VALID", "UNVERIFIABLE"}
       \/ demo[c].artifact = "tampered" /\ demo[c].reply \in {"INVALID", "UNVERIFIABLE"}
=============================================================================
