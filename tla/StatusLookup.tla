---------------------------- MODULE StatusLookup ----------------------------
(***************************************************************************)
(* Verifications that ask the status service (StatusService): the          *)
(* applyStatusResolver() of the verifier (packages/verifier/src/status.ts) *)
(* over createHttpStatusResolver() (services/status/src/                   *)
(* status-resolver.ts), a GET with a timer that ends in what the service   *)
(* holds or leaves the result UNCHECKED.                                   *)
(*                                                                         *)
(* A lookup of StatusService is the service's handler of the GET of the    *)
(* verification of the same name.  The status URLs name the service; the   *)
(* verifier's opinion on the age of a record changes no result and is left *)
(* out.                                                                    *)
(***************************************************************************)
EXTENDS StatusService

CONSTANTS
  ServiceUrl,  \* CREDARYN_STATUS_URL: "none", or as a status URL
  StatusUrls   \* the status URLs in the seals that are verified

\* "usable": https, or http where that is allowed; "unusable": anything else.
UrlKinds == {"none", "usable", "unusable"}

ASSUME UrlsAssumption == ServiceUrl \in UrlKinds /\ StatusUrls \subseteq UrlKinds

VARIABLE
  check  \* check[g]: the status check of verification g

lookupVars == <<vars, check>>

-----------------------------------------------------------------------------
\* "waiting": for fetch() or for the body; "checked": over.  held is a history
\* variable: the states the service held for the document since the check began.
Unasked == [phase |-> "unasked"]
CheckStates ==
  [phase : {"waiting", "checked"}, doc : Documents, status : Statuses \cup {"UNCHECKED"},
   held : SUBSET (Statuses \cup {NoStatus})]

Waiting(g) == check[g].phase = "waiting"
HeldStates(d) == {record.status : record \in Current(d)}

\* The configured service takes precedence over the document's URL.
Target(url) == IF ServiceUrl # "none" THEN ServiceUrl ELSE url

Begun(d, phase, status) == [phase |-> phase, doc |-> d, status |-> status, held |-> HeldStates(d)]

\* Mutant: an answer is kept and serves every later check of the document.
AskOnce(g, d, url) ==
  LET answers == {check[h].status : h \in {h \in Lookups :
                    check[h].phase = "checked" /\ check[h].doc = d /\ check[h].status # "UNCHECKED"}}
  IN /\ check[g] = Unasked
     /\ check' = [check EXCEPT ![g] =
          IF answers # {} THEN Begun(d, "checked", CHOOSE s \in answers : TRUE)
          ELSE Begun(d, IF Target(url) = "usable" THEN "waiting" ELSE "checked", "UNCHECKED")]
     /\ UNCHANGED vars

\* The verdict is in; a missing or unusable URL is not asked.
Ask(g, d, url) ==
  /\ check[g] = Unasked
  /\ check' = [check EXCEPT ![g] =
       Begun(d, IF Target(url) = "usable" THEN "waiting" ELSE "checked", "UNCHECKED")]
  /\ UNCHANGED vars

\* The GET reaches a replica.  One that arrives after the check is over changes
\* nothing and is left out.
Arrive(g, r) ==
  /\ Waiting(g)
  /\ BeginLookup(g, r, check[g].doc)
  /\ ~lookup'[g].strict
  /\ UNCHANGED check

\* The response is read whole: 200 with a state, or something else.
Receive(g) ==
  /\ Waiting(g) /\ lookup[g].phase = "done"
  /\ check' = [check EXCEPT ![g].phase = "checked",
       ![g].status = IF lookup[g].answer \in Statuses THEN lookup[g].answer ELSE "UNCHECKED"]
  /\ UNCHANGED vars

\* The timer runs out, the connection breaks, the response is a redirect, too
\* large or not JSON.
Abort(g) ==
  /\ Waiting(g)
  /\ check' = [check EXCEPT ![g].phase = "checked"]
  /\ UNCHANGED vars

\* The service goes on, no GET arrives; what it holds then is noted.
ServiceStep ==
  /\ Next /\ \A g \in Lookups : lookup[g] = Unsent => lookup'[g] = Unsent
  /\ LET HeldNow == [d \in Documents |-> HeldStates(d)']
     IN check' = [g \in Lookups |->
          IF Waiting(g) THEN [check[g] EXCEPT !.held = @ \cup HeldNow[check[g].doc]] ELSE check[g]]

-----------------------------------------------------------------------------
LookupInit == Init /\ check = [g \in Lookups |-> Unasked]

LookupNext ==
  \/ \E g \in Lookups :
       \/ \E d \in Documents, url \in StatusUrls : Ask(g, d, url)
       \/ \E r \in Replicas : Arrive(g, r)
       \/ Receive(g) \/ Abort(g)
  \/ ServiceStep

LookupSpec == LookupInit /\ [][LookupNext]_lookupVars

-----------------------------------------------------------------------------
(* Properties *)

\* A lifecycle status in a verification result is one the service held for the
\* document at a moment of that verification, whatever transitions, outages,
\* restarts and late answers come in between (applyStatusResolver).
ReportedWasHeld ==
  \A g \in Lookups : check[g] # Unasked =>
    /\ check[g] \in CheckStates
    /\ check[g].status # "UNCHECKED" => check[g].status \in check[g].held
=============================================================================
