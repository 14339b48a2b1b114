--------------------------- MODULE StatusHistory ---------------------------
(***************************************************************************)
(* What the status service promises about one document: its lifecycle is   *)
(* issued once (ACTIVE) and then closed at most once, by one of the four   *)
(* closing states, and nothing that was recorded is ever taken back.  The  *)
(* transition table is that of isAllowed in                                *)
(* services/status/src/status-service.ts; the module says nothing of       *)
(* requests, clocks, storage or processes.                                 *)
(***************************************************************************)
EXTENDS Sequences

CONSTANTS
  Documents    \* issuer + document references

VARIABLES
  path,        \* path[d]: the states recorded for d, oldest first
  current      \* current[d]: the state the service projects for d

vars == <<path, current>>

ClosingStates == {"REVOKED", "CANCELLED", "SUPERSEDED", "EXPIRED"}
NoStatus == "NONE"

Init ==
  /\ path    = [d \in Documents |-> << >>]
  /\ current = [d \in Documents |-> NoStatus]

Record(d, s) ==
  /\ path'    = [path EXCEPT ![d] = Append(@, s)]
  /\ current' = [current EXCEPT ![d] = s]

\* A document is issued once.
Issue(d) ==
  /\ current[d] = NoStatus
  /\ Record(d, "ACTIVE")

\* An active document is closed once, for good.
Close(d, s) ==
  /\ current[d] = "ACTIVE"
  /\ Record(d, s)

Next == \E d \in Documents : Issue(d) \/ \E s \in ClosingStates : Close(d, s)

Spec == Init /\ [][Next]_vars
=============================================================================
