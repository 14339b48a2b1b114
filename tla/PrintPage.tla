----------------------------- MODULE PrintPage -----------------------------
(***************************************************************************)
(* Browser printing (packages/web): preparePrint() has a seal issued for a *)
(* descriptor and puts it into an element of the page, prepareAndPrint()   *)
(* prints as well.  Calls overlap while they wait for the issuing service  *)
(* (examples/browser-print/src/server.ts).                                 *)
(***************************************************************************)
EXTENDS Naturals, Sequences, FiniteSets

CONSTANTS
  Preparations,   \* calls; each has a descriptor of its own, and the seal of p is named p
  Targets,        \* elements of the page
  Inside,         \* Inside[t]: t and the targets that are its descendants
  NoSeal          \* an answer that is not an acceptable seal

ASSUME InsideAssumption ==
  /\ Inside \in [Targets -> SUBSET Targets]
  /\ \A t \in Targets : t \in Inside[t]

VARIABLES
  preparation,  \* each call: its phase, its target, whether it prints
  seals,        \* the seals that were appended to each target, in order
  styled,       \* the number of style elements for printing
  prints        \* history: each printing, with the call that caused it and the seals in that call's target

printVars == <<preparation, seals, styled, prints>>

PrintInit ==
  /\ preparation = [p \in Preparations |-> [phase |-> "idle"]]
  /\ seals = [t \in Targets |-> <<>>]
  /\ styled = 0
  /\ prints = {}

\* Every seal that is in the given contents of target t or of one of its descendants.
Contents(all, t) == UNION {{all[u][i] : i \in 1..Len(all[u])} : u \in Inside[t]}

\* resolveTarget() has found the element; the descriptor is on its way.
Prepare(p) ==
  /\ preparation[p].phase = "idle"
  /\ \E t \in Targets, prints_ \in BOOLEAN :
       preparation' = [preparation EXCEPT ![p] = [phase |-> "requested", target |-> t, prints |-> prints_]]
  /\ UNCHANGED <<seals, styled, prints>>

\* The service issues a seal for the descriptor it was sent, or refuses.
Issue(p) ==
  /\ preparation[p].phase = "requested"
  /\ \E answer \in {p, NoSeal} :
       preparation' = [preparation EXCEPT ![p] = [phase |-> "answering", target |-> @.target, prints |-> @.prints, answer |-> answer]]
  /\ UNCHANGED <<seals, styled, prints>>

\* Mutant: injectSeal() appends its seal to those that are there.
InjectedBeside(t, seal) == [seals EXCEPT ![t] = Append(@, seal)]

\* injectSeal(): the seals in the target and below it go, and the new one is appended to the target.
Injected(t, seal) ==
  [u \in Targets |-> IF u = t THEN <<seal>> ELSE IF u \in Inside[t] THEN <<>> ELSE seals[u]]

\* The acceptable answer arrives: style, seal, and for prepareAndPrint() the printing. Answers come in
\* tasks of their own, so the promise continuations in between leave no room for another one.
SealArrives(p) ==
  LET call == preparation[p]
      after == Injected(call.target, call.answer)
  IN  /\ call.phase = "answering" /\ call.answer # NoSeal
      /\ seals' = after
      /\ styled' = IF styled = 0 THEN 1 ELSE styled
      /\ preparation' = [preparation EXCEPT ![p].phase = "prepared"]
      /\ prints' = IF call.prints
                   THEN prints \cup {[by |-> p, within |-> "prepareAndPrint", shown |-> Contents(after, call.target), style |-> styled']}
                   ELSE prints

\* An error status, a body that is too large, no JSON, or no seal; or the connection breaks.
Rejected(p) ==
  /\ \/ preparation[p].phase = "answering" /\ preparation[p].answer = NoSeal
     \/ preparation[p].phase = "requested"
  /\ preparation' = [preparation EXCEPT ![p].phase = "rejected"]
  /\ UNCHANGED <<seals, styled, prints>>

\* The caller of preparePrint() prints later, when other calls may have been answered.
PrintPrepared(p) ==
  /\ preparation[p].phase = "prepared"
  /\ prints' = prints \cup {[by |-> p, within |-> "print", shown |-> Contents(seals, preparation[p].target), style |-> styled]}
  /\ UNCHANGED <<preparation, seals, styled>>

PrintNext ==
  \E p \in Preparations : Prepare(p) \/ Issue(p) \/ SealArrives(p) \/ Rejected(p) \/ PrintPrepared(p)

PrintSpec == PrintInit /\ [][PrintNext]_printVars

-----------------------------------------------------------------------------
(* Properties *)

\* Part of PrintedPageCarriesItsSeal.
PrintTypeOK ==
  /\ seals \in [Targets -> Seq(Preparations)]
  /\ styled \in 0..1
  /\ \A print \in prints : print.by \in Preparations /\ print.shown \subseteq Preparations

\* What prepareAndPrint() prints shows, in its target, the seal of its own descriptor and no other,
\* with the style for print; a call that was rejected has left nothing and printed nothing; and no
\* element ever collects a second seal ("must finish seal issuance and rendering; failure aborts
\* printing", docs/product-specification.md:1119; seal-element.ts:11-33).
PrintedPageCarriesItsSeal ==
  /\ PrintTypeOK
  /\ \A print \in prints :
       /\ preparation[print.by].phase = "prepared" /\ print.style = 1
       /\ print.within = "prepareAndPrint" => print.shown = {print.by}
  /\ \A t \in Targets :
       /\ Len(seals[t]) <= 1
       /\ \A i \in 1..Len(seals[t]) : LET p == seals[t][i] IN preparation[p].phase = "prepared" /\ preparation[p].target = t
=============================================================================
