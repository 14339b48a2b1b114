--------------------------- MODULE KeySuccession ---------------------------
(***************************************************************************)
(* What the key lifecycle registry promises: an issuer has one signing key *)
(* at a time, a key that stopped signing (or was withdrawn before it ever  *)
(* signed) never signs again, and appointing a successor and ending its    *)
(* predecessor are one step.                                               *)
(***************************************************************************)
EXTENDS Naturals

CONSTANTS Issuers, KeyVersions

VARIABLES
  signing,  \* signing[i]: the key versions that sign for issuer i
  spent     \* the key versions that will never sign again

vars == <<signing, spent>>

Init == /\ signing = [i \in Issuers |-> {}]
        /\ spent = {}

Appoint(i, k) ==
  /\ k \notin spent \union signing[i]
  /\ signing' = [signing EXCEPT ![i] = {k}]
  /\ spent' = spent \union signing[i]

Dismiss(i) ==
  /\ signing[i] # {}
  /\ signing' = [signing EXCEPT ![i] = {}]
  /\ spent' = spent \union signing[i]

Withdraw(k) ==
  /\ \A i \in Issuers : k \notin signing[i]
  /\ spent' = spent \union {k}
  /\ UNCHANGED signing

Next == \/ \E i \in Issuers, k \in KeyVersions : Appoint(i, k)
        \/ \E i \in Issuers : Dismiss(i)
        \/ \E k \in KeyVersions : Withdraw(k)

Spec == Init /\ [][Next]_vars
=============================================================================
