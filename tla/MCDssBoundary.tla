---------------------------- MODULE MCDssBoundary ----------------------------
(* An instance of DssBoundary for TLC. *)
EXTENDS DssBoundary

Mark(valid, intact, level) == [valid |-> valid, intact |-> intact, level |-> level]
SignAsk(level, as, digest) == [op |-> "sign", level |-> level, as |-> as, digest |-> digest]
VerifyAsk(marks) == [op |-> "verify", marks |-> marks]

\* One request for each way through the handlers, and a PDF whose second signature is broken.
MCAsks ==
  {SignAsk("B-B", "acme", TRUE), SignAsk("B-T", "acme", TRUE), SignAsk("B-B", "acme", FALSE),
   VerifyAsk(<<Mark(TRUE, TRUE, "B-B"), Mark(FALSE, FALSE, "B-B")>>),
   [op |-> "probe", well |-> FALSE], [op |-> "health"]}

\* As the client expects it, without a TSA, with another signer's credential.
MCConfigs == {[tsa |-> TRUE, as |-> "acme"], [tsa |-> FALSE, as |-> "acme"], [tsa |-> TRUE, as |-> "globex"]}
=============================================================================
