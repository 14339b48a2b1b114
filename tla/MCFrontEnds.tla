---------------------------- MODULE MCFrontEnds ----------------------------
EXTENDS Admin, Playground, PrintPage, Camera

VARIABLE part  \* which of the four the run is about: they share nothing, so that their states add up

MCToken(k, roles, expires) == [key |-> k, roles |-> roles, expires |-> expires]

MCAsk(route, token) ==
  [route |-> route, token |-> token, csrf |-> TRUE, wellFormed |-> TRUE, document |-> "doc", status |-> "REVOKED", inScope |-> TRUE]

\* Administrators with either key and two lifetimes, and one request for each reason to refuse.
MCAsks ==
  LET admin == MCToken("k1", {"admin"}, 5)
      signer == MCToken("k1", {"signer"}, 5)
  IN  {MCAsk("transition", MCToken(k, {"admin"}, e)) : k \in {"k1", "k2"}, e \in {3, 5}}
        \cup {[MCAsk("transition", admin) EXCEPT !.csrf = FALSE], [MCAsk("transition", admin) EXCEPT !.wellFormed = FALSE],
              [MCAsk("transition", admin) EXCEPT !.status = "ACTIVE"], MCAsk("transition", signer),
              MCAsk("session", admin), MCAsk("session", signer),
              MCAsk("lookup", admin), MCAsk("lookup", signer), [MCAsk("lookup", admin) EXCEPT !.wellFormed = FALSE],
              MCAsk("sign", signer), MCAsk("sign", admin), [MCAsk("sign", signer) EXCEPT !.csrf = FALSE],
              [MCAsk("sign", signer) EXCEPT !.inScope = FALSE], [MCAsk("sign", signer) EXCEPT !.wellFormed = FALSE]}

MCInside == [t \in Targets |-> IF t = "page" THEN Targets ELSE {t}]

FrontEndsInit ==
  /\ AdminInit /\ DemoInit /\ PrintInit /\ CameraInit /\ part \in {"admin", "playground", "print", "camera"}
  /\ part # "admin" => published = {"k1"}

FrontEndsNext ==
  /\ UNCHANGED part
  /\ \/ part = "admin" /\ AdminNext /\ UNCHANGED <<demoVars, printVars, cameraVars>>
     \/ part = "playground" /\ DemoNext /\ UNCHANGED <<adminVars, printVars, cameraVars>>
     \/ part = "print" /\ PrintNext /\ UNCHANGED <<adminVars, demoVars, cameraVars>>
     \/ part = "camera" /\ CameraNext /\ UNCHANGED <<adminVars, demoVars, printVars>>

FrontEndsSpec == FrontEndsInit /\ [][FrontEndsNext]_<<adminVars, demoVars, printVars, cameraVars, part>>
=============================================================================
