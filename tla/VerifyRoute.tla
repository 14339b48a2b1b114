---------------------------- MODULE VerifyRoute ----------------------------
(***************************************************************************)
(* What the verifier service takes a request for (apps/verifier-web/src/   *)
(* server.ts over packages/verifier/src/verify-input.ts): who may ask,     *)
(* which route and content type a body comes under, how long it may be and *)
(* which kind of evidence it is verified as.  The steps of a request in    *)
(* time are VerifierServer's; here a request says how they end.            *)
(***************************************************************************)
EXTENDS Integers

CONSTANTS PdfMax, ImageMax, TextMax   \* MAX_PDF_BYTES, MAX_PAPER_IMAGE_BYTES, MAX_PAPER_TEXT_BYTES

\* What the bytes of a body show: a PDF or PNG signature, text that starts with
\* CRD1: once trimmed, other text, or bytes that are no UTF-8.
Shows == {"pdf", "png", "crd1", "text", "binary"}

\* Content types once normalised: in lower case, without parameters; "none" when
\* there is none or a blank one.
Types == {"none", "application/pdf", "image/png", "text/plain", "text/vnd.credaryn.crd1", "application/json"}
TextTypes == {"text/plain", "text/vnd.credaryn.crd1"}

Verified(kind) == [status |-> "200", kind |-> kind]
Refused(status) == [status |-> status, kind |-> "none"]

-----------------------------------------------------------------------------
(* verify-input.ts *)

KindOfType(type) ==
  CASE type = "application/pdf" -> "pdf"
    [] type = "image/png" -> "paper-image"
    [] type \in TextTypes -> "paper-text"
    [] OTHER -> "none"

Magic(body) ==
  CASE body.shows = "pdf" -> "pdf"
    [] body.shows = "png" -> "paper-image"
    [] OTHER -> "none"

\* assertSize(): by the type first, then by what was detected.
Limit(type, detected) ==
  IF type = "image/png" \/ detected = "paper-image" THEN ImageMax
  ELSE IF type \in TextTypes \/ detected = "paper-text" THEN TextMax
  ELSE PdfMax

IsSealText(body) == body.shows = "crd1"

\* detectInput() without a content type.
Detected(body) ==
  LET kind == IF Magic(body) # "none" THEN Magic(body) ELSE "paper-text"
  IN IF body.size > Limit("none", kind) THEN Refused("413")
     ELSE IF Magic(body) = "none" /\ ~IsSealText(body) THEN Refused("400")
     ELSE Verified(kind)

\* Mutant: a content type is believed whatever the bytes are.
AsDeclared(body, type) ==
  IF body.size > Limit(type, "none") THEN Refused("413")
  ELSE IF KindOfType(type) = "none" THEN Refused("415")
  ELSE Verified(KindOfType(type))

\* detectInput() with one: the bytes have to show what it says.
Confirmed(body, type) ==
  LET kind == KindOfType(type)
  IN IF body.size > Limit(type, "none") THEN Refused("413")
     ELSE IF kind = "none" THEN Refused("415")
     ELSE IF \/ Magic(body) \notin {"none", kind}
             \/ kind # "paper-text" /\ Magic(body) # kind
             \/ kind = "paper-text" /\ ~IsSealText(body) THEN Refused("400")
     ELSE Verified(kind)

DetectInput(body, type) == IF type = "none" THEN Detected(body) ELSE Confirmed(body, type)

\* The functions of a Verifier that are told the kind.
TakenAs(kind, body) ==
  body.size <= Limit(CASE kind = "pdf" -> "application/pdf" [] kind = "paper-image" -> "image/png" [] OTHER -> "text/vnd.credaryn.crd1", "none")

-----------------------------------------------------------------------------
(* server.ts *)

\* applyCors(): the service's own origin, under the protocol its proxy states, and
\* those it is configured with.
OriginAllowed(request) == request.origin \in {"none", "own", "listed"}

\* validateRouteContentType()
RouteTakes(path, type) ==
  /\ type = "none" \/ KindOfType(type) # "none"
  /\ path = "/v1/verify/pdf" => type = "application/pdf"
  /\ path = "/v1/verify/paper" => KindOfType(type) \in {"paper-image", "paper-text"}

\* How a request goes on: it gets a verdict, its verification throws or takes too
\* long, or its body stops or breaks off after what came of it.
Fates == {"verdict", "throws", "late", "stalls", "breaks"}
Cut == {"stalls", "breaks"}

\* readBody(): the length that is declared, -1 when it is no length, and what came.
BodyOf(request) ==
  LET limit == Limit(request.type, "none")
  IN IF -1 \in request.declared THEN Refused("400")
     ELSE IF (\E n \in request.declared : n > limit) \/ request.body.size > limit THEN Refused("413")
     ELSE IF request.fate = "stalls" THEN Refused("408")
     ELSE IF request.fate = "breaks" THEN Refused("400")
     ELSE Verified("none")

VerifyRoutes == {"/v1/verify", "/v1/verify/pdf", "/v1/verify/paper"}
PlainRoutes == {"/health", "/v1/health", "/v1/version", "/"}
UnderV1(path) == path \in VerifyRoutes \cup {"/v1/health", "/v1/version", "/v1/other"}

\* What is recognised is verified; asWebError() when that fails.
Settled(taken, fate) ==
  CASE taken.status = "200" /\ fate = "throws" -> Refused("500")
    [] taken.status = "200" /\ fate = "late" -> Refused("504")
    [] OTHER -> taken

\* handleRequest() and verifyRequest() for a request the rate limiter admits; the
\* page itself may be missing.
Response(request) ==
  IF ~OriginAllowed(request) THEN Refused("403")
  ELSE IF request.method = "OPTIONS" /\ UnderV1(request.path) THEN Refused("204")
  ELSE IF request.method = "GET" /\ request.path \in PlainRoutes
       THEN IF request.path = "/" /\ request.fate = "throws" THEN Refused("500") ELSE Verified("none")
  ELSE IF ~(request.method = "POST" /\ request.path \in VerifyRoutes) THEN Refused("404")
  ELSE IF ~RouteTakes(request.path, request.type) THEN Refused("415")
  ELSE IF BodyOf(request).status # "200" THEN BodyOf(request)
  ELSE Settled(DetectInput(request.body, request.type), request.fate)

-----------------------------------------------------------------------------
(* Properties *)

Evidence == {"pdf", "paper-image", "paper-text"}
KindShown(body) ==
  CASE body.shows = "pdf" -> "pdf" [] body.shows = "png" -> "paper-image" [] body.shows = "crd1" -> "paper-text" [] OTHER -> "none"
KindMax(kind) == CASE kind = "pdf" -> PdfMax [] kind = "paper-image" -> ImageMax [] OTHER -> TextMax

AskedAs(request, path, type) == Response([request EXCEPT !.path = path, !.type = type])
WithVerdict(request) == Response([request EXCEPT !.fate = "verdict"])

\* How an answer tells the fate of its request, beside what it would have been with
\* a verdict.
IsTold(fate, response, otherwise) ==
  /\ otherwise.status \in {"200", "400", "403", "413", "415"}
  /\ fate \notin Cut =>
       response.status = (IF otherwise.kind \notin Evidence THEN otherwise.status
                          ELSE CASE fate = "throws" -> "500" [] fate = "late" -> "504" [] OTHER -> "200")
  /\ fate \in Cut =>
       /\ response.kind \notin Evidence
       /\ otherwise.kind \in Evidence => response.status = (IF fate = "stalls" THEN "408" ELSE "400")
       /\ response.status = "408" => otherwise.status \in {"200", "400", "413"}

\* A request is verified only for an origin that may ask, as the kind its bytes
\* show and within that kind's size, which the function for that kind would take
\* too; and which of the routes and content types a body came under decides only
\* whether it is taken: what one of them verifies, the general route verifies as
\* the same kind without being told, and so do its own route and type.  A failure of
\* the verification, a late verdict or a body that is cut off is told as what it is,
\* and only when nothing else was wrong: never as a verdict, and what is wrong with
\* the request itself never as a failure of the service.
RouteAgrees(request) ==
  LET response == Response(request)
      otherwise == WithVerdict(request)
      as(path, type) == AskedAs(request, path, type)
  IN /\ response.kind \in Evidence =>
          /\ response.kind = KindShown(request.body) /\ request.body.size <= KindMax(response.kind)
          /\ TakenAs(response.kind, request.body)
          /\ request.origin # "foreign" /\ request.method = "POST"
          /\ as("/v1/verify", "none") = response
          /\ \E path \in VerifyRoutes \ {"/v1/verify"}, type \in Types : as(path, type) = response
     /\ response.status = "413" =>
          \/ \E n \in request.declared \cup {request.body.size} : n > KindMax(KindShown(request.body))
          \/ KindOfType(request.type) # KindShown(request.body)
     /\ request.method = "POST" /\ request.path \in VerifyRoutes => IsTold(request.fate, response, otherwise)
=============================================================================
