--------------------------- MODULE DecisionsProofs ---------------------------
(***************************************************************************)
(* What the functions that decide about input and output promise, for      *)
(* every request, command line, logged value and trust bundle, of any      *)
(* size.  DidWebProofs adds the did:web resolver.                          *)
(***************************************************************************)
EXTENDS Decisions, FormatsProofs
-----------------------------------------------------------------------------
(* Induction, and folds over the first numbers *)

\* The largest of the numbers up to n + 1 is n + 1, where it is one of them.
LEMMA MaxOfRange == ASSUME NEW n \in Nat, NEW s \in SUBSET (1..n+1), n + 1 \in s PROVE Max(s) = n + 1
<1>1. \A x \in s : x >= n + 1 => x = n + 1
  OBVIOUS
<1>2. \A y \in s : n + 1 >= y
  OBVIOUS
<1> DEFINE m == Max(s)
<1>3. m \in s /\ \A y \in s : m >= y
  BY <1>2 DEF Max
<1> QED BY <1>1, <1>3

\* The largest of some numbers is one of them, and none is larger.
LEMMA MaxInside == ASSUME NEW n \in Nat, NEW s \in SUBSET (1..n), s # {} PROVE Max(s) \in s /\ \A y \in s : Max(s) >= y
<1> DEFINE T == {k \in Nat : \A y \in s : y <= k}
<1>1. n \in T
  OBVIOUS
<1>2. PICK k \in T : \A j \in T : k <= j
  <2> HIDE DEF T
  <2>1. T \in SUBSET Nat BY DEF T
  <2> QED BY <1>1, <2>1, LeastOf
<1>3. k \in s
  <2> SUFFICES ASSUME k \notin s PROVE FALSE
    OBVIOUS
  <2>0. k \in Nat /\ \A y \in s : y <= k
    OBVIOUS
  <2>1. PICK y \in s : y \in 1..n
    OBVIOUS
  <2>2. k - 1 \in Nat /\ \A z \in s : z <= k - 1
    BY <2>0, <2>1
  <2>3. k - 1 \in T
    BY <2>2
  <2> QED BY <2>3, <2>0, <1>2
<1> QED BY <1>3 DEF Max

\* A fold over 1..n from b by the steps of G.
Folds(f, b, n, G) ==
  \A s \in SUBSET (1..n) : f[s] = IF s = {} THEN b ELSE G[<<f[s \ {Max(s)}], Max(s)>>]
\* The same, of a function that is known to fold only where it stays in X.
FoldsWithin(f, b, n, G, X) ==
  /\ f[{}] = b
  /\ \A s \in SUBSET (1..n) : s # {} /\ f[s \ {Max(s)}] \in X => f[s] = G[<<f[s \ {Max(s)}], Max(s)>>]

\* Such a fold exists.
HasFold(b, n, G, X) == \E f \in [SUBSET (1..n) -> X] : Folds(f, b, n, G)
\* A fold over the first n numbers is the end of a chain.
HasChain(iter, b, n, G, X) == \E h \in [0..n -> X] : IsChain(h, b, n, G) /\ iter[1..n] = h[n]

\* A fold by steps that stay in X exists.
LEMMA FoldExists ==
  ASSUME NEW X, NEW b \in X, NEW n \in Nat, NEW G, IsStep(G, n, X)
  PROVE  HasFold(b, n, G, X)
<1>0. G \in [X \X (1..n) -> X]
  BY DEF IsStep
<1> DEFINE Has(k) == \E f \in [SUBSET (1..k) -> X] : Folds(f, b, k, G)
           T == {k \in Nat : k <= n => Has(k)}
<1>1. 0 \in T
  <2>1. SUBSET (1..0) = {{}}
    OBVIOUS
  <2>2. [s \in SUBSET (1..0) |-> b] \in [SUBSET (1..0) -> X]
    OBVIOUS
  <2> QED BY <2>1, <2>2 DEF Folds
<1>2. ASSUME NEW k \in T PROVE k + 1 \in T
  <2> SUFFICES ASSUME k \in Nat, k + 1 <= n, Has(k)
               PROVE Has(k + 1)
    <3> HIDE DEF Has
    <3> QED OBVIOUS
  <2>1. PICK f \in [SUBSET (1..k) -> X] : Folds(f, b, k, G)
    OBVIOUS
  <2> DEFINE g == [s \in SUBSET (1..k+1) |-> IF k + 1 \in s THEN G[<<f[s \ {k+1}], k+1>>] ELSE f[s]]
  <2>2. \A s \in SUBSET (1..k+1) : /\ k + 1 \in s => s \ {k+1} \in SUBSET (1..k)
                                   /\ k + 1 \notin s => s \in SUBSET (1..k)
    OBVIOUS
  <2>3. g \in [SUBSET (1..k+1) -> X]
    <3> SUFFICES ASSUME NEW s \in SUBSET (1..k+1) PROVE (IF k + 1 \in s THEN G[<<f[s \ {k+1}], k+1>>] ELSE f[s]) \in X
      OBVIOUS
    <3> QED BY <1>0, <2>2
  <2>4. ASSUME NEW s \in SUBSET (1..k+1) PROVE g[s] = IF s = {} THEN b ELSE G[<<g[s \ {Max(s)}], Max(s)>>]
    <3>1. CASE k + 1 \in s
      <4>1. Max(s) = k + 1
        BY <3>1, MaxOfRange
      <4>2. s \ {k+1} \in SUBSET (1..k+1) /\ k + 1 \notin s \ {k+1} /\ s # {}
        BY <3>1
      <4>3. g[s \ {k+1}] = f[s \ {k+1}]
        BY <4>2
      <4> QED BY <3>1, <4>1, <4>2, <4>3
    <3>2. CASE k + 1 \notin s
      <4>1. s \in SUBSET (1..k) /\ s \ {Max(s)} \in SUBSET (1..k+1) /\ k + 1 \notin s \ {Max(s)}
        BY <3>2, <2>2
      <4>2. g[s] = f[s] /\ g[s \ {Max(s)}] = f[s \ {Max(s)}]
        BY <3>2, <4>1
      <4> QED BY <4>1, <4>2, <2>1 DEF Folds
    <3> QED BY <3>1, <3>2
  <2> HIDE DEF g
  <2> QED BY <2>3, <2>4 DEF Folds
<1>3. T = Nat
  <2> HIDE DEF T
  <2>1. T \in SUBSET Nat BY DEF T
  <2> QED BY <1>1, <1>2, <2>1, Induction
<1>4. Has(n)
  <2> HIDE DEF Has
  <2> QED BY <1>3
<1> QED BY <1>4 DEF HasFold

\* A fold over the first n numbers is what n steps, one after the other, come to.
LEMMA FoldChain ==
  ASSUME NEW X, NEW b \in X, NEW n \in Nat, NEW G, IsStep(G, n, X), NEW iter, FoldsWithin(iter, b, n, G, X)
  PROVE  HasChain(iter, b, n, G, X)
<1>0. G \in [X \X (1..n) -> X]
  BY DEF IsStep
<1> DEFINE h == [k \in 0..n |-> iter[1..k]]
           T == {k \in Nat : k <= n => h[k] \in X}
<1>1. h[0] = b
  <2>1. 1..0 = {}
    OBVIOUS
  <2> QED BY <2>1 DEF FoldsWithin
<1>2. ASSUME NEW k \in 1..n, h[k-1] \in X PROVE h[k] = G[<<h[k-1], k>>] /\ h[k] \in X
  <2>1. (1..k) \in SUBSET (1..n) /\ k \in 1..k
    OBVIOUS
  <2>2. Max(1..k) = k
    <3>1. k - 1 \in Nat /\ (k - 1) + 1 = k
      OBVIOUS
    <3> QED BY <3>1, <2>1, MaxOfRange
  <2>3. (1..k) \ {k} = 1..(k-1)
    OBVIOUS
  <2>4. h[k] = iter[1..k] /\ h[k-1] = iter[1..(k-1)]
    OBVIOUS
  <2> HIDE DEF h
  <2>5. iter[1..k] = G[<<iter[1..(k-1)], k>>]
    BY <1>2, <2>1, <2>2, <2>3, <2>4 DEF FoldsWithin
  <2> QED BY <1>0, <1>2, <2>4, <2>5
<1>3. T = Nat
  <2>1. 0 \in T
    BY <1>1
  <2>2. ASSUME NEW k \in T PROVE k + 1 \in T
    <3>1. ASSUME k + 1 <= n PROVE h[k + 1] \in X
      <4>1. h[k] \in X
        BY <3>1
      <4> DEFINE j == k + 1
      <4>2. j \in 1..n /\ j - 1 = k
        BY <3>1
      <4> HIDE DEF h, j
      <4>3. h[j] \in X
        BY <4>1, <4>2, <1>2
      <4> QED BY <4>3 DEF j
    <3>2. k + 1 \in Nat
      OBVIOUS
    <3> HIDE DEF h
    <3> QED BY <3>1, <3>2
  <2> HIDE DEF T
  <2>3. T \in SUBSET Nat
    BY DEF T
  <2> QED BY <2>1, <2>2, <2>3, Induction
<1>4. h \in [0..n -> X]
  <2>1. ASSUME NEW k \in 0..n PROVE h[k] \in X
    <3>1. k \in T
      <4> HIDE DEF T
      <4> QED BY <1>3
    <3> HIDE DEF h
    <3> QED BY <3>1
  <2>2. h = [k \in 0..n |-> h[k]]
    OBVIOUS
  <2> HIDE DEF h
  <2> QED BY <2>1, <2>2
<1>5. \A k \in 1..n : h[k] = G[<<h[k-1], k>>]
  <2> TAKE k \in 1..n
  <2>1. k - 1 \in 0..n
    OBVIOUS
  <2>2. h[k-1] \in X
    BY <1>4, <2>1
  <2> HIDE DEF h
  <2> QED BY <1>2, <2>2
<1>6. iter[1..n] = h[n]
  OBVIOUS
<1> HIDE DEF h
<1> QED BY <1>1, <1>4, <1>5, <1>6 DEF IsChain, HasChain

-----------------------------------------------------------------------------
(* Requests to the verifier service (server.ts, verify-input.ts) *)

\* The kinds that the content types say.
LEMMA KindsOfTypes ==
  /\ Shell!KindOfType("none") = "none" /\ Shell!KindOfType("application/json") = "none"
  /\ Shell!KindOfType("application/pdf") = "pdf" /\ Shell!KindOfType("image/png") = "paper-image"
  /\ Shell!KindOfType("text/plain") = "paper-text" /\ Shell!KindOfType("text/vnd.credaryn.crd1") = "paper-text"
BY DEF Shell!KindOfType, Shell!TextTypes

\* The kinds that bodies show, and what their first bytes alone tell of them.
LEMMA KindsShown ==
  ASSUME NEW body, body.shows \in Shell!Shows
  PROVE  /\ body.shows = "pdf" => Shell!KindShown(body) = "pdf" /\ Shell!Magic(body) = "pdf"
         /\ body.shows = "png" => Shell!KindShown(body) = "paper-image" /\ Shell!Magic(body) = "paper-image"
         /\ body.shows = "crd1" => Shell!KindShown(body) = "paper-text" /\ Shell!Magic(body) = "none"
         /\ body.shows \in {"text", "binary"} => Shell!KindShown(body) = "none" /\ Shell!Magic(body) = "none"
BY DEF Shell!KindShown, Shell!Magic, Shell!Shows

\* The limits of the kinds.
LEMMA KindSizes ==
  /\ Shell!KindMax("pdf") = PdfMax /\ Shell!KindMax("paper-image") = ImageMax
  /\ Shell!KindMax("paper-text") = TextMax /\ Shell!KindMax("none") = TextMax
BY DEF Shell!KindMax

\* What a body is taken for without a content type, by its limits.
LEMMA DetectedIs ==
  ASSUME NEW body, body.shows \in Shell!Shows, body.size \in Nat
  PROVE  Shell!Detected(body) =
           IF body.size > Shell!KindMax(Shell!KindShown(body)) THEN Shell!Refused("413")
           ELSE IF Shell!KindShown(body) = "none" THEN Shell!Refused("400")
           ELSE Shell!Verified(Shell!KindShown(body))
BY KindsShown, KindSizes DEF Shell!Detected, Shell!Limit, Shell!IsSealText, Shell!Shows, Shell!TextTypes

\* What it is taken for with one.
LEMMA ConfirmedIs ==
  ASSUME NEW body, body.shows \in Shell!Shows, body.size \in Nat, NEW type \in Shell!Types, type # "none"
  PROVE  Shell!Confirmed(body, type) =
           IF body.size > Shell!Limit(type, "none") THEN Shell!Refused("413")
           ELSE IF Shell!KindOfType(type) = "none" THEN Shell!Refused("415")
           ELSE IF Shell!KindOfType(type) # Shell!KindShown(body) THEN Shell!Refused("400")
           ELSE Shell!Verified(Shell!KindShown(body))
<1>1. Shell!KindOfType(type) \in {"none", "pdf", "paper-image", "paper-text"}
  BY KindsOfTypes DEF Shell!Types
<1> QED BY <1>1, KindsShown DEF Shell!Confirmed, Shell!IsSealText, Shell!Shows

\* The limit of a content type is the one of the kind it says.
LEMMA LimitsOfTypes ==
  ASSUME NEW type \in Shell!Types
  PROVE  /\ Shell!KindOfType(type) # "none" => Shell!Limit(type, "none") = Shell!KindMax(Shell!KindOfType(type))
         /\ Shell!KindOfType(type) = "none" => Shell!Limit(type, "none") = PdfMax
BY KindsOfTypes, KindSizes DEF Shell!Types, Shell!Limit, Shell!TextTypes

\* Every kind of evidence is within the largest limit.
LEMMA KindsFit ==
  /\ \A kind \in {"none", "pdf", "paper-image", "paper-text"} : Shell!KindMax(kind) \in Nat /\ Shell!KindMax(kind) <= PdfMax
  /\ PdfMax \in Nat
BY KindSizes, LimitsAssumption

\* A request whose stated length is not less than what came of its body.
IsStated(request) ==
  /\ DOMAIN request = {"method", "path", "origin", "type", "declared", "body", "fate"}
  /\ request.type \in Shell!Types /\ request.body \in [shows : Shell!Shows, size : Nat] /\ request.fate \in Shell!Fates
  /\ \A n \in request.declared : n = -1 \/ (n \in Nat /\ n >= request.body.size)
  /\ \A m, n \in request.declared : m = n

LEMMA RequestsAreStated ==
  ASSUME NEW request, IsRequest(request)
  PROVE  IsStated(request) /\ (request.fate \notin Shell!Cut => request.declared \subseteq {-1, request.body.size})
<1>1. request.body.size \in Nat
  BY DEF IsRequest
<1>2. ASSUME NEW n \in request.declared PROVE n = -1 \/ (n \in Nat /\ n >= request.body.size)
  BY <1>1 DEF IsRequest
<1> QED BY <1>2 DEF IsRequest, IsStated

\* What counts against a limit: the length stated and what came.
Longer(request, limit) == \E n \in request.declared \cup {request.body.size} : n > limit

\* What a request's content type and body decide once it is admitted.
LEMMA BodyAdmitted ==
  ASSUME NEW request, IsStated(request)
  PROVE  Shell!BodyOf(request) =
           IF -1 \in request.declared THEN Shell!Refused("400")
           ELSE IF Longer(request, Shell!Limit(request.type, "none")) THEN Shell!Refused("413")
           ELSE IF request.fate = "stalls" THEN Shell!Refused("408")
           ELSE IF request.fate = "breaks" THEN Shell!Refused("400")
           ELSE Shell!Verified("none")
BY DEF Shell!BodyOf, Longer

\* What is answered to an admitted request for a verification.
Judged(request) ==
  IF ~Shell!RouteTakes(request.path, request.type) THEN Shell!Refused("415")
  ELSE IF Shell!BodyOf(request).status # "200" THEN Shell!BodyOf(request)
  ELSE Shell!Settled(Shell!DetectInput(request.body, request.type), request.fate)

\* A request with an allowed origin, method and route is judged; any other is refused unread.
LEMMA ResponseIs ==
  ASSUME NEW request
  PROVE  /\ Shell!OriginAllowed(request) /\ request.method = "POST" /\ request.path \in Shell!VerifyRoutes
              => Shell!Response(request) = Judged(request)
         /\ ~(Shell!OriginAllowed(request) /\ request.method = "POST" /\ request.path \in Shell!VerifyRoutes)
              => Shell!Response(request).kind = "none" /\ Shell!Response(request).status # "413"
         /\ ~Shell!OriginAllowed(request) => Shell!Response(request) = Shell!Refused("403")
BY DEF Shell!Response, Judged, Shell!Refused, Shell!Verified, Shell!VerifyRoutes, Shell!PlainRoutes, Shell!UnderV1

\* The records of answers.
LEMMA AnswersAre ==
  /\ \A status : Shell!Refused(status).kind = "none" /\ Shell!Refused(status).status = status
  /\ \A kind : Shell!Verified(kind).kind = kind /\ Shell!Verified(kind).status = "200"
BY DEF Shell!Refused, Shell!Verified

\* Only what would be verified depends on how the verification ends.
LEMMA SettledIs ==
  ASSUME NEW fate, NEW taken
  PROVE  /\ taken.status # "200" \/ fate \notin {"throws", "late"} => Shell!Settled(taken, fate) = taken
         /\ taken.status = "200" /\ fate = "throws" => Shell!Settled(taken, fate) = Shell!Refused("500")
         /\ taken.status = "200" /\ fate = "late" => Shell!Settled(taken, fate) = Shell!Refused("504")
BY DEF Shell!Settled

\* What a body is recognised as under a content type.
LEMMA RecognisedIs ==
  ASSUME NEW body \in [shows : Shell!Shows, size : Nat], NEW type \in Shell!Types
  PROVE  LET shown == Shell!KindShown(body)
             told == Shell!KindOfType(type)
             limit == Shell!Limit(type, "none")
         IN Shell!DetectInput(body, type) =
              IF type = "none"
                THEN IF body.size > Shell!KindMax(shown) THEN Shell!Refused("413")
                     ELSE IF shown = "none" THEN Shell!Refused("400") ELSE Shell!Verified(shown)
                ELSE IF body.size > limit THEN Shell!Refused("413")
                     ELSE IF told = "none" THEN Shell!Refused("415")
                     ELSE IF told # shown THEN Shell!Refused("400") ELSE Shell!Verified(shown)
BY DetectedIs, ConfirmedIs DEF Shell!DetectInput

\* Without a content type the general route judges a body by what it shows.
LEMMA JudgedPlainly ==
  ASSUME NEW request, IsStated(request), request.path = "/v1/verify", request.type = "none", request.fate = "verdict",
         request.declared \subseteq {request.body.size},
         Shell!KindShown(request.body) # "none", request.body.size <= Shell!KindMax(Shell!KindShown(request.body))
  PROVE  Judged(request) = Shell!Verified(Shell!KindShown(request.body))
<1>1. request.body \in [shows : Shell!Shows, size : Nat] /\ request.type \in Shell!Types
  BY DEF IsStated
<1>2. Shell!KindShown(request.body) \in {"pdf", "paper-image", "paper-text"}
  BY <1>1, KindsShown DEF Shell!Shows
<1>3. request.body.size <= PdfMax /\ Shell!Limit("none", "none") = PdfMax /\ PdfMax \in Nat
  BY <1>1, <1>2, KindsFit DEF Shell!Limit, Shell!TextTypes
<1>4. Shell!BodyOf(request) = Shell!Verified("none")
  <2>1. -1 \notin request.declared /\ ~Longer(request, PdfMax)
    BY <1>1, <1>3 DEF Longer
  <2> QED BY <1>3, <2>1, BodyAdmitted
<1>5. Shell!DetectInput(request.body, request.type) = Shell!Verified(Shell!KindShown(request.body))
  BY <1>1, <1>2, RecognisedIs, KindsFit
<1>6. Shell!RouteTakes(request.path, request.type)
  BY DEF Shell!RouteTakes
<1> QED BY <1>4, <1>5, <1>6, SettledIs, AnswersAre DEF Judged

\* Under the type and the route of what a body shows, it is judged so too.
LEMMA JudgedByType ==
  ASSUME NEW request, IsStated(request), request.path \in Shell!VerifyRoutes, request.type # "none", request.fate = "verdict",
         request.declared \subseteq {request.body.size},
         Shell!RouteTakes(request.path, request.type), Shell!KindOfType(request.type) = Shell!KindShown(request.body),
         request.body.size <= Shell!KindMax(Shell!KindShown(request.body)), Shell!KindShown(request.body) # "none"
  PROVE  Judged(request) = Shell!Verified(Shell!KindShown(request.body))
<1>1. request.body \in [shows : Shell!Shows, size : Nat] /\ request.type \in Shell!Types
  BY DEF IsStated
<1>2. Shell!KindShown(request.body) \in {"pdf", "paper-image", "paper-text"}
  BY <1>1, KindsShown DEF Shell!Shows
<1>3. Shell!Limit(request.type, "none") = Shell!KindMax(Shell!KindShown(request.body)) /\ Shell!KindMax(Shell!KindShown(request.body)) \in Nat
  BY <1>1, <1>2, LimitsOfTypes, KindsFit
<1>4. Shell!BodyOf(request) = Shell!Verified("none")
  <2>1. -1 \notin request.declared /\ ~Longer(request, Shell!KindMax(Shell!KindShown(request.body)))
    BY <1>1, <1>3 DEF Longer
  <2> QED BY <1>3, <2>1, BodyAdmitted
<1>5. Shell!DetectInput(request.body, request.type) = Shell!Verified(Shell!KindShown(request.body))
  BY <1>1, <1>2, <1>3, RecognisedIs
<1> QED BY <1>4, <1>5, SettledIs, AnswersAre DEF Judged

\* What a request whose body came is taken for before it is verified.
LEMMA TakenIs ==
  ASSUME NEW request, IsStated(request)
  PROVE  LET shown == Shell!KindShown(request.body)
             told == Shell!KindOfType(request.type)
             taken == Shell!DetectInput(request.body, request.type)
         IN /\ \/ taken \in {Shell!Refused("400"), Shell!Refused("415")}
               \/ taken = Shell!Refused("413") /\ (request.body.size > Shell!KindMax(shown) \/ told # shown)
               \/ taken = Shell!Verified(shown) /\ shown \in Shell!Evidence /\ (request.type = "none" \/ told = shown)
            /\ Shell!RouteTakes(request.path, request.type) => taken # Shell!Refused("415")
            /\ taken = Shell!Verified(shown) /\ shown \in Shell!Evidence => request.body.size <= Shell!KindMax(shown)
            /\ Longer(request, Shell!Limit(request.type, "none")) => Longer(request, Shell!KindMax(shown)) \/ told # shown
<1> DEFINE shown == Shell!KindShown(request.body)
           told == Shell!KindOfType(request.type)
           limit == Shell!Limit(request.type, "none")
           taken == Shell!DetectInput(request.body, request.type)
<1>1. request.body \in [shows : Shell!Shows, size : Nat] /\ request.type \in Shell!Types /\ request.body.size \in Nat
  BY DEF IsStated
<1>2. shown \in {"none", "pdf", "paper-image", "paper-text"} /\ told \in {"none", "pdf", "paper-image", "paper-text"}
  BY <1>1, KindsShown, KindsOfTypes DEF Shell!Shows, Shell!Types
<1>3. /\ told # "none" => limit = Shell!KindMax(told)
      /\ told = "none" => limit = PdfMax
      /\ Shell!KindMax(shown) \in Nat /\ Shell!KindMax(told) \in Nat /\ Shell!KindMax(shown) <= PdfMax /\ PdfMax \in Nat
  BY <1>1, <1>2, LimitsOfTypes, KindsFit
<1>4. taken = IF request.type = "none"
                THEN IF request.body.size > Shell!KindMax(shown) THEN Shell!Refused("413")
                     ELSE IF shown = "none" THEN Shell!Refused("400") ELSE Shell!Verified(shown)
                ELSE IF request.body.size > limit THEN Shell!Refused("413")
                     ELSE IF told = "none" THEN Shell!Refused("415")
                     ELSE IF told # shown THEN Shell!Refused("400") ELSE Shell!Verified(shown)
  BY <1>1, RecognisedIs
<1>5. Shell!RouteTakes(request.path, request.type) => request.type = "none" \/ told # "none"
  BY DEF Shell!RouteTakes
<1>6. shown # "none" => shown \in Shell!Evidence
  BY <1>2 DEF Shell!Evidence
<1>7. "none" \notin Shell!Evidence
  BY DEF Shell!Evidence
<1>8. Longer(request, limit) => Longer(request, Shell!KindMax(shown)) \/ told # shown
  <2>1. CASE told = shown /\ told # "none"
    BY <1>3, <2>1
  <2>2. CASE told = shown /\ told = "none"
    <3>1. ASSUME NEW n \in request.declared \cup {request.body.size}, n > PdfMax PROVE n > Shell!KindMax(shown)
      <4>1. n \in Int
        BY <1>1 DEF IsStated
      <4> HIDE DEF shown
      <4> QED BY <1>3, <3>1, <4>1
    <3> HIDE DEF shown
    <3> QED BY <1>3, <2>2, <3>1 DEF Longer
  <2> QED BY <2>1, <2>2
<1>9. taken \in {Shell!Refused("413"), Shell!Refused("400"), Shell!Refused("415"), Shell!Verified(shown)}
  <2> HIDE DEF shown, told, limit, taken
  <2> QED BY <1>4
<1>10. taken = Shell!Refused("413") => request.body.size > Shell!KindMax(shown) \/ told # shown
  <2> HIDE DEF shown, told, limit, taken
  <2>1. Shell!Refused("413") \notin {Shell!Refused("400"), Shell!Refused("415"), Shell!Verified(shown)}
    BY AnswersAre
  <2>2. CASE request.type = "none"
    BY <1>4, <2>1, <2>2
  <2>3. CASE request.type # "none"
    <3>1. taken = Shell!Refused("413") => request.body.size > limit
      BY <1>4, <2>1, <2>3
    <3>2. request.body.size > limit /\ told = shown => request.body.size > Shell!KindMax(shown)
      BY <1>1, <1>3
    <3> QED BY <3>1, <3>2
  <2> QED BY <2>2, <2>3
<1>11. taken = Shell!Verified(shown) => /\ shown \in Shell!Evidence /\ (request.type = "none" \/ told = shown)
                                        /\ request.body.size <= Shell!KindMax(shown)
  <2> HIDE DEF shown, told, limit, taken
  <2>1. Shell!Verified(shown) \notin {Shell!Refused("400"), Shell!Refused("415"), Shell!Refused("413")}
    BY AnswersAre
  <2>2. taken = Shell!Verified(shown) => shown # "none" /\ (request.type = "none" \/ told = shown)
    BY <1>4, <2>1
  <2>3. CASE request.type = "none"
    BY <1>1, <1>3, <1>4, <1>6, <2>1, <2>2, <2>3
  <2>4. CASE request.type # "none"
    <3>1. taken = Shell!Verified(shown) => ~(request.body.size > limit)
      BY <1>4, <2>1, <2>4
    <3>2. told = shown /\ shown # "none" /\ ~(request.body.size > limit) => request.body.size <= Shell!KindMax(shown)
      BY <1>1, <1>3
    <3> QED BY <1>6, <2>2, <2>4, <3>1, <3>2
  <2> QED BY <2>3, <2>4
<1>12. Shell!RouteTakes(request.path, request.type) => taken # Shell!Refused("415")
  <2> HIDE DEF shown, told, limit, taken
  <2>1. Shell!Refused("415") \notin {Shell!Refused("400"), Shell!Refused("413"), Shell!Verified(shown)}
    BY AnswersAre
  <2> QED BY <1>4, <1>5, <2>1
<1> HIDE DEF shown, told, limit, taken
<1>13. /\ \/ taken \in {Shell!Refused("400"), Shell!Refused("415")}
          \/ taken = Shell!Refused("413") /\ (request.body.size > Shell!KindMax(shown) \/ told # shown)
          \/ taken = Shell!Verified(shown) /\ shown \in Shell!Evidence /\ (request.type = "none" \/ told = shown)
       /\ Shell!RouteTakes(request.path, request.type) => taken # Shell!Refused("415")
       /\ taken = Shell!Verified(shown) /\ shown \in Shell!Evidence => request.body.size <= Shell!KindMax(shown)
       /\ Longer(request, limit) => Longer(request, Shell!KindMax(shown)) \/ told # shown
  BY <1>8, <1>9, <1>10, <1>11, <1>12
<1> QED BY <1>13 DEF shown, told, limit, taken

\* The steps of an answer to an admitted request, in their order.
LEMMA StepsOfAnswer ==
  ASSUME NEW request, IsStated(request)
  PROVE  LET taken == Shell!DetectInput(request.body, request.type)
         IN Judged(request) =
              IF ~Shell!RouteTakes(request.path, request.type) THEN Shell!Refused("415")
              ELSE IF -1 \in request.declared THEN Shell!Refused("400")
              ELSE IF Longer(request, Shell!Limit(request.type, "none")) THEN Shell!Refused("413")
              ELSE IF request.fate = "stalls" THEN Shell!Refused("408")
              ELSE IF request.fate = "breaks" THEN Shell!Refused("400")
              ELSE Shell!Settled(taken, request.fate)
BY BodyAdmitted, AnswersAre DEF Judged

\* What an admitted request is answered.
LEMMA JudgedIs ==
  ASSUME NEW request, IsStated(request)
  PROVE  /\ Judged(request).kind \in Shell!Evidence =>
              /\ Judged(request) = Shell!Verified(Shell!KindShown(request.body))
              /\ Shell!KindShown(request.body) \in Shell!Evidence
              /\ request.body.size <= Shell!KindMax(Shell!KindShown(request.body))
              /\ -1 \notin request.declared /\ request.fate = "verdict"
         /\ Judged(request).status = "413" =>
              \/ Longer(request, Shell!KindMax(Shell!KindShown(request.body)))
              \/ Shell!KindOfType(request.type) # Shell!KindShown(request.body)
<1> DEFINE shown == Shell!KindShown(request.body)
           told == Shell!KindOfType(request.type)
           limit == Shell!Limit(request.type, "none")
           taken == Shell!DetectInput(request.body, request.type)
           j == Judged(request)
           settled == Shell!Settled(taken, request.fate)
<1>1. /\ \/ taken \in {Shell!Refused("400"), Shell!Refused("415")}
         \/ taken = Shell!Refused("413") /\ (request.body.size > Shell!KindMax(shown) \/ told # shown)
         \/ taken = Shell!Verified(shown) /\ shown \in Shell!Evidence
      /\ taken = Shell!Verified(shown) /\ shown \in Shell!Evidence => request.body.size <= Shell!KindMax(shown)
      /\ Longer(request, limit) => Longer(request, Shell!KindMax(shown)) \/ told # shown
  BY TakenIs
<1>2. request.fate \in {"verdict", "throws", "late", "stalls", "breaks"}
  BY DEF IsStated, Shell!Fates
<1>3. j = IF ~Shell!RouteTakes(request.path, request.type) THEN Shell!Refused("415")
          ELSE IF -1 \in request.declared THEN Shell!Refused("400")
          ELSE IF Longer(request, limit) THEN Shell!Refused("413")
          ELSE IF request.fate = "stalls" THEN Shell!Refused("408")
          ELSE IF request.fate = "breaks" THEN Shell!Refused("400")
          ELSE settled
  BY StepsOfAnswer
<1>4. /\ taken.status # "200" \/ request.fate \notin {"throws", "late"} => settled = taken
      /\ taken.status = "200" /\ request.fate \in {"throws", "late"} => settled \in {Shell!Refused("500"), Shell!Refused("504")}
  BY SettledIs
<1>5. "none" \notin Shell!Evidence
  BY DEF Shell!Evidence
<1>6. request.body.size > Shell!KindMax(shown) => Longer(request, Shell!KindMax(shown))
  BY DEF Longer
<1> HIDE DEF shown, told, limit, taken, j, settled
<1>7. \/ j \in {Shell!Refused("400"), Shell!Refused("415"), Shell!Refused("408"), Shell!Refused("500"), Shell!Refused("504")}
      \/ j = Shell!Refused("413") /\ (Longer(request, Shell!KindMax(shown)) \/ told # shown)
      \/ j = Shell!Verified(shown) /\ shown \in Shell!Evidence /\ -1 \notin request.declared /\ request.fate = "verdict"
  <2>1. CASE j # settled
    BY <1>1, <1>3, <2>1
  <2>2. CASE j = settled /\ taken # Shell!Verified(shown)
    <3>1. taken.status # "200"
      BY <1>1, <2>2, AnswersAre
    <3>2. settled = taken
      BY <1>4, <3>1
    <3> QED BY <1>1, <1>6, <2>2, <3>2
  <2>3. CASE j = settled /\ taken = Shell!Verified(shown) /\ request.fate \in {"throws", "late"}
    BY <1>4, <2>3, AnswersAre
  <2>4. CASE j = settled /\ taken = Shell!Verified(shown) /\ request.fate \notin {"throws", "late"}
    <3>1. settled = taken
      BY <1>4, <2>4
    <3>2. Shell!Verified(shown) \notin {Shell!Refused("400"), Shell!Refused("415"), Shell!Refused("408"), Shell!Refused("413")}
      BY AnswersAre
    <3>3. shown \in Shell!Evidence
      BY <1>1, <2>4, <3>2
    <3>4. -1 \notin request.declared /\ request.fate \notin {"stalls", "breaks"}
      BY <1>3, <2>4, <3>1, <3>2
    <3> QED BY <1>2, <2>4, <3>1, <3>3, <3>4
  <2> QED BY <2>1, <2>2, <2>3, <2>4
<1>8. /\ j.kind \in Shell!Evidence =>
           j = Shell!Verified(shown) /\ shown \in Shell!Evidence /\ -1 \notin request.declared /\ request.fate = "verdict"
      /\ j.status = "413" => Longer(request, Shell!KindMax(shown)) \/ told # shown
  BY <1>5, <1>7, AnswersAre
<1>9. j.kind \in Shell!Evidence => request.body.size <= Shell!KindMax(shown)
  <2> SUFFICES ASSUME j.kind \in Shell!Evidence PROVE request.body.size <= Shell!KindMax(shown)
    OBVIOUS
  <2>1. j = Shell!Verified(shown) /\ shown \in Shell!Evidence
    BY <1>8
  <2>2. j \notin {Shell!Refused("400"), Shell!Refused("415"), Shell!Refused("408"), Shell!Refused("413")}
    BY <2>1, AnswersAre
  <2>3. j = settled
    BY <1>3, <2>2
  <2>4. settled \notin {Shell!Refused("500"), Shell!Refused("504")}
    <3>1. settled.status = "200"
      BY <2>1, <2>3, AnswersAre
    <3>2. Shell!Refused("500").status = "500" /\ Shell!Refused("504").status = "504"
      BY AnswersAre
    <3> QED BY <3>1, <3>2
  <2>5. settled = taken
    BY <1>4, <2>4
  <2> QED BY <1>1, <2>1, <2>3, <2>5
<1> QED BY <1>8, <1>9 DEF shown, told, j

\* An answer tells the fate of its request when nothing else is wrong with it.
LEMMA FatesAreTold ==
  ASSUME NEW request, IsStated(request),
         NEW other, IsStated(other), other.fate = "verdict", other.path = request.path, other.type = request.type,
         other.declared = request.declared, other.body = request.body
  PROVE  Shell!IsTold(request.fate, Judged(request), Judged(other))
<1> DEFINE shown == Shell!KindShown(request.body)
           taken == Shell!DetectInput(request.body, request.type)
           takes == Shell!RouteTakes(request.path, request.type)
           long == Longer(request, Shell!Limit(request.type, "none"))
           settled == Shell!Settled(taken, request.fate)
           j == Judged(request)
           o == Judged(other)
<1>1. /\ taken \in {Shell!Refused("400"), Shell!Refused("413"), Shell!Refused("415")} \/ (taken = Shell!Verified(shown) /\ shown \in Shell!Evidence)
      /\ takes => taken # Shell!Refused("415")
  BY TakenIs
<1>2. request.fate \in {"verdict", "throws", "late", "stalls", "breaks"}
  BY DEF IsStated, Shell!Fates
<1>3. j = IF ~takes THEN Shell!Refused("415")
          ELSE IF -1 \in request.declared THEN Shell!Refused("400")
          ELSE IF long THEN Shell!Refused("413")
          ELSE IF request.fate = "stalls" THEN Shell!Refused("408")
          ELSE IF request.fate = "breaks" THEN Shell!Refused("400")
          ELSE settled
  BY StepsOfAnswer
<1>4. o = IF ~takes THEN Shell!Refused("415")
          ELSE IF -1 \in request.declared THEN Shell!Refused("400")
          ELSE IF long THEN Shell!Refused("413")
          ELSE taken
  <2>1. Longer(other, Shell!Limit(request.type, "none")) <=> long
    BY DEF Longer
  <2>2. Shell!Settled(taken, other.fate) = taken
    BY SettledIs
  <2>3. other.fate \notin {"stalls", "breaks"}
    OBVIOUS
  <2> HIDE DEF long
  <2> QED BY <2>1, <2>2, <2>3, StepsOfAnswer
<1>5. /\ taken.status # "200" \/ request.fate \notin {"throws", "late"} => settled = taken
      /\ taken.status = "200" /\ request.fate = "throws" => settled = Shell!Refused("500")
      /\ taken.status = "200" /\ request.fate = "late" => settled = Shell!Refused("504")
  BY SettledIs
<1>6. "none" \notin Shell!Evidence
  BY DEF Shell!Evidence
<1> HIDE DEF shown, taken, takes, long, settled, j, o
<1>7. CASE ~takes \/ -1 \in request.declared \/ long
  <2>1. j = o /\ j \in {Shell!Refused("415"), Shell!Refused("400"), Shell!Refused("413")}
    BY <1>3, <1>4, <1>7
  <2>2. j.kind = "none" /\ o.kind = "none" /\ o.status = j.status /\ j.status \in {"400", "413", "415"}
    BY <2>1, AnswersAre
  <2>3. Shell!IsTold(request.fate, j, o)
    BY <1>2, <1>6, <2>2 DEF Shell!IsTold
  <2> QED BY <2>3 DEF j, o
<1>8. CASE takes /\ -1 \notin request.declared /\ ~long /\ taken # Shell!Verified(shown)
  <2>1. o = taken /\ taken \in {Shell!Refused("400"), Shell!Refused("413")}
    BY <1>1, <1>4, <1>8
  <2>2. o.kind = "none" /\ o.status \in {"400", "413"}
    BY <2>1, AnswersAre
  <2>3. request.fate \notin {"stalls", "breaks"} => j = o
    BY <1>3, <1>5, <1>8, <2>1, <2>2
  <2>4. request.fate \in {"stalls", "breaks"} => j.kind = "none"
    BY <1>3, <1>8, AnswersAre
  <2>5. Shell!IsTold(request.fate, j, o)
    BY <1>2, <1>6, <2>2, <2>3, <2>4 DEF Shell!IsTold, Shell!Cut
  <2> QED BY <2>5 DEF j, o
<1>9. CASE takes /\ -1 \notin request.declared /\ ~long /\ taken = Shell!Verified(shown)
  <2>1. o = taken /\ o.status = "200" /\ taken.status = "200" /\ o.kind = shown
    BY <1>4, <1>9, AnswersAre
  <2>2. shown \in Shell!Evidence
    BY <1>1, <1>9, <2>1, AnswersAre
  <2>3. /\ request.fate = "verdict" => j.status = "200"
        /\ request.fate = "throws" => j.status = "500"
        /\ request.fate = "late" => j.status = "504"
    BY <1>3, <1>5, <1>9, <2>1, AnswersAre
  <2>4. /\ request.fate = "stalls" => j.status = "408" /\ j.kind = "none"
        /\ request.fate = "breaks" => j.status = "400" /\ j.kind = "none"
    BY <1>3, <1>9, AnswersAre
  <2>5. Shell!IsTold(request.fate, j, o)
    BY <1>2, <1>6, <2>1, <2>2, <2>3, <2>4 DEF Shell!IsTold, Shell!Cut
  <2> QED BY <2>5 DEF j, o
<1> QED BY <1>7, <1>8, <1>9

\* Every request is answered as what its bytes show or not at all, whichever route and content
\* type it comes under, and however it ends.
THEOREM RequestsAgree ==
  ASSUME NEW request, IsRequest(request)
  PROVE  Shell!RouteAgrees(request)
<1> DEFINE response == Shell!Response(request)
           otherwise == Shell!WithVerdict(request)
           as(path, type) == Shell!AskedAs(request, path, type)
           shown == Shell!KindShown(request.body)
           admitted == Shell!OriginAllowed(request) /\ request.method = "POST" /\ request.path \in Shell!VerifyRoutes
<1>0. IsStated(request)
  BY RequestsAreStated
<1>1. admitted => response = Judged(request)
  BY ResponseIs
<1>2. ~admitted => response.kind = "none" /\ response.status # "413"
  BY ResponseIs
<1>3. ASSUME response.kind \in Shell!Evidence
      PROVE  /\ response.kind = shown /\ request.body.size <= Shell!KindMax(response.kind)
             /\ Shell!TakenAs(response.kind, request.body)
             /\ request.origin # "foreign" /\ request.method = "POST"
             /\ as("/v1/verify", "none") = response
             /\ \E path \in Shell!VerifyRoutes \ {"/v1/verify"}, type \in Shell!Types : as(path, type) = response
  <2>1. admitted
    BY <1>2, <1>3 DEF Shell!Evidence
  <2>2. /\ response = Shell!Verified(shown) /\ shown \in Shell!Evidence
        /\ request.body.size <= Shell!KindMax(shown) /\ -1 \notin request.declared /\ request.fate = "verdict"
    BY <1>0, <1>1, <1>3, <2>1, JudgedIs
  <2>10. request.declared \subseteq {request.body.size}
    BY <2>2, RequestsAreStated DEF Shell!Cut
  <2>3. response.kind = shown
    BY <2>2 DEF Shell!Verified
  <2>4. Shell!TakenAs(shown, request.body)
    <3>1. shown \in {"pdf", "paper-image", "paper-text"}
      BY <2>2 DEF Shell!Evidence
    <3>2. CASE shown = "pdf"
      BY <2>2, <3>2, KindSizes DEF Shell!TakenAs, Shell!Limit, Shell!TextTypes
    <3>3. CASE shown = "paper-image"
      BY <2>2, <3>3, KindSizes DEF Shell!TakenAs, Shell!Limit, Shell!TextTypes
    <3>4. CASE shown = "paper-text"
      BY <2>2, <3>4, KindSizes DEF Shell!TakenAs, Shell!Limit, Shell!TextTypes
    <3> QED BY <3>1, <3>2, <3>3, <3>4
  <2>5. request.origin # "foreign" /\ request.method = "POST"
    BY <2>1 DEF Shell!OriginAllowed
  <2>6. ASSUME NEW path \in Shell!VerifyRoutes, NEW type \in Shell!Types
        PROVE  \E r : /\ IsStated(r) /\ r.path = path /\ r.type = type /\ r.body = request.body /\ r.declared = request.declared /\ r.fate = request.fate
                      /\ as(path, type) = Judged(r)
    <3> DEFINE r == [request EXCEPT !.path = path, !.type = type]
    <3>1. r.path = path /\ r.type = type /\ r.body = request.body /\ r.declared = request.declared /\ r.fate = request.fate
          /\ r.method = request.method /\ r.origin = request.origin
      BY <1>0 DEF IsStated
    <3>0. IsStated(r)
      <4>1. DOMAIN r = DOMAIN request
        OBVIOUS
      <4> HIDE DEF r
      <4> QED BY <1>0, <3>1, <4>1 DEF IsStated
    <3>2. Shell!OriginAllowed(r)
      BY <2>1, <3>1 DEF Shell!OriginAllowed
    <3> HIDE DEF r
    <3>3. Shell!Response(r) = Judged(r)
      BY <2>1, <3>1, <3>2, ResponseIs
    <3>4. as(path, type) = Shell!Response(r)
      BY DEF Shell!AskedAs, r
    <3> HIDE DEF as
    <3> QED BY <3>0, <3>1, <3>3, <3>4
  <2>7. as("/v1/verify", "none") = response
    <3> PICK r : IsStated(r) /\ r.path = "/v1/verify" /\ r.type = "none" /\ r.body = request.body /\ r.declared = request.declared /\ r.fate = request.fate
                 /\ as("/v1/verify", "none") = Judged(r)
      <4>1. "/v1/verify" \in Shell!VerifyRoutes /\ "none" \in Shell!Types
        BY DEF Shell!VerifyRoutes, Shell!Types
      <4> HIDE DEF as
      <4> QED BY <2>6, <4>1
    <3>1. shown # "none"
      BY <2>2 DEF Shell!Evidence
    <3> QED BY <2>2, <2>10, <3>1, JudgedPlainly
  <2>8. ASSUME NEW path \in Shell!VerifyRoutes, NEW type \in Shell!Types, type # "none",
               Shell!RouteTakes(path, type), Shell!KindOfType(type) = shown
        PROVE  as(path, type) = response
    <3> PICK r : IsStated(r) /\ r.path = path /\ r.type = type /\ r.body = request.body /\ r.declared = request.declared /\ r.fate = request.fate
                 /\ as(path, type) = Judged(r)
      <4> HIDE DEF as
      <4> QED BY <2>6
    <3>1. shown # "none"
      BY <2>2 DEF Shell!Evidence
    <3> QED BY <2>2, <2>8, <2>10, <3>1, JudgedByType
  <2>9. \E path \in Shell!VerifyRoutes \ {"/v1/verify"}, type \in Shell!Types : as(path, type) = response
    <3>1. PICK path \in Shell!VerifyRoutes \ {"/v1/verify"}, type \in Shell!Types :
             type # "none" /\ Shell!RouteTakes(path, type) /\ Shell!KindOfType(type) = shown
      <4>1. "/v1/verify/pdf" \in Shell!VerifyRoutes \ {"/v1/verify"} /\ "/v1/verify/paper" \in Shell!VerifyRoutes \ {"/v1/verify"}
        BY DEF Shell!VerifyRoutes
      <4>2. {"application/pdf", "image/png", "text/plain"} \subseteq Shell!Types \ {"none"}
        BY DEF Shell!Types
      <4>3. Shell!RouteTakes("/v1/verify/pdf", "application/pdf") /\ Shell!RouteTakes("/v1/verify/paper", "image/png") /\ Shell!RouteTakes("/v1/verify/paper", "text/plain")
        BY KindsOfTypes DEF Shell!RouteTakes
      <4>4. shown \in {"pdf", "paper-image", "paper-text"}
        BY <2>2 DEF Shell!Evidence
      <4> HIDE DEF shown
      <4>5. CASE shown = "pdf"
        BY <4>1, <4>2, <4>3, <4>5, KindsOfTypes
      <4>6. CASE shown = "paper-image"
        BY <4>1, <4>2, <4>3, <4>6, KindsOfTypes
      <4>7. CASE shown = "paper-text"
        BY <4>1, <4>2, <4>3, <4>7, KindsOfTypes
      <4> QED BY <4>4, <4>5, <4>6, <4>7
    <3> HIDE DEF as, response, shown
    <3> QED BY <2>8, <3>1
  <2> HIDE DEF as, response, shown
  <2> QED BY <2>2, <2>3, <2>4, <2>5, <2>7, <2>9
<1>4. ASSUME response.status = "413"
      PROVE  Longer(request, Shell!KindMax(shown)) \/ Shell!KindOfType(request.type) # shown
  BY <1>0, <1>1, <1>2, <1>4, JudgedIs
<1>5. ASSUME request.method = "POST", request.path \in Shell!VerifyRoutes
      PROVE  Shell!IsTold(request.fate, response, otherwise)
  <2> DEFINE r == [request EXCEPT !.fate = "verdict"]
  <2>1. /\ r.path = request.path /\ r.type = request.type /\ r.body = request.body /\ r.declared = request.declared
        /\ r.method = request.method /\ r.origin = request.origin /\ r.fate = "verdict" /\ DOMAIN r = DOMAIN request
    BY <1>0 DEF IsStated
  <2>2. otherwise = Shell!Response(r)
    BY DEF Shell!WithVerdict
  <2> HIDE DEF r, response, otherwise
  <2>3. IsStated(r)
    BY <1>0, <2>1 DEF IsStated, Shell!Fates
  <2>4. Shell!OriginAllowed(r) <=> Shell!OriginAllowed(request)
    BY <2>1 DEF Shell!OriginAllowed
  <2>5. CASE Shell!OriginAllowed(request)
    <3>1. response = Judged(request) /\ otherwise = Judged(r)
      BY <1>1, <1>5, <2>1, <2>2, <2>4, <2>5, ResponseIs
    <3> QED BY <1>0, <2>1, <2>3, <3>1, FatesAreTold
  <2>6. CASE ~Shell!OriginAllowed(request)
    <3>1. response = Shell!Refused("403") /\ otherwise = Shell!Refused("403")
      BY <2>2, <2>4, <2>6, ResponseIs DEF response
    <3>2. response.kind = "none" /\ otherwise.kind = "none" /\ response.status = "403" /\ otherwise.status = "403"
      BY <3>1, AnswersAre
    <3>3. "none" \notin Shell!Evidence
      BY DEF Shell!Evidence
    <3>4. response.kind \notin Shell!Evidence /\ otherwise.kind \notin Shell!Evidence /\ response.status = otherwise.status
      BY <3>2, <3>3
    <3>5. otherwise.status \in {"200", "400", "403", "413", "415"} /\ response.status # "408"
      BY <3>2
    <3>6. response.status = IF otherwise.kind \notin Shell!Evidence THEN otherwise.status
                            ELSE CASE request.fate = "throws" -> "500" [] request.fate = "late" -> "504" [] OTHER -> "200"
      BY <3>4
    <3>7. request.fate \in Shell!Cut =>
            /\ response.kind \notin Shell!Evidence
            /\ otherwise.kind \in Shell!Evidence => response.status = (IF request.fate = "stalls" THEN "408" ELSE "400")
            /\ response.status = "408" => otherwise.status \in {"200", "400", "413"}
      BY <3>4, <3>5
    <3> HIDE DEF response, otherwise
    <3> QED BY <3>5, <3>6, <3>7 DEF Shell!IsTold
  <2> QED BY <2>5, <2>6
<1>6. response.status = "413" =>
        \/ \E n \in request.declared \cup {request.body.size} : n > Shell!KindMax(shown)
        \/ Shell!KindOfType(request.type) # shown
  <2> HIDE DEF response, shown
  <2> QED BY <1>4 DEF Longer
<1>7. /\ response.kind \in Shell!Evidence =>
           /\ response.kind = shown /\ request.body.size <= Shell!KindMax(response.kind)
           /\ Shell!TakenAs(response.kind, request.body)
           /\ request.origin # "foreign" /\ request.method = "POST"
           /\ as("/v1/verify", "none") = response
           /\ \E path \in Shell!VerifyRoutes \ {"/v1/verify"}, type \in Shell!Types : as(path, type) = response
      /\ response.status = "413" =>
           \/ \E n \in request.declared \cup {request.body.size} : n > Shell!KindMax(shown)
           \/ Shell!KindOfType(request.type) # shown
      /\ request.method = "POST" /\ request.path \in Shell!VerifyRoutes => Shell!IsTold(request.fate, response, otherwise)
  <2> HIDE DEF as, response, otherwise, shown
  <2> QED BY <1>3, <1>5, <1>6
<1> QED BY ONLY <1>7 DEF Shell!RouteAgrees

-----------------------------------------------------------------------------
(* Command lines (cli/credaryn/src) *)

\* An argument that is no positional one.
Skipped(args, i) == Shell!IsOption(args[i]) \/ (i > 1 /\ Shell!IsOption(args[i - 1]))

\* The arguments that name files, of the first n.
ArePositionals(args, n, h) ==
  h[0] = <<>> /\ \A k \in 1..n : h[k] = IF Skipped(args, k) THEN h[k - 1] ELSE Append(h[k - 1], args[k])

\* The positional arguments are those of all the arguments, one after the other.
HasPositionals(args, n, V) == \E h \in [0..n -> Seq(V)] : ArePositionals(args, n, h) /\ Shell!Positionals(args) = h[n]

\* They are of every command line.
LEMMA PositionalsFold ==
  ASSUME NEW V, NEW c \in Seq(V), NEW n \in Nat, n = Len(c)
  PROVE  HasPositionals(c, n, V)
<1> DEFINE X == Seq(V)
           d == [i \in DOMAIN c |-> i]
           It(f) == [s \in SUBSET (DOMAIN d) |-> IF s = {} THEN <<>>
                       ELSE IF Skipped(c, d[Max(s)]) THEN f[s \ {Max(s)}] ELSE Append(f[s \ {Max(s)}], c[d[Max(s)]])]
           iter == CHOOSE f : f = It(f)
           G == [p \in X \X (1..n) |-> IF Skipped(c, p[2]) THEN p[1] ELSE Append(p[1], c[p[2]])]
<1>0. DOMAIN c = 1..n /\ DOMAIN d = 1..n
  OBVIOUS
<1>1. Shell!Positionals(c) = iter[DOMAIN d]
  BY DEF Shell!Positionals, Shell!FoldLeft, Shell!MapThenFoldSet, Shell!Max, Max, Skipped
<1>2. IsStep(G, n, X)
  BY <1>0 DEF IsStep
<1>3. ASSUME NEW f, NEW s \in SUBSET (1..n), s # {}, f[s \ {Max(s)}] \in X
      PROVE  It(f)[s] = G[<<f[s \ {Max(s)}], Max(s)>>]
  <2>1. Max(s) \in 1..n
    BY <1>3, MaxInside
  <2> QED BY <1>0, <1>3, <2>1
<1>b. <<>> \in X
  OBVIOUS
<1>4. iter = It(iter)
  <2>1. PICK f \in [SUBSET (1..n) -> X] : Folds(f, <<>>, n, G)
    <3>1. HasFold(<<>>, n, G, X)
      <4> HIDE DEF G, X
      <4> QED BY <1>2, <1>b, FoldExists
    <3> QED BY <3>1 DEF HasFold
  <2>2. \A s \in SUBSET (1..n) : f[s \ {Max(s)}] \in X
    OBVIOUS
  <2>3. \A s \in SUBSET (1..n) : f[s] = It(f)[s]
    <3> TAKE s \in SUBSET (1..n)
    <3>1. CASE s = {}
      <4>1. f[s] = <<>>
        BY <2>1, <3>1 DEF Folds
      <4>2. It(f)[s] = <<>>
        BY <1>0, <3>1
      <4> QED BY <4>1, <4>2
    <3>2. CASE s # {}
      <4>1. f[s] = G[<<f[s \ {Max(s)}], Max(s)>>]
        <5> HIDE DEF G, X
        <5> QED BY <2>1, <3>2 DEF Folds
      <4>2. It(f)[s] = G[<<f[s \ {Max(s)}], Max(s)>>]
        <5>1. f[s \ {Max(s)}] \in X
          BY <2>2
        <5> HIDE DEF G, It, X
        <5> QED BY <1>3, <3>2, <5>1
      <4> QED BY <4>1, <4>2
    <3> QED BY <3>1, <3>2
  <2>4. f = [s \in SUBSET (1..n) |-> f[s]]
    OBVIOUS
  <2>5. It(f) = [s \in SUBSET (1..n) |-> It(f)[s]]
    BY <1>0
  <2> HIDE DEF It
  <2>6. f = It(f)
    BY <2>3, <2>4, <2>5
  <2> QED BY <2>6
<1>5. FoldsWithin(iter, <<>>, n, G, X)
  <2>1. iter[{}] = <<>>
    BY <1>4
  <2> HIDE DEF iter, G, X
  <2>2. \A s \in SUBSET (1..n) : iter[s] = It(iter)[s]
    BY <1>4
  <2> HIDE DEF It
  <2> QED BY <1>3, <2>1, <2>2 DEF FoldsWithin
<1>7. PICK h \in [0..n -> X] : IsChain(h, <<>>, n, G) /\ iter[1..n] = h[n]
  <2>1. HasChain(iter, <<>>, n, G, X)
    <3> HIDE DEF G, iter, X
    <3> QED BY <1>2, <1>5, <1>b, FoldChain
  <2> QED BY <2>1 DEF HasChain
<1>8. \A k \in 1..n : h[k] = IF Skipped(c, k) THEN h[k - 1] ELSE Append(h[k - 1], c[k])
  <2> TAKE k \in 1..n
  <2>1. h[k-1] \in X
    OBVIOUS
  <2> QED BY <1>7, <2>1 DEF IsChain
<1> HIDE DEF iter
<1> QED BY <1>0, <1>1, <1>7, <1>8 DEF IsChain, HasPositionals, ArePositionals

\* With an option and its value put before them, the same files are named.
LEMMA PositionalsBehind ==
  ASSUME NEW V, NEW t \in Seq(V), NEW name, NEW v \in V, Shell!Named(name) \in V, ~Shell!IsOption(v)
  PROVE  Shell!Positionals(<<Shell!Named(name), v>> \o t) = Shell!Positionals(t)
<1> DEFINE u == <<Shell!Named(name), v>> \o t
           n == Len(t)
<1>1. /\ n \in Nat /\ u \in Seq(V) /\ Len(u) = n + 2 /\ n + 2 \in Nat
      /\ u[1] = Shell!Named(name) /\ u[2] = v
      /\ \A k \in 1..n : u[k + 2] = t[k]
  OBVIOUS
<1>2. Shell!IsOption(u[1]) /\ ~Shell!IsOption(u[2])
  BY <1>1 DEF Shell!IsOption, Shell!Named
<1> HIDE DEF u, n
<1>3. PICK h \in [0..n + 2 -> Seq(V)] : ArePositionals(u, n + 2, h) /\ Shell!Positionals(u) = h[n + 2]
  BY <1>1, PositionalsFold DEF HasPositionals
<1>4. PICK g \in [0..n -> Seq(V)] : ArePositionals(t, n, g) /\ Shell!Positionals(t) = g[n]
  BY PositionalsFold, <1>1 DEF HasPositionals, n
<1>5. \A k \in 1..n : Skipped(u, k + 2) <=> Skipped(t, k)
  <2> TAKE k \in 1..n
  <2>1. CASE k = 1
    BY <1>1, <1>2, <2>1 DEF Skipped
  <2>2. CASE k # 1
    <3> DEFINE j == k + 2
    <3>1. k - 1 \in 1..n /\ (k - 1) + 2 = j - 1 /\ k > 1 /\ j > 1
      BY <2>2, <1>1
    <3>2. u[j - 1] = t[k - 1] /\ u[j] = t[k]
      BY <1>1, <3>1
    <3> HIDE DEF j
    <3>3. Skipped(u, j) <=> Shell!IsOption(u[j]) \/ Shell!IsOption(u[j - 1])
      BY <3>1 DEF Skipped
    <3>4. Skipped(t, k) <=> Shell!IsOption(t[k]) \/ Shell!IsOption(t[k - 1])
      BY <3>1 DEF Skipped
    <3>5. Skipped(u, j) <=> Skipped(t, k)
      BY <3>2, <3>3, <3>4
    <3> QED BY <3>5 DEF j
  <2> QED BY <2>1, <2>2
<1>6. h[2] = <<>>
  <2>1. Skipped(u, 1) /\ Skipped(u, 2)
    BY <1>2 DEF Skipped
  <2>2. 1 \in 1..n+2 /\ 2 \in 1..n+2 /\ 1 - 1 = 0 /\ 2 - 1 = 1
    BY <1>1
  <2> QED BY <1>3, <2>1, <2>2 DEF ArePositionals
<1> DEFINE T == {k \in Nat : k <= n => h[k + 2] = g[k]}
<1>7. 0 \in T
  BY <1>4, <1>6 DEF ArePositionals
<1>8. ASSUME NEW k \in T PROVE k + 1 \in T
  <2> SUFFICES ASSUME k + 1 <= n PROVE h[(k + 1) + 2] = g[k + 1]
    OBVIOUS
  <2>1. k \in Nat /\ h[k + 2] = g[k]
    BY <1>1
  <2> DEFINE j == k + 1
  <2>2. j \in 1..n /\ j - 1 = k /\ j + 2 \in 1..n + 2 /\ (j + 2) - 1 = k + 2
    BY <1>1, <2>1
  <2> HIDE DEF j
  <2>3. h[j + 2] = IF Skipped(u, j + 2) THEN h[k + 2] ELSE Append(h[k + 2], u[j + 2])
    BY <1>3, <2>2 DEF ArePositionals
  <2>4. g[j] = IF Skipped(t, j) THEN g[k] ELSE Append(g[k], t[j])
    BY <1>4, <2>2 DEF ArePositionals
  <2>5. h[j + 2] = g[j]
    BY <1>1, <1>5, <2>1, <2>2, <2>3, <2>4
  <2> QED BY <2>5 DEF j
<1>9. n \in T
  <2> HIDE DEF T
  <2>1. T \in SUBSET Nat
    BY DEF T
  <2> QED BY <1>1, <1>7, <1>8, <2>1, Induction
<1> QED BY <1>1, <1>3, <1>4, <1>9 DEF u

\* The value of an option is what follows its name first.
LEMMA OptionIs ==
  ASSUME NEW args, NEW n \in Nat, n = Len(args), NEW name
  PROVE  /\ (\A k \in 1..n : args[k] # Shell!Named(name)) => Shell!OptionOf(args, name) = {}
         /\ \A i \in 1..n : args[i] = Shell!Named(name) /\ (\A k \in 1..n : args[k] = Shell!Named(name) => i <= k)
              => Shell!OptionOf(args, name) = {args[i + 1]}
<1> DEFINE I == {i \in 1..Len(args) : args[i] = Shell!Named(name)}
           first == IF I # {} THEN Min(I) ELSE 0
<1>1. Shell!OptionOf(args, name) = IF first = 0 THEN {} ELSE {args[first + 1]}
  BY DEF Shell!OptionOf, Shell!SelectInSeq, Shell!Min, Min
<1>2. ASSUME \A k \in 1..n : args[k] # Shell!Named(name) PROVE first = 0
  BY <1>2
<1>3. ASSUME NEW i \in 1..n, args[i] = Shell!Named(name), \A k \in 1..n : args[k] = Shell!Named(name) => i <= k
      PROVE  first = i /\ i # 0
  <2>1. i \in I /\ \A k \in I : i <= k /\ k \in Nat
    BY <1>3
  <2> HIDE DEF I
  <2>2. Min(I) = i
    <3>1. \A m \in I : (\A y \in I : m <= y) => m = i
      BY <2>1
    <3> QED BY <2>1, <3>1 DEF Min
  <2> QED BY <2>1, <2>2
<1> HIDE DEF first
<1> QED BY <1>1, <1>2, <1>3

\* An option put before the others counts for its name.
LEMMA OptionsBehind ==
  ASSUME NEW V, NEW t \in Seq(V), NEW name, NEW v \in V, Shell!Named(name) \in V, ~Shell!IsOption(v),
         NEW all, Shell!WellFormed(t, all)
  PROVE  /\ Shell!OptionOf(<<Shell!Named(name), v>> \o t, name) = {v}
         /\ \A other : other # name => Shell!OptionOf(<<Shell!Named(name), v>> \o t, other) = Shell!OptionOf(t, other)
         /\ \A options : Shell!WellFormed(<<Shell!Named(name), v>> \o t, options) <=> name \in options /\ Shell!WellFormed(t, options)
<1> DEFINE u == <<Shell!Named(name), v>> \o t
           n == Len(t)
<1>1. /\ n \in Nat /\ u \in Seq(V) /\ Len(u) = n + 2
      /\ u[1] = Shell!Named(name) /\ u[2] = v
      /\ \A k \in 1..n : u[k + 2] = t[k]
      /\ DOMAIN u = 1..n+2 /\ DOMAIN t = 1..n
  OBVIOUS
<1>2. /\ Shell!IsOption(u[1]) /\ ~Shell!IsOption(u[2]) /\ u[1].option = name
      /\ \A other : Shell!Named(other) = u[1] => other = name
      /\ \A other : Shell!Named(other) # u[2]
      /\ \A other : Shell!IsOption(Shell!Named(other))
  <2>1. \A other : Shell!Named(other).option = other /\ Shell!IsOption(Shell!Named(other))
    BY DEF Shell!IsOption, Shell!Named
  <2> HIDE DEF u, n
  <2> QED BY <1>1, <2>1
<1>t. Len(t) = n
  OBVIOUS
<1>w. \A k \in 1..n : Shell!IsOption(t[k]) => t[k].option \in all /\ k < n /\ ~Shell!IsOption(t[k + 1])
  BY <1>1 DEF Shell!WellFormed
<1> HIDE DEF u, n
<1>3. Shell!OptionOf(u, name) = {v}
  <2>1. n + 2 \in Nat /\ 1 \in 1..n+2 /\ \A k \in 1..n+2 : 1 <= k
    BY <1>1
  <2>2. Shell!OptionOf(u, name) = {u[1 + 1]}
    BY <1>1, <2>1, OptionIs
  <2> QED BY <1>1, <2>2
<1>4. ASSUME NEW other, other # name PROVE Shell!OptionOf(u, other) = Shell!OptionOf(t, other)
  <2>1. \A i \in 1..n+2 : u[i] = Shell!Named(other) => i - 2 \in 1..n /\ t[i - 2] = Shell!Named(other)
    <3> TAKE i \in 1..n+2
    <3> HAVE u[i] = Shell!Named(other)
    <3>1. i # 1 /\ i # 2
      BY <1>2, <1>4
    <3>2. i - 2 \in 1..n /\ (i - 2) + 2 = i
      BY <1>1, <3>1
    <3> QED BY <1>1, <3>2
  <2>2. CASE \A i \in 1..n : t[i] # Shell!Named(other)
    <3>1. n + 2 \in Nat /\ \A i \in 1..n+2 : u[i] # Shell!Named(other)
      BY <1>1, <2>1, <2>2
    <3>2. Shell!OptionOf(u, other) = {}
      BY <1>1, <3>1, OptionIs
    <3>3. Shell!OptionOf(t, other) = {}
      BY <1>1, <1>t, <2>2, OptionIs
    <3> QED BY <3>2, <3>3
  <2>3. CASE \E i \in 1..n : t[i] = Shell!Named(other)
    <3> DEFINE J == {i \in 1..n : t[i] = Shell!Named(other)}
    <3>1. PICK j \in J : \A y \in J : j <= y
      <4>1. J \in SUBSET Nat /\ J # {}
        BY <2>3, <1>1
      <4> HIDE DEF J
      <4> QED BY <4>1, LeastOf
    <3>2. j \in 1..n /\ t[j] = Shell!Named(other) /\ \A k \in 1..n : t[k] = Shell!Named(other) => j <= k
      BY <3>1
    <3>3. Shell!OptionOf(t, other) = {t[j + 1]}
      BY <1>1, <1>t, <3>2, OptionIs
    <3> DEFINE i == j + 2
    <3>4. i \in 1..n+2 /\ u[i] = Shell!Named(other)
      BY <1>1, <3>2
    <3>5. \A k \in 1..n+2 : u[k] = Shell!Named(other) => i <= k
      <4> TAKE k \in 1..n+2
      <4> HAVE u[k] = Shell!Named(other)
      <4>1. k - 2 \in 1..n /\ j <= k - 2
        BY <2>1, <3>2
      <4> QED BY <4>1, <3>2, <1>1
    <3> HIDE DEF i
    <3>6. Shell!OptionOf(u, other) = {u[i + 1]}
      <4>1. n + 2 \in Nat
        BY <1>1
      <4> QED BY <1>1, <3>4, <3>5, <4>1, OptionIs
    <3>7. u[i + 1] = t[j + 1]
      <4>1. j < n
        BY <1>2, <1>w, <3>2
      <4>2. j + 1 \in 1..n /\ (j + 1) + 2 = i + 1
        BY <1>1, <3>2, <4>1 DEF i
      <4> QED BY <1>1, <4>2
    <3> QED BY <3>3, <3>6, <3>7
  <2> QED BY <2>2, <2>3
<1>5. ASSUME NEW options PROVE Shell!WellFormed(u, options) <=> name \in options /\ Shell!WellFormed(t, options)
  <2>1. ASSUME Shell!WellFormed(u, options) PROVE name \in options /\ Shell!WellFormed(t, options)
    <3>1. name \in options
      <4>1. 1 \in DOMAIN u
        BY <1>1
      <4> QED BY <1>2, <2>1, <4>1 DEF Shell!WellFormed
    <3>2. ASSUME NEW k \in 1..n, Shell!IsOption(t[k]) PROVE t[k].option \in options
      <4>1. k + 2 \in DOMAIN u /\ u[k + 2] = t[k]
        BY <1>1
      <4> QED BY <2>1, <3>2, <4>1 DEF Shell!WellFormed
    <3> QED BY <1>1, <1>w, <1>t, <3>1, <3>2 DEF Shell!WellFormed
  <2>2. ASSUME name \in options, Shell!WellFormed(t, options) PROVE Shell!WellFormed(u, options)
    <3> SUFFICES ASSUME NEW i \in 1..n+2, Shell!IsOption(u[i])
                 PROVE  u[i].option \in options /\ i < n + 2 /\ ~Shell!IsOption(u[i + 1])
      BY <1>1 DEF Shell!WellFormed
    <3>1. CASE i = 1
      BY <1>1, <1>2, <2>2, <3>1
    <3>2. CASE i # 1
      <4>1. i # 2
        BY <1>2
      <4> DEFINE k == i - 2
      <4>2. k \in 1..n /\ k + 2 = i /\ (k + 1) + 2 = i + 1
        BY <1>1, <3>2, <4>1
      <4> HIDE DEF k
      <4>3. u[i] = t[k]
        BY <1>1, <4>2
      <4>4. t[k].option \in options /\ k < n /\ ~Shell!IsOption(t[k + 1])
        BY <1>1, <1>w, <2>2, <4>2, <4>3 DEF Shell!WellFormed
      <4>5. k + 1 \in 1..n
        BY <1>1, <4>2, <4>4
      <4>6. u[i + 1] = t[k + 1]
        BY <1>1, <4>2, <4>5
      <4> QED BY <1>1, <4>2, <4>3, <4>4, <4>6
    <3> QED BY <3>1, <3>2
  <2> QED BY <2>1, <2>2
<1> QED BY <1>3, <1>4, <1>5 DEF u

\* Where there is no option, every argument names a file.
LEMMA WithoutOptions ==
  ASSUME NEW V, NEW t \in Seq(V), \A k \in 1..Len(t) : ~Shell!IsOption(t[k])
  PROVE  /\ Shell!Positionals(t) = t
         /\ \A name : Shell!OptionOf(t, name) = {}
         /\ \A options : Shell!WellFormed(t, options)
<1> DEFINE n == Len(t)
<1>1. n \in Nat /\ DOMAIN t = 1..n
  OBVIOUS
<1>2. \A name : Shell!OptionOf(t, name) = {}
  <2> TAKE name
  <2>1. \A k \in 1..n : t[k] # Shell!Named(name)
    <3>1. Shell!IsOption(Shell!Named(name))
      BY DEF Shell!IsOption, Shell!Named
    <3> QED BY <3>1
  <2> QED BY <1>1, <2>1, OptionIs
<1>3. \A options : Shell!WellFormed(t, options)
  BY <1>1 DEF Shell!WellFormed
<1>4. PICK g \in [0..n -> Seq(V)] : ArePositionals(t, n, g) /\ Shell!Positionals(t) = g[n]
  <2>1. HasPositionals(t, n, V)
    BY PositionalsFold, <1>1
  <2> QED BY <2>1 DEF HasPositionals
<1>5. \A k \in 1..n : ~Skipped(t, k)
  <2> TAKE k \in 1..n
  <2>1. k > 1 => k - 1 \in 1..n
    BY <1>1
  <2> QED BY <2>1 DEF Skipped
<1> DEFINE T == {k \in Nat : k <= n => g[k] = SubSeq(t, 1, k)}
<1>6. 0 \in T
  BY <1>4 DEF ArePositionals
<1>7. ASSUME NEW k \in T PROVE k + 1 \in T
  <2> SUFFICES ASSUME k + 1 <= n PROVE g[k + 1] = SubSeq(t, 1, k + 1)
    OBVIOUS
  <2> DEFINE j == k + 1
  <2>1. k \in Nat /\ g[k] = SubSeq(t, 1, k) /\ j \in 1..n /\ j - 1 = k
    BY <1>1
  <2>2. SubSeq(t, 1, j) = Append(SubSeq(t, 1, k), t[j])
    BY <1>1, <2>1
  <2> HIDE DEF j
  <2>3. g[j] = SubSeq(t, 1, j)
    BY <1>4, <1>5, <2>1, <2>2 DEF ArePositionals
  <2> QED BY <2>3 DEF j
<1>8. n \in T
  <2> HIDE DEF T
  <2>1. T \in SUBSET Nat
    BY DEF T
  <2> QED BY <1>1, <1>6, <1>7, <2>1, Induction
<1>9. SubSeq(t, 1, n) = t
  OBVIOUS
<1> QED BY <1>1, <1>2, <1>3, <1>4, <1>8, <1>9

\* No option is taken for a file.
LEMMA PositionalsAre ==
  ASSUME NEW V, NEW t \in Seq(V)
  PROVE  Shell!Positionals(t) \in Seq({v \in V : ~Shell!IsOption(v)})
<1> DEFINE n == Len(t)
           W == {v \in V : ~Shell!IsOption(v)}
<1>1. n \in Nat /\ DOMAIN t = 1..n /\ \A k \in 1..n : t[k] \in V
  OBVIOUS
<1>4. PICK g \in [0..n -> Seq(V)] : ArePositionals(t, n, g) /\ Shell!Positionals(t) = g[n]
  <2>1. HasPositionals(t, n, V)
    BY PositionalsFold, <1>1
  <2> QED BY <2>1 DEF HasPositionals
<1> DEFINE T == {k \in Nat : k <= n => g[k] \in Seq(W)}
<1>6. 0 \in T
  BY <1>4 DEF ArePositionals
<1>7. ASSUME NEW k \in T PROVE k + 1 \in T
  <2> SUFFICES ASSUME k + 1 <= n PROVE g[k + 1] \in Seq(W)
    OBVIOUS
  <2> DEFINE j == k + 1
  <2>1. k \in Nat /\ g[k] \in Seq(W) /\ j \in 1..n /\ j - 1 = k
    BY <1>1
  <2> HIDE DEF j
  <2>2. Skipped(t, j) \/ t[j] \in W
    BY <1>1, <2>1 DEF Skipped
  <2> HIDE DEF W
  <2>3. g[j] = IF Skipped(t, j) THEN g[k] ELSE Append(g[k], t[j])
    BY <1>4, <2>1 DEF ArePositionals
  <2>4. g[j] \in Seq(W)
    BY <2>1, <2>2, <2>3
  <2> QED BY <2>4 DEF j
<1>8. n \in T
  <2> HIDE DEF T
  <2>1. T \in SUBSET Nat
    BY DEF T
  <2> QED BY <1>1, <1>6, <1>7, <2>1, Induction
<1> QED BY <1>1, <1>4, <1>8

\* What follows an option is its value, and an option is there when it has one.
LEMMA OptionValues ==
  ASSUME NEW V, NEW t \in Seq(V), \A a \in V : IsArgument(a), NEW all, Shell!WellFormed(t, all)
  PROVE  /\ \A name : Shell!OptionOf(t, name) = {} \/ \E v \in V : ~Shell!IsOption(v) /\ Shell!OptionOf(t, name) = {v}
         /\ \A options : Shell!WellFormed(t, options) <=> \A name \in all : Shell!OptionOf(t, name) # {} => name \in options
<1> DEFINE n == Len(t)
<1>1. n \in Nat /\ DOMAIN t = 1..n /\ \A k \in 1..n : t[k] \in V
  OBVIOUS
<1>2. \A k \in 1..n : Shell!IsOption(t[k]) => t[k] = Shell!Named(t[k].option) /\ t[k].option \in all /\ k < n /\ ~Shell!IsOption(t[k + 1])
  <2> TAKE k \in 1..n
  <2> HAVE Shell!IsOption(t[k])
  <2>1. IsArgument(t[k])
    BY <1>1
  <2>2. t[k] = Shell!Named(t[k].option)
    BY <2>1 DEF IsArgument, Shell!IsOption
  <2> QED BY <1>1, <2>2 DEF Shell!WellFormed
<1>3. ASSUME NEW name, NEW i \in 1..n, t[i] = Shell!Named(name)
      PROVE  \E v \in V : ~Shell!IsOption(v) /\ Shell!OptionOf(t, name) = {v}
  <2> DEFINE J == {k \in 1..n : t[k] = Shell!Named(name)}
  <2>1. PICK j \in J : \A y \in J : j <= y
    <3>1. J \in SUBSET Nat /\ J # {}
      BY <1>3, <1>1
    <3> HIDE DEF J
    <3> QED BY <3>1, LeastOf
  <2>2. j \in 1..n /\ t[j] = Shell!Named(name) /\ \A k \in 1..n : t[k] = Shell!Named(name) => j <= k
    BY <2>1
  <2>3. Shell!OptionOf(t, name) = {t[j + 1]}
    BY <1>1, <2>2, OptionIs
  <2>4. Shell!IsOption(t[j])
    BY <2>2 DEF Shell!IsOption, Shell!Named
  <2>5. j + 1 \in 1..n /\ ~Shell!IsOption(t[j + 1])
    BY <1>1, <1>2, <2>2, <2>4
  <2> QED BY <1>1, <2>3, <2>5
<1>4. ASSUME NEW name, \A i \in 1..n : t[i] # Shell!Named(name) PROVE Shell!OptionOf(t, name) = {}
  BY <1>1, <1>4, OptionIs
<1>5. ASSUME NEW options
      PROVE  Shell!WellFormed(t, options) <=> \A name \in all : Shell!OptionOf(t, name) # {} => name \in options
  <2>1. ASSUME Shell!WellFormed(t, options), NEW name \in all, Shell!OptionOf(t, name) # {} PROVE name \in options
    <3>1. PICK i \in 1..n : t[i] = Shell!Named(name)
      BY <1>4, <2>1
    <3>2. Shell!IsOption(t[i]) /\ t[i].option = name
      BY <3>1 DEF Shell!IsOption, Shell!Named
    <3> QED BY <1>1, <2>1, <3>2 DEF Shell!WellFormed
  <2>2. ASSUME \A name \in all : Shell!OptionOf(t, name) # {} => name \in options PROVE Shell!WellFormed(t, options)
    <3>1. ASSUME NEW k \in 1..n, Shell!IsOption(t[k]) PROVE t[k].option \in options
      <4>1. t[k] = Shell!Named(t[k].option) /\ t[k].option \in all
        BY <1>2, <3>1
      <4>2. Shell!OptionOf(t, t[k].option) # {}
        BY <1>3, <4>1
      <4> QED BY <2>2, <4>1, <4>2
    <3> QED BY <1>1, <1>2, <3>1 DEF Shell!WellFormed
  <2> QED BY <2>1, <2>2
<1> QED BY <1>3, <1>4, <1>5

\* What can stand for an option in front of the others.
IsGiven(g, name, values, V) ==
  \/ values = {} /\ g = <<>>
  \/ \E v \in V : ~Shell!IsOption(v) /\ Shell!Named(name) \in V /\ values = {v} /\ g = <<Shell!Named(name), v>>

\* A command line u that gives an option, and for the rest says what t says.
AddsOption(u, t, name, values, all, V) ==
  /\ u \in Seq(V) /\ Shell!WellFormed(u, all)
  /\ Shell!Positionals(u) = Shell!Positionals(t)
  /\ Shell!OptionOf(u, name) = values
  /\ \A other : other # name => Shell!OptionOf(u, other) = Shell!OptionOf(t, other)

\* An option put in front of a command line without it adds itself and changes nothing else.
LEMMA GivenBefore ==
  ASSUME NEW V, NEW t \in Seq(V), NEW all, Shell!WellFormed(t, all), NEW name \in all, NEW values, NEW g, IsGiven(g, name, values, V),
         Shell!OptionOf(t, name) = {}
  PROVE  g \in Seq(V) /\ AddsOption(g \o t, t, name, values, all, V)
<1>1. CASE values = {} /\ g = <<>>
  <2>1. <<>> \o t = t /\ <<>> \in Seq(V)
    OBVIOUS
  <2> QED BY <1>1, <2>1 DEF AddsOption
<1>2. CASE \E v \in V : ~Shell!IsOption(v) /\ Shell!Named(name) \in V /\ values = {v} /\ g = <<Shell!Named(name), v>>
  <2>1. PICK v \in V : ~Shell!IsOption(v) /\ Shell!Named(name) \in V /\ values = {v} /\ g = <<Shell!Named(name), v>>
    BY <1>2
  <2>2. g \in Seq(V) /\ g \o t \in Seq(V)
    BY <2>1
  <2>3. Shell!Positionals(g \o t) = Shell!Positionals(t)
    BY <2>1, PositionalsBehind
  <2>4. /\ Shell!OptionOf(g \o t, name) = {v}
        /\ \A other : other # name => Shell!OptionOf(g \o t, other) = Shell!OptionOf(t, other)
        /\ \A options : Shell!WellFormed(g \o t, options) <=> name \in options /\ Shell!WellFormed(t, options)
    BY <2>1, OptionsBehind
  <2>5. Shell!WellFormed(g \o t, all)
    BY <2>4
  <2> QED BY <2>1, <2>2, <2>3, <2>4, <2>5 DEF AddsOption
<1> QED BY <1>1, <1>2 DEF IsGiven

\* The options of the commands that verify.
Options == {"--trust", "--descriptor", "--out"}

\* Two sequences of one element, one after the other.
LEMMA PairOf == ASSUME NEW V, NEW a \in V, NEW b \in V PROVE <<a>> \o <<b>> = <<a, b>>
<1> DEFINE s == <<a>> t == <<b>> u == s \o t
<1>1. s \in Seq(V) /\ t \in Seq(V) /\ Len(s) = 1 /\ Len(t) = 1 /\ s[1] = a /\ t[1] = b
  OBVIOUS
<1>2. u \in Seq(V) /\ Len(u) = 2 /\ u[1] = a /\ u[2] = b
  <2> HIDE DEF s, t
  <2> QED BY <1>1, ConcatProperties
<1>3. <<a, b>> \in Seq(V) /\ Len(<<a, b>>) = 2 /\ <<a, b>>[1] = a /\ <<a, b>>[2] = b
  OBVIOUS
<1> DEFINE w == <<a, b>>
<1> HIDE DEF u, w
<1>4. \A i \in 1..2 : u[i] = w[i]
  BY <1>2, <1>3 DEF w
<1>5. u = w
  BY <1>2, <1>3, <1>4, SeqEqual DEF w
<1> QED BY <1>5 DEF u, w

\* The one element of a set, as a sequence.
LEMMA OneInSequence == ASSUME NEW v PROVE Shell!SetToSeq({v}) = <<v>>
<1> DEFINE D == [1..Cardinality({v}) -> {v}]
<1>1. D = {<<v>>}
  <2>1. Cardinality({v}) = 1
    BY FS_Singleton
  <2>2. \A f \in [1..1 -> {v}] : f = <<v>>
    OBVIOUS
  <2>3. <<v>> \in [1..1 -> {v}]
    OBVIOUS
  <2> QED BY <2>1, <2>2, <2>3
<1>2. IsInjective(<<v>>)
  BY DEF IsInjective
<1>3. Shell!SetToSeq({v}) = CHOOSE f \in D : IsInjective(f)
  BY DEF Shell!SetToSeq, Shell!IsInjective, IsInjective, Shell!Cardinality, Cardinality
<1> HIDE DEF D
<1> QED BY <1>1, <1>2, <1>3

\* The arguments put in order name the same files and give the same options.
LEMMA PlainlyIs ==
  ASSUME NEW args, args \in Seq(ToSet(args)), \A a \in ToSet(args) : IsArgument(a), Shell!WellFormed(args, Options)
  PROVE  /\ Shell!Positionals(Shell!Plainly(args)) = Shell!Positionals(args)
         /\ \A name \in Options : Shell!OptionOf(Shell!Plainly(args), name) = Shell!OptionOf(args, name)
         /\ \A options : Shell!WellFormed(Shell!Plainly(args), options) <=> Shell!WellFormed(args, options)
<1> DEFINE V == ToSet(args) \cup {Shell!Named(name) : name \in Options}
           g(name) == IF Shell!OptionOf(args, name) = {} THEN <<>> ELSE <<Shell!Named(name)>> \o Shell!SetToSeq(Shell!OptionOf(args, name))
           p == Shell!Positionals(args)
<1>1. args \in Seq(V) /\ \A a \in V : IsArgument(a)
  <2>1. \A name : IsArgument(Shell!Named(name))
    BY DEF IsArgument, Shell!Named
  <2>2. ToSet(args) \subseteq V
    OBVIOUS
  <2> QED BY <2>1, <2>2
<1>2. ASSUME NEW name \in Options PROVE IsGiven(g(name), name, Shell!OptionOf(args, name), V)
  <2>1. CASE Shell!OptionOf(args, name) = {}
    BY <2>1 DEF IsGiven
  <2>2. CASE Shell!OptionOf(args, name) # {}
    <3>1. PICK v \in V : ~Shell!IsOption(v) /\ Shell!OptionOf(args, name) = {v}
      <4> HIDE DEF V
      <4> QED BY <1>1, <2>2, OptionValues
    <3>2. Shell!SetToSeq({v}) = <<v>>
      BY OneInSequence
    <3>3. g(name) = <<Shell!Named(name)>> \o <<v>> /\ Shell!Named(name) \in V
      BY <2>2, <3>1, <3>2
    <3>4. <<Shell!Named(name)>> \o <<v>> = <<Shell!Named(name), v>>
      <4> HIDE DEF V
      <4> QED BY <3>3, PairOf
    <3> HIDE DEF V, g
    <3> QED BY <3>1, <3>3, <3>4 DEF IsGiven
  <2> QED BY <2>1, <2>2
<1>3. /\ p \in Seq(V) /\ Shell!Positionals(p) = p
      /\ \A name : Shell!OptionOf(p, name) = {}
      /\ \A options : Shell!WellFormed(p, options)
  <2> DEFINE W == {v \in V : ~Shell!IsOption(v)}
  <2>1. p \in Seq(W)
    <3> HIDE DEF V
    <3> QED BY <1>1, PositionalsAre
  <2>2. p \in Seq(V) /\ \A k \in 1..Len(p) : ~Shell!IsOption(p[k])
    <3>1. \A k \in 1..Len(p) : p[k] \in W
      <4> HIDE DEF W, p
      <4> QED BY <2>1
    <3>2. W \subseteq V
      OBVIOUS
    <3>3. p \in Seq(V)
      <4> HIDE DEF W, V, p
      <4> QED BY <2>1, <3>2
    <3> QED BY <3>1, <3>3
  <2> HIDE DEF V, p
  <2> QED BY <2>2, WithoutOptions
<1>4. Shell!Plainly(args) = g("--trust") \o g("--descriptor") \o g("--out") \o p
  BY DEF Shell!Plainly
<1> DEFINE g1 == g("--trust") g2 == g("--descriptor") g3 == g("--out")
           t3 == g3 \o p t2 == g2 \o t3 t1 == g1 \o t2
<1>5. /\ "--trust" \in Options /\ "--descriptor" \in Options /\ "--out" \in Options
      /\ "--trust" # "--descriptor" /\ "--trust" # "--out" /\ "--descriptor" # "--out"
  BY DEF Options
<1>6. IsGiven(g1, "--trust", Shell!OptionOf(args, "--trust"), V) /\ IsGiven(g2, "--descriptor", Shell!OptionOf(args, "--descriptor"), V)
      /\ IsGiven(g3, "--out", Shell!OptionOf(args, "--out"), V)
  BY <1>2, <1>5
<1> HIDE DEF V, g1, g2, g3, p
<1>7. /\ t3 \in Seq(V) /\ Shell!WellFormed(t3, Options) /\ g3 \in Seq(V)
      /\ Shell!Positionals(t3) = p
      /\ Shell!OptionOf(t3, "--out") = Shell!OptionOf(args, "--out")
      /\ Shell!OptionOf(t3, "--trust") = {} /\ Shell!OptionOf(t3, "--descriptor") = {}
  <2>1. p \in Seq(V) /\ Shell!WellFormed(p, Options) /\ Shell!OptionOf(p, "--out") = {}
    BY <1>3
  <2>2. g3 \in Seq(V) /\ AddsOption(t3, p, "--out", Shell!OptionOf(args, "--out"), Options, V)
    BY <1>5, <1>6, <2>1, GivenBefore
  <2> HIDE DEF t3
  <2> QED BY <1>3, <1>5, <2>2 DEF AddsOption
<1> HIDE DEF t3
<1>8. /\ t2 \in Seq(V) /\ Shell!WellFormed(t2, Options) /\ g2 \in Seq(V)
      /\ Shell!Positionals(t2) = p
      /\ Shell!OptionOf(t2, "--out") = Shell!OptionOf(args, "--out")
      /\ Shell!OptionOf(t2, "--descriptor") = Shell!OptionOf(args, "--descriptor")
      /\ Shell!OptionOf(t2, "--trust") = {}
  <2>1. g2 \in Seq(V) /\ AddsOption(t2, t3, "--descriptor", Shell!OptionOf(args, "--descriptor"), Options, V)
    BY <1>5, <1>6, <1>7, GivenBefore
  <2> HIDE DEF t2
  <2> QED BY <1>5, <1>7, <2>1 DEF AddsOption
<1> HIDE DEF t2
<1>9. /\ t1 \in Seq(V) /\ Shell!WellFormed(t1, Options) /\ g1 \in Seq(V)
      /\ Shell!Positionals(t1) = p
      /\ Shell!OptionOf(t1, "--out") = Shell!OptionOf(args, "--out")
      /\ Shell!OptionOf(t1, "--descriptor") = Shell!OptionOf(args, "--descriptor")
      /\ Shell!OptionOf(t1, "--trust") = Shell!OptionOf(args, "--trust")
  <2>1. g1 \in Seq(V) /\ AddsOption(t1, t2, "--trust", Shell!OptionOf(args, "--trust"), Options, V)
    BY <1>5, <1>6, <1>8, GivenBefore
  <2> HIDE DEF t1
  <2> QED BY <1>5, <1>8, <2>1 DEF AddsOption
<1>10. Shell!Plainly(args) = t1
  <2>1. ((g1 \o g2) \o g3) \o p = g1 \o (g2 \o (g3 \o p))
    <3>1. (g1 \o g2) \o g3 = g1 \o (g2 \o g3)
      <4>1. g1 \in Seq(V) /\ g2 \in Seq(V) /\ g3 \in Seq(V)
        BY <1>7, <1>8, <1>9
      <4> HIDE DEF g1, g2, g3
      <4> QED BY <4>1, ConcatAssociative
    <3>2. g2 \o g3 \in Seq(V)
      BY <1>7, <1>8
    <3>3. (g1 \o (g2 \o g3)) \o p = g1 \o ((g2 \o g3) \o p)
      <4> DEFINE m == g2 \o g3
      <4>1. m \in Seq(V) /\ p \in Seq(V) /\ g1 \in Seq(V)
        BY <1>3, <1>9, <3>2
      <4> HIDE DEF m
      <4>2. (g1 \o m) \o p = g1 \o (m \o p)
        BY <4>1, ConcatAssociative
      <4> QED BY <4>2 DEF m
    <3>4. (g2 \o g3) \o p = g2 \o (g3 \o p)
      BY <1>3, <1>7, <1>8, ConcatAssociative, SMTT(30)
    <3> QED BY <3>1, <3>3, <3>4
  <2> QED BY <1>4, <2>1 DEF t3, t2, g1, g2, g3
<1>11. \A name \in Options : Shell!OptionOf(t1, name) = Shell!OptionOf(args, name)
  BY <1>9 DEF Options
<1>12. ASSUME NEW options PROVE Shell!WellFormed(t1, options) <=> Shell!WellFormed(args, options)
  <2>1. Shell!WellFormed(t1, options) <=> \A name \in Options : Shell!OptionOf(t1, name) # {} => name \in options
    <3> DEFINE u == t1
    <3>1. u \in Seq(V) /\ Shell!WellFormed(u, Options) /\ \A a \in V : IsArgument(a)
      BY <1>1, <1>9
    <3> HIDE DEF u
    <3>2. Shell!WellFormed(u, options) <=> \A name \in Options : Shell!OptionOf(u, name) # {} => name \in options
      BY <3>1, OptionValues
    <3> QED BY <3>2 DEF u
  <2>2. Shell!WellFormed(args, options) <=> \A name \in Options : Shell!OptionOf(args, name) # {} => name \in options
    BY <1>1, OptionValues
  <2> QED BY <1>11, <2>1, <2>2
<1> HIDE DEF t1
<1> QED BY <1>9, <1>10, <1>11, <1>12 DEF p

\* The commands that verify a file.
Verifies(command) == command \in {"verify", "paper-inspect"}

\* Two command lines that say the same.
SameArguments(other, args) ==
  /\ Shell!Positionals(other) = Shell!Positionals(args)
  /\ \A name \in Options : Shell!OptionOf(other, name) = Shell!OptionOf(args, name)
  /\ \A options : Shell!WellFormed(other, options) <=> Shell!WellFormed(args, options)

\* A command sees of its arguments only which files they name, which options they give and
\* whether they are in order.
LEMMA RunDependsOn ==
  ASSUME NEW command, NEW args, NEW other, NEW disk, SameArguments(other, args)
  PROVE  Shell!Run(command, other, disk, TRUE) = Shell!Run(command, args, disk, TRUE)
<1>1. /\ Shell!OptionOf(other, "--trust") = Shell!OptionOf(args, "--trust")
      /\ Shell!OptionOf(other, "--descriptor") = Shell!OptionOf(args, "--descriptor")
      /\ Shell!OptionOf(other, "--out") = Shell!OptionOf(args, "--out")
  BY DEF Options, SameArguments
<1>2. /\ Shell!TrustLoads(other, disk) <=> Shell!TrustLoads(args, disk)
      /\ Shell!DescriptorReads(other, disk) <=> Shell!DescriptorReads(args, disk)
  BY <1>1 DEF Shell!TrustLoads, Shell!DescriptorReads
<1>3. Shell!Verify(command, other, disk, TRUE) = Shell!Verify(command, args, disk, TRUE)
  BY <1>2 DEF Shell!Verify, SameArguments
<1>4. Shell!SealPdf(other, disk, TRUE) = Shell!SealPdf(args, disk, TRUE)
  BY <1>1, <1>2 DEF Shell!SealPdf, SameArguments
<1>5. Shell!InspectKey(other, disk) = Shell!InspectKey(args, disk) /\ Shell!InitCa(other, TRUE) = Shell!InitCa(args, TRUE)
  BY DEF Shell!InspectKey, Shell!InitCa, SameArguments
<1>6. CASE Verifies(command)
  <2>1. Shell!Run(command, other, disk, TRUE) = Shell!Verify(command, other, disk, TRUE)
    BY <1>6 DEF Shell!Run, Verifies
  <2>2. Shell!Run(command, args, disk, TRUE) = Shell!Verify(command, args, disk, TRUE)
    BY <1>6 DEF Shell!Run, Verifies
  <2> QED BY <1>3, <2>1, <2>2
<1>7. CASE command = "seal-pdf"
  <2>1. Shell!Run(command, other, disk, TRUE) = Shell!SealPdf(other, disk, TRUE)
    BY <1>7 DEF Shell!Run
  <2>2. Shell!Run(command, args, disk, TRUE) = Shell!SealPdf(args, disk, TRUE)
    BY <1>7 DEF Shell!Run
  <2> QED BY <1>4, <2>1, <2>2
<1>8. CASE command = "key-inspect"
  <2>1. Shell!Run(command, other, disk, TRUE) = Shell!InspectKey(other, disk)
    BY <1>8 DEF Shell!Run
  <2>2. Shell!Run(command, args, disk, TRUE) = Shell!InspectKey(args, disk)
    BY <1>8 DEF Shell!Run
  <2> QED BY <1>5, <2>1, <2>2
<1>9. CASE command = "dev-ca-init"
  <2>1. Shell!Run(command, other, disk, TRUE) = Shell!InitCa(other, TRUE)
    BY <1>9 DEF Shell!Run, Verifies
  <2>2. Shell!Run(command, args, disk, TRUE) = Shell!InitCa(args, TRUE)
    BY <1>9 DEF Shell!Run, Verifies
  <2> QED BY <1>5, <2>1, <2>2
<1>10. CASE ~Verifies(command) /\ command \notin {"seal-pdf", "key-inspect", "dev-ca-init"}
  BY <1>10 DEF Shell!Run, Verifies
<1> QED BY <1>6, <1>7, <1>8, <1>9, <1>10

\* Whether the engine and the writing of files work decides nothing about the input.
LEMMA InputDecides ==
  ASSUME NEW command, NEW args, NEW disk
  PROVE  Shell!Run(command, args, disk, TRUE).code = 2 <=> Shell!Run(command, args, disk, FALSE).code = 2
<1>0. Shell!Exit(1).code = 1 /\ Shell!Exit(2).code = 2 /\ \A kind : [code |-> 0, kind |-> kind].code = 0
  BY DEF Shell!Exit
<1>1. Shell!Verify(command, args, disk, TRUE).code = 2 <=> Shell!Verify(command, args, disk, FALSE).code = 2
  BY <1>0 DEF Shell!Verify
<1>2. Shell!SealPdf(args, disk, TRUE).code = 2 <=> Shell!SealPdf(args, disk, FALSE).code = 2
  <2> DEFINE bad == \/ ~Shell!WellFormed(args, {"--descriptor", "--out"}) \/ Len(Shell!Positionals(args)) # 1
                    \/ Shell!OptionOf(args, "--descriptor") = {} \/ Shell!OptionOf(args, "--out") = {}
                    \/ ~Shell!Readable(Shell!Positionals(args)[1], disk, PdfMax)
                    \/ \A d \in Shell!OptionOf(args, "--descriptor") : ~Shell!Readable(d, disk, SmallMax) \/ Shell!FileOf(d, disk).holds = "no-json"
             failed == ~Shell!DescriptorReads(args, disk) \/ Shell!FileOf(Shell!Positionals(args)[1], disk).size = 0
             sealed(works) == IF bad THEN Shell!Exit(2) ELSE IF failed \/ ~works THEN Shell!Exit(1) ELSE [code |-> 0, kind |-> "sealed"]
  <2>1. Shell!SealPdf(args, disk, TRUE) = sealed(TRUE) /\ Shell!SealPdf(args, disk, FALSE) = sealed(FALSE)
    BY DEF Shell!SealPdf
  <2> HIDE DEF bad, failed
  <2>2. sealed(TRUE).code = 2 <=> bad
    BY <1>0
  <2>3. sealed(FALSE).code = 2 <=> bad
    BY <1>0
  <2> QED BY <2>1, <2>2, <2>3
<1>3. Shell!InitCa(args, TRUE).code = 2 <=> Shell!InitCa(args, FALSE).code = 2
  BY <1>0 DEF Shell!InitCa
<1>6. CASE Verifies(command)
  <2>1. \A w : Shell!Run(command, args, disk, w) = Shell!Verify(command, args, disk, w)
    BY <1>6 DEF Shell!Run, Verifies
  <2> QED BY <1>1, <2>1
<1>7. CASE command = "seal-pdf"
  <2>1. Shell!Run(command, args, disk, TRUE) = Shell!SealPdf(args, disk, TRUE)
    BY <1>7 DEF Shell!Run
  <2>2. Shell!Run(command, args, disk, FALSE) = Shell!SealPdf(args, disk, FALSE)
    BY <1>7 DEF Shell!Run
  <2> QED BY <1>2, <2>1, <2>2
<1>8. CASE command = "key-inspect"
  <2>1. \A w : Shell!Run(command, args, disk, w) = Shell!InspectKey(args, disk)
    BY <1>8 DEF Shell!Run
  <2> QED BY <2>1
<1>9. CASE command = "dev-ca-init"
  <2>1. Shell!Run(command, args, disk, TRUE) = Shell!InitCa(args, TRUE)
    BY <1>9 DEF Shell!Run
  <2>2. Shell!Run(command, args, disk, FALSE) = Shell!InitCa(args, FALSE)
    BY <1>9 DEF Shell!Run
  <2> QED BY <1>3, <2>1, <2>2
<1>10. CASE ~Verifies(command) /\ command \notin {"seal-pdf", "key-inspect", "dev-ca-init"}
  BY <1>10 DEF Shell!Run, Verifies
<1> QED BY <1>6, <1>7, <1>8, <1>9, <1>10

\* What a command reads is at most one body.
LEMMA InputIs ==
  ASSUME NEW command, NEW argument, IsArgument(argument), NEW disk, \A name \in DOMAIN disk : IsFile(disk[name]),
         NEW body \in Shell!Input(command, argument, disk)
  PROVE  /\ Shell!Input(command, argument, disk) = {body}
         /\ body \in [shows : Shell!Shows, size : Nat]
<1> DEFINE read == [shows |-> disk[argument.path].shows, size |-> disk[argument.path].size]
           limit == Shell!LimitOfName(argument.path)
<1>1. CASE command = "paper-inspect" /\ "seal" \in DOMAIN argument
  <2>1. "seal" \notin {"option"} /\ "seal" \notin {"path"} /\ "path" \notin {"seal"}
    OBVIOUS
  <2>2. DOMAIN argument = {"seal"} /\ argument.seal \in [shows : Shell!Shows, size : Nat]
    BY <1>1, <2>1 DEF IsArgument
  <2>3. ~Shell!Readable(argument, disk, limit)
    BY <2>1, <2>2 DEF Shell!Readable
  <2>4. Shell!Input(command, argument, disk) = {argument.seal}
    BY <1>1, <2>3 DEF Shell!Input
  <2> QED BY <2>2, <2>4
<1>2. CASE ~(command = "paper-inspect" /\ "seal" \in DOMAIN argument) /\ Shell!Readable(argument, disk, limit)
  <2>1. Shell!Input(command, argument, disk) = {read}
    BY <1>2 DEF Shell!Input, Shell!FileOf
  <2>2. argument.path \in DOMAIN disk
    BY <1>2 DEF Shell!Readable
  <2>3. IsFile(disk[argument.path])
    BY <2>2
  <2>4. read \in [shows : Shell!Shows, size : Nat]
    BY <2>3 DEF IsFile
  <2> QED BY <2>1, <2>4
<1>3. CASE ~(command = "paper-inspect" /\ "seal" \in DOMAIN argument) /\ ~Shell!Readable(argument, disk, limit)
  <2>1. Shell!Input(command, argument, disk) = {}
    BY <1>3 DEF Shell!Input
  <2> QED BY <2>1
<1> QED BY <1>1, <1>2, <1>3

\* The body as a program posts it to the general route, without a content type.
Posted(body) == [method |-> "POST", path |-> "/v1/verify", origin |-> "none", type |-> "none", declared |-> {}, body |-> body, fate |-> "verdict"]

\* The service's general route answers as the command's own detection.
LEMMA PostedIs ==
  ASSUME NEW body \in [shows : Shell!Shows, size : Nat]
  PROVE  /\ Shell!Detected(body).status = "200" =>
              /\ Shell!Detected(body) = Shell!Verified(Shell!KindShown(body))
              /\ Shell!Response(Posted(body)) = Shell!Verified(Shell!KindShown(body))
         /\ Shell!Response(Posted(body)).kind \in Shell!Evidence =>
              /\ Shell!Detected(body) = Shell!Verified(Shell!KindShown(body))
              /\ Shell!Response(Posted(body)).kind = Shell!KindShown(body)
<1> DEFINE r == Posted(body)
           shown == Shell!KindShown(body)
<1>1. /\ IsStated(r) /\ r.path = "/v1/verify" /\ r.type = "none" /\ r.declared = {} /\ r.body = body
      /\ r.method = "POST" /\ r.origin = "none" /\ r.fate = "verdict"
  BY DEF Posted, IsStated, Shell!Types, Shell!Fates
<1> HIDE DEF r
<1>2. r.path \in Shell!VerifyRoutes /\ Shell!OriginAllowed(r)
  BY <1>1 DEF Shell!VerifyRoutes, Shell!OriginAllowed
<1>3. Shell!Response(r) = Judged(r)
  BY <1>1, <1>2, ResponseIs
<1>4. body.shows \in Shell!Shows /\ body.size \in Nat /\ {} # {-1}
  OBVIOUS
<1>5. shown \in {"none", "pdf", "paper-image", "paper-text"}
  BY <1>4, KindsShown DEF Shell!Shows
<1>6. Shell!KindMax(shown) \in Nat
  BY <1>5, KindsFit
<1>7. Shell!Detected(body) = IF body.size > Shell!KindMax(shown) THEN Shell!Refused("413")
                             ELSE IF shown = "none" THEN Shell!Refused("400") ELSE Shell!Verified(shown)
  BY <1>4, DetectedIs
<1>8. ASSUME shown # "none", ~(body.size > Shell!KindMax(shown))
      PROVE  Shell!Response(r) = Shell!Verified(shown)
  <2>1. body.size <= Shell!KindMax(shown)
    BY <1>4, <1>6, <1>8
  <2> QED BY <1>1, <1>3, <1>4, <1>8, <2>1, JudgedPlainly
<1>9. Shell!Refused("413").status = "413" /\ Shell!Refused("400").status = "400"
  BY DEF Shell!Refused
<1>10. ASSUME Shell!Detected(body).status = "200"
       PROVE  Shell!Detected(body) = Shell!Verified(shown) /\ Shell!Response(r) = Shell!Verified(shown)
  <2> HIDE DEF shown
  <2>1. shown # "none" /\ ~(body.size > Shell!KindMax(shown))
    BY <1>7, <1>9, <1>10
  <2> QED BY <1>7, <1>8, <2>1
<1>11. ASSUME Shell!Response(r).kind \in Shell!Evidence
       PROVE  Shell!Detected(body) = Shell!Verified(shown) /\ Shell!Response(r).kind = shown
  <2>1. /\ Judged(r) = Shell!Verified(shown) /\ shown \in Shell!Evidence /\ body.size <= Shell!KindMax(shown)
    BY <1>1, <1>2, <1>3, <1>11, JudgedIs
  <2>2. shown # "none"
    BY <2>1 DEF Shell!Evidence
  <2>3. ~(body.size > Shell!KindMax(shown))
    BY <1>4, <1>6, <2>1
  <2> QED BY <1>3, <1>7, <2>1, <2>2, <2>3 DEF Shell!Verified
<1> HIDE DEF shown
<1> QED BY <1>10, <1>11 DEF r, shown

\* What the one file of a command shows is what its arguments' first file shows.
LEMMA FirstFile ==
  ASSUME NEW args, args \in Seq(ToSet(args)), \A a \in ToSet(args) : IsArgument(a), Len(Shell!Positionals(args)) = 1
  PROVE  IsArgument(Shell!Positionals(args)[1])
<1> DEFINE V == ToSet(args)
           W == {v \in V : ~Shell!IsOption(v)}
           p == Shell!Positionals(args)
<1>1. p \in Seq(W)
  <2> HIDE DEF V
  <2> QED BY PositionalsAre DEF V
<1>2. p[1] \in W
  <2> HIDE DEF W, p
  <2>1. Len(p) = 1
    BY DEF p
  <2>2. 1 \in 1..Len(p)
    BY <2>1
  <2> QED BY <1>1, <2>2, ElementOfSeq
<1> QED BY <1>2

\* A command takes a file for what its bytes show, as the service does.
LEMMA VerifiesAsShown ==
  ASSUME NEW command, Verifies(command), NEW args, args \in Seq(ToSet(args)), \A a \in ToSet(args) : IsArgument(a),
         NEW disk, \A name \in DOMAIN disk : IsFile(disk[name]),
         NEW body \in Shell!Input(command, Shell!Positionals(args)[1], disk), Len(Shell!Positionals(args)) = 1
  PROVE  /\ Shell!Verify(command, args, disk, TRUE).code = 0 =>
              /\ Shell!Verify(command, args, disk, TRUE).kind = Shell!KindShown(body)
              /\ Shell!Response(Posted(body)) = Shell!Verified(Shell!KindShown(body))
         /\ /\ Shell!WellFormed(args, {"--trust", "--descriptor"}) /\ Shell!TrustLoads(args, disk) /\ Shell!DescriptorReads(args, disk)
            /\ Shell!Response(Posted(body)).kind \in Shell!Evidence
            => Shell!Verify(command, args, disk, TRUE) = [code |-> 0, kind |-> Shell!Response(Posted(body)).kind]
<1> DEFINE read == Shell!Input(command, Shell!Positionals(args)[1], disk)
           bad == \/ ~Shell!WellFormed(args, {"--trust", "--descriptor"}) \/ Len(Shell!Positionals(args)) # 1
                  \/ ~Shell!TrustLoads(args, disk) \/ ~Shell!DescriptorReads(args, disk)
           kind == Shell!Detected(CHOOSE b \in read : TRUE).kind
           verified == Shell!Verify(command, args, disk, TRUE)
<1>1. IsArgument(Shell!Positionals(args)[1])
  BY FirstFile
<1>2. read = {body} /\ body \in [shows : Shell!Shows, size : Nat]
  BY <1>1, InputIs
<1>3. verified = IF bad \/ \A b \in read : Shell!Detected(b).status # "200" THEN Shell!Exit(2)
                 ELSE IF ~TRUE THEN Shell!Exit(1) ELSE [code |-> 0, kind |-> kind]
  BY DEF Shell!Verify
<1>4. kind = Shell!Detected(body).kind
  BY <1>2
<1>5. Shell!Exit(2).code = 2 /\ Shell!Verified(Shell!KindShown(body)).kind = Shell!KindShown(body)
      /\ Shell!Verified(Shell!KindShown(body)).status = "200" /\ [code |-> 0, kind |-> kind].kind = kind
  BY DEF Shell!Exit, Shell!Verified
<1> HIDE DEF read, kind, verified
<1>6. verified = IF bad \/ Shell!Detected(body).status # "200" THEN Shell!Exit(2) ELSE [code |-> 0, kind |-> kind]
  BY <1>2, <1>3
<1>7. ASSUME verified.code = 0
      PROVE  verified.kind = Shell!KindShown(body) /\ Shell!Response(Posted(body)) = Shell!Verified(Shell!KindShown(body))
  <2>1. Shell!Detected(body).status = "200" /\ verified = [code |-> 0, kind |-> kind]
    <3> HIDE DEF bad
    <3> QED BY <1>5, <1>6, <1>7
  <2>2. Shell!Detected(body) = Shell!Verified(Shell!KindShown(body)) /\ Shell!Response(Posted(body)) = Shell!Verified(Shell!KindShown(body))
    BY <1>2, <2>1, PostedIs
  <2>3. verified.kind = kind
    BY <1>5, <2>1
  <2> QED BY <1>4, <1>5, <2>2, <2>3
<1>8. ASSUME Shell!WellFormed(args, {"--trust", "--descriptor"}), Shell!TrustLoads(args, disk), Shell!DescriptorReads(args, disk),
             Shell!Response(Posted(body)).kind \in Shell!Evidence
      PROVE  verified = [code |-> 0, kind |-> Shell!Response(Posted(body)).kind]
  <2>1. Shell!Detected(body) = Shell!Verified(Shell!KindShown(body)) /\ Shell!Response(Posted(body)).kind = Shell!KindShown(body)
    BY <1>2, <1>8, PostedIs
  <2>2. ~bad
    BY <1>8
  <2> HIDE DEF bad
  <2> QED BY <1>4, <1>5, <1>6, <2>1, <2>2
<1> QED BY <1>7, <1>8 DEF verified

\* What is recognised of a body.
LEMMA RecognisedBodies ==
  ASSUME NEW body \in [shows : Shell!Shows, size : Nat]
  PROVE  Shell!Detected(body).status = "200" <=> Shell!Recognised(body)
<1>1. Shell!KindShown(body) \in {"none", "pdf", "paper-image", "paper-text"} /\ body.size \in Nat
  BY KindsShown DEF Shell!Shows
<1>2. Shell!KindMax(Shell!KindShown(body)) \in Nat
  BY <1>1, KindsFit
<1>3. body.size > Shell!KindMax(Shell!KindShown(body)) <=> ~(body.size <= Shell!KindMax(Shell!KindShown(body)))
  BY <1>1, <1>2
<1>4. Shell!Detected(body) = IF body.size > Shell!KindMax(Shell!KindShown(body)) THEN Shell!Refused("413")
                             ELSE IF Shell!KindShown(body) = "none" THEN Shell!Refused("400")
                             ELSE Shell!Verified(Shell!KindShown(body))
  BY DetectedIs
<1> QED BY <1>3, <1>4, AnswersAre DEF Shell!Recognised

\* The files a command is given one by one.
LEMMA PlacesOfFiles ==
  ASSUME NEW args, args \in Seq(ToSet(args)), \A a \in ToSet(args) : IsArgument(a)
  PROVE  DOMAIN Shell!Positionals(args) = 1..Len(Shell!Positionals(args))
<1> DEFINE V == ToSet(args)
           W == {v \in V : ~Shell!IsOption(v)}
           p == Shell!Positionals(args)
<1>1. p \in Seq(W)
  <2> HIDE DEF V
  <2> QED BY PositionalsAre DEF V
<1> HIDE DEF W, p
<1>2. DOMAIN p = 1..Len(p)
  BY <1>1
<1> QED BY <1>2 DEF p

\* The code a command exits with, beside what is wrong with its input.
CodeTells(command, fault, code) ==
  /\ code \in {0, 1, 2}
  /\ code = 2 => fault
  /\ fault => code # 0 /\ (command # "seal-pdf" => code = 2)
  /\ ~fault => code = 0

\* What is wrong with the input decides how a command exits.
LEMMA FaultsDecide ==
  ASSUME NEW command, NEW args, args \in Seq(ToSet(args)), \A a \in ToSet(args) : IsArgument(a),
         NEW disk, \A name \in DOMAIN disk : IsFile(disk[name])
  PROVE  CodeTells(command, Shell!InputFault(command, args, disk), Shell!Run(command, args, disk, TRUE).code)
<1> DEFINE fault == Shell!InputFault(command, args, disk)
           files == Shell!Positionals(args)
           outcome == Shell!Run(command, args, disk, TRUE)
<1>0. /\ Shell!Exit(1).code = 1 /\ Shell!Exit(2).code = 2 /\ \A kind : [code |-> 0, kind |-> kind].code = 0
  BY DEF Shell!Exit
<1>1. Len(files) = 1 => ((\E i \in DOMAIN files : Shell!FileFault(command, files[i], disk)) <=> Shell!FileFault(command, files[1], disk))
  BY PlacesOfFiles
<1>2. CASE Verifies(command)
  <2> DEFINE bad == \/ ~Shell!WellFormed(args, {"--trust", "--descriptor"}) \/ Len(files) # 1
                    \/ ~Shell!TrustLoads(args, disk) \/ ~Shell!DescriptorReads(args, disk)
             unknown == \A body \in Shell!Input(command, files[1], disk) : Shell!Detected(body).status # "200"
             kind == Shell!Detected(CHOOSE body \in Shell!Input(command, files[1], disk) : TRUE).kind
  <2>1. outcome = Shell!Verify(command, args, disk, TRUE)
    BY <1>2 DEF Shell!Run, Verifies
  <2>2. outcome = IF bad \/ unknown THEN Shell!Exit(2) ELSE IF ~TRUE THEN Shell!Exit(1) ELSE [code |-> 0, kind |-> kind]
    BY <2>1 DEF Shell!Verify
  <2>3. Shell!Takes(command) = {"--trust", "--descriptor"} /\ command \in Shell!Commands /\ command \notin {"seal-pdf", "dev-ca-init"}
    BY <1>2 DEF Shell!Takes, Shell!Commands, Verifies
  <2>4. Shell!ArgumentFault(command, args) \/ Shell!OptionFault(command, args, disk) <=> bad
    BY <2>3 DEF Shell!ArgumentFault, Shell!OptionFault
  <2>5. Len(files) = 1 => (Shell!FileFault(command, files[1], disk) <=> unknown)
    <3> SUFFICES ASSUME Len(files) = 1 PROVE Shell!FileFault(command, files[1], disk) <=> unknown
      OBVIOUS
    <3>1. IsArgument(files[1])
      BY FirstFile
    <3>2. ASSUME NEW body \in Shell!Input(command, files[1], disk) PROVE Shell!Recognised(body) <=> Shell!Detected(body).status = "200"
      <4>1. body \in [shows : Shell!Shows, size : Nat]
        <5> HIDE DEF files
        <5> QED BY <3>1, <3>2, InputIs
      <4> QED BY <4>1, RecognisedBodies
    <3>3. Shell!FileFault(command, files[1], disk) <=> \A body \in Shell!Input(command, files[1], disk) : ~Shell!Recognised(body)
      BY <1>2 DEF Shell!FileFault, Verifies
    <3> HIDE DEF files
    <3> QED BY <3>2, <3>3
  <2>6. Len(files) # 1 => bad
    OBVIOUS
  <2> HIDE DEF bad, unknown, files, kind, outcome
  <2>7. fault <=> bad \/ unknown
    BY <1>1, <2>4, <2>5, <2>6 DEF Shell!InputFault, files
  <2> HIDE DEF fault
  <2>8. (bad \/ unknown => outcome.code = 2) /\ (~(bad \/ unknown) => outcome.code = 0)
    BY <1>0, <2>2
  <2>9. CodeTells(command, fault, outcome.code)
    BY <2>7, <2>8 DEF CodeTells
  <2> QED BY <2>9 DEF fault, outcome
<1>3. CASE command = "seal-pdf"
  <2> DEFINE bad == \/ ~Shell!WellFormed(args, {"--descriptor", "--out"}) \/ Len(files) # 1
                    \/ Shell!OptionOf(args, "--descriptor") = {} \/ Shell!OptionOf(args, "--out") = {}
                    \/ ~Shell!Readable(files[1], disk, PdfMax)
                    \/ \A d \in Shell!OptionOf(args, "--descriptor") : ~Shell!Readable(d, disk, SmallMax) \/ Shell!FileOf(d, disk).holds = "no-json"
             failed == ~Shell!DescriptorReads(args, disk) \/ Shell!FileOf(files[1], disk).size = 0
  <2>1. outcome = IF bad THEN Shell!Exit(2) ELSE IF failed \/ ~TRUE THEN Shell!Exit(1) ELSE [code |-> 0, kind |-> "sealed"]
    <3>1. outcome = Shell!SealPdf(args, disk, TRUE)
      BY <1>3 DEF Shell!Run
    <3> QED BY <3>1 DEF Shell!SealPdf
  <2>2. Shell!Takes(command) = {"--descriptor", "--out"} /\ command \in Shell!Commands /\ "--trust" \notin Shell!Takes(command)
    BY <1>3 DEF Shell!Takes, Shell!Commands
  <2>3. Shell!ArgumentFault(command, args) <=>
          \/ ~Shell!WellFormed(args, {"--descriptor", "--out"}) \/ Len(files) # 1
          \/ Shell!OptionOf(args, "--descriptor") = {} \/ Shell!OptionOf(args, "--out") = {}
    BY <1>3, <2>2 DEF Shell!ArgumentFault
  <2>4. Shell!OptionFault(command, args, disk) <=> ~Shell!DescriptorReads(args, disk)
    BY <2>2 DEF Shell!OptionFault
  <2>5. Shell!FileFault(command, files[1], disk) <=> ~Shell!Readable(files[1], disk, PdfMax) \/ Shell!FileOf(files[1], disk).size = 0
    BY <1>3 DEF Shell!FileFault
  <2>6. Shell!OptionOf(args, "--descriptor") # {} /\ (\A d \in Shell!OptionOf(args, "--descriptor") : ~Shell!Readable(d, disk, SmallMax) \/ Shell!FileOf(d, disk).holds = "no-json")
          => ~Shell!DescriptorReads(args, disk)
    BY DEF Shell!DescriptorReads
  <2>7. fault <=> bad \/ failed
    <3> HIDE DEF files
    <3>1. fault <=> \/ Shell!ArgumentFault(command, args) \/ Shell!OptionFault(command, args, disk)
                    \/ \E i \in DOMAIN files : Shell!FileFault(command, files[i], disk)
      BY DEF Shell!InputFault, files
    <3>2. CASE Len(files) # 1
      BY <2>3, <3>1, <3>2
    <3>3. CASE Len(files) = 1
      BY <1>1, <2>3, <2>4, <2>5, <2>6, <3>1, <3>3
    <3> QED BY <3>2, <3>3
  <2> HIDE DEF bad, failed, fault, outcome
  <2>8. /\ bad => outcome.code = 2
        /\ ~bad /\ failed => outcome.code = 1
        /\ ~bad /\ ~failed => outcome.code = 0
    BY <1>0, <2>1
  <2>9. CodeTells(command, fault, outcome.code)
    BY <1>3, <2>7, <2>8 DEF CodeTells
  <2> QED BY <2>9 DEF fault, outcome
<1>4. CASE command = "key-inspect"
  <2> DEFINE bad == \/ ~Shell!WellFormed(args, {}) \/ Len(files) # 1
                    \/ ~Shell!Readable(files[1], disk, SmallMax) \/ Shell!FileOf(files[1], disk).holds # "certificate"
  <2>1. outcome = IF bad THEN Shell!Exit(2) ELSE [code |-> 0, kind |-> "inspected"]
    <3>1. outcome = Shell!InspectKey(args, disk)
      BY <1>4 DEF Shell!Run
    <3> QED BY <3>1 DEF Shell!InspectKey
  <2>2. Shell!Takes(command) = {} /\ command \in Shell!Commands
    BY <1>4 DEF Shell!Takes, Shell!Commands
  <2>3. Shell!ArgumentFault(command, args) <=> ~Shell!WellFormed(args, {}) \/ Len(files) # 1
    BY <1>4, <2>2 DEF Shell!ArgumentFault
  <2>4. ~Shell!OptionFault(command, args, disk)
    BY <2>2 DEF Shell!OptionFault
  <2>5. Shell!FileFault(command, files[1], disk) <=> ~Shell!Readable(files[1], disk, SmallMax) \/ Shell!FileOf(files[1], disk).holds # "certificate"
    BY <1>4 DEF Shell!FileFault
  <2>6. fault <=> bad
    <3> HIDE DEF files
    <3>1. fault <=> \/ Shell!ArgumentFault(command, args) \/ Shell!OptionFault(command, args, disk)
                    \/ \E i \in DOMAIN files : Shell!FileFault(command, files[i], disk)
      BY DEF Shell!InputFault, files
    <3> QED BY <1>1, <2>3, <2>4, <2>5, <3>1
  <2> HIDE DEF bad, fault, outcome
  <2>7. (bad => outcome.code = 2) /\ (~bad => outcome.code = 0)
    BY <1>0, <2>1
  <2>8. CodeTells(command, fault, outcome.code)
    BY <1>4, <2>6, <2>7 DEF CodeTells
  <2> QED BY <2>8 DEF fault, outcome
<1>5. CASE command = "dev-ca-init"
  <2> DEFINE bad == ~Shell!WellFormed(args, {"--out"}) \/ files # <<>>
  <2>1. outcome = IF bad THEN Shell!Exit(2) ELSE IF ~TRUE THEN Shell!Exit(1) ELSE [code |-> 0, kind |-> "initialized"]
    <3>1. outcome = Shell!InitCa(args, TRUE)
      BY <1>5 DEF Shell!Run
    <3> QED BY <3>1 DEF Shell!InitCa
  <2>2. Shell!Takes(command) = {"--out"} /\ command \in Shell!Commands
    BY <1>5 DEF Shell!Takes, Shell!Commands
  <2>3. files = <<>> <=> Len(files) = 0
    <3> DEFINE W == {v \in ToSet(args) : ~Shell!IsOption(v)}
    <3>1. files \in Seq(W)
      <4> DEFINE V == ToSet(args)
      <4> HIDE DEF V
      <4> QED BY PositionalsAre DEF V
    <3> HIDE DEF files, W
    <3> QED BY <3>1, EmptySeq
  <2>4. Shell!ArgumentFault(command, args) <=> bad
    <3>1. Shell!ArgumentFault(command, args) <=> ~Shell!WellFormed(args, {"--out"}) \/ Len(files) # 0
      BY <1>5, <2>2 DEF Shell!ArgumentFault
    <3> HIDE DEF files
    <3> QED BY <2>3, <3>1
  <2>5. ~Shell!OptionFault(command, args, disk)
    BY <2>2 DEF Shell!OptionFault
  <2>6. \A i \in DOMAIN files : ~Shell!FileFault(command, files[i], disk)
    BY <1>5 DEF Shell!FileFault
  <2>7. fault <=> bad
    <3> HIDE DEF bad, files
    <3>1. fault <=> \/ Shell!ArgumentFault(command, args) \/ Shell!OptionFault(command, args, disk)
                    \/ \E i \in DOMAIN files : Shell!FileFault(command, files[i], disk)
      BY DEF Shell!InputFault, files
    <3> QED BY <2>4, <2>5, <2>6, <3>1
  <2> HIDE DEF bad, fault, outcome
  <2>8. (bad => outcome.code = 2) /\ (~bad => outcome.code = 0)
    BY <1>0, <2>1
  <2>9. CodeTells(command, fault, outcome.code)
    BY <1>5, <2>7, <2>8 DEF CodeTells
  <2> QED BY <2>9 DEF fault, outcome
<1>6. CASE ~Verifies(command) /\ command \notin {"seal-pdf", "key-inspect", "dev-ca-init"}
  <2>1. outcome = Shell!Exit(2)
    BY <1>6 DEF Shell!Run, Verifies
  <2>2. fault
    BY <1>6 DEF Shell!InputFault, Shell!ArgumentFault, Shell!Commands, Verifies
  <2>3. outcome.code = 2
    BY <1>0, <2>1
  <2> HIDE DEF fault, outcome
  <2>4. CodeTells(command, fault, outcome.code)
    BY <1>6, <2>2, <2>3 DEF CodeTells
  <2> QED BY <2>4 DEF fault, outcome
<1> QED BY <1>2, <1>3, <1>4, <1>5, <1>6

\* A command takes what it is given for what it shows, its arguments for what they say and a fault
\* of its input for what it is.
THEOREM CommandsAgree ==
  ASSUME NEW command, NEW args, args \in Seq(ToSet(args)), \A a \in ToSet(args) : IsArgument(a),
         NEW disk, \A name \in DOMAIN disk : IsFile(disk[name])
  PROVE  Shell!CommandAgrees(command, args, disk)
<1> DEFINE outcome == Shell!Run(command, args, disk, TRUE)
           body1 == Shell!Positionals(args)[1]
<1>1. ASSUME Shell!WellFormed(args, {"--trust", "--descriptor", "--out"})
      PROVE  Shell!Run(command, Shell!Plainly(args), disk, TRUE) = outcome
  <2>1. Shell!WellFormed(args, Options)
    BY <1>1 DEF Options
  <2>2. SameArguments(Shell!Plainly(args), args)
    BY <2>1, PlainlyIs DEF SameArguments
  <2> QED BY <2>2, RunDependsOn
<1>2. outcome.code = 2 <=> Shell!Run(command, args, disk, FALSE).code = 2
  BY InputDecides
<1>3. ASSUME Verifies(command), outcome.code = 0, NEW body \in Shell!Input(command, body1, disk)
      PROVE  outcome.kind = Shell!KindShown(body) /\ Shell!Response(Posted(body)) = Shell!Verified(outcome.kind)
  <2>1. outcome = Shell!Verify(command, args, disk, TRUE)
    BY <1>3 DEF Shell!Run, Verifies
  <2>2. Len(Shell!Positionals(args)) = 1
    <3>1. Shell!Exit(2).code = 2
      BY DEF Shell!Exit
    <3> HIDE DEF outcome
    <3> QED BY <1>3, <2>1, <3>1 DEF Shell!Verify
  <2> HIDE DEF outcome
  <2> QED BY <1>3, <2>1, <2>2, VerifiesAsShown
<1>4. ASSUME Verifies(command), Shell!WellFormed(args, {"--trust", "--descriptor"}), Len(Shell!Positionals(args)) = 1,
             Shell!TrustLoads(args, disk), Shell!DescriptorReads(args, disk),
             NEW body \in Shell!Input(command, body1, disk), Shell!Response(Posted(body)).kind \in Shell!Evidence
      PROVE  outcome = [code |-> 0, kind |-> Shell!Response(Posted(body)).kind]
  <2>1. outcome = Shell!Verify(command, args, disk, TRUE)
    BY <1>4 DEF Shell!Run, Verifies
  <2> HIDE DEF outcome
  <2> QED BY <1>4, <2>1, VerifiesAsShown
<1>5. CodeTells(command, Shell!InputFault(command, args, disk), outcome.code)
  BY FaultsDecide
<1> HIDE DEF outcome
<1>6. /\ outcome.code = 2 => Shell!InputFault(command, args, disk)
      /\ Shell!InputFault(command, args, disk) => outcome.code # 0 /\ (command # "seal-pdf" => outcome.code = 2)
      /\ ~Shell!InputFault(command, args, disk) => outcome.code = 0
  BY <1>5 DEF CodeTells
<1> QED BY <1>1, <1>2, <1>3, <1>4, <1>6 DEF Shell!CommandAgrees, outcome, Posted, Verifies

-----------------------------------------------------------------------------
(* Logged values (logging.ts, logger.ts) *)

\* How deep a logged value can be.
Depths == 0..LogDepth
\* The values of one depth.
At(depth) == Logs!Logged[depth]

\* Values nest to every depth up to the last.
LEMMA LoggedExists ==
  \E f : f = [depth \in Depths |-> IF depth = 0 THEN Logs!Leaves ELSE Logs!Leaves \cup Logs!Nested(f[depth - 1])]
<1> DEFINE UpTo(f, k) == f = [depth \in 0..k |-> IF depth = 0 THEN Logs!Leaves ELSE Logs!Leaves \cup Logs!Nested(f[depth - 1])]
           T == {k \in Nat : \E f : UpTo(f, k)}
<1>1. 0 \in T
  <2> DEFINE f == [depth \in 0..0 |-> Logs!Leaves]
  <2>1. UpTo(f, 0)
    OBVIOUS
  <2> HIDE DEF f, UpTo
  <2> QED BY <2>1
<1>2. ASSUME NEW k \in T PROVE k + 1 \in T
  <2>1. k \in Nat
    OBVIOUS
  <2>2. PICK f : UpTo(f, k)
    OBVIOUS
  <2> DEFINE g == [depth \in 0..k+1 |-> IF depth = k + 1 THEN Logs!Leaves \cup Logs!Nested(f[k]) ELSE f[depth]]
  <2>3. ASSUME NEW depth \in 0..k+1
        PROVE  g[depth] = IF depth = 0 THEN Logs!Leaves ELSE Logs!Leaves \cup Logs!Nested(g[depth - 1])
    <3>1. CASE depth = k + 1
      <4>1. k \in 0..k+1 /\ k # k + 1 /\ depth # 0 /\ depth - 1 = k
        BY <2>1, <3>1
      <4>2. g[k] = f[k] /\ g[depth] = Logs!Leaves \cup Logs!Nested(f[k])
        BY <3>1, <4>1
      <4> HIDE DEF g
      <4> QED BY <4>1, <4>2
    <3>2. CASE depth \in 1..k
      <4>1. depth \in 0..k /\ depth - 1 \in 0..k+1 /\ depth - 1 # k + 1 /\ depth # k + 1 /\ depth # 0
        BY <2>1, <3>2
      <4>2. g[depth] = f[depth] /\ g[depth - 1] = f[depth - 1]
        BY <4>1
      <4>3. f[depth] = Logs!Leaves \cup Logs!Nested(f[depth - 1])
        BY <2>2, <4>1
      <4> HIDE DEF g
      <4> QED BY <4>1, <4>2, <4>3
    <3>3. CASE depth = 0
      <4>1. 0 \in 0..k /\ 0 # k + 1
        BY <2>1
      <4>2. g[0] = f[0] /\ f[0] = Logs!Leaves
        BY <2>1, <2>2, <4>1, <3>3
      <4> HIDE DEF g
      <4> QED BY <3>3, <4>2
    <3> QED BY <2>1, <3>1, <3>2, <3>3
  <2>4. UpTo(g, k + 1)
    <3>1. g = [depth \in 0..k+1 |-> g[depth]]
      OBVIOUS
    <3> HIDE DEF g
    <3> QED BY <2>3, <3>1
  <2> HIDE DEF g, UpTo
  <2> QED BY <2>1, <2>4
<1>3. LogDepth \in T
  <2> HIDE DEF T
  <2>1. T \in SUBSET Nat
    BY DEF T
  <2> QED BY <1>1, <1>2, <2>1, Induction, LimitsAssumption
<1> QED BY <1>3 DEF Depths

\* What is logged, depth by depth.
LEMMA LoggedIs ==
  /\ DOMAIN Logs!Logged = Depths
  /\ At(0) = Logs!Leaves
  /\ \A depth \in 1..LogDepth : At(depth) = Logs!Leaves \cup Logs!Nested(At(depth - 1))
<1> DEFINE It(f) == [depth \in Depths |-> IF depth = 0 THEN Logs!Leaves ELSE Logs!Leaves \cup Logs!Nested(f[depth - 1])]
           f == CHOOSE f : f = It(f)
<1>1. Logs!Logged = f
  BY DEF Logs!Logged, Depths
<1>2. f = It(f)
  <2>1. \E h : h = It(h)
    BY LoggedExists
  <2> HIDE DEF It
  <2> QED BY <2>1
<1> HIDE DEF f
<1>3. \A depth \in Depths : f[depth] = IF depth = 0 THEN Logs!Leaves ELSE Logs!Leaves \cup Logs!Nested(f[depth - 1])
  BY <1>2
<1>4. 0 \in Depths /\ \A depth \in 1..LogDepth : depth \in Depths /\ depth # 0
  BY LimitsAssumption DEF Depths
<1>5. DOMAIN f = Depths
  BY <1>2
<1> QED BY <1>1, <1>3, <1>4, <1>5 DEF At

\* A logged value is a leaf, a list or fields.
IsLeaf(v) == v \in Logs!Leaves
\* A list of parts.
IsList(v, parts) == DOMAIN v = {"list"} /\ v.list \in Seq(parts) /\ v = [list |-> v.list]
\* Fields with parts for their values.
IsFields(v, parts) == DOMAIN v = {"fields"} /\ v.fields \in Seq(LogKeys \X parts) /\ v = [fields |-> v.fields]

\* The values of each depth have one of these shapes.
LEMMA LoggedShape ==
  /\ \A v \in At(0) : IsLeaf(v)
  /\ \A depth \in 1..LogDepth : \A v : v \in At(depth) <=> IsLeaf(v) \/ IsList(v, At(depth - 1)) \/ IsFields(v, At(depth - 1))
<1>1. ASSUME NEW parts, NEW v PROVE v \in Logs!Nested(parts) <=> IsList(v, parts) \/ IsFields(v, parts)
  <2>1. v \in [list : Seq(parts)] <=> IsList(v, parts)
    BY DEF IsList
  <2>2. v \in [fields : Seq(LogKeys \X parts)] <=> IsFields(v, parts)
    BY DEF IsFields
  <2> QED BY <2>1, <2>2 DEF Logs!Nested
<1> QED BY <1>1, LoggedIs DEF IsLeaf

\* A leaf is neither a list nor fields.
LEMMA LeafIs ==
  ASSUME NEW v, IsLeaf(v)
  PROVE  "list" \notin DOMAIN v /\ "fields" \notin DOMAIN v
<1>1. "list" # "text" /\ "list" # "bytes" /\ "fields" # "text" /\ "fields" # "bytes"
  OBVIOUS
<1> QED BY <1>1 DEF IsLeaf, Logs!Leaves, Logs!Redacted

\* The mark of what is left out is a leaf, and not of bytes.
LEMMA MarkIs == IsLeaf(Logs!Redacted) /\ "bytes" \notin DOMAIN Logs!Redacted
BY DEF IsLeaf, Logs!Leaves, Logs!Redacted

\* What each kind of value is written as, and when it shows a secret.
LEMMA RedactedLeaf ==
  ASSUME NEW v, IsLeaf(v), NEW logger, NEW within
  PROVE  Logs!RedactedValue(logger, v, within) = IF "bytes" \in DOMAIN v THEN Logs!Redacted ELSE v
BY LeafIs DEF Logs!RedactedValue

\* A list is written part by part.
LEMMA RedactedList ==
  ASSUME NEW v, NEW parts, IsList(v, parts), NEW logger, NEW within
  PROVE  Logs!RedactedValue(logger, v, within) = [list |-> [i \in DOMAIN v.list |-> within[v.list[i]]]]
<1>1. "bytes" \notin DOMAIN v /\ "list" \in DOMAIN v /\ "fields" \notin DOMAIN v
  BY DEF IsList
<1> QED BY <1>1 DEF Logs!RedactedValue

\* Fields are written entry by entry.
LEMMA RedactedOfFields ==
  ASSUME NEW v, NEW parts, IsFields(v, parts), NEW logger, NEW within
  PROVE  Logs!RedactedValue(logger, v, within) = [fields |-> Logs!RedactedFields(logger, v.fields, within)]
<1>1. "bytes" \notin DOMAIN v /\ "list" \notin DOMAIN v /\ "fields" \in DOMAIN v
  BY DEF IsFields
<1> QED BY <1>1 DEF Logs!RedactedValue

\* A leaf shows a secret when it is made of bytes.
LEMMA ShownByLeaf ==
  ASSUME NEW v, IsLeaf(v), NEW logger, NEW within
  PROVE  Logs!Shows(Logs!SensitiveKeys(logger), v, within) <=> "bytes" \in DOMAIN v
BY LeafIs DEF Logs!Shows

\* A list shows a secret when a part of it does.
LEMMA ShownByList ==
  ASSUME NEW v, NEW parts, IsList(v, parts), NEW logger, NEW within
  PROVE  Logs!Shows(Logs!SensitiveKeys(logger), v, within) <=> \E i \in DOMAIN v.list : within[v.list[i]]
<1>1. "bytes" \notin DOMAIN v /\ "list" \in DOMAIN v /\ "fields" \notin DOMAIN v
  BY DEF IsList
<1> QED BY <1>1 DEF Logs!Shows

\* Fields show a secret under a sensitive key that is not marked, or in one of their values.
LEMMA ShownByFields ==
  ASSUME NEW v, NEW parts, IsFields(v, parts), NEW logger, NEW within
  PROVE  Logs!Shows(Logs!SensitiveKeys(logger), v, within) <=>
           \E i \in DOMAIN v.fields :
             \/ v.fields[i][1] \in Logs!SensitiveKeys(logger) /\ v.fields[i][2] # Logs!Redacted
             \/ within[v.fields[i][2]]
<1>1. "bytes" \notin DOMAIN v /\ "list" \notin DOMAIN v /\ "fields" \in DOMAIN v
  BY DEF IsFields
<1> QED BY <1>1 DEF Logs!Shows

\* What a logger writes, by depth.
WrittenTo(w, logger) ==
  /\ \A v \in At(0) : w[0][v] = IF "bytes" \in DOMAIN v THEN Logs!Redacted ELSE v
  /\ \A depth \in 1..LogDepth : \A v \in At(depth) : w[depth][v] = Logs!RedactedValue(logger, v, w[depth - 1])

\* What a logger writes is there, for every depth.
LEMMA WrittenExists ==
  ASSUME NEW logger
  PROVE  \E w : w = [depth \in Depths |-> [v \in At(depth) |-> Logs!RedactedValue(logger, v, w[depth - 1])]]
<1> DEFINE UpTo(w, k) == w = [depth \in 0..k |-> [v \in At(depth) |-> Logs!RedactedValue(logger, v, w[depth - 1])]]
           T == {k \in Nat : \E w : UpTo(w, k)}
<1>0. \A within : [v \in At(0) |-> Logs!RedactedValue(logger, v, within)] = [v \in At(0) |-> IF "bytes" \in DOMAIN v THEN Logs!Redacted ELSE v]
  BY RedactedLeaf, LoggedShape
<1>1. 0 \in T
  <2> DEFINE w == [depth \in 0..0 |-> [v \in At(0) |-> IF "bytes" \in DOMAIN v THEN Logs!Redacted ELSE v]]
             u == [depth \in 0..0 |-> [v \in At(depth) |-> Logs!RedactedValue(logger, v, w[depth - 1])]]
  <2>1. \A depth \in 0..0 : w[depth] = u[depth]
    <3> TAKE depth \in 0..0
    <3>1. depth = 0
      OBVIOUS
    <3>2. w[0] = [v \in At(0) |-> IF "bytes" \in DOMAIN v THEN Logs!Redacted ELSE v]
      OBVIOUS
    <3>3. u[0] = [v \in At(0) |-> Logs!RedactedValue(logger, v, w[0 - 1])]
      OBVIOUS
    <3> HIDE DEF w, u
    <3> QED BY <1>0, <3>1, <3>2, <3>3
  <2>2. w = [depth \in 0..0 |-> w[depth]] /\ u = [depth \in 0..0 |-> u[depth]]
    OBVIOUS
  <2>3. w = u
    <3> HIDE DEF w, u
    <3> QED BY <2>1, <2>2
  <2>4. UpTo(w, 0)
    <3> HIDE DEF w
    <3> QED BY <2>3
  <2> HIDE DEF w, UpTo
  <2> QED BY <2>4
<1>2. ASSUME NEW k \in T PROVE k + 1 \in T
  <2>1. k \in Nat
    OBVIOUS
  <2>2. PICK f : UpTo(f, k)
    OBVIOUS
  <2> DEFINE F(w, depth) == [v \in At(depth) |-> Logs!RedactedValue(logger, v, w[depth - 1])]
             g == [depth \in 0..k+1 |-> IF depth = k + 1 THEN [v \in At(depth) |-> Logs!RedactedValue(logger, v, f[k])] ELSE f[depth]]
  <2>a. \A depth \in 0..k : f[depth] = F(f, depth)
    BY <2>2
  <2>3. ASSUME NEW depth \in 0..k+1 PROVE g[depth] = F(g, depth)
    <3>1. CASE depth = k + 1
      <4>1. k \in 0..k+1 /\ k # k + 1 /\ depth - 1 = k
        BY <2>1, <3>1
      <4>2. g[k] = f[k] /\ g[depth] = [v \in At(depth) |-> Logs!RedactedValue(logger, v, f[k])]
        BY <3>1, <4>1
      <4> HIDE DEF g
      <4> QED BY <4>1, <4>2
    <3>2. CASE depth \in 1..k
      <4>1. depth \in 0..k /\ depth - 1 \in 0..k+1 /\ depth - 1 # k + 1 /\ depth # k + 1
        BY <2>1, <3>2
      <4>2. g[depth] = f[depth] /\ g[depth - 1] = f[depth - 1]
        BY <4>1
      <4>3. f[depth] = F(f, depth)
        BY <2>a, <4>1
      <4> HIDE DEF g
      <4> QED BY <4>2, <4>3
    <3>3. CASE depth = 0
      <4>1. 0 \in 0..k /\ 0 # k + 1 /\ 0 \in 0..k+1
        BY <2>1
      <4>2. g[0] = f[0]
        BY <4>1
      <4>3. f[0] = F(f, 0)
        BY <2>a, <4>1
      <4>4. F(f, 0) = F(g, 0)
        <5> HIDE DEF g
        <5> QED BY <1>0
      <4> HIDE DEF g, F
      <4> QED BY <3>3, <4>2, <4>3, <4>4
    <3> QED BY <2>1, <3>1, <3>2, <3>3
  <2>4. UpTo(g, k + 1)
    <3>1. g = [depth \in 0..k+1 |-> g[depth]]
      OBVIOUS
    <3> HIDE DEF g
    <3> QED BY <2>3, <3>1
  <2> HIDE DEF g, UpTo
  <2> QED BY <2>1, <2>4
<1>3. LogDepth \in T
  <2> HIDE DEF T
  <2>1. T \in SUBSET Nat
    BY DEF T
  <2> QED BY <1>1, <1>2, <2>1, Induction, LimitsAssumption
<1> QED BY <1>3 DEF Depths

\* What redact() gives is what is written of a value of the last depth.
LEMMA RedactIs ==
  ASSUME NEW logger
  PROVE  \E w : WrittenTo(w, logger) /\ \A value : Logs!Redact(logger, value) = w[LogDepth][value]
<1> DEFINE It(w) == [depth \in Depths |-> [v \in At(depth) |-> Logs!RedactedValue(logger, v, w[depth - 1])]]
           w == CHOOSE w : w = It(w)
<1>1. \A value : Logs!Redact(logger, value) = w[LogDepth][value]
  BY DEF Logs!Redact, Depths, At
<1>2. w = It(w)
  <2>1. \E u : u = It(u)
    BY WrittenExists
  <2> HIDE DEF It
  <2> QED BY <2>1
<1> HIDE DEF w
<1>3. ASSUME NEW depth \in Depths PROVE w[depth] = [v \in At(depth) |-> Logs!RedactedValue(logger, v, w[depth - 1])]
  BY <1>2
<1>4. 0 \in Depths /\ \A depth \in 1..LogDepth : depth \in Depths
  BY LimitsAssumption DEF Depths
<1> HIDE DEF It
<1>5. WrittenTo(w, logger)
  <2>1. \A v \in At(0) : w[0][v] = Logs!RedactedValue(logger, v, w[0 - 1])
    BY <1>3, <1>4
  <2>2. \A depth \in 1..LogDepth : \A v \in At(depth) : w[depth][v] = Logs!RedactedValue(logger, v, w[depth - 1])
    BY <1>3, <1>4
  <2>3. \A v \in At(0) : IsLeaf(v)
    BY LoggedShape
  <2> QED BY <2>1, <2>2, <2>3, RedactedLeaf DEF WrittenTo
<1> QED BY <1>1, <1>5

\* What shows a secret, by depth.
Exposes(e, logger) ==
  /\ \A v \in At(0) : e[0][v] <=> "bytes" \in DOMAIN v
  /\ \A depth \in 1..LogDepth : \A v \in At(depth) : e[depth][v] <=> Logs!Shows(Logs!SensitiveKeys(logger), v, e[depth - 1])

\* What shows a secret is there, for every depth.
LEMMA ExposedExists ==
  ASSUME NEW logger
  PROVE  \E w : w = [depth \in Depths |-> [v \in At(depth) |-> Logs!Shows(Logs!SensitiveKeys(logger), v, w[depth - 1])]]
<1> DEFINE UpTo(w, k) == w = [depth \in 0..k |-> [v \in At(depth) |-> Logs!Shows(Logs!SensitiveKeys(logger), v, w[depth - 1])]]
           T == {k \in Nat : \E w : UpTo(w, k)}
<1>0. \A within : [v \in At(0) |-> Logs!Shows(Logs!SensitiveKeys(logger), v, within)] = [v \in At(0) |-> "bytes" \in DOMAIN v]
  <2> TAKE within
  <2>1. ASSUME NEW v \in At(0) PROVE Logs!Shows(Logs!SensitiveKeys(logger), v, within) = ("bytes" \in DOMAIN v)
    <3>1. IsLeaf(v)
      BY LoggedShape
    <3>2. CASE "bytes" \in DOMAIN v
      <4>1. Logs!Shows(Logs!SensitiveKeys(logger), v, within) = TRUE
        BY <3>1, <3>2, LeafIs DEF Logs!Shows
      <4> QED BY <3>2, <4>1
    <3>3. CASE "bytes" \notin DOMAIN v
      <4>1. Logs!Shows(Logs!SensitiveKeys(logger), v, within) = FALSE
        BY <3>1, <3>3, LeafIs DEF Logs!Shows
      <4>2. ("bytes" \in DOMAIN v) = FALSE
        BY <3>3
      <4> QED BY <4>1, <4>2
    <3> QED BY <3>2, <3>3
  <2> QED BY <2>1, Zenon
<1>1. 0 \in T
  <2> DEFINE w == [depth \in 0..0 |-> [v \in At(0) |-> "bytes" \in DOMAIN v]]
             u == [depth \in 0..0 |-> [v \in At(depth) |-> Logs!Shows(Logs!SensitiveKeys(logger), v, w[depth - 1])]]
  <2>1. \A depth \in 0..0 : w[depth] = u[depth]
    <3> TAKE depth \in 0..0
    <3>1. depth = 0
      OBVIOUS
    <3>2. w[0] = [v \in At(0) |-> "bytes" \in DOMAIN v]
      OBVIOUS
    <3>3. u[0] = [v \in At(0) |-> Logs!Shows(Logs!SensitiveKeys(logger), v, w[0 - 1])]
      OBVIOUS
    <3> HIDE DEF w, u
    <3> QED BY <1>0, <3>1, <3>2, <3>3
  <2>2. w = [depth \in 0..0 |-> w[depth]] /\ u = [depth \in 0..0 |-> u[depth]]
    OBVIOUS
  <2>3. w = u
    <3> HIDE DEF w, u
    <3> QED BY <2>1, <2>2
  <2>4. UpTo(w, 0)
    <3> HIDE DEF w
    <3> QED BY <2>3
  <2> HIDE DEF w, UpTo
  <2> QED BY <2>4
<1>2. ASSUME NEW k \in T PROVE k + 1 \in T
  <2>1. k \in Nat
    OBVIOUS
  <2>2. PICK f : UpTo(f, k)
    OBVIOUS
  <2> DEFINE F(w, depth) == [v \in At(depth) |-> Logs!Shows(Logs!SensitiveKeys(logger), v, w[depth - 1])]
             g == [depth \in 0..k+1 |-> IF depth = k + 1 THEN [v \in At(depth) |-> Logs!Shows(Logs!SensitiveKeys(logger), v, f[k])] ELSE f[depth]]
  <2>a. \A depth \in 0..k : f[depth] = F(f, depth)
    BY <2>2
  <2>3. ASSUME NEW depth \in 0..k+1 PROVE g[depth] = F(g, depth)
    <3>1. CASE depth = k + 1
      <4>1. k \in 0..k+1 /\ k # k + 1 /\ depth - 1 = k
        BY <2>1, <3>1
      <4>2. g[k] = f[k] /\ g[depth] = [v \in At(depth) |-> Logs!Shows(Logs!SensitiveKeys(logger), v, f[k])]
        BY <3>1, <4>1
      <4> HIDE DEF g
      <4> QED BY <4>1, <4>2
    <3>2. CASE depth \in 1..k
      <4>1. depth \in 0..k /\ depth - 1 \in 0..k+1 /\ depth - 1 # k + 1 /\ depth # k + 1
        BY <2>1, <3>2
      <4>2. g[depth] = f[depth] /\ g[depth - 1] = f[depth - 1]
        BY <4>1
      <4>3. f[depth] = F(f, depth)
        BY <2>a, <4>1
      <4> HIDE DEF g
      <4> QED BY <4>2, <4>3
    <3>3. CASE depth = 0
      <4>1. 0 \in 0..k /\ 0 # k + 1 /\ 0 \in 0..k+1
        BY <2>1
      <4>2. g[0] = f[0]
        BY <4>1
      <4>3. f[0] = F(f, 0)
        BY <2>a, <4>1
      <4>4. F(f, 0) = F(g, 0)
        <5> HIDE DEF g
        <5> QED BY <1>0
      <4> HIDE DEF g, F
      <4> QED BY <3>3, <4>2, <4>3, <4>4
    <3> QED BY <2>1, <3>1, <3>2, <3>3
  <2>4. UpTo(g, k + 1)
    <3>1. g = [depth \in 0..k+1 |-> g[depth]]
      OBVIOUS
    <3> HIDE DEF g
    <3> QED BY <2>3, <3>1
  <2> HIDE DEF g, UpTo
  <2> QED BY <2>1, <2>4
<1>3. LogDepth \in T
  <2> HIDE DEF T
  <2>1. T \in SUBSET Nat
    BY DEF T
  <2> QED BY <1>1, <1>2, <2>1, Induction, LimitsAssumption
<1> QED BY <1>3 DEF Depths

\* A value exposes a secret as it does at the last depth.
LEMMA ExposedIs ==
  ASSUME NEW logger
  PROVE  \E e : Exposes(e, logger) /\ \A value : Logs!Exposed(Logs!SensitiveKeys(logger), value) <=> e[LogDepth][value]
<1> DEFINE It(w) == [depth \in Depths |-> [v \in At(depth) |-> Logs!Shows(Logs!SensitiveKeys(logger), v, w[depth - 1])]]
           w == CHOOSE w : w = It(w)
<1>1. \A value : Logs!Exposed(Logs!SensitiveKeys(logger), value) <=> w[LogDepth][value]
  BY DEF Logs!Exposed, Depths, At
<1>2. w = It(w)
  <2>1. \E u : u = It(u)
    BY ExposedExists
  <2> HIDE DEF It
  <2> QED BY <2>1
<1> HIDE DEF w
<1>3. ASSUME NEW depth \in Depths PROVE w[depth] = [v \in At(depth) |-> Logs!Shows(Logs!SensitiveKeys(logger), v, w[depth - 1])]
  BY <1>2
<1>4. 0 \in Depths /\ \A depth \in 1..LogDepth : depth \in Depths
  BY LimitsAssumption DEF Depths
<1> HIDE DEF It
<1>5. Exposes(w, logger)
  <2>1. \A v \in At(0) : w[0][v] <=> Logs!Shows(Logs!SensitiveKeys(logger), v, w[0 - 1])
    BY <1>3, <1>4
  <2>2. \A depth \in 1..LogDepth : \A v \in At(depth) : w[depth][v] <=> Logs!Shows(Logs!SensitiveKeys(logger), v, w[depth - 1])
    BY <1>3, <1>4
  <2>3. \A v \in At(0) : IsLeaf(v)
    BY LoggedShape
  <2> QED BY <2>1, <2>2, <2>3, ShownByLeaf DEF Exposes
<1> QED BY <1>1, <1>5

\* What is written of each of the values is one of them, shows no secret and is written as it is.
IsClean(w, e, values) == \A v \in values : w[v] \in values /\ ~e[w[v]] /\ w[w[v]] = w[v]

\* What is written of a list is clean when what is written of its parts is.
LEMMA ListClean ==
  ASSUME NEW parts, NEW within, NEW shown, IsClean(within, shown, parts), NEW logger, NEW v, IsList(v, parts)
  PROVE  LET u == Logs!RedactedValue(logger, v, within)
         IN IsList(u, parts) /\ ~Logs!Shows(Logs!SensitiveKeys(logger), u, shown) /\ Logs!RedactedValue(logger, u, within) = u
<1> DEFINE u == Logs!RedactedValue(logger, v, within)
           n == Len(v.list)
           s == [i \in DOMAIN v.list |-> within[v.list[i]]]
<1>1. u = [list |-> s]
  BY RedactedList
<1>2. v.list \in Seq(parts) /\ n \in Nat /\ DOMAIN v.list = 1..n /\ \A i \in 1..n : v.list[i] \in parts
  BY DEF IsList
<1>3. /\ s \in [1..n -> parts]
      /\ \A i \in 1..n : s[i] = within[v.list[i]]
  BY <1>2 DEF IsClean
<1>4. DOMAIN s = 1..n /\ s \in Seq(parts)
  BY <1>2, <1>3
<1> HIDE DEF s, u
<1>5. DOMAIN u = {"list"} /\ u.list = s
  BY <1>1
<1>6. IsList(u, parts)
  BY <1>1, <1>4, <1>5 DEF IsList
<1>7. ~Logs!Shows(Logs!SensitiveKeys(logger), u, shown)
  <2>1. \A i \in 1..n : ~shown[s[i]]
    BY <1>2, <1>3 DEF IsClean
  <2> QED BY <1>4, <1>5, <1>6, <2>1, ShownByList
<1>8. Logs!RedactedValue(logger, u, within) = u
  <2>1. \A i \in 1..n : within[s[i]] = s[i]
    BY <1>2, <1>3 DEF IsClean
  <2>2. [i \in DOMAIN s |-> within[s[i]]] = s
    BY <1>3, <1>4, <2>1
  <2>3. Logs!RedactedValue(logger, u, within) = [list |-> [i \in DOMAIN u.list |-> within[u.list[i]]]]
    BY <1>6, RedactedList
  <2> QED BY <1>1, <1>5, <2>2, <2>3
<1> QED BY <1>6, <1>7, <1>8 DEF u

\* An entry as it is written.
Entry(logger, entry, within) == <<entry[1], IF entry[1] \in Logs!SensitiveKeys(logger) THEN Logs!Redacted ELSE within[entry[2]]>>

\* So is what is written of fields, whose sensitive entries are marked.
LEMMA FieldsClean ==
  ASSUME NEW parts, NEW within, NEW shown, IsClean(within, shown, parts), Logs!Redacted \in parts, ~shown[Logs!Redacted],
         NEW logger, NEW v, IsFields(v, parts)
  PROVE  LET u == Logs!RedactedValue(logger, v, within)
         IN IsFields(u, parts) /\ ~Logs!Shows(Logs!SensitiveKeys(logger), u, shown) /\ Logs!RedactedValue(logger, u, within) = u
<1> DEFINE u == Logs!RedactedValue(logger, v, within)
           n == Len(v.fields)
           s == Logs!RedactedFields(logger, v.fields, within)
<1>1. u = [fields |-> s]
  BY RedactedOfFields
<1>2. v.fields \in Seq(LogKeys \X parts) /\ n \in Nat /\ DOMAIN v.fields = 1..n /\ \A i \in 1..n : v.fields[i] \in LogKeys \X parts
  BY DEF IsFields
<1>3. /\ DOMAIN s = 1..n
      /\ \A i \in 1..n : s[i] = Entry(logger, v.fields[i], within)
      /\ s = [i \in 1..n |-> s[i]]
  BY <1>2 DEF Logs!RedactedFields, Entry
<1> HIDE DEF s, u
<1>4. ASSUME NEW i \in 1..n
      PROVE  /\ s[i] \in LogKeys \X parts
             /\ ~shown[s[i][2]]
             /\ s[i][1] \in Logs!SensitiveKeys(logger) => s[i][2] = Logs!Redacted
             /\ Entry(logger, s[i], within) = s[i]
  <2> DEFINE key == v.fields[i][1] x == v.fields[i][2]
  <2>1. key \in LogKeys /\ x \in parts
    BY <1>2
  <2> HIDE DEF key, x
  <2>2. s[i] = <<key, IF key \in Logs!SensitiveKeys(logger) THEN Logs!Redacted ELSE within[x]>>
    BY <1>3 DEF Entry, key, x
  <2>3. CASE key \in Logs!SensitiveKeys(logger)
    <3>1. s[i] = <<key, Logs!Redacted>>
      BY <2>2, <2>3
    <3> QED BY <2>1, <2>3, <3>1 DEF Entry
  <2>4. CASE key \notin Logs!SensitiveKeys(logger)
    <3>1. s[i] = <<key, within[x]>>
      BY <2>2, <2>4
    <3>2. within[x] \in parts /\ ~shown[within[x]] /\ within[within[x]] = within[x]
      BY <2>1 DEF IsClean
    <3> QED BY <2>1, <2>4, <3>1, <3>2 DEF Entry
  <2> QED BY <2>3, <2>4
<1>5. DOMAIN u = {"fields"} /\ u.fields = s
  BY <1>1
<1>6. IsFields(u, parts)
  <2> DEFINE S == LogKeys \X parts
  <2>1. \A i \in 1..n : s[i] \in S
    BY <1>4
  <2> HIDE DEF S
  <2>2. s \in [1..n -> S] /\ n \in Nat
    BY <1>2, <1>3, <2>1
  <2> HIDE DEF n
  <2>3. s \in Seq(S)
    BY <2>2, Sequence
  <2> QED BY <1>1, <1>5, <2>3 DEF IsFields, S
<1>7. ~Logs!Shows(Logs!SensitiveKeys(logger), u, shown)
  <2> DEFINE bare(f) == (f[1] \in Logs!SensitiveKeys(logger) /\ f[2] # Logs!Redacted) \/ shown[f[2]]
  <2>1. \A i \in DOMAIN s : ~bare(s[i])
    BY <1>3, <1>4
  <2>2. Logs!Shows(Logs!SensitiveKeys(logger), u, shown) <=> \E i \in DOMAIN u.fields : bare(u.fields[i])
    BY <1>6, ShownByFields
  <2> HIDE DEF bare
  <2> QED BY <1>5, <2>1, <2>2
<1>8. Logs!RedactedValue(logger, u, within) = u
  <2> DEFINE again == Logs!RedactedFields(logger, s, within)
  <2>1. DOMAIN again = 1..n /\ (\A i \in 1..n : again[i] = Entry(logger, s[i], within)) /\ again = [i \in 1..n |-> again[i]]
    BY <1>3 DEF Logs!RedactedFields, Entry
  <2>2. Logs!RedactedValue(logger, u, within) = [fields |-> again]
    BY <1>5, <1>6, RedactedOfFields
  <2> HIDE DEF again
  <2>3. again = s
    BY <1>3, <1>4, <2>1
  <2> QED BY <1>1, <2>2, <2>3
<1> QED BY <1>6, <1>7, <1>8 DEF u

\* What is written is clean at every depth.
LEMMA AllClean ==
  ASSUME NEW logger, NEW w, WrittenTo(w, logger), NEW e, Exposes(e, logger)
  PROVE  \A depth \in Depths : IsClean(w[depth], e[depth], At(depth))
<1> DEFINE T == {k \in Nat : k <= LogDepth => IsClean(w[k], e[k], At(k))}
<1>0. LogDepth \in Nat
  BY LimitsAssumption
<1>1. 0 \in T
  <2>1. ASSUME NEW v \in At(0) PROVE w[0][v] \in At(0) /\ ~e[0][w[0][v]] /\ w[0][w[0][v]] = w[0][v]
    <3>1. IsLeaf(v) /\ Logs!Redacted \in At(0) /\ "bytes" \notin DOMAIN Logs!Redacted
      BY LoggedShape, MarkIs, LoggedIs DEF IsLeaf
    <3> QED BY <2>1, <3>1 DEF WrittenTo, Exposes
  <2> QED BY <2>1 DEF IsClean
<1>2. ASSUME NEW k \in T PROVE k + 1 \in T
  <2> SUFFICES ASSUME k + 1 <= LogDepth PROVE IsClean(w[k + 1], e[k + 1], At(k + 1))
    OBVIOUS
  <2> DEFINE d == k + 1
  <2>1. k \in Nat /\ IsClean(w[k], e[k], At(k)) /\ d \in 1..LogDepth /\ d - 1 = k
    BY <1>0
  <2> HIDE DEF d
  <2>2. /\ \A v : v \in At(d) <=> IsLeaf(v) \/ IsList(v, At(k)) \/ IsFields(v, At(k))
        /\ \A v \in At(d) : w[d][v] = Logs!RedactedValue(logger, v, w[k])
        /\ \A v \in At(d) : e[d][v] <=> Logs!Shows(Logs!SensitiveKeys(logger), v, e[k])
    BY <2>1, LoggedShape DEF WrittenTo, Exposes
  <2>3. Logs!Redacted \in At(k) /\ ~e[k][Logs!Redacted]
    <3>1. CASE k = 0
      BY <3>1, MarkIs, LoggedIs DEF IsLeaf, Exposes
    <3>2. CASE k # 0
      <4>1. k \in 1..LogDepth
        BY <1>0, <2>1, <3>2
      <4>2. Logs!Redacted \in At(k)
        BY <4>1, MarkIs, LoggedShape
      <4> QED BY <4>1, <4>2, MarkIs, ShownByLeaf DEF Exposes
    <3> QED BY <3>1, <3>2
  <2>4. ASSUME NEW v \in At(d) PROVE w[d][v] \in At(d) /\ ~e[d][w[d][v]] /\ w[d][w[d][v]] = w[d][v]
    <3>1. CASE IsLeaf(v)
      <4> DEFINE u == w[d][v]
      <4>1. u = IF "bytes" \in DOMAIN v THEN Logs!Redacted ELSE v
        BY <2>2, <3>1, RedactedLeaf
      <4> HIDE DEF u
      <4>2. IsLeaf(u) /\ "bytes" \notin DOMAIN u
        BY <3>1, <4>1, MarkIs
      <4>3. u \in At(d) /\ ~Logs!Shows(Logs!SensitiveKeys(logger), u, e[k]) /\ Logs!RedactedValue(logger, u, w[k]) = u
        BY <2>2, <4>2, ShownByLeaf, RedactedLeaf
      <4>4. u \in At(d) /\ ~e[d][u] /\ w[d][u] = u
        BY <2>2, <4>3
      <4> QED BY <4>4 DEF u
    <3>2. CASE IsList(v, At(k)) \/ IsFields(v, At(k))
      <4> DEFINE u == w[d][v]
      <4>1. u = Logs!RedactedValue(logger, v, w[k])
        BY <2>2
      <4>2. (IsList(u, At(k)) \/ IsFields(u, At(k))) /\ ~Logs!Shows(Logs!SensitiveKeys(logger), u, e[k]) /\ Logs!RedactedValue(logger, u, w[k]) = u
        <5>1. CASE IsList(v, At(k))
          BY <2>1, <4>1, <5>1, ListClean
        <5>2. CASE IsFields(v, At(k))
          BY <2>1, <2>3, <4>1, <5>2, FieldsClean
        <5> QED BY <3>2, <5>1, <5>2
      <4> HIDE DEF u
      <4>4. u \in At(d) /\ ~e[d][u] /\ w[d][u] = u
        BY <2>2, <4>2
      <4> QED BY <4>4 DEF u
    <3> QED BY <2>2, <3>1, <3>2
  <2> QED BY <2>4 DEF IsClean, d
<1>3. T = Nat
  <2> HIDE DEF T
  <2>1. T \in SUBSET Nat
    BY DEF T
  <2> QED BY <1>1, <1>2, <2>1, Induction
<1> QED
  <2> TAKE depth \in Depths
  <2>1. depth \in T /\ depth <= LogDepth
    <3> HIDE DEF T
    <3> QED BY <1>0, <1>3 DEF Depths
  <2> QED BY <2>1

\* What the status logger writes that shows the other one no secret, the other one writes too.
Agree(status, other, shown, values) == \A v \in values : ~shown[status[v]] => other[v] = status[v]

\* Where the one logger's list shows the other one nothing, both write the same.
LEMMA ListAgrees ==
  ASSUME NEW parts, NEW status, NEW other, NEW shown, Agree(status, other, shown, parts),
         \A x \in parts : status[x] \in parts, NEW v, IsList(v, parts),
         ~Logs!Shows(Logs!SensitiveKeys("observability"), Logs!RedactedValue("status", v, status), shown)
  PROVE  Logs!RedactedValue("observability", v, other) = Logs!RedactedValue("status", v, status)
<1> DEFINE u == Logs!RedactedValue("status", v, status)
           n == Len(v.list)
           s == [i \in DOMAIN v.list |-> status[v.list[i]]]
           t == [i \in DOMAIN v.list |-> other[v.list[i]]]
<1>1. u = [list |-> s] /\ Logs!RedactedValue("observability", v, other) = [list |-> t]
  BY RedactedList
<1>2. v.list \in Seq(parts) /\ n \in Nat /\ DOMAIN v.list = 1..n /\ \A i \in 1..n : v.list[i] \in parts
  BY DEF IsList
<1>3. s \in Seq(parts) /\ DOMAIN s = 1..n /\ \A i \in 1..n : s[i] = status[v.list[i]] /\ t[i] = other[v.list[i]]
  BY <1>2
<1>4. s = [i \in 1..n |-> s[i]] /\ t = [i \in 1..n |-> t[i]]
  BY <1>2
<1> HIDE DEF s, t, u
<1>5. DOMAIN u = {"list"} /\ u.list = s /\ IsList(u, parts)
  BY <1>1, <1>3 DEF IsList
<1>6. \A i \in 1..n : ~shown[s[i]]
  BY <1>3, <1>5, ShownByList DEF u
<1>7. \A i \in 1..n : t[i] = s[i]
  BY <1>2, <1>3, <1>6 DEF Agree
<1>8. t = s
  BY <1>4, <1>7
<1> QED BY <1>1, <1>8 DEF u

\* So they do with fields.
LEMMA FieldsAgree ==
  ASSUME NEW parts, NEW status, NEW other, NEW shown, Agree(status, other, shown, parts),
         \A x \in parts : status[x] \in parts, Logs!Redacted \in parts, NEW v, IsFields(v, parts),
         ~Logs!Shows(Logs!SensitiveKeys("observability"), Logs!RedactedValue("status", v, status), shown)
  PROVE  Logs!RedactedValue("observability", v, other) = Logs!RedactedValue("status", v, status)
<1> DEFINE u == Logs!RedactedValue("status", v, status)
           n == Len(v.fields)
           s == Logs!RedactedFields("status", v.fields, status)
           t == Logs!RedactedFields("observability", v.fields, other)
<1>1. u = [fields |-> s] /\ Logs!RedactedValue("observability", v, other) = [fields |-> t]
  BY RedactedOfFields
<1>2. v.fields \in Seq(LogKeys \X parts) /\ n \in Nat /\ DOMAIN v.fields = 1..n /\ \A i \in 1..n : v.fields[i] \in LogKeys \X parts
  BY DEF IsFields
<1>3. /\ DOMAIN s = 1..n /\ s = [i \in 1..n |-> s[i]] /\ t = [i \in 1..n |-> t[i]]
      /\ \A i \in 1..n : s[i] = Entry("status", v.fields[i], status) /\ t[i] = Entry("observability", v.fields[i], other)
  BY <1>2 DEF Logs!RedactedFields, Entry
<1> HIDE DEF s, t, u
<1>4. Logs!SensitiveKeys("status") \subseteq Logs!SensitiveKeys("observability")
  BY DEF Logs!SensitiveKeys
<1>5. ASSUME NEW i \in 1..n PROVE s[i] \in LogKeys \X parts
  <2> DEFINE key == v.fields[i][1] x == v.fields[i][2]
  <2>1. key \in LogKeys /\ x \in parts
    BY <1>2
  <2> HIDE DEF key, x
  <2>2. s[i] = <<key, IF key \in Logs!SensitiveKeys("status") THEN Logs!Redacted ELSE status[x]>>
    BY <1>3 DEF Entry, key, x
  <2> QED BY <2>1, <2>2
<1>6. DOMAIN u = {"fields"} /\ u.fields = s /\ IsFields(u, parts)
  <2>1. s \in Seq(LogKeys \X parts)
    <3> DEFINE S == LogKeys \X parts
    <3>1. \A i \in 1..n : s[i] \in S
      BY <1>5
    <3> HIDE DEF S, n
    <3>2. s \in [1..n -> S]
      BY <1>3, <3>1
    <3>3. n \in Nat
      BY <1>2
    <3>4. s \in Seq(S)
      BY <3>2, <3>3, Sequence
    <3> QED BY <3>4 DEF S
  <2> QED BY <1>1, <2>1 DEF IsFields
<1>7. \A i \in 1..n : ~shown[s[i][2]] /\ (s[i][1] \in Logs!SensitiveKeys("observability") => s[i][2] = Logs!Redacted)
  BY <1>3, <1>6, ShownByFields DEF u
<1>8. ASSUME NEW i \in 1..n PROVE t[i] = s[i]
  <2> DEFINE key == v.fields[i][1] x == v.fields[i][2]
  <2>1. key \in LogKeys /\ x \in parts
    BY <1>2
  <2> HIDE DEF key, x
  <2>2. s[i] = <<key, IF key \in Logs!SensitiveKeys("status") THEN Logs!Redacted ELSE status[x]>>
    BY <1>3 DEF Entry, key, x
  <2>3. t[i] = <<key, IF key \in Logs!SensitiveKeys("observability") THEN Logs!Redacted ELSE other[x]>>
    BY <1>3 DEF Entry, key, x
  <2>4. CASE key \in Logs!SensitiveKeys("observability")
    <3>1. s[i][1] = key
      BY <2>2
    <3>2. s[i][2] = Logs!Redacted
      BY <1>7, <2>4, <3>1
    <3>3. s[i] = <<key, Logs!Redacted>>
      BY <2>2, <3>2
    <3> QED BY <2>3, <2>4, <3>3
  <2>5. CASE key \notin Logs!SensitiveKeys("observability")
    <3>1. s[i] = <<key, status[x]>> /\ t[i] = <<key, other[x]>>
      BY <1>4, <2>2, <2>3, <2>5
    <3>2. ~shown[status[x]]
      BY <1>7, <3>1
    <3> QED BY <2>1, <3>1, <3>2 DEF Agree
  <2> QED BY <2>4, <2>5
<1>9. t = s
  BY <1>3, <1>8
<1> QED BY <1>1, <1>9 DEF u

\* So they do at every depth.
LEMMA AllAgree ==
  ASSUME NEW status, WrittenTo(status, "status"), NEW other, WrittenTo(other, "observability"),
         NEW clean, Exposes(clean, "status"), NEW shown, Exposes(shown, "observability")
  PROVE  Agree(status[LogDepth], other[LogDepth], shown[LogDepth], At(LogDepth))
<1> DEFINE T == {k \in Nat : k <= LogDepth => Agree(status[k], other[k], shown[k], At(k))}
<1>0. LogDepth \in Nat
  BY LimitsAssumption
<1>1. 0 \in T
  <2>1. \A v \in At(0) : other[0][v] = status[0][v]
    BY DEF WrittenTo
  <2> QED BY <2>1 DEF Agree
<1>2. ASSUME NEW k \in T PROVE k + 1 \in T
  <2> SUFFICES ASSUME k + 1 <= LogDepth PROVE Agree(status[k + 1], other[k + 1], shown[k + 1], At(k + 1))
    OBVIOUS
  <2> DEFINE d == k + 1
  <2>1. k \in Nat /\ k \in Depths /\ Agree(status[k], other[k], shown[k], At(k)) /\ d \in 1..LogDepth /\ d \in Depths /\ d - 1 = k
    BY <1>0 DEF Depths
  <2> HIDE DEF d
  <2>2. /\ \A v : v \in At(d) <=> IsLeaf(v) \/ IsList(v, At(k)) \/ IsFields(v, At(k))
        /\ \A v \in At(d) : status[d][v] = Logs!RedactedValue("status", v, status[k])
        /\ \A v \in At(d) : other[d][v] = Logs!RedactedValue("observability", v, other[k])
        /\ \A v \in At(d) : shown[d][v] <=> Logs!Shows(Logs!SensitiveKeys("observability"), v, shown[k])
    BY <2>1, LoggedShape DEF WrittenTo, Exposes
  <2>3. /\ \A x \in At(k) : status[k][x] \in At(k)
        /\ \A x \in At(d) : status[d][x] \in At(d)
    BY <2>1, AllClean DEF IsClean
  <2>4. Logs!Redacted \in At(k)
    <3>1. CASE k = 0
      BY <3>1, MarkIs, LoggedIs DEF IsLeaf
    <3>2. CASE k # 0
      <4>1. k \in 1..LogDepth
        BY <1>0, <2>1, <3>2 DEF Depths
      <4> QED BY <4>1, MarkIs, LoggedShape
    <3> QED BY <3>1, <3>2
  <2>5. ASSUME NEW v \in At(d), ~shown[d][status[d][v]] PROVE other[d][v] = status[d][v]
    <3>1. CASE IsLeaf(v)
      <4>1. \A logger, within : Logs!RedactedValue(logger, v, within) = IF "bytes" \in DOMAIN v THEN Logs!Redacted ELSE v
        BY <3>1, RedactedLeaf
      <4> QED BY <2>2, <4>1
    <3>2. CASE IsList(v, At(k)) \/ IsFields(v, At(k))
      <4>1. ~Logs!Shows(Logs!SensitiveKeys("observability"), Logs!RedactedValue("status", v, status[k]), shown[k])
        BY <2>2, <2>3, <2>5
      <4>2. CASE IsList(v, At(k))
        BY <2>1, <2>2, <2>3, <4>1, <4>2, ListAgrees
      <4>3. CASE IsFields(v, At(k))
        BY <2>1, <2>2, <2>3, <2>4, <4>1, <4>3, FieldsAgree
      <4> QED BY <3>2, <4>2, <4>3
    <3> QED BY <2>2, <3>1, <3>2
  <2> QED BY <2>5 DEF Agree, d
<1>3. T = Nat
  <2> HIDE DEF T
  <2>1. T \in SUBSET Nat
    BY DEF T
  <2> QED BY <1>1, <1>2, <2>1, Induction
<1>4. LogDepth \in T /\ LogDepth <= LogDepth
  <2> HIDE DEF T
  <2> QED BY <1>0, <1>3
<1> QED BY <1>4

\* At any depth the observability logger writes no secret, and the status logger
\* none but PINs.
THEOREM LogsAreClean ==
  ASSUME NEW fields \in Logs!LoggedFields
  PROVE  Logs!WritesNoSecrets(fields)
<1>0. LogDepth \in Depths
  BY LimitsAssumption DEF Depths
<1>1. fields \in At(LogDepth) /\ "fields" \in DOMAIN fields
  BY DEF Logs!LoggedFields, At
<1>2. ASSUME NEW logger
      PROVE  LET line == Logs!Line(logger, fields)
             IN /\ ~Logs!Exposed(Logs!SensitiveKeys(logger), [fields |-> line.fields])
                /\ Logs!Line(logger, [fields |-> line.fields]).fields = line.fields
  <2> DEFINE u == Logs!Redact(logger, fields)
  <2>1. PICK w : WrittenTo(w, logger) /\ \A value : Logs!Redact(logger, value) = w[LogDepth][value]
    BY RedactIs
  <2>2. PICK e : Exposes(e, logger) /\ \A value : Logs!Exposed(Logs!SensitiveKeys(logger), value) <=> e[LogDepth][value]
    BY ExposedIs
  <2>3. ~Logs!Exposed(Logs!SensitiveKeys(logger), u) /\ Logs!Redact(logger, u) = u
    <3>1. IsClean(w[LogDepth], e[LogDepth], At(LogDepth))
      BY <1>0, <2>1, <2>2, AllClean
    <3> QED BY <1>1, <2>1, <2>2, <3>1 DEF IsClean
  <2>4. u = [fields |-> u.fields]
    <3>1. LogDepth # 0
      <4>1. ASSUME LogDepth = 0 PROVE FALSE
        BY <1>1, <4>1, LoggedShape, LeafIs
      <4> QED BY <4>1
    <3>2. LogDepth \in 1..LogDepth
      BY <3>1, LimitsAssumption
    <3>3. u = Logs!RedactedValue(logger, fields, w[LogDepth - 1])
      BY <1>1, <2>1, <3>2 DEF WrittenTo
    <3>4. IsFields(fields, At(LogDepth - 1))
      <4>1. "list" # "fields"
        OBVIOUS
      <4>2. ~IsLeaf(fields) /\ ~IsList(fields, At(LogDepth - 1))
        BY <1>1, <4>1, LeafIs DEF IsList
      <4> QED BY <1>1, <3>2, <4>2, LoggedShape
    <3>5. u = [fields |-> Logs!RedactedFields(logger, fields.fields, w[LogDepth - 1])]
      BY <3>3, <3>4, RedactedOfFields
    <3> HIDE DEF u
    <3> QED BY <3>5
  <2> HIDE DEF u
  <2>5. Logs!Line(logger, fields).fields = u.fields
    BY DEF Logs!Line, u
  <2>6. Logs!Line(logger, u).fields = u.fields
    BY <2>3 DEF Logs!Line
  <2> QED BY <2>3, <2>4, <2>5, <2>6
<1>3. ASSUME ~Logs!Exposed(Logs!SensitiveKeys("observability"), Logs!Redact("status", fields))
      PROVE  Logs!Line("observability", fields) = Logs!Line("status", fields)
  <2>1. PICK w : WrittenTo(w, "status") /\ \A value : Logs!Redact("status", value) = w[LogDepth][value]
    BY RedactIs
  <2>2. PICK o : WrittenTo(o, "observability") /\ \A value : Logs!Redact("observability", value) = o[LogDepth][value]
    BY RedactIs
  <2>3. PICK c : Exposes(c, "status")
    BY ExposedIs
  <2>4. PICK e : Exposes(e, "observability") /\ \A value : Logs!Exposed(Logs!SensitiveKeys("observability"), value) <=> e[LogDepth][value]
    BY ExposedIs
  <2>5. Agree(w[LogDepth], o[LogDepth], e[LogDepth], At(LogDepth))
    BY <2>1, <2>2, <2>3, <2>4, AllAgree
  <2>6. Logs!Redact("observability", fields) = Logs!Redact("status", fields)
    BY <1>1, <1>3, <2>1, <2>2, <2>4, <2>5 DEF Agree
  <2> QED BY <2>6 DEF Logs!Line
<1>4. /\ Logs!SensitiveKeys("observability") = Logs!SecretKeys
      /\ Logs!SensitiveKeys("status") = Logs!SecretKeys \ {"pin"}
  BY DEF Logs!SensitiveKeys, Logs!SecretKeys
<1>5. /\ ~Logs!Exposed(Logs!SecretKeys, [fields |-> Logs!Line("observability", fields).fields])
      /\ Logs!Line("observability", [fields |-> Logs!Line("observability", fields).fields]).fields = Logs!Line("observability", fields).fields
  BY <1>2, <1>4
<1>6. /\ ~Logs!Exposed(Logs!SecretKeys \ {"pin"}, [fields |-> Logs!Line("status", fields).fields])
      /\ Logs!Line("status", [fields |-> Logs!Line("status", fields).fields]).fields = Logs!Line("status", fields).fields
  BY <1>2, <1>4
<1>7. ~Logs!Exposed(Logs!SecretKeys, Logs!Redact("status", fields)) => Logs!Line("observability", fields) = Logs!Line("status", fields)
  BY <1>3, <1>4
<1> QED BY <1>5, <1>6, <1>7 DEF Logs!WritesNoSecrets

-----------------------------------------------------------------------------
(* Sequences one after the other *)

\* What lies between two places of a sequence.
IsCut(c, s, a, b, V) == c \in Seq(V) /\ Len(c) = b - a /\ \A k \in 1..(b - a) : c[k] = s[a + k]

\* A part of a sequence, element by element.
LEMMA Cut ==
  ASSUME NEW V, NEW s \in Seq(V), NEW first \in Nat, NEW a \in Nat, first = a + 1, NEW b \in Nat, a <= b, b <= Len(s)
  PROVE  IsCut(SubSeq(s, first, b), s, a, b, V)
<1>0. Len(s) \in Nat /\ \A i \in 1..Len(s) : s[i] \in V
  BY LenProperties, ElementOfSeq
<1>1. \A i \in first..b : s[i] \in V
  BY <1>0
<1>2. first \in Int /\ b \in Int
  OBVIOUS
<1> DEFINE c == SubSeq(s, first, b)
<1>3. /\ c \in Seq(V) /\ Len(c) = IF first <= b THEN b - first + 1 ELSE 0
      /\ \A i \in 1..b - first + 1 : c[i] = s[first + i - 1]
  BY <1>1, <1>2, SubSeqProperties
<1> HIDE DEF c
<1>4. Len(c) = b - a
  BY <1>3
<1>5. \A k \in 1..(b - a) : c[k] = s[a + k]
  <2> TAKE k \in 1..(b - a)
  <2>1. k \in 1..b - first + 1 /\ first + k - 1 = a + k
    OBVIOUS
  <2> QED BY <1>3, <2>1
<1> QED BY <1>3, <1>4, <1>5 DEF c, IsCut

\* Two sequences one after the other, with their lengths named.
IsConcat(c, a, m, b, n, V) ==
  /\ c \in Seq(V) /\ Len(c) = m + n
  /\ \A k \in 1..m : c[k] = a[k]
  /\ \A k \in 1..n : c[m + k] = b[k]

\* One sequence and another behind it, element by element.
LEMMA Concat ==
  ASSUME NEW V, NEW a \in Seq(V), NEW m, Len(a) = m, NEW b \in Seq(V), NEW n, Len(b) = n
  PROVE  IsConcat(a \o b, a, m, b, n, V)
<1> DEFINE c == a \o b
<1>1. m \in Nat /\ n \in Nat
  BY LenProperties
<1>2. c \in Seq(V) /\ Len(c) = m + n /\ (\A k \in 1..m : c[k] = a[k]) /\ \A k \in 1..n : c[k + m] = b[k]
  BY <1>1
<1>3. \A k \in 1..n : m + k = k + m
  BY <1>1
<1> HIDE DEF c
<1> QED BY <1>2, <1>3 DEF IsConcat, c

\* The sequences of TrustBundle are joined as those of any other module, one after the other.
LEMMA DiskFlattens ==
  ASSUME NEW V, NEW ss \in Seq(Seq(V)), NEW n \in Nat, n = Len(ss)
  PROVE  \E h \in [0..n -> Seq(V)] : AreJoined(ss, n, h) /\ Disk!FlattenSeq(ss) = h[n]
<1>1. Disk!FlattenSeq(ss) = FlattenSeq(ss)
  BY DEF Disk!FlattenSeq, FlattenSeq
<1>2. HasJoined(ss, n, V)
  BY FlattenIs
<1> QED BY <1>1, <1>2 DEF HasJoined

\* Sequences that agree in their first n elements.
Alike(ss, tt, n) == \A k \in 1..n : ss[k] = tt[k]

\* Two of them that agree give the same as far as they do.
LEMMA JoinedAgree ==
  ASSUME NEW ss, NEW tt, NEW n \in Nat, NEW m \in Nat, NEW h, NEW g, AreJoined(ss, n, h), AreJoined(tt, m, g),
         n <= m, Alike(ss, tt, n)
  PROVE  h[n] = g[n]
<1> DEFINE T == {k \in Nat : k <= n => h[k] = g[k]}
<1>1. 0 \in T
  BY DEF AreJoined
<1>2. ASSUME NEW k \in T PROVE k + 1 \in T
  <2> SUFFICES ASSUME k + 1 <= n PROVE h[k + 1] = g[k + 1]
    OBVIOUS
  <2> DEFINE j == k + 1
  <2>1. k \in Nat /\ h[k] = g[k] /\ j \in 1..n /\ j \in 1..m /\ j - 1 = k
    OBVIOUS
  <2> HIDE DEF j, T
  <2>2. h[j] = h[k] \o ss[j] /\ g[j] = g[k] \o tt[j] /\ ss[j] = tt[j]
    BY <2>1 DEF AreJoined, Alike
  <2>3. h[j] = g[j]
    BY <2>1, <2>2
  <2> QED BY <2>3 DEF j
<1>3. n \in T
  <2> HIDE DEF T
  <2>1. T \in SUBSET Nat
    BY DEF T
  <2> QED BY <1>1, <1>2, <2>1, Induction
<1> QED BY <1>3

\* A sequence that is put behind the others comes behind all of theirs.
LEMMA FlattenBehind ==
  ASSUME NEW V, NEW ss \in Seq(Seq(V)), NEW tt \in Seq(Seq(V)), NEW n, n = Len(ss), Len(tt) = n + 1, Alike(ss, tt, n)
  PROVE  Disk!FlattenSeq(tt) = Disk!FlattenSeq(ss) \o tt[n + 1]
<1> DEFINE m == n + 1
<1>1. n \in Nat /\ m \in Nat /\ n <= m /\ m - 1 = n /\ m \in 1..m /\ m = Len(tt)
  BY LenProperties
<1> HIDE DEF m
<1>2. PICK h \in [0..n -> Seq(V)] : AreJoined(ss, n, h) /\ Disk!FlattenSeq(ss) = h[n]
  BY <1>1, DiskFlattens
<1>3. PICK g \in [0..m -> Seq(V)] : AreJoined(tt, m, g) /\ Disk!FlattenSeq(tt) = g[m]
  BY <1>1, DiskFlattens
<1>4. h[n] = g[n]
  <2>1. AreJoined(ss, n, h) /\ AreJoined(tt, m, g)
    BY <1>2, <1>3
  <2> QED BY <1>1, <2>1, JoinedAgree
<1>5. g[m] = g[n] \o tt[m]
  BY <1>1, <1>3 DEF AreJoined
<1> QED BY <1>2, <1>3, <1>4, <1>5 DEF m

\* What is in the sequences, and nothing else, is in what they give.
LEMMA FlattenElements ==
  ASSUME NEW V, NEW ss \in Seq(Seq(V))
  PROVE  /\ Disk!FlattenSeq(ss) \in Seq(V)
         /\ \A k \in 1..Len(ss) : Disk!ToSet(ss[k]) \subseteq Disk!ToSet(Disk!FlattenSeq(ss))
         /\ Disk!FlattenSeq(ss) = <<>> <=> \A k \in 1..Len(ss) : ss[k] = <<>>
<1> DEFINE n == Len(ss)
<1>1. n \in Nat /\ n = Len(ss) /\ \A k \in 1..n : ss[k] \in Seq(V)
  BY LenProperties, ElementOfSeq
<1> HIDE DEF n
<1>2. PICK h \in [0..n -> Seq(V)] : AreJoined(ss, n, h) /\ Disk!FlattenSeq(ss) = h[n]
  BY <1>1, DiskFlattens
<1> DEFINE Good(k) == /\ \A i \in 1..k : Disk!ToSet(ss[i]) \subseteq Disk!ToSet(h[k])
                      /\ h[k] = <<>> <=> \A i \in 1..k : ss[i] = <<>>
           T == {k \in Nat : k <= n => Good(k)}
<1>3. 0 \in T
  BY <1>2 DEF AreJoined
<1>4. ASSUME NEW k \in T PROVE k + 1 \in T
  <2> SUFFICES ASSUME k + 1 <= n PROVE Good(k + 1)
    OBVIOUS
  <2> DEFINE j == k + 1
  <2>1. k \in Nat /\ Good(k) /\ j \in 1..n /\ k \in 0..n /\ j - 1 = k /\ j \in 0..n
    BY <1>1
  <2>2. \A i \in 1..j : i \in 1..k \/ i = j
    OBVIOUS
  <2> HIDE DEF T, j
  <2>3. h[j] = h[k] \o ss[j] /\ h[k] \in Seq(V) /\ ss[j] \in Seq(V) /\ h[j] \in Seq(V)
    BY <1>1, <1>2, <2>1 DEF AreJoined
  <2>4. /\ Disk!ToSet(h[k]) \subseteq Disk!ToSet(h[j]) /\ Disk!ToSet(ss[j]) \subseteq Disk!ToSet(h[j])
        /\ h[j] = <<>> <=> h[k] = <<>> /\ ss[j] = <<>>
    <3> DEFINE p == h[k]
               q == ss[j]
               a == Len(p)
               b == Len(q)
    <3>1. p \in Seq(V) /\ q \in Seq(V) /\ a \in Nat /\ b \in Nat /\ DOMAIN p = 1..a /\ DOMAIN q = 1..b
      BY <2>3, LenProperties
    <3> HIDE DEF p, q
    <3> DEFINE c == p \o q
    <3>2. DOMAIN c = 1..a+b /\ Len(c) = a + b /\ (\A i \in 1..a : c[i] = p[i]) /\ (\A i \in 1..b : c[i + a] = q[i])
      BY <3>1
    <3>3. /\ c = <<>> <=> a + b = 0
          /\ p = <<>> <=> a = 0
          /\ q = <<>> <=> b = 0
      BY <3>1, <3>2, EmptySeq
    <3> HIDE DEF c, a, b
    <3>4. \A i \in 1..a : i \in 1..a+b
      BY <3>1
    <3>5. \A i \in 1..b : i + a \in 1..a+b
      BY <3>1
    <3>6. Disk!ToSet(p) \subseteq Disk!ToSet(c)
      BY <3>1, <3>2, <3>4 DEF Disk!ToSet
    <3>7. Disk!ToSet(q) \subseteq Disk!ToSet(c)
      BY <3>1, <3>2, <3>5 DEF Disk!ToSet
    <3>8. c = <<>> <=> p = <<>> /\ q = <<>>
      BY <3>1, <3>3
    <3>9. h[j] = c
      BY <2>3 DEF c, p, q
    <3> QED BY <3>6, <3>7, <3>8, <3>9 DEF p, q
  <2>5. \A i \in 1..j : Disk!ToSet(ss[i]) \subseteq Disk!ToSet(h[j])
    BY <2>1, <2>2, <2>4
  <2>6. k \in Nat /\ j \in 1..j /\ \A i \in 1..k : i \in 1..j
    BY <2>1 DEF j
  <2>7. h[j] = <<>> <=> \A i \in 1..j : ss[i] = <<>>
    BY <2>1, <2>2, <2>4, <2>6
  <2>8. Good(j)
    BY <2>5, <2>7
  <2> QED BY <2>8 DEF j
<1>5. n \in T
  <2> HIDE DEF T
  <2>1. T \in SUBSET Nat
    BY DEF T
  <2> QED BY <1>1, <1>3, <1>4, <2>1, Induction
<1>6. Good(n)
  <2> HIDE DEF Good
  <2> QED BY <1>1, <1>5
<1> QED BY <1>2, <1>6 DEF n

-----------------------------------------------------------------------------
(* Trust bundles (trust-store.ts) *)

\* The files with the right name, up to each of them.
AreNamed(files, n, h) ==
  h[0] = <<>> /\ \A k \in 1..n : h[k] = IF files[k].named THEN Append(h[k - 1], files[k]) ELSE h[k - 1]
\* The files with the right name are those of all the files.
HasNamed(files, n, V) == \E h \in [0..n -> Seq(V)] : AreNamed(files, n, h) /\ Disk!Named(files) = h[n]

\* They are in every directory.
LEMMA NamedFold ==
  ASSUME NEW V, NEW files \in Seq(V), NEW n \in Nat, n = Len(files)
  PROVE  HasNamed(files, n, V)
<1> DEFINE X == Seq(V)
           It(f) == [s \in SUBSET (DOMAIN files) |-> IF s = {} THEN <<>>
                       ELSE IF files[Max(s)].named THEN Append(f[s \ {Max(s)}], files[Max(s)]) ELSE f[s \ {Max(s)}]]
           iter == CHOOSE f : f = It(f)
           G == [p \in X \X (1..n) |-> IF files[p[2]].named THEN Append(p[1], files[p[2]]) ELSE p[1]]
<1>0. DOMAIN files = 1..n
  OBVIOUS
<1>1. Disk!Named(files) = iter[DOMAIN files]
  BY DEF Disk!Named, Disk!FoldLeft, Disk!MapThenFoldSet, Disk!Max, Max
<1>2. IsStep(G, n, X)
  BY <1>0 DEF IsStep
<1>3. ASSUME NEW f, NEW s \in SUBSET (1..n), s # {}, f[s \ {Max(s)}] \in X
      PROVE  It(f)[s] = G[<<f[s \ {Max(s)}], Max(s)>>]
  <2>1. Max(s) \in 1..n
    BY <1>3, MaxInside
  <2> QED BY <1>0, <1>3, <2>1
<1>b. <<>> \in X
  OBVIOUS
<1>4. iter = It(iter)
  <2>1. PICK f \in [SUBSET (1..n) -> X] : Folds(f, <<>>, n, G)
    <3>1. HasFold(<<>>, n, G, X)
      <4> HIDE DEF G, X
      <4> QED BY <1>2, <1>b, FoldExists
    <3> QED BY <3>1 DEF HasFold
  <2>2. \A s \in SUBSET (1..n) : f[s \ {Max(s)}] \in X
    OBVIOUS
  <2>3. \A s \in SUBSET (1..n) : f[s] = It(f)[s]
    <3> TAKE s \in SUBSET (1..n)
    <3>1. CASE s = {}
      <4>1. f[s] = <<>>
        BY <2>1, <3>1 DEF Folds
      <4>2. It(f)[s] = <<>>
        BY <1>0, <3>1
      <4> QED BY <4>1, <4>2
    <3>2. CASE s # {}
      <4>1. f[s] = G[<<f[s \ {Max(s)}], Max(s)>>]
        <5> HIDE DEF G, X
        <5> QED BY <2>1, <3>2 DEF Folds
      <4>2. It(f)[s] = G[<<f[s \ {Max(s)}], Max(s)>>]
        <5>1. f[s \ {Max(s)}] \in X
          BY <2>2
        <5> HIDE DEF G, It, X
        <5> QED BY <1>3, <3>2, <5>1
      <4> QED BY <4>1, <4>2
    <3> QED BY <3>1, <3>2
  <2>4. f = [s \in SUBSET (1..n) |-> f[s]]
    OBVIOUS
  <2>5. It(f) = [s \in SUBSET (1..n) |-> It(f)[s]]
    BY <1>0
  <2> HIDE DEF It
  <2>6. f = It(f)
    BY <2>3, <2>4, <2>5
  <2> QED BY <2>6
<1>5. FoldsWithin(iter, <<>>, n, G, X)
  <2>1. iter[{}] = <<>>
    BY <1>4
  <2> HIDE DEF iter, G, X
  <2>2. \A s \in SUBSET (1..n) : iter[s] = It(iter)[s]
    BY <1>4
  <2> HIDE DEF It
  <2> QED BY <1>3, <2>1, <2>2 DEF FoldsWithin
<1>7. PICK h \in [0..n -> X] : IsChain(h, <<>>, n, G) /\ iter[1..n] = h[n]
  <2>1. HasChain(iter, <<>>, n, G, X)
    <3> HIDE DEF G, iter, X
    <3> QED BY <1>2, <1>5, <1>b, FoldChain
  <2> QED BY <2>1 DEF HasChain
<1>8. \A k \in 1..n : h[k] = IF files[k].named THEN Append(h[k - 1], files[k]) ELSE h[k - 1]
  <2> TAKE k \in 1..n
  <2>1. h[k-1] \in X
    OBVIOUS
  <2> QED BY <1>7, <2>1 DEF IsChain
<1> HIDE DEF iter
<1> QED BY <1>0, <1>1, <1>7, <1>8 DEF IsChain, HasNamed, AreNamed

\* The size of the files up to each of them.
AreSummed(files, n, h) == h[0] = 0 /\ \A k \in 1..n : h[k] = h[k - 1] + files[k].size
\* The size of all is the size up to the last.
HasSum(files, n) == \E h \in [0..n -> Nat] : AreSummed(files, n, h) /\ Disk!TotalSize(files) = h[n]
\* Files that have sizes.
Sized(files, n) == DOMAIN files = 1..n /\ \A k \in 1..n : files[k].size \in Nat

\* The size of all files with sizes is their sum.
LEMMA SizeFold ==
  ASSUME NEW files, NEW n \in Nat, Sized(files, n)
  PROVE  HasSum(files, n)
<1> DEFINE It(f) == [s \in SUBSET (DOMAIN files) |-> IF s = {} THEN 0 ELSE f[s \ {Max(s)}] + files[Max(s)].size]
           iter == CHOOSE f : f = It(f)
           G == [p \in Nat \X (1..n) |-> p[1] + files[p[2]].size]
<1>0. DOMAIN files = 1..n /\ \A k \in 1..n : files[k].size \in Nat
  BY DEF Sized
<1>1. Disk!TotalSize(files) = iter[DOMAIN files]
  BY DEF Disk!TotalSize, Disk!FoldLeft, Disk!MapThenFoldSet, Disk!Max, Max
<1>2. IsStep(G, n, Nat)
  BY <1>0 DEF IsStep
<1>3. ASSUME NEW f, NEW s \in SUBSET (1..n), s # {}, f[s \ {Max(s)}] \in Nat
      PROVE  It(f)[s] = G[<<f[s \ {Max(s)}], Max(s)>>]
  <2>1. Max(s) \in 1..n
    BY <1>3, MaxInside
  <2> QED BY <1>0, <1>3, <2>1
<1>4. iter = It(iter)
  <2>1. PICK f \in [SUBSET (1..n) -> Nat] : Folds(f, 0, n, G)
    <3>1. HasFold(0, n, G, Nat)
      <4> HIDE DEF G
      <4> QED BY <1>2, FoldExists
    <3> QED BY <3>1 DEF HasFold
  <2>2. \A s \in SUBSET (1..n) : f[s \ {Max(s)}] \in Nat
    OBVIOUS
  <2>3. \A s \in SUBSET (1..n) : f[s] = It(f)[s]
    <3> TAKE s \in SUBSET (1..n)
    <3>1. CASE s = {}
      <4>1. f[s] = 0
        BY <2>1, <3>1 DEF Folds
      <4>2. It(f)[s] = 0
        BY <1>0, <3>1
      <4> QED BY <4>1, <4>2
    <3>2. CASE s # {}
      <4>1. f[s] = G[<<f[s \ {Max(s)}], Max(s)>>]
        <5> HIDE DEF G
        <5> QED BY <2>1, <3>2 DEF Folds
      <4>2. It(f)[s] = G[<<f[s \ {Max(s)}], Max(s)>>]
        <5>1. f[s \ {Max(s)}] \in Nat
          BY <2>2
        <5> HIDE DEF G, It
        <5> QED BY <1>3, <3>2, <5>1
      <4> QED BY <4>1, <4>2
    <3> QED BY <3>1, <3>2
  <2>4. f = [s \in SUBSET (1..n) |-> f[s]]
    OBVIOUS
  <2>5. It(f) = [s \in SUBSET (1..n) |-> It(f)[s]]
    BY <1>0
  <2> HIDE DEF It
  <2>6. f = It(f)
    BY <2>3, <2>4, <2>5
  <2> QED BY <2>6
<1>5. FoldsWithin(iter, 0, n, G, Nat)
  <2>1. iter[{}] = 0
    BY <1>4
  <2> HIDE DEF iter, G
  <2>2. \A s \in SUBSET (1..n) : iter[s] = It(iter)[s]
    BY <1>4
  <2> HIDE DEF It
  <2> QED BY <1>3, <2>1, <2>2 DEF FoldsWithin
<1>7. PICK h \in [0..n -> Nat] : IsChain(h, 0, n, G) /\ iter[1..n] = h[n]
  <2>1. HasChain(iter, 0, n, G, Nat)
    <3> HIDE DEF G, iter
    <3> QED BY <1>2, <1>5, FoldChain
  <2> QED BY <2>1 DEF HasChain
<1>8. \A k \in 1..n : h[k] = h[k - 1] + files[k].size
  <2> TAKE k \in 1..n
  <2>1. h[k-1] \in Nat
    OBVIOUS
  <2> QED BY <1>7, <2>1 DEF IsChain
<1> HIDE DEF iter
<1> QED BY <1>0, <1>1, <1>7, <1>8 DEF IsChain, HasSum, AreSummed

\* No file is larger than all together.
LEMMA SizesAdd ==
  ASSUME NEW files, NEW n \in Nat, Sized(files, n)
  PROVE  Disk!TotalSize(files) \in Nat /\ \A i \in 1..n : files[i].size <= Disk!TotalSize(files)
<1>1. PICK h \in [0..n -> Nat] : AreSummed(files, n, h) /\ Disk!TotalSize(files) = h[n]
  BY SizeFold DEF HasSum
<1> DEFINE Good(k) == \A i \in 1..k : files[i].size <= h[k]
           T == {k \in Nat : k <= n => Good(k)}
<1>2. 0 \in T
  OBVIOUS
<1>3. ASSUME NEW k \in T PROVE k + 1 \in T
  <2> SUFFICES ASSUME k + 1 <= n PROVE Good(k + 1)
    OBVIOUS
  <2> DEFINE j == k + 1
  <2>1. k \in Nat /\ Good(k) /\ j \in 1..n /\ j - 1 = k /\ k \in 0..n /\ (\A i \in 1..j : i \in 1..k \/ i = j) /\ \A i \in 1..j : i \in 1..n
    OBVIOUS
  <2> HIDE DEF T, j
  <2>2. h[j] = h[k] + files[j].size /\ h[k] \in Nat
    BY <1>1, <2>1 DEF AreSummed
  <2>3. ASSUME NEW i \in 1..j PROVE files[i].size <= h[j]
    <3>1. files[i].size \in Nat /\ files[j].size \in Nat
      BY <2>1 DEF Sized
    <3>2. CASE i = j
      BY <2>2, <3>1, <3>2
    <3>3. CASE i \in 1..k
      <4>1. files[i].size <= h[k]
        BY <2>1, <3>3
      <4> QED BY <2>2, <3>1, <4>1
    <3> QED BY <2>1, <3>2, <3>3
  <2> QED BY <2>3 DEF j
<1>4. n \in T
  <2> HIDE DEF T
  <2>1. T \in SUBSET Nat
    BY DEF T
  <2> QED BY <1>2, <1>3, <2>1, Induction
<1> QED BY <1>1, <1>4

\* One file is as large as all.
LEMMA SizeOfOne == ASSUME NEW f, f.size \in Nat PROVE Disk!TotalSize(<<f>>) = f.size
<1>1. Sized(<<f>>, 1)
  BY DEF Sized
<1>2. PICK h \in [0..1 -> Nat] : AreSummed(<<f>>, 1, h) /\ Disk!TotalSize(<<f>>) = h[1]
  BY <1>1, SizeFold DEF HasSum
<1>3. h[1] = h[0] + f.size /\ h[0] = 0
  BY <1>2 DEF AreSummed
<1> QED BY <1>2, <1>3

\* One sequence, joined, is itself.
LEMMA FlattenOne == ASSUME NEW V, NEW s \in Seq(V) PROVE Disk!FlattenSeq([i \in 1..1 |-> s]) = s
<1>1. [i \in 1..1 |-> s] \in Seq(Seq(V)) /\ Len([i \in 1..1 |-> s]) = 1
  <2>1. [i \in 1..1 |-> s] \in [1..1 -> Seq(V)]
    OBVIOUS
  <2> QED BY <2>1, Sequence
<1> DEFINE ss == [i \in 1..1 |-> s]
<1>a. ss[1] = s
  OBVIOUS
<1> HIDE DEF ss
<1>2. PICK h \in [0..1 -> Seq(V)] : AreJoined(ss, 1, h) /\ Disk!FlattenSeq(ss) = h[1]
  BY <1>1, DiskFlattens DEF ss
<1>3. h[1] = <<>> \o s
  <2>1. 1 \in 1..1 /\ 1 - 1 = 0
    OBVIOUS
  <2> QED BY <1>2, <1>a, <2>1 DEF AreJoined
<1>4. <<>> \o s = s
  OBVIOUS
<1> QED BY <1>2, <1>3, <1>4 DEF ss

\* The entries of a part that is read, and all of them one after the other.
EntriesIn(file, name) == CHOOSE e \in Disk!ReadEntries(Disk!Stated(file, name)) : TRUE
\* The same part of each of the files.
EachPart(files, name) == [i \in DOMAIN files |-> EntriesIn(files[i], name)]
\* Files that are read as valid.
Valid(V) == \A f \in V : Disk!IsFile(f) /\ Disk!ValidFile(f)
\* What a part of the files holds.
PartItems(V, name) == UNION {Disk!ToSet(EntriesIn(f, name)) : f \in V}

\* A part that is read has one sequence of entries, those it states if it states any.
LEMMA PartRead ==
  ASSUME NEW part, Disk!IsPart(part), Disk!ReadEntries(part) # {}
  PROVE  LET e == CHOOSE e \in Disk!ReadEntries(part) : TRUE
         IN e \in Seq(Disk!ToSet(e)) /\ Disk!ReadEntries(part) = {e} /\ ("entries" \in DOMAIN part => e = part.entries)
<1> DEFINE e == CHOOSE x \in Disk!ReadEntries(part) : TRUE
<1>1. CASE part = Disk!Absent
  <2>1. Disk!ReadEntries(part) = {<<>>}
    BY <1>1 DEF Disk!ReadEntries
  <2>2. e = <<>>
    BY <2>1
  <2>3. "entries" \notin DOMAIN part
    BY <1>1 DEF Disk!Absent
  <2>4. <<>> \in Seq(Disk!ToSet(<<>>))
    OBVIOUS
  <2> QED BY <2>1, <2>2, <2>3, <2>4
<1>2. CASE part # Disk!Absent
  <2>1. Disk!ReadEntries(part) = {part.entries} /\ part # Disk!NoArray
    BY <1>2 DEF Disk!ReadEntries
  <2>2. e = part.entries
    BY <2>1
  <2>3. part.entries \in Seq(Disk!ToSet(part.entries))
    BY <1>2, <2>1 DEF Disk!IsPart
  <2> QED BY <2>1, <2>2, <2>3
<1> QED BY <1>1, <1>2

\* So has a part of a file.
LEMMA EntriesRead ==
  ASSUME NEW file, Disk!IsFile(file), NEW name \in Disk!Parts, Disk!ReadEntries(Disk!Stated(file, name)) # {}
  PROVE  /\ EntriesIn(file, name) \in Seq(Disk!ToSet(EntriesIn(file, name)))
         /\ Disk!ReadEntries(Disk!Stated(file, name)) = {EntriesIn(file, name)}
         /\ "entries" \in DOMAIN Disk!Stated(file, name) => EntriesIn(file, name) = Disk!Stated(file, name).entries
<1>1. Disk!IsPart(Disk!Stated(file, name))
  BY DEF Disk!IsFile, Disk!Stated, Disk!Parts
<1> DEFINE part == Disk!Stated(file, name)
<1>2. EntriesIn(file, name) = CHOOSE e \in Disk!ReadEntries(part) : TRUE
  BY DEF EntriesIn
<1> HIDE DEF part
<1>3. Disk!IsPart(part) /\ Disk!ReadEntries(part) # {}
  BY <1>1 DEF part
<1>4. LET e == EntriesIn(file, name)
      IN e \in Seq(Disk!ToSet(e)) /\ Disk!ReadEntries(part) = {e} /\ ("entries" \in DOMAIN part => e = part.entries)
  BY <1>2, <1>3, PartRead
<1> QED BY <1>4 DEF part

\* The parts of valid files are sequences of what they hold.
LEMMA PartsAreSequences ==
  ASSUME NEW V, Valid(V), NEW files \in Seq(V), NEW name \in Disk!Parts
  PROVE  /\ EachPart(files, name) \in Seq(Seq(PartItems(V, name)))
         /\ Len(EachPart(files, name)) = Len(files)
         /\ \A i \in 1..Len(files) : EachPart(files, name)[i] = EntriesIn(files[i], name)
<1> DEFINE n == Len(files)
           E == PartItems(V, name)
<1>1. n \in Nat /\ DOMAIN files = 1..n /\ \A i \in 1..n : files[i] \in V
  BY LenProperties, ElementOfSeq
<1> HIDE DEF n
<1>2. ASSUME NEW f \in V PROVE EntriesIn(f, name) \in Seq(E)
  <2> DEFINE e == EntriesIn(f, name)
  <2>1. Disk!IsFile(f) /\ Disk!ReadEntries(Disk!Stated(f, name)) # {}
    BY DEF Valid, Disk!ValidFile
  <2>2. e \in Seq(Disk!ToSet(e))
    BY <2>1, EntriesRead
  <2>3. Disk!ToSet(e) \subseteq E
    BY DEF PartItems
  <2> HIDE DEF e, E
  <2>4. e \in Seq(E)
    BY <2>2, <2>3
  <2> QED BY <2>4 DEF e
<1> HIDE DEF E
<1>3. EachPart(files, name) = [i \in 1..n |-> EntriesIn(files[i], name)]
  BY <1>1 DEF EachPart
<1>4. EachPart(files, name) \in [1..n -> Seq(E)]
  BY <1>1, <1>2, <1>3
<1>5. EachPart(files, name) \in Seq(Seq(E)) /\ Len(EachPart(files, name)) = n
  BY <1>1, <1>4, Sequence
<1> QED BY <1>3, <1>5 DEF n, E

\* What loads, and as what.
Loads(path, files) ==
  /\ path.kind # "missing" /\ Len(files) <= MaxFiles
  /\ \A i \in DOMAIN files : Disk!Readable(files[i])
  /\ Disk!TotalSize(files) <= MaxBundleBytes
  /\ \A i \in DOMAIN files : Disk!ValidFile(files[i])
\* A part of all files.
Part(files, name) == Disk!FlattenSeq(EachPart(files, name))
\* What files load as.
Loaded(files) ==
  [keys |-> Part(files, "keys"), x509Anchors |-> Part(files, "x509Anchors"), didWebDomains |-> Part(files, "didWebDomains"),
   developmentOnly |-> \E i \in DOMAIN files : files[i].json.developmentOnly]

\* A bundle is what its files load as, or nothing.
LEMMA BundleIs ==
  ASSUME NEW path
  PROVE  Disk!Bundle(path) = IF Loads(path, Disk!FilesOf(path)) THEN {Loaded(Disk!FilesOf(path))} ELSE {}
BY DEF Disk!Bundle, Loads, Loaded, Part, EachPart, EntriesIn

\* Each part of what is loaded is that part of all files.
LEMMA LoadedParts ==
  ASSUME NEW files, NEW name \in Disk!Parts
  PROVE  Loaded(files)[name] = Part(files, name)
BY DEF Loaded, Disk!Parts

\* A file that is among those that load loads alone.
LEMMA AloneIs ==
  ASSUME NEW V, (\A f \in V : Disk!IsFile(f)), NEW path, NEW files \in Seq(V), Loads(path, files), NEW i \in DOMAIN files
  PROVE  /\ Disk!Alone(files[i]) = {Loaded(<<files[i]>>)}
         /\ \A name \in Disk!Parts : Loaded(<<files[i]>>)[name] = EntriesIn(files[i], name)
         /\ Loaded(<<files[i]>>).developmentOnly = files[i].json.developmentOnly
<1> DEFINE n == Len(files)
           f == files[i]
           one == <<f>>
           p == [kind |-> "file", files |-> one]
<1>1. /\ n \in Nat /\ DOMAIN files = 1..n /\ n >= 1 /\ f \in V /\ (\A k \in 1..n : files[k] \in V)
  BY LenProperties, ElementOfSeq
<1>2. Disk!IsFile(f) /\ Disk!ValidFile(f) /\ Disk!Readable(f) /\ n <= MaxFiles /\ f.size \in Nat
  BY <1>1 DEF Loads, Disk!IsFile
<1>3. f.size <= Disk!TotalSize(files) /\ Disk!TotalSize(files) \in Nat
  <2>1. Sized(files, n)
    BY <1>1 DEF Sized, Disk!IsFile
  <2> QED BY <1>1, <2>1, SizesAdd
<1> HIDE DEF f
<1>4. Disk!TotalSize(one) = f.size
  BY <1>2, SizeOfOne
<1>5. one \in Seq({f}) /\ Len(one) = 1 /\ DOMAIN one = 1..1 /\ one[1] = f
  OBVIOUS
<1>6. Disk!FilesOf(p) = one /\ p.kind = "file"
  BY DEF Disk!FilesOf
<1> HIDE DEF one, p
<1>7. Loads(p, one)
  <2>1. \A k \in DOMAIN one : one[k] = f
    BY <1>5
  <2>2. Len(one) <= MaxFiles
    BY <1>1, <1>2, <1>5, LimitsAssumption
  <2>3. Disk!TotalSize(one) <= MaxBundleBytes
    BY <1>3, <1>4, <1>2, LimitsAssumption DEF Loads
  <2> QED BY <1>2, <1>6, <2>1, <2>2, <2>3 DEF Loads
<1>8. Disk!Bundle(p) = {Loaded(one)}
  BY <1>6, <1>7, BundleIs
<1>9. Disk!Alone(f) = Disk!Bundle(p)
  BY DEF Disk!Alone, p, one
<1>10. ASSUME NEW name \in Disk!Parts PROVE Loaded(one)[name] = EntriesIn(f, name)
  <2>1. EachPart(one, name) = [k \in 1..1 |-> EntriesIn(f, name)]
    BY <1>5 DEF EachPart
  <2>2. EntriesIn(f, name) \in Seq(Disk!ToSet(EntriesIn(f, name)))
    BY <1>2, EntriesRead DEF Disk!ValidFile
  <2>3. Part(one, name) = EntriesIn(f, name)
    BY <2>1, <2>2, FlattenOne DEF Part
  <2> QED BY <2>3, LoadedParts
<1>11. Loaded(one).developmentOnly = f.json.developmentOnly
  <2>1. f.json.developmentOnly \in BOOLEAN
    BY <1>2 DEF Disk!IsFile
  <2>2. Loaded(one).developmentOnly = (\E k \in DOMAIN one : one[k].json.developmentOnly)
    BY DEF Loaded
  <2>3. (\E k \in DOMAIN one : one[k].json.developmentOnly) <=> f.json.developmentOnly
    BY <1>5
  <2> QED BY <2>1, <2>2, <2>3
<1> QED BY <1>8, <1>9, <1>10, <1>11 DEF f, one

\* A key of an issuer under a key id.
IsKeyOf(k, issuer, keyId) == k.issuer = issuer /\ k.keyId = keyId

\* A configured key is the first that matches, and none when none does.
LEMMA KeyIs ==
  ASSUME NEW bundle, NEW n \in Nat, n = Len(bundle.keys), NEW issuer, NEW keyId
  PROVE  /\ (\A k \in 1..n : ~IsKeyOf(bundle.keys[k], issuer, keyId)) => Disk!ConfiguredKey(bundle, issuer, keyId) = {}
         /\ \A i \in 1..n : /\ IsKeyOf(bundle.keys[i], issuer, keyId)
                            /\ \A k \in 1..n : IsKeyOf(bundle.keys[k], issuer, keyId) => i <= k
                            => Disk!ConfiguredKey(bundle, issuer, keyId) = {bundle.keys[i]}
<1> DEFINE I == {i \in 1..Len(bundle.keys) : IsKeyOf(bundle.keys[i], issuer, keyId)}
           first == IF I # {} THEN Min(I) ELSE 0
<1>1. Disk!ConfiguredKey(bundle, issuer, keyId) = IF first = 0 THEN {} ELSE {bundle.keys[first]}
  BY DEF Disk!ConfiguredKey, Disk!SelectInSeq, Disk!Min, Min, IsKeyOf
<1>2. ASSUME \A k \in 1..n : ~IsKeyOf(bundle.keys[k], issuer, keyId) PROVE first = 0
  BY <1>2
<1>3. ASSUME NEW i \in 1..n, IsKeyOf(bundle.keys[i], issuer, keyId), \A k \in 1..n : IsKeyOf(bundle.keys[k], issuer, keyId) => i <= k
      PROVE  first = i /\ i # 0
  <2>1. i \in I /\ \A k \in I : i <= k /\ k \in Nat
    BY <1>3
  <2> HIDE DEF I
  <2>2. Min(I) = i
    <3>1. \A m \in I : (\A y \in I : m <= y) => m = i
      BY <2>1
    <3> QED BY <2>1, <3>1 DEF Min
  <2> QED BY <2>1, <2>2
<1> HIDE DEF first
<1> QED BY <1>1, <1>2, <1>3

\* Keys are added behind those that were there.
KeysGrow(before, after) ==
  \E V : before.keys \in Seq(V) /\ \E more \in Seq(V) : after.keys = before.keys \o more

\* What is loaded behind the keys that were there changes none of them.
LEMMA KeysKept ==
  ASSUME NEW before, NEW after, KeysGrow(before, after), NEW issuer, NEW keyId, Disk!ConfiguredKey(before, issuer, keyId) # {}
  PROVE  Disk!ConfiguredKey(before, issuer, keyId) = Disk!ConfiguredKey(after, issuer, keyId)
<1> PICK V : before.keys \in Seq(V) /\ \E more \in Seq(V) : after.keys = before.keys \o more
  BY DEF KeysGrow
<1> PICK more \in Seq(V) : after.keys = before.keys \o more
  OBVIOUS
<1> DEFINE p == before.keys
           q == after.keys
           n == Len(p)
           m == Len(q)
           T == {i \in 1..n : IsKeyOf(p[i], issuer, keyId)}
<1>1. n \in Nat /\ m \in Nat /\ n <= m /\ \A i \in 1..n : q[i] = p[i]
  BY ConcatProperties, LenProperties
<1>2. T # {}
  <2> HIDE DEF p, q
  <2>1. n = Len(before.keys)
    BY DEF p
  <2>2. (\A k \in 1..n : ~IsKeyOf(before.keys[k], issuer, keyId)) => Disk!ConfiguredKey(before, issuer, keyId) = {}
    BY <1>1, <2>1, KeyIs
  <2> QED BY <2>2 DEF p
<1>3. T \in SUBSET Nat
  OBVIOUS
<1>4. PICK i \in T : \A k \in T : i <= k
  <2> HIDE DEF T
  <2> QED BY <1>2, <1>3, LeastOf
<1> HIDE DEF p, q, n, m
<1>5. i \in 1..n /\ IsKeyOf(p[i], issuer, keyId) /\ \A k \in 1..n : IsKeyOf(p[k], issuer, keyId) => i <= k
  BY <1>4
<1>6. i \in 1..m /\ IsKeyOf(q[i], issuer, keyId) /\ q[i] = p[i]
  BY <1>1, <1>5
<1>7. \A k \in 1..m : IsKeyOf(q[k], issuer, keyId) => i <= k
  <2> TAKE k \in 1..m
  <2>1. CASE k \in 1..n
    BY <1>1, <1>5, <2>1
  <2>2. CASE k \notin 1..n
    BY <1>1, <1>5, <2>2
  <2> QED BY <2>1, <2>2
<1>8. Disk!ConfiguredKey(before, issuer, keyId) = {p[i]}
  BY <1>1, <1>5, KeyIs DEF p, n
<1>9. Disk!ConfiguredKey(after, issuer, keyId) = {q[i]}
  BY <1>1, <1>6, <1>7, KeyIs DEF q, m
<1> QED BY <1>6, <1>8, <1>9

\* The files of a directory without its last one.
LEMMA NamedWithoutLast ==
  ASSUME NEW V, NEW files \in Seq(V), files # <<>>
  PROVE  /\ Disk!Front(files) \in Seq(V)
         /\ Disk!Named(Disk!Front(files)) \in Seq(V)
         /\ \/ Disk!Named(files) = Disk!Named(Disk!Front(files))
            \/ \E f \in V : Disk!Named(files) = Append(Disk!Named(Disk!Front(files)), f)
<1> DEFINE n == Len(files)
           m == n - 1
           front == Disk!Front(files)
<1>1. n \in Nat /\ m \in Nat /\ n \in 1..n /\ m <= n /\ files[n] \in V
  BY EmptySeq, LenProperties, ElementOfSeq
<1>2. front \in Seq(V) /\ Len(front) = m /\ \A k \in 1..m : front[k] = files[k]
  <2>1. IsCut(front, files, 0, m, V)
    <3>1. 1 = 0 + 1 /\ 0 <= m /\ m <= Len(files) /\ front = SubSeq(files, 1, m)
      BY <1>1 DEF Disk!Front
    <3> HIDE DEF front, m
    <3> QED BY <1>1, <3>1, Cut
  <2> HIDE DEF front, m
  <2>2. m - 0 = m /\ \A k \in 1..m : 0 + k = k
    BY <1>1
  <2> QED BY <2>1, <2>2 DEF IsCut
<1> HIDE DEF n, front
<1>3. PICK h \in [0..n -> Seq(V)] : AreNamed(files, n, h) /\ Disk!Named(files) = h[n]
  BY <1>1, NamedFold DEF HasNamed, n
<1> HIDE DEF m
<1>4. PICK g \in [0..m -> Seq(V)] : AreNamed(front, m, g) /\ Disk!Named(front) = g[m]
  BY <1>1, <1>2, NamedFold DEF HasNamed
<1> DEFINE T == {k \in Nat : k <= m => h[k] = g[k]}
<1>5. 0 \in T
  BY <1>3, <1>4 DEF AreNamed
<1>6. ASSUME NEW k \in T PROVE k + 1 \in T
  <2> SUFFICES ASSUME k + 1 <= m PROVE h[k + 1] = g[k + 1]
    OBVIOUS
  <2> DEFINE j == k + 1
  <2>1. k \in Nat /\ h[k] = g[k] /\ j \in 1..n /\ j \in 1..m /\ j - 1 = k
    BY <1>1
  <2> HIDE DEF j, T
  <2>2. h[j] = IF files[j].named THEN Append(h[k], files[j]) ELSE h[k]
    BY <1>3, <2>1 DEF AreNamed
  <2>3. g[j] = IF front[j].named THEN Append(g[k], front[j]) ELSE g[k]
    BY <1>4, <2>1 DEF AreNamed
  <2>4. h[j] = g[j]
    BY <1>2, <2>1, <2>2, <2>3
  <2> QED BY <2>4 DEF j
<1>7. m \in T
  <2> HIDE DEF T
  <2>1. T \in SUBSET Nat
    BY DEF T
  <2> QED BY <1>1, <1>5, <1>6, <2>1, Induction
<1>8. h[n] = IF files[n].named THEN Append(h[m], files[n]) ELSE h[m]
  BY <1>1, <1>3 DEF AreNamed, m
<1>9. h[m] = g[m] /\ g[m] \in Seq(V)
  BY <1>1, <1>7
<1> QED BY <1>1, <1>2, <1>3, <1>4, <1>8, <1>9 DEF front

\* A path of the disk, with files as readTrustBundle() finds them.
IsPath(path) ==
  /\ DOMAIN path = {"kind", "files"}
  /\ path.files \in Seq(ToSet(path.files)) /\ \A file \in ToSet(path.files) : Disk!IsFile(file)

\* The files of a path are some of those on the disk.
LEMMA FilesAre ==
  ASSUME NEW path, IsPath(path)
  PROVE  Disk!FilesOf(path) \in Seq(ToSet(path.files))
<1> DEFINE V == ToSet(path.files)
           n == Len(path.files)
<1>1. path.files \in Seq(V) /\ n \in Nat
  BY LenProperties DEF IsPath
<1>2. Disk!Named(path.files) \in Seq(V)
  <2> HIDE DEF V
  <2>1. PICK h \in [0..n -> Seq(V)] : AreNamed(path.files, n, h) /\ Disk!Named(path.files) = h[n]
    BY <1>1, NamedFold DEF HasNamed
  <2> QED BY <1>1, <2>1
<1> QED BY <1>1, <1>2 DEF Disk!FilesOf

\* Of files that load there are valid ones only.
LEMMA LoadedAreValid ==
  ASSUME NEW V, (\A f \in V : Disk!IsFile(f)), NEW path, NEW files \in Seq(V), Loads(path, files)
  PROVE  \E W : Valid(W) /\ files \in Seq(W) /\ \A f \in W : Disk!IsFile(f)
<1> DEFINE W == {f \in V : Disk!ValidFile(f)}
           n == Len(files)
<1>1. n \in Nat /\ DOMAIN files = 1..n /\ files \in [1..n -> V]
  BY LenProperties
<1>2. \A i \in 1..n : files[i] \in W
  BY <1>1 DEF Loads
<1>3. files \in [1..n -> W]
  BY <1>1, <1>2
<1>4. files \in Seq(W)
  <2> HIDE DEF W, n
  <2> QED BY <1>1, <1>3, Sequence
<1>5. Valid(W)
  BY DEF Valid
<1> QED BY <1>4, <1>5

\* A directory without its last file loads as the other files do.
LEMMA BeforeIs ==
  ASSUME NEW path, IsPath(path), path.kind = "directory", path.files # <<>>,
         NEW before \in Disk!Bundle([path EXCEPT !.files = Disk!Front(path.files)])
  PROVE  before = Loaded(Disk!Named(Disk!Front(path.files)))
<1> DEFINE other == [path EXCEPT !.files = Disk!Front(path.files)]
<1>1. other.kind = "directory" /\ other.files = Disk!Front(path.files)
  BY DEF IsPath
<1>2. Disk!FilesOf(other) = Disk!Named(Disk!Front(path.files))
  BY <1>1 DEF Disk!FilesOf
<1> HIDE DEF other
<1>3. before \in Disk!Bundle(other)
  BY DEF other
<1> QED BY <1>2, <1>3, BundleIs

\* The keys of a directory's last file come behind all others.
LEMMA KeysComeBehind ==
  ASSUME NEW path, IsPath(path), path.kind = "directory", path.files # <<>>, Loads(path, Disk!FilesOf(path)),
         NEW before \in Disk!Bundle([path EXCEPT !.files = Disk!Front(path.files)])
  PROVE  KeysGrow(before, Loaded(Disk!FilesOf(path)))
<1> DEFINE U == ToSet(path.files)
           files == Disk!FilesOf(path)
           front == Disk!Named(Disk!Front(path.files))
<1>1. path.files \in Seq(U) /\ (\A f \in U : Disk!IsFile(f)) /\ files = Disk!Named(path.files)
  BY DEF IsPath, Disk!FilesOf
<1>2. files \in Seq(U)
  BY FilesAre
<1>3. front \in Seq(U) /\ (files = front \/ \E f \in U : files = Append(front, f))
  <2> HIDE DEF U
  <2> QED BY <1>1, NamedWithoutLast
<1> HIDE DEF U, files, front
<1>4. PICK W : Valid(W) /\ files \in Seq(W)
  <2>1. Loads(path, files)
    BY DEF files
  <2> QED BY <1>1, <1>2, <2>1, LoadedAreValid
<1>5. before = Loaded(front)
  BY BeforeIs DEF front
<1> DEFINE E == PartItems(W, "keys")
           ff == EachPart(files, "keys")
           gg == EachPart(front, "keys")
<1>6. Loaded(files).keys = Disk!FlattenSeq(ff) /\ before.keys = Disk!FlattenSeq(gg)
  BY <1>5 DEF Loaded, Part
<1>7. CASE files = front
  <2>1. ff \in Seq(Seq(E))
    BY <1>4, PartsAreSequences DEF Disk!Parts
  <2>2. Disk!FlattenSeq(ff) \in Seq(E)
    <3> HIDE DEF ff, E
    <3> QED BY <2>1, FlattenElements
  <2>3. before.keys \in Seq(E) /\ Loaded(files).keys = before.keys
    BY <1>6, <1>7, <2>2
  <2> HIDE DEF E
  <2>4. before.keys \o <<>> = before.keys /\ <<>> \in Seq(E)
    BY <2>3, ConcatEmptySeq
  <2> QED BY <2>3, <2>4 DEF files, KeysGrow
<1>8. CASE files # front
  <2>1. PICK f \in U : files = Append(front, f)
    BY <1>3, <1>8
  <2> DEFINE n == Len(front)
  <2>2. /\ n \in Nat /\ Len(files) = n + 1 /\ files[n + 1] = f /\ (\A i \in 1..n : files[i] = front[i])
    BY <1>3, <2>1, AppendProperties, LenProperties
  <2> HIDE DEF n
  <2>3. front \in Seq(W)
    <3>1. \A i \in 1..n : front[i] \in W
      <4> TAKE i \in 1..n
      <4>1. i \in 1..Len(files)
        BY <2>2
      <4>2. files[i] \in W
        BY <1>4, <4>1, ElementOfSeq
      <4> QED BY <2>2, <4>2
    <3>2. front \in [1..n -> U]
      BY <1>3 DEF n
    <3>3. front \in [1..n -> W]
      BY <3>1, <3>2
    <3> QED BY <2>2, <3>3, Sequence
  <2>4. /\ ff \in Seq(Seq(E)) /\ Len(ff) = n + 1 /\ \A i \in 1..n+1 : ff[i] = EntriesIn(files[i], "keys")
    BY <1>4, <2>2, PartsAreSequences DEF Disk!Parts
  <2>5. /\ gg \in Seq(Seq(E)) /\ Len(gg) = n /\ \A i \in 1..n : gg[i] = EntriesIn(front[i], "keys")
    BY <1>4, <2>3, PartsAreSequences DEF Disk!Parts, n
  <2> HIDE DEF ff, gg, E
  <2>6. Alike(gg, ff, n)
    <3> SUFFICES ASSUME NEW i \in 1..n PROVE gg[i] = ff[i]
      BY DEF Alike
    <3>1. i \in 1..n+1
      BY <2>2
    <3> QED BY <2>2, <2>4, <2>5, <3>1
  <2>7. Disk!FlattenSeq(ff) = Disk!FlattenSeq(gg) \o ff[n + 1]
    BY <2>4, <2>5, <2>6, FlattenBehind
  <2>8. Disk!FlattenSeq(gg) \in Seq(E)
    BY <2>5, FlattenElements
  <2>9. ff[n + 1] \in Seq(E)
    <3>1. n + 1 \in 1..Len(ff)
      BY <2>2, <2>4
    <3> QED BY <2>4, <3>1, ElementOfSeq
  <2> QED BY <1>6, <2>7, <2>8, <2>9 DEF files, KeysGrow
<1> QED BY <1>7, <1>8

\* The parts of what is loaded, as those of each file.
LEMMA PartsAreWhole ==
  ASSUME NEW V, (\A f \in V : Disk!IsFile(f)), NEW path, NEW files \in Seq(V), Loads(path, files), NEW name \in Disk!Parts
  PROVE  /\ \A i \in DOMAIN files : "entries" \in DOMAIN Disk!Stated(files[i], name) =>
              Disk!ToSet(Disk!Stated(files[i], name).entries) \subseteq Disk!ToSet(Part(files, name))
         /\ Part(files, name) = <<>> <=> \A i \in DOMAIN files : EntriesIn(files[i], name) = <<>>
<1>1. PICK W : Valid(W) /\ files \in Seq(W)
  BY LoadedAreValid
<1> DEFINE n == Len(files)
           E == PartItems(W, name)
           ff == EachPart(files, name)
<1>2. n \in Nat /\ DOMAIN files = 1..n /\ \A i \in 1..n : files[i] \in W
  BY <1>1, LenProperties, ElementOfSeq
<1>3. /\ ff \in Seq(Seq(E)) /\ Len(ff) = n /\ \A i \in 1..n : ff[i] = EntriesIn(files[i], name)
  BY <1>1, PartsAreSequences
<1> HIDE DEF ff, E, n
<1>4. /\ \A k \in 1..n : Disk!ToSet(ff[k]) \subseteq Disk!ToSet(Disk!FlattenSeq(ff))
      /\ Disk!FlattenSeq(ff) = <<>> <=> \A k \in 1..n : ff[k] = <<>>
  BY <1>3, FlattenElements
<1>5. Part(files, name) = Disk!FlattenSeq(ff)
  BY DEF Part, ff
<1>6. ASSUME NEW i \in 1..n, "entries" \in DOMAIN Disk!Stated(files[i], name)
      PROVE  Disk!ToSet(Disk!Stated(files[i], name).entries) \subseteq Disk!ToSet(Part(files, name))
  <2>1. Disk!IsFile(files[i]) /\ Disk!ReadEntries(Disk!Stated(files[i], name)) # {}
    BY <1>1, <1>2 DEF Valid, Disk!ValidFile
  <2>2. EntriesIn(files[i], name) = Disk!Stated(files[i], name).entries
    BY <1>6, <2>1, EntriesRead
  <2> QED BY <1>3, <1>4, <1>5, <2>2
<1> QED BY <1>2, <1>3, <1>4, <1>5, <1>6

\* A bundle is loaded whole, whatever its files and their entries are.
THEOREM BundlesLoadWhole ==
  ASSUME NEW path, IsPath(path)
  PROVE  Disk!LoadsWholeFiles(path)
<1> DEFINE files == Disk!FilesOf(path)
           U == ToSet(path.files)
<1>0. (\A f \in U : Disk!IsFile(f)) /\ files \in Seq(U)
  BY FilesAre DEF IsPath
<1> SUFFICES ASSUME NEW bundle \in Disk!Bundle(path)
             PROVE
       /\ \A i \in DOMAIN files : Disk!Alone(files[i]) # {}
       /\ \A name \in Disk!Parts : bundle[name] = Disk!FlattenSeq([i \in DOMAIN files |-> (CHOOSE b \in Disk!Alone(files[i]) : TRUE)[name]])
       /\ bundle.developmentOnly <=> \E i \in DOMAIN files : \E b \in Disk!Alone(files[i]) : b.developmentOnly
       /\ \A i \in DOMAIN files : \A name \in Disk!Parts : "entries" \in DOMAIN Disk!Stated(files[i], name) =>
            Disk!ToSet(Disk!Stated(files[i], name).entries) \subseteq Disk!ToSet(bundle[name])
       /\ Disk!HasResolver(bundle) = (\E i \in DOMAIN files : \E b \in Disk!Alone(files[i]) : Disk!HasResolver(b))
       /\ Disk!TrustSource(bundle) = "UNCONFIGURED" <=> \A name \in Disk!Parts : bundle[name] = <<>>
       /\ path.kind = "directory" /\ path.files # <<>> =>
            \A before \in Disk!Bundle([path EXCEPT !.files = Disk!Front(path.files)]), i \in DOMAIN bundle.keys :
              LET k == bundle.keys[i]
              IN Disk!ConfiguredKey(before, k.issuer, k.keyId) # {} =>
                   Disk!ConfiguredKey(before, k.issuer, k.keyId) = Disk!ConfiguredKey(bundle, k.issuer, k.keyId)
  BY DEF Disk!LoadsWholeFiles
<1> HIDE DEF files, U
<1>1. Loads(path, files) /\ bundle = Loaded(files)
  BY BundleIs DEF files
<1>2. /\ bundle.keys = Part(files, "keys") /\ bundle.x509Anchors = Part(files, "x509Anchors")
      /\ bundle.didWebDomains = Part(files, "didWebDomains")
      /\ bundle.developmentOnly = (\E i \in DOMAIN files : files[i].json.developmentOnly)
      /\ \A name \in Disk!Parts : bundle[name] = Part(files, name)
  BY <1>1, LoadedParts DEF Loaded
<1>3. ASSUME NEW i \in DOMAIN files
      PROVE  \E b : /\ Disk!Alone(files[i]) = {b} /\ (\A name \in Disk!Parts : b[name] = EntriesIn(files[i], name))
                    /\ b.developmentOnly = files[i].json.developmentOnly
  BY <1>0, <1>1, AloneIs
<1>4. \A i \in DOMAIN files : Disk!Alone(files[i]) # {}
  BY <1>3
<1>5. ASSUME NEW name \in Disk!Parts
      PROVE  bundle[name] = Disk!FlattenSeq([i \in DOMAIN files |-> (CHOOSE b \in Disk!Alone(files[i]) : TRUE)[name]])
  <2>1. \A i \in DOMAIN files : (CHOOSE b \in Disk!Alone(files[i]) : TRUE)[name] = EntriesIn(files[i], name)
    <3> TAKE i \in DOMAIN files
    <3>1. PICK b : Disk!Alone(files[i]) = {b} /\ b[name] = EntriesIn(files[i], name)
      BY <1>3, <1>5
    <3>2. (CHOOSE x \in Disk!Alone(files[i]) : TRUE) = b
      BY <3>1
    <3> QED BY <3>1, <3>2
  <2>2. [i \in DOMAIN files |-> (CHOOSE b \in Disk!Alone(files[i]) : TRUE)[name]] = EachPart(files, name)
    BY <2>1 DEF EachPart
  <2> QED BY <1>2, <2>2 DEF Part
<1>6. bundle.developmentOnly <=> \E i \in DOMAIN files : \E b \in Disk!Alone(files[i]) : b.developmentOnly
  <2>1. \A i \in DOMAIN files : files[i].json.developmentOnly <=> \E b \in Disk!Alone(files[i]) : b.developmentOnly
    <3> TAKE i \in DOMAIN files
    <3>1. PICK b : Disk!Alone(files[i]) = {b} /\ b.developmentOnly = files[i].json.developmentOnly
      BY <1>3
    <3> QED BY <3>1
  <2> QED BY <1>2, <2>1
<1>7. \A i \in DOMAIN files : \A name \in Disk!Parts : "entries" \in DOMAIN Disk!Stated(files[i], name) =>
        Disk!ToSet(Disk!Stated(files[i], name).entries) \subseteq Disk!ToSet(bundle[name])
  BY <1>0, <1>1, <1>2, PartsAreWhole
<1>8. Disk!HasResolver(bundle) = (\E i \in DOMAIN files : \E b \in Disk!Alone(files[i]) : Disk!HasResolver(b))
  <2>1. \A i \in DOMAIN files : (\E b \in Disk!Alone(files[i]) : Disk!HasResolver(b)) <=> EntriesIn(files[i], "didWebDomains") # <<>>
    <3> TAKE i \in DOMAIN files
    <3>1. PICK b : Disk!Alone(files[i]) = {b} /\ b.didWebDomains = EntriesIn(files[i], "didWebDomains")
      BY <1>3 DEF Disk!Parts
    <3> QED BY <3>1 DEF Disk!HasResolver
  <2>2. Part(files, "didWebDomains") = <<>> <=> \A i \in DOMAIN files : EntriesIn(files[i], "didWebDomains") = <<>>
    BY <1>0, <1>1, PartsAreWhole DEF Disk!Parts
  <2>3. Disk!HasResolver(bundle) = (Part(files, "didWebDomains") # <<>>)
    BY <1>2 DEF Disk!HasResolver
  <2> QED BY <2>1, <2>2, <2>3
<1>9. Disk!TrustSource(bundle) = "UNCONFIGURED" <=> \A name \in Disk!Parts : bundle[name] = <<>>
  <2>1. (\A name \in Disk!Parts : bundle[name] = <<>>) <=>
          bundle.keys = <<>> /\ bundle.x509Anchors = <<>> /\ bundle.didWebDomains = <<>>
    BY <1>2 DEF Disk!Parts
  <2>2. Disk!TrustSource(bundle) = "UNCONFIGURED" <=>
          bundle.keys = <<>> /\ bundle.x509Anchors = <<>> /\ bundle.didWebDomains = <<>>
    BY DEF Disk!TrustSource
  <2> QED BY <2>1, <2>2
<1>10. ASSUME path.kind = "directory", path.files # <<>>,
              NEW before \in Disk!Bundle([path EXCEPT !.files = Disk!Front(path.files)])
       PROVE  \A issuer, keyId : Disk!ConfiguredKey(before, issuer, keyId) # {} =>
                Disk!ConfiguredKey(before, issuer, keyId) = Disk!ConfiguredKey(bundle, issuer, keyId)
  <2>1. KeysGrow(before, bundle)
    BY <1>1, <1>10, KeysComeBehind DEF files
  <2> TAKE issuer, keyId
  <2> HAVE Disk!ConfiguredKey(before, issuer, keyId) # {}
  <2> QED BY <2>1, KeysKept
<1>11. path.kind = "directory" /\ path.files # <<>> =>
            \A before \in Disk!Bundle([path EXCEPT !.files = Disk!Front(path.files)]), i \in DOMAIN bundle.keys :
              LET k == bundle.keys[i]
              IN Disk!ConfiguredKey(before, k.issuer, k.keyId) # {} =>
                   Disk!ConfiguredKey(before, k.issuer, k.keyId) = Disk!ConfiguredKey(bundle, k.issuer, k.keyId)
  BY <1>10
<1> QED BY <1>4, <1>5, <1>6, <1>7, <1>8, <1>9, <1>11, Zenon

-----------------------------------------------------------------------------
(* A behaviour gives one input *)

\* Whatever is given is one of the inputs, of a decision or of a format.
DecisionInv ==
  /\ form = "address" => given \in Addresses
  /\ form = "key" => given \in KeyBytes
  /\ form = "resolution" => given \in Resolutions
  /\ form = "bundle" => given \in Bundles
  /\ form = "request" => given \in Requests
  /\ form = "command" => given \in CommandLines
  /\ form = "log" => given \in LogFields
  /\ GivenInv

\* That invariant holds.
LEMMA DecisionsAreGiven == DecisionSpec => []DecisionInv
<1>1. Init => DecisionInv
  BY DEF Init, DecisionInv, GivenInv
<1>2. DecisionInv /\ [DecisionNext]_<<form, given>> => DecisionInv'
  <2> SUFFICES ASSUME DecisionInv, [DecisionNext]_<<form, given>> PROVE DecisionInv'
    OBVIOUS
  <2>1. CASE UNCHANGED <<form, given>>
    BY <2>1 DEF DecisionInv, GivenInv
  <2>2. CASE FormatNext
    BY <2>2 DEF DecisionInv, GivenInv, FormatNext, Give, GiveBinary, GiveText, GiveValue, GiveInput, GiveRaw, GiveDer, GiveDescriptor, GivePayload, GiveEnvelope
  <2>3. CASE GiveAddress \/ GiveKey \/ GiveResolution \/ GiveBundle
    BY <2>3 DEF DecisionInv, GivenInv, Give, GiveAddress, GiveKey, GiveResolution, GiveBundle
  <2>4. CASE GiveRequest \/ GiveCommand \/ GiveLog
    BY <2>4 DEF DecisionInv, GivenInv, Give, GiveRequest, GiveCommand, GiveLog
  <2> QED BY <2>1, <2>2, <2>3, <2>4 DEF DecisionNext
<1> QED BY <1>1, <1>2, PTL DEF DecisionSpec

\* However evidence is addressed, labelled or named, it is verified as what it shows or not at
\* all: for every request, and for every command line over every disk.
THEOREM RoutesDoAgree == DecisionSpec => []RoutesAgree
<1>1. DecisionInv => RoutesAgree
  <2> SUFFICES ASSUME DecisionInv PROVE RoutesAgree
    OBVIOUS
  <2>1. ASSUME form = "request" PROVE Shell!RouteAgrees(given)
    <3>1. given \in Requests
      BY <2>1 DEF DecisionInv
    <3>2. IsRequest(given)
      BY <3>1, ArgumentsAssumption
    <3> QED BY <3>2, RequestsAgree
  <2>2. ASSUME form = "command" PROVE Shell!CommandAgrees(given[1], given[2], Files)
    <3>1. given \in CommandLines
      BY <2>2 DEF DecisionInv
    <3>2. given[2] \in Seq(ToSet(given[2])) /\ \A argument \in ToSet(given[2]) : IsArgument(argument)
      BY <3>1, ArgumentsAssumption
    <3>3. \A name \in DOMAIN Files : IsFile(Files[name])
      BY ArgumentsAssumption
    <3> QED BY <3>2, <3>3, CommandsAgree
  <2> QED BY <2>1, <2>2 DEF RoutesAgree
<1> QED BY <1>1, DecisionsAreGiven, PTL

\* The observability logger writes no secret and the status logger none but PINs,
\* judged by one list: for values nested to any depth, with any keys.
THEOREM LogsAreSafe == DecisionSpec => []LogsCarryNoSecrets
<1>1. DecisionInv => LogsCarryNoSecrets
  <2> SUFFICES ASSUME DecisionInv, form = "log" PROVE Logs!WritesNoSecrets(given)
    BY DEF LogsCarryNoSecrets
  <2>1. given \in Logs!LoggedFields
    BY ArgumentsAssumption DEF DecisionInv
  <2> QED BY <2>1, LogsAreClean
<1> QED BY <1>1, DecisionsAreGiven, PTL

\* What the formats promise holds in the same behaviours.
THEOREM FormatsHold == DecisionSpec => [](Base45IsABijection /\ CborIsDeterministic /\ SignatureFormsAgree /\ ProfileIsFaithful /\ SignatureCoversTheSeal)
<1>1. DecisionInv => GivenInv
  BY DEF DecisionInv
<1> QED BY <1>1, TextsAgree, ValuesAgree, FormsAgree, ProfilesAgree, EnvelopesAgree, DecisionsAreGiven, PTL
=============================================================================
