------------------------------ MODULE Decisions ------------------------------
(***************************************************************************)
(* The functions that decide what comes in or goes out: which key of a     *)
(* did:web document or of a trust bundle is trusted, what a request or a   *)
(* command line is verified as, and what a line of the log shows.  A       *)
(* behaviour gives one of them, or of the functions of Formats, one input, *)
(* of the sets that the constants name.                                    *)
(***************************************************************************)
EXTENDS Formats

CONSTANTS
  PointSize, Coordinate, MaxDocument,       \* of a compressed point, a coordinate and a DID document
  MaxFiles, MaxFileBytes, MaxBundleBytes,   \* of a trust bundle
  PdfMax, ImageMax, TextMax, SmallMax,      \* of what is verified, and of a descriptor
  LogDepth, LogKeys                         \* of a logged value

Web == INSTANCE DidWeb
Disk == INSTANCE TrustBundle
Shell == INSTANCE CommandLine
Logs == INSTANCE Observability

ASSUME LimitsAssumption ==
  /\ PointSize \in Nat /\ Coordinate \in Nat /\ MaxDocument \in Nat
  /\ MaxFiles \in Nat /\ MaxFileBytes \in Nat /\ MaxBundleBytes \in Nat
  /\ PdfMax \in Nat /\ ImageMax \in 0..PdfMax /\ TextMax \in 0..PdfMax /\ SmallMax \in Nat
  /\ LogDepth \in Nat

CONSTANTS
  Addresses,     \* IPv6 addresses in groups
  KeyBytes,      \* bytes of public keys
  Resolutions,   \* a DID, a key id, allowed domains and a world
  Bundles,       \* paths of trust bundles
  Requests,      \* to the verifier service
  CommandLines,  \* a command and its arguments
  Files,         \* the disk of a command
  LogFields      \* what is logged

-----------------------------------------------------------------------------
(* What the types of the code leave possible *)

\* What dns.lookup() returns.
IsAddress(address) ==
  \/ address.family = 4 /\ address.octets \in [1..4 -> Byte]
  \/ address.family = 6 /\ address.text \in Seq(Int)
  \/ address.family \notin {4, 6}
IsPage(page) ==
  /\ page.chunks \in Seq(Nat) /\ page.document.methods \in Seq(ToSet(page.document.methods))
IsWorld(world) ==
  /\ \A address \in world.dns : IsAddress(address)
  /\ \A url \in DOMAIN world.pages : IsPage(world.pages[url])

\* A body that is not cut off has the length that is declared for it, when that is
\* a length.
IsRequest(request) ==
  /\ DOMAIN request = {"method", "path", "origin", "type", "declared", "body", "fate"}
  /\ request.type \in Shell!Types /\ request.body \in [shows : Shell!Shows, size : Nat]
  /\ request.fate \in Shell!Fates
  /\ \A n \in request.declared :
       \/ n \in {-1, request.body.size}
       \/ n \in Nat /\ n > request.body.size /\ request.fate \in Shell!Cut
  /\ \A m, n \in request.declared : m = n

IsArgument(argument) ==
  \/ DOMAIN argument = {"option"} /\ argument = Shell!Named(argument.option)
  \/ DOMAIN argument = {"path"} /\ argument = Shell!Path(argument.path)
  \/ DOMAIN argument = {"seal"} /\ argument.seal \in [shows : Shell!Shows, size : Nat]
IsFile(file) ==
  /\ file \in [regular : BOOLEAN, shows : Shell!Shows, size : Nat, holds : STRING]

ASSUME ArgumentsAssumption ==
  /\ Addresses \subseteq [1..8 -> Web!GroupValue]
  /\ KeyBytes \subseteq Seq(Byte) \ {<<>>}
  /\ \A asked \in Resolutions :
       /\ asked[2].base # "" \/ asked[2].fragment # ""
       /\ IsWorld(asked[4])
  /\ \A path \in Bundles :
       /\ DOMAIN path = {"kind", "files"}
       /\ path.files \in Seq(ToSet(path.files)) /\ \A file \in ToSet(path.files) : Disk!IsFile(file)
  /\ \A request \in Requests : IsRequest(request)
  /\ \A line \in CommandLines : line[2] \in Seq(ToSet(line[2])) /\ \A argument \in ToSet(line[2]) : IsArgument(argument)
  /\ \A name \in DOMAIN Files : IsFile(Files[name])
  /\ LogFields \subseteq Logs!LoggedFields

-----------------------------------------------------------------------------
GiveAddress == Give("address", Addresses)
GiveKey == Give("key", KeyBytes)
GiveResolution == Give("resolution", Resolutions)
GiveBundle == Give("bundle", Bundles)
GiveRequest == Give("request", Requests)
GiveCommand == Give("command", CommandLines)
GiveLog == Give("log", LogFields)

DecisionNext ==
  \/ FormatNext
  \/ GiveAddress \/ GiveKey \/ GiveResolution \/ GiveBundle
  \/ GiveRequest \/ GiveCommand \/ GiveLog

DecisionSpec == Init /\ [][DecisionNext]_<<form, given>>

-----------------------------------------------------------------------------
(* Properties *)

\* What a verifier trusts or fetches is what was published: a bundle is loaded whole, a did:web
\* key comes from the issuer's own document, from no host of a scope that has to be refused, and
\* no way of writing an address, a key or a key id changes what it is (trust-store.ts,
\* trust-policy.ts).  A host at any address of the public ones is found.
TrustMaterialIsAsPublished ==
  /\ form = "address" => Web!AddressIsJudgedByNumber(given)
  /\ form = "key" => Web!KeyTextsReadBack(given)
  /\ form = "resolution" => Web!ResolvedAsPublished(given[1], given[2], given[3], given[4], MaxDocument)
  /\ form = "bundle" => Disk!LoadsWholeFiles(given)

\* However evidence is addressed, labelled or named, it is verified as what it shows or not at
\* all (server.ts, verify-input.ts, cli/credaryn/src).
RoutesAgree ==
  /\ form = "request" => Shell!RouteAgrees(given)
  /\ form = "command" => Shell!CommandAgrees(given[1], given[2], Files)

\* However deep a logged value nests, the observability logger writes no secret and
\* the status logger none but PINs (logging.ts, logger.ts).
LogsCarryNoSecrets ==
  form = "log" => Logs!WritesNoSecrets(given)
=============================================================================
