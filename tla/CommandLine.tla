---------------------------- MODULE CommandLine ----------------------------
(***************************************************************************)
(* The commands of the credaryn program (cli/credaryn/src): what they read *)
(* of their arguments and of the disk, and the code they exit with.  The   *)
(* verifier they ask is the one of VerifyRoute, told no content type.      *)
(*                                                                         *)
(* An argument is an option's name, the name of a file or the text of a    *)
(* seal.  What is found is a set of at most one.                           *)
(***************************************************************************)
EXTENDS VerifyRoute, Sequences, SequencesExt

CONSTANT SmallMax   \* MAX_DESCRIPTOR_BYTES

Named(name) == [option |-> name]
Path(file) == [path |-> file]
SealText(body) == [seal |-> body]
IsOption(argument) == "option" \in DOMAIN argument

Exit(code) == [code |-> code, kind |-> "none"]

-----------------------------------------------------------------------------
(* io.ts *)

\* positionalArguments() throws unless every option is known and has a value.
WellFormed(args, options) ==
  \A i \in DOMAIN args : IsOption(args[i]) =>
    /\ args[i].option \in options
    /\ i < Len(args) /\ ~IsOption(args[i + 1])

\* Those that are neither an option nor its value.
Positionals(args) ==
  FoldLeft(LAMBDA found, i : IF IsOption(args[i]) \/ (i > 1 /\ IsOption(args[i - 1])) THEN found ELSE Append(found, args[i]),
           <<>>, [i \in DOMAIN args |-> i])

\* optionalOption(): the first of the name counts.
OptionOf(args, name) ==
  LET i == SelectInSeq(args, LAMBDA a : a = Named(name)) IN IF i = 0 THEN {} ELSE {args[i + 1]}

\* readBoundedFile(); a seal's text names no file.
Readable(argument, disk, max) ==
  /\ "path" \in DOMAIN argument /\ argument.path \in DOMAIN disk
  /\ disk[argument.path].regular /\ disk[argument.path].size <= max
FileOf(argument, disk) == disk[argument.path]

-----------------------------------------------------------------------------
(* The commands; works: neither the engine, a verification nor the writing of files fails *)

\* loadTrustStore(), of a file or a directory, and readDescriptor(): what fails
\* in either is a fault of the input.
TrustLoads(args, disk) ==
  \A t \in OptionOf(args, "--trust") :
    "path" \in DOMAIN t /\ t.path \in DOMAIN disk /\ FileOf(t, disk).holds = "trust"
DescriptorReads(args, disk) ==
  \A d \in OptionOf(args, "--descriptor") : Readable(d, disk, SmallMax) /\ FileOf(d, disk).holds = "descriptor"

\* readVerificationFile(): the limit goes by the name.
LimitOfName(name) ==
  CASE name.ends = ".png" -> ImageMax [] name.ends \in {".crd1", ".txt"} -> TextMax [] OTHER -> PdfMax

Input(command, argument, disk) ==
  CASE command = "paper-inspect" /\ "seal" \in DOMAIN argument -> {argument.seal}
    [] Readable(argument, disk, LimitOfName(argument.path)) -> {[shows |-> FileOf(argument, disk).shows, size |-> FileOf(argument, disk).size]}
    [] OTHER -> {}

\* runVerify() and runPaperInspect(); the verification of a PDF or of a seal may
\* throw.
Verify(command, args, disk, works) ==
  IF \/ ~WellFormed(args, {"--trust", "--descriptor"}) \/ Len(Positionals(args)) # 1
     \/ ~TrustLoads(args, disk) \/ ~DescriptorReads(args, disk)
     \/ \A body \in Input(command, Positionals(args)[1], disk) : Detected(body).status # "200"
  THEN Exit(2)
  ELSE LET kind == Detected(CHOOSE body \in Input(command, Positionals(args)[1], disk) : TRUE).kind
       IN IF ~works THEN Exit(1) ELSE [code |-> 0, kind |-> kind]

\* runSealPdf(): a descriptor that is JSON and not valid is a failure of another
\* kind.
SealPdf(args, disk, works) ==
  IF \/ ~WellFormed(args, {"--descriptor", "--out"}) \/ Len(Positionals(args)) # 1
     \/ OptionOf(args, "--descriptor") = {} \/ OptionOf(args, "--out") = {}
     \/ ~Readable(Positionals(args)[1], disk, PdfMax)
     \/ \A d \in OptionOf(args, "--descriptor") : ~Readable(d, disk, SmallMax) \/ FileOf(d, disk).holds = "no-json"
  THEN Exit(2)
  ELSE IF ~DescriptorReads(args, disk) \/ FileOf(Positionals(args)[1], disk).size = 0 \/ ~works THEN Exit(1)
  ELSE [code |-> 0, kind |-> "sealed"]

\* runKeyInspect() and runDevCaInit().
InspectKey(args, disk) ==
  IF \/ ~WellFormed(args, {}) \/ Len(Positionals(args)) # 1
     \/ ~Readable(Positionals(args)[1], disk, SmallMax) \/ FileOf(Positionals(args)[1], disk).holds # "certificate"
  THEN Exit(2) ELSE [code |-> 0, kind |-> "inspected"]
InitCa(args, works) ==
  IF ~WellFormed(args, {"--out"}) \/ Positionals(args) # <<>> THEN Exit(2)
  ELSE IF ~works THEN Exit(1) ELSE [code |-> 0, kind |-> "initialized"]

\* runCli(): an error of the input exits with 2, any other with 1.
Run(command, args, disk, works) ==
  CASE command \in {"verify", "paper-inspect"} -> Verify(command, args, disk, works)
    [] command = "seal-pdf" -> SealPdf(args, disk, works)
    [] command = "key-inspect" -> InspectKey(args, disk)
    [] command = "dev-ca-init" -> InitCa(args, works)
    [] OTHER -> Exit(2)

-----------------------------------------------------------------------------
(* Properties *)

\* The options an argument list gives, each once, before what it names.
Plainly(args) ==
  LET given(name) == IF OptionOf(args, name) = {} THEN <<>> ELSE <<Named(name)>> \o SetToSeq(OptionOf(args, name))
  IN given("--trust") \o given("--descriptor") \o given("--out") \o Positionals(args)

\* What is wrong with the input of a command, told by what the command is for and
\* not by what it reads first: an unknown command or option, an option without a
\* value, a file or an option that is missing or one too many, or a file that
\* cannot be read, is too large or does not hold what it is given for.
Commands == {"verify", "paper-inspect", "seal-pdf", "key-inspect", "dev-ca-init"}
Takes(command) ==
  CASE command \in {"verify", "paper-inspect"} -> {"--trust", "--descriptor"}
    [] command = "seal-pdf" -> {"--descriptor", "--out"}
    [] command = "dev-ca-init" -> {"--out"}
    [] OTHER -> {}
ArgumentFault(command, args) ==
  \/ command \notin Commands
  \/ ~WellFormed(args, Takes(command))
  \/ Len(Positionals(args)) # (IF command = "dev-ca-init" THEN 0 ELSE 1)
  \/ command = "seal-pdf" /\ \E name \in Takes(command) : OptionOf(args, name) = {}

Recognised(body) == KindShown(body) # "none" /\ body.size <= KindMax(KindShown(body))
FileFault(command, argument, disk) ==
  CASE command \in {"verify", "paper-inspect"} -> \A body \in Input(command, argument, disk) : ~Recognised(body)
    [] command = "seal-pdf" -> ~Readable(argument, disk, PdfMax) \/ FileOf(argument, disk).size = 0
    [] command = "key-inspect" -> ~Readable(argument, disk, SmallMax) \/ FileOf(argument, disk).holds # "certificate"
    [] OTHER -> FALSE
OptionFault(command, args, disk) ==
  \/ "--descriptor" \in Takes(command) /\ ~DescriptorReads(args, disk)
  \/ "--trust" \in Takes(command) /\ ~TrustLoads(args, disk)

InputFault(command, args, disk) ==
  \/ ArgumentFault(command, args)
  \/ OptionFault(command, args, disk)
  \/ \E i \in DOMAIN Positionals(args) : FileFault(command, Positionals(args)[i], disk)

\* What a command verifies it takes for what its bytes show, as the service's
\* general route does; what that route verifies, it refuses only for its arguments,
\* for a trust bundle or a descriptor that cannot be read, or for a name with a
\* smaller limit.  Neither the order of the arguments nor an option given twice
\* changes anything, although two scans find the files and the options' values.
\* A failure outside the input is never taken for one of the input, and a fault of
\* the input never for a success; every command but the one that seals tells it as
\* what it is, by the code 2.  `seal pdf` exits with 1 for a descriptor that is JSON
\* and no descriptor, where README.md:427 has 2 for every input error.
CommandAgrees(command, args, disk) ==
  LET outcome == Run(command, args, disk, TRUE)
      posted(body) == Response([method |-> "POST", path |-> "/v1/verify", origin |-> "none", type |-> "none", declared |-> {}, body |-> body, fate |-> "verdict"])
      verifies == command \in {"verify", "paper-inspect"}
      sound == WellFormed(args, {"--trust", "--descriptor"}) /\ Len(Positionals(args)) = 1
  IN /\ WellFormed(args, {"--trust", "--descriptor", "--out"}) => Run(command, Plainly(args), disk, TRUE) = outcome
     /\ outcome.code = 2 <=> Run(command, args, disk, FALSE).code = 2
     /\ outcome.code = 2 => InputFault(command, args, disk)
     /\ InputFault(command, args, disk) => outcome.code # 0 /\ (command # "seal-pdf" => outcome.code = 2)
     /\ ~InputFault(command, args, disk) => outcome.code = 0
     /\ verifies /\ outcome.code = 0 =>
          \A body \in Input(command, Positionals(args)[1], disk) :
            outcome.kind = KindShown(body) /\ posted(body) = Verified(outcome.kind)
     /\ verifies /\ sound /\ TrustLoads(args, disk) /\ DescriptorReads(args, disk) =>
          LET argument == Positionals(args)[1]
          IN \A body \in Input(command, argument, disk) : posted(body).kind \in Evidence => outcome = [code |-> 0, kind |-> posted(body).kind]
=============================================================================
