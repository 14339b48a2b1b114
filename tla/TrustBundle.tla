---------------------------- MODULE TrustBundle ----------------------------
(***************************************************************************)
(* Loading a trust bundle (packages/verifier/src/trust-store.ts): a file,  *)
(* or every JSON file of a directory, into the keys, anchors and did:web   *)
(* domains a policy trust store is made of.  An error is the empty set.    *)
(***************************************************************************)
EXTENDS Integers, Sequences, SequencesExt

CONSTANTS MaxFiles, MaxFileBytes, MaxBundleBytes

\* A part of a file: absent, no array, or an array of entries of which some are
\* not what they have to be.
Absent == [absent |-> TRUE]
NoArray == [array |-> FALSE]
Entries(entries) == [entries |-> entries]
Bad == [bad |-> TRUE]
IsPart(part) ==
  \/ part \in {Absent, NoArray}
  \/ DOMAIN part = {"entries"} /\ part.entries \in Seq(ToSet(part.entries))

\* A file on the disk, with what its JSON holds.
Parts == {"keys", "x509Anchors", "didWebDomains"}
IsFile(file) ==
  /\ file.named \in BOOLEAN /\ file.regular \in BOOLEAN /\ file.object \in BOOLEAN /\ file.size \in Nat
  /\ \A name \in Parts \cup {"allowedDidWebDomains"} : IsPart(file.json[name])
  /\ file.json.developmentOnly \in BOOLEAN

-----------------------------------------------------------------------------
\* readKeys(), readX509Anchors() and readDidWebDomains(): all the entries or an
\* error.  A key's bytes have to load as a public key.
ReadEntries(part) ==
  IF part = Absent THEN {<<>>}
  ELSE IF part = NoArray \/ \E i \in DOMAIN part.entries : part.entries[i] = Bad THEN {}
  ELSE {part.entries}

\* The older name of the domains; null is absent here.
Stated(file, name) ==
  IF name = "didWebDomains" /\ file.json.didWebDomains = Absent THEN file.json.allowedDidWebDomains
  ELSE file.json[name]

Readable(file) == file.regular /\ file.size <= MaxFileBytes
ValidFile(file) == file.object /\ \A name \in Parts : ReadEntries(Stated(file, name)) # {}

Named(files) == FoldLeft(LAMBDA found, f : IF f.named THEN Append(found, f) ELSE found, <<>>, files)
FilesOf(path) == IF path.kind = "directory" THEN Named(path.files) ELSE path.files
TotalSize(files) == FoldLeft(LAMBDA sum, f : sum + f.size, 0, files)

\* readTrustBundle()
Bundle(path) ==
  LET files == FilesOf(path)
      part(name) == FlattenSeq([i \in DOMAIN files |-> CHOOSE e \in ReadEntries(Stated(files[i], name)) : TRUE])
  IN IF /\ path.kind # "missing" /\ Len(files) <= MaxFiles
        /\ \A i \in DOMAIN files : Readable(files[i])
        /\ TotalSize(files) <= MaxBundleBytes
        /\ \A i \in DOMAIN files : ValidFile(files[i])
     THEN {[keys |-> part("keys"), x509Anchors |-> part("x509Anchors"), didWebDomains |-> part("didWebDomains"),
            developmentOnly |-> \E i \in DOMAIN files : files[i].json.developmentOnly]}
     ELSE {}

-----------------------------------------------------------------------------
(* createPolicyTrustStore() *)

TrustSource(bundle) ==
  CASE bundle.x509Anchors # <<>> -> "X509_CHAIN"
    [] bundle.x509Anchors = <<>> /\ bundle.keys # <<>> -> "ENTERPRISE_ANCHOR"
    [] bundle.x509Anchors = <<>> /\ bundle.keys = <<>> /\ bundle.didWebDomains # <<>> -> "DID_WEB_DOMAIN"
    [] OTHER -> "UNCONFIGURED"

\* The keys a reference has in the store: the first that was loaded.
ConfiguredKey(bundle, issuer, keyId) ==
  LET i == SelectInSeq(bundle.keys, LAMBDA k : k.issuer = issuer /\ k.keyId = keyId)
  IN IF i = 0 THEN {} ELSE {bundle.keys[i]}

\* Only a store with domains fetches.
HasResolver(bundle) == bundle.didWebDomains # <<>>

-----------------------------------------------------------------------------
(* Properties *)

Alone(file) == Bundle([kind |-> "file", files |-> <<file>>])

\* A directory loads as its files do one by one, in their order, and as nothing
\* else: with every entry of every file in it or not at all; it is for
\* development as soon as one of them is.  A file that is added changes the key
\* of no reference that had one.
LoadsWholeFiles(path) ==
  LET files == FilesOf(path)
  IN \A bundle \in Bundle(path) :
       /\ \A i \in DOMAIN files : Alone(files[i]) # {}
       /\ \A name \in Parts : bundle[name] = FlattenSeq([i \in DOMAIN files |-> (CHOOSE b \in Alone(files[i]) : TRUE)[name]])
       /\ bundle.developmentOnly <=> \E i \in DOMAIN files : \E b \in Alone(files[i]) : b.developmentOnly
       /\ \A i \in DOMAIN files : \A name \in Parts : "entries" \in DOMAIN Stated(files[i], name) =>
            ToSet(Stated(files[i], name).entries) \subseteq ToSet(bundle[name])
       /\ HasResolver(bundle) = (\E i \in DOMAIN files : \E b \in Alone(files[i]) : HasResolver(b))
       /\ TrustSource(bundle) = "UNCONFIGURED" <=> \A name \in Parts : bundle[name] = <<>>
       /\ path.kind = "directory" /\ path.files # <<>> =>
            \A before \in Bundle([path EXCEPT !.files = Front(path.files)]), i \in DOMAIN bundle.keys :
              LET k == bundle.keys[i]
              IN ConfiguredKey(before, k.issuer, k.keyId) # {} =>
                   ConfiguredKey(before, k.issuer, k.keyId) = ConfiguredKey(bundle, k.issuer, k.keyId)
=============================================================================
