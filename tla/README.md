# Credaryn in TLA+

Credaryn issues and verifies business documents: a PDF carries a PAdES signature made by a DSS sidecar, a printed page
carries a paper seal (COSE over CBOR, shown as a QR code), and one verification gives a verdict on either, with an
optional lifecycle status of the document. This directory holds specifications of the parts of Credaryn that keep state
across calls or that run concurrently, and of the functions that make a seal and read it; the TLC models that check
them; and TLAPS proofs of their main properties.

Every definition is translated from the TypeScript, Java or SQL under `src/`; `PROJECT.json` ("map") names the lines.
Operators introduced by a comment `Mutant:` are plausible bugs. No specification uses them: each is a variant of the
definition that follows it, put in its place to make sure that a property notices.

## 1. The system

| Part | State it keeps | Operations | Talks to | What is hard |
|---|---|---|---|---|
| Status service (`services/status`) | append-only history per document, in memory or PostgreSQL; an availability flag; open handlers | transition, get, setAvailable, start, close | clients, PostgreSQL, a clock | read, decide, append with awaits in between; replicas and clocks; database errors; crash, restart, shutdown |
| Status resolver (`services/status/status-resolver.ts`, `verifier/status.ts`) | none | one bounded GET after a verdict | status service | late, missing, stale or malformed answers that must not touch the verdict |
| Key lifecycle registry (`core/key-lifecycle.ts`) | a map of key records | authorize, activate, retire, revoke, compromise, list | operators | long sequences of legal calls; handing over between keys |
| SDK issuance (`node/credaryn.ts`, `paper/encode.ts`) | nothing but locals across awaits | createPaperSeal, sealPdf, verify* | registry, signer, sidecar | check now, sign later; key identity with and without a version |
| Signing providers (`providers/*`) | cached key info | getKeyInfo, sign | KMS, HSM, key file | stale cache, failing calls |
| PDF engine and DSS sidecar (`packages/pdf`, `adapters/pades-dss`) | sidecar configuration; its queue, four threads, one monitor | sign, verify, probe, health | each other over HTTP, a TSA | timeouts, two opinions of who the signing key is, a pool that is used up, restarts |
| Trust policy and trust store (`core/trust-policy.ts`, `verifier/trust-store.ts`) | two memories of fetched keys, shared by all verifications | resolve, isTrusted, resolveByFingerprint | did:web resolver | a memory written by one verification and read by another; outages |
| Verification and verdict (`verifier`, `paper/verify.ts`, `paper/cose.ts`, `core/verdict.ts`) | locals across awaits | verifyInput | trust store, sidecar, status resolver | decisions on a key that another call has since replaced |
| Verifier web service (`apps/verifier-web`) | rate-limit buckets; per request a body, two timers, a pending verification | handle, close | verifier | callbacks in any order, late results, stalled clients |
| Admin service (`apps/admin`) | status repository, audit sink, cached key set | session, transition, lookup, signing authorisation | identity provider | change stored, audit failed; tokens of a withdrawn key |
| Playground (`apps/playground`, `examples/invoice-puppeteer`, `packages/pdf`) | one session, files | generate, tamper, verify | pipeline, sidecar | session read before an await, written after it; a stage that fails |
| Browser printing (`packages/web`) | seals and style in the page | preparePrint, prepareAndPrint | issuing service | answers that overtake each other; nested targets |
| Verifier page (`verifier-web/src/ui`) | camera stream, detection interval, buttons | start, stop, scan, photo, form | verifier web service | late permissions, detections and photos |
| Codecs (`packages/paper`: Base45, CBOR, COSE, profile; `providers/aws-kms`: DER) | none | encode, decode | - | numeric edges; two sides with different rules |
| Descriptors (`core/validate-descriptor.ts`) | none | validateDescriptor | - | what the issuer accepts and the verifier does not |
| Command line (`cli/credaryn`) | none | verify, paper inspect, seal pdf, key inspect, dev-ca init | verifier, SDK, disk | two scans of one argument list; input errors and other errors |
| Observability (`services/observability`, `status/logger.ts`) | none | log, createCorrelationId | - | secrets nested in fields; two loggers |
| TrustVC adapter, examples, scripts, deployment | none that matters here | - | - | - |

How the parts meet. The *registry* is read by *issuance* before it calls a *provider* or the *sidecar*. A verification
asks the *engine* (PDF) or decodes a seal (paper), resolves the key through the *trust store*, checks the signature, asks
the store again whether the key is trusted, forms the *verdict*, and then asks the *status service*. The *verifier web
service* runs verifications under a deadline; the *SDK* also adds the registry's state of the key to a result.

What makes the parts correct, in one line each:

- status service: a document is issued first, closed at most once, and what was acknowledged is kept;
- registry: one signing key per issuer, and an ended key never signs again;
- issuance: a seal is made with a key that may sign;
- trust store: trust rests on a configured, anchored or accepted key, not on what another call left behind;
- engine and sidecar: what the client is told of a signature is true of the PDF, and health is answered;
- did:web and bundles: a key is trusted as it was published, however its text is written;
- verification: a valid verdict means a genuine artifact, and status never changes it;
- verifier service: one reply per request, always, and about the whole body; limits hold;
- admin service: a change is authorised, and audited or reported as failed;
- playground: what is verified is one generation that was signed with its seal in place;
- printing: a printed page shows the seal of its own descriptor;
- verifier page: a camera that the page shows as off is off;
- codecs: a seal reads back as what was sealed, and nothing is read that could not have been sealed;
- routes and commands: evidence is verified as what it shows or not at all;
- logs: no secret is written (the status service's logger writes PINs, section 4).

`PROJECT.json` lists the hazards of this code line by line, each with the properties that cover it.

## 2. Modules

| Module | Models | Runs / proofs |
|---|---|---|
| `StatusHistory` | what the status service promises of a document (abstract) | `KeepsPromise` |
| `StatusService` | handlers, repositories, clocks, processes of the status service | 3 runs; `StatusServiceProofs` |
| `StatusLookup` (extends `StatusService`) | the status check of verifications against that service | `status_lookup`; `StatusServiceProofs` |
| `KeySuccession` | what the registry promises (abstract) | `KeepsSuccession` |
| `KeyLifecycle` | the registry | through `Issuance`; `IssuanceProofs` |
| `Issuance` (extends `KeyLifecycle`) | SDK calls with signers and sidecar over the registry | 2 runs; `IssuanceProofs` |
| `DssBoundary` | the PDF engine and its sidecar, with the health check | `dss_boundary`; `DssBoundaryProofs` |
| `RateLimiter` | the fixed-window limiter | through `VerifierServer` |
| `VerifierServer` (extends `RateLimiter`) | requests, bodies, timers and shutdown of the verifier service | 1 run; `VerifierProofs` |
| `TrustPolicy` | the trust store and its policy | through `Verification` |
| `Verification` (extends `TrustPolicy`) | concurrent verifications, verdict, status lookup | 2 runs; `VerifierProofs` |
| `Admin` | the admin service over the launcher's repository | `front_ends`; `FrontEndsProofs` |
| `Playground` | the demo server with the PDF pipeline | `front_ends`; `FrontEndsProofs` |
| `PrintPage` | preparing and printing a page | `front_ends`; `FrontEndsProofs` |
| `Camera` | the verifier's page | `front_ends`; `FrontEndsProofs` |
| `Base45` | the text form of a seal | through `Formats` |
| `Cbor` | the binary form | through `Formats`; `FormatsProofs` |
| `DerSignature` | the two forms of a signature, three readers | through `Formats` |
| `CoseSign1` | the envelope: what is signed and what of it is read | through `Formats` |
| `PaperProfile` | descriptor, payload and what a verifier reads of it | through `Formats` |
| `Formats` (extends `Base45`, `Cbor`, `DerSignature`, `PaperProfile`; an instance of `CoseSign1`) | the formats of a seal, one input at a time | `codecs`; `FormatsProofs` |
| `DidWeb` | the did:web resolver | through `Decisions`; `DidWebProofs` |
| `TrustBundle` | loading trust material from disk | through `Decisions` |
| `VerifyRoute` | routes, types, limits and input detection | through `CommandLine` |
| `CommandLine` (extends `VerifyRoute`) | the commands and their exit codes | through `Decisions` |
| `Observability` | the two loggers | through `Decisions` |
| `Decisions` (extends `Formats`; instances of `DidWeb`, `TrustBundle`, `CommandLine`, `Observability`) | what decides on what comes in or goes out, one input at a time | `codecs`; `DecisionsProofs`, `DidWebProofs` |

`MC*` modules give the constants their values; a `.cfg` belongs to each run.

### StatusService

State: `history[d]` is what `repository.history()` would list; `request[q]` and `lookup[g]` are the continuations of the
handlers with the locals they still need; `available` is `StatusService.available`, one per process; `clock[r]` is what
`new Date()` returns in process `r`, and clocks of different replicas are unrelated; `server[r]` follows `close()`.

A transition goes through *receiving* (the body), *reading* (SELECT under way), *deciding* (row arrived), *inserting*
(INSERT under way) and *committed* (stored, reply not sent). The points between are the awaits of
`StatusService.transition`. The check of `available` happens only before the read, as in the code. With
`Persistence = "memory"` stamping and appending are one turn of the event loop and therefore one step; with PostgreSQL
the INSERT may fail, conflict on the primary key `(issuer, document, updated_at)`, be stored although the caller sees an
error, or outlive its process or its connection: `LosesStatement` answers the caller 409 while the statement is still on
its way, and `OrphanInsert` stores it later or never. `current()` is the last row in memory and a row with the greatest
`updated_at` in PostgreSQL. Every error of a transition other than unavailability is answered 409, and so it is here.

In memory the awaits are promise continuations only, so HTTP requests, which arrive by I/O events, do not interleave
inside a transition; concurrent calls on one `StatusService` object do, and the model allows what they can do.
Requests the handler refuses before any await (token, size, JSON, fields)
are one action, `Refuse`, which changes nothing but the reply.

`MaxFaults` bounds database errors, outages, shutdowns and crashes together; `MaxTime` bounds the clocks.
`Serialized` restricts the clients, not the service: a client then waits for every transition of a document that is in
flight, and for every INSERT that may still be stored after its process died or its connection broke.

### StatusLookup

The composition of verifications with `StatusService`. `check[g]` is one run of `applyStatusResolver()`: `Ask` picks the URL,
`Arrive` is the moment the GET reaches a replica, from which on it is a `lookup` of `StatusService`, and `Receive` and `Abort`
are how the client sees it end. The service takes its own steps in between (`ServiceStep`), outages, restarts and shutdown
included. `held` collects the states that the service held for the document since the check began; it is what the
property compares the reported state with. `Verification` keeps its small abstract service, because there the
question is the verdict, not the state.

### KeyLifecycle and Issuance

Every registry method is synchronous, so a call is one action; a call that throws changes nothing and is no action.
`order` is the insertion order of the `Map`, which `list()` exposes and a verification depends on.

In `Issuance` each `await getKeyInfo()` and each `await sign()` is a point where operators may call the registry. A paper
call passes *checking*, *encoding*, *heading* and *signing*; a PDF call passes *checking*, *posting* and *signing*. A call whose provider
or sidecar fails to answer is *abandoned*: its caller is told of a failure, and the signature may be made all the same
(`SignsLate`, *late*).
`Signed(q)` counts such a signature among those made, so the properties on who signs are about it too. `SameKeyId`
is `sameKeyId()` with its rule for ids without a version; `BareSigners` are the signers whose ids have none. `SidecarSigns`
compares the metadata it got with the sidecar's own configuration. `KeyOf`, the key that a signer has, is a constant: key ids
and versions are immutable (`docs/product-specification.md:1077`, ADR 0003), so the cached info of a signer says which key to ask
the registry for and never goes stale itself; a provider that replaced a key under its id is outside the model. Two history variables, `spent` and `actual`, remember
facts the properties compare with. Two calls of the SDK share
nothing but the registry and the cached key info of a signer; `HealthCheck(s)`, which fills the cache like `getKeyInfo()`, is an
action of its own, so that one call beside it meets everything that another call could do to it.

### DssBoundary

`call[c]` is the client's side (`DssPdfSignatureEngine`, or the `curl` of the container's health check) and `job[c]` the
sidecar's: *queued*, *reading*, *entering* (waiting for the monitor of the engine), *holding*, *answering*. The status of an answer
and its body reach the client apart (`AnswerBegins`, `Answer`): between them the call is *headed*, and a timer or a broken
connection then makes the body unreadable, which `post()` takes for invalid JSON (`dss-engine.ts:98-102`). Under a status of 200 such a
call is *unread*, an outcome of its own here, since a signature exists that nobody received; under 400 or 500 the status
decides, as in the code. A thread is taken for all
but *queued*. Reading ends when the client's bytes are there or its connection breaks, so a stalled client holds a thread
until it gives up. `Stop` breaks every connection, `Start` may come with another configuration. A probe or a health check
is sent in one piece and has no timer. `job[c].made` is a history variable: the signature that was made for the call.

### RateLimiter and VerifierServer

`Check(c)` is the limiter's `check()` with pruning, counting, the decision and the cap. The clock is assumed
not to step back. `Arrive` is `handleRequest()` up to its first await; `Data`, `End`, `Break`, `BodyTimeout`, `Answer` and
`ParseTimeout` are the callbacks of `readBody` and `withTimeout`. After a timeout the verification goes on (`work`), and
`Answer` may still settle it. A static file is read asynchronously in the code and is answered within the turn here;
only verification requests have a body; a client that leaves during the verification keeps its connection in the
model until the reply, which makes shutdown wait longer, never shorter. Timeouts are positive and finite.

### TrustPolicy and Verification

The memories `lastResolved` (policy) and `resolved` (store) map a key reference to at most one key info. A key info has
what the decisions look at: its reference, its key pair, the spelling of its certificate fingerprint, whether its
public key is in the encoding `createPublicKey` is asked to load, and where it came from.

A verification is *engine* (PDF at the sidecar), *resolving* (fetch under way), *status* (lookup under way), *done* or
*failed*. Between the resolver's answer and the trust decision the code runs promise continuations only, no I/O, so the
answer, both memories, the signature check and `isTrusted()` are one action (`ResolverAnswers`). Other verifications can
still have written the memories before it, and do. Not covered is a resolver that settles two answers within one turn
of the event loop, whose continuations would alternate. What the resolver may answer is anything published while the
fetch was under way, or nothing.

Configured keys are unique per reference, since `resolve()` takes the first. `maxCacheAge` is never set by the store, so
the policy's cache freshness is always `FRESH` and is left out. A verifier without a status resolver
answers what this one answers when the status service is unavailable.

### Admin, Playground, PrintPage, Camera

Four front ends, each a module of its own.

`Admin`: an `operation` is one run of `handle()`. It waits for the provider's keys (*fetching*), the body (*reading*) and the
repository (*storing* and *stored*, or *looking*). `Decide` is everything between the keys and the next await. The key set is
jose's: one fetch for all that wait, fresh for `CacheMaxAge`, not repeated within `Cooldown`. A fetch is asked for, answered by
the provider with what it serves then, and arrives up to `FetchTimeout` after it began, when its age starts to be counted
(`jwks.ts:74`, `:106`); a key that was withdrawn on the way is cached as fresh, so the bound that `ChangesAreAuthorised` states is
`CacheMaxAge` and the time of a fetch. A request that is answered before
its first await is `Turn`; what may fail later, the repository and the audit sink, is `Fail`. `changed` and `servedUntil` are
history variables.

`Playground`: a `demo` call is one run of `handleRequest()`. Generating passes the stages of `createPdfPipeline()` and writes
files in parallel (two of the six stand for all). `session` says of which generation each of its parts is; tampering and
verifying work on the session they captured when they began. The renderer's output may lack the marker that
`placePaperSealBeforeSigning()` asks for.

`PrintPage`: `seals[t]` is what was appended to element `t`; `Inside` is the nesting of elements. An answer is handled in one
step, because nothing but promise continuations runs between `injectSeal()` and `print()` of `prepareAndPrint()`. Printing
a prepared page later is an action of its own.

`Camera`: each click on "Start camera" has a stream and an interval of its own name. `activeStream` and `scanTimer` are the two
variables of the page, which the next start overwrites. A tick of the interval starts a detection, whose end is `Found` or
`NotFound`, whenever it comes.

### The functions: Formats, Decisions, Base45, Cbor, CoseSign1, DerSignature, PaperProfile, DidWeb, TrustBundle, VerifyRoute, CommandLine, Observability

These are functions, and there is no system around them: a behaviour chooses one input, which the invariants
speak about. `Formats` does so for the five formats that a seal goes through, and `Decisions`, which extends it, for resolved keys,
bundles, requests, command lines and logs; both have the sets of inputs as constants and are what is proved about. `MCCodecs`
says which inputs TLC tries. A Base45 character is its index in the alphabet, a byte a number.

`Cbor` takes the first number that does not
fit in the first byte (`Inline`, 24 in the code) as a parameter and derives the rest, including the size of a byte, so
that all four forms of a number fit in a small instance; texts are sequences of units with one byte order mark among
them. The recursion of `encodeValue` and `readValue` is a function of the depth: `Encoded[d]` is what is written of each value that
nests at most `d` deep, and the reading of depth `d` says for each place of the input what is read of a value there, both
made of the one of the depth before. An array or a map is written from the row of its items, and `InOrder`, the result of the
sort in `encodeMap`, is stated by what a sort guarantees: the i-th entry is the one with `i - 1` smaller keys.

`DerSignature` has the width of the numbers as a parameter, and bytes as they are. In `PaperProfile` texts are the
classes that the code distinguishes (blank, padded, a URL of some kind, ...).

`CoseSign1` has a header map as a function from labels and a signature as the key and what it was made over. `DidWeb` takes a
DID as split at its colons, the address rules byte by byte (an IPv6 text is a sequence of its numbers and separators), the
text forms of keys, and a *world*: what a name resolves to and what a URL serves. `Reserved4`, `Reserved6` and `Spellings` are
reference definitions, stated as blocks and bit counts: the scopes that have to be refused in any case. `Public6` says
independently of the code's list what is public: global unicast without the blocks kept for protocols and
documentation, and an address that carries an IPv4 address in any of four forms is what that one is. By
`AddressIsJudgedByNumber` what is reserved is refused and what is public is not; what is neither passes (section 4). In `TrustBundle` a file
is its parts, each absent, no array, or entries of which some are bad. `VerifyRoute` has a body as what its bytes show and
how long it is, and a request with its fate: a verdict, a verification that throws (500) or is late (504), a body that stalls
(408) or breaks off (400). `CommandLine` puts the arguments, the disk and the exit codes around it; `InputFault` says on its
own what a fault of the input is. `Observability` has its own reader of
what is exposed, which judges both loggers by one list of secrets (`SecretKeys`); a logged value nests at most `LogDepth` deep, for any `LogDepth`, and both are functions of the depth. A result that may be missing is a set of at most one.

## 3. Runs

| Run | Expect | What it shows |
|---|---|---|
| `status_replicas` | pass | two racing transitions and a lookup, two replicas, PostgreSQL, two faults: types, `IssuedFirst`, `AcknowledgedIsStored`, `AcknowledgedIsVisible` |
| `status_serialized` | pass | three serialized transitions and a lookup, one fault, weak fairness: the service implements `StatusHistory`; a closing that was acknowledged is visible; every accepted transition ends; `close()` completes |
| `status_lookup` | pass | two verifications that ask a service in which two transitions, an outage and a restart take place: a reported state was held during the check |
| `status_final` | violation | racing transitions record something after a closing record |
| `issuance` | pass | a call and a verification beside operators and health checks, three versions of a key and a second issuer: only once-active keys sign, ended keys stop, the reported state is the key's, withdrawal is final, and the registry implements `KeySuccession` |
| `issuance_bare_keys` | violation | key ids without a version let a retired key sign |
| `verifier_service` | pass | four requests of two clients, all callback orders, shutdown: replies, bursts, refusals, liveness |
| `verification` | pass | two verifications over one trust store, seven artifacts, four answers of the resolver, two changes by issuers |
| `verification_did_web` | violation | a genuine seal of a did:web issuer is INVALID |
| `dss_boundary` | pass | three calls on a sidecar with two threads, with timeouts before and during the answer and a restart with another configuration: what the client is told is true, every signature counts, the health check is answered |
| `front_ends` | pass | each front end by itself: two admin requests, four of the demo, three print preparations, three camera starts with two pieces of evidence |
| `codecs` | pass | every function on correct and malformed inputs on both sides of its boundaries |

### Bounds

- *Status*: a lost update needs two requests, a resurrection (closed, then ACTIVE again) three; a stale read needs two
  replicas with different clocks, which `MaxTime = 1` gives; two rows with one timestamp need one tick; a crash that leaves an
  orphan and a second fault need `MaxFaults = 2`. `MaxAge = 0` makes a record stale one tick later.
- *Status lookup*: two transitions are an issuance and a closing, so that a check can begin before, between and after them;
  two checks of one document show that nothing is carried from one to the other; two faults are an outage and a restart.
- *Issuance*: three versions of the keys allow a hand-over, a second one and a reactivation, and put a call on each side of a
  rotation; the second issuer shows that `activate()` leaves other issuers alone. `SidecarKey` is the second version, so a PDF
  call of the first version meets a sidecar that has moved on. One call is enough beside `HealthCheck` (section 2). One
  public material: that a key keeps its own is proved (`IdentitiesAreImmutable`).
- *DSS boundary*: two threads and three calls use up the pool and leave one call queued; one of the three may hold the monitor while
  another waits for it. One restart makes every configuration follow every other. The health check
  is queued behind a stalled body and a wait for a timestamp, or behind two bodies.
- *Verifier service*: `Limit = 2`, `Window = 2`, `MaxTime = 3` contain the end of one window, the boundary, and the next
  window; one tracked client of two makes every other admission evict a bucket; bodies of up to two chunks against a
  limit of one are within, at and above it. One of the four requests verifies: handlers share nothing but the limiter
  and the process, both of which the other three exercise.
- *Status, serialized*: three transitions are an issuance, a closing and a refused one; `MaxTime = 2` lets two of them share a
  timestamp and the third differ. Only one may be in flight, so the liveness properties are checked there without races;
  a transition shares nothing with another that could make it wait.
- *Verification*: the shared state of verifications is one entry per reference, so two of them suffice to interfere on it;
  two changes allow a key to be published, replaced or withdrawn while a fetch is under way.
- *Front ends*: the four share nothing, so that the variable `part` chooses one and their states add up. Two admin requests
  can share a fetch and interleave at every await; the asks are administrators with either key and two lifetimes, and one
  request for each reason to refuse; `AdminEnd = 5` lets a token expire and a key set go stale after a rotation, and `FetchTimeout = 1`
  a key be withdrawn while its set is on the way. Four calls of
  the demo are two generations, a tampering and a verification. Three preparations over a page and a box inside it
  overtake each other in both. Three starts of the camera are one pending, one active and one overwritten.
- *Codecs*: Base45 inputs contain every character in texts of up to three, and the boundaries 44/45, 255/256 and 65535/65536 in
  longer ones; CBOR inputs contain the numbers next to every boundary, all first bytes that matter, and one more of
  every limit; signatures the bytes 0, 127, 128 in all places and lengths in all forms; descriptors one deviation at a time, and
  all pairs of claims; envelopes every header set over the reserved labels and one other; addresses both sides of every
  block, in every spelling; keys of up to three bytes around the digits of base 58; documents of up to two methods; bundles of
  up to three files at the limits; requests every combination of route, type, origin and body at each limit, and every
  fate; argument lists with
  every option before and after the input and twice; log fields three deep.

Symmetry is used in `status_replicas` (requests, replicas), `status_lookup` (requests, lookups) and `verification`
(verifications), where nothing distinguishes the permuted values and no liveness is checked.

Deadlock is not checked: in every instance the calls, faults or inputs are used up some time and the system then stops.
That nobody waits for ever is what the liveness properties say.

### Fairness

`FairSpec` of the status service: an accepted handler goes on (the event loop runs callbacks; the database answers a query
or fails it), and `close()` continues once `server.close()` has called back. Nobody has to call, to shut down or to restart.
`FairServerSpec` of the verifier service: its own timers fire, Node cuts a connection whose request stays incomplete (its
`requestTimeout`, on by default), and `close()` continues. A client need not send and a verification need not
settle: `RequestsAreAnswered` and `ShutdownCompletes` hold without them.
`DssFairness` of the sidecar: a free thread takes the next exchange, the monitor goes to one of those who wait when it is
free (not to each of them: a `synchronized` method is not fair), work in the engine ends (a TSA that does not answer is cut
by its client), and the caller's timer fires. No client need ever send the rest of its body.

## 4. What the runs show

**Holds.** Without restriction on the clients: no document is closed that was not issued; every 201 is durable; a later
lookup never behaves as if the document were unknown; the memories of the trust store agree
at every step; the sharing of `lastResolved` between verifications never gives a decision about another key than the
one just resolved; a configured key works offline whatever was fetched before. A verifier admits at most `2 * limit - 1` requests
of a tracked client in any span of one window. A state that a verification reports was held by the service while it asked.
A signing call that was accepted has the signature it asked for, and one that was told failed or refused by the sidecar has none; one whose
answer could not be read has one that nobody received, and one that timed out may have one. The health
check waits for stalled clients at most as long as their timers. A seal's envelope can change only where nothing is read. No
spelling of an address, a key or a key id changes what it means. The routes, the content types and the command line agree on
what a body is.

**Holds only for disciplined clients.** `ClosureIsVisible` and `KeepsPromise` need one clock and serialized transitions:
the service itself does not serialize them.

**Does not hold** (`findings` in `PROJECT.json`, each with a run):

1. Closure is final (`status_final`). `transition()` has no lock and no condition on the row it read. Two issuances and a closing
   can all be accepted, and the document is ACTIVE again.
2. Ended keys do not sign, unless key ids name the version (`issuance_bare_keys`): without it the signer of a retired
   version passes the check of its successor.
3. A seal of a did:web issuer that publishes a JWK is INVALID (`verification_did_web`): the resolver returns a raw point, and
   the signature check loads SPKI DER.

**Observed while modelling, without a run of their own.** The first three are differences between code and documentation which
a property of `codecs` names and excepts.

- Addresses: the comment at `trust-policy.ts:246` asks that every address of a did:web host be a public unicast address.
  `isPrivateIpv6()` (`:440`) refuses a list of blocks and lets all else pass: IPv4-compatible (`::10.0.0.1`) and site-local
  (`fec0::/10`) addresses, private IPv4 addresses in NAT64 (`64:ff9b::/96`) or 6to4 (`2002::/16`) form, and blocks that are not
  allocated. In the model, an address that is neither `Reserved6` nor `Public6`; the run's inputs contain each of these.
- Exit codes: `README.md:427` says 2 is an input error. `credaryn seal pdf` with a descriptor that is JSON and not valid exits
  with 1 (`seal-pdf.ts:15`), as it does with an empty PDF; the same descriptor given to `verify` exits with 2. Of the other commands
  the statement holds (`CommandAgrees`).
- Logs: `docs/privacy/retention.md:5` says that logs omit PINs. The pattern of the status logger (`logger.ts:30`) lacks them, where
  the one of `services/observability` has them. No code of the status service logs such a field.
- `revoke()` after `compromise()` replaces COMPROMISED by REVOKED (`core/src/key-lifecycle.ts:177`);
  `docs/key-management/rotation.md:8-11` describes the two as different ends. `WithdrawnStaysWithdrawn` says what holds.
- `current()` in PostgreSQL is the record with the latest `updated_at` (`status-repository.ts:88`), not the one appended
  last (`:29-30`). The two differ under clock skew.
- A key id without a version exposes the state of the first listed version (`credaryn.ts:172-175`).
- A PDF verification exposes no lifecycle state: the sidecar reports the certificate fingerprint as the key id.
- `trustSource` is fixed per store (`trust-store.ts:230-239`), where `README.md:92` speaks of the trust method used.
- The search by fingerprint covers every remembered key, also of another issuer or already withdrawn
  (`trust-store.ts:96-106`). `TrustIsGrounded` states what is left: the key was accepted once, and the seal claims it.
- A claimed fingerprint that is spelled differently from the key's, or that a did:web key lacks, makes the seal INVALID
  (`paper/src/verify.ts:63-79`).
- `README.md:121` says that cryptographic validity does not depend on network access; a seal whose key cannot be
  fetched is UNVERIFIABLE (`cose.ts:172-173`).
- The store trusts an anchored key whatever its address; the policy asks for https.
- Issuance: the check and the signature are some awaits apart (`credaryn.ts:75`), so a key may end in between and still sign;
  `credaryn.ts:42-43` says "only keys whose registry record is ACTIVE may sign". What does hold is `SignedByOnceActive` and
  `EndedKeysDoNotSign`. `createPaperSeal` validates the descriptor with the currency rule before it awaits and
  `encodePaperSeal` validates it again without, so a descriptor that its owner changes meanwhile escapes the rule.
- Codecs: the decoder accepts maps with unsorted entries (`docs/threat-model/credaryn-v1-v2.md:22` says that non-canonical
  encodings are rejected), and `cose.ts:176` re-encodes the protected headers, so a genuine signature over unsorted
  headers is INVALID. `TextDecoder` strips a leading byte order mark, so such a text does not survive a seal, and neither
  does a claim named `__proto__` (assigned into `{}` in `readClaims`). `-1 - MAX_SAFE_INTEGER` can be read and not written. A DER signature of
  exactly 64 bytes is taken for raw (`cose.ts:258`). The provider's strict reader accepts lengths in more bytes than needed
  (`providers/README.md:21` says canonical DER). A seal made in "development" with a local status URL is unreadable, because
  `decode.ts:99` validates by the rules of production.
- COSE: `cose.ts:176` encodes the decoded headers outside its `try`; a header with the integer -2^53 can be decoded and not
  encoded, and throws instead of being INVALID. A key id that starts with a byte order mark is read without it, so that a seal
  made under it does not verify under itself (`CoversTheSeal` takes ids without).
- Trust material: of two keys with one reference in a bundle the first counts, in the order of the directory, where `TrustPolicy`
  assumes that there is one. A did:web method whose id has no fragment is found only by that bare id. An IPv4 literal with
  a port is taken for a name and then judged against the allowed domains.
- Sidecar: a probe that is not JSON closes its connection without an answer (`DssBoundaryApplication.java:79`, nothing catches it),
  where other routes answer 400.
- Command line: `verify x.pdf --descriptor` reads the descriptor and compares nothing (`verify-input.ts:59`).
- A signing call whose answer breaks off after its status is told as an invalid answer, though the sidecar signed
  (`dss-engine.ts:98-102`): to its caller it looks like a failure.
- Verifier page: the service worker answers GETs from its cache first, so a page may be older than its service.
- Admin: the session and signing routes do not check the expiry strictly, only within jose's tolerance. A change can be stored,
  answered 500 and missing in the audit trail. A request whose connection breaks during authentication never settles
  its body. A body `null` of the signing route gives 500. The launcher's repository has no transition rules.
- Playground: tampering that ends late replaces a newer generation. After a failed write the files are of another
  generation than the session, and the other writes of the failed request go on. `createInvoiceArtifacts` ignores the
  outcome of its own two checks.
- Printing: `print()` of a prepared page prints whatever seal is there by then; a seal placed in a nested element leaves the
  one of the outer element.
- Camera: starting twice while the browser asks for permission leaks a stream and an interval, which is why
  `StoppedCameraIsOff` excludes it (`overlapped`). Several detections in flight submit one code several times, and a late one
  stops a newer camera. Results are shown in the order of the answers. The failure of a scanned submission is not
  shown (`app.js:146`), although the camera is off.

## 5. Proofs

The theorems hold for all values of the constants that satisfy the named ASSUMEs of the modules. Each rests on an
inductive invariant whose preservation is proved action by action, mostly through one lemma per kind of record, so
that an action that writes one record is a single citation.

**StatusServiceProofs.** `TypeCorrect`, `HandlersAreServed`, `IssuanceComesFirst`, `AcknowledgementIsDurable`,
`AcknowledgementIsVisible`, `ReportsWereHeld`, and for serialized clients `ServiceKeepsItsPromise`, `ClosuresAreVisible` and
`SerializedClosureIsFinal`. (The module extends `StatusLookup`, and so `StatusService`.)
The types are inductive once it is known that a handler past the stamp holds a record. `ServedByLiveReplica` is inductive
with the types. `IssuedFirst` is not inductive: an INSERT under way must not be able to store a closing record into an
empty history. The strengthening (`Grounded`) says that a handler that saw a record, or that is about to insert a closing
one, has a document whose history is not empty. It needs `ServedByLiveReplica`: the in-memory history is emptied by
a restart, and no handler survives that. `AcknowledgedIsStored` is strengthened to the phase before: the record
of a committed request is stored already. `AcknowledgedIsVisible` adds what each phase of a lookup knows (`VisibleInv`):
with an acknowledgement before it, the history is not empty and the row it read is a row.

`ReportsWereHeld` is about `LookupSpec`. Its invariant (`HeldInv`) says of a check that waits: `held` contains the states that
the service holds now, and the row which its lookup has read, or the answer on its way, shows one of `held`. A step of the service
must therefore be shown to change the states held only where `held` grows along.

`ServiceKeepsItsPromise` is the refinement of `StatusHistory`, a step simulation: an INSERT that stores its record, the one of
a dead process or of a lost connection included, is `Issue` or `Close` of the abstract history, and every other step a stutter. It and the two theorems
after it assume `OneClock`: PostgreSQL, at most one replica (and so one clock), and `Serialized` clients. Their invariant
(`LifecycleInv`) says that a history is empty, an issuance, or an issuance and a later closing; that at most one transition per
document is under way; and that what it has read is still the last row and what it will store continues the history
(`Informed`), which without serialization fails at every await. Run `status_final` shows that `ClosureIsFinal` needs
`Serialized`. `ClosureInv` carries an acknowledged closing on to the lookups that begin after it.

**IssuanceProofs**, on the registry. `RegistryTypes`, `OneSigningKey`, `IdentitiesAreImmutable`, `WithdrawalIsFinal`,
`RegistryKeepsSuccession`. Record types and `OneActivePerIssuer` are inductive together (`RegistryInv`). The refinement maps each
operation to a step of `KeySuccession` or to a stutter: `activate` appoints, `retire`, `revoke` and `compromise` dismiss or
withdraw, depending on the state they find.

On issuance: `OnlyOnceActiveKeysSign`, `EndedKeysStaySilent` and `ReportsNameTheKeysState`, with `BareSigners = {}` as a
hypothesis of the theorems; run `issuance_bare_keys` shows that it is needed. The invariant relates each call to the registry
(`CallOK`): past the check, the signer's key is listed, was activated, and had not ended when the call began; a call
being signed, also of one that its caller has given up, sent the id of its signer; a call that began with an ended key still has one. That a key is
ACTIVE only after `activate()` (`ActiveIsActivated`) makes the check conclusive. For
`PaperStateIsTheKeys` two more invariants follow a seal into its report: payload and header name the key alike
(`SealInv`), and a report has the state which the one record of that name had (`ReportInv`).

**VerifierProofs**, on the verifier service. `ServerTypes`, `MemoryIsCapped`, `RepliedExactlyOnce`, `VerdictsCoverTheBody`, `BurstsStayBounded`,
`RefusalsStayDeserved`. `RequestOK` relates phase,
stream, counters, work and replies of one request; `BucketsAreCapped` uses that the clients are finitely many and
that a check adds at most one bucket before it gives one up. The bounds on bursts and refusals count requests, and the code
has only a counter that starts anew. `WindowInv` ties the two together: a bucket counts what was admitted since it was opened,
in the span that ends with its opening less than `limit` fits (so that two windows make less than twice the limit), and
without a bucket less than `limit` fits in the span that ends now (`WindowOK`, for clients that were never evicted); a bucket
counts nothing but admitted requests until it is full (`DebtOK`, which makes a refusal deserved).

On verifications: `VerificationTypes`, `MemoriesNeverDisagree`, `TrustAlwaysGrounded`, `DecisionsNeverMix`,
`ValidVerdictsAreGenuine`, `OfflineVerification`, `StatusOnlyDescribes`, `RevocationIsReported`. The invariant `VerificationInv` has the types, equality of
the two memories, `MemoryOK` (what is remembered under a reference is of that reference, and if acceptable was recorded
as accepted) and `CheckOK` for every verification that has begun (what a decided one reports follows from the
key it found). The key lemma shows that judging a found key gives a sound record.
`RevokedIsNotActive` needs that a document which was revoked before a check began stays revoked, so that the states the check may
be answered with never come to include ACTIVE (`ClosedInv`).

**DssBoundaryProofs.** `DssTypes`, `CallersAreToldTheTruth`, `ValidIsEverySignature`. `DssInv` relates the two sides of each call
(`CallOK`): as long as the sidecar has not answered no signature was made; at the monitor the key is the configured one, because a
restart ends every job; an answer on its way tells of the signature made (`AnswerOK`), and so does an outcome at the
client (`ToldOK`), be it that the answer was read whole or that it broke off after its status. A call that timed out before that is the
one of which nothing is said. `QueuedOnce` keeps an exchange from being served
twice.

**FrontEndsProofs.** `EveryChangeIsAudited`, `EveryChangeIsAuthorised` (`Admin`), `DemoShowsWhatItAnnounces` (`Playground`),
`PrintedPagesCarryTheirSeal` (`PrintPage`), `StoppedMeansOff` (`Camera`).
The four invariants: `AdminInv`, in which every phase of a request says whether its change took effect and how often the trail has
it, and a request past its authorisation satisfied `LetThrough` when it began, with a key that was served within the last `CacheMaxAge` and the time of a fetch
(whose invariant follows the fetch from the question through the provider's answer to the cache); `DemoInv`,
in which a captured session is one generation that was finished with its seal in place; `PrintInv`, in which a target shows
nothing or the seal of one prepared call for that target, and every print shows what was placed; `CameraInv`, in which, unless
starts overlapped, streams, intervals and buttons agree with the two variables of the page, and no start is pending while a
camera is on.

**FormatsProofs.** `TextsAndBytesAgree`, `ValuesAndBytesAgree`, `SignaturesAgree`, `ProfilesAreFaithful`, `EnvelopesAreCovered`: the five invariants of
`FormatSpec`, for any sets of inputs that satisfy `InputsAssumption`. The invariant is that what was given is one of the
inputs; the substance is in theorems about the functions, for inputs of any length within their limits.

- *Text* (`Base45DecodesBack`, `Base45EncodesBack`, `Base45EndsInNoBlank`). There is no induction: text and bytes are defined group by
  group, so the length lemmas place each index in its group, and the digit lemmas (`Digits`, `Undigits`, `BytesOfWord`, `Unbytes`)
  settle one group. A text ends in the top digit of its last group, at most 32 for two bytes and 5 for one, and the blank is 36.
- *Values* (`ValuesAreReadBack`, `BytesAreWrittenBack`), see below.
- *Signatures* (`SignaturesSurvive`, `ReadersDoAgree`), for numbers of any width up to 60 bytes. The shortest form of a number starts at its least
  nonzero byte, or one before it; the lemmas on `Laid` say at which index of a DER signature each part lies, so that reading
  a number at that index gives it back. That two readers agree is shown from where they look: what one accepts puts both
  numbers where the other looks for them. How a length in several bytes is summed up stays opaque, since it only has to be
  the same for both.
- *Profile* (`DescriptorsSurvive`, `OnlyIssuablePayloadsAreRead`): field by field, for every text class and every map of claims.
- *Envelope* (`SealsAreCovered`): what still verifies has the protected headers and the payload that were signed, and from those
  the key id is read. It needs key ids without a byte order mark, as `InputsAssumption` says; section 4 has what happens with one.

*The binary form.* `ValuesAreReadBack`, `BytesAreWrittenBack`, for every value and every input, and for every layout and limit of
`LayoutAssumption`: at least four numbers that fit in the first byte (two of them are the booleans), a byte of eight types, a largest
integer of at least one byte that fits in eight, any depth, and limits on items and bytes which are integers the code can
count. The numbers of the code (24, 2^53 - 1, 16, 256, 4096) are one instance.

Both theorems are inductions over the depth (`AllAreReread`, `AllAreWritten`). A recursive function is one that some formula
chooses, so it is first shown that there is one (`NestingExists`, `EncodedExists`, `ReadingsExist`), and from there on its equation
is used (`ShapeOf`, `WrittenIs`, `DecodedIs`). What a depth adds is shown in four layers.

- *Numbers* (`BytesOfNumber`, `NumberOfBytes`). Dividing by the size of a byte and adding up again undo each other, step by step. Each form
  holds exactly the numbers from its least one to the least of the next, so that the reader, which refuses a number below that
  (`non-canonical`), and the writer, which takes the first form that fits, choose alike (`FormReadsBack`, `FormsAre`).
- *Heads* (`HeadRead`, `HeadIs`). The first byte gives back its type and its small number, and a head that was read lies
  in the input as it would be written.
- *Rows* (`FlattenIs`, `TrailExists`, `TrailLies`). Items put one behind the other start at places that form a trail; a sequence lies in the
  input where each of its items lies at its place. Hence a row that is read is a row that was written (`RowWritten`) and the reverse
  (`RowIsReread`), if that is so of every item.
- *Maps* (`InOrderIs`, `SortedIs`). The bytewise order is total on different keys, so that the number of smaller keys is a rank
  that no two entries share and that takes every value (`RanksDiffer`, `RankOfSome`); a row in the order of its keys is the only one. The
  reader gives the entries in the order it finds them, which is that of the encoding where the map was (`MapReread`), and the order in
  which a map was built does not show in its encoding (`ReversedIsAlike`).

The conditions of `ReadsBack` and `WritesBack` are the exceptions of section 4: unsorted maps, byte order marks and the lowest integer.

**DecisionsProofs.** `RoutesDoAgree`, `LogsAreSafe`, `BundlesLoadWhole`, and `FormatsHold`, the five invariants above once more, all about
`DecisionSpec`, for any limits (`LimitsAssumption`) and any sets of inputs (`ArgumentsAssumption`, which says what the types of the
code leave possible). The invariant (`DecisionInv`) is again that what was given is one of the inputs.

These functions scan sequences, so that their proofs are inductions over numbers (`Induction`, of `FormatsProofs`). A fold of the
library is a function on the subsets of `1..n` that some formula chooses; `FoldExists` shows that there is one, for any step, and `FoldChain` that its value is the last of a chain of values, one for every element; from there on a fold
is a chain, and what it does is shown along it. Sorting is not met: the positional arguments are a fold.

- *Requests* (`RequestsAgree`): what is verified is what the body shows, by cases over what it shows and what it is declared as; and a
  failure, a late verdict or a body cut off gets the status that tells it, unless the request was wrong already.
- *Commands* (`CommandsAgree`): a command fails exactly when `InputFault` says so, and by the code 2 unless it seals; a command sees of its arguments which files they name, which options they give and whether they are in
  order (`RunDependsOn`). Putting the options first, each with its value, changes none of the three (`GivenBefore`, one option at a time).
- *Logs* (`LogsAreClean`): by the depth of a value. What is written at one depth is of that depth, exposes nothing and is left alone when
  it is written again (`IsClean`), if that is so of the values one depth below. Secrets are those of one list; of the status logger
  the theorem excepts PINs (section 4).
- *Bundles* (`BundlesLoadWhole`): what a directory gives is what its files give, joined; every entry of a file is in it (`FlattenElements`);
  and the file that comes last can only add keys behind those which are there, so that the first key of a reference stays (`KeysKept`).

**DidWebProofs.** `TrustIsAsPublished`, about `DecisionSpec` as well, from the bundles and three theorems on the resolver.

- *Addresses* (`AddressesByNumber`). The code's comparisons refuse the reserved blocks, block by block and byte by byte, and nothing
  that the address plan makes public; that everything else were refused too is false (section 4). Every
  spelling of eight groups is read as those groups: without a gap the groups stand at the odd places (`WrittenReadBack`);
  with one, the gap is the only place with two colons side by side, whose two halves have none (`GappedRead`), and as many zeros
  are put in as were left out; a dotted tail is turned into the two groups that it was made of; a zone is cut off.
- *Keys* (`KeyTextsRead`). Digits in one base stand for one number, and the number gives back its digits, but for zeros in front, which
  are counted. One set of lemmas (`IsBase`) serves base 58 and bytes, and so both directions.
- *Documents* (`ResolutionsAsPublished`). A resolved key is the key of the first method that its id names; if one method has the fragment,
  that is the first, in whichever way the id is written.

Assumptions beyond the sizes of the constants: `OneClock` and `BareSigners = {}` as above, stated with the theorems;
`NoKeyAssumption` and `NothingAssumption` (a placeholder is not a key, or a start); `InputsAssumption` and `ArgumentsAssumption`. Each
holds in its runs, where TLC evaluates those that are ASSUMEs.

Several theorems are about parts that no run states by themselves any more, since a theorem says more: `HandlersAreServed`,
`OneSigningKey`, `IdentitiesAreImmutable`, `MemoryIsCapped`, `VerdictsCoverTheBody`, `MemoriesNeverDisagree`, `StatusOnlyDescribes`,
`DssTypes`.

**Only model-checked.**

- Liveness, which with ENABLED is beyond the proof system as installed: `RequestsEnd`, `ShutdownEnds`, `RequestsAreAnswered`,
  `ShutdownCompletes`, `HealthIsAnswered`.

## 6. Not modelled

The bytes of UTF-8, QR images and JSON; cookies; the wording and shape of results, reports and errors; static files. The
renderers and their adapters, the widget, the service worker, the page of the demo. DSS itself, certificates and their
times. Spans and the OpenTelemetry tracer: nothing depends on them. TrustVC: sequential calls into credential libraries
that make and check the proofs and keep the bits of the status list. The other examples and the scripts: one sequential
call each into what is modelled.

Abstracted in a module and named there: the opinion on the age of a status, which changes no result; freshness of cached
trust material, which the store never configures.

## 7. Plan

Done: status service and the verifications that ask it; registry and issuance; engine and sidecar; verifier service; trust store
and verification; trust material; front ends; codecs; routes, command line and logs.

Every safety property that a passing run checks is proved, for all values of the constants. What could be added: the bytes of
UTF-8 in `Cbor`, in place of units, so that surrogates that do not pair are covered.
