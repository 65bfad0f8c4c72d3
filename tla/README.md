# Verification of the NeKiro Go SDK

TLA+ models, TLC runs and TLAPS proofs for the Go code in `agent/` and
`client/`. Line numbers refer to the commit in `src/`.

## 1. The system

The SDK has two sides. An *application* calls agents through the Gateway with
`client`. An *agent* is a managed HTTP process (`agent/host`), that may publish
itself in Nacos (`agent/registration/nacos`), checks the credentials the Agent
Router puts on requests (`agent/routerauth`) and calls other agents through the
Router (`agent/client.go`). The SDK persists nothing; restarts lose all state.

| Component | State | Operations | Hard behaviour |
|---|---|---|---|
| `agent/host` `Host.Run` | local: two result channels, `runErr`, two stop flags, two contexts | start, first `select`, classification, shutdown, drains, deregistration | three goroutines, signals and a deadline race |
| `agent/host` errors | none | `Wrap`, `StageOf`, order in `errors.Join` | which stage the caller sees |
| `nacos.Registration` | `lease` under a `RWMutex` | `Register`, `Run`, `Deregister`, `Ready` | lock held over a network call, lease lost at any time |
| `nacos` config and HTTP client, `routerauth` config, `host.New` | none after construction | `LoadConfig`, `Validate`, `New`, `newHTTPClient`, `readTLSMaterial` | presence and pairing rules; TLS files rotated while they are read |
| `routerauth.ReplayGuard` | `expires` map under a mutex, clock | `Accept` | concurrent copies, purge, expiry boundary |
| `routerauth.Verifier`, `Middleware` | the guard | `Verify`, `Handler` | order of checks, two clock readings |
| `client.Stream` | `sequence`, `terminal`, `finished`, `failure`, `closed`, `closeOutcome`, `bodyClosed` | `InvokeStream`, `Recv`, `Close` | cancellation during a read, early EOF, body closed once |
| `client.Client` | none after construction | `NewClient`, `Invoke`, `do`, error decoding | body ownership on each path, a peer that never ends |
| agent `NestedResultStream` | `sequence`, `invocationID`, `finished`, `closed`, `bodyClosed` | `InvokeStream`, `Recv`, `Close` | errors are not sticky: the consumer may read on |
| agent `Client` | none after construction | `NewClient`, `Invoke`, `routerError` | decision table of status, code, correlation |
| JSON members (both SDKs) | calls of a recursive walk | `rejectDuplicateJSONMembers` | nesting, what follows the value |
| SSE framing (both SDKs) | position in a `bufio.Reader` | `readSSEFrame`, `readSSELine` | slices, limits, resynchronisation after an error |

Interaction: `Host.Run` starts the server and `Registration.Run` in goroutines
and hears from them through channels; `Middleware` calls `Verifier.Verify`,
which calls `ReplayGuard.Accept`, in one goroutine per request; a stream is
used by one consumer and owns its response body; a context may end at any time.
External code (`contracts` and `registry` of NeKiro Core, `net/http`, `bufio`,
`time`) is modelled from its use in `src/` and marked external in the map.

What makes each part correct:

* Host: a published registration is deregistered once on every path; the error
  names what stopped the host; no goroutine leaks or is hidden; Run returns.
* Registration: one lease per `Registration`, closed for good by `Deregister`.
* Replay guard: a credential is granted once in its lifetime, and refused only
  for cause; the map stays small.
* Router authentication: the handler runs once per credential, only for genuine
  requests, and a faulty copy does not use a credential up.
* Streams: the consumer sees a gapless prefix of one invocation's events and is
  told of a complete result only when it has one; the body is closed once.
* Framing: frames are what the peer wrote, however the bytes arrive, also after
  an error.
* Single invocations: an answer is all of a body within the limit and belongs to
  this call; the body is closed once; a typed error is one the platform has; a
  cancelled call returns.
* Startup: a process that comes up uses every variable that it was given, and
  TLS material that is what its paths name.

## 2. Modules

| Module | Models | Extends or instantiates |
|---|---|---|
| `Host` | `Host.Run` and its two child goroutines | |
| `AtomicRegistration` | abstract: each call on a `Registration` takes effect at one instant | |
| `NacosRegistration` | `Registration` under concurrent callers | `INSTANCE AtomicRegistration` |
| `NacosConfig` | `LoadConfig` and `Validate` of the Nacos registration | |
| `AgentStartup` | both configurations, the TLS files, `New` of registration and host | `EXTENDS NacosConfig` |
| `ManagedHost` | startup, then Host with `net/http` and a Nacos lease | `EXTENDS AgentStartup`, `INSTANCE Host` |
| `OneUse` | abstract: what the replay guard promises | |
| `ReplayGuard` | `Accept` step by step | `INSTANCE OneUse` |
| `RouterAuth` | middleware, verifier and guard | `EXTENDS ReplayGuard` |
| `ResultDelivery` | abstract: what a result stream promises | |
| `ClientStream` | `Stream` of `client/stream.go` | `INSTANCE ResultDelivery` |
| `AgentStream` | `NestedResultStream` of `agent/client.go` | `INSTANCE ResultDelivery` |
| `SSEFrame` | `readSSEFrame`, `readSSELine` | |
| `JSONMembers` | `rejectDuplicateJSONMembers` | |
| `UnaryCall` | `NewClient` and `Invoke` of both SDKs, their error responses | `EXTENDS JSONMembers` |
| `MC...` | sets of inputs for TLC | the module of that name |
| `...Proofs` | theorems | the module of that name, `TLAPS` |
| `RouterAuthProofs` | theorems on `ReplayGuard`, `OneUse` and `RouterAuth` | `EXTENDS RouterAuth` |
| `ManagedHostProofs` | theorems on `ManagedHost` and `AgentStartup` | `EXTENDS ManagedHost`, `INSTANCE HostProofs` |

Operators commented as mutants are wrong versions of the definition that
follows them. No specification uses them; `PROJECT.json` names, for each
property, the mutant that violates it.

### Host

`pc` is the control point of the goroutine in `Run`. The goroutines around
`ListenAndServe` and `Registration.Run` are one function over `Child`, since
both only return and send. `held` is the value received by the first select,
kept over the step in which `runContext.Err()` is read, because a cancellation
may fall between (`Classify`). `runErr` is the sequence of staged errors in the
order of `errors.Join`, so that `StageOf` is the stage of its head. A child may
return at any time or never. Not modelled: the nil checks of `Run` and the
stage messages. All callers of `Wrap` pass a valid stage and message.

### NacosRegistration

Every `Caller` makes one call of any kind, in any order. A reader's
`RLock`-read-`RUnlock` reads one field and is one step; `Register` holds the
lock from `Lock` to `Publish`, over the registrar's call. Core's lease is lost
at any time, and its Close may fail and leave it active. Whether a registrar
that was closed still registers is Core's, so both are allowed.

`AtomicRegistration` has no lock, no local copies of the lease and no control
points: a call answers at one instant, on the lease as it is then. The refinement
maps `lease` to what has become of the one lease there is, and `answer` to what a
call is sure of (`Effect`): its result, once it has returned; that there is no
lease, for a reader that has found none; how Close went, for a Deregister that has
yet to close the registrar. So a Register takes effect when the registrar answers,
or when it finds the lease under the lock; a reader takes effect when it reads if
there is no lease, and when it looks at the lease if there is one.

### NacosConfig, AgentStartup

The parts come up as `agent/host/README.md` and
`agent/registration/nacos/README.md` compose them, the host last: the verifier
of `routerauth`, `LoadConfig`, `New` in mode nacos, `host.New`. The order of the
first two is the embedder's; neither looks at the other. A `Deployment` is an environment and the files that its paths name.
An environment gives each variable one of four values, absent, blank (empty or
with surrounding whitespace), bad and good, and the timings numbers, since these
are compared with each other. A `Config` is the set of its nonzero fields and of
the well-formed ones; `Accepts` and `Valid` translate `LoadConfig` and
`Config.Validate` over these sets, so that a check that one of them lacks shows.

`readTLSMaterial` is four steps, Lstat, Open, Stat and ReadAll, with the file
system between them: a path may be replaced by another file, a link or a directory,
or go away, and a file may grow. A PEM block is one byte. Files are not rewritten in
place at equal length, and the numbers of deleted files are not used again:
`os.SameFile` and the size cannot tell these, and no comment says they should.
`pem.Decode` skips text before a block, so such text passes; text after the last
block does not. The router's public key is not trimmed, and Go's Base64 decoder
skips line breaks also when it is strict: the value "folded" is accepted,
although the error message of `decodePublicKey` speaks of strict Base64url.
`KeyPair` compares the first block of the certificate with the first key in the
key file, after whatever else the latter holds. `tls.X509KeyPair`, Core's constructors and the faults of a `host.Config` are
external or a nondeterministic choice.

### ManagedHost

The process comes up by the steps of `AgentStartup`; it has a registration
exactly in mode nacos. When `Host.Run` starts, the variables of the startup,
which nothing reads any more, are set back. From then on every step is a step of `Host`, conjoined with what it does to the lease.
`net/http` returns `ErrServerClosed`, which becomes nil, only after Shutdown was
called. `Registration.Run` returns nil when its context ended, an error when the
lease ended, and either when both did. The registration's lock is not
repeated: in `Host.Run` its calls follow one another, except for `Run`, which
only reads.

### ReplayGuard, OneUse, RouterAuth

A `Caller` is one call of `Accept` with its identifier and expiry. The lock, the
clock reading and the decision are separate steps, and the clock may advance
between them. The mutex is the set of its holders, so that a wrong lock can be
told from a right one. The model clock does not step back: `guard.now()` is
rounded to Unix seconds, and wall-clock steps are outside the model (listed as
a hazard). `OneUse` decides in one instant; the refinement maps a call that has
read the clock to its settled answer.

`RouterAuth` extends the guard: a request is a `Caller`, because it calls
`Accept` at most once, and the guard's actions are conjoined with what they leave
alone in the middleware. A request has a set of faults. Everything `Verify` decides
without the clock and the guard, which is the Authorization header, the
segments, the signature, the claims, the issuer, the audience and the signed
context headers, is such a fault, in one of the two classes the answer tells
apart (401, 403). A router issues an identifier in one credential, so copies
carry equal lifetimes.

### ClientStream, AgentStream, ResultDelivery

An error is the set of what it wraps. The peer sends any event, of any
invocation, Trace and sequence number, or bad frames, or ends or breaks the
body. The contract's sequence validator is external: contiguous sequence numbers
of one invocation, `accepted` first, nothing after the terminal event, as the
tests show. The four terminal types are one, and the chunk index is left out.
In `AgentStream` a refusal may poison the validator or not.
In `ClientStream` the events of `delivered` are those the validator accepted.

### UnaryCall, JSONMembers

Both SDKs send, wait, check the headers, read a bounded body and decode it, so
one module has both, and `sdk` says which. They differ in what they refuse, in
who closes the body (`readAndCloseBounded` and `closeWithError` of the client,
whose errors count; the deferred Close of the agent, whose error does not), and in
how strictly they decode. A response is its status, header lines, the size of
the body, the size of the JSON value that the body begins with, and of that value
its tokens and what the code decodes of it. The bytes are read one by one, and the peer may
break off, or never send the next one. What a validator of the contracts
refuses is the fault "invalid", a member it does not know "unknown".

The two tables of status, code and phase are `PlatformTable` and `RouterTable`,
a row for each case of the switches. The walk of `rejectDuplicateJSONMembers` has a
frame for each open call, and `Walks` is where it stands behind each token. The
reference it is compared with is the grammar of JSON: `Value` says when the tokens
between two positions are a value, by cuts into items or members, and `Values`
collects the parts of a text that are, the shorter ones first. The delimiters are
tokens that no string is (`NameAssumption`: the decoder hands out `json.Delim` and
`string`, two types). `Text`, `Unrepeated`, `JSONTexts` and `CleanTexts` apply walk
and grammar to the texts of the responses once, so that TLC need not do it in
every state.

The differences that are visible here and that no doc of the repository denies:
the agent's Invoke lets repeated and unknown members of a result pass, and a
`RouterError` is compared with the response's Trace header, not with the caller's
platform context.

### SSEFrame

A body is a sequence of five kinds of byte; `"data: "` is one byte wide. A byte
that makes the JSON invalid or not compact is refused where the code refuses it,
after the blank line. What was
delivered is kept with the position of its frame, so that one can ask where in the
body it stands; the code keeps no such position. The
reader hands out the bytes up to a newline, or a full buffer, or the rest; a
connection that breaks hands out a part of that, which is dropped. A consumer may
call Recv again after a failure or the end, as that of `agent/client.go`, and begins
where the reader stopped (`stopped`, a history variable). After a line that was too
long this is inside the line, and a tail of it that reads as a frame is delivered:
the bodies of the run contain such a line, and `DeliveredIsWhatWasSent` says that
nothing else can be delivered, nothing twice and nothing skipped.

## 3. Runs

All runs use the specifications as they are; `CHECK_DEADLOCK FALSE` everywhere,
because each of these parts stops: Run returns, calls return, streams close,
clocks reach their bound.

| Run | Bounds | Shows |
|---|---|---|
| `Host` | none | `DeregisteredExactlyIfRegistered`, `UncancelledReturnNamesCause`, `AbandonedChildIsReported`, `DeregisterAfterDrain`, `StopLeadsToReturn`, `ChildrenNeverBlock` |
| `NacosRegistration` | 4 calls, two of them `Register` | `OneLease`, `DeregisterIsFinal`, `ReadinessNeverReturns`, `ImplementsAtomicRegistration`, `EveryCallReturns` |
| `ManagedHost` | environments that differ from a good one in one variable, all subsets of the TLS variables and the token, timings at their limits; 3 files of up to 2 blocks, 2 rotations | `MaterialIsOfItsPath`, `NothingIgnored`, `CleanReturnIsComplete`, `ActiveLeaseIsReported`, `LostLeaseStopsHost` |
| `ReplayGuard` | 3 calls, 2 identifiers, clock to 3 | `GrantsNeverOverlap`, `RefusedForCause`, `HoldsOnlyLiveGrants`, `ImplementsOneUse` |
| `RouterAuth` | 3 requests, 2 credentials, no fault or one of each class, clock to 2 | `CredentialServedOnce`, `ServedRequestIsGenuine`, `GenuineRefusedForCause`, `EveryRequestAnswered` |
| `ClientStream` | 2 invocations of one root Task, 2 Traces, sequence numbers to 3 | `BodyReleased`, `CleanEOFIsComplete`, `FailureIsFinal`, `ImplementsResultDelivery` |
| `AgentStream` | 2 invocations, 2 root Tasks, 2 Traces, numbers to 3 | `BodyReleased`, `DeliveredBelongsToParent`, `ImplementsResultDelivery` |
| `UnaryCall` | limits 0, 2 and 3 where 2 is the maximum; bodies of up to 4 bytes; all rows of both tables and all other combinations; up to 2 header lines; all texts of up to 4 tokens, some of up to 9 | `BodyClosedOnce`, `AnswerIsOfThisCall`, `TypedErrorIsAPlatformError`, `CloseFailureIsReported`, `WalkIsExact`, `CancelledCallReturns` |
| `SSEFrame` | bodies of up to 5 bytes, alone, after a frame, or as the rest of a line over the limit; limits 3 to 5; buffers 2, 3 | `DeliveredIsWhatWasSent`, `RefusedForCause`, `BoundedMemory` |

The type invariants are proved. Safety and liveness are checked in one run, under the
specification with fairness where there is one.

Why the bounds are enough. `Host` has none, nor has the running part of
`ManagedHost`. Every check of a configuration looks at one variable, at the TLS variables
and the token together, or at neighbouring timings, and each of these groups is
enumerated. One rotation makes a check stale, the second hides it
again; a third file is one that no path named. A limit of 2 has bodies below, at
and above it and one that is cut off. Two calls make
a replay, the third makes one fall after a purge; a clock to 3 has a grant, its
expiry and a second grant. In `RouterAuth` the third request is the copy that
comes after a good and a bad one; all combinations of faults differ from the
three chosen only in which check answers first, and the theorems cover them. The
four calls on a registration are the two of `Register` that race and two others of
any kind, also two more of `Register`. Two values of each identifier tell "the same" from
"another"; sequence numbers to 3 have an accepted event, two chunks and a
terminal one. A frame of the smallest size has 4 bytes, so the limits have a
frame below, at and above them, and buffers of 2 and 3 cut it in several ways.
`Horizon` and `MaxSequence` are the only caps on counters, `Calls` and `FaultSet`
the only choices of inputs; the theorems hold for any of them.

Three runs are expected to be violated. Each states what a comment or a README of
the repository says, where the code does something else:

* `Host_lost_failure`: "server, lease, and shutdown failures remain staged
  errors" (`agent/host/host.go:68-69`). A failure received by the first select
  is dropped when the context ends before line 117 reads its Err: Run returns
  nil.
* `AgentStream_invocation_id`: "InvocationID returns the child ID after the
  accepted event has been read" (`agent/client.go:281`). Line 329 sets it before
  the validator accepts the event, so a refused event leaves its ID behind.
* `ClientStream_close`: "Calling `Close` before that EOF ... returns an error
  wrapping `contracts.ErrRuntimeStreamInterrupted`" (`client/README.md:107-110`).
  After a failed Recv Close returns that failure, which wraps it only when the
  context or an early EOF caused it.

### Fairness

* `Host`: the goroutine in `Run` is scheduled, a send to a channel with room
  completes, the timer fires, and `Shutdown` returns once its context has
  expired (its documented contract). Nothing is assumed of `ListenAndServe` and
  `Registration.Run`. `ManagedHost` adds that `Registration.Run` returns when its
  select has a ready case, which is its code.
* `RouterAuth` with its guard, `NacosRegistration`: a goroutine inside a call
  runs on; Go's mutexes do not starve a waiter. Each goroutine makes finitely
  many calls, so weak fairness is enough. The registrar and the lease answer.
* `UnaryCall`: the SDK's own steps are taken, and `net/http` returns from `Do`
  and from a read once the request's context has ended (its documented
  contract). Nothing is assumed of the peer.
* `AgentStartup` has no liveness property: it ends when the file system answers.
* The streams have no liveness property: a Recv waits for its peer for as long
  as the caller's context allows.

## 4. Proofs

All for every value of the constants, with TLAPS (Z3, Zenon, LS4).

* `HostProofs`: the inductive invariant has four parts: what each control point
  says of Run's own variables (`Control`); that a stop flag or a classified value
  belongs to a child that is over, and a channel holds at most one result
  (`Children`); that a drain is left with the child over or with the expired
  deadline reported (`Waited`); and that after the first select the head of the
  joined errors blames what stopped the host (`Named`). `Named` needs that a
  drained child stays drained and that joining keeps the head. From it:
  `TypeCorrect`, `DeregistersOnce`, `NamesCause`, `ReportsAbandoned`,
  `DrainsFirst`.
* `NacosRegistrationProofs`: one Register publishes at a time and only before
  there is a lease (`Exclusive`), the lease stored is the only one ever obtained
  or seen (`Lone`), and what a finished reader saw stays ended (`Settled`). From it
  `TypeCorrect`, `PublishesOnce`, `StaysClosed` and `StaysUnready`, for any number of
  calls. `Refinement` shows, with one lemma per action, that each step is one of
  `AtomicRegistration` or leaves its variables alone. `SeenState` is what makes it
  true: a reader that has found a lease has found the one that there is, so what it
  sees of it later is what the registration is then. `AnswersAgreeAtomically`
  proves of the abstract specification that its answers agree (there is a lease
  exactly if one Register, and only one, was told so; "already started", "lost" and
  a ready probe are answered only then); through the refinement, `AnswersAgree` says
  it of the registration.
* `RouterAuthProofs`, first about the guard: the inductive invariant ties the
  lock to the control points (one caller inside), and every entry of `expires` to
  the grant that made it and back: a grant that has not expired by the latest
  clock reading is in the map with its expiry. Without that last part an early
  purge could not be excluded. From it: `TypeCorrect`, `NoReplay`,
  `NoSpuriousRefusal`, `BoundedMemory` and `Refinement`, that the locked procedure
  implements `OneUse`. `OneLive` is the promise of `OneUse` itself (a grant needs a
  free identifier, and time only ends grants); with the refinement it holds of the
  guard (`OneLiveInGuard`).
* `RouterAuthProofs`, about the middleware: its steps are the guard's steps or
  leave the guard alone, so the invariant above holds for the composition
  (`GuardInvariant`). `RequestInvariant` adds that a request inside the guard has
  no fault and that an answer agrees with the guard's. From both: `ServedOnce`,
  `ServedGenuine`, `GenuineNotSpoiled`.
* `ManagedHostProofs`, about the running process: every step of the composition is
  a step of `Host` or leaves its variables alone (`StepsOfTheHost`), so the process
  is a `Host` (`ImplementsHost`), and the theorems of `HostProofs` carry over
  (`KeepsHostPromises`). `LInv` adds that only a published lease is active and that
  a Deregister that fails is the last error joined. It is needed because
  `CleanReturn` and `ReportsActiveLease` speak of the lease, of which `Host` knows
  nothing.
* `ManagedHostProofs`, about the startup: `SInv` follows a TLS file from Lstat to
  the comparison of the pair. The history that the properties look at holds what
  there is now (`Recorded`); a file that was opened is one that the path named, and
  the one whose size was checked (`Checked`); the files are read in their order,
  each after the one before was found good (`InOrder`); and at the end all that is
  needed is there (`Complete`). The step that needs the most is ReadAll: a file may
  have grown since Stat, and only the limit on what was read tells that the content
  is whole (`WholeContent`); a file that the configuration does not name is never
  read (`NamedOnly`). At the end the files read are those it names (`ReadFiles`), and
  what is trusted has blocks of CAs only (`OnlyCAs`; `PairAssumption` tells a pair's
  block from a CA's and from text). From it `ReadsItsPaths` and `IgnoresNothing`, for
  any deployments, contents and numbers of rotations.
* `SSEFrameProofs`: the invariant says that each line that the reader keeps is the
  part of the body between its first byte and `position`, without a newline but at
  its end (`DataLineRead`, `BlankLineRead`), and that between frames nothing is
  read ahead (`Outside`). `SliceFacts` is what `ReadSlice` hands out, `ReadFacts`
  what a line has after one more slice, however the slices fall; `Appended` puts one
  more frame behind the delivered ones, and `Continues` that each call begins behind
  the last frame or where the last call that failed stopped. From it: `TypeCorrect`, `Bounded` and
  `Faithful`. `NothingGoodRefused` compares the lines with a frame that stands in
  the body byte by byte (`DataLineOfFrame`, `BlankLineOfFrame`).
* `ClientStreamProofs`: the invariant says that the delivered events passed one
  validator built for the header's Trace (`Validated`), and how control point,
  flags and body go together (`Control`). `FailureNamed` says what a failure is
  recorded as when the context has ended, and when it has not. From it: `TypeCorrect`, `NoBodyLeak`,
  `CleanEOF`, `CleanClose`, `FailuresStick` and `Refinement` to
  `ResultDelivery`. `CleanClose` is checked by no run; the theorem covers it.
* `AgentStreamProofs`: the same two parts, where the validator is built for the
  parent's context and for the invocation that `InvocationID` names, and a failure
  changes nothing, whether or not it poisons the validator. From it:
  `TypeCorrect`, `NoBodyLeak`, `DeliversOwn` and `Refinement` to `ResultDelivery`.
* `UnaryCallProofs`: the invariant adds to the two safety properties of an answer
  who owns the body at each control point, and with which failed Close the call
  has ended (`Owned`), and what was read by then (`ReadSoFar`). The lemma
  `RouterRows` shows that every row of the router's table is in the platform's.
  From it: `TypeCorrect`, `NoBodyLeak`, `AnswersThisCall`,
  `ErrorsAreThePlatforms`, `ReportsCloseFailure` and `ExactWalk`, for any limit and
  any responses.
* `UnaryCallProofs`, about the walk over JSON members: `WalkExact` says of every
  text, of any length and depth, that the walk accepts it exactly if the grammar
  makes it one value in which no object repeats a member. Both are defined by
  recursion, so `Recursion` first shows that such functions exist (`WalksFacts`,
  `ValuesFacts`), and `Grammar` that the parts that are values satisfy the
  equation of the grammar. Induction is by a smallest counterexample (`Least`,
  from the well-foundedness of the naturals). *Sound*: `StepFacts` tells what a
  token does to the open calls level by level, `Level` that a call keeps what it
  opened and the names it has seen while it is open; the places where a call waits
  are the cuts of the grammar (`ReadsItems`, `ReadsMembers`, `NamesDiffer`), so
  what the walk reads as one value is one (`SpanIsValue`). *Complete*: the calls
  below a value are the same after it (`ReadItems`, `ReadMembers`, `ValueIsRead`),
  and an object has seen exactly the names before the cut.

The assumptions are those the modules state: bounds are naturals, fault sets are
sets of faults, mixes of calls are functions, and a string is not a delimiter. Callers, identifiers and requests may be infinitely
many.

TLC checked every one of the inductive invariants on the instance of its
component's run as well.

Only model-checked: liveness (it needs fairness and ENABLED, which TLAPS does
not reason about).

## 5. Not modelled, and what is next

Not modelled: `scripts/` and the CI workflows (not part of the SDK), the constant
settings of the Nacos `http.Transport`, the wording of errors and the `Format`
methods, the grammar of identifiers, origins and credentials beyond good and bad,
the fallback of `Wrap`, which no caller reaches, JSON names that differ only in
case, a custom `HTTPDoer` that returns neither a response nor an error, and clocks
that step back. What Core does behind its interfaces is assumed as its use in
`src/` and the tests show it.

What could come next, most important first:

1. `SSEFrame` composed with `AgentStream`, so that the bytes of a body are followed
   up to the delivered events.
2. `ManagedHost` over `AtomicRegistration`: what the host does to the lease, as calls
   of the abstract registration.
