# TLA+ verification of zta-core

zta-core is a Zero Trust authorization platform: Policy Enforcement Points (PEPs)
in the request path ask a Policy Decision Point (PDP) for decisions, keep them
for a while in signed decision tokens, and obey revocations pushed to them;
workloads know each other by short-lived certificates, and the PDP takes its
policy from a versioned store. This directory models the data path, the signal
path, workload identity and the policy's way into the PDP in TLA+, model-checks
them with TLC on small instances, and proves with TLAPS, for every instance, the
safety properties of every module, and that the PEP implements an abstract
enforcement point. The source is the reference: `PROJECT.json` maps
every definition to the lines it translates.

## 1. The system

| Component | State | Operations | Talks to |
|---|---|---|---|
| Contract (`authz/authzen`) | none | `Validate` | used by everything |
| Embedded policy (`policies/*.rego`) | none (data document) | `decision` through four gates | evaluated by the engine |
| OPA engine (`authz/engine`) | compiled query, immutable | `Eval`, `parseDecision` | PDP |
| ReBAC engine (`authz/rebac`) | none | `Eval`, `check` | PDP, OpenFGA over HTTP |
| Decision tokens (`authz/token`) | secret, TTL, clock | `Issue`, `Verify`, `ResourceDigest` | PDP issues, PEP verifies |
| PDP service (`authz/pdp`, `services/pdp.go`) | none | `Evaluate`, `assemble` | engine, issuer |
| HTTP facade (`authz/api`), gRPC transport (`authz/grpcpdp`) | none | decode, evaluate, map errors to statuses | PEP and PDP |
| PDP HTTP client (`authz/pdpclient`) | 5 s timeout | `Evaluate` | HTTP facade |
| PEP (`authz/pep`) | one goroutine per request | `Check`: L0, L1, revocation, L2; `Middleware` | attestor, cache, verifier, PDP, upstream |
| Sidecar (`cmd/zta-pep`) | revocation cache, configuration | reverse proxy, step-up rewrite, `/events` | PEP, CAEP, upstream |
| CAEP (`signals/caep`, `cmd/caepemit`) | revocation cache per receiver | `Emit`, `Receiver.Handler`, `Apply`, `IsRevoked` | transmitter pushes to every receiver |
| SPIFFE identity (`identity/spiffe`) | current SVID behind a lock, rotation loop, PEM files | `Mint`, `remint`, `loop`, `Close`, `GetX509SVID`, `WriteSVID`, `LoadSVID` | TLS handshakes |
| mTLS wiring (`services/mtls.go`, `services/grpc.go`) | none | `LoadServerTLS`, `LoadClientTLS`: agent first, then files | PEP, PDP process |
| Policy store (`policystore`, `cmd/bundlepush`) | versions of the bundle in S3 | publish, `LatestBundle` at start-up | PDP process |
| PDP process (`cmd/pdp`) | the engine it was started with | pull, build, listen on gRPC and HTTP | store, facades |

What is hard about it, and what makes each part correct:

* **PEP.** Handlers run concurrently with SETs, SVID revocations, clock ticks and
  restarts. Every early return must deny. A token that a client replays with any
  other request, at any later time, must not be worth more than the decision it
  stands for. A revoked subject must stay out although its token is still valid.
* **Tokens.** Issue and verify each truncate to whole seconds, on two clocks. The
  digest must be the same at both ends of a transport that re-encodes the
  properties.
* **Policy.** Two validators, in Go and in Rego, claim to check the same rules in
  languages that treat missing, empty, null and false differently. A step-up
  demand must name a level that suffices.
* **CAEP.** Fan-out is sequential, any delivery may fail, be lost after it was
  applied, or arrive after the caller gave up; a receiver may restart with an
  empty cache. The caller must learn of failures, and the call must end.
* **Transports.** The same request must get the same decision through both.
* **Chains of PEPs.** A step-up requirement of an inner hop has to reach the user
  through services and proxies, once; tokens travel with requests that ask for
  something else at the next hop.
* **Identity.** Certificates are replaced while handshakes use them, judged by
  clocks that differ, and written to disk as three files, one after the other, by
  another process while this one reads them, one after the other.
* **Policy store.** Pipelines overlap, uploads are retried after lost responses, a
  PDP restarts in between; the wrong policy must not be served quietly.

The complete list of what is hard to test, with source lines, is `hazards` in
`PROJECT.json`.

## 2. Modules

| Module | Models | State |
|---|---|---|
| `AuthZEN` | contract, validation, assurance levels | operators |
| `Policy` | the Rego gates and the fixture's `acct` domain | operators |
| `ReBAC` | relationship engine | operators |
| `Token` | decision tokens | operators |
| `PDP` | the decision pipeline and what the wire does to a request | operators |
| `PEP` | one PEP with concurrent handlers, and its surroundings | 13 variables, 3 of them history |
| `PEPProofs` | TLAPS proofs about `PEP` | |
| `Enforcement` | what an enforcement point promises, abstractly | 5 variables |
| `PEPRefinement` | the refinement mapping from `PEP` to `Enforcement` | |
| `PEPRefinementProofs` | TLAPS proof that `PEP` implements `Enforcement` | |
| `Chain` | a user, an edge PEP, a service, an east-west PEP, one PDP | two instances of `PEP`, 3 more variables |
| `CAEP` | transmitters, network and receivers | 12 variables, 5 of them history |
| `Revocation` | `CAEP` and the enforcement point that reads one of its caches | `CAEP`'s, 2 of `Enforcement`, 2 history |
| `Facade` | HTTP and gRPC facades side by side | 3 variables |
| `Identity` | SVID sources, rotation, PEM files, handshakes between two workloads | 9 variables |
| `PolicyBundles` | bundlepush runs, the object store, PDP processes | 8 variables, 2 of them history |
| `ChainProofs`, `CAEPProofs`, `RevocationProofs`, `FacadeProofs`, `IdentityProofs`, `PolicyBundlesProofs` | TLAPS proofs about the module of that name | |
| `MCPEP`, `MCChain`, `MCCAEP`, `MCRevocation`, `MCFacade`, `MCIdentity`, `MCPolicyBundles` | finite instances for TLC | |

`PDP` extends `Policy`, `ReBAC` and `Token`; `PEP` and `Facade` extend `PDP`. The
operators the PDP is made of are therefore evaluated inside the PEP's steps: a
decision in the model is the policy's decision, not an arbitrary Boolean. `Chain`
instantiates `PEP` twice over one clock and one set of tokens; it takes the instances
from `PEPProofs`, which extends `PEP`, so that the PEP's lemmas hold of each. `Revocation` extends
`CAEP` and instantiates `Enforcement` in the PEP's place, with a receiver's cache
as the barred subjects; that this is enough is what `ImplementsEnforcement` says.

Definitions called `...TokenFirst`, `...AnyProps`, `...Sticky` and the like, each
introduced by "Defect:", are plausible mistakes in the definition that follows
them. They are used only to show that a property notices the mistake
(`mutants` in `PROJECT.json`).

### Abstractions

* A name such as `acct:settle` is a record that says whether it is a colon pair
  and what its halves are. Strings are not built up from characters.
* A Go map is its contents and whether it is nil. `omitempty` makes an empty map
  nil across HTTP (`OverHTTP`); a protobuf Struct that was not sent reads back as
  an empty map (`OverGRPC`).
* An attribute value is its class in Rego's order over values; the numbers below,
  at and above the threshold are three classes.
* An HMAC is the flag `signed`. SHA-256 is taken to be collision free.
* Time is counted in ticks, `TicksPerSecond` to a second. The PEP's clock lags
  the PDP's by `Skew`.
* Correlation ids, PEP ids, the action's method, logging and wording are left out.

### `PEP`: state and actions

`pc[h]` says where handler `h` is; `in[h]`, `tok[h]` are the inbound request and
the token it presents; `resp[h]` is the PDP's response on its way back;
`outcome[h]` is what `Check` returned and `reply[h]` what the middleware
answered; `revoked` is the CAEP cache, `distrusted` the SVIDs the attestor
rejects, `held` the tokens clients have, `now` the clock. `minted`, `blocked` and
`triedAt` are history: they are never read by a guard.

| Action | Code |
|---|---|
| `Arrive` | a request enters `Middleware`, with any held token, a bad one or none |
| `CheckL0`, `CheckL1`, `CheckRevocation`, `CheckL2` | the rungs of `Check`, one step each because the attestor, the cache and the clock are shared |
| `PDPEvaluates` | `Service.Evaluate` at the other end of the transport |
| `CallReturns`, `CallFails` | the client gets a response or an error; the failure may come before or after the PDP decided |
| `Respond` | `Middleware` denies, or forwards, echoes the token and relays the (rewritten) upstream answer |
| `Revoke`, `Restore` | the receiver applies a verified SET |
| `DistrustSVID` | an SVID is revoked out of band |
| `ForeignDecision` | another PEP with the same PDP gets a decision and its token reaches clients |
| `Tick`, `Restart` | time; the process loses its cache and its requests |

### `CAEP`: state and actions

`Emit` signs, `Push` sends to the next subscriber or fails to build a request,
`Answered`, `ConnectionLost` and `TimesOut` are the ways `client.Do` ends,
`Return` hands the first error to the caller. `Receive` is the receiver's whole
handler: it applies what verifies, answers 401 to what does not and 400 to a body it
cannot read; `RestartReceiver` empties its cache and breaks its connections. A SET
whose call timed out stays in `net` and may be applied later.

### `Enforcement` and the refinement

A request asks for a tuple at a level; an authority grants tuples, a grant lives
for `Life` and covers requests for its tuple at its level or above; subjects are
barred and readmitted. `Clear` needs a moment at which the subject is not barred,
`Rely` a later one at which a living grant covers the request, and only then may
`Allow` follow. `PEPRefinement` maps the rungs up to the revocation check to
"asked", those above it to "cleared", an allowing PDP response in flight to
"relying", `minted` to the grants, the cache to the barred subjects, and
`TTL + Skew` to `Life`. That a token is verified by the PEP's lagging clock and in
whole seconds, that the revocation check precedes the fast path, and that the
handler goes on with the outcome after the clock has moved are what the
implementation has to get right.

### `Chain`: state and actions

`user` is a request and the user's level; `hop` says whether the service in the
middle has been called. `Want`, `Send`, `Retry` and `Leave` are the user, who raises
its level to the one a 401 names; `EdgeChecks`, `EdgePDPEvaluates`, `EdgeCallFails`,
`EdgeResponds` and their inner counterparts are the actions of the two `PEP`s;
`Forward` is the service between them, which computes a total and passes on a token
it holds, or none. The service and the user are not in the repository: they do
what its documents ask of them (`docs/architecture`). A session starts at AAL2: the
fixture's policy denies AAL1 without a step-up obligation.

### `Revocation`: state and actions

The steps of `CAEP` and those of `Enforcement`, interleaved; a restart of the
watched receiver loses its requests, too. `standing` collects the revocations that
nothing has put in question: signed while no restoration of the subject was under
way to the watched receiver, with no restoration signed and no restart since.
`doomed` remembers that one of them had been reported as delivered (`Emit` returned
nil) when the request came.

### `Identity`: state and actions

| Action | Code |
|---|---|
| `StartFromAgent`, `StartRotating` | `LoadServerTLS` / `LoadClientTLS` with an agent, and `RotatingSource` |
| `ReadCert`, `ReadKey`, `ReadBundle` | `LoadServerTLS` / `LoadClientTLS` with files: `loadStaticSVID`, one file per step; a key that is not the certificate's ends the start |
| `Rotate`, `RotateFails` | the loop takes a tick and `remint` succeeds or fails |
| `Close`, `Stop` | the loop is cancelled and the last SVID served on; the process ends |
| `AgentRotates` | the Workload API pushes a new SVID |
| `Issue`, `EmptyFile`, `WriteFile` | a run of the issuing tool through `WriteSVID` and `WriteBundle`: each file is emptied, then written; the run may end anywhere, and another may follow |
| `Dial`, `ServerPresents`, `ClientAnswers`, `ServerVerifies`, `HangUp` | a TLS 1.3 handshake: each side shows the SVID `GetX509SVID` gives it then, and verifies the other's |
| `Tick` | time, bounded by the loop's delay and the handshake's duration |

An SVID carries its age and the issuer's clock offset; `InTime` is `NotBefore` and
`NotAfter` by the verifier's clock. Ages are capped where they no longer matter, so
time has no end.

Reading and writing are interleaved file by file, as nothing in the code orders them.
`x509svid.Load` compares key and certificate; nothing compares the bundle with them,
and `x509bundle.Load` (go-spiffe's, so external here) takes an empty file for an empty
bundle and half a certificate for an error. A start beside a run of the tool, or after
one that was broken off, may therefore come up with its old certificate and the bundle
of a new CA, with a new certificate and the old bundle, or trusting nobody. The
history field `torn` of an SVID marks it as read from files that were not, from the first
read to the last, the complete set of one run. `SetConsistent` says that nothing
worse happens and that it happens to no other start; `RotationTransparent` that such a
process refuses peers of CAs it does not trust, as it must, and none for another reason.

### `PolicyBundles`: state and actions

`Push`, `BucketExists`, `MakeBucket`, `PutObject`, `ExitZero` are the steps of
`bundlepush`, `Fail` any error or crash; `Start`, `Pull`, `Build`, `Listen`,
`GRPCDies`, `Exit`, `Decide` those of a PDP process. A bundle is a name and what
becomes of it: `good`, `empty` (no bytes), `corrupt`, `no_modules`, `uncompilable`,
`undefined` (no decision document), `odd` (one that is no object). The store is
external: a put with a retention mode is refused by a bucket without object lock
and appends a version to one with it.

### `Facade`: state and actions

One contract request is sent through both facades (`handleEvaluation`,
`grpcEvaluate`); the engine may fail in either, and the HTTP body may fail to
decode. `Close` starts over.

## 3. Model checking

Passing runs:

| Run | Question | States |
|---|---|---|
| `pep_edge` | all safety properties of the ladder at the edge: token replay across requests, levels and subjects, clock lag and truncation, revocation, step-up; the inductive invariant `IInv`; and that the PEP implements `Enforcement` | 207 k |
| `pep_east_west` | two concurrent handlers, caller identity, relationship engine behind HTTP, forwarded tokens, SVIDs revoked | 614 k |
| `chain` | a step-up requirement reaches the user and can be met; tokens across hops; every attempt is answered | 167 k |
| `caep_fanout` | concurrent `Emit` calls, bad URL, wrong secret, restarts: first error, completeness, and `Emit` returns given a client timeout | 434 k |
| `revocation` | `nil` means applied everywhere, caches agree with the log, and a delivered revocation keeps later requests out | 6.0 M |
| `facade` | both transports decide alike, front door and Rego gate agree, required context | 10 k |
| `identity` | what a process serves and trusts when its files are rewritten while it reads them; rotation is transparent to handshakes, and which failures a torn set explains; the loop recovers | 324 k |
| `bundles` | published versions stay; a PDP never goes back, runs what it pulled, allows by a stored policy only | 2.3 M |

Runs that show a statement of the repository to be violated (`findings` in
`PROJECT.json` quote the statement):

| Run | What TLC shows |
|---|---|
| `pep_empty_props` | over HTTP the token fast path never fires on a route without `resource_props`: the digests of nil and of the empty map differ |
| `pep_partner` | the partner profile allows a request that names no partner |
| `caep_late_set` | a late SET undoes a newer one |
| `caepemit_hang` | without a client timeout one silent receiver keeps `Emit` from the others |

Other divergences met while modelling, which the models contain as the code has
them:

* `docs/architecture/specs/06-decision-token.md:47` compares assurance levels the
  other way round than `authz/pep/enforce.go:197`, whose comment agrees with the
  code. The fast path serves a request at or above the token's level.
* An empty subject id passes the Rego schema gate (`not input.subject.id`) and not
  `Validate`; `ValidatorsAgree` states this as the only difference.
* A bundle of no bytes is the same as none (`len(cfg.Bundle) > 0`): the PDP serves
  the embedded policy, which has no business domain and so allows nothing.
* SVID files of one CA and a bundle file of another load without complaint, and so does
  an empty bundle file; such a process comes up and refuses the peers whose CA it does
  not trust (`Refusable`'s second disjunct). The run reaches all three cases.
* SVIDs read from files are never read again, and an open connection is not looked
  at again: both may be past their expiry.

`RevokedStaysOut` is about revocations that were in force when the request came and
stayed in force. `Check` reads the cache once, before the PDP call; a SET applied during
that call takes effect with the next request, and nothing more is claimed.

The cache is lost when the PEP restarts, and nothing restores it. The documents accept
this (`docs/architecture/specs/10-caep-revocation.md:61`, AD-10); the models have it, and the
histories behind `RevokedStaysOut` and `RevokedEverywhere` end at a restart, so that no
property holds it against the code. `SerialEmitsConverge` is the positive case, calls one
after the other that all succeed; what concurrent and timed-out calls do to a cache is
shown by `caep_late_set`.

### Bounds

Every bound is a constant: `MaxTime`, `MaxMinted`, `MaxEmits`, `MaxRestarts`,
`MaxIssued`, `MaxRuns`, `MaxVersions`, and the sets of requests.

* `pep_edge` has two minted tokens, so that a token can be replayed against a
  request of another subject, another amount or another level; `MaxTime = 3` with
  `TTL = 2`, `TicksPerSecond = 2` and `Skew = 1` lets a token cross both its expiry
  and a second's boundary. `pep_east_west` has two handlers: a third adds no new
  pair of interfering steps.
* `chain` has four tokens: one of each hop before and after the step-up. The two
  payments are one whose total alone is of high value, so that only the inner hop
  asks for step-up, and one where the edge asks.
* In CAEP two subscribers distinguish "first error" from "any error" and "tried"
  from "skipped"; the fan-out run has three. Three emissions (`revocation`) allow
  revoke, restore, revoke in any order, with a late delivery between any two and
  one restart of each receiver; events of an unknown type occur in the fan-out run.
* `identity` has every kind of source, on either side; an SVID lives for four
  rotation intervals, which leaves one interval each for the loop's delay, the
  handshake and the clocks' difference - exactly what `IdentityAssumption` asks
  for, so that one less would make rotation visible. Two sets of files per workload
  and two CAs give every torn combination: the first set is complete at the start, and a
  run writes the second in the middle of whichever reads.
* `bundles` has two pipelines with one run each and three versions, so that a retry
  may come before or after the other's upload.

The bounds disable only the step that would exceed them. The fan-out run and the two
violation runs of `CAEP` do not check for deadlock: after the last emission nothing
remains to be done.

### Fairness

`ChainAnswers` assumes weak fairness of `Owed`: the PEPs' own steps are not delayed
for ever, a PDP call over HTTP ends, because `pdpclient.New` sets a five second
timeout, and the services between the PEPs answer, because nothing in the proxy
would end a request to one that does not. At any time at most one of these is
due, so that one condition for all is no more than one for each. Nothing is
assumed of the PDP, nor of a gRPC call: the gRPC client sets no deadline, and the
property is not claimed there. `EmitReturns` assumes that the transmitter goes on,
that a broken connection is noticed and, when the client has a timeout, that it
fires; receivers owe nothing. `RotatorRecovers` assumes that time passes, that the
loop handles its ticks, that handshakes end one way or the other, and that
minting, which needs only the random number generator, does not fail for ever
(strong fairness of `Rotate`: it is enabled at a tick, again and again).

## 4. Proofs

Each theorem holds for every value of the constants that satisfies the module's
assumptions. TLC evaluates the assumptions in every run.

| Module | Theorem | States |
|---|---|---|
| `PEPProofs` | `LadderInvariant` | `Spec => []IInv` |
| | `TypeCorrect` | `Spec => []TypeOK` |
| | `EveryAllowJustified` | `Spec => []AllowJustified` |
| | `ReusedTokensFresh` | `Spec => []TokenFresh` |
| | `RevokedNeverAllowed` | `Spec => []RevokedStaysOut` |
| | `HighValueSecure` | `Spec => []HighValueNeedsAAL3` |
| | `OnlyEdgeChallenges` | `Spec => []EdgeOwnsChallenge` |
| | `OutcomeOrigins` | `Spec => []OriginsOK` |
| | `DelegationAlwaysRecorded` | `Spec => []DelegationRecorded` |
| | `StepUpAlwaysRemediable` | `Spec => []StepUpRemediable` |
| | `ReuseAlwaysHonoured` | `Spec => []ReuseHonoured`, if the transport is gRPC or `LiftsSomething` |
| `PEPRefinementProofs` | `PEPImplementsEnforcement` | `Spec => ImplementsEnforcement` |
| `ChainProofs` | `ChainInvariant` | `Spec => []CInv` |
| | `ChainTypeCorrect` | `Spec => []TypeOK` |
| | `TotalAlwaysNeedsAAL3` | `Spec => []TotalNeedsAAL3`, if `AmountsSeen` |
| | `NeverADeadEnd` | `Spec => []NoDeadEnd`, if `Deployed` |
| `CAEPProofs` | `FanOutInvariant` | `Spec => []IInv` |
| | `TypeCorrect` | `Spec => []TypeOK` |
| | `NilAlwaysMeansApplied` | `Spec => []NilMeansApplied` |
| | `FirstErrorAlwaysReported` | `Spec => []FirstErrorReported` |
| | `SerialEmitsAlwaysConverge` | `Spec => []SerialEmitsConverge` |
| `RevocationProofs` | `RevocationInvariant` | `GatedSpec => []GatedInv` |
| | `DeliveredRevocationHolds` | `GatedSpec => []RevokedEverywhere` |
| `FacadeProofs` | `FacadeInvariant` | `Spec => []IInv` |
| | `TransportsAlwaysAgree` | `Spec => []TransportsAgree` |
| | `ValidatorsAlwaysAgree` | `Spec => []ValidatorsAgree` |
| | `AllowAlwaysCarriesContext` | `Spec => []AllowCarriesContext`, if the engine is OPA |
| `IdentityProofs` | `IdentityInvariant` | `Spec => []IInv` |
| | `TypeCorrect` | `Spec => []TypeOK` |
| | `SetAlwaysConsistent` | `Spec => []SetConsistent` |
| | `RotationAlwaysTransparent` | `Spec => []RotationTransparent` |
| `PolicyBundlesProofs` | `BundlesInvariant` | `Spec => []IInv` |
| | `TypeCorrect` | `Spec => []TypeOK` |
| | `NeverGoesBehind` | `Spec => []NeverBehind` |
| | `AlwaysRunsWhatItPulled` | `Spec => []RunsWhatItPulled` |
| | `AlwaysAllowsByPolicyOnly` | `Spec => []AllowsByPolicyOnly` |
| | `PublishedAlwaysStays` | `Spec => PublishedStays`, an action property |

### Assumptions

* `TokenAssumption`: a positive TTL and clock resolution. `PDPAssumption`: two
  transports, two engines. `PEPAssumption`: types of the configuration. Handlers,
  routes, inbound and foreign requests and policy data are arbitrary.
* `CAEPAssumption`: finitely many emitters, a list of distinct subscribers.
  `WatchedAssumption`: the watched receiver is one of them.
* `FacadeAssumption`: requests have the contract's shape, and a subject's id, a Go
  string, is neither missing nor JSON's `false`.
* `IdentityAssumption`: distinct workloads, a positive rotation interval, and room for
  one rotation: clocks differ by at most `Backdate`, and an interval, the loop's
  delay, a handshake and the clocks' difference fit into a lifetime. The code does
  not enforce this; it is what an operator who sets `RotatingSource`'s interval owes.
* `BundlesAssumption`: bundles are names with one of the kinds of `Kinds`.
* `ChainAssumption`: what users want is a level they may start with, an amount and a
  total; routes are numbered. Payments, routes and policy data are arbitrary.
* Four theorems have a hypothesis of their own. `AllowCarriesContext` speaks of the
  policy engine's gates, which the relationship engine does not have.
  `ReuseHonoured` needs gRPC or a route table that lifts something from every
  request; without it the statement is false, as `pep_empty_props` shows.
  `TotalNeedsAAL3` needs `AmountsSeen`: OPA decides, and the first route a payment
  matches is for settlements and lifts the amount, without which the policy cannot
  know it. `NoDeadEnd` needs `Deployed`, which says that the configuration lets
  payments through at all: the domain has a policy, the gateway an identity, the route
  lifts what the policy requires, a payment supplies it, and amounts are numbers.
  Each clause names a gate that would otherwise refuse every payment; `MCChain`
  assumes `Deployed` of its instance, so TLC shows that it can be met.

### The PEP

None of the properties is inductive. `AllowJustified` speaks of outcomes only;
whether a token reuse is justified depends on what tokens can exist, and whether
a returning response is justified depends on what was asked. `IInv` adds exactly
that: every issued token stands for a valid request the engine granted
(`GrantOK`), every response in flight is the PDP's answer to its handler's own
request and an allowing one is on record (`ResponseOK`), and a handler that
stands above a rung has the rung's guarantee (`HandlerOK`): an attested caller
above L0, a route above L1, and above the revocation check no blocked subject
except the empty one, which the PEP does not look up and which `Validate` later
refuses. `HandlerFrame` lets a handler keep its guarantees while others move;
`ReturnStep` and `GotoStep` reduce each rung to what it has to establish. The
crypto-free heart of token reuse is `CoversSameTuple` (the compared claims
determine the tuple), `VerifyBeforeExpiry` (truncation never prolongs a token,
by `EarlierSecond`) and `WireSameTuple` (neither transport changes what a token
binds). `HighValueSecure` then follows because the policy's verdict depends on
nothing a token does not bind, except the level, which may only be higher.

`IInv` says what an allow is worth, not where an outcome came from.
`OriginsOK` does: one that did not come from a rung or a token is what `classify` makes
of the PDP's answer to the request in hand, an east-west caller beyond L0 has a name,
and a call to the PDP is made only when the token in hand did not serve. `DelegationRecorded` (the answer
was to a request that names the certificate's workload), `StepUpRemediable` (a
step-up obligation comes from `step_up` alone, and the level it names passes every
gate) and `ReuseHonoured` (a handler that calls the PDP did not hold its own live
token; `Verify` accepts it as long as the statement asks) follow from both.

### The refinement

`NextRefines` maps each step of `PEP` to a step of `Enforcement` or a stutter, from
`IInv`: arrivals to `Ask`, the revocation check to `Clear` or `Deny`, a token that
verifies and covers to `Allow` on a living grant, an allowing answer of the PDP to
`Rely` on the grant it has just put on record, another PEP's to `Grant`, SETs to
`Bar`. The steps of one handler move its own stage only (`StageMove`). Without a
cache nothing is revoked (`RevokedNeedsCache`), so that skipping the check clears
rightly; the empty subject, which is never looked up, is left out of the barred ones
by `barredBar`.

### The chain

To one of the two PEPs, a step of the other is a change of its surroundings: tokens
it knows nothing of are issued and handed out, and time passes. `SurroundingsStep` in
`PEPProofs` says that `IInv` survives any such change that only adds to the record of
tokens, each of them granted by the PDP (`EdgeStep`, `InnerStep`, `ForwardStep`);
`SameGrants`, that both instances mean the same by that. `AttemptOK` then ties the
handlers to the user's attempt: what the edge serves is the user's payment at the
user's level, and the inner PEP's request is the same with the total for the amount.
`ChallengesOK` says that whatever asks for a level asks for AAL3, so that a user who
follows it stays within `AALs`; this is the part of `TypeOK` that is not a formality.

`TotalNeedsAAL3` is `HighValueNeedsAAL3` of the inner PEP, carried back by the middle
service and the edge (`TotalOK`). For `NoDeadEnd`, `PaymentsPass` follows a payment
through every gate of `Validate`, of Rego and of the ladder, so that `Check` can only
allow it, challenge a user at AAL2 or fail a call (`PaymentChecked`), and
`NoDeadEndOK` follows the three outcomes back to the user: an inner challenge as a
403 that the edge turns into a 401, a lost call as a refusal with `faulty` set.

### CAEP and revocation

An error or an application is tied to an emission, and an emission to the emitter
that performs it. `ProgressOK` says of an emitter half way: the deliveries behind
`next` failed or were applied, the first error is the least of the failed ones, and
its emission is pending and nobody else's. `TransitOK` says that a 202 comes from a
receiver that applied the SET (this is why a late answer of an earlier call does no
harm), `UnsignedOK` that nothing is known of emissions to come.
`SerialEmitsConverge` needs in addition that, while no delivery has failed, nothing
but the SET of the pending call is in transit, and each cache that did not restart
is the effect of the log up to the last event or the one before, depending on
whether the receiver has applied it (`DeliveredSoFar`).

`RevocationProofs` builds on both: a step of the composition is a step of `CAEP` or
leaves its variables alone (`LoopSteps`), so `IInv` carries over. `StandsOK` adds
that a standing revocation, once applied by the watched receiver, is in its cache,
and that every restoration of its subject is over: its call has returned and it is
not in the network, so it never will be again. A request that came after the
delivery was reported finds its subject barred, stays below `Clear`, and can only be
denied (`DoomedOK`).

### Facades

`AnswerOK`: an answer is an error or what `Evaluate` says of the request as the
transport decodes it. What is left is about operators: requests that differ in
whether a map is nil have the same decision, obligations and reason
(`SameForRules` and the lemmas after it, one per gate), and rule by rule the Go and
the Rego validator look at the same parts of a request.

### Identity

The age of a rotated SVID and the time to the loop's next tick never exceed the
interval together; once the tick has fired, the age exceeds it by at most the loop's
delay so far (`OnTime`). What is on its way in a handshake is older by at most the
handshake (`ShownOK`), and `IdentityAssumption` says that this is within the
lifetime by anybody's clock.

For `SetConsistent` the reader's progress has to be held against the writer's. `FilesOK`: from
its certificate on, a run writes a set of one CA, so complete files have one.
`LoadingOK`: as long as no run has begun since the certificate was read from complete
files, it is still the one in the files. `ReadBundle` then finds the bundle of
the certificate's CA unless a run has come between, which is what `torn` records
(`WholeSet`); the key is compared on the way (`LoadedFacts`). `RotationTransparent` is proved in
terms of what the refusing side trusts (`Reason`), and `ServedOK` says when that is its
own certificate's CA.

### Policy store

`VersionsOK`: nobody claims a version the store does not have. `ReplicaOK`: what a
process holds is the pulled version, then what `NewPDPService` makes of it, which an
engine was able to prepare; `SaidOK`: its last answer is that of this policy.
Versions only grow (`StoreGrows`), so all three survive other pipelines' uploads.

### What stays with TLC

* Liveness (`ChainAnswers`, `EmitReturns`, `RotatorRecovers`): out of the prover's
  reach.
* That the inductive invariants are no stronger than what holds was checked with TLC
  before each proof; `IInv` of `PEP` is kept as an invariant of `pep_edge`.

## 5. Not modelled

* Generated protobuf code.
* X.509 chain building, signatures, TLS records, S3, OPA's evaluator, OpenFGA and
  gRPC are external; the models have what the code uses them for.
* `ports/pip`'s identity provider is an interface nobody calls; its policy store is
  modelled by its only implementation, its attestor inside `PEP`.
* Parsing of configuration files and environment variables: the values are
  constants, and the checks of `parseConfig` their assumptions.
* Correlation ids, logging, health endpoints.
* Secrets: all PEPs and the PDP share one token secret. A PEP with another secret
  would see only tokens that do not verify, which the model has.

## 6. Plan

Done: contract, policy, tokens and PDP as operators; the PEP; CAEP; the facades; the
abstract enforcement point and the refinement; the chain of PEPs; revocation from end
to end; identity; the policy store and the PDP's start-up; proofs of all their safety
properties and of the refinement. What could be added:

1. `Revocation` instantiates `Enforcement` in the PEP's place, on the strength of
   `ImplementsEnforcement`. A refinement mapping from the composition of `CAEP` with
   `PEP` itself would make that step a theorem, too.
2. `Chain` as a refinement of an abstract promise to the user: one decision per
   attempt, at the higher of the two levels its hops ask for.
3. A chain of any number of hops, with an induction over its length that this prover
   does not do.
