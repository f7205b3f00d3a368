# tower-guard-rs in TLA+

This directory specifies `tower-guard-rs`, a tower middleware that screens HTTP
requests with the Guard engine before they reach the wrapped service. The
specifications are written from the code (`src/src/*.rs`), checked on small
instances with TLC, and the results that matter most are proved for every
instance with TLAPS. Line numbers below are those of `src/src/` unless a path
says otherwise.

## 1. The system

| Component | State it keeps | Operations | Interacts with |
|---|---|---|---|
| `GuardService::call` (service.rs:148-824) and `forward` (830-859) | per request: extensions (`IpGateDecision`), skip flags, buffered body, scan verdict, the answer | about twenty-five checks in a fixed order, each may answer and return | every other component |
| `buffer_body` (1259-1279) | the buffer, the cap | pull a frame, refuse, end | the client's body stream; awaits |
| `scan_request`, `scan_views`, `decode_query_component` (1285-1399) | none | pick and decode the surfaces of a request | the held body; the engine's scan |
| Shared stores: `BanState` (lib.rs:368-377), `RateLimiter`, wired by `build_stage` (lib.rs:1428) | bans, violation counters, sliding windows | ban, count, record a hit, `reset` | all requests, over all clones of the layer; operators through handles they keep |
| Response pass `apply_response_processor` (972-1034) | the view of one answer; counters of the usage and return rules, a ban store that may or may not be the layer's | count an answer, ban, set headers, emit an event, custom modifier, `on_error` | every answer; the ban store; closures of the host |
| `GuardLayer` builders, `from_security_config` (lib.rs:600-802), `Layer::layer` | configuration, handles on stores | constructors, builders, wrap, clone | fixes what the others are given |
| Standalone stages (stages.rs) | none of their own | `pass_gate`, `provided_layers` | the same engine stages, composed by the host |
| Cloud refresh (lib.rs:1281) | cloud table; the single flight is the engine's | accept or refuse a refresh, swap a provider | background scheduler; the cloud check; the status service |
| Status service (status.rs) | none, reads the cloud table and the geo manager | render a document row by row | the host's router |
| The examples (examples/*/src/main.rs) | two guarded trees with thresholds of their own | dispatch by path, route | the guard, the wrapped routers |
| `GuardBody`, `response.rs` | none | delegation, formatting | none |

What is hard here is sharing and order, not any one check: clones of one layer,
some of them passive, serve requests concurrently and share three stores, each
of which is behind its own lock and is accessed several times by one request;
which clone shares which store depends on the order in which a host called
builders, wrapped and cloned; the body and the wrapped service are awaits, at
which a client may stall and a server may drop the future; closures of the host
may panic; and twenty-five early returns, each with its own bypass, passive
mode, skip state, hook and response pass, must agree with each other. What makes
the components correct:

* pipeline: nothing reaches the wrapped service past a check that applies to
  it; nobody is refused but for something against it, in the request or in the
  stores at that moment; one answer, final; the response pass and the hook once
  per answer;
* stores: only earned bans, no threshold missed, the limit under every
  interleaving, an announced ban is a stored one;
* body and scan: held whole or refused, bounded intake, an error is never an
  end, and the engine sees what a handler will decode, decoded once;
* response pass: no closure of the host damages an answer, and the event is sent
  once, for forwarded answers only;
* configuration: what a config asks for is there, in the mode it asks for, or
  there is no layer; stores are shared exactly as far as their handles are;
* status: no row older than its reader, and none more than one refresh behind a
  row read before it;
* the whole: every request settles unless someone outside never answers.

The hazards are listed one by one, with their lines, in `PROJECT.json`.

## 2. The modules

| Module | What it is |
|---|---|
| `BodyVerdict` | abstract: what the pipeline relies on when it awaits the body |
| `BodyBuffer` | `buffer_body`, frame by frame; implements `BodyVerdict` |
| `ScanViews` | behind `BodyBuffer`: the surfaces of the request, the query decoded byte by byte |
| `GuardStage` | the shared stores and what happens to them out of band |
| `GuardContract` | abstract: what a layer with a ban store promises the service it wraps |
| `GuardPipeline` | the core: concurrent requests going through `call`, over `GuardStage` |
| `GuardProperties` | the properties of `GuardPipeline` and its refinement of `GuardContract` |
| `GuardClaims` | what a document or comment says of the pipeline and the code does not do |
| `StageChain` | the standalone layers of `provided_layers`, over `GuardStage`; implements `GuardContract` |
| `GuardConfig` | a layer as a value: constructors, builders, `from_security_config`, `build_stage` |
| `GuardWiring` | a host that builds, wraps and clones layers over `GuardConfig`, and the services serving meanwhile |
| `ResponsePass` | `apply_response_processor` over one answer, with the host's closures |
| `CloudStatus` | the cloud table, its refresh, and the readers of it |
| `HostApp` | the example applications: dispatchers and trees over `ResponsePass` and `CloudStatus` |
| `BodyBufferProofs`, `ScanViewsProofs`, `GuardPipelineProofs`, `StageChainProofs`, `GuardWiringProofs`, `HostAppProofs` | the theorems about the module each is named for |
| `GuardAnswerProofs`, `GuardStoreProofs` | more about `GuardPipeline`: each request's own course and answer; the counts its requests share |
| `MCScanViews`, `MCGuardPipeline`, `MCStageChain`, `MCGuardWiring`, `MCHostApp` | instances for TLC |

`GuardPipeline` and `StageChain` both extend `GuardStage`, and both instantiate
`GuardContract`: the two forms of the layer stand on the same stores and keep the
same promise. `ScanViews` extends `BodyBuffer`, and `HostApp` composes the
actions of `ResponsePass` and `CloudStatus` with its own: it keeps of the
screening the outcome, whose arms are those of `GuardPipeline`.
`PROJECT.json` maps each definition to its source lines. Definitions whose
comment starts with `Mutant:` are deliberate errors: each is a plausible bug
that one property must catch.

### GuardPipeline and the code

`shape[r]` is the request as it arrived, and never changes: its address
(`GuardClientIp`, or none), whether it came through a clone of the layer that was
switched to passive mode, whether its path is excluded or it is a preflight,
what its body does, the decision an outer layer left in its extensions
(`prior`), the bypasses of its route (`bypassed_checks`), the conditions it
meets (`trips`) and the route's overrides. What a check looks at in the request
(a header, a country, a pattern, the clock) is one condition in `trips`;
*whether the arm runs, in which order, who is excused from it, and what it does*
is the model. Each arm of `call` is one action, named after its check, guarded
by `pc[r]`. An early return is `Refuse(r, condition)`: `answer[r]` records on
what the request was refused, which stands for status and body, and the request
goes to the response pass.

* `gate[r]` is the `IpGateDecision` in the extensions. `StaleSkip` is
  `facts.gate`, copied at 153 before the gate of this layer runs; the geo, cloud
  and user-agent arms use it, the tiers read the extension again (762).
* `skip[r]` holds `skip_global_ip_lists` and `skip_global_countries`.
* `IpGate`, through `RespondOwned` and `Respond`, runs two response passes over
  a denial, as 1225 and 312 do.
* The engine's `decide_tiers_observed` (764) is split at the accesses to the
  stores that another request can interleave with: `RateTiers` (the limiter and
  the count of a crossing), `TierBan` (the ban of a crossing), `Feed` (the count
  of a threat), `FeedBan` (its ban). Between the count and the ban other requests
  of the address run.
* `ResponsePass` counts the answer for the return rules and may ban, in the
  layer's store if `SharedBans`, otherwise in `procBans`: `from_security_config`
  gives the processor a manager of its own (lib.rs:794).
* `Disconnect` is the server dropping the future, possible only at an await.

`GuardStage` says what one access to a store does. The engine is another crate,
so this is taken from how service.rs calls it and from the tests: the limit of
hits in a window, the violation count whose threshold-th one and each later one
bans, that whitelisted requests are not counted and exempt ones are
(`exempt_ip_violations_still_count`, service.rs tests), and that a crossing
that bans still answers 429 (`rate_limit_autoban_bans_at_the_threshold`). These
definitions are marked external in the map.

`Environment` chooses what happens out of band: an operator bans through a
handle, a ban lapses or is lifted, `GuardLayer::reset`, a window slides.

### BodyBuffer and the code

`DataFrame(n)`, `TrailersFrame` and `FrameError` are the three things one
`body.frame().await` can yield, `EndOfStream` the loop's end, `Dropped` the
future dropped at the await. `BodyCap` is the resolution of the cap at 409-412:
the route's limit if it fits a `usize`, else the layer's. `offered` is a history
variable: the bytes of every data frame pulled, kept or not.

### StageChain and the code

`ProvidedLayers` is the vector of `provided_layers` (stages.rs:597-644), a
function of the builders that were called (`installed`), and the model is the
composition its documentation prescribes (stages.rs:590-595). `facts[r]` is what
`RequestFacts::extract` yields; every gate extracts it anew, and since no layer
changes the extensions it is the same at each. `AtGate(r, name)` is the gate
whose turn it is; `Refuse` and `Forward` are the two ends of `pass_gate`.
`Decides` is the verdict of a stage that keeps no state: what it looks at is in
`trips`, whom it skips is in the arguments it is given (geo, cloud and user agent
get the gate decision, geo and cloud need an address). `BansGate` and
`TiersGate`/`TierBan` are the two halves of the rate-limit stage, split at the
accesses to the stores as in `GuardPipeline`; no route tier and no finding reach
them (320). `pass_gate` decides inside `call`, before a future exists, so a
request cannot be dropped between two gates: only threads interleave there, and
`Disconnect` is possible in the wrapped service alone. Dropping the future of a
refusal only leaves an answer unread and is not a step. The stages are built by
the host, each with its own passive switch; the model gives them one.

### ScanViews and the code

`Begin` is the entry of `scan_request` with the parts and the held body, and
chooses what the path and the raw query are. The query is taken apart as the
chain of iterators does it, lazily: `NextPair` is the next piece `split('&')`
yields, from `from` to the mark it ends at (`First`), which the filter drops if
it is empty and `NameAndValue` splits at its first `=` otherwise; `parts` is what
is left to decode of the pair at hand. `Escape` and `Literal` are the two
branches of the loop of `decode_query_component`, over the component with the
plus signs already replaced (`Spaced`), and `ComponentDone` its end. `Radix`
takes a plus sign before a digit, as `u8::from_str_radix` does; since the plus
signs are gone by then, `Escape` never meets one, which is part of what
`WholeRequestScanned` says. `EngineScans` hands over the surfaces; the engine's
verdict is nondeterministic, and its panic is `ScanOutcome::Failed`.
`UnquotePlus` and `QueryScanned` are the reference, written without a loop: they
say where in the text each decoded character and each pair begins
(`CharStarts`, `PairStarts`), and that what begins there is found at its `Place`.
Lossy UTF-8 is one replacement character per bad byte.

### GuardConfig, GuardWiring and the code

A layer is a record with the fields of `GuardLayer` the adapter acts on; a store
is a handle, so copying the record copies the handle and shares the store, as
`Clone` of a limiter, a ban manager or counters does. `Assembled` is
`from_security_config` part by part in the order of the code, over four new
handles; `ConfigError` is the chain of `?`. `BuildStage` and `Layer` are the
engine stage that wrapping builds from the handles the layer has at that moment:
a builder called afterwards reaches layers wrapped later and no service wrapped
before.

`GuardWiring` is the host: it constructs a layer, calls builders, wraps it in
`Wraps`, clones a service, installs one ban manager twice, bans through a handle
it kept and resets through the layer or a service, in any order, while the
services serve the requests of one address. A request is one step here, because
`GuardPipeline` has its interleavings; what is left of it is the hit, the count
and the ban. `tally` is history: what each store's *wired* services together let
through, so a service whose stage stands on a store other than the one its layer
was wired with would show. `origin` remembers what a service was wrapped from.

### ResponsePass and the code

`Composes` is where an answer enters the pass: `base` keeps it as composed,
`reply` as it stands. `Process` makes the view, `Emit` is
`emit_headers_applied_event`, `Modify` the modifier under `catch_unwind`: it
returns with anything in the view, or panics, and then the clone taken before
comes back. `OnError` is the hook, called outside the catch, so its panic leaves
by `"escaped"`. `Apply` writes the view back, the status only if it is one, and
`rounds` sends the gate's denial round again. An answer has a set of values under
each name, since the wrapped service may send a header twice; the view has one
entry at most. What lands is inserted: it takes the place of every value the
answer had under that name (1014-1022), so a modifier, and the processor too, may
replace what the wrapped service set, and an entry that is no header is skipped.
`Rewrites` are the ways a modifier may rewrite the view, header by header.

### CloudStatus, HostApp and the code

`Schedule` is `schedule_refresh` when it answers true; when it answers false
nothing changes. That it answers true only while no refresh is running is the
engine's doing (lib.rs:1281-1286 delegates), and an assumption here; of the
properties only `RowsInOrder` needs it. A refresh swaps the providers one by
one, in any order, and a fetch that fails leaves a row that is not ready. A row
has a load number, which grows with every swap: it is what tells an old row from
a new one. `ReadRow` reads one row of `cloud_provider_status` under one lock,
`ReadGeo` the geo component; `Consults` is the cloud check of a guarded request,
which reads one provider of the same table.

`SimpleCall` and `AdvancedCall` are the dispatchers of the two examples, with the
prefix comparison of the second. The status route is mounted by the host, as
status.rs describes it; the examples do not mount it themselves. Scores and
thresholds are counted in half points, so that the half of a threshold is a
number. `instance` records whether the wrapped service was called in a clone
that `poll_ready` had asked.

## 3. What is checked

`GuardPipeline` counts are capped: `violations` at `BanThreshold` (a count at
the threshold bans, and so does any later one, so counts above it behave alike)
and the rule counters one past theirs (likewise). These caps keep every state
space finite with no other bound than the set of requests.

| Run | Instance | Shows |
|---|---|---|
| `body_scan` | 5 frames of 0-3 bytes, caps 0, 2, 3, 4 and one over `usize`; every query of up to 3 characters over an alphabet of 9, and 11 longer ones | `TypeOK`, `NoTruncation`, `BoundedIntake`, `WholeRequestScanned`, `NeverInsideEscape`, `ImplementsVerdict` |
| `screening` | one request of each of the shapes of `ScreeningShapes`, through active and passive clones | `ScreenedBeforeInner`, `RefusedWithCause`, `PassedOnce`, `HookOncePerBlock` |
| `stores` | 3 concurrent requests of 11 shapes, one of a client the lists deny, limit 1, ban threshold 2, rules that ban past 1, one shared ban store | `TypeOK`, `LimitHolds`, `ThresholdBans`, `CrossingsBan`, `BansAreEarned`, `ReturnBansEarned`, `AnnouncedBansHold`, `RefusedOnRecord` |
| `contract` | 2 concurrent requests, ban threshold 1, every source of bans, bans and lifts by an operator, resets, sliding windows; `FairSpec` | `ImplementsContract`, `FinalAnswer`, `Settles` |
| `stage_chain` | 2 concurrent requests, limit 1, threshold 1, operator bans; all stages (active and passive), a few, all but the custom checks | `TypeOK`, `ReferenceOrder`, `LimitHolds`, `CrossingsBan`, `ImplementsContract` |
| `wiring` | 2 services, every config with one knob set and the combinations whose order matters, in both modes; 2 builder calls, 7 stores, 4 requests, limit 2, threshold 2 | `TypeOK`, `LimitShared`, `ResetForgets`, `ThresholdShared`, `OneMode`, `FailClosed`, `BansReachEveryService` |
| `app` | both examples, 2 concurrent requests, 3 wirings of their layers, a modifier that writes 201 or 42 and takes over, spoils or drops headers in 3 ways, 2 providers, 2 refreshes, one failing fetch | `TypeOK`, `PanicLeavesUnmodified`, `OneEventPerForward`, `AnswerSurvivesEdits`, `RowsAreLive`, `RowsInOrder`, `AdminScreensHarder` |

*Why the bounds are enough.* A check is passed or not by one request alone, so
`screening` needs one request and instead enumerates what it can be: every
condition for a blacklisted, whitelisted, exempt and unattributed client, under
every bypass and route override, with and without an inherited decision, and
every two conditions together, with a body that fits or does not, of a client the
lists deny or do not, in both modes; what comes first of several things is settled
between each two of them (2.6 million states). The properties about sharing need one request
more than the limit or the threshold: with limit 1 and threshold 2, three
requests hold a crossing, the step between its count and its ban, and a
bystander. In `stage_chain` the four installations hold every pair of neighbouring
stages, with and without the split one, and the rate stage is always there
(without it the chain is covered by the theorems of section 4 alone); a client
meets each stage alone and together with the last. What two requests can do to
each other there goes through the two stores, which hold one request's hit and
one ban. In `body_scan` an escape is three characters, so every query of that
length meets every way an escape can begin, be cut or be bad; the longer ones
put one escape behind another, decode to a percent sign, a plus or a separator,
or leave a part empty. In `wiring` seven stores are the four of a config, and
three made by builders; two builder calls and two services let a store be
replaced between two wraps, and four requests are one more than the limit and
the threshold reach together. In `app` a guarded request shares nothing with
another but the ranges, so one of the two has no guard over it (which the theorems
do not assume); two refreshes are what a document needs to mix rows of both.

Deadlock is checked in every pipeline run, in `stage_chain` and in `app`
(`Finished` is the only way to stop). It is not in `body_scan`, where the loop
and the scan end, nor in `wiring`, where a host that has used up the bounds has
no call left to make.

*Fairness.* `Fairness` is weak fairness of each request's `Screens`: the arms
that are not awaits, plus the call of the wrapped service, which run to the next
await in one poll; an executor polls a future that can progress. Neither the
client (`BufferBody`) nor the wrapped service (`InnerReturns`) is fair, because
nothing in the code bounds them: there is no timeout in `buffer_body` or
`forward`. So `Settles` says that each request settles *or* is for ever in one
of those two awaits. The other runs state no liveness: a chain of gates runs
inside one `call`, and a refresh ends when its fetches do, which the engine and
the network decide.

*Symmetry* of the requests is used in `stores` and `app` (invariants only).

### Disagreements between the code and what is said of it

Five runs end in a violation, each of one claim of the repository:

* `claim_body`: an excluded path is forwarded with an empty body (158-160, 841);
  docs/api.md:85-86 promises it byte-identical.
* `claim_skip`: geo, cloud and user agent use the decision from before the
  layer's own gate, so the layer's own whitelist and exemptions do not reach
  them; docs/api.md:77-78 and service.rs:703-704.
* `claim_scan_body`: `detection_scan_body = false` is dropped unless one of the
  exclusion lists is set as well (lib.rs:683-687, 712); lib.rs:585-587 and
  service.rs:1304.
* `claim_hook`: the `on_error` hook runs outside the catch, so its panic is the
  request's (1004-1010); lib.rs:1077-1078.
* `claim_ready`: the wrapped service is called in a clone that `poll_ready` never
  asked (143-149, 842); lib.rs:137.

The following were met while modelling and have no run of their own; the model
does what the code does.

* A passive layer still refuses on the route's own arms (258, 294, 455, 485, 545,
  585, 720), where lib.rs:1101-1102 says it observes.
* From a `SecurityConfig`, bans of the usage rules go to a store the ban arm does
  not read (lib.rs:794), against service.rs:195-196.
* The return rules count a denial of the IP gate twice (1225 and 312), against
  tests/integration.rs:995. `ReturnBansEarned` counts such a denial as two.
* Blocks of the route's arms, the usage ban, geo and user agent fire no hook;
  lib.rs:1049 says each block does.
* The ban arm comes after the body and the scan, not before (lib.rs:897).
* It takes no gate decision, so exempt addresses under a ban are refused
  (lib.rs:861 and CHANGELOG.md:92, against lib.rs:903).
* Without a processor the response modifier is never called (service.rs:979,
  against lib.rs:1062).
* A comment in the pass says that no header of the view can fail to convert
  (service.rs:1015-1017); a modifier can write one that does, and it is skipped.
* lib.rs:71 has an exemption open a whitelist, which the code and the test at
  service.rs:2366 deny.

## 4. What is proved

For every value of the constants, under the assumptions the modules state:

| Assumption | Says |
|---|---|
| `CapAssumption`, `FrameAssumption` | caps and frame sizes are natural numbers |
| `DecoderAssumption` | the alphabet holds the marks and the digits, no mark is a digit, `ByteOf` is defined where `from_str_radix` is |
| `StageAssumption`, `PipelineAssumption` | positive limit and threshold, Boolean switches, natural bounds, shapes of `ShapeSpace` |
| `ChainAssumption` | calls of `CallSpace`, installations of `Builders` |
| `NoneAssumption`, `WiringAssumption` | `None` is no value of the options; configs of `ConfigSpace`, positive limit and threshold, natural bounds |
| `PassAssumption`, `CloudAssumption`, `HostAssumption` | wirings of `WiringSpace`, rewritings that keep, drop, overwrite or spoil, a list of at least one provider without repetition, an even threshold (a whole number of points) |

| Theorem | Statement |
|---|---|
| `BodyBufferProofs!TypeCorrect`, `!WholeBody`, `!IntakeBounded` | the invariants of `BodyBuffer` |
| `BodyBufferProofs!LoopImplementsVerdict` | `Spec => ImplementsVerdict` |
| `ScanViewsProofs!ScanKeepsBody` | `ScanSpec => Spec`: the scan is a behaviour of the loop |
| `ScanViewsProofs!BodySurfaceWhole` | the body surface is all of what was sent |
| `ScanViewsProofs!RequestIsScanned` | `ScanSpec => []WholeRequestScanned` |
| `ScanViewsProofs!DecodesOnce` | `ScanSpec => []NeverInsideEscape` |
| `GuardPipelineProofs!TypeCorrect` | `Spec => []TypeOK` |
| `GuardPipelineProofs!BansEarned` | `Spec => []BansAreEarned` |
| `GuardPipelineProofs!AnnouncedBans` | `Spec => []AnnouncedBansHold` |
| `GuardPipelineProofs!AnswersAreFinal` | `Spec => FinalAnswer` |
| `GuardPipelineProofs!RefusesOnRecord` | `Spec => RefusedOnRecord` |
| `GuardPipelineProofs!PipelineImplementsContract` | `Spec => ImplementsContract` |
| `GuardAnswerProofs!ScreenedFirst`, `!RefusesWithCause` | `ScreenedBeforeInner`, `RefusedWithCause`: the two sides of the screening |
| `GuardAnswerProofs!PassesOnce`, `!HooksOnce` | `PassedOnce`, `HookOncePerBlock` |
| `GuardAnswerProofs!NeverBack` | each step of a request takes it further on a way of 26 places |
| `GuardStoreProofs!LimiterHolds` | `LimitHolds` |
| `GuardStoreProofs!ThresholdAlwaysBans`, `!CrossingsAlwaysBan` | `ThresholdBans`, `CrossingsBan` |
| `GuardStoreProofs!ReturnsEarned` | `ReturnBansEarned` |
| `StageChainProofs!ChainTypeCorrect` | `Spec => []TypeOK` |
| `StageChainProofs!ChainInReferenceOrder` | `Spec => []ReferenceOrder` |
| `StageChainProofs!ChainImplementsContract` | `Spec => ImplementsContract` |
| `StageChainProofs!ChainLimitHolds`, `!ChainCrossingsBan` | `LimitHolds`, `CrossingsBan` |
| `GuardWiringProofs!WiringTypeCorrect` | `Spec => []TypeOK` |
| `GuardWiringProofs!LimitIsShared`, `!ResetReachesAll`, `!ThresholdIsShared` | `LimitShared`, `ResetForgets`, `ThresholdShared` |
| `GuardWiringProofs!BansAreFelt` | `Spec => BansReachEveryService` |
| `GuardWiringProofs!OneModeThroughout`, `!ConfigFailsClosed` | `OneMode`, `FailClosed` |
| `HostAppProofs!AppTypeCorrect` | `Spec => []TypeOK` |
| `HostAppProofs!PanicsUndone`, `!EventPerForward`, `!EditsSurvived` | the invariants of the response pass |
| `HostAppProofs!RowsStayLive`, `!RowsStayOrdered` | `RowsAreLive`, `RowsInOrder` |
| `HostAppProofs!AdminStricter` | `Spec => []AdminScreensHarder` |

*The pipeline.* None of the properties is inductive alone. The invariant `IInv`
joins them with two facts of the pipeline:

* `BansDue`: a request at `tier_ban` or `feed_ban` has a violation on record at
  the threshold. The step that bans looks at nothing; that its ban is earned,
  and that it has an address to ban at all, was settled by the step that counted.
* `Undecided`: a request still in an arm has no answer and was not forwarded.
  Without it `FinalAnswer` and the phases of the contract could not be told from
  the `pc`.

Both were first checked with TLC. The thirty actions are dealt with twice: each
keeps the types (`EarlyType` to `TailType`), and each comes to an `Outline`: it
lets the request on (`Onward`, never past the ban check without consulting the
store), concludes it (`Concludes`, banning only what it says, and on a ban or a
count only with it in the store, `OnRecord`), is about the wrapped service
(`Inner`), or is a response pass (`Responds`). Each invariant and the refinement
are then proved over those four cases instead of thirty. Counters never go back
(`CountersGrow`), which is what keeps a ban earned.

*A request's course.* `Answered` adds to `IInv` what each request has behind it.
`Screened` says, of the arm a request is at, that every check of an earlier arm
was met or excused: the arms have a `Rank`, `Met` is what passing each one means,
and no step moves a request past an arm without its condition. At the wrapped
service that is `ScreenedBeforeInner`. `Passed` and `Fired` count, along the same
ranks, the response passes and the hook calls a request has had so far.
`StepApart` says that a step leaves the other requests' part alone, so each
conjunct is proved for the request that moved.

A refusal can rest on the request, which is fixed when it arrives, or on the
stores, which others write to meanwhile, and the two need different forms.
`RefusedOnRecord` has the stores: it is about the step that refuses, since a ban
may lapse and a window slide afterwards, and says what they hold in it. The
answers given one access after the count are held to it by `BansDue`. For bans the
contract says the same thing in its action `Bar`.

`RefusedWithCause` has the rest. It is the converse of `ScreenedBeforeInner` and
needs an invariant of its own, `Caused`, because what excuses a request is
decided arms ahead of the refusal it excuses from. `Noted` says what an arm may
take for granted: behind the route's rules their whitelists are in `skip`, and a
request on its way to a ban of the limiter or of the feed is one the limiter or
the feed had reason to count. That a refusal also names the *first* thing the
request meets is `AllOrdered`: the condition an arm answers for stands no later
than the arm itself (`InPlace`, over `CheckedAt`), and `Cleared` leaves nothing
the request meets at an earlier place (`ClearedComesFirst`). Once answered
nothing can come in front, since what is met is fixed by the request as it
arrived. A property that only asked for *a* cause would let two arms change
places.

`NeverBack` gives every label a `Distance` that each step of the request
increases. That is what there is to prove of `Settles` without fairness: a
request that goes on ends.

*The counts.* The three statements about cardinalities compare a set of requests
with a counter of the stores. `Ledger` sorts the steps by
what they do to both: no step adds more than the request that moves, and one that
adds it books it in the store in the same step. So whoever is behind the limiter
is in its window (`HitsRecorded`), a threat that is only blocked has its violation
on record (`TicksCounted`), and a match the rule counted belongs to an answer that
has left (`MatchesAnswered`). The limit and the thresholds come in only where the
stage compares. A matching denial of the gate is booked twice, by the pass inside
`enforce_ip_gate` and by the one behind it: `GateDenials` are those whose first
pass is over, so each of the two adds one to the side it belongs to.
`CrossingsBan` cannot be stated by a count alone, since the crossing that reaches
the threshold is answered only after its ban: `CrossingsCounted` says that an
address that is *not* banned was given no more 429s than it has violations, and
fewer than the threshold. An answer is given with a count below the threshold or
with the ban (`StepCrossings`), so there is no third case.

The converse of the limit, that nobody is refused by it early, needs no count: the
only steps that put a request on its way to a 429 are those of the tiers that find
the window full (`OnlyTiersTurn`, `TurnedFromFull`), a request turned away adds no
hit, and a full window takes none from anyone (`StepLeavesFull`), so it is still
full, and of others, when the 429 is given, bans and response passes later.

*The chain.* The difficulty is the vector, whose length and contents depend on
what is installed. `LayersOrder` shows that it is strictly ascending in the
reference positions and holds every installed stage, joining one builder's layer
at a time (`AscendingJoin`, `OccursJoin`); `LayersType` that the ban arm is in it
whenever banning is on. The invariant `Screened` says of each request that every
gate behind it had nothing against it, that a refusal names the gate it is still
at, and that a hit in the window is one of a gate it has passed: with
`LayersOrder` that is `ReferenceOrder` (`ScreenedOrder`), but for what a refusal
rests on. That is `Caused`: a layer refuses only in active mode and only for what
it has against the request, and the vector holds no layer of a stage that was not
installed (`LayersInstalled`, again one builder at a time). `ChainLimitHolds` rests on
the limiter being in the vector of an active stage that limits (`LimiterOccurs`), on
a request past it having its hit in the window, and on hits staying there
(`HitTakenStays`); its other half on a refused one having none
(`RefusedTakesNoHit`) and full windows staying as they are. `ChainCrossingsBan` repeats the argument of the pipeline's over
the same two stores.

*The scan.* What a loop computes is said by places instead of by recursion, so
that the loop is its own induction: `Progress` says of the pieces how far they
are decoded (`BetweenPairs`, or `DuringPair` with one or both components at
hand, `AtHand`) and of the decoder that it stands where a character begins and
has, each in its place, those that begin before (`Unquoting`). Both count with
`Before`, the members of a set below a position; a step that goes from one
member to the next adds exactly that one (`NextPlace`). That it does go to the
next one is the arithmetic of the code: no escape begins inside another
(`EscapesApart`) and a literal step cannot end in one (`LiteralsApart`), because
the digits of an escape are no percent signs; between two marks with nothing
between them no pair begins (`NoPairBetween`), and a piece with something in it
is one pair, whose first `=` is the first mark of the query from there
(`PieceIsPair`). `EscapeIsOne` is where the replaced plus signs matter. TLC checked
`Progress` before it was proved. `RequestIsScanned` joins it with
`BodySurfaceWhole`; `ScanKeepsBody` makes everything proved of the loop hold of
the scan.

*The wiring.* The invariant has four parts. `StoresOK` are the types, `HostOK` and
`ServicesOK` say that a layer stands on handles made so far, that the stage of a
service stands on what its layer was wired with (`Staged`), and that a layer from
a config still has what the config asks for wherever the host did not override it
(`Faithful`). `Booking` relates history to stores: what was admitted over a
limiter is at most the hits its window holds, and the plain 400s are at most the
violations its counters hold. The properties about sharing follow from `Booking`
*through* `Staged`: without it a service could admit over a store other than the
one its history is booked on. `AssembledFaithful` carries `from_security_config`
part by part. The second half of `ThresholdShared`, that a ban without an operator
is one the counters came to, is inductive over the same invariant
(`StepKeepsEarned`): counters only grow, a wrapped service keeps its stage, and the
one step that bans finds its counters at the threshold (`ThreatEarns`).

*The application.* `PassInv` is a conjunction per request: what an answer not
yet composed looks like (`Fresh`), that a request in the pass has a processor
and a round ahead (`InPass`), how often the closures were called (`Called`),
that without a modifier's return the reply is the composed one, the view has no
entries but the processor's and they alone replace anything (`Unmodified`), when
the event is due (`Announced`) and what is left of it after edits, with whose
the entries of the view are (`Survives`). `Announced` must count the rounds:
only a generated answer goes round twice. `CloudInv` says that any two loads of
the table differ by at most one (from `TableOK`, by the engine's single flight),
that a row read is between the row its reader found and the live one, and is the
live one wherever the load is, and that a request not accepted has read nothing;
`RowsInOrder` follows from the first two together. `AdminInv` says of a request
on the admin tree that it is still ahead of detection, was below the threshold
or has an answer of the guard.

*Model-checked only.* Of the properties of the passing runs, one: `Settles`,
which is liveness under fairness and out of the prover's reach. Every other
invariant and action property they check, and each refinement, is a theorem. The
violations the claim runs show are TLC's by nature.

## 5. What is not modelled

* The engine's inside: detection, countries, per-category and per-route
  thresholds, the user-agent stage's escalation store. One limit, two kinds of
  violation and one threshold stand for them. The distributed stores, with their
  failure modes, are the engine's too.
* `GuardConfigError::Ban`: the knobs of banning are valid in every config here.
  The other three errors are modelled.
* Texts and layout: what a block says, `Retry-After`, `Location`, the JSON of the
  status document and its escaping, log lines and the contents of observability
  events; `agent_stats`.
* `GuardBody` frame by frame: it delegates to the body it holds, and which one
  that is is in `ResponsePass`.
* `host_of_authority`, which picks the host out of an authority for the HTTPS
  redirect.
* The environment variables of the examples other than the admin threshold, and
  their accept loops.
* The time in windows and bans, which is the out-of-band steps `WindowSlides`
  and `BanLifts`.
* What a passive processor does of a usage rule that goes past its bound, and
  whether a passive detection that is not counted fires the hook, is the
  engine's: both outcomes are possible in the model.

## 6. Plan

What is left, in this order:

1. The distributed stores: fail open, fail closed with 503.
2. `host_of_authority` over bounded inputs against a reference definition.
