--------------------------- MODULE GuardPipeline ---------------------------
(***************************************************************************)
(* GuardService::call (src/src/service.rs): the checks one request goes    *)
(* through, in the order of the code, one action per arm.  Requests run    *)
(* concurrently on clones of one GuardLayer, some of them switched to      *)
(* passive mode, and share the stores of GuardStage and the response       *)
(* processor's rule counters.  An arm that refuses records the condition   *)
(* it refused on in `answer`, which stands for status and body; the        *)
(* response pass over it is a step of its own.                             *)
(***************************************************************************)
EXTENDS GuardStage

CONSTANTS
  NoIp,            \* no GuardClientIp extension: the request is unattributed
  Shapes,          \* what the requests of this instance are, see ShapeSpace
  GateInstalled,   \* with_ip_gate
  Whitelist, Blacklist, Exempt,   \* the gate's lists
  Processor,       \* with_response_processor, CORS on
  SharedBans,      \* the processor was given the layer's IpBanManager
  Observability,   \* with_observability and with_on_block
  UsageThreshold, ReturnThreshold,   \* of the behaviour rules: strict bounds
  Flagged          \* answers whose status the return_pattern rule matches

Identities == Ips \cup {NoIp}

\* Conditions of the route's carrier and failures of a check: the code that
\* refuses on them consults no passive mode.
RouteConditions ==
  {"route_ip", "bad_route_ip", "route_country", "route_headers",
   "route_referrer", "route_validator", "route_time_window", "bad_cloud",
   "route_user_agent", "bad_user_agent", "bad_tiers", "scan_failed"}

\* Conditions decided by an installed stage, which its passive mode mutes.
StageConditions ==
  {"emergency", "https", "headers", "referrer", "validator", "time_window",
   "geo", "cloud", "user_agent", "custom_request"}

\* Refusals the pipeline reaches from state, from the lists or the body.
Refusals ==
  RouteConditions \cup StageConditions \cup
    {"usage_ban", "ip_gate", "too_large", "read_error", "banned",
     "rate_limited", "activity_banned", "suspicious"}

Answers == Refusals \cup {"none", "preflight", "inner", "inner_error"}

\* The refusals whose code fires the on_block hook.
Hooked == {"ip_gate", "suspicious", "banned", "rate_limited", "activity_banned"}

CheckNames == {"all", "ip", "penetration", "ip_ban", "clouds", "rate_limit"}
Skipping == {"whitelisted", "exempt"}
Decisions == Skipping \cup {"none", "allowed"}

ShapeSpace ==
  [ip : Identities,
   passive : BOOLEAN,     \* it came through the clones in passive mode
   kind : {"plain", "excluded", "preflight"},
   sends : {"nothing", "data", "too_much", "broken"},
   prior : Decisions,                 \* IpGateDecision an outer layer left
   bypass : SUBSET CheckNames,        \* the route's bypassed_checks
   trips : SUBSET (RouteConditions \cup StageConditions \cup {"threat"}),
   route : SUBSET {"usage", "ip_whitelist", "country_whitelist", "no_detection"}]

ASSUME PipelineAssumption ==
  /\ NoIp \notin Ips
  /\ Shapes \subseteq ShapeSpace
  /\ {GateInstalled, Processor, SharedBans, Observability} \subseteq BOOLEAN
  /\ UsageThreshold \in Nat /\ ReturnThreshold \in Nat
  /\ Flagged \subseteq Answers

VARIABLES
  shape,      \* the request as it arrived: never changes
  pc,         \* the arm the request is about to run
  gate,       \* the IpGateDecision in the request's extensions
  skip,       \* skip_global_ip_lists and skip_global_countries
  body,       \* the body buffer: unread, empty or held
  verdict,    \* the scan flagged the request
  answer,     \* what the guard answers, "none" while it has not decided
  hooks,      \* times on_block fired for the request
  passes,     \* times the response pass ran over its answer
  inner,      \* body the wrapped service was called with
  usage,      \* per identity, observations of the route's usage rule
  returns,    \* per identity, matches of the return_pattern rule
  procBans    \* addresses banned in a store only the processor holds

reqVars == <<gate, skip, body, verdict>>
outVars == <<answer, hooks, passes, inner>>
procVars == <<usage, returns, procBans>>
vars == <<shape, pc, reqVars, outVars, procVars, stageVars>>

Arms ==
  {"exclude", "preflight", "usage", "route_ip", "route_country", "ip_gate",
   "emergency", "https", "body", "headers", "referrer", "validator",
   "time_window", "scan", "bans", "geo", "cloud", "user_agent", "tiers",
   "tier_ban", "feed", "feed_ban", "detection", "custom", "forward"}

Labels == Arms \cup {"inner", "respond_owned", "respond", "closed", "dropped"}

Init ==
  /\ shape \in [Requests -> Shapes]
  /\ pc = [r \in Requests |-> "exclude"]
  /\ gate = [r \in Requests |-> shape[r].prior]
  /\ skip = [r \in Requests |-> {}]
  /\ body = [r \in Requests |-> "unread"]
  /\ verdict = [r \in Requests |-> FALSE]
  /\ answer = [r \in Requests |-> "none"]
  /\ hooks = [r \in Requests |-> 0]
  /\ passes = [r \in Requests |-> 0]
  /\ inner = [r \in Requests |-> "untouched"]
  /\ usage = [i \in Identities |-> 0]
  /\ returns = [i \in Identities |-> 0]
  /\ procBans = {}
  /\ StageInit
-----------------------------------------------------------------------------
(* What the arms are made of.                                              *)

Go(r, label) == pc' = [pc EXCEPT ![r] = label]

\* The arm lets the request through and touches nothing.
Pass(r, next) == Go(r, next) /\ UNCHANGED <<reqVars, outVars, procVars, stageVars>>

\* An answer is composed, and the hook of its refusal fires with it.
AnswerTo(r, condition, label) ==
  /\ Go(r, label)
  /\ answer' = [answer EXCEPT ![r] = condition]
  /\ hooks' = IF Observability /\ condition \in Hooked
                THEN [hooks EXCEPT ![r] = @ + 1] ELSE hooks
  /\ UNCHANGED <<passes, inner>>

Answer(r, condition) == AnswerTo(r, condition, "respond")

\* Mutant: the block answer leaves without finish_generated.
RefuseUnfinished(r, condition) ==
  AnswerTo(r, condition, "closed") /\ UNCHANGED <<reqVars, procVars, stageVars>>

Refuse(r, condition) ==
  Answer(r, condition) /\ UNCHANGED <<reqVars, procVars, stageVars>>

Ip(r) == shape[r].ip
Attributed(r) == Ip(r) \in Ips

\* passive_mode, of the layer the request came through and its every stage.
Passive(r) == shape[r].passive

\* Mutant: a route that bypasses one check bypasses them all.
BypassedByAny(r, check) == shape[r].bypass # {}

Bypassed(r, check) == shape[r].bypass \cap {"all", check} # {}

Tripped(r, condition) ==
  /\ condition \in shape[r].trips
  /\ condition \in StageConditions => ~Passive(r)

\* A route's own arm decides before the installed stage's.
RouteThenStage(r, arm, route, stage, next) ==
  /\ pc[r] = arm
  /\ \/ Tripped(r, route) /\ Refuse(r, route)
     \/ ~Tripped(r, route) /\ Tripped(r, stage) /\ Refuse(r, stage)
     \/ ~Tripped(r, route) /\ ~Tripped(r, stage) /\ Pass(r, next)

\* One arm over one condition, unless something excuses the request from it.
Check(r, arm, condition, excused, next) ==
  /\ pc[r] = arm
  /\ \/ ~excused /\ Tripped(r, condition) /\ Refuse(r, condition)
     \/ (excused \/ ~Tripped(r, condition)) /\ Pass(r, next)

\* facts.gate: the decision as it was before this layer's own gate ran.
StaleSkip(r) == shape[r].prior \in Skipping

\* A behaviour rule bans in the store the processor was built over.
ProcessorBans(ip) ==
  \/ ip \in Ips /\ SharedBans /\ Ban(ip) /\ UNCHANGED procBans
  \/ ip \in Ips /\ ~SharedBans /\ procBans' = procBans \cup {ip} /\ UNCHANGED bans
  \/ ip \notin Ips /\ UNCHANGED <<bans, procBans>>

\* Mutant: nothing prunes the observations.
CountForever(n, threshold) == n + 1

\* The count is kept one past the threshold at most.
CountUpTo(n, threshold) == IF n <= threshold THEN n + 1 ELSE n

\* A strict bound: n observations were made before this one.
GoesPast(n, threshold) == n + 1 > threshold
-----------------------------------------------------------------------------
(* Before the body.                                                        *)

\* exclude_paths forwards with no body at all.
Exclude(r) ==
  /\ pc[r] = "exclude"
  /\ Pass(r, IF shape[r].kind = "excluded" THEN "forward" ELSE "preflight")

\* The preflight answer is returned as it is: no response pass.
Preflight(r) ==
  /\ pc[r] = "preflight"
  /\ \/ /\ shape[r].kind = "preflight" /\ Processor
        /\ AnswerTo(r, "preflight", "closed")
        /\ UNCHANGED <<reqVars, procVars, stageVars>>
     \/ ~(shape[r].kind = "preflight" /\ Processor) /\ Pass(r, "usage")

HasUsageRules(r) == "usage" \in shape[r].route /\ Processor

\* The observation is counted, a crossing bans and answers; what a passive
\* processor does of that is the engine's, so both are possible.
UsageRules(r) ==
  /\ pc[r] = "usage"
  /\ \/ ~HasUsageRules(r) /\ Pass(r, "route_ip")
     \/ /\ HasUsageRules(r)
        /\ usage' = [usage EXCEPT ![Ip(r)] = CountUpTo(@, UsageThreshold)]
        /\ \/ /\ ~GoesPast(usage[Ip(r)], UsageThreshold) \/ Passive(r)
              /\ Go(r, "route_ip")
              /\ UNCHANGED <<reqVars, outVars, returns, procBans, stageVars>>
           \/ /\ GoesPast(usage[Ip(r)], UsageThreshold)
              /\ ProcessorBans(Ip(r))
              /\ Answer(r, "usage_ban")
              /\ UNCHANGED <<reqVars, returns, window, violations>>

\* A whitelist of the route takes the global lists out of play.
RouteIp(r) ==
  /\ pc[r] = "route_ip"
  /\ \/ Bypassed(r, "ip") /\ Pass(r, "route_country")
     \/ /\ ~Bypassed(r, "ip") /\ Tripped(r, "bad_route_ip")
        /\ Refuse(r, "bad_route_ip")
     \/ /\ ~Bypassed(r, "ip") /\ ~Tripped(r, "bad_route_ip")
        /\ Attributed(r) /\ Tripped(r, "route_ip")
        /\ Refuse(r, "route_ip")
     \/ /\ ~Bypassed(r, "ip") /\ ~Tripped(r, "bad_route_ip")
        /\ ~(Attributed(r) /\ Tripped(r, "route_ip"))
        /\ skip' = IF "ip_whitelist" \in shape[r].route
                     THEN [skip EXCEPT ![r] = @ \cup {"ip_lists"}] ELSE skip
        /\ Go(r, "route_country")
        /\ UNCHANGED <<gate, body, verdict, outVars, procVars, stageVars>>

RouteCountries(r) ==
  LET applies == ~Bypassed(r, "ip") /\ Attributed(r) IN
  /\ pc[r] = "route_country"
  /\ \/ applies /\ Tripped(r, "route_country") /\ Refuse(r, "route_country")
     \/ /\ ~(applies /\ Tripped(r, "route_country"))
        /\ skip' = IF applies /\ "country_whitelist" \in shape[r].route
                     THEN [skip EXCEPT ![r] = @ \cup {"countries"}] ELSE skip
        /\ Go(r, "ip_gate")
        /\ UNCHANGED <<gate, body, verdict, outVars, procVars, stageVars>>

\* IpGateConfig::evaluate: an exemption never opens a whitelist.
GateDenies(ip) == (Whitelist # {} /\ ip \notin Whitelist) \/ ip \in Blacklist

Decision(ip) ==
  CASE ip \in Whitelist -> "whitelisted"
    [] ip \notin Whitelist /\ ip \in Exempt -> "exempt"
    [] OTHER -> "allowed"

\* Mutant: a whitelist of the route leaves the global lists in play.
GateRunsRegardless(r) ==
  GateInstalled /\ Attributed(r) /\ ~Bypassed(r, "ip")

GateRuns(r) ==
  /\ GateInstalled /\ Attributed(r)
  /\ ~Bypassed(r, "ip") /\ "ip_lists" \notin skip[r]

\* enforce_ip_gate: the denial runs a response pass of its own.
IpGate(r) ==
  /\ pc[r] = "ip_gate"
  /\ \/ ~GateRuns(r) /\ Pass(r, "emergency")
     \/ GateRuns(r) /\ GateDenies(Ip(r)) /\ Passive(r) /\ Pass(r, "emergency")
     \/ /\ GateRuns(r) /\ GateDenies(Ip(r)) /\ ~Passive(r)
        /\ AnswerTo(r, "ip_gate", "respond_owned")
        /\ UNCHANGED <<reqVars, procVars, stageVars>>
     \/ /\ GateRuns(r) /\ ~GateDenies(Ip(r))
        /\ gate' = [gate EXCEPT ![r] = Decision(Ip(r))]
        /\ Go(r, "emergency")
        /\ UNCHANGED <<skip, body, verdict, outVars, procVars, stageVars>>

Emergency(r) == Check(r, "emergency", "emergency", FALSE, "https")
HttpsRedirect(r) == Check(r, "https", "https", FALSE, "body")
-----------------------------------------------------------------------------
(* The body, and the checks between it and the stores.                     *)

\* buffer_body returned (BodyBuffer has its loop).
BufferBody(r) ==
  /\ pc[r] = "body"
  /\ \/ shape[r].sends = "too_much" /\ Refuse(r, "too_large")
     \/ shape[r].sends = "broken" /\ Refuse(r, "read_error")
     \/ /\ shape[r].sends \in {"nothing", "data"}
        /\ body' = [body EXCEPT ![r] =
                      IF shape[r].sends = "data" THEN "held" ELSE "empty"]
        /\ Go(r, "headers")
        /\ UNCHANGED <<gate, skip, verdict, outVars, procVars, stageVars>>

HeadersAuth(r) == RouteThenStage(r, "headers", "route_headers", "headers", "referrer")
Referrer(r) == RouteThenStage(r, "referrer", "route_referrer", "referrer", "validator")
CustomValidators(r) ==
  RouteThenStage(r, "validator", "route_validator", "validator", "time_window")
TimeWindow(r) == RouteThenStage(r, "time_window", "route_time_window", "time_window", "scan")

ScanSkipped(r) == Bypassed(r, "penetration") \/ "no_detection" \in shape[r].route

\* The scan blocks nothing: its verdict feeds the arms that do.
Scan(r) ==
  /\ pc[r] = "scan"
  /\ \/ ~ScanSkipped(r) /\ Tripped(r, "scan_failed") /\ Refuse(r, "scan_failed")
     \/ /\ ScanSkipped(r) \/ ~Tripped(r, "scan_failed")
        /\ verdict' = [verdict EXCEPT ![r] = ~ScanSkipped(r) /\ "threat" \in shape[r].trips]
        /\ Go(r, "bans")
        /\ UNCHANGED <<gate, skip, body, outVars, procVars, stageVars>>
-----------------------------------------------------------------------------
(* The stores.                                                             *)

\* Mutant: the ban arm asks for the bypass of the gate.
BansBypassedByIp(r) ==
  LET refused == ~Bypassed(r, "ip") /\ ~Passive(r) /\ LiveBan(Ip(r)) IN
  /\ pc[r] = "bans"
  /\ \/ refused /\ Refuse(r, "banned")
     \/ ~refused /\ Pass(r, "geo")

\* Mutant: the arm asks whether bans are kept, not whether one is live.
BansUnread(r) ==
  LET refused == ~Bypassed(r, "ip_ban") /\ ~Passive(r) /\ BanningEnabled /\ Attributed(r) IN
  /\ pc[r] = "bans"
  /\ \/ refused /\ Refuse(r, "banned")
     \/ ~refused /\ Pass(r, "geo")

\* The ban arm takes the address and no gate decision.
Bans(r) ==
  LET refused == ~Bypassed(r, "ip_ban") /\ ~Passive(r) /\ LiveBan(Ip(r)) IN
  /\ pc[r] = "bans"
  /\ \/ refused /\ Refuse(r, "banned")
     \/ ~refused /\ Pass(r, "geo")

GeoBlocking(r) ==
  Check(r, "geo", "geo",
        Bypassed(r, "ip") \/ "countries" \in skip[r] \/ StaleSkip(r) \/ ~Attributed(r),
        "cloud")

CloudProvider(r) ==
  /\ pc[r] = "cloud"
  /\ \/ ~Bypassed(r, "clouds") /\ Tripped(r, "bad_cloud") /\ Refuse(r, "bad_cloud")
     \/ /\ Bypassed(r, "clouds") \/ ~Tripped(r, "bad_cloud")
        /\ Check(r, "cloud", "cloud",
                 Bypassed(r, "clouds") \/ StaleSkip(r) \/ ~Attributed(r),
                 "user_agent")

\* The route's patterns are not even compiled for a request that skips.
UserAgent(r) ==
  /\ pc[r] = "user_agent"
  /\ \/ ~StaleSkip(r) /\ Tripped(r, "bad_user_agent") /\ Refuse(r, "bad_user_agent")
     \/ StaleSkip(r) /\ Pass(r, "tiers")
     \/ /\ ~StaleSkip(r) /\ ~Tripped(r, "bad_user_agent")
        /\ RouteThenStage(r, "user_agent", "route_user_agent", "user_agent", "tiers")

Limited(r) == RateLimiting /\ Attributed(r) /\ gate[r] \notin Skipping

\* The limiter's part of decide_tiers_observed.  The bypass leaves out the
\* detection feed with the limiter: both sit in that one call.
RateTiers(r) ==
  LET ip == Ip(r)
      runs == ~Tripped(r, "bad_tiers") /\ ~Bypassed(r, "rate_limit")
      crosses == runs /\ Limited(r) /\ ~HasRoom(ip)
  IN
  /\ pc[r] = "tiers"
  /\ \/ Tripped(r, "bad_tiers") /\ Refuse(r, "bad_tiers")
     \/ ~Tripped(r, "bad_tiers") /\ ~runs /\ Pass(r, "detection")
     \/ runs /\ ~Limited(r) /\ Pass(r, "feed")
     \/ /\ runs /\ Limited(r) /\ HasRoom(ip)
        /\ RecordHit(ip, r)
        /\ Go(r, "feed")
        /\ UNCHANGED <<reqVars, outVars, procVars, bans, violations>>
     \/ crosses /\ ~Passive(r) /\ ~AutoBan /\ Refuse(r, "rate_limited")
     \/ /\ crosses /\ ~Passive(r) /\ AutoBan
        /\ CountViolation("rate_limit", ip)
        /\ \/ /\ Crosses("rate_limit", ip) /\ BanningEnabled
              /\ Go(r, "tier_ban")
              /\ UNCHANGED outVars
           \/ /\ ~(Crosses("rate_limit", ip) /\ BanningEnabled)
              /\ Answer(r, "rate_limited")
        /\ UNCHANGED <<reqVars, procVars, bans, window>>
     \/ /\ crosses /\ Passive(r)
        /\ CountViolation("rate_limit", ip) \/ UNCHANGED violations
        /\ Go(r, "feed")
        /\ UNCHANGED <<reqVars, outVars, procVars, bans, window>>

\* Mutant: an address already banned is waited for.
TierBanWaits(r) ==
  /\ pc[r] = "tier_ban"
  /\ Ip(r) \notin bans /\ Ban(Ip(r))
  /\ Answer(r, "rate_limited")
  /\ UNCHANGED <<reqVars, procVars, window, violations>>

\* A crossing that bans still answers with the 429 it earned.
TierBan(r) ==
  /\ pc[r] = "tier_ban"
  /\ Ban(Ip(r))
  /\ Answer(r, "rate_limited")
  /\ UNCHANGED <<reqVars, procVars, window, violations>>

\* Mutant: whoever skips the limiter is not counted either.
CountedUnlessSkipping(r) == verdict[r] /\ Attributed(r) /\ gate[r] \notin Skipping

\* Whitelisted requests are not counted; exempt ones are.
Counted(r) == verdict[r] /\ Attributed(r) /\ gate[r] # "whitelisted"

\* Mutant: passive mode mutes the answer and not the ban.
BansEvenPassive(r) == Counted(r) /\ Crosses("threat", Ip(r)) /\ BanningEnabled

BansNow(r) == Counted(r) /\ Crosses("threat", Ip(r)) /\ BanningEnabled /\ ~Passive(r)

\* The detection feed of decide_tiers_observed.  A passive detection fires
\* the hook with no status; for one that is not counted, that is unknown.
Feed(r) ==
  LET fired == [hooks EXCEPT ![r] = @ + 1] IN
  /\ pc[r] = "feed"
  /\ IF Counted(r) THEN CountViolation("threat", Ip(r)) ELSE UNCHANGED violations
  /\ hooks' \in IF Passive(r) /\ verdict[r] /\ Observability
                  THEN {fired} \cup (IF Counted(r) THEN {} ELSE {hooks})
                  ELSE {hooks}
  /\ Go(r, IF BansNow(r) THEN "feed_ban" ELSE "detection")
  /\ UNCHANGED <<reqVars, answer, passes, inner, procVars, bans, window>>

\* Mutant: the ban is answered and never stored.
FeedBanUnstored(r) ==
  /\ pc[r] = "feed_ban"
  /\ Refuse(r, "activity_banned")

\* Mutant: the arm goes on to the adapter's own block after its answer.
FeedBanFallsThrough(r) ==
  /\ pc[r] = "feed_ban"
  /\ Ban(Ip(r))
  /\ AnswerTo(r, "activity_banned", "detection")
  /\ UNCHANGED <<reqVars, procVars, window, violations>>

FeedBan(r) ==
  /\ pc[r] = "feed_ban"
  /\ Ban(Ip(r))
  /\ Answer(r, "activity_banned")
  /\ UNCHANGED <<reqVars, procVars, window, violations>>

\* The adapter's own 400 for a threat the stage gave no answer to.
DetectionBlock(r) ==
  /\ pc[r] = "detection"
  /\ \/ verdict[r] /\ ~Passive(r) /\ Refuse(r, "suspicious")
     \/ ~(verdict[r] /\ ~Passive(r)) /\ Pass(r, "custom")

CustomRequest(r) == Check(r, "custom", "custom_request", FALSE, "forward")
-----------------------------------------------------------------------------
(* The wrapped service and the response pass.                              *)

\* forward: None becomes an empty body.
CallInner(r) ==
  /\ pc[r] = "forward"
  /\ inner' = [inner EXCEPT ![r] = IF body[r] = "held" THEN "body" ELSE "empty"]
  /\ Go(r, "inner")
  /\ UNCHANGED <<reqVars, answer, hooks, passes, procVars, stageVars>>

\* Mutant: a forwarded answer goes through the pass of the block path too.
InnerPassedTwice(r) ==
  /\ pc[r] = "inner"
  /\ \/ AnswerTo(r, "inner", "respond_owned")
     \/ AnswerTo(r, "inner_error", "closed")
  /\ UNCHANGED <<reqVars, procVars, stageVars>>

\* An error of the wrapped service skips the response pass.
InnerReturns(r) ==
  /\ pc[r] = "inner"
  /\ \/ AnswerTo(r, "inner", "respond")
     \/ AnswerTo(r, "inner_error", "closed")
  /\ UNCHANGED <<reqVars, procVars, stageVars>>

\* apply_response_processor: the return rules see the answer and may ban.
ResponsePass(r) ==
  \/ ~Processor /\ UNCHANGED <<outVars, procVars, stageVars>>
  \/ /\ Processor
     /\ passes' = [passes EXCEPT ![r] = @ + 1]
     /\ \/ answer[r] \notin Flagged /\ UNCHANGED <<returns, bans, procBans>>
        \/ /\ answer[r] \in Flagged
           /\ returns' = [returns EXCEPT ![Ip(r)] = CountUpTo(@, ReturnThreshold)]
           /\ \/ /\ ~GoesPast(returns[Ip(r)], ReturnThreshold) \/ Passive(r)
                 /\ UNCHANGED <<bans, procBans>>
              \/ GoesPast(returns[Ip(r)], ReturnThreshold) /\ ProcessorBans(Ip(r))
     /\ UNCHANGED <<answer, hooks, inner, usage, window, violations>>

\* block_response_owned, inside enforce_ip_gate.
RespondOwned(r) ==
  /\ pc[r] = "respond_owned"
  /\ ResponsePass(r)
  /\ Go(r, "respond")
  /\ UNCHANGED reqVars

\* finish_generated, or the tail of forward.
Respond(r) ==
  /\ pc[r] = "respond"
  /\ ResponsePass(r)
  /\ Go(r, "closed")
  /\ UNCHANGED reqVars

\* The server drops the future, which only an await can notice.
Disconnect(r) == pc[r] \in {"body", "inner"} /\ Pass(r, "dropped")
-----------------------------------------------------------------------------
Screens(r) ==
  \/ Exclude(r) \/ Preflight(r) \/ UsageRules(r) \/ RouteIp(r) \/ RouteCountries(r)
  \/ IpGate(r) \/ Emergency(r) \/ HttpsRedirect(r) \/ HeadersAuth(r) \/ Referrer(r)
  \/ CustomValidators(r) \/ TimeWindow(r) \/ Scan(r) \/ Bans(r) \/ GeoBlocking(r)
  \/ CloudProvider(r) \/ UserAgent(r) \/ RateTiers(r) \/ TierBan(r) \/ Feed(r)
  \/ FeedBan(r) \/ DetectionBlock(r) \/ CustomRequest(r) \/ CallInner(r)
  \/ RespondOwned(r) \/ Respond(r)

Step(r) == Screens(r) \/ BufferBody(r) \/ InnerReturns(r) \/ Disconnect(r)

OutOfBandStep == StageNext /\ UNCHANGED <<pc, reqVars, outVars, procVars>>

Settled(r) == pc[r] \in {"closed", "dropped"}
Finished == (\A r \in Requests : Settled(r)) /\ UNCHANGED vars

Next ==
  \/ (\E r \in Requests : Step(r)) /\ UNCHANGED shape
  \/ OutOfBandStep /\ UNCHANGED shape
  \/ Finished

Spec == Init /\ [][Next]_vars

\* The executor polls a future that can progress: an arm that is not an
\* await runs to the next one.  Neither client nor inner service is fair.
Fairness == \A r \in Requests : WF_vars(Screens(r) /\ UNCHANGED shape)
FairSpec == Spec /\ Fairness
-----------------------------------------------------------------------------
ReqTypeOK ==
  /\ gate \in [Requests -> Decisions]
  /\ skip \in [Requests -> SUBSET {"ip_lists", "countries"}]
  /\ body \in [Requests -> {"unread", "empty", "held"}]
  /\ verdict \in [Requests -> BOOLEAN]

OutTypeOK ==
  /\ answer \in [Requests -> Answers]
  /\ hooks \in [Requests -> Nat]
  /\ passes \in [Requests -> Nat]
  /\ inner \in [Requests -> {"untouched", "empty", "body"}]

ProcTypeOK ==
  /\ usage \in [Identities -> 0 .. UsageThreshold + 1]
  /\ returns \in [Identities -> 0 .. ReturnThreshold + 1]
  /\ procBans \subseteq Ips

(* The variables keep their types; the counters of the behaviour rules and *)
(* of the violations stay within one past, and at, their thresholds.       *)
TypeOK ==
  /\ shape \in [Requests -> ShapeSpace]
  /\ pc \in [Requests -> Labels]
  /\ ReqTypeOK
  /\ OutTypeOK
  /\ ProcTypeOK
  /\ StageTypeOK
=============================================================================
