----------------------------- MODULE GuardConfig -----------------------------
(***************************************************************************)
(* GuardLayer as a value (src/src/lib.rs): what the constructors and the   *)
(* builders put into it, what from_security_config makes of a              *)
(* SecurityConfig, and the engine stage that wrapping builds from it.      *)
(*                                                                         *)
(* Clones of a limiter, of a ban manager or of violation counters share    *)
(* their store, so a store is a handle, a number: a copied layer holds the *)
(* same handles, and only a constructor makes a new one.  A stage the      *)
(* layer holds is the record of what is decided when it is built.          *)
(***************************************************************************)
EXTENDS Naturals

CONSTANT None    \* Option::None

Handles == Nat \ {0}
-----------------------------------------------------------------------------
(* SecurityConfig, as far as the layer consumes it.                        *)

\* A value an engine constructor validates: left out, accepted, or with an
\* entry it rejects (a bad address or pattern, a zero knob).
Entries == {"none", "valid", "invalid"}

\* map_log_level, level by level.
Levels == {"info", "debug", "warning", "error", "critical"}
MapLogLevel(level) == level

ConfigSpace ==
  [inspect_bytes : Nat,                    \* detection_max_body_inspect_bytes
   passive_mode : BOOLEAN, enable_penetration_detection : BOOLEAN,
   ip_lists : Entries,                     \* whitelist, blacklist, exempt_ips
   rate_limiting : Entries,                \* "none": enable_rate_limiting off
   enable_ip_banning : BOOLEAN,
   emergency_mode : BOOLEAN, emergency_whitelist : Entries,
   hooks : SUBSET {"exclude_paths", "custom_error_responses", "on_block"},
   exclusions : BOOLEAN,      \* any excluded_detection_* or enabled category
   detection_scan_body : BOOLEAN,
   log_request_level : Levels \cup {None},
   log_suspicious_level : Levels \cup {None},
   log_country_check_level : Levels \cup {None},
   blocked_user_agents : Entries,
   security_headers : BOOLEAN, enable_cors : BOOLEAN, behavior_rules : BOOLEAN]

\* GuardConfigError: which constructor refused the value.
ErrorKinds == {"ip_gate", "rate_limit", "user_agent"}

\* What an engine stage remembers of its switch, and BanState.
Switches == [passive : BOOLEAN]
BanStates == [manager : Handles, counters : Handles]

\* None is the absence of all of these.
ASSUME NoneAssumption ==
  /\ None \notin Nat /\ None \notin ErrorKinds
  /\ None \notin Switches /\ None \notin BanStates
-----------------------------------------------------------------------------
(* Constructors and builders.  A builder replaces one field, and whatever  *)
(* was in it is dropped.                                                   *)

\* default_config: the budget the ecosystem defaults pin.
DefaultInspectBytes == 262144

New(bytes) ==
  [inspect_bytes |-> bytes, body_cap |-> bytes,
   passive_mode |-> FALSE, penetration_detection |-> TRUE,
   ip_gate |-> FALSE, rate_limiter |-> None, ban_state |-> None,
   https |-> None, emergency |-> None, user_agent |-> None, processor |-> None,
   exclusions |-> None, observability |-> None, request_logging |-> None,
   cloud_refresh |-> None,
   hooks |-> {},        \* closures and resolvers: only their presence matters
   stage |-> None]

WithDefaults == New(DefaultInspectBytes)

WithPassiveMode(l, on) == [l EXCEPT !.passive_mode = on]
WithPenetrationDetection(l, on) == [l EXCEPT !.penetration_detection = on]
WithBodyCap(l, cap) == [l EXCEPT !.body_cap = cap]
WithIpGate(l) == [l EXCEPT !.ip_gate = TRUE]
WithRateLimiting(l, limiter) == [l EXCEPT !.rate_limiter = limiter]

\* The manager is given; the counters are made here, on every call.
WithIpBanning(l, manager, counters) ==
  [l EXCEPT !.ban_state = [manager |-> manager, counters |-> counters]]

WithHttpsEnforcement(l, passive) == [l EXCEPT !.https = [passive |-> passive]]
WithEmergencyMode(l, passive) == [l EXCEPT !.emergency = [passive |-> passive]]
WithUserAgent(l, passive) == [l EXCEPT !.user_agent = [passive |-> passive]]
WithResponseProcessor(l, manager, passive) ==
  [l EXCEPT !.processor = [manager |-> manager, passive |-> passive]]
WithDetectionExclusions(l, scanBody) == [l EXCEPT !.exclusions = [scan_body |-> scanBody]]
WithRequestLogging(l, level) == [l EXCEPT !.request_logging = level]
WithObservability(l, suspicious, country) ==
  [l EXCEPT !.observability = [suspicious |-> suspicious, country |-> country]]
WithCloudRefreshScheduler(l, scheduler) == [l EXCEPT !.cloud_refresh = scheduler]

\* with_on_block, with_route_tiers and the other closures and stages.
With(l, hooks) == [l EXCEPT !.hooks = @ \cup hooks]
-----------------------------------------------------------------------------
(* from_security_config, part by part, in the order of the code.           *)

\* Mutant: a list that does not parse is left out.
ConfigErrorLenient(c) ==
  IF c.rate_limiting = "invalid" THEN "rate_limit" ELSE None

\* `?` after each constructor: the first one that refuses decides.
ConfigError(c) ==
  CASE c.ip_lists = "invalid" -> "ip_gate"
    [] c.ip_lists # "invalid" /\ c.rate_limiting = "invalid" -> "rate_limit"
    [] "invalid" \notin {c.ip_lists, c.rate_limiting}
         /\ c.emergency_whitelist = "invalid" -> "ip_gate"
    [] "invalid" \notin {c.ip_lists, c.rate_limiting, c.emergency_whitelist}
         /\ c.blocked_user_agents = "invalid" -> "user_agent"
    [] OTHER -> None

Detection(l, c) ==
  WithPenetrationDetection(WithPassiveMode(l, c.passive_mode), c.enable_penetration_detection)

Gate(l, c) == IF c.ip_lists = "valid" THEN WithIpGate(l) ELSE l

Stores(l, c, limiter, manager, counters) ==
  LET limited == IF c.rate_limiting = "valid" THEN WithRateLimiting(l, limiter) ELSE l
  IN  IF c.enable_ip_banning THEN WithIpBanning(limited, manager, counters) ELSE limited

\* The HTTPS stage is always there; the emergency one for the mode or a list.
Https(l, c) == WithHttpsEnforcement(l, c.passive_mode)

\* Mutant: the emergency stage is built with its default switch.
EmergencyActive(l, c) ==
  IF c.emergency_mode \/ c.emergency_whitelist # "none"
    THEN WithEmergencyMode(l, FALSE) ELSE l

Emergency(l, c) ==
  IF c.emergency_mode \/ c.emergency_whitelist # "none"
    THEN WithEmergencyMode(l, c.passive_mode) ELSE l

Hooks(l, c) == With(l, c.hooks)

\* detection_scan_body rides along with the lists, and does not ask for them.
Exclusions(l, c) ==
  IF c.exclusions THEN WithDetectionExclusions(l, c.detection_scan_body) ELSE l

Logging(l, c) ==
  IF c.log_request_level # None
    THEN WithRequestLogging(l, MapLogLevel(c.log_request_level)) ELSE l

\* Country verdicts compose even without a suspicious level.
Observed(l, c) ==
  IF c.log_suspicious_level # None \/ c.log_country_check_level # None
    THEN WithObservability(l, MapLogLevel(c.log_suspicious_level),
                              MapLogLevel(c.log_country_check_level))
    ELSE l

UserAgents(l, c) ==
  IF c.blocked_user_agents = "valid" THEN WithUserAgent(l, c.passive_mode) ELSE l

\* The processor gets a ban manager of its own.
Processing(l, c, manager) ==
  IF c.security_headers \/ c.enable_cors \/ c.behavior_rules
    THEN WithResponseProcessor(l, manager, c.passive_mode) ELSE l

\* The layer of an accepted config, over four new stores.
Assembled(c, limiter, manager, counters, procManager) ==
  LET screened == Gate(Detection(New(c.inspect_bytes), c), c)
      stored == Stores(screened, c, limiter, manager, counters)
      staged == Emergency(Https(stored, c), c)
      reporting == Observed(Logging(Exclusions(Hooks(staged, c), c), c), c)
  IN  Processing(UserAgents(reporting, c), c, procManager)
-----------------------------------------------------------------------------
(* Wrapping.                                                               *)

\* build_stage: the stage stands on the layer's own stores and reads its
\* switch and hooks; without a limiter or a ban state that half is off.
BuildStage(l) ==
  [limiter |-> l.rate_limiter, ban_state |-> l.ban_state,
   passive |-> l.passive_mode, hooks |-> l.hooks, observability |-> l.observability]

\* Layer::layer: a clone of the layer that has its stage.
Layer(l) == IF l.stage = None THEN [l EXCEPT !.stage = BuildStage(l)] ELSE l
=============================================================================
