----------------------------- MODULE GuardWiring -----------------------------
(***************************************************************************)
(* A host assembling GuardLayers and using the services it wraps           *)
(* (src/src/lib.rs, GuardService's surface in src/src/service.rs): it goes *)
(* on calling builders after it wrapped, clones services, installs one ban *)
(* manager in several layers, bans through a handle it kept, resets, and   *)
(* meanwhile every service serves requests of one address.                 *)
(***************************************************************************)
EXTENDS GuardConfig

CONSTANTS
  Slots,         \* services the host wraps
  Configs,       \* SecurityConfigs it loads
  HookNames,     \* hooks it installs by hand
  RateLimit,     \* of every limiter
  BanThreshold,  \* of every IpBanConfig
  MaxCalls,      \* bound: builder calls
  MaxStores,     \* bound: stores made, of all kinds
  MaxRequests    \* bound: requests of the address

ASSUME WiringAssumption ==
  /\ Configs \subseteq ConfigSpace
  /\ RateLimit \in Nat \ {0} /\ BanThreshold \in Nat \ {0}
  /\ MaxCalls \in Nat /\ MaxStores \in Nat /\ MaxRequests \in Nat

VARIABLES
  layer,     \* the GuardLayer the host holds, None before it made one
  source,    \* the config it came from, None for the other constructors
  touched,   \* builders called on it since
  services,  \* per slot, the layer of the GuardService, None while unused
  origin,    \* per slot, source and touched of the layer it was wrapped from
  made,      \* stores made so far: the handles in use are 1 .. made
  kept,      \* ban managers the host holds a clone of
  hits,      \* per limiter, hits its window holds
  counts,    \* per counters, violations counted, capped at BanThreshold
  banned,    \* managers that hold a live ban of the address
  asked,     \* requests served so far
  calls,     \* builder calls so far
  tally      \* what the address got through, see Tally

layerVars == <<layer, source, touched, calls>>
serviceVars == <<services, origin>>
storeVars == <<hits, counts, banned>>
vars == <<layerVars, serviceVars, made, kept, storeVars, asked, tally>>

StoreIds == 1 .. MaxStores

\* History, by the handle the layers of the services were given: hits on a
\* limiter and what it admitted since its last reset, threats that met a
\* plain 400, and all that passed the ban arm.
Tallies == {"hits", "admitted", "plain", "passed"}

Init ==
  /\ layer = None /\ source = None /\ touched = {} /\ calls = 0
  /\ services = [s \in Slots |-> None]
  /\ origin = [s \in Slots |-> None]
  /\ made = 0 /\ kept = {}
  /\ hits = [h \in StoreIds |-> 0]
  /\ counts = [h \in StoreIds |-> 0]
  /\ banned = {}
  /\ asked = 0
  /\ tally = [kind \in Tallies |-> [h \in StoreIds |-> 0]]
-----------------------------------------------------------------------------
(* The host assembles.                                                     *)

Make(n) == made + n <= MaxStores /\ made' = made + n

Constructs(l, config) ==
  /\ layer = None
  /\ layer' = l /\ source' = config /\ touched' = {}
  /\ UNCHANGED <<calls, serviceVars, kept, storeVars, asked, tally>>

ByDefaults == Constructs(WithDefaults, None) /\ UNCHANGED made

\* A config the engine refuses makes no layer.
FromSecurityConfig(c) ==
  /\ ConfigError(c) = None
  /\ Make(4)
  /\ Constructs(Assembled(c, made + 1, made + 2, made + 3, made + 4), c)

Builds(name, l) ==
  /\ layer # None /\ calls < MaxCalls
  /\ calls' = calls + 1
  /\ layer' = l /\ touched' = touched \cup {name}
  /\ UNCHANGED <<source, serviceVars, storeVars, asked, tally>>

BuildsRateLimiting ==
  /\ Make(1)
  /\ Builds("rate_limiter", WithRateLimiting(layer, made + 1))
  /\ UNCHANGED kept

\* A manager the host kept, or a new one of which it keeps a clone.
BuildsIpBanning ==
  \/ \E m \in kept :
       /\ Make(1)
       /\ Builds("ban_state", WithIpBanning(layer, m, made + 1))
       /\ UNCHANGED kept
  \/ /\ Make(2)
     /\ Builds("ban_state", WithIpBanning(layer, made + 1, made + 2))
     /\ kept' = kept \cup {made + 1}

BuildsPassiveMode ==
  \E on \in BOOLEAN :
    Builds("passive_mode", WithPassiveMode(layer, on)) /\ UNCHANGED <<made, kept>>

BuildsHook ==
  \E hook \in HookNames :
    Builds(hook, With(layer, {hook})) /\ UNCHANGED <<made, kept>>

\* Layer::layer: the service has a clone, the host goes on with its own.
Wraps(s) ==
  /\ layer # None /\ services[s] = None
  /\ services' = [services EXCEPT ![s] = Layer(layer)]
  /\ origin' = [origin EXCEPT ![s] = [config |-> source, touched |-> touched]]
  /\ UNCHANGED <<layerVars, made, kept, storeVars, asked, tally>>

\* Clone for GuardService.
Clones(s, t) ==
  /\ services[s] # None /\ services[t] = None
  /\ services' = [services EXCEPT ![t] = services[s]]
  /\ origin' = [origin EXCEPT ![t] = origin[s]]
  /\ UNCHANGED <<layerVars, made, kept, storeVars, asked, tally>>
-----------------------------------------------------------------------------
(* The services serve.                                                     *)

\* stage(): what the stage decides over is what it was built from.
Stage(s) == services[s].stage
Limiter(s) == Stage(s).limiter
BanState(s) == Stage(s).ban_state
Enforces(s) == ~Stage(s).passive

\* Mutant: the store is asked only about an address this stage has counted.
IsBannedIfCounted(s) ==
  /\ BanState(s) # None
  /\ BanState(s).manager \in banned /\ counts[BanState(s).counters] > 0

IsBanned(s) == BanState(s) # None /\ BanState(s).manager \in banned

\* Mutant: the hit that is one over the limit is let in.
HasRoomInclusive(s) == Limiter(s) # None => hits[Limiter(s)] <= RateLimit

HasRoom(s) == Limiter(s) # None => hits[Limiter(s)] < RateLimit

\* What the layer of the service was wired with.
WiredLimiter(s) == services[s].rate_limiter
WiredManager(s) ==
  IF services[s].ban_state = None THEN None ELSE services[s].ban_state.manager
WiredCounters(s) ==
  IF services[s].ban_state = None THEN None ELSE services[s].ban_state.counters

Booked(kind, handle) ==
  IF handle = None THEN tally[kind] ELSE [tally[kind] EXCEPT ![handle] = @ + 1]

\* What a passive service lets through is nobody's promise.
BookedBy(s, kind, handle) == IF Enforces(s) THEN Booked(kind, handle) ELSE tally[kind]

\* Mutant: a passive service records the hits past the limit too.
HitAlways(s) ==
  hits' = IF Limiter(s) # None THEN [hits EXCEPT ![Limiter(s)] = @ + 1] ELSE hits

Hit(s) ==
  hits' = IF Limiter(s) # None /\ hits[Limiter(s)] < RateLimit
            THEN [hits EXCEPT ![Limiter(s)] = @ + 1] ELSE hits

\* The ban arm and the limiter refuse without a trace, unless passive.
Arrives(s) ==
  /\ services[s] # None /\ asked < MaxRequests
  /\ Stage(s).passive \/ (~IsBanned(s) /\ HasRoom(s))
  /\ asked' = asked + 1
  /\ Hit(s)
  /\ UNCHANGED <<layerVars, serviceVars, made, kept>>

Benign(s) ==
  /\ Arrives(s)
  /\ tally' = [tally EXCEPT !["hits"] = Booked("hits", WiredLimiter(s)),
                            !["admitted"] = BookedBy(s, "admitted", WiredLimiter(s)),
                            !["passed"] = BookedBy(s, "passed", WiredManager(s))]
  /\ UNCHANGED <<counts, banned>>

\* A threat is counted, and the count that reaches the threshold bans; one
\* below it, or one nobody counts, gets the plain 400.
Threat(s) ==
  LET state == BanState(s)
      bans == state # None /\ counts[state.counters] + 1 >= BanThreshold
  IN
  /\ Arrives(s)
  /\ counts' = IF state # None /\ counts[state.counters] < BanThreshold
                 THEN [counts EXCEPT ![state.counters] = @ + 1] ELSE counts
  /\ banned' = IF bans /\ Enforces(s) THEN banned \cup {state.manager} ELSE banned
  /\ tally' = [tally EXCEPT
                 !["hits"] = Booked("hits", WiredLimiter(s)),
                 !["plain"] = IF bans THEN @ ELSE BookedBy(s, "plain", WiredCounters(s)),
                 !["passed"] = IF bans THEN @ ELSE BookedBy(s, "passed", WiredManager(s))]

\* The host bans through its clone of a manager.
OperatorBans(m) ==
  /\ m \in kept \ banned
  /\ banned' = banned \cup {m}
  /\ UNCHANGED <<layerVars, serviceVars, made, kept, hits, counts, asked, tally>>

\* Mutant: the counters go with the windows.
ResetsCounters(l) ==
  /\ l # None /\ l.rate_limiter # None
  /\ hits' = [hits EXCEPT ![l.rate_limiter] = 0]
  /\ counts' = [h \in StoreIds |-> 0]
  /\ tally' = [tally EXCEPT !["hits"][l.rate_limiter] = 0, !["admitted"][l.rate_limiter] = 0]
  /\ UNCHANGED <<layerVars, serviceVars, made, kept, banned, asked>>

\* Mutant: the windows of a copy are dropped.
ResetsCopy(l) ==
  /\ l # None /\ l.rate_limiter # None
  /\ tally' = [tally EXCEPT !["hits"][l.rate_limiter] = 0, !["admitted"][l.rate_limiter] = 0]
  /\ UNCHANGED <<layerVars, serviceVars, made, kept, storeVars, asked>>

\* reset through the layer or a service of it: the limiter's windows drop.
Resets(l) ==
  /\ l # None /\ l.rate_limiter # None
  /\ hits' = [hits EXCEPT ![l.rate_limiter] = 0]
  /\ tally' = [tally EXCEPT !["hits"][l.rate_limiter] = 0, !["admitted"][l.rate_limiter] = 0]
  /\ UNCHANGED <<layerVars, serviceVars, made, kept, counts, banned, asked>>

Next ==
  \/ ByDefaults
  \/ \E c \in Configs : FromSecurityConfig(c)
  \/ BuildsRateLimiting \/ BuildsIpBanning \/ BuildsPassiveMode \/ BuildsHook
  \/ \E s \in Slots : Wraps(s) \/ Benign(s) \/ Threat(s)
  \/ \E s, t \in Slots : Clones(s, t)
  \/ \E m \in kept : OperatorBans(m)
  \/ Resets(layer)
  \/ \E s \in Slots : Resets(services[s])

Spec == Init /\ [][Next]_vars
-----------------------------------------------------------------------------
(* The variables keep their types; no handle is used before it is made.    *)
TypeOK ==
  /\ made \in 0 .. MaxStores /\ kept \subseteq 1 .. made
  /\ calls \in 0 .. MaxCalls /\ asked \in 0 .. MaxRequests
  /\ source \in Configs \cup {None}
  /\ hits \in [StoreIds -> 0 .. RateLimit]
  /\ counts \in [StoreIds -> 0 .. BanThreshold]
  /\ banned \subseteq 1 .. made
  /\ tally \in [Tallies -> [StoreIds -> Nat]]
  /\ \A s \in Slots : services[s] # None => WiredLimiter(s) \in 1 .. made \cup {None}

(* One window for all services over one limiter: however many services a   *)
(* host wraps or clones, together they admit no more than the limit        *)
(* between two resets.                                                     *)
LimitShared == \A h \in StoreIds : tally["admitted"][h] <= RateLimit

(* reset reaches every service the limiter went into: one that has no room *)
(* has seen a full window of requests since the last reset, whoever reset. *)
ResetForgets ==
  \A s \in Slots :
    services[s] # None /\ WiredLimiter(s) # None /\ ~HasRoom(s) =>
      tally["hits"][WiredLimiter(s)] >= RateLimit

\* The service refuses, and its counters have what it takes to ban for it.
EarnsBan(s, manager) ==
  /\ services[s] # None /\ Enforces(s)
  /\ BanState(s) # None /\ BanState(s).manager = manager
  /\ counts[BanState(s).counters] >= BanThreshold

(* The services over one pair of counters count together: fewer than       *)
(* BanThreshold threats of the address get away with the plain 400,        *)
(* whichever services they went to and whatever was reset meanwhile.  And  *)
(* only that many ban: a manager the host has no clone of holds no ban     *)
(* that the counters of a service in active mode did not come to.          *)
ThresholdShared ==
  /\ \A h \in StoreIds : tally["plain"][h] < BanThreshold
  /\ \A m \in banned \ kept : \E s \in Slots : EarnsBan(s, m)

(* A ban in a manager's store, made by an operator or by any service, is   *)
(* felt by every service that was given the manager: while it lasts none   *)
(* of them lets a request of the address through.                          *)
BansReachEveryService ==
  [][\A m \in banned : tally'["passed"][m] = tally["passed"][m]]_vars

\* The switches of everything in a layer that can refuse.
Modes(l) ==
  {l.passive_mode, l.stage.passive} \cup
    {part.passive : part \in {l.https, l.emergency, l.user_agent, l.processor} \ {None}}

Configured(s) == services[s] # None /\ origin[s].config # None

(* A service from a config refuses as a whole or observes as a whole: all  *)
(* its parts have the config's passive mode, unless the host overrode it.  *)
OneMode ==
  \A s \in Slots :
    Configured(s) /\ "passive_mode" \notin origin[s].touched =>
      Modes(services[s]) = {origin[s].config.passive_mode}

(* Fail closed: what a config asks for and the engine cannot build is not  *)
(* left out, so a service from it has every protection the config names.   *)
FailClosed ==
  \A s \in Slots :
    Configured(s) =>
      LET c == origin[s].config
          l == services[s]
      IN  /\ c.ip_lists # "none" => l.ip_gate
          /\ c.rate_limiting # "none" => l.stage.limiter # None
          /\ c.enable_ip_banning => l.stage.ban_state # None
          /\ c.emergency_mode \/ c.emergency_whitelist # "none" => l.emergency # None
          /\ c.blocked_user_agents # "none" => l.user_agent # None
          /\ c.enable_penetration_detection = l.penetration_detection
-----------------------------------------------------------------------------
(* lib.rs:585: "every field the layer consumes maps onto the wired stage   *)
(* or knob it owns", and service.rs:1304: "`detection_scan_body = false`   *)
(* skips the body surface entirely".  Alone, the field is dropped.         *)
ScanBodyHonoured ==
  \A s \in Slots :
    Configured(s) /\ ~origin[s].config.detection_scan_body =>
      services[s].exclusions # None /\ ~services[s].exclusions.scan_body
=============================================================================
