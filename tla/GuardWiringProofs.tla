------------------------- MODULE GuardWiringProofs -------------------------
(* GuardWiring for every host: any number of services, any configs, any    *)
(* order of builder calls, wraps, clones, resets and requests.             *)
EXTENDS GuardWiring, TLAPS

ModeOf == {None} \cup Switches

\* A layer of the host over the first n stores: it has no stage yet.
Layers(n) ==
  [inspect_bytes : Nat, body_cap : Nat,
   passive_mode : BOOLEAN, penetration_detection : BOOLEAN,
   ip_gate : BOOLEAN, rate_limiter : {None} \cup 1 .. n,
   ban_state : {None} \cup [manager : 1 .. n, counters : 1 .. n],
   https : ModeOf, emergency : ModeOf, user_agent : ModeOf,
   processor : {None} \cup [manager : 1 .. n, passive : BOOLEAN],
   exclusions : {None} \cup [scan_body : BOOLEAN],
   observability : {None} \cup [suspicious : Levels \cup {None}, country : Levels \cup {None}],
   request_logging : {None} \cup Levels,
   cloud_refresh : {None},
   hooks : SUBSET (HookNames \cup {"exclude_paths", "custom_error_responses", "on_block"}),
   stage : {None}]

\* What the stage of a service stands on is what its layer was wired with.
Staged(l, n) ==
  /\ l.rate_limiter \in {None} \cup 1 .. n
  /\ l.ban_state \in {None} \cup [manager : 1 .. n, counters : 1 .. n]
  /\ l.stage.limiter = l.rate_limiter
  /\ l.stage.ban_state = l.ban_state
  /\ l.stage.passive = l.passive_mode

\* Everything in the layer that has a switch has it set to `on`.
OfMode(l, on) ==
  /\ l.passive_mode = on
  /\ \A part \in {l.https, l.emergency, l.user_agent, l.processor} \ {None} : part.passive = on

\* The layer has what the config asks for.
Protects(l, c) ==
  /\ c.ip_lists # "none" => l.ip_gate
  /\ c.rate_limiting # "none" => l.rate_limiter # None
  /\ c.enable_ip_banning => l.ban_state # None
  /\ c.emergency_mode \/ c.emergency_whitelist # "none" => l.emergency # None
  /\ c.blocked_user_agents # "none" => l.user_agent # None
  /\ c.enable_penetration_detection = l.penetration_detection

Faithful(l, c, builders) ==
  c # None =>
    /\ "passive_mode" \notin builders => OfMode(l, c.passive_mode)
    /\ Protects(l, c)

HostOK == layer # None => layer \in Layers(made) /\ Faithful(layer, source, touched)

ServicesOK ==
  /\ services = [s \in Slots |-> services[s]]
  /\ origin = [s \in Slots |-> origin[s]]
  /\ \A s \in Slots :
       services[s] # None =>
         /\ Staged(services[s], made)
         /\ Faithful(services[s], origin[s].config, origin[s].touched)

\* What was let through is on record where the services look.
Booking ==
  \A h \in StoreIds :
    /\ tally["admitted"][h] <= hits[h]
    /\ hits[h] <= tally["hits"][h]
    /\ tally["plain"][h] <= counts[h]
    /\ tally["plain"][h] < BanThreshold

StoresOK ==
  /\ made \in 0 .. MaxStores /\ kept \subseteq 1 .. made
  /\ calls \in 0 .. MaxCalls /\ asked \in 0 .. MaxRequests
  /\ source \in Configs \cup {None}
  /\ hits \in [StoreIds -> 0 .. RateLimit]
  /\ counts \in [StoreIds -> 0 .. BanThreshold]
  /\ banned \subseteq 1 .. made
  /\ tally \in [Tallies -> [StoreIds -> Nat]]

IInv == StoresOK /\ HostOK /\ ServicesOK /\ Booking
-----------------------------------------------------------------------------
(* Layers.                                                                 *)

(* The constructor's layer is one over no store.                           *)
LEMMA NewLayer == ASSUME NEW b \in Nat, NEW n \in Nat PROVE New(b) \in Layers(n)
  BY DEF New, Layers, ModeOf

(* Making stores leaves every layer what it was.                           *)
LEMMA LayersGrow ==
  ASSUME NEW n \in Nat, NEW m \in Nat, n <= m
  PROVE  /\ Layers(n) \subseteq Layers(m)
         /\ \A l : Staged(l, n) => Staged(l, m)
<1>1. 1 .. n \subseteq 1 .. m
  OBVIOUS
<1>2. [manager : 1 .. n, counters : 1 .. n] \subseteq [manager : 1 .. m, counters : 1 .. m]
  BY <1>1
<1>3. [manager : 1 .. n, passive : BOOLEAN] \subseteq [manager : 1 .. m, passive : BOOLEAN]
  BY <1>1
<1>4. \A l : Staged(l, n) => Staged(l, m)
  BY <1>1, <1>2 DEF Staged
<1>5. Layers(n) \subseteq Layers(m)
  BY <1>1, <1>2, <1>3 DEF Layers
<1> QED
  BY <1>4, <1>5

(* Wrapping hands the layer's stores and its switch to the stage.          *)
LEMMA LayerStaged ==
  ASSUME NEW n \in Nat, NEW l \in Layers(n), NEW c, NEW t, Faithful(l, c, t)
  PROVE  Staged(Layer(l), n) /\ Faithful(Layer(l), c, t)
<1>1. Layer(l) = [l EXCEPT !.stage = BuildStage(l)]
  BY DEF Layer, Layers
<1>2. /\ Layer(l).passive_mode = l.passive_mode /\ Layer(l).ip_gate = l.ip_gate
      /\ Layer(l).penetration_detection = l.penetration_detection
      /\ Layer(l).rate_limiter = l.rate_limiter /\ Layer(l).ban_state = l.ban_state
      /\ Layer(l).https = l.https /\ Layer(l).emergency = l.emergency
      /\ Layer(l).user_agent = l.user_agent /\ Layer(l).processor = l.processor
      /\ Layer(l).stage = BuildStage(l)
  BY <1>1 DEF Layers
<1>3. Staged(Layer(l), n)
  BY <1>2 DEF Staged, BuildStage, Layers
<1>4. Faithful(Layer(l), c, t)
  BY <1>2 DEF Faithful, OfMode, Protects
<1> QED
  BY <1>3, <1>4

(* with_ip_gate makes a layer of a layer and touches no switch.            *)
LEMMA GatedLayer ==
  ASSUME NEW n \in Nat, NEW l \in Layers(n)
  PROVE  /\ WithIpGate(l) \in Layers(n) /\ WithIpGate(l).ip_gate
         /\ WithIpGate(l).penetration_detection = l.penetration_detection
         /\ \A on : OfMode(l, on) => OfMode(WithIpGate(l), on)
<1>1. WithIpGate(l) = [l EXCEPT !.ip_gate = TRUE]
  BY DEF WithIpGate
<1>2. WithIpGate(l) \in Layers(n)
  BY <1>1 DEF Layers
<1>3. /\ WithIpGate(l).ip_gate
      /\ WithIpGate(l).penetration_detection = l.penetration_detection
  BY <1>1 DEF Layers
<1>4. \A on : OfMode(l, on) => OfMode(WithIpGate(l), on)
  BY <1>1 DEF Layers, OfMode
<1> QED
  BY <1>2, <1>3, <1>4
-----------------------------------------------------------------------------
(* from_security_config, part by part.                                     *)

(* An accepted config has no entry the engine rejects.                     *)
LEMMA Accepted ==
  ASSUME NEW c \in ConfigSpace, ConfigError(c) = None
  PROVE  {c.ip_lists, c.rate_limiting, c.emergency_whitelist, c.blocked_user_agents}
           \subseteq {"none", "valid"}
  BY NoneAssumption DEF ConfigSpace, ConfigError, Entries, ErrorKinds

(* The layer of an accepted config has its mode throughout and all of the  *)
(* protections it asks for.                                                *)
LEMMA AssembledFaithful ==
  ASSUME NEW c \in ConfigSpace, ConfigError(c) = None, NEW n \in Nat,
         NEW limiter \in 1 .. n, NEW manager \in 1 .. n,
         NEW counters \in 1 .. n, NEW procManager \in 1 .. n,
         NEW t
  PROVE  /\ Assembled(c, limiter, manager, counters, procManager) \in Layers(n)
         /\ Faithful(Assembled(c, limiter, manager, counters, procManager), c, t)
<1> DEFINE
  on == c.passive_mode
  l0 == New(c.inspect_bytes)
  l1 == Detection(l0, c)
  l2 == Gate(l1, c)
  l3 == Stores(l2, c, limiter, manager, counters)
  l4 == Https(l3, c)
  l5 == Emergency(l4, c)
  l6 == Hooks(l5, c)
  l7 == Exclusions(l6, c)
  l8 == Logging(l7, c)
  l9 == Observed(l8, c)
  l10 == UserAgents(l9, c)
  l11 == Processing(l10, c, procManager)
  Rated(l) == c.rate_limiting # "none" => l.rate_limiter # None
  Banning(l) == c.enable_ip_banning => l.ban_state # None
  Guarded(l) == (c.emergency_mode \/ c.emergency_whitelist # "none") => l.emergency # None
  Agents(l) == c.blocked_user_agents # "none" => l.user_agent # None
  Gated(l) == c.ip_lists # "none" => l.ip_gate
  Detects(l) == c.enable_penetration_detection = l.penetration_detection
<1>1. {c.ip_lists, c.rate_limiting, c.emergency_whitelist, c.blocked_user_agents}
        \subseteq {"none", "valid"}
  BY Accepted
<1>2. /\ on \in BOOLEAN /\ c.inspect_bytes \in Nat
      /\ c.enable_penetration_detection \in BOOLEAN /\ c.enable_ip_banning \in BOOLEAN
      /\ c.emergency_mode \in BOOLEAN /\ c.exclusions \in BOOLEAN
      /\ c.detection_scan_body \in BOOLEAN
      /\ c.log_request_level \in Levels \cup {None}
      /\ c.log_suspicious_level \in Levels \cup {None}
      /\ c.log_country_check_level \in Levels \cup {None}
      /\ c.hooks \subseteq {"exclude_paths", "custom_error_responses", "on_block"}
  BY DEF ConfigSpace
<1>3. [passive |-> on] \in Switches /\ [passive |-> on] # None
  BY <1>2, NoneAssumption DEF Switches
<1>4. /\ limiter # None
      /\ [manager |-> manager, counters |-> counters] # None
  BY NoneAssumption DEF BanStates, Handles
<1>5. /\ l1 \in Layers(n) /\ OfMode(l1, on) /\ Detects(l1)
  <2>1. l0 \in Layers(n)
    BY <1>2, NewLayer
  <2>2. WithPassiveMode(l0, on) \in Layers(n)
    BY <1>2, <2>1 DEF WithPassiveMode, Layers
  <2>3. l1 \in Layers(n)
    BY <1>2, <2>2 DEF Detection, WithPenetrationDetection, Layers
  <2> QED
    BY <1>2, <2>3 DEF Detection, WithPassiveMode, WithPenetrationDetection, New, OfMode
<1>6. l2 \in Layers(n) /\ OfMode(l2, on) /\ Detects(l2) /\ Gated(l2)
  <2> HIDE DEF l1
  <2>1. l2 = IF c.ip_lists = "valid" THEN WithIpGate(l1) ELSE l1
    BY DEF Gate
  <2> HIDE DEF l2
  <2>2. CASE c.ip_lists = "valid"
    <3>1. l2 = WithIpGate(l1)
      BY <2>1, <2>2
    <3> QED
      BY <1>5, <3>1, GatedLayer
  <2>3. CASE c.ip_lists # "valid"
    BY <1>1, <1>5, <2>1, <2>3
  <2> QED
    BY <2>2, <2>3
<1>7. l3 \in Layers(n) /\ OfMode(l3, on) /\ Detects(l3) /\ Gated(l3) /\ Rated(l3) /\ Banning(l3)
  <2> DEFINE l == IF c.rate_limiting = "valid" THEN WithRateLimiting(l2, limiter) ELSE l2
  <2>1. l \in Layers(n) /\ OfMode(l, on) /\ Detects(l) /\ Gated(l) /\ Rated(l)
    BY <1>1, <1>4, <1>6 DEF WithRateLimiting, Layers, OfMode
  <2>2. l3 = IF c.enable_ip_banning THEN WithIpBanning(l, manager, counters) ELSE l
    BY DEF Stores
  <2> HIDE DEF l
  <2> QED
    BY <1>2, <1>4, <2>1, <2>2 DEF WithIpBanning, Layers, OfMode
<1>8. /\ l4 \in Layers(n) /\ OfMode(l4, on) /\ Detects(l4) /\ Gated(l4) /\ Rated(l4)
      /\ Banning(l4)
  <2> HIDE DEF l3
  <2>1. l4 = [l3 EXCEPT !.https = [passive |-> on]]
    BY DEF Https, WithHttpsEnforcement
  <2>2. l4 \in Layers(n)
    BY <1>3, <1>7, <2>1 DEF Layers, ModeOf
  <2>3. OfMode(l4, on)
    BY <1>3, <1>7, <2>1 DEF Layers, OfMode
  <2> QED
    BY <1>7, <2>1, <2>2, <2>3 DEF Layers
<1>9. /\ l5 \in Layers(n) /\ OfMode(l5, on) /\ Detects(l5) /\ Gated(l5) /\ Rated(l5)
      /\ Banning(l5) /\ Guarded(l5)
  <2> HIDE DEF l4
  <2>1. CASE c.emergency_mode \/ c.emergency_whitelist # "none"
    <3>1. l5 = [l4 EXCEPT !.emergency = [passive |-> on]]
      BY <2>1 DEF Emergency, WithEmergencyMode
    <3>2. l5 \in Layers(n)
      BY <1>3, <1>8, <3>1 DEF Layers, ModeOf
    <3>3. OfMode(l5, on)
      BY <1>3, <1>8, <3>1 DEF Layers, OfMode
    <3> QED
      BY <1>3, <1>8, <3>1, <3>2, <3>3 DEF Layers
  <2>2. CASE ~(c.emergency_mode \/ c.emergency_whitelist # "none")
    BY <1>8, <2>2 DEF Emergency
  <2> QED
    BY <2>1, <2>2
<1>10. /\ l9 \in Layers(n) /\ OfMode(l9, on) /\ Detects(l9) /\ Gated(l9) /\ Rated(l9)
       /\ Banning(l9) /\ Guarded(l9)
  <2> HIDE DEF l5
  <2> DEFINE Kept(l) == /\ l \in Layers(n) /\ OfMode(l, on) /\ Detects(l) /\ Gated(l)
                        /\ Rated(l) /\ Banning(l) /\ Guarded(l)
  <2>1. Kept(l6)
    BY <1>2, <1>9 DEF Hooks, With, Layers, OfMode
  <2> HIDE DEF l6
  <2>2. Kept(l7)
    BY <1>2, <2>1 DEF Exclusions, WithDetectionExclusions, Layers, OfMode
  <2> HIDE DEF l7
  <2>3. Kept(l8)
    BY <1>2, <2>2 DEF Logging, WithRequestLogging, MapLogLevel, Layers, OfMode
  <2> HIDE DEF l8
  <2>4. Kept(l9)
    BY <1>2, <2>3 DEF Observed, WithObservability, MapLogLevel, Layers, OfMode
  <2> QED
    BY <2>4
<1>11. /\ l10 \in Layers(n) /\ OfMode(l10, on) /\ Detects(l10) /\ Gated(l10) /\ Rated(l10)
       /\ Banning(l10) /\ Guarded(l10) /\ Agents(l10)
  <2> HIDE DEF l9
  <2>1. CASE c.blocked_user_agents = "valid"
    <3>1. l10 = [l9 EXCEPT !.user_agent = [passive |-> on]]
      BY <2>1 DEF UserAgents, WithUserAgent
    <3>2. l10 \in Layers(n)
      BY <1>3, <1>10, <3>1 DEF Layers, ModeOf
    <3>3. OfMode(l10, on)
      BY <1>3, <1>10, <3>1 DEF Layers, OfMode
    <3> QED
      BY <1>3, <1>10, <3>1, <3>2, <3>3 DEF Layers
  <2>2. CASE c.blocked_user_agents # "valid"
    BY <1>1, <1>10, <2>2 DEF UserAgents
  <2> QED
    BY <2>1, <2>2
<1>12. /\ l11 \in Layers(n) /\ OfMode(l11, on) /\ Detects(l11) /\ Gated(l11) /\ Rated(l11)
       /\ Banning(l11) /\ Guarded(l11) /\ Agents(l11)
  <2> HIDE DEF l10
  <2> DEFINE part == [manager |-> procManager, passive |-> on]
  <2>1. CASE c.security_headers \/ c.enable_cors \/ c.behavior_rules
    <3>1. l11 = [l10 EXCEPT !.processor = part]
      BY <2>1 DEF Processing, WithResponseProcessor
    <3>2. part \in [manager : 1 .. n, passive : BOOLEAN] /\ part.passive = on
      BY <1>2
    <3> HIDE DEF part
    <3>3. l11 \in Layers(n)
      BY <1>11, <3>1, <3>2 DEF Layers
    <3>4. OfMode(l11, on)
      BY <1>11, <3>1, <3>2 DEF Layers, OfMode
    <3> QED
      BY <1>11, <3>1, <3>3, <3>4 DEF Layers
  <2>2. CASE ~(c.security_headers \/ c.enable_cors \/ c.behavior_rules)
    BY <1>11, <2>2 DEF Processing
  <2> QED
    BY <2>1, <2>2
<1>13. Assembled(c, limiter, manager, counters, procManager) = l11
  BY DEF Assembled
<1> HIDE DEF l11
<1> QED
  BY <1>12, <1>13 DEF Faithful, Protects
-----------------------------------------------------------------------------
(* What a request and a reset leave of the stores.                         *)

(* A clone, a wrap and a builder keep every service what it was.           *)
LEMMA ServicesStay ==
  ASSUME ServicesOK, UNCHANGED serviceVars, made \in Nat, made' \in Nat, made <= made'
  PROVE  ServicesOK'
  BY LayersGrow DEF ServicesOK, serviceVars

(* The layer the host holds stays one while stores are made beside it.     *)
LEMMA HostStays ==
  ASSUME HostOK, UNCHANGED layerVars, made \in Nat, made' \in Nat, made <= made'
  PROVE  HostOK'
  BY LayersGrow DEF HostOK, layerVars

(* The stores a service uses are stores that were made.                    *)
LEMMA ServiceStores ==
  ASSUME IInv, NEW s \in Slots, services[s] # None
  PROVE  /\ Limiter(s) = WiredLimiter(s)
         /\ Limiter(s) # None => Limiter(s) \in StoreIds
         /\ BanState(s) = services[s].ban_state
         /\ BanState(s) # None =>
              /\ BanState(s).manager \in 1 .. made /\ BanState(s).manager \in StoreIds
              /\ BanState(s).counters \in StoreIds
              /\ BanState(s).manager = WiredManager(s)
              /\ BanState(s).counters = WiredCounters(s)
         /\ BanState(s) = None => WiredManager(s) = None /\ WiredCounters(s) = None
<1>1. Staged(services[s], made)
  BY DEF IInv, ServicesOK
<1>2. 1 .. made \subseteq StoreIds
  BY WiringAssumption DEF IInv, StoresOK, StoreIds
<1> QED
  BY <1>1, <1>2 DEF Staged, Limiter, BanState, Stage, WiredLimiter, WiredManager, WiredCounters

(* A hit is recorded while there is room, by a passive service or not.     *)
LEMMA HitGrows ==
  ASSUME IInv, NEW s \in Slots, services[s] # None, Hit(s)
  PROVE  /\ hits' \in [StoreIds -> 0 .. RateLimit]
         /\ \A h \in StoreIds : hits[h] <= hits'[h] /\ hits'[h] <= hits[h] + 1
         /\ \A h \in StoreIds : h # Limiter(s) => hits'[h] = hits[h]
         /\ Limiter(s) # None /\ HasRoom(s) => hits'[Limiter(s)] = hits[Limiter(s)] + 1
<1>1. Limiter(s) # None => Limiter(s) \in StoreIds
  BY ServiceStores
<1>2. hits \in [StoreIds -> 0 .. RateLimit] /\ RateLimit \in Nat
  BY WiringAssumption DEF IInv, StoresOK
<1>3. CASE Limiter(s) # None /\ hits[Limiter(s)] < RateLimit
  BY <1>1, <1>2, <1>3 DEF Hit
<1>4. CASE ~(Limiter(s) # None /\ hits[Limiter(s)] < RateLimit)
  BY <1>1, <1>2, <1>4 DEF Hit, HasRoom
<1> QED
  BY <1>3, <1>4

(* Booking under a handle counts one there and nothing anywhere else.      *)
LEMMA BookedCounts ==
  ASSUME IInv, NEW kind \in Tallies, NEW handle, handle # None => handle \in StoreIds
  PROVE  /\ Booked(kind, handle) \in [StoreIds -> Nat]
         /\ \A h \in StoreIds :
              Booked(kind, handle)[h] = IF h = handle THEN tally[kind][h] + 1 ELSE tally[kind][h]
<1>1. tally[kind] \in [StoreIds -> Nat]
  BY DEF IInv, StoresOK
<1>2. None \notin StoreIds
  BY NoneAssumption DEF StoreIds
<1> QED
  BY <1>1, <1>2 DEF Booked

(* A request books its hit, and what it got past an enforcing service.     *)
LEMMA BookedByCounts ==
  ASSUME IInv, NEW s \in Slots, NEW kind \in Tallies, NEW handle,
         handle # None => handle \in StoreIds
  PROVE  /\ BookedBy(s, kind, handle) \in [StoreIds -> Nat]
         /\ \A h \in StoreIds :
              BookedBy(s, kind, handle)[h] =
                IF h = handle /\ Enforces(s) THEN tally[kind][h] + 1 ELSE tally[kind][h]
<1>1. tally[kind] \in [StoreIds -> Nat]
  BY DEF IInv, StoresOK
<1>2. CASE Enforces(s)
  BY <1>2, BookedCounts DEF BookedBy
<1>3. CASE ~Enforces(s)
  BY <1>1, <1>3 DEF BookedBy
<1> QED
  BY <1>2, <1>3
-----------------------------------------------------------------------------
(* The steps of the host.                                                  *)

(* A constructor's layer is over the stores it made.                       *)
LEMMA ConstructsKeeps ==
  ASSUME IInv, NEW l, NEW c \in Configs \cup {None}, Constructs(l, c),
         made' \in 0 .. MaxStores, made <= made',
         l \in Layers(made'), Faithful(l, c, {})
  PROVE  IInv'
<1> USE WiringAssumption
<1>1. StoresOK'
  <2>1. kept' \subseteq 1 .. made' /\ banned' \subseteq 1 .. made'
    BY DEF IInv, StoresOK, Constructs, storeVars
  <2> QED
    BY <2>1 DEF IInv, StoresOK, Constructs, storeVars
<1>2. HostOK'
  BY DEF HostOK, Constructs
<1>3. ServicesOK'
  BY ServicesStay DEF IInv, StoresOK, Constructs
<1>4. Booking'
  BY DEF IInv, Booking, Constructs, storeVars
<1> QED
  BY <1>1, <1>2, <1>3, <1>4 DEF IInv

(* A builder call replaces a field of the host's layer and of no service's.*)
LEMMA BuildsKeeps ==
  ASSUME IInv, NEW name, NEW l, Builds(name, l),
         made' \in 0 .. MaxStores, made <= made', kept' \subseteq 1 .. made',
         l \in Layers(made'), Faithful(l, source, touched \cup {name})
  PROVE  IInv'
<1> USE WiringAssumption
<1>1. StoresOK'
  <2>1. banned' \subseteq 1 .. made'
    BY DEF IInv, StoresOK, Builds, storeVars
  <2>2. calls' \in 0 .. MaxCalls
    BY DEF IInv, StoresOK, Builds
  <2> QED
    BY <2>1, <2>2 DEF IInv, StoresOK, Builds, storeVars
<1>2. HostOK'
  BY DEF HostOK, Builds
<1>3. ServicesOK'
  BY ServicesStay DEF IInv, StoresOK, Builds
<1>4. Booking'
  BY DEF IInv, Booking, Builds, storeVars
<1> QED
  BY <1>1, <1>2, <1>3, <1>4 DEF IInv

(* with_rate_limiting, with_ip_banning, with_passive_mode and the hooks.   *)
LEMMA BuildersKeep ==
  ASSUME IInv,
         BuildsRateLimiting \/ BuildsIpBanning \/ BuildsPassiveMode \/ BuildsHook
  PROVE  IInv'
<1> USE WiringAssumption
<1>1. made \in Nat /\ kept \subseteq 1 .. made
  BY DEF IInv, StoresOK
<1>2. layer # None => layer \in Layers(made) /\ Faithful(layer, source, touched)
  BY DEF IInv, HostOK
<1>3. CASE BuildsRateLimiting
  <2> DEFINE l == WithRateLimiting(layer, made + 1)
  <2>1. /\ layer # None /\ made' = made + 1 /\ made' \in 0 .. MaxStores
        /\ kept' = kept /\ Builds("rate_limiter", l)
    BY <1>1, <1>3 DEF BuildsRateLimiting, Builds, Make
  <2>2. layer \in Layers(made') /\ made + 1 \in 1 .. made' /\ made + 1 # None
    BY <1>1, <1>2, <2>1, LayersGrow, NoneAssumption
  <2>3. l \in Layers(made')
    BY <2>2 DEF WithRateLimiting, Layers
  <2>4. Faithful(l, source, touched \cup {"rate_limiter"})
    BY <1>2, <2>1, <2>2 DEF WithRateLimiting, Faithful, OfMode, Protects, Layers
  <2> HIDE DEF l
  <2> QED
    BY <1>1, <2>1, <2>3, <2>4, BuildsKeeps
<1>4. CASE BuildsIpBanning
  <2>1. PICK m \in 1 .. made', k \in 1 .. made' :
          /\ layer # None /\ made <= made' /\ made' \in 0 .. MaxStores
          /\ kept' \subseteq 1 .. made'
          /\ Builds("ban_state", WithIpBanning(layer, m, k))
    <3>1. CASE \E m \in kept :
                 /\ Make(1)
                 /\ Builds("ban_state", WithIpBanning(layer, m, made + 1))
                 /\ UNCHANGED kept
      BY <1>1, <3>1 DEF Builds, Make
    <3>2. CASE /\ Make(2)
               /\ Builds("ban_state", WithIpBanning(layer, made + 1, made + 2))
               /\ kept' = kept \cup {made + 1}
      BY <1>1, <3>2 DEF Builds, Make
    <3> QED
      BY <1>4, <3>1, <3>2 DEF BuildsIpBanning
  <2> DEFINE l == WithIpBanning(layer, m, k)
             pair == [manager |-> m, counters |-> k]
  <2>2. layer \in Layers(made')
    BY <1>1, <1>2, <2>1, LayersGrow
  <2>3. pair \in [manager : 1 .. made', counters : 1 .. made'] /\ pair # None
    BY <2>1, NoneAssumption DEF BanStates, Handles
  <2>4. l = [layer EXCEPT !.ban_state = pair]
    BY DEF WithIpBanning
  <2> HIDE DEF pair
  <2>5. l \in Layers(made')
    BY <2>2, <2>3, <2>4 DEF Layers
  <2>6. Faithful(l, source, touched \cup {"ban_state"})
    BY <1>2, <2>1, <2>2, <2>3, <2>4 DEF Faithful, OfMode, Protects, Layers
  <2> HIDE DEF l
  <2>7. Builds("ban_state", l)
    BY <2>1 DEF l
  <2> QED
    BY <1>1, <2>1, <2>5, <2>6, <2>7, BuildsKeeps
<1>5. CASE BuildsPassiveMode
  <2>1. PICK on \in BOOLEAN :
          Builds("passive_mode", WithPassiveMode(layer, on)) /\ UNCHANGED <<made, kept>>
    BY <1>5 DEF BuildsPassiveMode
  <2> DEFINE l == WithPassiveMode(layer, on)
  <2>2. l \in Layers(made')
    BY <1>2, <2>1 DEF Builds, WithPassiveMode, Layers
  <2>3. Faithful(l, source, touched \cup {"passive_mode"})
    BY <1>2, <2>1 DEF Builds, WithPassiveMode, Faithful, Protects, Layers
  <2> HIDE DEF l
  <2>4. Builds("passive_mode", l) /\ UNCHANGED <<made, kept>>
    BY <2>1 DEF l
  <2>5. made' \in 0 .. MaxStores /\ made <= made' /\ kept' \subseteq 1 .. made'
    BY <2>4 DEF IInv, StoresOK
  <2> QED
    BY <2>2, <2>3, <2>4, <2>5, BuildsKeeps
<1>6. CASE BuildsHook
  <2>1. PICK hook \in HookNames : Builds(hook, With(layer, {hook})) /\ UNCHANGED <<made, kept>>
    BY <1>6 DEF BuildsHook
  <2> DEFINE l == With(layer, {hook})
  <2>2. l \in Layers(made')
    BY <1>2, <2>1 DEF Builds, With, Layers
  <2>3. Faithful(l, source, touched \cup {hook})
    BY <1>2, <2>1 DEF Builds, With, Faithful, OfMode, Protects, Layers
  <2> HIDE DEF l
  <2>4. Builds(hook, l) /\ UNCHANGED <<made, kept>>
    BY <2>1 DEF l
  <2>5. made' \in 0 .. MaxStores /\ made <= made' /\ kept' \subseteq 1 .. made'
    BY <2>4 DEF IInv, StoresOK
  <2> QED
    BY <2>2, <2>3, <2>4, <2>5, BuildsKeeps
<1> QED
  BY <1>3, <1>4, <1>5, <1>6

(* A new service is one more over the stores there are.                    *)
LEMMA WrapsKeeps ==
  ASSUME IInv, NEW s \in Slots,
         Wraps(s) \/ \E q \in Slots : Clones(q, s)
  PROVE  IInv'
<1>1. UNCHANGED <<layerVars, made, kept, storeVars, asked, tally>>
  BY DEF Wraps, Clones
<1>2. \E l, o :
        /\ services' = [services EXCEPT ![s] = l] /\ origin' = [origin EXCEPT ![s] = o]
        /\ Staged(l, made) /\ Faithful(l, o.config, o.touched)
  <2>1. CASE Wraps(s)
    <3>1. layer # None /\ layer \in Layers(made) /\ Faithful(layer, source, touched)
      BY <2>1 DEF Wraps, IInv, HostOK
    <3>2. Staged(Layer(layer), made) /\ Faithful(Layer(layer), source, touched)
      BY <3>1, LayerStaged DEF IInv, StoresOK
    <3> DEFINE o == [config |-> source, touched |-> touched]
    <3>3. o.config = source /\ o.touched = touched
      OBVIOUS
    <3>4. services' = [services EXCEPT ![s] = Layer(layer)] /\ origin' = [origin EXCEPT ![s] = o]
      BY <2>1 DEF Wraps
    <3> HIDE DEF o
    <3> QED
      BY <3>2, <3>3, <3>4
  <2>2. ASSUME NEW q \in Slots, Clones(q, s)
        PROVE  /\ services' = [services EXCEPT ![s] = services[q]]
               /\ origin' = [origin EXCEPT ![s] = origin[q]]
               /\ Staged(services[q], made)
               /\ Faithful(services[q], origin[q].config, origin[q].touched)
    BY <2>2 DEF Clones, IInv, ServicesOK
  <2> QED
    BY <2>1, <2>2
<1>3. ServicesOK'
  BY <1>1, <1>2 DEF IInv, ServicesOK
<1>4. StoresOK' /\ HostOK' /\ Booking'
  BY <1>1 DEF IInv, StoresOK, HostOK, Booking, layerVars, storeVars
<1> QED
  BY <1>3, <1>4 DEF IInv
-----------------------------------------------------------------------------
(* The steps of the services.                                              *)

(* A request that harms nobody.                                            *)
LEMMA BenignKeeps ==
  ASSUME IInv, NEW s \in Slots, Benign(s)
  PROVE  IInv'
<1> USE WiringAssumption
<1>1. services[s] # None /\ Hit(s) /\ (Enforces(s) => HasRoom(s))
  BY DEF Benign, Arrives, Enforces
<1>2. /\ Limiter(s) = WiredLimiter(s)
      /\ WiredLimiter(s) # None => WiredLimiter(s) \in StoreIds
      /\ WiredManager(s) # None => WiredManager(s) \in StoreIds
  BY <1>1, ServiceStores
<1>3. /\ hits' \in [StoreIds -> 0 .. RateLimit]
      /\ \A h \in StoreIds : hits[h] <= hits'[h] /\ hits'[h] <= hits[h] + 1
      /\ \A h \in StoreIds : h # Limiter(s) => hits'[h] = hits[h]
      /\ Limiter(s) # None /\ HasRoom(s) => hits'[Limiter(s)] = hits[Limiter(s)] + 1
  BY <1>1, HitGrows
<1>4. tally \in [Tallies -> [StoreIds -> Nat]] /\ hits \in [StoreIds -> 0 .. RateLimit]
  BY DEF IInv, StoresOK
<1>5. /\ tally'["hits"] = Booked("hits", WiredLimiter(s))
      /\ tally'["admitted"] = BookedBy(s, "admitted", WiredLimiter(s))
      /\ tally'["passed"] = BookedBy(s, "passed", WiredManager(s))
      /\ tally'["plain"] = tally["plain"]
      /\ tally' \in [Tallies -> [StoreIds -> Nat]]
  BY <1>2, <1>4, BookedCounts, BookedByCounts DEF Benign, Tallies
<1>6. UNCHANGED <<layerVars, serviceVars, made, kept, counts, banned>> /\ asked' = asked + 1
  BY DEF Benign, Arrives
<1>7. StoresOK'
  <2>1. asked' \in 0 .. MaxRequests
    BY DEF IInv, StoresOK, Benign, Arrives
  <2> QED
    BY <1>3, <1>5, <1>6, <2>1 DEF IInv, StoresOK, layerVars
<1>8. HostOK' /\ ServicesOK'
  BY <1>6, HostStays, ServicesStay DEF IInv, StoresOK
<1>9. ASSUME NEW h \in StoreIds
      PROVE  tally'["admitted"][h] <= hits'[h] /\ hits'[h] <= tally'["hits"][h]
  <2>1. tally["admitted"][h] <= hits[h] /\ hits[h] <= tally["hits"][h]
    BY DEF IInv, Booking
  <2>2. tally'["hits"][h] = IF h = Limiter(s) THEN tally["hits"][h] + 1 ELSE tally["hits"][h]
    BY <1>2, <1>5, BookedCounts DEF Tallies
  <2>3. tally'["admitted"][h] =
          IF h = Limiter(s) /\ Enforces(s) THEN tally["admitted"][h] + 1
                                           ELSE tally["admitted"][h]
    BY <1>2, <1>5, BookedByCounts DEF Tallies
  <2>4. h # None
    BY NoneAssumption DEF StoreIds
  <2>5. tally["admitted"][h] \in Nat /\ tally["hits"][h] \in Nat
        /\ hits[h] \in Nat /\ hits'[h] \in Nat
    BY <1>3, <1>4 DEF Tallies
  <2> QED
    BY <1>1, <1>3, <2>1, <2>2, <2>3, <2>4, <2>5
<1>10. Booking'
  BY <1>5, <1>6, <1>9 DEF IInv, Booking
<1> QED
  BY <1>7, <1>8, <1>10 DEF IInv

(* A threat is counted, and answered plainly only below the threshold.     *)
LEMMA ThreatKeeps ==
  ASSUME IInv, NEW s \in Slots, Threat(s)
  PROVE  IInv'
<1> USE WiringAssumption
<1> DEFINE state == BanState(s)
           bans == state # None /\ counts[state.counters] + 1 >= BanThreshold
<1>1. services[s] # None /\ Hit(s) /\ (Enforces(s) => HasRoom(s))
  BY DEF Threat, Arrives, Enforces
<1>2. /\ Limiter(s) = WiredLimiter(s)
      /\ WiredLimiter(s) # None => WiredLimiter(s) \in StoreIds
      /\ WiredManager(s) # None => WiredManager(s) \in StoreIds
      /\ WiredCounters(s) # None => WiredCounters(s) \in StoreIds
      /\ state # None => /\ state.manager \in 1 .. made
                         /\ state.counters \in StoreIds
                         /\ state.counters = WiredCounters(s)
      /\ state = None => WiredCounters(s) = None
  BY <1>1, ServiceStores
<1>3. /\ hits' \in [StoreIds -> 0 .. RateLimit]
      /\ \A h \in StoreIds : hits[h] <= hits'[h] /\ hits'[h] <= hits[h] + 1
      /\ \A h \in StoreIds : h # Limiter(s) => hits'[h] = hits[h]
      /\ Limiter(s) # None /\ HasRoom(s) => hits'[Limiter(s)] = hits[Limiter(s)] + 1
  BY <1>1, HitGrows
<1>4. /\ tally \in [Tallies -> [StoreIds -> Nat]] /\ hits \in [StoreIds -> 0 .. RateLimit]
      /\ counts \in [StoreIds -> 0 .. BanThreshold]
  BY DEF IInv, StoresOK
<1>5. /\ tally'["hits"] = Booked("hits", WiredLimiter(s))
      /\ tally'["admitted"] = tally["admitted"]
      /\ tally'["plain"] = IF bans THEN tally["plain"]
                                   ELSE BookedBy(s, "plain", WiredCounters(s))
      /\ tally'["passed"] = IF bans THEN tally["passed"]
                                    ELSE BookedBy(s, "passed", WiredManager(s))
      /\ tally' \in [Tallies -> [StoreIds -> Nat]]
  BY <1>2, <1>4, BookedCounts, BookedByCounts DEF Threat, Tallies
<1>6. UNCHANGED <<layerVars, serviceVars, made, kept>> /\ asked' = asked + 1
  BY DEF Threat, Arrives
<1>7. /\ counts' \in [StoreIds -> 0 .. BanThreshold]
      /\ \A h \in StoreIds : counts[h] <= counts'[h]
      /\ state # None /\ ~bans => counts'[state.counters] = counts[state.counters] + 1
  <2>1. counts' = IF state # None /\ counts[state.counters] < BanThreshold
                    THEN [counts EXCEPT ![state.counters] = @ + 1] ELSE counts
    BY DEF Threat
  <2> HIDE DEF state
  <2>2. CASE state # None /\ counts[state.counters] < BanThreshold
    BY <1>2, <1>4, <2>1, <2>2
  <2>3. CASE ~(state # None /\ counts[state.counters] < BanThreshold)
    BY <1>2, <1>4, <2>1, <2>3
  <2> QED
    BY <2>2, <2>3
<1>8. banned' \subseteq 1 .. made
  BY <1>2 DEF Threat, IInv, StoresOK
<1>9. StoresOK'
  <2>1. asked' \in 0 .. MaxRequests
    BY DEF IInv, StoresOK, Threat, Arrives
  <2> QED
    BY <1>3, <1>5, <1>6, <1>7, <1>8, <2>1 DEF IInv, StoresOK, layerVars
<1>10. HostOK' /\ ServicesOK'
  BY <1>6, HostStays, ServicesStay DEF IInv, StoresOK
<1> HIDE DEF state, bans
<1>11. ASSUME NEW h \in StoreIds
       PROVE  tally'["admitted"][h] <= hits'[h] /\ hits'[h] <= tally'["hits"][h]
  <2>1. tally["admitted"][h] <= hits[h] /\ hits[h] <= tally["hits"][h]
    BY DEF IInv, Booking
  <2>2. tally'["hits"][h] = IF h = Limiter(s) THEN tally["hits"][h] + 1 ELSE tally["hits"][h]
    BY <1>2, <1>5, BookedCounts DEF Tallies
  <2>3. tally["admitted"][h] \in Nat /\ tally["hits"][h] \in Nat
        /\ hits[h] \in Nat /\ hits'[h] \in Nat
    BY <1>3, <1>4 DEF Tallies
  <2> QED
    BY <1>3, <1>5, <2>1, <2>2, <2>3
<1>12. ASSUME NEW h \in StoreIds
       PROVE  tally'["plain"][h] <= counts'[h] /\ tally'["plain"][h] < BanThreshold
  <2>1. tally["plain"][h] <= counts[h] /\ tally["plain"][h] < BanThreshold
    BY DEF IInv, Booking
  <2>2. /\ tally["plain"][h] \in Nat /\ counts[h] \in Nat /\ counts'[h] \in Nat
        /\ BanThreshold \in Nat
    BY <1>4, <1>7 DEF Tallies
  <2>3. CASE tally'["plain"][h] = tally["plain"][h]
    BY <1>7, <2>1, <2>2, <2>3
  <2>4. CASE ~bans /\ h = WiredCounters(s) /\ tally'["plain"][h] = tally["plain"][h] + 1
    <3>1. state # None /\ h = state.counters
      BY <1>2, <2>4, NoneAssumption DEF StoreIds
    <3>2. counts'[h] = counts[h] + 1 /\ counts[h] + 1 < BanThreshold
      BY <1>7, <2>2, <2>4, <3>1 DEF bans
    <3> QED
      BY <2>1, <2>2, <2>4, <3>2
  <2>5. tally'["plain"][h] = tally["plain"][h] \/
        (~bans /\ h = WiredCounters(s) /\ tally'["plain"][h] = tally["plain"][h] + 1)
    BY <1>2, <1>5, BookedByCounts DEF Tallies
  <2> QED
    BY <2>3, <2>4, <2>5
<1>13. Booking'
  BY <1>11, <1>12 DEF Booking
<1> QED
  BY <1>9, <1>10, <1>13 DEF IInv

(* reset forgets the hits with the record of them.                         *)
LEMMA ResetsKeeps ==
  ASSUME IInv, NEW l, Resets(l),
         l # None => l.rate_limiter \in {None} \cup 1 .. made
  PROVE  IInv'
<1> USE WiringAssumption
<1> DEFINE h0 == l.rate_limiter
<1>1. h0 \in StoreIds
  BY DEF Resets, IInv, StoresOK, StoreIds
<1>2. /\ UNCHANGED <<layerVars, serviceVars, made, kept, counts, banned, asked>>
      /\ hits' = [hits EXCEPT ![h0] = 0]
      /\ tally' = [tally EXCEPT !["hits"][h0] = 0, !["admitted"][h0] = 0]
  BY DEF Resets
<1>3. /\ tally \in [Tallies -> [StoreIds -> Nat]] /\ hits \in [StoreIds -> 0 .. RateLimit]
  BY DEF IInv, StoresOK
<1> HIDE DEF h0
<1>4. /\ hits' \in [StoreIds -> 0 .. RateLimit] /\ tally' \in [Tallies -> [StoreIds -> Nat]]
      /\ tally'["plain"] = tally["plain"]
      /\ tally'["hits"] = [tally["hits"] EXCEPT ![h0] = 0]
      /\ tally'["admitted"] = [tally["admitted"] EXCEPT ![h0] = 0]
  BY <1>1, <1>2, <1>3 DEF Tallies
<1>5. StoresOK'
  BY <1>2, <1>4 DEF IInv, StoresOK, layerVars
<1>6. HostOK' /\ ServicesOK'
  BY <1>2, HostStays, ServicesStay DEF IInv, StoresOK
<1>7. Booking'
  BY <1>1, <1>2, <1>3, <1>4 DEF IInv, Booking, Tallies
<1> QED
  BY <1>5, <1>6, <1>7 DEF IInv

(* The invariant holds at first and every step keeps it.                   *)
LEMMA Inductive == Spec => []IInv
<1>1. Init => IInv
  <2> SUFFICES ASSUME Init PROVE IInv
    OBVIOUS
  <2>1. StoresOK
    BY WiringAssumption DEF Init, StoresOK
  <2>2. HostOK /\ ServicesOK
    BY DEF Init, HostOK, ServicesOK
  <2>3. Booking
    BY WiringAssumption DEF Init, Booking, Tallies
  <2> QED
    BY <2>1, <2>2, <2>3 DEF IInv
<1>2. IInv /\ [Next]_vars => IInv'
  <2> SUFFICES ASSUME IInv, [Next]_vars PROVE IInv'
    OBVIOUS
  <2> USE WiringAssumption
  <2>1. CASE ByDefaults
    <3>1. WithDefaults \in Layers(made)
      BY NewLayer DEF WithDefaults, DefaultInspectBytes, IInv, StoresOK
    <3>2. Faithful(WithDefaults, None, {})
      BY DEF Faithful
    <3> HIDE DEF WithDefaults
    <3> QED
      BY <2>1, <3>1, <3>2, ConstructsKeeps DEF ByDefaults, IInv, StoresOK
  <2>2. ASSUME NEW c \in Configs, FromSecurityConfig(c) PROVE IInv'
    <3> DEFINE l == Assembled(c, made + 1, made + 2, made + 3, made + 4)
    <3>1. /\ ConfigError(c) = None /\ made' = made + 4 /\ made' \in 0 .. MaxStores
          /\ Constructs(l, c) /\ made \in Nat
      BY <2>2 DEF FromSecurityConfig, Make, IInv, StoresOK
    <3>2. /\ made + 1 \in 1 .. made' /\ made + 2 \in 1 .. made'
          /\ made + 3 \in 1 .. made' /\ made + 4 \in 1 .. made'
          /\ made' \in Nat /\ made <= made'
      BY <3>1
    <3>3. l \in Layers(made') /\ Faithful(l, c, {})
      BY <3>1, <3>2, AssembledFaithful
    <3> HIDE DEF l
    <3> QED
      BY <3>1, <3>2, <3>3, ConstructsKeeps
  <2>3. ASSUME NEW m \in kept, OperatorBans(m) PROVE IInv'
    <3>1. /\ UNCHANGED <<layerVars, serviceVars, made, kept, hits, counts, asked, tally>>
          /\ banned' = banned \cup {m}
      BY <2>3 DEF OperatorBans
    <3> QED
      BY <3>1, HostStays, ServicesStay DEF IInv, StoresOK, Booking, layerVars
  <2>4. CASE Resets(layer)
    BY <2>4, ResetsKeeps DEF IInv, HostOK, Layers
  <2>5. ASSUME NEW s \in Slots, Resets(services[s]) PROVE IInv'
    BY <2>5, ResetsKeeps DEF IInv, ServicesOK, Staged
  <2>6. CASE UNCHANGED vars
    <3>1. UNCHANGED <<layerVars, serviceVars, made, kept, storeVars, asked, tally>>
      BY <2>6 DEF vars
    <3> QED
      BY <3>1 DEF IInv, StoresOK, HostOK, ServicesOK, Booking, layerVars, serviceVars, storeVars
  <2> QED
    BY <2>1, <2>2, <2>3, <2>4, <2>5, <2>6, BuildersKeep, WrapsKeeps, BenignKeeps, ThreatKeeps
       DEF Next
<1> QED
  BY <1>1, <1>2, PTL DEF Spec
-----------------------------------------------------------------------------
(* The theorems.                                                           *)

(* The variables keep their types, and no service uses a store that was    *)
(* not made.                                                               *)
THEOREM WiringTypeCorrect == Spec => []TypeOK
<1>1. IInv => TypeOK
  <2> SUFFICES ASSUME IInv PROVE TypeOK
    OBVIOUS
  <2>1. \A s \in Slots : services[s] # None => WiredLimiter(s) \in 1 .. made \cup {None}
    BY DEF IInv, ServicesOK, Staged, WiredLimiter
  <2> QED
    BY <2>1 DEF IInv, StoresOK, TypeOK
<1> QED
  BY <1>1, Inductive, PTL

(* However many services are wrapped and cloned over a limiter, together   *)
(* they admit no more than the limit between two resets.                   *)
THEOREM LimitIsShared == Spec => []LimitShared
<1>1. IInv => LimitShared
  <2> SUFFICES ASSUME IInv, NEW h \in StoreIds PROVE tally["admitted"][h] <= RateLimit
    BY DEF LimitShared
  <2>1. tally["admitted"][h] <= hits[h] /\ hits[h] \in 0 .. RateLimit
    BY DEF IInv, Booking, StoresOK
  <2>2. tally["admitted"][h] \in Nat /\ RateLimit \in Nat
    BY WiringAssumption DEF IInv, StoresOK, Tallies
  <2> QED
    BY <2>1, <2>2
<1> QED
  BY <1>1, Inductive, PTL

(* A service without room has seen a full window since the last reset,     *)
(* through whichever layer or service it was reset.                        *)
THEOREM ResetReachesAll == Spec => []ResetForgets
<1>1. IInv => ResetForgets
  <2> SUFFICES ASSUME IInv, NEW s \in Slots, services[s] # None,
                      WiredLimiter(s) # None, ~HasRoom(s)
               PROVE  tally["hits"][WiredLimiter(s)] >= RateLimit
    BY DEF ResetForgets
  <2>1. Limiter(s) = WiredLimiter(s) /\ Limiter(s) \in StoreIds
    BY ServiceStores
  <2>2. ~(hits[Limiter(s)] < RateLimit) /\ hits[Limiter(s)] <= tally["hits"][Limiter(s)]
    BY <2>1 DEF HasRoom, IInv, Booking
  <2>3. /\ hits[Limiter(s)] \in Nat /\ tally["hits"][Limiter(s)] \in Nat
        /\ RateLimit \in Nat
    BY <2>1, WiringAssumption DEF IInv, StoresOK, Tallies
  <2> QED
    BY <2>1, <2>2, <2>3
<1> QED
  BY <1>1, Inductive, PTL

(* A wrapped service stays what it is, and no count is taken back.         *)
LEMMA StepKeepsEarned ==
  ASSUME IInv, Next, NEW s \in Slots, NEW m, EarnsBan(s, m)
  PROVE  EarnsBan(s, m)'
<1> USE WiringAssumption
<1>1. services'[s] = services[s]
  <2>1. ASSUME NEW q \in Slots, Wraps(q) \/ \E p \in Slots : Clones(p, q)
        PROVE  services'[s] = services[s]
    BY <2>1 DEF Wraps, Clones, EarnsBan, IInv, ServicesOK
  <2> QED
    BY <2>1 DEF Next, ByDefaults, FromSecurityConfig, Constructs, BuildsRateLimiting,
       BuildsIpBanning, BuildsPassiveMode, BuildsHook, Builds, Benign, Threat, Arrives,
       OperatorBans, Resets, serviceVars
<1>2. counts \in [StoreIds -> 0 .. BanThreshold] /\ BanState(s).counters \in StoreIds
  BY ServiceStores DEF EarnsBan, IInv, StoresOK
<1>3. \A h \in StoreIds : counts'[h] \in Nat /\ counts[h] <= counts'[h]
  <2>1. CASE counts' = counts
    BY <1>2, <2>1
  <2>2. ASSUME NEW q \in Slots, Threat(q), counts' # counts
        PROVE  \A h \in StoreIds : counts'[h] \in Nat /\ counts[h] <= counts'[h]
    <3>1. counts' = [counts EXCEPT ![BanState(q).counters] = counts[BanState(q).counters] + 1]
      BY <2>2 DEF Threat
    <3>2. \A h \in StoreIds : counts[h] \in Nat /\ counts'[h] \in {counts[h], counts[h] + 1}
      BY <1>2, <3>1
    <3> QED
      BY <3>2
  <2> QED
    BY <2>1, <2>2 DEF Next, ByDefaults, FromSecurityConfig, Constructs, BuildsRateLimiting,
       BuildsIpBanning, BuildsPassiveMode, BuildsHook, Builds, Wraps, Clones, Benign,
       OperatorBans, Resets, storeVars
<1>4. BanState(s)' = BanState(s) /\ Enforces(s)' = Enforces(s)
  BY <1>1 DEF BanState, Enforces, Stage
<1>5. counts'[BanState(s).counters] >= BanThreshold
  <2>1. /\ counts[BanState(s).counters] \in Nat /\ counts'[BanState(s).counters] \in Nat
        /\ counts[BanState(s).counters] <= counts'[BanState(s).counters]
        /\ counts[BanState(s).counters] >= BanThreshold /\ BanThreshold \in Nat
    BY <1>2, <1>3 DEF EarnsBan
  <2> QED
    BY <2>1
<1> QED
  BY <1>1, <1>4, <1>5 DEF EarnsBan

(* A threat that bans is one of a service whose counters came to it.       *)
LEMMA ThreatEarns ==
  ASSUME IInv, NEW s \in Slots, Threat(s), NEW m \in banned', m \notin banned
  PROVE  EarnsBan(s, m)'
<1> USE WiringAssumption
<1>1. /\ services[s] # None /\ services' = services /\ Enforces(s)
      /\ BanState(s) # None /\ BanState(s).manager = m
      /\ counts[BanState(s).counters] + 1 >= BanThreshold
  BY DEF Threat, Arrives, serviceVars
<1>2. counts \in [StoreIds -> 0 .. BanThreshold] /\ BanState(s).counters \in StoreIds
  BY <1>1, ServiceStores DEF IInv, StoresOK
<1>3. BanState(s)' = BanState(s) /\ Enforces(s)' = Enforces(s)
  BY <1>1 DEF BanState, Enforces, Stage
<1>4. PICK h \in StoreIds : h = BanState(s).counters
  BY <1>2
<1>5. counts' = IF counts[h] < BanThreshold THEN [counts EXCEPT ![h] = counts[h] + 1] ELSE counts
  BY <1>1, <1>4 DEF Threat
<1>6. counts'[h] >= BanThreshold
  <2>1. counts[h] \in Nat /\ BanThreshold \in Nat /\ counts[h] + 1 >= BanThreshold
    BY <1>1, <1>2, <1>4
  <2>2. CASE counts[h] < BanThreshold
    BY <1>2, <1>5, <2>1, <2>2
  <2>3. CASE ~(counts[h] < BanThreshold)
    BY <1>5, <2>1, <2>3
  <2> QED
    BY <2>2, <2>3
<1> QED
  BY <1>1, <1>3, <1>4, <1>6 DEF EarnsBan

(* The services over one pair of counters let fewer threats than the       *)
(* threshold go with a plain 400, and ban for no fewer.                    *)
THEOREM ThresholdIsShared == Spec => []ThresholdShared
<1> DEFINE AllEarned == \A m \in banned \ kept : \E s \in Slots : EarnsBan(s, m)
<1>1. Init => AllEarned
  BY DEF Init
<1>2. IInv /\ AllEarned /\ [Next]_vars => AllEarned'
  <2> SUFFICES ASSUME IInv, AllEarned, [Next]_vars, NEW m \in banned', m \notin kept'
               PROVE  \E s \in Slots : EarnsBan(s, m)'
    OBVIOUS
  <2>1. CASE UNCHANGED vars
    BY <2>1 DEF vars, serviceVars, storeVars, EarnsBan, BanState, Enforces, Stage
  <2>2. kept \subseteq kept'
    BY DEF Next, ByDefaults, FromSecurityConfig, Constructs, BuildsRateLimiting,
       BuildsIpBanning, BuildsPassiveMode, BuildsHook, Builds, Wraps, Clones, Benign, Threat,
       Arrives, OperatorBans, Resets, vars
  <2>3. CASE Next /\ m \in banned
    BY <2>2, <2>3, StepKeepsEarned
  <2>4. CASE Next /\ m \notin banned
    <3>1. \E s \in Slots : Threat(s)
      BY <2>2, <2>4 DEF Next, ByDefaults, FromSecurityConfig, Constructs, BuildsRateLimiting,
         BuildsIpBanning, BuildsPassiveMode, BuildsHook, Builds, Wraps, Clones, Benign,
         Arrives, OperatorBans, Resets, storeVars
    <3> QED
      BY <2>4, <3>1, ThreatEarns
  <2> QED
    BY <2>1, <2>3, <2>4
<1>3. IInv /\ AllEarned => ThresholdShared
  BY DEF IInv, Booking, ThresholdShared
<1> QED
  BY <1>1, <1>2, <1>3, Inductive, PTL DEF Spec

(* What one holder of a ban manager bans, no service that was given the    *)
(* manager lets through.                                                   *)
THEOREM BansAreFelt == Spec => BansReachEveryService
<1> DEFINE Felt == \A m \in banned : tally'["passed"][m] = tally["passed"][m]
<1>1. IInv /\ [Next]_vars => [Felt]_vars
  <2> SUFFICES ASSUME IInv, Next, NEW m \in banned
               PROVE  tally'["passed"][m] = tally["passed"][m]
    OBVIOUS
  <2> USE WiringAssumption
  <2>1. m \in StoreIds /\ tally \in [Tallies -> [StoreIds -> Nat]]
    BY DEF IInv, StoresOK, StoreIds
  <2>2. ASSUME NEW s \in Slots, Benign(s) \/ Threat(s)
        PROVE  tally'["passed"][m] = tally["passed"][m]
    <3>1. services[s] # None /\ (Enforces(s) => ~IsBanned(s))
      BY <2>2 DEF Benign, Threat, Arrives, Enforces
    <3>2. /\ WiredManager(s) # None => WiredManager(s) \in StoreIds
          /\ BanState(s) # None => BanState(s).manager = WiredManager(s)
          /\ BanState(s) = None => WiredManager(s) = None
      BY <3>1, ServiceStores
    <3>3. m = WiredManager(s) => ~Enforces(s)
      BY <2>1, <3>1, <3>2, NoneAssumption DEF IsBanned, StoreIds
    <3>4. tally'["passed"] = tally["passed"]
            \/ tally'["passed"] = BookedBy(s, "passed", WiredManager(s))
      BY <2>1, <2>2 DEF Benign, Threat, Tallies
    <3>5. BookedBy(s, "passed", WiredManager(s))[m] = tally["passed"][m]
      BY <2>1, <3>2, <3>3, BookedByCounts DEF Tallies
    <3> QED
      BY <3>4, <3>5
  <2>3. ASSUME NEW l, Resets(l) PROVE tally'["passed"][m] = tally["passed"][m]
    BY <2>1, <2>3 DEF Resets, Tallies
  <2>4. CASE UNCHANGED tally
    BY <2>4
  <2> QED
    BY <2>2, <2>3, <2>4 DEF Next, ByDefaults, FromSecurityConfig, Constructs,
       BuildsRateLimiting, BuildsIpBanning, BuildsPassiveMode, BuildsHook, Builds,
       Wraps, Clones, OperatorBans
<1> QED
  BY <1>1, Inductive, PTL DEF Spec, BansReachEveryService

(* A service from a config observes as a whole or refuses as a whole,      *)
(* unless the host overrode the switch.                                    *)
THEOREM OneModeThroughout == Spec => []OneMode
<1>1. IInv => OneMode
  <2> SUFFICES ASSUME IInv, NEW s \in Slots, Configured(s),
                      "passive_mode" \notin origin[s].touched
               PROVE  Modes(services[s]) = {origin[s].config.passive_mode}
    BY DEF OneMode
  <2>1. OfMode(services[s], origin[s].config.passive_mode)
    BY DEF IInv, ServicesOK, Faithful, Configured
  <2>2. services[s].stage.passive = services[s].passive_mode
    BY DEF IInv, ServicesOK, Staged, Configured
  <2> QED
    BY <2>1, <2>2 DEF OfMode, Modes
<1> QED
  BY <1>1, Inductive, PTL

(* Every protection a config names is in every service made from it.       *)
THEOREM ConfigFailsClosed == Spec => []FailClosed
<1>1. IInv => FailClosed
  <2> SUFFICES ASSUME IInv PROVE FailClosed
    OBVIOUS
  <2>1. ASSUME NEW s \in Slots, Configured(s)
        PROVE  Protects(services[s], origin[s].config)
    BY <2>1 DEF IInv, ServicesOK, Faithful, Configured
  <2>2. ASSUME NEW s \in Slots, Configured(s)
        PROVE  /\ services[s].stage.limiter = services[s].rate_limiter
               /\ services[s].stage.ban_state = services[s].ban_state
    BY <2>2 DEF IInv, ServicesOK, Staged, Configured
  <2> QED
    BY <2>1, <2>2 DEF FailClosed, Protects
<1> QED
  BY <1>1, Inductive, PTL
=============================================================================
