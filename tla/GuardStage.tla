----------------------------- MODULE GuardStage -----------------------------
(***************************************************************************)
(* The stores every request of a GuardLayer shares: the ban manager and    *)
(* the violation counters of BanState, and the limiter's windows           *)
(* (src/src/lib.rs).  The layer owns the handles and build_stage hands     *)
(* them to the engine's RateLimitStage; the engine is another crate, so    *)
(* what one access to a store does is taken from how src/src/service.rs    *)
(* calls it and from what its tests pin down.  Every operator here is one  *)
(* access under one lock: a request performs several, others interleave.   *)
(***************************************************************************)
EXTENDS Integers, FiniteSets

CONSTANTS
  Ips,             \* client addresses that can be attributed
  Requests,        \* requests in flight on clones of the layer
  RateLimiting,    \* with_rate_limiting installed an enabled limiter
  RateLimit,       \* RateLimitConfig::rate_limit
  AutoBan,         \* enable_rate_limit_auto_ban
  BanningEnabled,  \* with_ip_banning installed, enable_ip_banning on
  BanThreshold,    \* violations of one kind that ban, and the counters' bound
  Environment      \* what happens out of band: a subset of OutOfBand

OutOfBand == {"ban", "lift", "reset", "slide"}

ASSUME StageAssumption ==
  /\ RateLimit \in Nat \ {0}
  /\ BanThreshold \in Nat \ {0}
  /\ {RateLimiting, AutoBan, BanningEnabled} \subseteq BOOLEAN
  /\ Environment \subseteq OutOfBand

VARIABLES
  bans,        \* addresses under a live ban in the layer's store
  window,      \* per address, the requests whose hits the window holds
  violations   \* per kind and address, capped at BanThreshold

stageVars == <<bans, window, violations>>

Kinds == {"threat", "rate_limit"}

StageTypeOK ==
  /\ bans \subseteq Ips
  /\ window \in [Ips -> SUBSET Requests]
  /\ violations \in [Kinds -> [Ips -> 0 .. BanThreshold]]

StageInit ==
  /\ bans = {}
  /\ window = [i \in Ips |-> {}]
  /\ violations = [k \in Kinds |-> [i \in Ips |-> 0]]

\* decide_bans_observed: an unattributed request is in no store.
LiveBan(ip) == BanningEnabled /\ ip \in bans

\* Mutant: one hit over the limit is let in.
HasRoomInclusive(ip) == Cardinality(window[ip]) <= RateLimit

HasRoom(ip) == Cardinality(window[ip]) < RateLimit

RecordHit(ip, r) == window' = [window EXCEPT ![ip] = @ \cup {r}]

CountViolation(kind, ip) ==
  violations' = [violations EXCEPT ![kind][ip] =
                   IF @ < BanThreshold THEN @ + 1 ELSE @]

\* Mutant: only the counts after the one that reaches the threshold ban.
CrossesLate(kind, ip) == violations[kind][ip] >= BanThreshold

\* The count that reaches the threshold, and each one after it, bans.
Crosses(kind, ip) == violations[kind][ip] + 1 >= BanThreshold

Ban(ip) == bans' = bans \cup {ip}

\* The host bans through a clone of the IpBanManager it kept.
OperatorBans(ip) ==
  /\ "ban" \in Environment
  /\ ip \notin bans
  /\ Ban(ip)
  /\ UNCHANGED <<window, violations>>

\* A ban runs out, or the host lifts it through its handle.
BanLifts(ip) ==
  /\ "lift" \in Environment
  /\ ip \in bans
  /\ bans' = bans \ {ip}
  /\ UNCHANGED <<window, violations>>

\* GuardLayer::reset drops every window, and nothing else.
Reset ==
  /\ "reset" \in Environment
  /\ \E i \in Ips : window[i] # {}
  /\ window' = [i \in Ips |-> {}]
  /\ UNCHANGED <<bans, violations>>

\* The window slides past one of its hits.
WindowSlides(ip) ==
  /\ "slide" \in Environment
  /\ \E r \in window[ip] : window' = [window EXCEPT ![ip] = @ \ {r}]
  /\ UNCHANGED <<bans, violations>>

StageNext ==
  \/ Reset
  \/ \E ip \in Ips : OperatorBans(ip) \/ BanLifts(ip) \/ WindowSlides(ip)
=============================================================================
