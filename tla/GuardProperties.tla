-------------------------- MODULE GuardProperties --------------------------
(***************************************************************************)
(* What GuardService::call is meant to guarantee, over GuardPipeline.      *)
(***************************************************************************)
EXTENDS GuardPipeline

Forwarded(r) == inner[r] # "untouched"

IpChecks == {"bad_route_ip", "route_ip", "route_country", "geo"}
AddressChecks == {"route_ip", "route_country", "geo", "cloud"}
CloudChecks == {"bad_cloud", "cloud"}
SkippableChecks == {"geo", "cloud", "user_agent", "route_user_agent", "bad_user_agent"}
DetectionChecks == {"scan_failed", "threat"}

\* What the route was configured to leave out, whatever the arms make of it.
Waives(r, check) == shape[r].bypass \cap {"all", check} # {}

\* The conditions a request meets and nothing about it as it arrived excuses:
\* no bypass of its route, no skip state, no missing address, no passive mode.
Met(r) ==
  {c \in shape[r].trips :
     /\ c \in StageConditions \cup {"threat"} => ~Passive(r)
     /\ c \in IpChecks => ~Waives(r, "ip")
     /\ c \in AddressChecks => Attributed(r)
     /\ c \in CloudChecks => ~Waives(r, "clouds")
     /\ c \in SkippableChecks => shape[r].prior \notin Skipping
     /\ c \in DetectionChecks => ~Waives(r, "penetration") /\ "no_detection" \notin shape[r].route
     /\ c = "geo" => "country_whitelist" \notin shape[r].route}

\* Those that the layer's own gate does not excuse either.
Enforced(r) == {c \in Met(r) : c \in SkippableChecks => gate[r] \notin Skipping}

\* The global lists decide for the request.
ListsApply(r) ==
  /\ GateInstalled /\ Attributed(r) /\ ~Passive(r)
  /\ ~Waives(r, "ip") /\ "ip_whitelist" \notin shape[r].route

(* The wrapped service sees a request only after every check that applies  *)
(* to it: none of its conditions is left enforced, the global lists do not *)
(* deny its address, and the body it is given is the one that was sent.    *)
ScreenedBeforeInner ==
  \A r \in Requests :
    Forwarded(r) /\ shape[r].kind # "excluded" =>
      /\ Enforced(r) = {}
      /\ ListsApply(r) => ~GateDenies(Ip(r))
      /\ inner[r] = "body" <=> shape[r].sends = "data"
      /\ shape[r].sends \in {"nothing", "data"}

\* What a refusal may rest on, of the request and the layer; OnRecord has
\* what it may rest on of the stores.
Cause(r, refusal) ==
  /\ refusal \in RouteConditions \cup StageConditions => refusal \in Met(r)
  /\ refusal = "too_large" => shape[r].sends = "too_much"
  /\ refusal = "read_error" => shape[r].sends = "broken"
  /\ refusal = "usage_ban" => HasUsageRules(r)
  /\ refusal = "ip_gate" => ListsApply(r) /\ GateDenies(Ip(r))
  /\ refusal \in {"banned", "rate_limited", "activity_banned"} => Attributed(r) /\ ~Passive(r)
  /\ refusal = "banned" => BanningEnabled /\ ~Waives(r, "ip_ban")
  /\ refusal = "rate_limited" =>
       RateLimiting /\ ~Waives(r, "rate_limit") /\ gate[r] \notin Skipping
  /\ refusal = "activity_banned" =>
       BanningEnabled /\ ~Waives(r, "rate_limit") /\ gate[r] # "whitelisted"
  /\ refusal \in {"suspicious", "activity_banned"} => "threat" \in Met(r)

\* The global lists, where they decide, do not deny the request's address.
ListsPass(r) == ListsApply(r) => ~GateDenies(Ip(r))

\* Where a request comes to a condition, and to a refusal, on its way.
CheckedAt(c) ==
  CASE c = "usage_ban" -> 2
    [] c \in {"route_ip", "bad_route_ip"} -> 3
    [] c = "route_country" -> 4 [] c = "ip_gate" -> 5
    [] c = "emergency" -> 6 [] c = "https" -> 7
    [] c \in {"too_large", "read_error"} -> 8
    [] c \in {"route_headers", "headers"} -> 9
    [] c \in {"route_referrer", "referrer"} -> 10
    [] c \in {"route_validator", "validator"} -> 11
    [] c \in {"route_time_window", "time_window"} -> 12
    [] c = "scan_failed" -> 13 [] c = "banned" -> 14 [] c = "geo" -> 15
    [] c \in {"bad_cloud", "cloud"} -> 16
    [] c \in {"route_user_agent", "bad_user_agent", "user_agent"} -> 17
    [] c \in {"bad_tiers", "rate_limited"} -> 18
    [] c \in {"threat", "activity_banned", "suspicious"} -> 20
    [] c = "custom_request" -> 21

\* Nothing the request meets comes ahead of the refusal.
ComesFirst(r, refusal) ==
  /\ \A c \in Met(r) : CheckedAt(refusal) <= CheckedAt(c)
  /\ CheckedAt(refusal) > CheckedAt("ip_gate") => ListsPass(r)
  /\ CheckedAt(refusal) > CheckedAt("too_large") => shape[r].sends \in {"nothing", "data"}

(* The other side of it: a refusal on a condition, a list or the body      *)
(* names something the request meets and nothing about it excuses, a       *)
(* bypass, override or decision that arms far ahead of it took note of     *)
(* included; one on a store comes only where that store is consulted for   *)
(* the request (what it held then is RefusedOnRecord).  And it names the   *)
(* first such thing: whatever else is wrong with the request comes later   *)
(* in the order of the code.  An excluded path is refused nothing.         *)
RefusedWithCause ==
  \A r \in Requests :
    answer[r] \in Refusals =>
      shape[r].kind # "excluded" /\ Cause(r, answer[r]) /\ ComesFirst(r, answer[r])

\* The violation that is about to ban was counted and is still on record.
Due(r, kind) ==
  /\ Attributed(r) /\ BanningEnabled /\ ~Passive(r)
  /\ violations[kind][Ip(r)] = BanThreshold

\* What the stores hold against a request in the step that refuses it.
OnRecord(r, refusal) ==
  /\ refusal = "banned" => LiveBan(Ip(r))
  /\ refusal = "usage_ban" => usage'[Ip(r)] > UsageThreshold
  /\ refusal = "rate_limited" =>
       ~HasRoom(Ip(r)) \/ (pc[r] = "tier_ban" /\ Due(r, "rate_limit"))
  /\ refusal = "activity_banned" => Due(r, "threat")

(* Whoever is refused for what a store holds is refused for what it holds  *)
(* at that moment, whatever others wrote to it since the request arrived:  *)
(* a ban still live, a usage count past its threshold, a window still full *)
(* (or the violation that found it full, counted up to the threshold), the *)
(* threat that took the counter there.                                     *)
RefusedOnRecord ==
  [][\A r \in Requests : answer'[r] # answer[r] => OnRecord(r, answer'[r])]_vars

PassesDue(reply) ==
  CASE reply \in {"preflight", "inner_error"} -> 0
    [] reply = "ip_gate" -> 2
    [] OTHER -> 1

(* Behind a processor every answer that leaves has been through the        *)
(* response pass exactly once, whichever arm gave it.                      *)
(* The exceptions: the preflight answer and an error of the wrapped        *)
(* service go through none, and the gate's denial through exactly two.     *)
PassedOnce ==
  \A r \in Requests : pc[r] = "closed" /\ Processor => passes[r] = PassesDue(answer[r])

(* on_block fires once for a request the pipeline blocks on the paths that *)
(* announce themselves, and the adapter's own firing never doubles the     *)
(* stage's: not for a threat the feed turned into a ban, nor for a threat  *)
(* a passive layer observed and forwarded.                                 *)
HookOncePerBlock ==
  \A r \in Requests :
    /\ hooks[r] <= 1
    /\ pc[r] = "closed" /\ Observability /\ ~Passive(r) =>
         (hooks[r] = 1 <=> answer[r] \in Hooked)

Earned(i) ==
  /\ BanningEnabled
  /\ \E r \in Requests : Ip(r) = i /\ ~Passive(r)
  /\ \E k \in Kinds : violations[k][i] = BanThreshold

RuleEarned(i) == usage[i] > UsageThreshold \/ returns[i] > ReturnThreshold

(* No address is banned that did not earn it: behind every live ban stands *)
(* an operator, a violation counter at its threshold and a client that did *)
(* not come through a passive clone, or a behaviour rule past its bound.   *)
BansAreEarned ==
  /\ \A i \in bans : "ban" \in Environment \/ Earned(i) \/ (SharedBans /\ RuleEarned(i))
  /\ \A i \in procBans : RuleEarned(i)

(* An answer that says a ban was made is never ahead of the ban: while no  *)
(* ban lifts, an address told it has been banned for its activity, or by a *)
(* usage rule over a shared store, is under that ban.                      *)
AnnouncedBansHold ==
  "lift" \notin Environment =>
    \A r \in Requests :
      /\ answer[r] = "activity_banned" => Ip(r) \in bans
      /\ answer[r] = "usage_ban" /\ Attributed(r) =>
           Ip(r) \in (IF SharedBans THEN bans ELSE procBans)

FlaggedAnswers(i) ==
  {r \in Requests : Ip(r) = i /\ answer[r] \in Flagged /\ pc[r] = "closed"}

\* The gate's denials that have been through the pass of their own.
GateDenials(i) ==
  {r \in Requests : /\ Ip(r) = i /\ answer[r] = "ip_gate" /\ "ip_gate" \in Flagged
                    /\ pc[r] \in {"respond", "closed"}}

(* The return rule counts answers: an address it bans has been given more  *)
(* matching answers than the rule's threshold, where a denial of the gate  *)
(* is two, since it passes once inside enforce_ip_gate and once behind it. *)
ReturnBansEarned ==
  \A i \in Ips :
    returns[i] > ReturnThreshold =>
      Cardinality(FlaggedAnswers(i)) + Cardinality(GateDenials(i)) > ReturnThreshold

PlainBlocks(i) ==
  {r \in Requests : /\ answer[r] = "suspicious" /\ Ip(r) = i
                    /\ gate[r] # "whitelisted" /\ ~Waives(r, "rate_limit")}

(* However the requests of an address interleave, fewer than BanThreshold  *)
(* of its threats get away with the plain 400: the one that reaches the    *)
(* threshold, and each one after it, is the 403 that bans.                 *)
ThresholdBans ==
  BanningEnabled => \A i \in Ips : Cardinality(PlainBlocks(i)) < BanThreshold

(* However the crossings of an address interleave, none of them is lost:   *)
(* by the time it has been given as many 429s as the threshold asks for,   *)
(* the one that reached the threshold has stored its ban.                  *)
CrossingsBan ==
  AutoBan /\ BanningEnabled /\ "lift" \notin Environment =>
    \A i \in Ips :
      Cardinality({r \in Requests : answer[r] = "rate_limited" /\ Ip(r) = i}) >= BanThreshold
        => i \in bans

Admitted(i) ==
  {r \in Requests : /\ Forwarded(r) /\ Ip(r) = i /\ gate[r] \notin Skipping /\ ~Passive(r)
                    /\ shape[r].kind # "excluded" /\ ~Waives(r, "rate_limit")}

(* With no window dropped or slid, no interleaving hands more requests of  *)
(* an address to the wrapped service than the limit, those that only pass  *)
(* a passive clone apart.  Nor does any turn one away below the limit: a   *)
(* request given a 429 finds the window full of others, and so it stays.   *)
LimitHolds ==
  RateLimiting /\ Environment \cap {"reset", "slide"} = {} =>
    /\ \A i \in Ips : Cardinality(Admitted(i)) <= RateLimit
    /\ \A r \in Requests :
         answer[r] = "rate_limited" =>
           Cardinality(window[Ip(r)]) = RateLimit /\ r \notin window[Ip(r)]

(* A decision is final: no step revises an answer, calls the wrapped       *)
(* service again or calls it for a request already answered.               *)
FinalAnswer ==
  [][\A r \in Requests :
       /\ answer[r] # "none" => answer'[r] = answer[r] /\ inner'[r] = inner[r]
       /\ Forwarded(r) => inner'[r] = inner[r]]_vars

(* Between the awaits nothing holds a request: each one is answered or     *)
(* dropped, unless its client or the wrapped service never comes back.     *)
Settles ==
  \A r \in Requests : <>Settled(r) \/ <>[](pc[r] \in {"body", "inner"})
-----------------------------------------------------------------------------
(* What the proofs add to make the properties inductive.                   *)

BansDue ==
  \A r \in Requests :
    /\ pc[r] = "tier_ban" => Due(r, "rate_limit")
    /\ pc[r] = "feed_ban" => Due(r, "threat")

\* A request still in an arm has no answer and has not been forwarded.
Undecided ==
  \A r \in Requests :
    /\ pc[r] \in Arms \cup {"inner"} => answer[r] = "none"
    /\ pc[r] \in Arms => ~Forwarded(r)
-----------------------------------------------------------------------------
(* The refinement of GuardContract.                                        *)

\* Whose route or layer asks for no ban check.
ExcusedFromBans(r) ==
  shape[r].kind = "excluded" \/ Passive(r) \/ ~BanningEnabled \/ Bypassed(r, "ip_ban")

BeforeBanCheck ==
  {"exclude", "preflight", "usage", "route_ip", "route_country", "ip_gate",
   "emergency", "https", "body", "headers", "referrer", "validator",
   "time_window", "scan", "bans"}

Phase(r) ==
  CASE Forwarded(r) -> "handed"
    [] ~Forwarded(r) /\ pc[r] \in BeforeBanCheck -> "open"
    [] ~Forwarded(r) /\ pc[r] \in Arms \ BeforeBanCheck -> "cleared"
    [] ~Forwarded(r) /\ pc[r] \notin Arms /\ answer[r] = "banned" -> "barred"
    [] OTHER -> "dismissed"

Contract ==
  INSTANCE GuardContract WITH
    banned <- bans,
    phase <- [r \in Requests |-> Phase(r)],
    subject <- [r \in Requests |-> Ip(r)],
    excused <- {r \in Requests : ExcusedFromBans(r)}

(* The pipeline with its twenty-five arms and its shared stores implements *)
(* the promise of GuardContract.                                           *)
ImplementsContract == Contract!ContractSpec
=============================================================================
