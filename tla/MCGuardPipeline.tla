-------------------------- MODULE MCGuardPipeline --------------------------
(* Instances of GuardPipeline.  Each set of shapes holds the requests one  *)
(* run is about; the .cfg files choose among them and set the stores.      *)
EXTENDS GuardClaims, TLC

CONSTANTS a, b, x, r1, r2, r3

Plain(ip) ==
  [ip |-> ip, passive |-> FALSE, kind |-> "plain", sends |-> "nothing", prior |-> "none",
   bypass |-> {}, trips |-> {}, route |-> {}]

Conditions == RouteConditions \cup StageConditions \cup {"threat"}

\* Every condition alone, met by every kind of client under every bypass,
\* route override and decision an outer layer may have left.
EveryCondition ==
  {[Plain(ip) EXCEPT !.trips = trips, !.bypass = bypass, !.prior = prior,
                     !.route = route, !.passive = passive] :
     ip \in {a, b, x, NoIp}, passive \in BOOLEAN,
     trips \in {{}} \cup {{c} : c \in Conditions},
     bypass \in {{}} \cup {{c} : c \in CheckNames},
     prior \in {"none", "whitelisted"},
     route \in {{}} \cup {{o} : o \in {"usage", "ip_whitelist", "country_whitelist", "no_detection"}}}

\* Every body, on every kind of request, with and without a threat in it.
EveryBody ==
  {[Plain(a) EXCEPT !.kind = kind, !.sends = sends, !.trips = trips, !.passive = passive] :
     passive \in BOOLEAN,
     kind \in {"plain", "excluded", "preflight"},
     sends \in {"nothing", "data", "too_much", "broken"},
     trips \in {{}, {"threat"}}}

\* Two conditions at once, of a client the lists let pass or deny, with a
\* body that fits or does not: a later arm must not undo an earlier one, nor
\* answer ahead of it.
Combined ==
  {[Plain(ip) EXCEPT !.trips = {c, d}, !.sends = sends, !.passive = passive] :
     ip \in {a, b, x}, sends \in {"data", "too_much"}, passive \in BOOLEAN,
     c \in Conditions, d \in Conditions}

ScreeningShapes == EveryCondition \cup EveryBody \cup Combined

Threat(ip) == [Plain(ip) EXCEPT !.trips = {"threat"}]

Watched(s) == [s EXCEPT !.passive = TRUE]
WithUsage(s) == [s EXCEPT !.route = {"usage"}]

\* Clients of the ban store, the limiter and the rules: benign and hostile,
\* exempt, excused by their route from one of the stores, unattributed, or
\* met by a passive clone, and one the lists deny.
StoreShapes ==
  {Plain(a), Threat(a), Plain(x), Threat(x), Watched(Plain(a)), Watched(Threat(a)),
   [Plain(a) EXCEPT !.bypass = {"ip_ban"}], [Threat(a) EXCEPT !.bypass = {"rate_limit"}],
   WithUsage(Plain(a)), WithUsage(Plain(NoIp)), Plain(b)}

\* All of what can ban an address while another of its requests is in flight.
ContractShapes ==
  (StoreShapes \ {WithUsage(Plain(NoIp)), Plain(b)}) \cup
    {[Plain(a) EXCEPT !.kind = "excluded"],
     [Plain(a) EXCEPT !.bypass = {"ip"}]}

\* Requests are interchangeable: nothing orders or names them.
RequestSymmetry == Permutations(Requests)
=============================================================================
