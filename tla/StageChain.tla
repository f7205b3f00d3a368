----------------------------- MODULE StageChain -----------------------------
(***************************************************************************)
(* The standalone form of a GuardLayer (src/src/stages.rs): provided_layers*)
(* hands the installed stages back as tower layers, an application folds   *)
(* them over its service, and a request goes from gate to gate.  A gate    *)
(* extracts the facts anew and decides inside `call`, before any future    *)
(* exists, so a request cannot be dropped between two gates; only threads  *)
(* interleave there.  The layers carry the stores of GuardStage: no gate   *)
(* of their own, no route, no detection and no response pass.              *)
(***************************************************************************)
EXTENDS GuardStage, Sequences

CONSTANTS
  NoIp,            \* no GuardClientIp extension
  Calls,           \* what the requests of this instance are, see CallSpace
  Installations    \* what the host may have called the builders for

\* One name per with_* builder; custom_checks stands behind two layers, and
\* passive_mode is the setting every stage was built with.
Builders ==
  {"emergency", "https", "headers_auth", "referrer", "custom_checks",
   "time_window", "geo", "cloud", "user_agent", "passive_mode"}

\* The stages that decide on the request alone.
Stateless ==
  {"emergency", "https", "headers_auth", "referrer", "validators",
   "time_window", "geo", "cloud", "user_agent", "custom_request"}

LayerNames == Stateless \cup {"bans", "rate_limit"}

Skipping == {"whitelisted", "exempt"}

CallSpace ==
  [ip : Ips \cup {NoIp},
   gate : Skipping \cup {"none", "allowed"},   \* what an outer layer decided
   trips : SUBSET Stateless]

ASSUME ChainAssumption ==
  /\ NoIp \notin Ips
  /\ Calls \subseteq CallSpace
  /\ Installations \subseteq SUBSET Builders

VARIABLES
  installed,   \* the builders that were called: never changes
  facts,       \* what every gate extracts of the request: never changes
  at,          \* the gate whose turn it is, 0 before the outermost call
  doing,       \* what the request is at there
  answer       \* the refusal rendered, or what the wrapped service did

chainVars == <<installed, facts, at, doing, answer>>
vars == <<chainVars, stageVars>>

Answers == Stateless \cup {"none", "banned", "rate_limited", "inner", "inner_error"}
Activities == {"waiting", "deciding", "banning", "inner", "closed", "dropped"}
-----------------------------------------------------------------------------
(* provided_layers.                                                        *)

Passive == "passive_mode" \in installed

Provided(builder, name) == IF builder \in installed THEN <<name>> ELSE <<>>

Middle == Provided("geo", "geo") \o Provided("cloud", "cloud")
            \o Provided("user_agent", "user_agent")

\* rate_limit_stage: one stage behind the limiter and the ban store.
HasRateStage == RateLimiting \/ BanningEnabled

\* Mutant: the two halves of custom_checks stay together.
CustomChecksTogether ==
  Provided("emergency", "emergency") \o Provided("https", "https")
    \o Provided("headers_auth", "headers_auth") \o Provided("referrer", "referrer")
    \o Provided("custom_checks", "validators")
    \o Provided("custom_checks", "custom_request") \o Provided("time_window", "time_window")
    \o (IF HasRateStage THEN <<"bans">> \o Middle \o <<"rate_limit">> ELSE Middle)

\* The vector of layers, outermost first.
ProvidedLayers ==
  Provided("emergency", "emergency") \o Provided("https", "https")
    \o Provided("headers_auth", "headers_auth") \o Provided("referrer", "referrer")
    \o Provided("custom_checks", "validators") \o Provided("time_window", "time_window")
    \o (IF HasRateStage THEN <<"bans">> \o Middle \o <<"rate_limit">> ELSE Middle)
    \o Provided("custom_checks", "custom_request")
-----------------------------------------------------------------------------
(* pass_gate: decide, render or forward.                                   *)

Ip(r) == facts[r].ip
Attributed(r) == Ip(r) \in Ips
Skips(r) == facts[r].gate \in Skipping

Init ==
  /\ installed \in Installations
  /\ facts \in [Requests -> Calls]
  /\ at = [r \in Requests |-> 0]
  /\ doing = [r \in Requests |-> "waiting"]
  /\ answer = [r \in Requests |-> "none"]
  /\ StageInit

\* The request is before the gate of one layer.
AtGate(r, name) ==
  /\ doing[r] = "deciding"
  /\ at[r] \in DOMAIN ProvidedLayers
  /\ ProvidedLayers[at[r]] = name

\* The gate renders its verdict; nothing behind it is called.
Refuse(r, refusal) ==
  /\ doing' = [doing EXCEPT ![r] = "closed"]
  /\ answer' = [answer EXCEPT ![r] = refusal]
  /\ UNCHANGED at

\* Mutant: the fold wraps the service in every other layer.
ForwardPastNext(r) == at' = [at EXCEPT ![r] = @ + 2] /\ UNCHANGED <<doing, answer>>

\* The gate calls the service it wraps.
Forward(r) == at' = [at EXCEPT ![r] = @ + 1] /\ UNCHANGED <<doing, answer>>

\* A stateless stage's verdict: whitelisted and exempt clients skip three.
Decides(r, stage) ==
  /\ ~Passive
  /\ stage \in facts[r].trips
  /\ stage \in {"geo", "cloud"} => Attributed(r)
  /\ stage \in {"geo", "cloud", "user_agent"} => ~Skips(r)

\* The host drives the outermost service and calls it.
Call(r) ==
  /\ doing[r] = "waiting"
  /\ doing' = [doing EXCEPT ![r] = "deciding"]
  /\ at' = [at EXCEPT ![r] = 1]
  /\ UNCHANGED <<answer, stageVars>>

StatelessGate(r) ==
  \E stage \in Stateless :
    /\ AtGate(r, stage)
    /\ \/ Decides(r, stage) /\ Refuse(r, stage)
       \/ ~Decides(r, stage) /\ Forward(r)
    /\ UNCHANGED stageVars

\* Mutant: the ban arm lets an exempt client by.
BansGateSkips(r) ==
  LET refused == ~Passive /\ ~Skips(r) /\ LiveBan(Ip(r)) IN
  /\ AtGate(r, "bans")
  /\ \/ refused /\ Refuse(r, "banned")
     \/ ~refused /\ Forward(r)
  /\ UNCHANGED stageVars

\* RateLimitBans.
BansGate(r) ==
  LET refused == ~Passive /\ LiveBan(Ip(r)) IN
  /\ AtGate(r, "bans")
  /\ \/ refused /\ Refuse(r, "banned")
     \/ ~refused /\ Forward(r)
  /\ UNCHANGED stageVars

Limited(r) == RateLimiting /\ Attributed(r) /\ ~Skips(r)

\* RateLimitTiers: no tier of a route and no finding to feed.
TiersGate(r) ==
  LET ip == Ip(r)
      crosses == Limited(r) /\ ~HasRoom(ip)
      bansNow == AutoBan /\ BanningEnabled /\ Crosses("rate_limit", ip)
  IN
  /\ AtGate(r, "rate_limit")
  /\ \/ ~Limited(r) /\ Forward(r) /\ UNCHANGED stageVars
     \/ /\ Limited(r) /\ HasRoom(ip)
        /\ RecordHit(ip, r)
        /\ Forward(r)
        /\ UNCHANGED <<bans, violations>>
     \/ /\ crosses /\ ~Passive
        /\ IF AutoBan THEN CountViolation("rate_limit", ip) ELSE UNCHANGED violations
        /\ IF bansNow
             THEN doing' = [doing EXCEPT ![r] = "banning"] /\ UNCHANGED <<at, answer>>
             ELSE Refuse(r, "rate_limited")
        /\ UNCHANGED <<bans, window>>
     \/ /\ crosses /\ Passive
        /\ CountViolation("rate_limit", ip) \/ UNCHANGED violations
        /\ Forward(r)
        /\ UNCHANGED <<bans, window>>

\* The crossing that was counted bans, and answers with its 429.
TierBan(r) ==
  /\ doing[r] = "banning"
  /\ Ban(Ip(r))
  /\ Refuse(r, "rate_limited")
  /\ UNCHANGED <<window, violations>>

\* Behind the last gate is the wrapped service.
CallInner(r) ==
  /\ doing[r] = "deciding"
  /\ at[r] = Len(ProvidedLayers) + 1
  /\ doing' = [doing EXCEPT ![r] = "inner"]
  /\ UNCHANGED <<at, answer, stageVars>>

InnerReturns(r) ==
  /\ doing[r] = "inner"
  /\ doing' = [doing EXCEPT ![r] = "closed"]
  /\ \E outcome \in {"inner", "inner_error"} : answer' = [answer EXCEPT ![r] = outcome]
  /\ UNCHANGED <<at, stageVars>>

\* The server drops the future, which is by now that of the wrapped service.
Disconnect(r) ==
  /\ doing[r] = "inner"
  /\ doing' = [doing EXCEPT ![r] = "dropped"]
  /\ UNCHANGED <<at, answer, stageVars>>
-----------------------------------------------------------------------------
Step(r) ==
  \/ Call(r) \/ StatelessGate(r) \/ BansGate(r) \/ TiersGate(r) \/ TierBan(r)
  \/ CallInner(r) \/ InnerReturns(r) \/ Disconnect(r)

OutOfBandStep == StageNext /\ UNCHANGED <<at, doing, answer>>

Finished == (\A r \in Requests : doing[r] \in {"closed", "dropped"}) /\ UNCHANGED vars

Next ==
  \/ ((\E r \in Requests : Step(r)) \/ OutOfBandStep) /\ UNCHANGED <<installed, facts>>
  \/ Finished

Spec == Init /\ [][Next]_vars
-----------------------------------------------------------------------------
(* The variables keep their types, and no request goes past the last gate. *)
TypeOK ==
  /\ installed \subseteq Builders
  /\ facts \in [Requests -> CallSpace]
  /\ at \in [Requests -> 0 .. Len(ProvidedLayers) + 1]
  /\ doing \in [Requests -> Activities]
  /\ answer \in [Requests -> Answers]
  /\ StageTypeOK

Handed(r) == doing[r] \in {"inner", "dropped"} \/ answer[r] \in {"inner", "inner_error"}

\* The positions of the reference pipeline (lib.rs:97-114), 12a before 12b.
Position ==
  [emergency |-> 2, https |-> 3, headers_auth |-> 6, referrer |-> 8,
   validators |-> 9, time_window |-> 10, banned |-> 11, geo |-> 12, cloud |-> 13,
   user_agent |-> 14, rate_limited |-> 15, custom_request |-> 17]

\* The builder that installs a stateless stage.
BuilderOf(stage) ==
  IF stage \in {"validators", "custom_request"} THEN "custom_checks" ELSE stage

\* What the installed stages have against the request.
Objections(r) == {s \in Stateless : Decides(r, s) /\ BuilderOf(s) \in installed}

\* What a refusal of the chain may rest on.
Cause(r, refusal) ==
  /\ ~Passive
  /\ refusal \in Stateless => refusal \in Objections(r)
  /\ refusal = "banned" => BanningEnabled /\ Attributed(r)
  /\ refusal = "rate_limited" => Limited(r)

(* Every answer is the first one the reference pipeline would have come    *)
(* to: a refusal names what an installed stage has against the request and *)
(* leaves no objection of an earlier check behind, a request handed to the *)
(* wrapped service leaves none at all, and one in the limiter's window had *)
(* none of a check ahead of the limiter.                                   *)
ReferenceOrder ==
  \A r \in Requests :
    /\ answer[r] \in DOMAIN Position =>
         /\ Cause(r, answer[r])
         /\ \A s \in Objections(r) : Position[s] >= Position[answer[r]]
    /\ Handed(r) => Objections(r) = {}
    /\ \A i \in Ips : r \in window[i] =>
         \A s \in Objections(r) : Position[s] > Position["rate_limited"]

(* Over two layers built from one stage the limit still holds: no          *)
(* interleaving hands more requests of an address on than its limit, and   *)
(* none refuses one before the limit is spent on others.                   *)
LimitHolds ==
  RateLimiting /\ ~Passive /\ Environment \cap {"reset", "slide"} = {} =>
    /\ \A i \in Ips :
         Cardinality({r \in Requests : Handed(r) /\ Ip(r) = i /\ ~Skips(r)}) <= RateLimit
    /\ \A r \in Requests :
         answer[r] = "rate_limited" =>
           Cardinality(window[Ip(r)]) = RateLimit /\ r \notin window[Ip(r)]

(* And no crossing is lost between its count and its ban: an address given *)
(* as many 429s as the threshold asks for is banned.                       *)
CrossingsBan ==
  AutoBan /\ BanningEnabled /\ "lift" \notin Environment =>
    \A i \in Ips :
      Cardinality({r \in Requests : answer[r] = "rate_limited" /\ Ip(r) = i}) >= BanThreshold
        => i \in bans

\* The layers ask for no ban check, or mute it.
Unchecked == Passive \/ ~BanningEnabled

Consulted(r) ==
  \/ Unchecked /\ at[r] > 0
  \/ \E j \in DOMAIN ProvidedLayers : j < at[r] /\ ProvidedLayers[j] = "bans"

Phase(r) ==
  CASE Handed(r) -> "handed"
    [] ~Handed(r) /\ doing[r] = "closed" /\ answer[r] = "banned" -> "barred"
    [] ~Handed(r) /\ doing[r] = "closed" /\ answer[r] # "banned" -> "dismissed"
    [] ~Handed(r) /\ doing[r] # "closed" /\ Consulted(r) -> "cleared"
    [] OTHER -> "open"

Contract ==
  INSTANCE GuardContract WITH
    banned <- bans,
    phase <- [r \in Requests |-> Phase(r)],
    subject <- [r \in Requests |-> Ip(r)],
    excused <- {r \in Requests : Unchecked}

(* The standalone layers keep the promise the fused pipeline keeps.        *)
ImplementsContract == Contract!ContractSpec
=============================================================================
