-------------------------- MODULE GuardStoreProofs --------------------------
(* GuardPipeline's counts, over requests that interleave: the hits of a    *)
(* window, the threats that were only blocked, the answers a return rule   *)
(* matched.                                                                *)
EXTENDS GuardAnswerProofs, FiniteSetTheorems

(* Adding a member adds at most one to a finite set.                       *)
LEMMA AddAtMostOne ==
  ASSUME NEW S, IsFiniteSet(S), NEW x, NEW T, T \subseteq S \cup {x}
  PROVE  /\ IsFiniteSet(T) /\ Cardinality(T) \in Nat /\ Cardinality(S) \in Nat
         /\ Cardinality(T) <= Cardinality(S) + 1
<1>1. IsFiniteSet(S \cup {x}) /\ Cardinality(S \cup {x}) <= Cardinality(S) + 1
      /\ Cardinality(S) \in Nat
  BY FS_AddElement, FS_CardinalityType
<1>2. T \in SUBSET (S \cup {x})
  OBVIOUS
<1>3. IsFiniteSet(T) /\ Cardinality(T) <= Cardinality(S \cup {x})
  BY <1>1, <1>2, FS_Subset
<1> QED
  BY <1>1, <1>3, FS_CardinalityType

(* A part of a finite set is finite and no larger.                         *)
LEMMA PartIsSmaller ==
  ASSUME NEW S, IsFiniteSet(S), NEW T, T \subseteq S
  PROVE  /\ IsFiniteSet(T) /\ Cardinality(T) \in Nat /\ Cardinality(S) \in Nat
         /\ Cardinality(T) <= Cardinality(S)
<1>1. T \in SUBSET S
  OBVIOUS
<1> QED
  BY <1>1, FS_Subset, FS_CardinalityType
-----------------------------------------------------------------------------
(* What a step comes to, for the counts.                                   *)

PastLimiter == {"feed", "feed_ban", "detection", "custom", "forward"}
AheadOfLimiter == Arms \ PastLimiter
Left == {"respond_owned", "respond", "closed", "dropped"}

\* Whoever the limiter does not ask.
Excused(r) ==
  \/ shape[r].kind = "excluded" \/ Passive(r) \/ Waives(r, "rate_limit")
  \/ ~Limited(r)

\* An arm ahead of the limiter, or the limiter's refusal.
Early(r) ==
  \E l \in AheadOfLimiter \cup Left :
    /\ pc[r] \in AheadOfLimiter /\ Go(r, l)
    /\ UNCHANGED <<inner, window, returns>>
    /\ \/ answer' = answer /\ l \in AheadOfLimiter \cup {"dropped"}
       \/ \E c \in Answers \ {"suspicious"} : answer' = [answer EXCEPT ![r] = c]

\* A request goes by the limiter: the feed with it, if its route waives it.
Spared(r) ==
  \E l \in {"feed", "detection", "forward"} :
    /\ pc[r] \in {"exclude", "tiers"} /\ Go(r, l) /\ Excused(r)
    /\ l = "detection" => Waives(r, "rate_limit")
    /\ UNCHANGED <<reqVars, answer, inner, window, returns>>

\* The limiter lets it in.
LetIn(r) ==
  /\ pc[r] = "tiers" /\ Attributed(r) /\ HasRoom(Ip(r)) /\ RecordHit(Ip(r), r)
  /\ Go(r, "feed") /\ UNCHANGED <<reqVars, answer, inner, returns>>

\* An arm past the feed, or the wrapped service.
Late(r) ==
  \E l \in {"custom", "forward", "inner"} \cup Left :
    /\ pc[r] \in (PastLimiter \ {"feed"}) \cup {"inner"} /\ Go(r, l)
    /\ UNCHANGED <<reqVars, window, returns>>
    /\ \/ answer' = answer /\ l # "closed"
       \/ \E c \in Answers \ {"rate_limited"} :
            /\ answer' = [answer EXCEPT ![r] = c] /\ inner' = inner
            /\ c = "suspicious" => pc[r] = "detection" /\ verdict[r] /\ ~Passive(r)

Ledger(r) ==
  Early(r) \/ Spared(r) \/ LetIn(r) \/ Feed(r) \/ Late(r) \/ RespondOwned(r) \/ Respond(r)

(* A pass of an arm ahead of the limiter, and a refusal.                   *)
LEMMA EarlyMoves ==
  ASSUME NEW r \in Requests, pc[r] \in AheadOfLimiter
  PROVE  /\ \A l \in AheadOfLimiter \cup {"dropped"} : Pass(r, l) => Early(r)
         /\ \A c \in Refusals \ {"suspicious"} : Refuse(r, c) => Early(r)
<1>1. ASSUME NEW l \in AheadOfLimiter \cup {"dropped"}, Pass(r, l) PROVE Early(r)
  BY <1>1 DEF Early, Pass, Left, outVars, stageVars, procVars
<1>2. ASSUME NEW c \in Refusals \ {"suspicious"}, Refuse(r, c) PROVE Early(r)
  <2>1. c \in Answers \ {"suspicious"}
    BY DEF Answers
  <2> QED
    BY <1>2, <2>1 DEF Early, Refuse, Answer, AnswerTo, Left, stageVars, procVars
<1> QED
  BY <1>1, <1>2

(* A pass of an arm past the feed, and a refusal.                          *)
LEMMA LateMoves ==
  ASSUME NEW r \in Requests, pc[r] \in PastLimiter \ {"feed"}
  PROVE  /\ \A l \in {"custom", "forward"} : Pass(r, l) => Late(r)
         /\ \A c \in Refusals \ {"suspicious", "rate_limited"} : Refuse(r, c) => Late(r)
<1>1. ASSUME NEW l \in {"custom", "forward"}, Pass(r, l) PROVE Late(r)
  BY <1>1 DEF Late, Pass, outVars, stageVars, procVars
<1>2. ASSUME NEW c \in Refusals \ {"suspicious", "rate_limited"}, Refuse(r, c) PROVE Late(r)
  <2>1. c \in Answers \ {"suspicious", "rate_limited"}
    BY DEF Answers
  <2> QED
    BY <1>2, <2>1 DEF Late, Refuse, Answer, AnswerTo, Left, stageVars, procVars
<1> QED
  BY <1>1, <1>2

(* The arms up to the gate.                                                *)
LEMMA EntryLedger ==
  ASSUME NEW r \in Requests,
         Exclude(r) \/ Preflight(r) \/ UsageRules(r) \/ RouteIp(r) \/ RouteCountries(r) \/ IpGate(r)
  PROVE  Ledger(r)
<1>1. {"exclude", "preflight", "usage", "route_ip", "route_country", "ip_gate", "emergency"}
        \subseteq AheadOfLimiter
  BY DEF AheadOfLimiter, Arms, PastLimiter
<1>2. {"route_ip", "bad_route_ip", "route_country"} \subseteq Refusals \ {"suspicious"}
      /\ {"preflight", "usage_ban", "ip_gate"} \subseteq Answers \ {"suspicious"}
  BY DEF Answers, Refusals, RouteConditions
<1>3. CASE Exclude(r)
  <2>1. CASE shape[r].kind = "excluded"
    BY <1>3, <2>1 DEF Exclude, Pass, Ledger, Spared, Excused, outVars, stageVars, procVars
  <2>2. CASE shape[r].kind # "excluded"
    BY <1>1, <1>3, <2>2, EarlyMoves DEF Exclude, Ledger
  <2> QED
    BY <2>1, <2>2
<1>4. CASE Preflight(r)
  <2>1. CASE Pass(r, "usage")
    BY <1>1, <1>4, <2>1, EarlyMoves DEF Preflight, Ledger
  <2>2. CASE /\ AnswerTo(r, "preflight", "closed")
             /\ UNCHANGED <<reqVars, procVars, stageVars>>
    BY <1>1, <1>2, <1>4, <2>2 DEF Preflight, Ledger, Early, AnswerTo, Left, stageVars, procVars
  <2> QED
    BY <1>4, <2>1, <2>2 DEF Preflight
<1>5. CASE UsageRules(r)
  <2>1. CASE Pass(r, "route_ip")
    BY <1>1, <1>5, <2>1, EarlyMoves DEF UsageRules, Ledger
  <2>2. CASE Go(r, "route_ip") /\ UNCHANGED <<reqVars, outVars, returns, procBans, stageVars>>
    BY <1>1, <1>5, <2>2 DEF UsageRules, Ledger, Early, outVars, stageVars
  <2>3. CASE Answer(r, "usage_ban") /\ UNCHANGED <<reqVars, returns, window, violations>>
    BY <1>1, <1>2, <1>5, <2>3 DEF UsageRules, Ledger, Early, Answer, AnswerTo, Left
  <2> QED
    BY <1>5, <2>1, <2>2, <2>3 DEF UsageRules
<1>6. CASE RouteIp(r) \/ RouteCountries(r)
  <2>1. pc[r] \in AheadOfLimiter
    BY <1>1, <1>6 DEF RouteIp, RouteCountries
  <2>2. \/ \E c \in {"bad_route_ip", "route_ip", "route_country"} : Refuse(r, c)
        \/ Pass(r, "route_country")
        \/ \E l \in {"route_country", "ip_gate"} :
             Go(r, l) /\ UNCHANGED <<gate, body, verdict, outVars, procVars, stageVars>>
    BY <1>6 DEF RouteIp, RouteCountries
  <2>3. ASSUME NEW l \in {"route_country", "ip_gate"}, Go(r, l), UNCHANGED <<outVars, procVars, stageVars>>
        PROVE  Early(r)
    BY <1>1, <2>1, <2>3 DEF Early, outVars, procVars, stageVars
  <2> QED
    BY <1>1, <1>2, <2>1, <2>2, <2>3, EarlyMoves DEF Ledger
<1>7. CASE IpGate(r)
  <2>1. CASE Pass(r, "emergency")
    BY <1>1, <1>7, <2>1, EarlyMoves DEF IpGate, Ledger
  <2>2. CASE Go(r, "emergency") /\ UNCHANGED <<skip, body, verdict, outVars, procVars, stageVars>>
    BY <1>1, <1>7, <2>2 DEF IpGate, Ledger, Early, outVars, procVars, stageVars
  <2>3. CASE /\ AnswerTo(r, "ip_gate", "respond_owned")
             /\ UNCHANGED <<reqVars, procVars, stageVars>>
    BY <1>1, <1>2, <1>7, <2>3 DEF IpGate, Ledger, Early, AnswerTo, Left, stageVars, procVars
  <2> QED
    BY <1>7, <2>1, <2>2, <2>3 DEF IpGate
<1> QED
  BY <1>3, <1>4, <1>5, <1>6, <1>7

(* The arms from the gate to the limiter, over conditions.                 *)
LEMMA ConditionsLedger ==
  ASSUME NEW r \in Requests,
         \/ Emergency(r) \/ HttpsRedirect(r) \/ HeadersAuth(r) \/ Referrer(r)
         \/ CustomValidators(r) \/ TimeWindow(r) \/ GeoBlocking(r) \/ CloudProvider(r)
         \/ UserAgent(r)
  PROVE  Ledger(r)
<1>1. {"emergency", "https", "body", "headers", "referrer", "validator", "time_window", "scan",
       "geo", "cloud", "user_agent", "tiers"} \subseteq AheadOfLimiter
  BY DEF AheadOfLimiter, Arms, PastLimiter
<1>2. RouteConditions \cup StageConditions \subseteq Refusals \ {"suspicious"}
  BY DEF Refusals, RouteConditions, StageConditions
<1>3. {"emergency", "https", "headers", "referrer", "validator", "time_window", "geo", "cloud",
       "user_agent", "route_headers", "route_referrer", "route_validator", "route_time_window",
       "route_user_agent", "bad_cloud", "bad_user_agent"} \subseteq RouteConditions \cup StageConditions
  BY DEF RouteConditions, StageConditions
<1>4. ASSUME NEW arm \in AheadOfLimiter, NEW c \in RouteConditions \cup StageConditions,
             NEW excused, NEW next \in AheadOfLimiter, Check(r, arm, c, excused, next)
      PROVE  Ledger(r)
  BY <1>2, <1>4, EarlyMoves DEF Check, Ledger
<1>5. ASSUME NEW arm \in AheadOfLimiter, NEW c \in RouteConditions \cup StageConditions,
             NEW d \in RouteConditions \cup StageConditions,
             NEW next \in AheadOfLimiter, RouteThenStage(r, arm, c, d, next)
      PROVE  Ledger(r)
  BY <1>2, <1>5, EarlyMoves DEF RouteThenStage, Ledger
<1>6. CASE Emergency(r) \/ HttpsRedirect(r) \/ GeoBlocking(r)
  BY <1>1, <1>3, <1>4, <1>6 DEF Emergency, HttpsRedirect, GeoBlocking
<1>7. CASE HeadersAuth(r) \/ Referrer(r) \/ CustomValidators(r) \/ TimeWindow(r)
  BY <1>1, <1>3, <1>5, <1>7 DEF HeadersAuth, Referrer, CustomValidators, TimeWindow
<1>8. CASE CloudProvider(r)
  <2>1. CASE Refuse(r, "bad_cloud")
    BY <1>1, <1>2, <1>3, <1>8, <2>1, EarlyMoves DEF CloudProvider, Ledger
  <2> QED
    BY <1>1, <1>3, <1>4, <1>8, <2>1 DEF CloudProvider
<1>9. CASE UserAgent(r)
  <2>1. CASE Refuse(r, "bad_user_agent") \/ Pass(r, "tiers")
    BY <1>1, <1>2, <1>3, <1>9, <2>1, EarlyMoves DEF UserAgent, Ledger
  <2> QED
    BY <1>1, <1>3, <1>5, <1>9, <2>1 DEF UserAgent
<1> QED
  BY <1>6, <1>7, <1>8, <1>9

(* The body, the scan and the ban check.                                   *)
LEMMA BodyLedger ==
  ASSUME NEW r \in Requests, BufferBody(r) \/ Scan(r) \/ Bans(r)
  PROVE  Ledger(r)
<1>1. {"body", "headers", "scan", "bans", "geo"} \subseteq AheadOfLimiter
  BY DEF AheadOfLimiter, Arms, PastLimiter
<1>2. {"too_large", "read_error", "scan_failed", "banned"} \subseteq Refusals \ {"suspicious"}
  BY DEF Refusals, RouteConditions
<1>3. pc[r] \in AheadOfLimiter
  BY <1>1 DEF BufferBody, Scan, Bans
<1>4. \/ \E c \in {"too_large", "read_error", "scan_failed", "banned"} : Refuse(r, c)
      \/ Pass(r, "geo")
      \/ \E l \in {"headers", "bans"} : Go(r, l) /\ UNCHANGED <<outVars, procVars, stageVars>>
  BY DEF BufferBody, Scan, Bans
<1>5. ASSUME NEW l \in {"headers", "bans"}, Go(r, l), UNCHANGED <<outVars, procVars, stageVars>>
      PROVE  Early(r)
  BY <1>1, <1>3, <1>5 DEF Early, outVars, procVars, stageVars
<1> QED
  BY <1>1, <1>2, <1>3, <1>4, <1>5, EarlyMoves DEF Ledger

(* The limiter.                                                            *)
LEMMA TiersLedger ==
  ASSUME NEW r \in Requests, RateTiers(r) \/ TierBan(r)
  PROVE  Ledger(r)
<1>1. {"tiers", "tier_ban"} \subseteq AheadOfLimiter
  BY DEF AheadOfLimiter, Arms, PastLimiter
<1>2. {"bad_tiers", "rate_limited"} \subseteq Refusals \ {"suspicious"}
  BY DEF Refusals, RouteConditions
<1>3. ASSUME pc[r] \in AheadOfLimiter, Answer(r, "rate_limited"), UNCHANGED <<procVars, window>>
      PROVE  Early(r)
  <2>1. "rate_limited" \in Answers \ {"suspicious"}
    BY <1>2 DEF Answers
  <2> QED
    BY <1>3, <2>1 DEF Early, Answer, AnswerTo, Left, procVars
<1>4. CASE TierBan(r)
  BY <1>1, <1>3, <1>4 DEF TierBan, Ledger
<1>5. CASE RateTiers(r)
  <2>1. CASE Refuse(r, "bad_tiers") \/ Refuse(r, "rate_limited")
    BY <1>1, <1>2, <1>5, <2>1, EarlyMoves DEF RateTiers, Ledger
  <2>2. CASE Answer(r, "rate_limited") /\ UNCHANGED <<reqVars, procVars, bans, window>>
    BY <1>1, <1>3, <1>5, <2>2 DEF RateTiers, Ledger
  <2>3. CASE Go(r, "tier_ban") /\ UNCHANGED outVars /\ UNCHANGED <<reqVars, procVars, bans, window>>
    BY <1>1, <1>5, <2>3 DEF RateTiers, Ledger, Early, outVars, procVars
  <2>4. CASE Pass(r, "detection") /\ Bypassed(r, "rate_limit")
    BY <1>5, <2>4 DEF RateTiers, Ledger, Spared, Excused, Pass, Bypassed, Waives, outVars,
                      procVars, stageVars
  <2>5. CASE Pass(r, "feed") /\ ~Limited(r)
    BY <1>5, <2>5 DEF RateTiers, Ledger, Spared, Excused, Pass, outVars, procVars, stageVars
  <2>6. CASE /\ Limited(r) /\ HasRoom(Ip(r)) /\ RecordHit(Ip(r), r) /\ Go(r, "feed")
             /\ UNCHANGED <<reqVars, outVars, procVars, bans, violations>>
    BY <1>5, <2>6 DEF RateTiers, Ledger, LetIn, Limited, outVars, procVars
  <2>7. CASE /\ Passive(r) /\ Go(r, "feed")
             /\ UNCHANGED <<reqVars, outVars, procVars, bans, window>>
    BY <1>5, <2>7 DEF RateTiers, Ledger, Spared, Excused, outVars, procVars
  <2> QED
    BY <1>5, <2>1, <2>2, <2>3, <2>4, <2>5, <2>6, <2>7 DEF RateTiers
<1> QED
  BY <1>4, <1>5

(* Past the limiter.                                                       *)
LEMMA LateLedger ==
  ASSUME NEW r \in Requests,
         \/ FeedBan(r) \/ DetectionBlock(r) \/ CustomRequest(r) \/ CallInner(r) \/ InnerReturns(r)
         \/ Disconnect(r)
  PROVE  Ledger(r)
<1>1. {"activity_banned", "inner", "inner_error"} \subseteq Answers \ {"rate_limited", "suspicious"}
      /\ "suspicious" \in Answers \ {"rate_limited"}
      /\ "custom_request" \in Refusals \ {"rate_limited", "suspicious"}
  BY DEF Answers, Refusals, StageConditions
<1>2. {"feed_ban", "detection", "custom", "forward"} \subseteq PastLimiter \ {"feed"}
  BY DEF PastLimiter
<1>3. CASE FeedBan(r)
  BY <1>1, <1>2, <1>3 DEF FeedBan, Ledger, Late, Answer, AnswerTo, Left, procVars
<1>4. CASE DetectionBlock(r)
  <2>1. CASE verdict[r] /\ ~Passive(r) /\ Refuse(r, "suspicious")
    BY <1>1, <1>2, <1>4, <2>1 DEF DetectionBlock, Ledger, Late, Refuse, Answer, AnswerTo, Left,
                                  procVars, stageVars
  <2>2. CASE Pass(r, "custom")
    BY <1>2, <1>4, <2>2, LateMoves DEF DetectionBlock, Ledger
  <2> QED
    BY <1>4, <2>1, <2>2 DEF DetectionBlock
<1>5. CASE CustomRequest(r)
  BY <1>1, <1>2, <1>5, LateMoves DEF CustomRequest, Check, Ledger
<1>6. CASE CallInner(r)
  BY <1>2, <1>6 DEF CallInner, Ledger, Late, procVars, stageVars
<1>7. CASE InnerReturns(r)
  BY <1>1, <1>7 DEF InnerReturns, Ledger, Late, AnswerTo, Left, procVars, stageVars
<1>8. CASE Disconnect(r)
  <2>1. CASE pc[r] = "body"
    <3>1. "body" \in AheadOfLimiter
      BY DEF AheadOfLimiter, Arms, PastLimiter
    <3> QED
      BY <1>8, <2>1, <3>1, EarlyMoves DEF Disconnect, Ledger
  <2>2. CASE pc[r] = "inner"
    BY <1>8, <2>2 DEF Disconnect, Ledger, Late, Pass, Left, outVars, procVars, stageVars
  <2> QED
    BY <1>8, <2>1, <2>2 DEF Disconnect
<1> QED
  BY <1>3, <1>4, <1>5, <1>6, <1>7, <1>8

(* Every step of a request comes to one of the ledger's kinds.             *)
LEMMA StepLedger ==
  ASSUME NEW r \in Requests, Step(r)
  PROVE  Ledger(r)
  BY EntryLedger, ConditionsLedger, BodyLedger, TiersLedger, LateLedger DEF Step, Screens, Ledger

-----------------------------------------------------------------------------
(* The limiter's window.                                                   *)

\* The limiter turned the request away, or bans for it before it answers.
TurnedAway(r) == answer[r] = "rate_limited" \/ pc[r] = "tier_ban"

(* Only the limiter, and the ban of its crossing, turn a request away.     *)
LEMMA OnlyTiersTurn ==
  ASSUME TypeOK, NEW r \in Requests, Step(r), TurnedAway(r)',
         answer'[r] # "rate_limited" \/ answer[r] # "rate_limited"
  PROVE  RateTiers(r) \/ TierBan(r)
<1> USE DEF TypeOK, OutTypeOK, reqVars, outVars, procVars, stageVars
<1>1. ASSUME NEW l, l # "tier_ban", Go(r, l), UNCHANGED answer PROVE FALSE
  BY <1>1 DEF Go, TurnedAway
<1>2. ASSUME NEW c, NEW l, AnswerTo(r, c, l), c # "rate_limited", l # "tier_ban" PROVE FALSE
  BY <1>2 DEF AnswerTo, Go, TurnedAway
<1>3. ASSUME NEW c, Refuse(r, c), c # "rate_limited" PROVE FALSE
  BY <1>2, <1>3 DEF Refuse, Answer
<1>4. ASSUME NEW l, l # "tier_ban", Pass(r, l) PROVE FALSE
  BY <1>1, <1>4 DEF Pass
<1>5. ASSUME NEW arm, NEW c, NEW excused, NEW next, Check(r, arm, c, excused, next),
             c # "rate_limited", next # "tier_ban"
      PROVE  FALSE
  BY <1>3, <1>4, <1>5 DEF Check
<1>6. ASSUME NEW arm, NEW c, NEW d, NEW next, RouteThenStage(r, arm, c, d, next),
             c # "rate_limited", d # "rate_limited", next # "tier_ban"
      PROVE  FALSE
  BY <1>3, <1>4, <1>6 DEF RouteThenStage
<1>7. ~Exclude(r) /\ ~Preflight(r) /\ ~UsageRules(r)
  BY <1>1, <1>2, <1>4 DEF Exclude, Preflight, UsageRules, Answer
<1>8. ~RouteIp(r) /\ ~RouteCountries(r) /\ ~IpGate(r)
  BY <1>1, <1>2, <1>3, <1>4 DEF RouteIp, RouteCountries, IpGate
<1>9. ~Emergency(r) /\ ~HttpsRedirect(r) /\ ~GeoBlocking(r) /\ ~CustomRequest(r)
  BY <1>5 DEF Emergency, HttpsRedirect, GeoBlocking, CustomRequest
<1>10. ~HeadersAuth(r) /\ ~Referrer(r) /\ ~CustomValidators(r) /\ ~TimeWindow(r)
  BY <1>6 DEF HeadersAuth, Referrer, CustomValidators, TimeWindow
<1>11. ~BufferBody(r) /\ ~Scan(r) /\ ~Bans(r) /\ ~DetectionBlock(r)
  BY <1>1, <1>3, <1>4 DEF BufferBody, Scan, Bans, DetectionBlock
<1>12. ~CloudProvider(r) /\ ~UserAgent(r)
  BY <1>3, <1>4, <1>5, <1>6 DEF CloudProvider, UserAgent
<1>13. ~Feed(r) /\ ~FeedBan(r) /\ ~CallInner(r)
  BY <1>1, <1>2 DEF Feed, FeedBan, CallInner, Answer
<1>14. ~InnerReturns(r) /\ ~RespondOwned(r) /\ ~Respond(r) /\ ~Disconnect(r)
  BY <1>1, <1>2, <1>4 DEF InnerReturns, RespondOwned, Respond, ResponsePass, Disconnect
<1> QED
  BY <1>7, <1>8, <1>9, <1>10, <1>11, <1>12, <1>13, <1>14 DEF Step, Screens

(* And they turn it away from a full window.                               *)
LEMMA TurnedFromFull ==
  ASSUME TypeOK, NEW r \in Requests, Step(r), UNCHANGED shape, TurnedAway(r)', ~TurnedAway(r)
  PROVE  Attributed(r) /\ ~HasRoom(Ip(r)) /\ window' = window
<1>1. RateTiers(r)
  BY OnlyTiersTurn DEF TurnedAway, TierBan
<1>2. ASSUME NEW l, l # "tier_ban", Go(r, l), UNCHANGED outVars PROVE FALSE
  BY <1>2 DEF TurnedAway, Go, outVars, TypeOK
<1>3. ~Refuse(r, "bad_tiers")
  BY DEF Refuse, Answer, AnswerTo, Go, TurnedAway, TypeOK, OutTypeOK
<1>4. /\ ~Pass(r, "detection") /\ ~Pass(r, "feed")
      /\ ~(Go(r, "feed") /\ UNCHANGED outVars)
  BY <1>2 DEF Pass
<1>5. Limited(r) /\ ~HasRoom(Ip(r)) /\ (Refuse(r, "rate_limited") \/ UNCHANGED window)
  BY <1>1, <1>3, <1>4 DEF RateTiers
<1> QED
  BY <1>5 DEF Limited, Refuse, stageVars


\* No window holds more than the limit, nor a request the limiter refused.
WindowsHold ==
  \A i \in Ips :
    /\ IsFiniteSet(window[i]) /\ Cardinality(window[i]) <= RateLimit
    /\ \A r \in window[i] : pc[r] \notin AheadOfLimiter /\ answer[r] # "rate_limited"

Behind(r) == pc[r] \in PastLimiter \cup {"inner"} \/ Forwarded(r)

\* Whoever is behind the limiter is in its window, or was not asked.
HitsRecorded == \A r \in Requests : Behind(r) => Excused(r) \/ r \in window[Ip(r)]

LimiterInv == WindowsHold /\ HitsRecorded

\* Whoever was turned away finds the window of its address full.
TurnedFromFullWindows ==
  \A r \in Requests : TurnedAway(r) => Attributed(r) /\ ~HasRoom(Ip(r))

(* Every step of a request leaves full windows full.                       *)
LEMMA StepLeavesFull ==
  ASSUME TypeOK, Undecided, NEW r \in Requests, TurnedFromFullWindows, Step(r), UNCHANGED shape
  PROVE  TurnedFromFullWindows'
<1> SUFFICES ASSUME NEW q \in Requests, TurnedAway(q)'
             PROVE  Attributed(q)' /\ ~HasRoom(Ip(q))'
  BY DEF TurnedFromFullWindows
<1>1. Attributed(q)' = Attributed(q) /\ Ip(q)' = Ip(q)
  BY DEF Attributed, Ip
<1>2. q # r => TurnedAway(q)
  BY StepApart DEF Apart, TurnedAway
<1>3. CASE LetIn(r)
  <2>1. ~TurnedAway(r)'
    BY <1>3 DEF LetIn, Go, TurnedAway, Undecided, Arms, TypeOK
  <2>2. Attributed(q) /\ ~HasRoom(Ip(q)) /\ Ip(q) # Ip(r)
    BY <1>2, <1>3, <2>1 DEF TurnedFromFullWindows, LetIn
  <2>3. window'[Ip(q)] = window[Ip(q)]
    BY <1>3, <2>2 DEF LetIn, RecordHit, Attributed, TypeOK, StageTypeOK
  <2> QED
    BY <1>1, <2>2, <2>3 DEF HasRoom
<1>4. CASE ~LetIn(r)
  <2>1. window' = window
    BY <1>4, StepLedger DEF Ledger, Early, Spared, Feed, Late, RespondOwned, Respond,
                            ResponsePass, stageVars
  <2>2. Attributed(q) /\ ~HasRoom(Ip(q))
    BY <1>2, TurnedFromFull DEF TurnedFromFullWindows
  <2> QED
    BY <1>1, <2>1, <2>2 DEF HasRoom
<1> QED
  BY <1>3, <1>4

(* What a request was excused for does not change behind the limiter.      *)
LEMMA ExcusedStays ==
  ASSUME NEW r, UNCHANGED shape, gate'[r] = gate[r]
  PROVE  Excused(r)' = Excused(r)
  BY DEF Excused, Passive, Waives, Limited, Attributed, Ip

(* A step that leaves the windows, and whose request was behind the        *)
(* limiter, is excused, or is not yet behind it.                           *)
LEMMA WindowsLeft ==
  ASSUME TypeOK, NEW r \in Requests, LimiterInv, UNCHANGED <<shape, window>>,
         \A q \in Requests \ {r} : Apart(q),
         \/ pc[r] \in AheadOfLimiter
         \/ pc'[r] \notin AheadOfLimiter /\ (answer'[r] = answer[r] \/ answer'[r] # "rate_limited"),
         Behind(r)' => gate'[r] = gate[r] /\ (Behind(r) \/ Excused(r))
  PROVE  LimiterInv'
<1>1. \A i \in Ips : window[i] \subseteq Requests
  BY DEF TypeOK, StageTypeOK
<1>2. WindowsHold'
  <2> SUFFICES ASSUME NEW i \in Ips PROVE
        /\ IsFiniteSet(window[i]) /\ Cardinality(window[i]) <= RateLimit
        /\ \A q \in window[i] : pc'[q] \notin AheadOfLimiter /\ answer'[q] # "rate_limited"
    BY DEF WindowsHold, AheadOfLimiter, Arms, PastLimiter
  <2>1. ASSUME NEW q \in window[i] PROVE pc'[q] \notin AheadOfLimiter /\ answer'[q] # "rate_limited"
    <3>1. pc[q] \notin AheadOfLimiter /\ answer[q] # "rate_limited"
      BY <2>1 DEF LimiterInv, WindowsHold
    <3>2. CASE q = r
      BY <3>1, <3>2
    <3>3. CASE q # r
      BY <1>1, <2>1, <3>1, <3>3 DEF Apart
    <3> QED
      BY <3>2, <3>3
  <2> QED
    BY <2>1 DEF LimiterInv, WindowsHold
<1>3. HitsRecorded'
  <2> SUFFICES ASSUME NEW q \in Requests, Behind(q)' PROVE Excused(q)' \/ q \in window[Ip(q)]
    BY DEF HitsRecorded, Ip
  <2>1. gate'[q] = gate[q] /\ (Behind(q) \/ Excused(q))
    BY DEF Apart, Behind, Forwarded, PastLimiter
  <2>2. Excused(q)' = Excused(q)
    BY <2>1, ExcusedStays
  <2> QED
    BY <2>1, <2>2 DEF LimiterInv, HitsRecorded
<1> QED
  BY <1>2, <1>3 DEF LimiterInv

(* Every step of a request keeps the windows within the limit.             *)
LEMMA StepLimits ==
  ASSUME TypeOK, Undecided, NEW r \in Requests, LimiterInv, Step(r), UNCHANGED shape
  PROVE  LimiterInv'
<1>1. \A q \in Requests \ {r} : Apart(q)
  BY StepApart
<1>2. CASE Early(r)
  <2>1. pc[r] \in AheadOfLimiter /\ pc'[r] \in AheadOfLimiter \cup Left
        /\ UNCHANGED <<inner, window>>
    BY <1>2 DEF Early, Go, TypeOK
  <2>2. ~Behind(r)'
    BY <2>1 DEF Behind, Forwarded, Undecided, AheadOfLimiter, Arms, PastLimiter, Left
  <2> QED
    BY <1>1, <2>1, <2>2, WindowsLeft
<1>3. CASE Spared(r)
  <2>1. pc[r] \in AheadOfLimiter
    BY <1>3 DEF Spared, AheadOfLimiter, Arms, PastLimiter
  <2>2. UNCHANGED <<gate, window>> /\ Excused(r)
    BY <1>3 DEF Spared, reqVars
  <2> QED
    BY <1>1, <2>1, <2>2, WindowsLeft
<1>4. CASE LetIn(r)
  <2> DEFINE i == Ip(r)
  <2>1. /\ pc[r] = "tiers" /\ i \in Ips /\ Cardinality(window[i]) < RateLimit
        /\ window' = [window EXCEPT ![i] = @ \cup {r}]
        /\ pc'[r] = "feed" /\ UNCHANGED <<gate, answer, inner>>
    BY <1>4 DEF LetIn, Attributed, HasRoom, RecordHit, Go, TypeOK, reqVars
  <2>2. /\ window'[i] = window[i] \cup {r}
        /\ \A j \in Ips \ {i} : window'[j] = window[j]
        /\ \A j \in Ips : window[j] \subseteq Requests
    BY <2>1 DEF TypeOK, StageTypeOK
  <2>3. answer[r] # "rate_limited"
    BY <2>1 DEF Undecided, Arms
  <2>4. IsFiniteSet(window'[i]) /\ Cardinality(window'[i]) <= RateLimit
    <3>1. IsFiniteSet(window[i])
      BY <2>1 DEF LimiterInv, WindowsHold
    <3>2. /\ IsFiniteSet(window'[i]) /\ Cardinality(window'[i]) \in Nat
          /\ Cardinality(window[i]) \in Nat
          /\ Cardinality(window'[i]) <= Cardinality(window[i]) + 1
      BY <2>2, <3>1, AddAtMostOne
    <3> QED
      BY <2>1, <3>2, StageAssumption
  <2>5. \A j \in Ips : \A q \in window'[j] : pc'[q] \notin AheadOfLimiter /\ answer'[q] # "rate_limited"
    <3> SUFFICES ASSUME NEW j \in Ips, NEW q \in window'[j]
                 PROVE  pc'[q] \notin AheadOfLimiter /\ answer'[q] # "rate_limited"
      OBVIOUS
    <3>1. CASE q = r
      BY <2>1, <2>3, <3>1 DEF AheadOfLimiter, PastLimiter
    <3>2. CASE q # r
      <4>1. q \in window[j] /\ q \in Requests \ {r}
        BY <2>2, <3>2
      <4> QED
        BY <1>1, <4>1 DEF LimiterInv, WindowsHold, Apart
    <3> QED
      BY <3>1, <3>2
  <2>6. WindowsHold'
    <3>1. \A j \in Ips : IsFiniteSet(window'[j]) /\ Cardinality(window'[j]) <= RateLimit
      BY <2>2, <2>4 DEF LimiterInv, WindowsHold
    <3> QED
      BY <2>5, <3>1 DEF WindowsHold, AheadOfLimiter, Arms, PastLimiter
  <2>7. HitsRecorded'
    <3> SUFFICES ASSUME NEW q \in Requests, Behind(q)' PROVE Excused(q)' \/ q \in window'[Ip(q)]
      BY DEF HitsRecorded, Ip
    <3>1. CASE q = r
      BY <2>2, <3>1
    <3>2. CASE q # r
      <4>1. Apart(q)
        BY <1>1, <3>2
      <4>2. Behind(q) /\ Excused(q)' = Excused(q)
        BY <4>1, ExcusedStays DEF Apart, Behind, Forwarded, PastLimiter
      <4>3. CASE q \in window[Ip(q)] /\ ~Excused(q)
        <5>1. Ip(q) \in Ips
          BY <4>3 DEF Excused, Limited, Attributed
        <5> QED
          BY <2>2, <4>3, <5>1
      <4> QED
        BY <4>2, <4>3 DEF LimiterInv, HitsRecorded
    <3> QED
      BY <3>1, <3>2
  <2> QED
    BY <2>6, <2>7 DEF LimiterInv
<1>5. CASE Feed(r)
  <2>1. /\ pc[r] = "feed" /\ pc'[r] \in {"feed_ban", "detection"}
        /\ UNCHANGED <<gate, answer, inner, window>>
    BY <1>5 DEF Feed, Go, TypeOK, reqVars
  <2> QED
    BY <1>1, <2>1, WindowsLeft DEF AheadOfLimiter, Behind, PastLimiter
<1>6. CASE Late(r)
  <2>1. /\ pc[r] \in PastLimiter \cup {"inner"}
        /\ pc'[r] \in {"custom", "forward", "inner"} \cup Left
        /\ UNCHANGED <<gate, window>>
        /\ answer'[r] = answer[r] \/ answer'[r] # "rate_limited"
    BY <1>6 DEF Late, Go, TypeOK, OutTypeOK, reqVars
  <2>2. pc'[r] \notin AheadOfLimiter
    BY <2>1 DEF AheadOfLimiter, PastLimiter, Left, Arms
  <2> QED
    BY <1>1, <2>1, <2>2, WindowsLeft DEF Behind
<1>7. CASE RespondOwned(r) \/ Respond(r)
  <2>1. /\ pc'[r] \in Left /\ UNCHANGED <<gate, answer, inner, window>>
    BY <1>7 DEF RespondOwned, Respond, ResponsePass, Go, TypeOK, Left, reqVars, outVars, stageVars
  <2>2. pc'[r] \notin AheadOfLimiter \cup PastLimiter \cup {"inner"}
    BY <2>1 DEF AheadOfLimiter, PastLimiter, Left, Arms
  <2> QED
    BY <1>1, <2>1, <2>2, WindowsLeft DEF Behind, Forwarded
<1> QED
  BY <1>2, <1>3, <1>4, <1>5, <1>6, <1>7, StepLedger DEF Ledger

(* With no window dropped or slid, no interleaving lets more requests of   *)
(* an address in than the limit, and none turns a request away below it,   *)
(* for every limit and every set of requests.                              *)
THEOREM LimiterHolds == Spec => []LimitHolds
<1>1. CASE RateLimiting /\ Environment \cap {"reset", "slide"} = {}
  <2>1. Init => LimiterInv /\ TurnedFromFullWindows
    <3> SUFFICES ASSUME Init PROVE LimiterInv /\ TurnedFromFullWindows
      OBVIOUS
    <3>1. \A i \in Ips : window[i] = {}
      BY DEF Init, StageInit
    <3>2. \A r \in Requests : ~Behind(r)
      BY DEF Init, Behind, Forwarded, PastLimiter
    <3>3. LimiterInv
      BY <3>1, <3>2, FS_EmptySet, StageAssumption DEF LimiterInv, WindowsHold, HitsRecorded
    <3>4. TurnedFromFullWindows
      BY DEF Init, TurnedFromFullWindows, TurnedAway
    <3> QED
      BY <3>3, <3>4
  <2>2. IInv /\ LimiterInv /\ TurnedFromFullWindows /\ [Next]_vars =>
          LimiterInv' /\ TurnedFromFullWindows'
    <3> SUFFICES ASSUME IInv, LimiterInv, TurnedFromFullWindows, [Next]_vars
                 PROVE  LimiterInv' /\ TurnedFromFullWindows'
      OBVIOUS
    <3>1. CASE UNCHANGED <<shape, pc, reqVars, outVars, window>>
      <4>1. LimiterInv'
        BY <3>1 DEF LimiterInv, WindowsHold, HitsRecorded, Behind, Forwarded, Excused, Passive,
                    Waives, Limited, Attributed, Ip, reqVars, outVars
      <4>2. TurnedFromFullWindows'
        BY <3>1 DEF TurnedFromFullWindows, TurnedAway, Attributed, Ip, HasRoom, outVars
      <4> QED
        BY <4>1, <4>2
    <3>2. ASSUME NEW r \in Requests, Step(r), UNCHANGED shape
          PROVE  LimiterInv' /\ TurnedFromFullWindows'
      BY <3>2, StepLimits, StepLeavesFull DEF IInv
    <3>3. OutOfBandStep => UNCHANGED <<pc, reqVars, outVars, window>>
      BY <1>1 DEF OutOfBandStep, StageNext, Reset, OperatorBans, BanLifts, WindowSlides
    <3> QED
      BY <3>1, <3>2, <3>3 DEF Next, Finished, vars, stageVars
  <2>3. LimiterInv /\ TurnedFromFullWindows => LimitHolds
    <3> SUFFICES ASSUME LimiterInv, TurnedFromFullWindows PROVE LimitHolds
      OBVIOUS
    <3>1. ASSUME NEW i \in Ips PROVE Cardinality(Admitted(i)) <= RateLimit
      <4>1. Admitted(i) \subseteq window[i]
        BY <1>1 DEF Admitted, LimiterInv, HitsRecorded, Behind, Excused, Limited, Attributed
      <4>2. IsFiniteSet(window[i]) /\ Cardinality(window[i]) <= RateLimit
        BY DEF LimiterInv, WindowsHold
      <4> QED
        BY <4>1, <4>2, PartIsSmaller, StageAssumption
    <3>2. ASSUME NEW r \in Requests, answer[r] = "rate_limited"
          PROVE  Cardinality(window[Ip(r)]) = RateLimit /\ r \notin window[Ip(r)]
      <4>1. Ip(r) \in Ips /\ ~(Cardinality(window[Ip(r)]) < RateLimit)
        BY <3>2 DEF TurnedFromFullWindows, TurnedAway, Attributed, HasRoom
      <4>2. IsFiniteSet(window[Ip(r)]) /\ Cardinality(window[Ip(r)]) <= RateLimit
        BY <4>1 DEF LimiterInv, WindowsHold
      <4>3. Cardinality(window[Ip(r)]) \in Nat
        BY <4>2, FS_CardinalityType
      <4>4. r \notin window[Ip(r)]
        BY <3>2, <4>1 DEF LimiterInv, WindowsHold
      <4> QED
        BY <4>1, <4>2, <4>3, <4>4, StageAssumption
    <3> QED
      BY <3>1, <3>2 DEF LimitHolds
  <2> QED
    BY <2>1, <2>2, <2>3, Inductive, PTL DEF Spec
<1>2. CASE ~(RateLimiting /\ Environment \cap {"reset", "slide"} = {})
  <2>1. LimitHolds
    BY <1>2 DEF LimitHolds
  <2> QED
    BY <2>1, PTL
<1> QED
  BY <1>1, <1>2

-----------------------------------------------------------------------------
(* The threats that were only blocked.                                     *)

\* The requests of an address the feed counted and did not ban, on their way
\* to the plain block or given it.
Ticked(i) ==
  {r \in Requests :
     /\ Ip(r) = i /\ gate[r] # "whitelisted" /\ ~Waives(r, "rate_limit")
     /\ \/ answer[r] = "suspicious"
        \/ pc[r] = "detection" /\ verdict[r] /\ ~Passive(r)}

\* There are no more of them than violations on record, and too few to ban.
TicksCounted ==
  BanningEnabled =>
    \A i \in Ips :
      /\ IsFiniteSet(Ticked(i))
      /\ Cardinality(Ticked(i)) <= violations["threat"][i]
      /\ Cardinality(Ticked(i)) < BanThreshold

(* Only the feed adds to them, and only below the threshold.               *)
LEMMA StepTicks ==
  ASSUME TypeOK, Undecided, NEW r \in Requests, Step(r), UNCHANGED shape, NEW i \in Ips
  PROVE  \/ Ticked(i)' \subseteq Ticked(i)
         \/ /\ Feed(r) /\ Ip(r) = i /\ Counted(r)
            /\ BanningEnabled => ~Crosses("threat", i)
            /\ Ticked(i)' \subseteq Ticked(i) \cup {r}
<1>1. \A q \in Requests : Ip(q)' = Ip(q) /\ Waives(q, "rate_limit")' = Waives(q, "rate_limit")
                          /\ Passive(q)' = Passive(q)
  BY DEF Ip, Waives, Passive
<1>2. Ticked(i)' \ {r} \subseteq Ticked(i)
  <2> SUFFICES ASSUME NEW q \in Ticked(i)', q # r PROVE q \in Ticked(i)
    OBVIOUS
  <2>1. q \in Requests \ {r}
    BY DEF Ticked
  <2> QED
    BY <1>1, <2>1, StepApart DEF Ticked, Apart
<1>3. SUFFICES ASSUME r \in Ticked(i)', r \notin Ticked(i)
               PROVE  /\ Feed(r) /\ Ip(r) = i /\ Counted(r)
                      /\ BanningEnabled => ~Crosses("threat", i)
  BY <1>2
<1>4. /\ Ip(r) = i /\ gate'[r] # "whitelisted" /\ ~Waives(r, "rate_limit")
      /\ \/ answer'[r] = "suspicious"
         \/ pc'[r] = "detection" /\ verdict'[r] /\ ~Passive(r)
  BY <1>1, <1>3 DEF Ticked
<1>5. CASE Early(r)
  <2>1. /\ pc[r] \in Arms /\ pc'[r] # "detection"
        /\ answer'[r] = answer[r] \/ answer'[r] # "suspicious"
    BY <1>5 DEF Early, Go, TypeOK, OutTypeOK, AheadOfLimiter, PastLimiter, Left
  <2> QED
    BY <1>4, <2>1 DEF Undecided
<1>6. CASE Spared(r)
  <2>1. /\ pc[r] \in Arms /\ answer'[r] = answer[r]
        /\ pc'[r] = "detection" => Waives(r, "rate_limit")
    BY <1>6 DEF Spared, Go, TypeOK, Arms
  <2> QED
    BY <1>4, <2>1 DEF Undecided
<1>7. CASE LetIn(r)
  <2>1. pc[r] \in Arms /\ answer'[r] = answer[r] /\ pc'[r] = "feed"
    BY <1>7 DEF LetIn, Go, TypeOK, Arms
  <2> QED
    BY <1>4, <2>1 DEF Undecided
<1>8. CASE Feed(r)
  <2>1. /\ pc[r] = "feed" /\ UNCHANGED <<answer, gate, verdict>>
        /\ pc'[r] = IF BansNow(r) THEN "feed_ban" ELSE "detection"
    BY <1>8 DEF Feed, Go, TypeOK, reqVars
  <2>2. answer'[r] # "suspicious"
    BY <2>1 DEF Undecided, Arms
  <2>3. ~BansNow(r) /\ verdict[r] /\ ~Passive(r) /\ gate[r] # "whitelisted"
    BY <1>4, <2>1, <2>2
  <2>4. Counted(r)
    BY <1>4, <2>3 DEF Counted, Attributed
  <2> QED
    BY <1>4, <1>8, <2>3, <2>4 DEF BansNow
<1>9. CASE Late(r)
  <2>1. /\ pc[r] \in Arms \cup {"inner"} /\ pc'[r] # "detection" /\ UNCHANGED gate
        /\ \/ answer'[r] = answer[r]
           \/ answer'[r] = "suspicious" => pc[r] = "detection" /\ verdict[r] /\ ~Passive(r)
    BY <1>9 DEF Late, Go, TypeOK, OutTypeOK, Left, PastLimiter, Arms, reqVars
  <2> QED
    BY <1>3, <1>4, <2>1 DEF Undecided, Ticked
<1>10. CASE RespondOwned(r) \/ Respond(r)
  <2>1. pc'[r] # "detection" /\ UNCHANGED <<gate, answer>>
    BY <1>10 DEF RespondOwned, Respond, ResponsePass, Go, TypeOK, reqVars, outVars
  <2> QED
    BY <1>3, <1>4, <2>1 DEF Ticked
<1> QED
  BY <1>5, <1>6, <1>7, <1>8, <1>9, <1>10, StepLedger DEF Ledger

(* Every step of a request keeps the threats below the threshold.          *)
LEMMA StepTicksCounted ==
  ASSUME TypeOK, TypeOK', BansDue, Undecided, NEW r \in Requests, TicksCounted, Step(r),
         UNCHANGED shape
  PROVE  TicksCounted'
<1> SUFFICES ASSUME BanningEnabled, NEW i \in Ips
             PROVE  /\ IsFiniteSet(Ticked(i)')
                    /\ Cardinality(Ticked(i)') <= violations'["threat"][i]
                    /\ Cardinality(Ticked(i)') < BanThreshold
  BY DEF TicksCounted
<1>1. /\ IsFiniteSet(Ticked(i)) /\ Cardinality(Ticked(i)) <= violations["threat"][i]
      /\ Cardinality(Ticked(i)) < BanThreshold
  BY DEF TicksCounted
<1>2. "threat" \in Kinds
  BY DEF Kinds
<1>3. violations["threat"][i] \in Nat /\ violations'["threat"][i] \in Nat
  BY <1>2, StageAssumption DEF TypeOK, StageTypeOK
<1>4. CASE Ticked(i)' \subseteq Ticked(i)
  <2>1. violations'["threat"][i] >= violations["threat"][i]
    BY <1>2, StepOutline DEF Outline, CountersGrow
  <2>2. /\ IsFiniteSet(Ticked(i)') /\ Cardinality(Ticked(i)') \in Nat
        /\ Cardinality(Ticked(i)) \in Nat /\ Cardinality(Ticked(i)') <= Cardinality(Ticked(i))
    BY <1>1, <1>4, PartIsSmaller
  <2> QED
    BY <1>1, <1>3, <2>1, <2>2, StageAssumption
<1>5. CASE /\ Feed(r) /\ Ip(r) = i /\ Counted(r) /\ ~Crosses("threat", i)
           /\ Ticked(i)' \subseteq Ticked(i) \cup {r}
  <2>1. CountViolation("threat", i)
    BY <1>5 DEF Feed
  <2>2. violations["threat"][i] + 1 < BanThreshold
    BY <1>3, <1>5, StageAssumption DEF Crosses
  <2>3. violations'["threat"][i] = violations["threat"][i] + 1
    BY <1>2, <1>3, <2>1, <2>2, StageAssumption DEF CountViolation, TypeOK, StageTypeOK
  <2>4. /\ IsFiniteSet(Ticked(i)') /\ Cardinality(Ticked(i)') \in Nat
        /\ Cardinality(Ticked(i)) \in Nat /\ Cardinality(Ticked(i)') <= Cardinality(Ticked(i)) + 1
    BY <1>1, <1>5, AddAtMostOne
  <2> QED
    BY <1>1, <1>3, <2>2, <2>3, <2>4, StageAssumption
<1> QED
  BY <1>4, <1>5, StepTicks

(* However the requests of an address interleave, fewer of its threats     *)
(* than the threshold get away with the plain 400.                         *)
THEOREM ThresholdAlwaysBans == Spec => []ThresholdBans
<1>1. Init => TicksCounted
  <2> SUFFICES ASSUME Init, NEW i \in Ips
               PROVE  /\ IsFiniteSet(Ticked(i)) /\ Cardinality(Ticked(i)) <= violations["threat"][i]
                      /\ Cardinality(Ticked(i)) < BanThreshold
    BY DEF TicksCounted
  <2>1. Ticked(i) = {}
    BY DEF Init, Ticked
  <2>2. violations["threat"][i] = 0
    BY DEF Init, StageInit, Kinds
  <2> QED
    BY <2>1, <2>2, FS_EmptySet, StageAssumption
<1>2. IInv /\ IInv' /\ TicksCounted /\ [Next]_vars => TicksCounted'
  <2> SUFFICES ASSUME IInv, IInv', TicksCounted, [Next]_vars PROVE TicksCounted'
    OBVIOUS
  <2>1. CASE UNCHANGED <<shape, pc, reqVars, outVars, violations>>
    <3>1. ASSUME NEW i \in Ips PROVE Ticked(i)' = Ticked(i)
      BY <2>1 DEF Ticked, Ip, Waives, Passive, reqVars, outVars
    <3> QED
      BY <2>1, <3>1 DEF TicksCounted
  <2>2. ASSUME NEW r \in Requests, Step(r), UNCHANGED shape PROVE TicksCounted'
    BY <2>2, StepTicksCounted DEF IInv
  <2>3. OutOfBandStep => UNCHANGED <<pc, reqVars, outVars, violations>>
    BY DEF OutOfBandStep, StageNext, Reset, OperatorBans, BanLifts, WindowSlides
  <2> QED
    BY <2>1, <2>2, <2>3 DEF Next, Finished, vars, stageVars
<1>3. IInv /\ TicksCounted => ThresholdBans
  <2> SUFFICES ASSUME TicksCounted, BanningEnabled, NEW i \in Ips
               PROVE  Cardinality(PlainBlocks(i)) < BanThreshold
    BY DEF ThresholdBans
  <2>1. PlainBlocks(i) \subseteq Ticked(i)
    BY DEF PlainBlocks, Ticked
  <2>2. IsFiniteSet(Ticked(i)) /\ Cardinality(Ticked(i)) < BanThreshold
    BY DEF TicksCounted
  <2> QED
    BY <2>1, <2>2, PartIsSmaller, StageAssumption
<1> QED
  BY <1>1, <1>2, <1>3, Inductive, PTL DEF Spec
-----------------------------------------------------------------------------
(* The crossings of the limiter.                                           *)

\* The requests of an address that were given the limiter's 429.
Refused429(i) == {r \in Requests : answer[r] = "rate_limited" /\ Ip(r) = i}

\* An address that is not banned was given no more of them than violations
\* on record, and too few to ban.
CrossingsCounted ==
  \A i \in Ips :
    \/ i \in bans
    \/ /\ IsFiniteSet(Refused429(i))
       /\ Cardinality(Refused429(i)) <= violations["rate_limit"][i]
       /\ Cardinality(Refused429(i)) < BanThreshold

(* A step gives an address a 429 only with a violation counted below the   *)
(* threshold, or with the ban of the one that reached it.                  *)
LEMMA StepCrossings ==
  ASSUME TypeOK, Undecided, AutoBan, BanningEnabled, NEW r \in Requests, Step(r),
         UNCHANGED shape, NEW i \in Ips
  PROVE  \/ Refused429(i)' \subseteq Refused429(i)
         \/ /\ Refused429(i)' \subseteq Refused429(i) \cup {r}
            /\ \/ i \in bans'
               \/ CountViolation("rate_limit", i) /\ ~Crosses("rate_limit", i)
<1>1. Ip(r)' = Ip(r) /\ \A q \in Requests : Ip(q)' = Ip(q)
  BY DEF Ip
<1>2. Refused429(i)' \subseteq Refused429(i) \cup {r}
  BY <1>1, StepApart DEF Refused429, Apart
<1>3. SUFFICES ASSUME r \in Refused429(i)', r \notin Refused429(i)
               PROVE  \/ i \in bans'
                      \/ CountViolation("rate_limit", i) /\ ~Crosses("rate_limit", i)
  BY <1>2
<1>4. Ip(r) = i /\ answer'[r] = "rate_limited" /\ answer[r] # "rate_limited"
  BY <1>1, <1>3 DEF Refused429
<1>5. CASE TierBan(r)
  BY <1>4, <1>5 DEF TierBan, Ban
<1>6. CASE RateTiers(r)
  <2>1. ~UNCHANGED outVars
    BY <1>4 DEF outVars
  <2>2. ~Refuse(r, "bad_tiers")
    BY <1>4 DEF Refuse, Answer, AnswerTo, TypeOK, OutTypeOK
  <2> QED
    BY <1>4, <1>6, <2>1, <2>2 DEF RateTiers, Pass
<1> QED
  BY <1>4, <1>5, <1>6, OnlyTiersTurn DEF TurnedAway

(* Every step of a request keeps the crossings on record.                  *)
LEMMA StepCrossingsCounted ==
  ASSUME TypeOK, TypeOK', BansDue, Undecided, AutoBan, BanningEnabled, NEW r \in Requests,
         CrossingsCounted, Step(r), UNCHANGED shape
  PROVE  CrossingsCounted'
<1> SUFFICES ASSUME NEW i \in Ips, i \notin bans'
             PROVE  /\ IsFiniteSet(Refused429(i)')
                    /\ Cardinality(Refused429(i)') <= violations'["rate_limit"][i]
                    /\ Cardinality(Refused429(i)') < BanThreshold
  BY DEF CrossingsCounted
<1>1. CountersGrow /\ bans \subseteq bans'
  BY StepOutline DEF Outline, Onward, Concludes, Inner, Responds, Ban, ProcessorBans
<1>2. /\ IsFiniteSet(Refused429(i)) /\ Cardinality(Refused429(i)) <= violations["rate_limit"][i]
      /\ Cardinality(Refused429(i)) < BanThreshold
  BY <1>1 DEF CrossingsCounted
<1>3. "rate_limit" \in Kinds
  BY DEF Kinds
<1>4. /\ violations["rate_limit"][i] \in Nat /\ violations'["rate_limit"][i] \in Nat
      /\ violations'["rate_limit"][i] >= violations["rate_limit"][i]
  BY <1>1, <1>3, StageAssumption DEF TypeOK, StageTypeOK, CountersGrow
<1>5. CASE Refused429(i)' \subseteq Refused429(i)
  <2>1. /\ IsFiniteSet(Refused429(i)') /\ Cardinality(Refused429(i)') \in Nat
        /\ Cardinality(Refused429(i)) \in Nat
        /\ Cardinality(Refused429(i)') <= Cardinality(Refused429(i))
    BY <1>2, <1>5, PartIsSmaller
  <2> QED
    BY <1>2, <1>4, <2>1, StageAssumption
<1>6. CASE /\ Refused429(i)' \subseteq Refused429(i) \cup {r}
           /\ CountViolation("rate_limit", i) /\ ~Crosses("rate_limit", i)
  <2>1. violations["rate_limit"][i] + 1 < BanThreshold
    BY <1>4, <1>6, StageAssumption DEF Crosses
  <2>2. violations'["rate_limit"][i] = violations["rate_limit"][i] + 1
    BY <1>3, <1>4, <1>6, <2>1, StageAssumption DEF CountViolation, TypeOK, StageTypeOK
  <2>3. /\ IsFiniteSet(Refused429(i)') /\ Cardinality(Refused429(i)') \in Nat
        /\ Cardinality(Refused429(i)) \in Nat
        /\ Cardinality(Refused429(i)') <= Cardinality(Refused429(i)) + 1
    BY <1>2, <1>6, AddAtMostOne
  <2> QED
    BY <1>2, <1>4, <2>1, <2>2, <2>3, StageAssumption
<1> QED
  BY <1>5, <1>6, StepCrossings

(* However the crossings of an address interleave, none of them is lost    *)
(* between its count and its ban, which are two accesses to the stores.    *)
THEOREM CrossingsAlwaysBan == Spec => []CrossingsBan
<1>1. CASE AutoBan /\ BanningEnabled /\ "lift" \notin Environment
  <2>1. Init => CrossingsCounted
    <3> SUFFICES ASSUME Init, NEW i \in Ips
                 PROVE  /\ IsFiniteSet(Refused429(i))
                        /\ Cardinality(Refused429(i)) <= violations["rate_limit"][i]
                        /\ Cardinality(Refused429(i)) < BanThreshold
      BY DEF CrossingsCounted
    <3>1. Refused429(i) = {}
      BY DEF Init, Refused429
    <3>2. violations["rate_limit"][i] = 0
      BY DEF Init, StageInit, Kinds
    <3> QED
      BY <3>1, <3>2, FS_EmptySet, StageAssumption
  <2>2. IInv /\ IInv' /\ CrossingsCounted /\ [Next]_vars => CrossingsCounted'
    <3> SUFFICES ASSUME IInv, IInv', CrossingsCounted, [Next]_vars PROVE CrossingsCounted'
      OBVIOUS
    <3>1. CASE UNCHANGED <<shape, answer, violations>> /\ bans \subseteq bans'
      <4>1. ASSUME NEW i \in Ips PROVE Refused429(i)' = Refused429(i)
        BY <3>1 DEF Refused429, Ip
      <4> QED
        BY <3>1, <4>1 DEF CrossingsCounted
    <3>2. ASSUME NEW r \in Requests, Step(r), UNCHANGED shape PROVE CrossingsCounted'
      BY <1>1, <3>2, StepCrossingsCounted DEF IInv
    <3>3. OutOfBandStep => UNCHANGED <<answer, violations>> /\ bans \subseteq bans'
      BY <1>1 DEF OutOfBandStep, StageNext, Reset, OperatorBans, BanLifts, WindowSlides, Ban,
                  outVars
    <3> QED
      BY <3>1, <3>2, <3>3 DEF Next, Finished, vars, outVars, stageVars
  <2>3. CrossingsCounted => CrossingsBan
    <3> SUFFICES ASSUME CrossingsCounted, NEW i \in Ips, i \notin bans,
                        Cardinality(Refused429(i)) >= BanThreshold
                 PROVE  FALSE
      BY DEF CrossingsBan, Refused429
    <3>1. IsFiniteSet(Refused429(i)) /\ Cardinality(Refused429(i)) < BanThreshold
      BY DEF CrossingsCounted
    <3> QED
      BY <3>1, FS_CardinalityType, StageAssumption
  <2> QED
    BY <2>1, <2>2, <2>3, Inductive, PTL DEF Spec
<1>2. CASE ~(AutoBan /\ BanningEnabled /\ "lift" \notin Environment)
  <2>1. CrossingsBan
    BY <1>2 DEF CrossingsBan
  <2> QED
    BY <2>1, PTL
<1> QED
  BY <1>1, <1>2
-----------------------------------------------------------------------------
(* The answers a return rule matched.                                      *)

\* A match is an answer that has left, or a denial the gate passed itself.
MatchesAnswered ==
  \A i \in Ips :
    /\ IsFiniteSet(FlaggedAnswers(i)) /\ IsFiniteSet(GateDenials(i))
    /\ returns[i] <= Cardinality(FlaggedAnswers(i)) + Cardinality(GateDenials(i))

(* A step of a request adds no answer but its own, and none of the answers *)
(* that have left, or that the gate has passed, goes.                      *)
LEMMA StepAnswers ==
  ASSUME TypeOK, NEW r \in Requests, Step(r), UNCHANGED shape, NEW i \in Ips
  PROVE  /\ FlaggedAnswers(i) \subseteq FlaggedAnswers(i)'
         /\ FlaggedAnswers(i)' \subseteq FlaggedAnswers(i) \cup {r}
         /\ r \notin FlaggedAnswers(i)
         /\ GateDenials(i) \subseteq GateDenials(i)'
         /\ GateDenials(i)' \subseteq GateDenials(i) \cup {r}
<1>1. \A q \in Requests : Ip(q)' = Ip(q)
  BY DEF Ip
<1>2. \A q \in Requests \ {r} : /\ q \in FlaggedAnswers(i)' <=> q \in FlaggedAnswers(i)
                                /\ q \in GateDenials(i)' <=> q \in GateDenials(i)
  BY <1>1, StepApart DEF FlaggedAnswers, GateDenials, Apart
<1>3. pc[r] # "closed" /\ (pc[r] = "respond" => Respond(r))
  BY StepLedger DEF Ledger, Early, Spared, LetIn, Feed, Late, RespondOwned, Respond,
                    AheadOfLimiter, PastLimiter, Arms
<1>4. r \in GateDenials(i) => r \in GateDenials(i)'
  <2> SUFFICES ASSUME r \in GateDenials(i) PROVE r \in GateDenials(i)'
    OBVIOUS
  <2>1. Respond(r)
    BY <1>3 DEF GateDenials
  <2>2. pc'[r] = "closed" /\ UNCHANGED answer
    BY <2>1 DEF Respond, ResponsePass, Go, TypeOK, outVars
  <2> QED
    BY <1>1, <2>2 DEF GateDenials
<1>5. /\ FlaggedAnswers(i)' \subseteq Requests /\ FlaggedAnswers(i) \subseteq Requests
      /\ GateDenials(i)' \subseteq Requests /\ GateDenials(i) \subseteq Requests
  BY DEF FlaggedAnswers, GateDenials
<1> QED
  BY <1>2, <1>3, <1>4, <1>5 DEF FlaggedAnswers

(* A set that grows by one member at most.                                 *)
LEMMA GrowsByOne ==
  ASSUME NEW S, IsFiniteSet(S), NEW x, NEW T, S \subseteq T, T \subseteq S \cup {x}
  PROVE  /\ IsFiniteSet(T) /\ Cardinality(T) \in Nat /\ Cardinality(S) \in Nat
         /\ Cardinality(S) <= Cardinality(T)
         /\ x \in T /\ x \notin S => Cardinality(T) = Cardinality(S) + 1
<1>1. IsFiniteSet(T)
  BY AddAtMostOne
<1>2. x \in T /\ x \notin S => Cardinality(T) = Cardinality(S) + 1
  <2> SUFFICES ASSUME x \in T, x \notin S PROVE Cardinality(T) = Cardinality(S) + 1
    OBVIOUS
  <2>1. T = S \cup {x}
    OBVIOUS
  <2> QED
    BY <2>1, FS_AddElement
<1> QED
  BY <1>1, <1>2, PartIsSmaller

(* Every step of a request keeps the matches within the answers.           *)
LEMMA StepMatches ==
  ASSUME TypeOK, NEW r \in Requests, Passed(r), MatchesAnswered, Step(r), UNCHANGED shape
  PROVE  MatchesAnswered'
<1> SUFFICES ASSUME NEW i \in Ips
             PROVE  /\ IsFiniteSet(FlaggedAnswers(i)') /\ IsFiniteSet(GateDenials(i)')
                    /\ returns'[i] <= Cardinality(FlaggedAnswers(i)') + Cardinality(GateDenials(i)')
  BY DEF MatchesAnswered
<1>1. /\ IsFiniteSet(FlaggedAnswers(i)) /\ IsFiniteSet(GateDenials(i))
      /\ returns[i] <= Cardinality(FlaggedAnswers(i)) + Cardinality(GateDenials(i))
  BY DEF MatchesAnswered
<1>2. returns[i] \in Nat
  BY PipelineAssumption DEF TypeOK, ProcTypeOK, Identities
<1>3. /\ FlaggedAnswers(i) \subseteq FlaggedAnswers(i)'
      /\ FlaggedAnswers(i)' \subseteq FlaggedAnswers(i) \cup {r}
      /\ r \notin FlaggedAnswers(i)
      /\ GateDenials(i) \subseteq GateDenials(i)'
      /\ GateDenials(i)' \subseteq GateDenials(i) \cup {r}
  BY StepAnswers
<1>4. /\ IsFiniteSet(FlaggedAnswers(i)') /\ Cardinality(FlaggedAnswers(i)') \in Nat
      /\ Cardinality(FlaggedAnswers(i)) \in Nat
      /\ Cardinality(FlaggedAnswers(i)) <= Cardinality(FlaggedAnswers(i)')
      /\ r \in FlaggedAnswers(i)' =>
           Cardinality(FlaggedAnswers(i)') = Cardinality(FlaggedAnswers(i)) + 1
  BY <1>1, <1>3, GrowsByOne
<1>5. /\ IsFiniteSet(GateDenials(i)') /\ Cardinality(GateDenials(i)') \in Nat
      /\ Cardinality(GateDenials(i)) \in Nat
      /\ Cardinality(GateDenials(i)) <= Cardinality(GateDenials(i)')
      /\ r \in GateDenials(i)' /\ r \notin GateDenials(i) =>
           Cardinality(GateDenials(i)') = Cardinality(GateDenials(i)) + 1
  BY <1>1, <1>3, GrowsByOne
<1>6. CASE returns'[i] = returns[i]
  BY <1>1, <1>2, <1>4, <1>5, <1>6
<1>7. CASE /\ returns'[i] <= returns[i] + 1 /\ returns'[i] \in Nat
           /\ \/ r \in FlaggedAnswers(i)'
              \/ r \in GateDenials(i)' /\ r \notin GateDenials(i)
  BY <1>1, <1>2, <1>4, <1>5, <1>7
<1>8. CASE RespondOwned(r) \/ Respond(r)
  <2>1. \/ returns' = returns
        \/ /\ answer[r] \in Flagged /\ UNCHANGED answer
           /\ returns' = [returns EXCEPT ![Ip(r)] = CountUpTo(@, ReturnThreshold)]
    BY <1>8 DEF RespondOwned, Respond, ResponsePass, procVars
  <2>2. CASE /\ Ip(r) = i /\ answer[r] \in Flagged /\ UNCHANGED answer
             /\ returns' = [returns EXCEPT ![Ip(r)] = CountUpTo(@, ReturnThreshold)]
    <3>1. returns'[i] <= returns[i] + 1 /\ returns'[i] \in Nat
      BY <1>2, <2>2, PipelineAssumption DEF CountUpTo, TypeOK, ProcTypeOK, Identities
    <3>2. CASE Respond(r)
      <4>1. r \in FlaggedAnswers(i)'
        BY <2>2, <3>2 DEF FlaggedAnswers, Respond, Go, TypeOK, Ip
      <4> QED
        BY <1>7, <3>1, <4>1
    <3>3. CASE RespondOwned(r)
      <4>1. answer[r] = "ip_gate" /\ pc[r] = "respond_owned" /\ pc'[r] = "respond"
        BY <3>3 DEF RespondOwned, Passed, Go, TypeOK
      <4>2. r \in GateDenials(i)' /\ r \notin GateDenials(i)
        BY <2>2, <4>1 DEF GateDenials, Ip
      <4> QED
        BY <1>7, <3>1, <4>2
    <3> QED
      BY <1>8, <3>2, <3>3
  <2>3. CASE Ip(r) # i
    BY <1>6, <2>1, <2>3 DEF TypeOK, ProcTypeOK, Identities
  <2> QED
    BY <1>6, <2>1, <2>2, <2>3
<1>9. CASE Early(r) \/ Spared(r) \/ LetIn(r) \/ Feed(r) \/ Late(r)
  BY <1>6, <1>9 DEF Early, Spared, LetIn, Feed, Late, procVars
<1> QED
  BY <1>8, <1>9, StepLedger DEF Ledger

(* A return rule bans only an address that was given more matching answers *)
(* than its threshold, the denials of the gate counted twice.              *)
THEOREM ReturnsEarned == Spec => []ReturnBansEarned
<1>1. Init => MatchesAnswered
  <2> SUFFICES ASSUME Init, NEW i \in Ips
               PROVE  /\ IsFiniteSet(FlaggedAnswers(i)) /\ IsFiniteSet(GateDenials(i))
                      /\ returns[i] <= Cardinality(FlaggedAnswers(i)) + Cardinality(GateDenials(i))
    BY DEF MatchesAnswered
  <2>1. FlaggedAnswers(i) = {} /\ GateDenials(i) = {} /\ returns[i] = 0
    BY DEF Init, FlaggedAnswers, GateDenials, Identities
  <2> QED
    BY <2>1, FS_EmptySet
<1>2. IInv /\ Answered /\ MatchesAnswered /\ [Next]_vars => MatchesAnswered'
  <2> SUFFICES ASSUME IInv, Answered, MatchesAnswered, [Next]_vars PROVE MatchesAnswered'
    OBVIOUS
  <2>1. CASE UNCHANGED <<shape, pc, answer, returns>>
    <3>1. ASSUME NEW i \in Ips
          PROVE  FlaggedAnswers(i)' = FlaggedAnswers(i) /\ GateDenials(i)' = GateDenials(i)
      BY <2>1 DEF FlaggedAnswers, GateDenials, Ip
    <3> QED
      BY <2>1, <3>1 DEF MatchesAnswered
  <2>2. ASSUME NEW r \in Requests, Step(r), UNCHANGED shape PROVE MatchesAnswered'
    BY <2>2, StepMatches DEF IInv, Answered
  <2> QED
    BY <2>1, <2>2 DEF Next, OutOfBandStep, Finished, vars, outVars, procVars
<1>3. IInv /\ MatchesAnswered => ReturnBansEarned
  <2> SUFFICES ASSUME IInv, MatchesAnswered, NEW i \in Ips, returns[i] > ReturnThreshold
               PROVE  Cardinality(FlaggedAnswers(i)) + Cardinality(GateDenials(i)) > ReturnThreshold
    BY DEF ReturnBansEarned
  <2>1. returns[i] \in Nat
    BY PipelineAssumption DEF IInv, TypeOK, ProcTypeOK, Identities
  <2>2. /\ returns[i] <= Cardinality(FlaggedAnswers(i)) + Cardinality(GateDenials(i))
        /\ Cardinality(FlaggedAnswers(i)) \in Nat /\ Cardinality(GateDenials(i)) \in Nat
    BY FS_CardinalityType DEF MatchesAnswered
  <2> QED
    BY <2>1, <2>2, PipelineAssumption
<1> QED
  BY <1>1, <1>2, <1>3, AnsweredInvariant, PTL DEF Spec

=============================================================================
