------------------------ MODULE GuardPipelineProofs ------------------------
(* GuardPipeline for every set of requests, addresses and lists, every     *)
(* threshold and every configuration of the layer.                         *)
EXTENDS GuardProperties, TLAPS

(* Moving one request to an arm of the pipeline keeps every pc a label.    *)
LEMMA GoType ==
  ASSUME pc \in [Requests -> Labels], NEW r \in Requests, NEW l \in Labels, Go(r, l)
  PROVE  pc' \in [Requests -> Labels]
  BY DEF Go

(* An arm that only lets a request through keeps every type.               *)
LEMMA PassType ==
  ASSUME TypeOK, NEW r \in Requests, NEW l \in Labels, Pass(r, l), UNCHANGED shape
  PROVE  TypeOK'
<1>1. pc' \in [Requests -> Labels]
  BY GoType DEF Pass, TypeOK
<1> QED
  BY <1>1 DEF Pass, TypeOK, ReqTypeOK, OutTypeOK, ProcTypeOK, StageTypeOK,
              reqVars, outVars, procVars, stageVars

(* Composing an answer keeps the types of the pc and of the outcome.       *)
LEMMA AnswerToType ==
  ASSUME TypeOK, NEW r \in Requests, NEW c \in Answers, NEW l \in Labels, AnswerTo(r, c, l)
  PROVE  pc' \in [Requests -> Labels] /\ OutTypeOK'
<1>1. pc' \in [Requests -> Labels]
  BY GoType DEF AnswerTo, TypeOK
<1>2. answer' \in [Requests -> Answers]
  BY DEF AnswerTo, TypeOK, OutTypeOK
<1>3. hooks' \in [Requests -> Nat]
  BY DEF AnswerTo, TypeOK, OutTypeOK
<1> QED
  BY <1>1, <1>2, <1>3 DEF AnswerTo, TypeOK, OutTypeOK

(* A refusal keeps every type.                                             *)
LEMMA RefuseType ==
  ASSUME TypeOK, NEW r \in Requests, NEW c \in Refusals, Refuse(r, c), UNCHANGED shape
  PROVE  TypeOK'
<1>1. AnswerTo(r, c, "respond") /\ UNCHANGED <<reqVars, procVars, stageVars>>
  BY DEF Refuse, Answer
<1>2. pc' \in [Requests -> Labels] /\ OutTypeOK'
  BY <1>1, AnswerToType DEF Answers, Labels
<1> QED
  BY <1>1, <1>2 DEF TypeOK, ReqTypeOK, ProcTypeOK, StageTypeOK,
                    reqVars, procVars, stageVars

(* An arm over one condition keeps every type.                             *)
LEMMA CheckType ==
  ASSUME TypeOK, NEW r \in Requests, NEW arm, NEW c \in Refusals, NEW excused,
         NEW next \in Labels, Check(r, arm, c, excused, next), UNCHANGED shape
  PROVE  TypeOK'
  BY PassType, RefuseType DEF Check

(* An arm of the route's carrier and its stage keeps every type.           *)
LEMMA RouteThenStageType ==
  ASSUME TypeOK, NEW r \in Requests, NEW arm, NEW c \in Refusals, NEW d \in Refusals,
         NEW next \in Labels, RouteThenStage(r, arm, c, d, next), UNCHANGED shape
  PROVE  TypeOK'
  BY PassType, RefuseType DEF RouteThenStage

(* The request's fields are those of a shape.                              *)
LEMMA ShapeFacts ==
  ASSUME TypeOK, NEW r \in Requests
  PROVE  /\ Ip(r) \in Identities
         /\ shape[r].prior \in Decisions
         /\ Attributed(r) => Ip(r) \in Ips
  BY DEF TypeOK, ShapeSpace, Ip, Attributed

(* A behaviour rule's ban keeps the types of both stores.                  *)
LEMMA ProcessorBansType ==
  ASSUME TypeOK, NEW i, ProcessorBans(i)
  PROVE  bans' \subseteq Ips /\ procBans' \subseteq Ips
  BY DEF ProcessorBans, Ban, TypeOK, ProcTypeOK, StageTypeOK

(* The capped count of a rule stays one past its threshold at most.        *)
LEMMA CountUpToType ==
  ASSUME NEW t \in Nat, NEW n \in 0 .. t + 1
  PROVE  CountUpTo(n, t) \in 0 .. t + 1
  BY DEF CountUpTo

(* A violation count stays within the threshold.                           *)
LEMMA CountViolationType ==
  ASSUME StageTypeOK, NEW k \in Kinds, NEW i \in Ips, CountViolation(k, i)
  PROVE  violations' \in [Kinds -> [Ips -> 0 .. BanThreshold]]
<1>1. violations[k] \in [Ips -> 0 .. BanThreshold]
  BY DEF StageTypeOK
<1>2. (IF violations[k][i] < BanThreshold THEN violations[k][i] + 1 ELSE violations[k][i])
        \in 0 .. BanThreshold
  BY <1>1, StageAssumption
<1> QED
  BY <1>1, <1>2 DEF CountViolation, StageTypeOK

(* The request as it arrived has every type.                               *)
LEMMA InitType == Init => TypeOK
<1> SUFFICES ASSUME Init PROVE TypeOK
  OBVIOUS
<1>1. shape \in [Requests -> ShapeSpace]
  BY PipelineAssumption DEF Init
<1>2. gate \in [Requests -> Decisions]
  BY <1>1 DEF Init, ShapeSpace
<1>3. StageTypeOK
  BY StageAssumption DEF Init, StageInit, StageTypeOK
<1>4. ProcTypeOK
  BY PipelineAssumption DEF Init, ProcTypeOK
<1>5. pc \in [Requests -> Labels] /\ OutTypeOK
  BY DEF Init, Labels, Arms, OutTypeOK, Answers
<1> QED
  BY <1>1, <1>2, <1>3, <1>4, <1>5 DEF Init, TypeOK, ReqTypeOK

(* The arms before the body keep every type.                               *)
LEMMA EarlyType ==
  ASSUME TypeOK, NEW r \in Requests, UNCHANGED shape,
         \/ Exclude(r) \/ Preflight(r) \/ UsageRules(r) \/ RouteIp(r)
         \/ RouteCountries(r) \/ IpGate(r) \/ Emergency(r) \/ HttpsRedirect(r)
  PROVE  TypeOK'
<1> USE DEF Labels, Arms, Refusals, RouteConditions, StageConditions
<1>1. CASE Exclude(r)
  <2>1. (IF shape[r].kind = "excluded" THEN "forward" ELSE "preflight") \in Labels
    OBVIOUS
  <2> QED
    BY <1>1, <2>1, PassType DEF Exclude
<1>2. CASE Preflight(r)
  <2>1. CASE Pass(r, "usage")
    BY <2>1, PassType
  <2>2. CASE AnswerTo(r, "preflight", "closed") /\ UNCHANGED <<reqVars, procVars, stageVars>>
    <3>1. pc' \in [Requests -> Labels] /\ OutTypeOK'
      BY <2>2, AnswerToType DEF Answers
    <3> QED
      BY <2>2, <3>1 DEF TypeOK, ReqTypeOK, ProcTypeOK, StageTypeOK,
                        reqVars, procVars, stageVars
  <2> QED
    BY <1>2, <2>1, <2>2 DEF Preflight
<1>3. CASE UsageRules(r)
  <2>1. CASE Pass(r, "route_ip")
    BY <2>1, PassType
  <2>2. CASE HasUsageRules(r)
    <3>1. usage' = [usage EXCEPT ![Ip(r)] = CountUpTo(@, UsageThreshold)]
      BY <1>3, <2>2 DEF UsageRules
    <3>2. usage' \in [Identities -> 0 .. UsageThreshold + 1]
      BY <3>1, CountUpToType, ShapeFacts, PipelineAssumption DEF TypeOK, ProcTypeOK
    <3>3. CASE Go(r, "route_ip") /\ UNCHANGED <<reqVars, outVars, returns, procBans, stageVars>>
      <4>1. pc' \in [Requests -> Labels]
        BY <3>3, GoType DEF TypeOK
      <4> QED
        BY <3>2, <3>3, <4>1 DEF TypeOK, ReqTypeOK, OutTypeOK, ProcTypeOK, StageTypeOK,
                                reqVars, outVars, stageVars
    <3>4. CASE /\ ProcessorBans(Ip(r)) /\ Answer(r, "usage_ban")
               /\ UNCHANGED <<reqVars, returns, window, violations>>
      <4>1. pc' \in [Requests -> Labels] /\ OutTypeOK'
        BY <3>4, AnswerToType DEF Answer, Answers
      <4>2. bans' \subseteq Ips /\ procBans' \subseteq Ips
        BY <3>4, ProcessorBansType
      <4> QED
        BY <3>2, <3>4, <4>1, <4>2 DEF TypeOK, ReqTypeOK, ProcTypeOK, StageTypeOK, reqVars
    <3> QED
      BY <1>3, <2>2, <3>3, <3>4 DEF UsageRules
  <2> QED
    BY <1>3, <2>1, <2>2 DEF UsageRules
<1>4. CASE RouteIp(r)
  <2>1. CASE Pass(r, "route_country")
    BY <2>1, PassType
  <2>2. CASE Refuse(r, "bad_route_ip") \/ Refuse(r, "route_ip")
    BY <2>2, RefuseType
  <2>3. CASE /\ skip' = IF "ip_whitelist" \in shape[r].route
                          THEN [skip EXCEPT ![r] = @ \cup {"ip_lists"}] ELSE skip
             /\ Go(r, "route_country")
             /\ UNCHANGED <<gate, body, verdict, outVars, procVars, stageVars>>
    <3>1. pc' \in [Requests -> Labels]
      BY <2>3, GoType DEF TypeOK
    <3>2. skip' \in [Requests -> SUBSET {"ip_lists", "countries"}]
      BY <2>3 DEF TypeOK, ReqTypeOK
    <3> QED
      BY <2>3, <3>1, <3>2 DEF TypeOK, ReqTypeOK, OutTypeOK, ProcTypeOK, StageTypeOK,
                              outVars, procVars, stageVars
  <2> QED
    BY <1>4, <2>1, <2>2, <2>3 DEF RouteIp
<1>5. CASE RouteCountries(r)
  <2>1. CASE Refuse(r, "route_country")
    BY <2>1, RefuseType
  <2>2. CASE ~Refuse(r, "route_country")
    <3>1. /\ Go(r, "ip_gate")
          /\ \/ skip' = [skip EXCEPT ![r] = @ \cup {"countries"}]
             \/ skip' = skip
          /\ UNCHANGED <<gate, body, verdict, outVars, procVars, stageVars>>
      BY <1>5, <2>2 DEF RouteCountries
    <3>2. pc' \in [Requests -> Labels]
      BY <3>1, GoType DEF TypeOK
    <3>3. skip' \in [Requests -> SUBSET {"ip_lists", "countries"}]
      BY <3>1 DEF TypeOK, ReqTypeOK
    <3> QED
      BY <3>1, <3>2, <3>3 DEF TypeOK, ReqTypeOK, OutTypeOK, ProcTypeOK, StageTypeOK,
                              outVars, procVars, stageVars
  <2> QED
    BY <2>1, <2>2
<1>6. CASE IpGate(r)
  <2>1. CASE Pass(r, "emergency")
    BY <2>1, PassType
  <2>2. CASE AnswerTo(r, "ip_gate", "respond_owned") /\ UNCHANGED <<reqVars, procVars, stageVars>>
    <3>1. pc' \in [Requests -> Labels] /\ OutTypeOK'
      BY <2>2, AnswerToType DEF Answers
    <3> QED
      BY <2>2, <3>1 DEF TypeOK, ReqTypeOK, ProcTypeOK, StageTypeOK,
                        reqVars, procVars, stageVars
  <2>3. CASE /\ gate' = [gate EXCEPT ![r] = Decision(Ip(r))]
             /\ Go(r, "emergency")
             /\ UNCHANGED <<skip, body, verdict, outVars, procVars, stageVars>>
    <3>1. pc' \in [Requests -> Labels]
      BY <2>3, GoType DEF TypeOK
    <3>2. Decision(Ip(r)) \in Decisions
      BY DEF Decision, Decisions, Skipping
    <3>3. gate' \in [Requests -> Decisions]
      BY <2>3, <3>2 DEF TypeOK, ReqTypeOK
    <3> QED
      BY <2>3, <3>1, <3>3 DEF TypeOK, ReqTypeOK, OutTypeOK, ProcTypeOK, StageTypeOK,
                              outVars, procVars, stageVars
  <2> QED
    BY <1>6, <2>1, <2>2, <2>3 DEF IpGate
<1>7. CASE Emergency(r)
  BY <1>7, CheckType DEF Emergency
<1>8. CASE HttpsRedirect(r)
  BY <1>8, CheckType DEF HttpsRedirect
<1> QED
  BY <1>1, <1>2, <1>3, <1>4, <1>5, <1>6, <1>7, <1>8

(* The body and the checks up to the scan keep every type.                 *)
LEMMA MiddleType ==
  ASSUME TypeOK, NEW r \in Requests, UNCHANGED shape,
         \/ BufferBody(r) \/ HeadersAuth(r) \/ Referrer(r) \/ CustomValidators(r)
         \/ TimeWindow(r) \/ Scan(r)
  PROVE  TypeOK'
<1> USE DEF Labels, Arms, Refusals, RouteConditions, StageConditions
<1>1. CASE BufferBody(r)
  <2>1. CASE Refuse(r, "too_large") \/ Refuse(r, "read_error")
    BY <2>1, RefuseType
  <2>2. CASE ~(Refuse(r, "too_large") \/ Refuse(r, "read_error"))
    <3>1. /\ \/ body' = [body EXCEPT ![r] = "held"]
             \/ body' = [body EXCEPT ![r] = "empty"]
          /\ Go(r, "headers")
          /\ UNCHANGED <<gate, skip, verdict, outVars, procVars, stageVars>>
      BY <1>1, <2>2 DEF BufferBody
    <3>2. pc' \in [Requests -> Labels]
      BY <3>1, GoType DEF TypeOK
    <3>3. body' \in [Requests -> {"unread", "empty", "held"}]
      BY <3>1 DEF TypeOK, ReqTypeOK
    <3> QED
      BY <3>1, <3>2, <3>3 DEF TypeOK, ReqTypeOK, OutTypeOK, ProcTypeOK, StageTypeOK,
                              outVars, procVars, stageVars
  <2> QED
    BY <2>1, <2>2
<1>2. CASE HeadersAuth(r)
  BY <1>2, RouteThenStageType DEF HeadersAuth
<1>3. CASE Referrer(r)
  BY <1>3, RouteThenStageType DEF Referrer
<1>4. CASE CustomValidators(r)
  BY <1>4, RouteThenStageType DEF CustomValidators
<1>5. CASE TimeWindow(r)
  BY <1>5, RouteThenStageType DEF TimeWindow
<1>6. CASE Scan(r)
  <2>1. CASE Refuse(r, "scan_failed")
    BY <2>1, RefuseType
  <2>2. CASE ~Refuse(r, "scan_failed")
    <3>1. /\ verdict' = [verdict EXCEPT ![r] = ~ScanSkipped(r) /\ "threat" \in shape[r].trips]
          /\ Go(r, "bans")
          /\ UNCHANGED <<gate, skip, body, outVars, procVars, stageVars>>
      BY <1>6, <2>2 DEF Scan
    <3>2. pc' \in [Requests -> Labels]
      BY <3>1, GoType DEF TypeOK
    <3>3. verdict' \in [Requests -> BOOLEAN]
      BY <3>1 DEF TypeOK, ReqTypeOK
    <3> QED
      BY <3>1, <3>2, <3>3 DEF TypeOK, ReqTypeOK, OutTypeOK, ProcTypeOK, StageTypeOK,
                              outVars, procVars, stageVars
  <2> QED
    BY <2>1, <2>2
<1> QED
  BY <1>1, <1>2, <1>3, <1>4, <1>5, <1>6

(* The arms over the stores keep every type.                               *)
LEMMA StoreArmsType ==
  ASSUME TypeOK, BansDue, NEW r \in Requests, UNCHANGED shape,
         \/ Bans(r) \/ GeoBlocking(r) \/ CloudProvider(r) \/ UserAgent(r)
         \/ RateTiers(r) \/ TierBan(r) \/ Feed(r) \/ FeedBan(r)
         \/ DetectionBlock(r) \/ CustomRequest(r)
  PROVE  TypeOK'
<1> USE DEF Labels, Arms, Refusals, RouteConditions, StageConditions
<1>1. CASE Bans(r)
  BY <1>1, PassType, RefuseType DEF Bans
<1>2. CASE GeoBlocking(r)
  BY <1>2, CheckType DEF GeoBlocking
<1>3. CASE CloudProvider(r)
  <2>1. CASE Refuse(r, "bad_cloud")
    BY <2>1, RefuseType
  <2>2. CASE Check(r, "cloud", "cloud",
                   Bypassed(r, "clouds") \/ StaleSkip(r) \/ ~Attributed(r), "user_agent")
    BY <2>2, CheckType
  <2> QED
    BY <1>3, <2>1, <2>2 DEF CloudProvider
<1>4. CASE UserAgent(r)
  <2>1. CASE Refuse(r, "bad_user_agent") \/ Pass(r, "tiers")
    BY <2>1, RefuseType, PassType
  <2>2. CASE RouteThenStage(r, "user_agent", "route_user_agent", "user_agent", "tiers")
    BY <2>2, RouteThenStageType
  <2> QED
    BY <1>4, <2>1, <2>2 DEF UserAgent
<1>5. CASE RateTiers(r)
  <2>1. CASE Refuse(r, "bad_tiers") \/ Refuse(r, "rate_limited")
    BY <2>1, RefuseType
  <2>2. CASE Pass(r, "detection") \/ Pass(r, "feed")
    BY <2>2, PassType
  <2>3. CASE /\ Limited(r) /\ RecordHit(Ip(r), r) /\ Go(r, "feed")
             /\ UNCHANGED <<reqVars, outVars, procVars, bans, violations>>
    <3>1. pc' \in [Requests -> Labels]
      BY <2>3, GoType DEF TypeOK
    <3>2. window' \in [Ips -> SUBSET Requests]
      BY <2>3, ShapeFacts DEF RecordHit, Limited, TypeOK, StageTypeOK
    <3> QED
      BY <2>3, <3>1, <3>2 DEF TypeOK, ReqTypeOK, OutTypeOK, ProcTypeOK, StageTypeOK,
                              reqVars, outVars, procVars
  <2>4. CASE /\ Limited(r)
             /\ CountViolation("rate_limit", Ip(r)) \/ UNCHANGED violations
             /\ \/ Go(r, "tier_ban") /\ UNCHANGED outVars
                \/ Answer(r, "rate_limited")
                \/ Go(r, "feed") /\ UNCHANGED outVars
             /\ UNCHANGED <<reqVars, procVars, bans, window>>
    <3>1. violations' \in [Kinds -> [Ips -> 0 .. BanThreshold]]
      BY <2>4, CountViolationType, ShapeFacts DEF Limited, TypeOK, StageTypeOK, Kinds
    <3>2. pc' \in [Requests -> Labels] /\ OutTypeOK'
      <4>1. CASE Answer(r, "rate_limited")
        BY <4>1, AnswerToType DEF Answer, Answers
      <4>2. CASE (Go(r, "tier_ban") \/ Go(r, "feed")) /\ UNCHANGED outVars
        <5>1. pc' \in [Requests -> Labels]
          BY <4>2, GoType DEF TypeOK
        <5> QED
          BY <4>2, <5>1 DEF TypeOK, OutTypeOK, outVars
      <4> QED
        BY <2>4, <4>1, <4>2
    <3> QED
      BY <2>4, <3>1, <3>2 DEF TypeOK, ReqTypeOK, ProcTypeOK, StageTypeOK, reqVars, procVars
  <2> QED
    BY <1>5, <2>1, <2>2, <2>3, <2>4 DEF RateTiers
<1>6. CASE TierBan(r) \/ FeedBan(r)
  <2>1. /\ Ban(Ip(r)) /\ (Answer(r, "rate_limited") \/ Answer(r, "activity_banned"))
        /\ UNCHANGED <<reqVars, procVars, window, violations>>
    BY <1>6 DEF TierBan, FeedBan
  <2>2. Attributed(r)
    BY <1>6 DEF TierBan, FeedBan, BansDue, Due
  <2>3. pc' \in [Requests -> Labels] /\ OutTypeOK'
    BY <2>1, AnswerToType DEF Answer, Answers
  <2>4. bans' \subseteq Ips
    BY <2>1, <2>2, ShapeFacts DEF Ban, TypeOK, StageTypeOK
  <2> QED
    BY <2>1, <2>3, <2>4 DEF TypeOK, ReqTypeOK, ProcTypeOK, StageTypeOK, reqVars, procVars
<1>7. CASE Feed(r)
  <2>1. violations' \in [Kinds -> [Ips -> 0 .. BanThreshold]]
    BY <1>7, CountViolationType, ShapeFacts DEF Feed, Counted, TypeOK, StageTypeOK, Kinds
  <2>2. pc' \in [Requests -> Labels]
    BY <1>7, GoType DEF Feed, TypeOK
  <2>3. hooks' \in [Requests -> Nat]
    <3>1. hooks' = hooks \/ hooks' = [hooks EXCEPT ![r] = @ + 1]
      BY <1>7 DEF Feed
    <3> QED
      BY <3>1 DEF TypeOK, OutTypeOK
  <2> QED
    BY <1>7, <2>1, <2>2, <2>3 DEF Feed, TypeOK, ReqTypeOK, OutTypeOK, ProcTypeOK,
                                  StageTypeOK, reqVars, procVars
<1>8. CASE DetectionBlock(r)
  BY <1>8, PassType, RefuseType DEF DetectionBlock
<1>9. CASE CustomRequest(r)
  BY <1>9, CheckType DEF CustomRequest
<1> QED
  BY <1>1, <1>2, <1>3, <1>4, <1>5, <1>6, <1>7, <1>8, <1>9

(* The response pass keeps every type it touches.                          *)
LEMMA ResponsePassType ==
  ASSUME TypeOK, NEW r \in Requests, ResponsePass(r)
  PROVE  OutTypeOK' /\ ProcTypeOK' /\ StageTypeOK'
<1>1. CASE ~Processor
  BY <1>1 DEF ResponsePass, TypeOK, OutTypeOK, ProcTypeOK, StageTypeOK,
              outVars, procVars, stageVars
<1>2. CASE Processor
  <2>1. /\ passes' = [passes EXCEPT ![r] = @ + 1]
        /\ UNCHANGED <<answer, hooks, inner, usage, window, violations>>
    BY <1>2 DEF ResponsePass
  <2>2. returns' \in [Identities -> 0 .. ReturnThreshold + 1]
    <3>1. \/ returns' = returns
          \/ returns' = [returns EXCEPT ![Ip(r)] = CountUpTo(@, ReturnThreshold)]
      BY <1>2 DEF ResponsePass
    <3>2. Ip(r) \in Identities /\ returns[Ip(r)] \in 0 .. ReturnThreshold + 1
      BY ShapeFacts DEF TypeOK, ProcTypeOK
    <3>3. CountUpTo(returns[Ip(r)], ReturnThreshold) \in 0 .. ReturnThreshold + 1
      BY <3>2, CountUpToType, PipelineAssumption
    <3> QED
      BY <3>1, <3>3 DEF TypeOK, ProcTypeOK
  <2>3. bans' \subseteq Ips /\ procBans' \subseteq Ips
    <3>1. UNCHANGED <<bans, procBans>> \/ ProcessorBans(Ip(r))
      BY <1>2 DEF ResponsePass
    <3> QED
      BY <3>1, ProcessorBansType DEF TypeOK, ProcTypeOK, StageTypeOK
  <2> QED
    BY <2>1, <2>2, <2>3 DEF TypeOK, OutTypeOK, ProcTypeOK, StageTypeOK
<1> QED
  BY <1>1, <1>2

(* The wrapped service, the response pass and a dropped future keep every  *)
(* type.                                                                   *)
LEMMA TailType ==
  ASSUME TypeOK, NEW r \in Requests, UNCHANGED shape,
         \/ CallInner(r) \/ InnerReturns(r) \/ RespondOwned(r) \/ Respond(r)
         \/ Disconnect(r)
  PROVE  TypeOK'
<1> USE DEF Labels
<1>1. CASE CallInner(r)
  <2>1. pc' \in [Requests -> Labels]
    BY <1>1, GoType DEF CallInner, TypeOK
  <2>2. inner' \in [Requests -> {"untouched", "empty", "body"}]
    BY <1>1 DEF CallInner, TypeOK, OutTypeOK
  <2> QED
    BY <1>1, <2>1, <2>2 DEF CallInner, TypeOK, ReqTypeOK, OutTypeOK, ProcTypeOK,
                            StageTypeOK, reqVars, procVars, stageVars
<1>2. CASE InnerReturns(r)
  <2>1. pc' \in [Requests -> Labels] /\ OutTypeOK'
    BY <1>2, AnswerToType DEF InnerReturns, Answers
  <2> QED
    BY <1>2, <2>1 DEF InnerReturns, TypeOK, ReqTypeOK, ProcTypeOK, StageTypeOK,
                      reqVars, procVars, stageVars
<1>3. CASE RespondOwned(r) \/ Respond(r)
  <2>1. pc' \in [Requests -> Labels]
    BY <1>3, GoType DEF RespondOwned, Respond, TypeOK
  <2>2. OutTypeOK' /\ ProcTypeOK' /\ StageTypeOK'
    BY <1>3, ResponsePassType DEF RespondOwned, Respond
  <2> QED
    BY <1>3, <2>1, <2>2 DEF RespondOwned, Respond, TypeOK, ReqTypeOK, reqVars
<1>4. CASE Disconnect(r)
  BY <1>4, PassType DEF Disconnect
<1> QED
  BY <1>1, <1>2, <1>3, <1>4

(* What happens out of band keeps every type.                              *)
LEMMA OutOfBandType == ASSUME TypeOK, OutOfBandStep, UNCHANGED shape PROVE TypeOK'
<1>1. StageTypeOK'
  <2>1. CASE Reset
    BY <2>1 DEF Reset, TypeOK, StageTypeOK
  <2>2. ASSUME NEW i \in Ips, OperatorBans(i) \/ BanLifts(i) PROVE StageTypeOK'
    BY <2>2 DEF OperatorBans, BanLifts, Ban, TypeOK, StageTypeOK
  <2>3. ASSUME NEW i \in Ips, WindowSlides(i) PROVE StageTypeOK'
    BY <2>3 DEF WindowSlides, TypeOK, StageTypeOK
  <2> QED
    BY <2>1, <2>2, <2>3 DEF OutOfBandStep, StageNext
<1> QED
  BY <1>1 DEF OutOfBandStep, TypeOK, ReqTypeOK, OutTypeOK, ProcTypeOK,
              reqVars, outVars, procVars

(* Every step of a request keeps every type.                               *)
LEMMA StepType ==
  ASSUME TypeOK, BansDue, NEW r \in Requests, Step(r), UNCHANGED shape
  PROVE  TypeOK'
  BY EarlyType, MiddleType, StoreArmsType, TailType DEF Step, Screens
-----------------------------------------------------------------------------
(* What the thirty actions of a request come to, for the invariants.       *)

\* No counter of a rule or of violations goes back.
CountersGrow ==
  /\ \A k \in Kinds, i \in Ips : violations'[k][i] >= violations[k][i]
  /\ \A i \in Identities : usage'[i] >= usage[i] /\ returns'[i] >= returns[i]

\* The ban check comes before the arms that follow it, unless excused.
Orderly(r, l) ==
  l \in Arms =>
    /\ pc[r] \notin BeforeBanCheck => l \notin BeforeBanCheck
    /\ pc[r] \in BeforeBanCheck /\ l \notin BeforeBanCheck =>
         ExcusedFromBans(r) \/ Ip(r) \notin bans

\* An arm lets the request on, to a ban only if the ban is due.
Onward(r) ==
  \E l \in Arms \cup {"dropped"} :
    /\ pc[r] \in Arms /\ Go(r, l) /\ Orderly(r, l)
    /\ UNCHANGED <<answer, inner, bans, procBans>>
    /\ l = "tier_ban" => Due(r, "rate_limit")'
    /\ l = "feed_ban" => Due(r, "threat")'

\* An arm answers: the stores hold what its answer rests on, and what it
\* bans is what its answer says.
Concludes(r) ==
  \E c \in Answers \ {"none"}, l \in {"respond_owned", "respond", "closed"} :
    /\ pc[r] \in Arms /\ AnswerTo(r, c, l)
    /\ OnRecord(r, c)
    /\ c = "banned" => UNCHANGED bans
    /\ \/ UNCHANGED <<bans, procBans>> /\ c \notin {"activity_banned", "usage_ban"}
       \/ /\ pc[r] \in {"tier_ban", "feed_ban"} /\ Ban(Ip(r))
          /\ UNCHANGED procBans /\ c # "usage_ban"
       \/ /\ ProcessorBans(Ip(r)) /\ usage'[Ip(r)] > UsageThreshold
          /\ c = "usage_ban"

\* The wrapped service is called, returns, or is abandoned.
Inner(r) ==
  /\ \/ /\ pc[r] = "forward" /\ Go(r, "inner") /\ UNCHANGED answer
        /\ \E b \in {"empty", "body"} : inner' = [inner EXCEPT ![r] = b]
     \/ /\ pc[r] = "inner"
        /\ \/ Go(r, "dropped") /\ UNCHANGED <<answer, inner>>
           \/ \E c \in {"inner", "inner_error"}, l \in {"respond", "closed"} :
                AnswerTo(r, c, l)
  /\ UNCHANGED <<bans, procBans>>

\* The response pass, which bans only past the return rule's threshold.
Responds(r) ==
  /\ \E l \in {"respond", "closed"} : Go(r, l)
  /\ pc[r] \in {"respond_owned", "respond"}
  /\ UNCHANGED <<answer, inner>>
  /\ \/ UNCHANGED <<bans, procBans>>
     \/ ProcessorBans(Ip(r)) /\ returns'[Ip(r)] > ReturnThreshold

Outline(r) == CountersGrow /\ (Onward(r) \/ Concludes(r) \/ Inner(r) \/ Responds(r))

(* Counters that do not change have not gone back.                         *)
LEMMA CountersStill ==
  ASSUME TypeOK, UNCHANGED <<usage, returns, violations>>
  PROVE  CountersGrow
<1>1. \A k \in Kinds, i \in Ips : violations[k][i] \in Nat
  BY StageAssumption DEF TypeOK, StageTypeOK
<1>2. \A i \in Identities : usage[i] \in Nat /\ returns[i] \in Nat
  BY PipelineAssumption DEF TypeOK, ProcTypeOK
<1> QED
  BY <1>1, <1>2 DEF CountersGrow

(* A pass keeps everything the invariants speak of but the pc.             *)
LEMMA PassOutline ==
  ASSUME TypeOK, NEW r \in Requests, pc[r] \in Arms,
         NEW l \in (Arms \ {"tier_ban", "feed_ban"}) \cup {"dropped"},
         Orderly(r, l), Pass(r, l)
  PROVE  Outline(r)
<1>1. CountersGrow
  BY CountersStill DEF Pass, procVars, stageVars
<1>2. Onward(r)
  BY DEF Onward, Pass, outVars, procVars, stageVars
<1> QED
  BY <1>1, <1>2 DEF Outline

\* The refusals that rest on what a store holds.
Recorded == {"banned", "usage_ban", "rate_limited", "activity_banned"}

(* A refusal that bans nothing.                                            *)
LEMMA RefuseOutline ==
  ASSUME TypeOK, NEW r \in Requests, pc[r] \in Arms,
         NEW c \in Refusals \ {"activity_banned", "usage_ban"}, Refuse(r, c),
         c = "banned" => LiveBan(Ip(r)),
         c = "rate_limited" => ~HasRoom(Ip(r))
  PROVE  Outline(r)
<1>1. CountersGrow
  BY CountersStill DEF Refuse, procVars, stageVars
<1>2. Concludes(r)
  <2>1. c \in Answers \ {"none"}
    BY DEF Answers, Refusals, RouteConditions, StageConditions
  <2> QED
    BY <2>1 DEF Concludes, OnRecord, Refuse, Answer, procVars, stageVars
<1> QED
  BY <1>1, <1>2 DEF Outline

(* An arm over one condition comes to a pass or a refusal.                 *)
LEMMA CheckOutline ==
  ASSUME TypeOK, NEW r \in Requests, NEW arm \in Arms, NEW excused,
         NEW c \in Refusals \ Recorded,
         NEW next \in Arms \ {"tier_ban", "feed_ban"},
         arm \in BeforeBanCheck <=> next \in BeforeBanCheck,
         Check(r, arm, c, excused, next)
  PROVE  Outline(r)
  BY PassOutline, RefuseOutline DEF Check, Orderly, Recorded

(* So does an arm of the route and its stage.                              *)
LEMMA RouteThenStageOutline ==
  ASSUME TypeOK, NEW r \in Requests, NEW arm \in Arms,
         NEW c \in Refusals \ Recorded,
         NEW d \in Refusals \ Recorded,
         NEW next \in Arms \ {"tier_ban", "feed_ban"},
         arm \in BeforeBanCheck <=> next \in BeforeBanCheck,
         RouteThenStage(r, arm, c, d, next)
  PROVE  Outline(r)
  BY PassOutline, RefuseOutline DEF RouteThenStage, Orderly, Recorded

(* Counting a violation raises it, and at the crossing to the threshold.   *)
LEMMA CountViolationGrows ==
  ASSUME TypeOK, NEW k \in Kinds, NEW i \in Ips, CountViolation(k, i)
  PROVE  /\ \A j \in Kinds, a \in Ips : violations'[j][a] >= violations[j][a]
         /\ Crosses(k, i) => violations'[k][i] = BanThreshold
<1>1. \A j \in Kinds, a \in Ips : violations[j][a] \in 0 .. BanThreshold
  BY DEF TypeOK, StageTypeOK
<1>2. violations' = [violations EXCEPT ![k] =
                       [violations[k] EXCEPT ![i] =
                          IF violations[k][i] < BanThreshold THEN violations[k][i] + 1
                          ELSE violations[k][i]]]
  BY DEF CountViolation, TypeOK, StageTypeOK
<1>3. violations'[k][i] = IF violations[k][i] < BanThreshold THEN violations[k][i] + 1
                          ELSE violations[k][i]
  BY <1>2 DEF TypeOK, StageTypeOK
<1>4. \A j \in Kinds, a \in Ips : j # k \/ a # i => violations'[j][a] = violations[j][a]
  BY <1>2 DEF TypeOK, StageTypeOK
<1>5. Crosses(k, i) => violations'[k][i] = BanThreshold
  BY <1>1, <1>3, StageAssumption DEF Crosses
<1>6. \A j \in Kinds, a \in Ips : violations'[j][a] >= violations[j][a]
  BY <1>1, <1>3, <1>4, StageAssumption
<1> QED
  BY <1>5, <1>6

(* Counting an observation of a rule raises its count, past the threshold  *)
(* when the observation goes past it.                                      *)
LEMMA CountUpToGrows ==
  ASSUME NEW t \in Nat, NEW n \in 0 .. t + 1
  PROVE  CountUpTo(n, t) >= n /\ (GoesPast(n, t) => CountUpTo(n, t) > t)
  BY DEF CountUpTo, GoesPast

(* The arms before the body come to their outline.                         *)
LEMMA EarlyOutline ==
  ASSUME TypeOK, NEW r \in Requests, UNCHANGED shape,
         \/ Exclude(r) \/ Preflight(r) \/ UsageRules(r) \/ RouteIp(r)
         \/ RouteCountries(r) \/ IpGate(r) \/ Emergency(r) \/ HttpsRedirect(r)
  PROVE  Outline(r)
<1> USE DEF Arms, Refusals, Recorded, RouteConditions, StageConditions, BeforeBanCheck
<1>1. CASE Exclude(r)
  BY <1>1, PassOutline DEF Exclude, Orderly, ExcusedFromBans
<1>2. CASE Preflight(r)
  <2>1. CASE Pass(r, "usage")
    BY <1>2, <2>1, PassOutline DEF Preflight, Orderly
  <2>2. CASE /\ AnswerTo(r, "preflight", "closed")
             /\ UNCHANGED <<reqVars, procVars, stageVars>>
    <3>1. CountersGrow
      BY <2>2, CountersStill DEF procVars, stageVars
    <3>2. Concludes(r)
      BY <1>2, <2>2 DEF Preflight, Concludes, OnRecord, Answers, procVars, stageVars
    <3> QED
      BY <3>1, <3>2 DEF Outline
  <2> QED
    BY <1>2, <2>1, <2>2 DEF Preflight
<1>3. CASE UsageRules(r)
  <2>1. CASE Pass(r, "route_ip")
    BY <1>3, <2>1, PassOutline DEF UsageRules, Orderly
  <2>2. CASE ~Pass(r, "route_ip")
    <3> DEFINE n == usage[Ip(r)]
    <3>1. /\ usage' = [usage EXCEPT ![Ip(r)] = CountUpTo(n, UsageThreshold)]
          /\ UNCHANGED <<returns, violations>>
      BY <1>3, <2>2 DEF UsageRules, stageVars
    <3>2. Ip(r) \in Identities /\ n \in 0 .. UsageThreshold + 1
      BY ShapeFacts DEF TypeOK, ProcTypeOK
    <3>3. /\ CountUpTo(n, UsageThreshold) >= n
          /\ GoesPast(n, UsageThreshold) => CountUpTo(n, UsageThreshold) > UsageThreshold
      BY <3>2, CountUpToGrows, PipelineAssumption
    <3>4. usage'[Ip(r)] = CountUpTo(n, UsageThreshold)
      BY <3>1, <3>2 DEF TypeOK, ProcTypeOK
    <3>5. CountersGrow
      <4>1. \A i \in Identities : usage'[i] >= usage[i]
        BY <3>1, <3>2, <3>3, PipelineAssumption DEF TypeOK, ProcTypeOK
      <4>2. \A i \in Identities : returns'[i] >= returns[i]
        BY <3>1, PipelineAssumption DEF TypeOK, ProcTypeOK
      <4>3. \A k \in Kinds, i \in Ips : violations'[k][i] >= violations[k][i]
        BY <3>1, StageAssumption DEF TypeOK, StageTypeOK
      <4> QED
        BY <4>1, <4>2, <4>3 DEF CountersGrow
    <3>6. CASE /\ Go(r, "route_ip")
               /\ UNCHANGED <<reqVars, outVars, returns, procBans, stageVars>>
      BY <1>3, <3>5, <3>6 DEF UsageRules, Outline, Onward, outVars, stageVars, Orderly
    <3>7. CASE /\ GoesPast(n, UsageThreshold) /\ ProcessorBans(Ip(r))
               /\ Answer(r, "usage_ban")
      <4>1. usage'[Ip(r)] > UsageThreshold
        BY <3>3, <3>4, <3>7
      <4>2. Concludes(r)
        BY <1>3, <3>7, <4>1 DEF UsageRules, Concludes, OnRecord, Answer, Answers
      <4> QED
        BY <3>5, <4>2 DEF Outline
    <3> QED
      BY <1>3, <2>2, <3>6, <3>7 DEF UsageRules
  <2> QED
    BY <2>1, <2>2
<1>4. CASE RouteIp(r)
  <2>1. CASE Pass(r, "route_country")
    BY <1>4, <2>1, PassOutline DEF RouteIp, Orderly
  <2>2. CASE Refuse(r, "bad_route_ip") \/ Refuse(r, "route_ip")
    BY <1>4, <2>2, RefuseOutline DEF RouteIp
  <2>3. CASE /\ Go(r, "route_country")
             /\ UNCHANGED <<outVars, procVars, stageVars>>
    <3>1. CountersGrow
      BY <2>3, CountersStill DEF procVars, stageVars
    <3>2. Onward(r)
      BY <1>4, <2>3 DEF RouteIp, Onward, outVars, procVars, stageVars, Orderly
    <3> QED
      BY <3>1, <3>2 DEF Outline
  <2> QED
    BY <1>4, <2>1, <2>2, <2>3 DEF RouteIp
<1>5. CASE RouteCountries(r)
  <2>1. CASE Refuse(r, "route_country")
    BY <1>5, <2>1, RefuseOutline DEF RouteCountries
  <2>2. CASE Go(r, "ip_gate") /\ UNCHANGED <<outVars, procVars, stageVars>>
    <3>1. CountersGrow
      BY <2>2, CountersStill DEF procVars, stageVars
    <3>2. Onward(r)
      BY <1>5, <2>2 DEF RouteCountries, Onward, outVars, procVars, stageVars, Orderly
    <3> QED
      BY <3>1, <3>2 DEF Outline
  <2> QED
    BY <1>5, <2>1, <2>2 DEF RouteCountries
<1>6. CASE IpGate(r)
  <2>1. CASE Pass(r, "emergency")
    BY <1>6, <2>1, PassOutline DEF IpGate, Orderly
  <2>2. CASE /\ AnswerTo(r, "ip_gate", "respond_owned")
             /\ UNCHANGED <<reqVars, procVars, stageVars>>
    <3>1. CountersGrow
      BY <2>2, CountersStill DEF procVars, stageVars
    <3>2. Concludes(r)
      BY <1>6, <2>2 DEF IpGate, Concludes, OnRecord, Answers, procVars, stageVars
    <3> QED
      BY <3>1, <3>2 DEF Outline
  <2>3. CASE Go(r, "emergency") /\ UNCHANGED <<outVars, procVars, stageVars>>
    <3>1. CountersGrow
      BY <2>3, CountersStill DEF procVars, stageVars
    <3>2. Onward(r)
      BY <1>6, <2>3 DEF IpGate, Onward, outVars, procVars, stageVars, Orderly
    <3> QED
      BY <3>1, <3>2 DEF Outline
  <2> QED
    BY <1>6, <2>1, <2>2, <2>3 DEF IpGate
<1>7. CASE Emergency(r)
  BY <1>7, CheckOutline DEF Emergency
<1>8. CASE HttpsRedirect(r)
  BY <1>8, CheckOutline DEF HttpsRedirect
<1> QED
  BY <1>1, <1>2, <1>3, <1>4, <1>5, <1>6, <1>7, <1>8

(* The body and the checks up to the scan come to their outline.           *)
LEMMA MiddleOutline ==
  ASSUME TypeOK, NEW r \in Requests, UNCHANGED shape,
         \/ BufferBody(r) \/ HeadersAuth(r) \/ Referrer(r) \/ CustomValidators(r)
         \/ TimeWindow(r) \/ Scan(r)
  PROVE  Outline(r)
<1> USE DEF Arms, Refusals, Recorded, RouteConditions, StageConditions, BeforeBanCheck
<1>1. CASE BufferBody(r)
  <2>1. CASE Refuse(r, "too_large") \/ Refuse(r, "read_error")
    BY <1>1, <2>1, RefuseOutline DEF BufferBody
  <2>2. CASE Go(r, "headers") /\ UNCHANGED <<outVars, procVars, stageVars>>
    <3>1. CountersGrow
      BY <2>2, CountersStill DEF procVars, stageVars
    <3>2. Onward(r)
      BY <1>1, <2>2 DEF BufferBody, Onward, outVars, procVars, stageVars, Orderly
    <3> QED
      BY <3>1, <3>2 DEF Outline
  <2> QED
    BY <1>1, <2>1, <2>2 DEF BufferBody
<1>2. CASE HeadersAuth(r)
  BY <1>2, RouteThenStageOutline DEF HeadersAuth
<1>3. CASE Referrer(r)
  BY <1>3, RouteThenStageOutline DEF Referrer
<1>4. CASE CustomValidators(r)
  BY <1>4, RouteThenStageOutline DEF CustomValidators
<1>5. CASE TimeWindow(r)
  BY <1>5, RouteThenStageOutline DEF TimeWindow
<1>6. CASE Scan(r)
  <2>1. CASE Refuse(r, "scan_failed")
    BY <1>6, <2>1, RefuseOutline DEF Scan
  <2>2. CASE Go(r, "bans") /\ UNCHANGED <<outVars, procVars, stageVars>>
    <3>1. CountersGrow
      BY <2>2, CountersStill DEF procVars, stageVars
    <3>2. Onward(r)
      BY <1>6, <2>2 DEF Scan, Onward, outVars, procVars, stageVars, Orderly
    <3> QED
      BY <3>1, <3>2 DEF Outline
  <2> QED
    BY <1>6, <2>1, <2>2 DEF Scan
<1> QED
  BY <1>1, <1>2, <1>3, <1>4, <1>5, <1>6

(* The arms over the stores come to their outline: a ban is due when it is *)
(* made, since its violation was counted in the step before.               *)
LEMMA StoreArmsOutline ==
  ASSUME TypeOK, BansDue, NEW r \in Requests, UNCHANGED shape,
         \/ Bans(r) \/ GeoBlocking(r) \/ CloudProvider(r) \/ UserAgent(r)
         \/ RateTiers(r) \/ TierBan(r) \/ Feed(r) \/ FeedBan(r)
         \/ DetectionBlock(r) \/ CustomRequest(r)
  PROVE  Outline(r)
<1> USE DEF Arms, Refusals, Recorded, RouteConditions, StageConditions, BeforeBanCheck
<1>1. CASE Bans(r)
  BY <1>1, PassOutline, RefuseOutline DEF Bans, Orderly, ExcusedFromBans, LiveBan
<1>2. CASE GeoBlocking(r)
  BY <1>2, CheckOutline DEF GeoBlocking
<1>3. CASE CloudProvider(r)
  <2>1. CASE Refuse(r, "bad_cloud")
    BY <1>3, <2>1, RefuseOutline DEF CloudProvider
  <2>2. CASE Check(r, "cloud", "cloud",
                   Bypassed(r, "clouds") \/ StaleSkip(r) \/ ~Attributed(r), "user_agent")
    BY <2>2, CheckOutline
  <2> QED
    BY <1>3, <2>1, <2>2 DEF CloudProvider
<1>4. CASE UserAgent(r)
  <2>1. CASE Refuse(r, "bad_user_agent") \/ Pass(r, "tiers")
    BY <1>4, <2>1, RefuseOutline, PassOutline DEF UserAgent, Orderly
  <2>2. CASE RouteThenStage(r, "user_agent", "route_user_agent", "user_agent", "tiers")
    BY <2>2, RouteThenStageOutline
  <2> QED
    BY <1>4, <2>1, <2>2 DEF UserAgent
<1>5. CASE RateTiers(r)
  <2> DEFINE ip == Ip(r)
  <2>1. CASE Refuse(r, "bad_tiers") \/ (Refuse(r, "rate_limited") /\ ~HasRoom(ip))
    BY <1>5, <2>1, RefuseOutline DEF RateTiers
  <2>2. CASE Pass(r, "detection") \/ Pass(r, "feed")
    BY <1>5, <2>2, PassOutline DEF RateTiers, Orderly
  <2>3. CASE /\ Go(r, "feed")
             /\ UNCHANGED <<reqVars, outVars, procVars, bans, violations>>
    <3>1. CountersGrow
      BY <2>3, CountersStill DEF procVars
    <3>2. Onward(r)
      BY <1>5, <2>3 DEF RateTiers, Onward, outVars, procVars, Orderly
    <3> QED
      BY <3>1, <3>2 DEF Outline
  <2>4. CASE /\ Limited(r) /\ CountViolation("rate_limit", ip)
             /\ UNCHANGED <<reqVars, procVars, bans, window>>
             /\ \/ /\ Crosses("rate_limit", ip) /\ BanningEnabled /\ ~Passive(r)
                   /\ Go(r, "tier_ban") /\ UNCHANGED outVars
                \/ Answer(r, "rate_limited") /\ ~HasRoom(ip)
                \/ Go(r, "feed") /\ UNCHANGED outVars
    <3>1. ip \in Ips /\ "rate_limit" \in Kinds
      BY <2>4, ShapeFacts DEF Limited, Kinds
    <3>2. /\ \A j \in Kinds, a \in Ips : violations'[j][a] >= violations[j][a]
          /\ Crosses("rate_limit", ip) => violations'["rate_limit"][ip] = BanThreshold
      BY <2>4, <3>1, CountViolationGrows
    <3>3. CountersGrow
      BY <2>4, <3>2, PipelineAssumption DEF CountersGrow, procVars, TypeOK, ProcTypeOK
    <3>4. CASE /\ Crosses("rate_limit", ip) /\ BanningEnabled /\ ~Passive(r)
               /\ Go(r, "tier_ban") /\ UNCHANGED outVars
      <4>1. Due(r, "rate_limit")'
        BY <2>4, <3>2, <3>4 DEF Due, Attributed, Ip, Limited, Passive
      <4> QED
        BY <1>5, <2>4, <3>3, <3>4, <4>1 DEF RateTiers, Outline, Onward, outVars, procVars, Orderly
    <3>5. CASE Answer(r, "rate_limited") /\ ~HasRoom(ip)
      <4>1. pc[r] \in Arms
        BY <1>5 DEF RateTiers
      <4>2. Concludes(r)
        BY <2>4, <3>5, <4>1 DEF Concludes, OnRecord, Answer, Answers, procVars
      <4> QED
        BY <3>3, <4>2 DEF Outline
    <3>6. CASE Go(r, "feed") /\ UNCHANGED outVars
      BY <1>5, <2>4, <3>3, <3>6 DEF RateTiers, Outline, Onward, outVars, procVars, Orderly
    <3> QED
      BY <2>4, <3>4, <3>5, <3>6
  <2> QED
    BY <1>5, <2>1, <2>2, <2>3, <2>4 DEF RateTiers
<1>6. CASE TierBan(r) \/ FeedBan(r)
  <2>1. CountersGrow
    BY <1>6, CountersStill DEF TierBan, FeedBan, procVars
  <2>2. /\ pc[r] = "tier_ban" => OnRecord(r, "rate_limited")
        /\ pc[r] = "feed_ban" => OnRecord(r, "activity_banned")
    BY DEF OnRecord, BansDue
  <2>3. PICK c \in {"rate_limited", "activity_banned"} :
          /\ pc[r] \in {"tier_ban", "feed_ban"} /\ OnRecord(r, c)
          /\ AnswerTo(r, c, "respond") /\ Ban(Ip(r)) /\ UNCHANGED procBans
    BY <1>6, <2>2 DEF TierBan, FeedBan, Answer, procVars
  <2>4. c \in Answers \ {"none"} /\ c # "usage_ban" /\ c # "banned"
    BY DEF Answers
  <2>5. Concludes(r)
    BY <2>3, <2>4 DEF Concludes
  <2> QED
    BY <2>1, <2>5 DEF Outline
<1>7. CASE Feed(r)
  <2>1. CountersGrow
    <3>1. CASE Counted(r)
      <4>1. Ip(r) \in Ips /\ "threat" \in Kinds /\ CountViolation("threat", Ip(r))
        BY <1>7, <3>1, ShapeFacts DEF Feed, Counted, Kinds
      <4>2. \A j \in Kinds, a \in Ips : violations'[j][a] >= violations[j][a]
        BY <4>1, CountViolationGrows
      <4> QED
        BY <1>7, <4>2, PipelineAssumption DEF Feed, CountersGrow, procVars, TypeOK, ProcTypeOK
    <3>2. CASE ~Counted(r)
      BY <1>7, <3>2, CountersStill DEF Feed, procVars
    <3> QED
      BY <3>1, <3>2
  <2>2. CASE BansNow(r)
    <3>1. Ip(r) \in Ips /\ "threat" \in Kinds /\ CountViolation("threat", Ip(r))
      BY <1>7, <2>2, ShapeFacts DEF Feed, BansNow, Counted, Kinds
    <3>2. violations'["threat"][Ip(r)] = BanThreshold
      BY <2>2, <3>1, CountViolationGrows DEF BansNow
    <3>3. Due(r, "threat")'
      BY <2>2, <3>2 DEF Due, Attributed, Ip, BansNow, Counted, Passive
    <3> QED
      BY <1>7, <2>1, <2>2, <3>3 DEF Feed, Outline, Onward, procVars, Orderly
  <2>3. CASE ~BansNow(r)
    BY <1>7, <2>1, <2>3 DEF Feed, Outline, Onward, procVars, Orderly
  <2> QED
    BY <2>2, <2>3
<1>8. CASE DetectionBlock(r)
  BY <1>8, PassOutline, RefuseOutline DEF DetectionBlock, Orderly
<1>9. CASE CustomRequest(r)
  <2>1. Check(r, "custom", "custom_request", FALSE, "forward")
    BY <1>9 DEF CustomRequest
  <2>2. "custom" \in Arms /\ "forward" \in Arms \ {"tier_ban", "feed_ban"}
    OBVIOUS
  <2>3. "custom" \in BeforeBanCheck <=> "forward" \in BeforeBanCheck
    OBVIOUS
  <2>4. "custom_request" \in Refusals \ Recorded
    OBVIOUS
  <2> QED
    BY <2>1, <2>2, <2>3, <2>4, CheckOutline
<1> QED
  BY <1>1, <1>2, <1>3, <1>4, <1>5, <1>6, <1>7, <1>8, <1>9

(* The response pass counts an answer and bans past the threshold only.    *)
LEMMA ResponsePassOutline ==
  ASSUME TypeOK, NEW r \in Requests, ResponsePass(r)
  PROVE  /\ CountersGrow
         /\ UNCHANGED <<answer, inner>>
         /\ \/ UNCHANGED <<bans, procBans>>
            \/ ProcessorBans(Ip(r)) /\ returns'[Ip(r)] > ReturnThreshold
<1>1. CASE UNCHANGED <<returns, usage, violations, answer, inner, bans, procBans>>
  BY <1>1, CountersStill
<1>2. CASE ~UNCHANGED <<returns, usage, violations, answer, inner, bans, procBans>>
  <2> DEFINE n == returns[Ip(r)]
  <2>1. /\ returns' = [returns EXCEPT ![Ip(r)] = CountUpTo(n, ReturnThreshold)]
        /\ UNCHANGED <<answer, inner, usage, violations>>
        /\ \/ UNCHANGED <<bans, procBans>>
           \/ GoesPast(n, ReturnThreshold) /\ ProcessorBans(Ip(r))
    BY <1>2 DEF ResponsePass, outVars, procVars, stageVars
  <2>2. Ip(r) \in Identities /\ n \in 0 .. ReturnThreshold + 1
    BY ShapeFacts DEF TypeOK, ProcTypeOK
  <2>3. /\ CountUpTo(n, ReturnThreshold) >= n
        /\ GoesPast(n, ReturnThreshold) => CountUpTo(n, ReturnThreshold) > ReturnThreshold
    BY <2>2, CountUpToGrows, PipelineAssumption
  <2>4. returns'[Ip(r)] = CountUpTo(n, ReturnThreshold)
    BY <2>1, <2>2 DEF TypeOK, ProcTypeOK
  <2>5. \A i \in Identities : returns'[i] >= returns[i]
    BY <2>1, <2>2, <2>3, PipelineAssumption DEF TypeOK, ProcTypeOK
  <2>6. \A i \in Identities : usage'[i] >= usage[i]
    BY <2>1, PipelineAssumption DEF TypeOK, ProcTypeOK
  <2>7. \A k \in Kinds, i \in Ips : violations'[k][i] >= violations[k][i]
    BY <2>1, StageAssumption DEF TypeOK, StageTypeOK
  <2> QED
    BY <2>1, <2>3, <2>4, <2>5, <2>6, <2>7 DEF CountersGrow
<1> QED
  BY <1>1, <1>2

(* The wrapped service, the response pass and a dropped future come to     *)
(* their outline.                                                          *)
LEMMA TailOutline ==
  ASSUME TypeOK, NEW r \in Requests,
         \/ CallInner(r) \/ InnerReturns(r) \/ RespondOwned(r) \/ Respond(r)
         \/ Disconnect(r)
  PROVE  Outline(r)
<1>1. CASE CallInner(r)
  <2>1. CountersGrow
    BY <1>1, CountersStill DEF CallInner, procVars, stageVars
  <2>2. Inner(r)
    BY <1>1 DEF CallInner, Inner, procVars, stageVars
  <2> QED
    BY <2>1, <2>2 DEF Outline
<1>2. CASE InnerReturns(r)
  <2>1. CountersGrow
    BY <1>2, CountersStill DEF InnerReturns, procVars, stageVars
  <2>2. Inner(r)
    BY <1>2 DEF InnerReturns, Inner, procVars, stageVars
  <2> QED
    BY <2>1, <2>2 DEF Outline
<1>3. CASE RespondOwned(r) \/ Respond(r)
  BY <1>3, ResponsePassOutline DEF RespondOwned, Respond, Responds, Outline
<1>4. CASE Disconnect(r)
  <2>1. CASE pc[r] = "body"
    BY <1>4, <2>1, PassOutline DEF Disconnect, Orderly, Arms
  <2>2. CASE pc[r] = "inner"
    <3>1. CountersGrow
      BY <1>4, CountersStill DEF Disconnect, Pass, procVars, stageVars
    <3>2. Inner(r)
      BY <1>4, <2>2 DEF Disconnect, Pass, Inner, outVars, procVars, stageVars
    <3> QED
      BY <3>1, <3>2 DEF Outline
  <2> QED
    BY <1>4, <2>1, <2>2 DEF Disconnect
<1> QED
  BY <1>1, <1>2, <1>3, <1>4

(* Every step of a request comes to its outline.                           *)
LEMMA StepOutline ==
  ASSUME TypeOK, BansDue, NEW r \in Requests, Step(r), UNCHANGED shape
  PROVE  Outline(r)
  BY EarlyOutline, MiddleOutline, StoreArmsOutline, TailOutline DEF Step, Screens
-----------------------------------------------------------------------------
(* The inductive invariant.                                                *)

IInv == TypeOK /\ BansDue /\ BansAreEarned /\ AnnouncedBansHold /\ Undecided

(* A step moves the pc of its own request and of no other.                 *)
LEMMA GoMoves ==
  ASSUME TypeOK, NEW r \in Requests, NEW l, Go(r, l)
  PROVE  pc'[r] = l /\ \A q \in Requests \ {r} : pc'[q] = pc[q]
  BY DEF Go, TypeOK

(* An answer is recorded for its own request and for no other.             *)
LEMMA AnswerMoves ==
  ASSUME TypeOK, NEW r \in Requests, NEW c, NEW l, AnswerTo(r, c, l)
  PROVE  /\ pc'[r] = l /\ \A q \in Requests \ {r} : pc'[q] = pc[q]
         /\ answer'[r] = c /\ \A q \in Requests \ {r} : answer'[q] = answer[q]
         /\ inner' = inner
  BY GoMoves DEF AnswerTo, TypeOK, OutTypeOK

(* A violation at the threshold stays there while no counter goes back.    *)
LEMMA ThresholdStays ==
  ASSUME TypeOK, TypeOK', CountersGrow, NEW k \in Kinds, NEW i \in Ips,
         violations[k][i] = BanThreshold
  PROVE  violations'[k][i] = BanThreshold
<1>1. violations'[k][i] >= BanThreshold
  BY DEF CountersGrow
<1>2. violations'[k][i] \in 0 .. BanThreshold
  BY DEF TypeOK, StageTypeOK
<1> QED
  BY <1>1, <1>2, StageAssumption

(* A ban an address has earned stays earned.                               *)
LEMMA EarnedStays ==
  ASSUME TypeOK, TypeOK', CountersGrow, UNCHANGED shape, NEW i \in Ips
  PROVE  /\ Earned(i) => Earned(i)'
         /\ RuleEarned(i) => RuleEarned(i)'
<1>1. ASSUME Earned(i) PROVE Earned(i)'
  <2>1. \E r \in Requests : Ip(r)' = i /\ ~Passive(r)'
    BY <1>1 DEF Earned, Ip, Passive
  <2>2. \E k \in Kinds : violations'[k][i] = BanThreshold
    BY <1>1, ThresholdStays DEF Earned
  <2> QED
    BY <1>1, <2>1, <2>2 DEF Earned
<1>2. ASSUME RuleEarned(i) PROVE RuleEarned(i)'
  <2>1. i \in Identities
    BY DEF Identities
  <2>2. usage[i] \in Nat /\ usage'[i] \in Nat /\ returns[i] \in Nat /\ returns'[i] \in Nat
    BY <2>1, PipelineAssumption DEF TypeOK, ProcTypeOK
  <2>3. usage'[i] >= usage[i] /\ returns'[i] >= returns[i]
    BY <2>1 DEF CountersGrow
  <2> QED
    BY <1>2, <2>2, <2>3, PipelineAssumption DEF RuleEarned
<1> QED
  BY <1>1, <1>2

(* The ban a request is about to make is still due when its turn comes.    *)
LEMMA BansDuePreserved ==
  ASSUME IInv, TypeOK', NEW r \in Requests, Outline(r), UNCHANGED shape
  PROVE  BansDue'
<1>1. \E l \in Labels : /\ Go(r, l)
                        /\ l = "tier_ban" => Due(r, "rate_limit")'
                        /\ l = "feed_ban" => Due(r, "threat")'
  BY DEF Outline, Onward, Concludes, Inner, Responds, AnswerTo, Labels
<1>2. PICK l \in Labels : /\ Go(r, l)
                          /\ l = "tier_ban" => Due(r, "rate_limit")'
                          /\ l = "feed_ban" => Due(r, "threat")'
  BY <1>1
<1>3. pc'[r] = l /\ \A q \in Requests \ {r} : pc'[q] = pc[q]
  BY <1>2, GoMoves DEF IInv
<1>4. ASSUME NEW q \in Requests, NEW k \in Kinds, Due(q, k) PROVE Due(q, k)'
  <2>1. Ip(q) \in Ips /\ violations[k][Ip(q)] = BanThreshold
    BY <1>4, ShapeFacts DEF Due, IInv
  <2>2. violations'[k][Ip(q)] = BanThreshold
    BY <2>1, ThresholdStays DEF IInv, Outline
  <2> QED
    BY <1>4, <2>2 DEF Due, Attributed, Ip, Passive
<1> QED
  BY <1>2, <1>3, <1>4 DEF BansDue, IInv, Kinds

(* Nothing a request does unbans an address; what it bans is its own, and  *)
(* earned.                                                                 *)
LEMMA BansOutline ==
  ASSUME IInv, TypeOK', NEW r \in Requests, Outline(r), UNCHANGED shape
  PROVE  /\ bans \subseteq bans' /\ procBans \subseteq procBans'
         /\ \A i \in bans' \ bans : Earned(i)' \/ (SharedBans /\ RuleEarned(i)')
         /\ \A i \in procBans' \ procBans : RuleEarned(i)'
<1>1. CASE UNCHANGED <<bans, procBans>>
  BY <1>1
<1>2. CASE /\ pc[r] \in {"tier_ban", "feed_ban"} /\ Ban(Ip(r)) /\ UNCHANGED procBans
  <2>1. \E k \in Kinds : Due(r, k)
    BY <1>2 DEF IInv, BansDue, Kinds
  <2>2. Ip(r) \in Ips /\ Earned(Ip(r))
    BY <2>1, ShapeFacts DEF Due, Earned, IInv
  <2>3. Earned(Ip(r))'
    BY <2>2, EarnedStays DEF IInv, Outline, Earned, Ip
  <2>4. Ip(r)' = Ip(r)
    BY DEF Ip
  <2> QED
    BY <1>2, <2>3, <2>4 DEF Ban, Earned
<1>3. CASE /\ ProcessorBans(Ip(r))
           /\ usage'[Ip(r)] > UsageThreshold \/ returns'[Ip(r)] > ReturnThreshold
  BY <1>3 DEF ProcessorBans, Ban, RuleEarned
<1> QED
  BY <1>1, <1>2, <1>3 DEF Outline, Onward, Concludes, Inner, Responds

(* Every ban stays earned.                                                 *)
LEMMA BansAreEarnedPreserved ==
  ASSUME IInv, TypeOK', NEW r \in Requests, Outline(r), UNCHANGED shape
  PROVE  BansAreEarned'
<1>1. bans \subseteq Ips /\ procBans \subseteq Ips
  BY DEF IInv, TypeOK, StageTypeOK, ProcTypeOK
<1>2. \A i \in bans :
        "ban" \in Environment \/ Earned(i)' \/ (SharedBans /\ RuleEarned(i)')
  BY <1>1, EarnedStays DEF IInv, BansAreEarned, Outline
<1>3. \A i \in procBans : RuleEarned(i)'
  BY <1>1, EarnedStays DEF IInv, BansAreEarned, Outline
<1> QED
  BY <1>2, <1>3, BansOutline DEF BansAreEarned

(* An answer announces a ban in the step that makes it.                    *)
LEMMA AnnouncedBansPreserved ==
  ASSUME IInv, TypeOK', NEW r \in Requests, Outline(r), UNCHANGED shape
  PROVE  AnnouncedBansHold'
<1> SUFFICES ASSUME "lift" \notin Environment, NEW q \in Requests
             PROVE  /\ answer'[q] = "activity_banned" => Ip(q) \in bans'
                    /\ answer'[q] = "usage_ban" /\ Attributed(q) =>
                         Ip(q) \in (IF SharedBans THEN bans' ELSE procBans')
  BY DEF AnnouncedBansHold, Ip, Attributed
<1>1. bans \subseteq bans' /\ procBans \subseteq procBans'
  BY BansOutline
<1>2. /\ answer[q] = "activity_banned" => Ip(q) \in bans
      /\ answer[q] = "usage_ban" /\ Attributed(q) =>
           Ip(q) \in (IF SharedBans THEN bans ELSE procBans)
  BY DEF IInv, AnnouncedBansHold
<1>3. CASE answer'[q] = answer[q]
  BY <1>1, <1>2, <1>3
<1>4. CASE answer'[q] # answer[q]
  <2>1. PICK c \in Answers, l \in Labels : AnswerTo(r, c, l) /\ (Concludes(r) \/ Inner(r))
    BY <1>4 DEF Outline, Onward, Concludes, Inner, Responds, Labels, Answers
  <2>2. q = r /\ answer'[q] = c
    BY <1>4, <2>1, AnswerMoves DEF IInv
  <2>3. CASE Inner(r)
    <3>1. c \in {"inner", "inner_error"}
      <4>1. CASE UNCHANGED answer
        BY <1>4, <4>1
      <4>2. ASSUME NEW d \in {"inner", "inner_error"}, NEW m \in {"respond", "closed"},
                   AnswerTo(r, d, m)
            PROVE  c \in {"inner", "inner_error"}
        BY <2>2, <4>2, AnswerMoves DEF IInv
      <4> QED
        BY <2>3, <4>1, <4>2 DEF Inner
    <3> QED
      BY <2>2, <3>1
  <2>4. CASE Concludes(r)
    <3>1. PICK d \in Answers \ {"none"}, m \in {"respond_owned", "respond", "closed"} :
            /\ AnswerTo(r, d, m)
            /\ \/ UNCHANGED <<bans, procBans>> /\ d \notin {"activity_banned", "usage_ban"}
               \/ Ban(Ip(r)) /\ d # "usage_ban"
               \/ ProcessorBans(Ip(r)) /\ d = "usage_ban"
      BY <2>4 DEF Concludes
    <3>2. answer'[q] = d
      BY <2>2, <3>1, AnswerMoves DEF IInv
    <3> QED
      BY <2>2, <3>1, <3>2 DEF Ban, ProcessorBans, Attributed
  <2> QED
    BY <2>1, <2>3, <2>4
<1> QED
  BY <1>3, <1>4

(* A request is answered and forwarded only as it leaves the arms.         *)
LEMMA UndecidedPreserved ==
  ASSUME IInv, TypeOK', NEW r \in Requests, Outline(r), UNCHANGED shape
  PROVE  Undecided'
<1>1. CASE Onward(r)
  <2>1. PICK l \in Arms \cup {"dropped"} :
          pc[r] \in Arms /\ Go(r, l) /\ UNCHANGED <<answer, inner>>
    BY <1>1 DEF Onward
  <2>2. pc'[r] = l /\ \A q \in Requests \ {r} : pc'[q] = pc[q]
    BY <2>1, GoMoves DEF IInv
  <2> QED
    BY <2>1, <2>2 DEF IInv, Undecided, Forwarded
<1>2. CASE \E c \in Answers, l \in {"respond_owned", "respond", "closed"} : AnswerTo(r, c, l)
  <2>1. PICK c \in Answers, l \in {"respond_owned", "respond", "closed"} : AnswerTo(r, c, l)
    BY <1>2
  <2>2. l \notin Arms \cup {"inner"}
    BY DEF Arms
  <2> QED
    BY <2>1, <2>2, AnswerMoves DEF IInv, Undecided, Forwarded
<1>3. CASE Inner(r) /\ Go(r, "inner")
  <2>1. pc'[r] = "inner" /\ \A q \in Requests \ {r} : pc'[q] = pc[q]
    BY <1>3, GoMoves DEF IInv
  <2>2. pc[r] = "forward" /\ UNCHANGED answer /\ \E b : inner' = [inner EXCEPT ![r] = b]
    BY <1>3, <2>1 DEF Inner, AnswerTo, Go, IInv, TypeOK
  <2>3. \A q \in Requests \ {r} : inner'[q] = inner[q]
    BY <2>2 DEF IInv, TypeOK, OutTypeOK
  <2> QED
    BY <2>1, <2>2, <2>3 DEF IInv, Undecided, Forwarded, Arms
<1>4. CASE \E l \in {"respond", "closed", "dropped"} : Go(r, l) /\ UNCHANGED <<answer, inner>>
  <2>1. PICK l \in {"respond", "closed", "dropped"} : Go(r, l) /\ UNCHANGED <<answer, inner>>
    BY <1>4
  <2>2. l \notin Arms \cup {"inner"}
    BY DEF Arms
  <2>3. pc'[r] = l /\ \A q \in Requests \ {r} : pc'[q] = pc[q]
    BY <2>1, GoMoves DEF IInv
  <2> QED
    BY <2>1, <2>2, <2>3 DEF IInv, Undecided, Forwarded
<1>5. Concludes(r) => \E c \in Answers, l \in {"respond_owned", "respond", "closed"} :
                        AnswerTo(r, c, l)
  BY DEF Concludes
<1>6. Inner(r) => \/ Go(r, "inner")
                  \/ Go(r, "dropped") /\ UNCHANGED <<answer, inner>>
                  \/ \E c \in Answers, l \in {"respond_owned", "respond", "closed"} :
                       AnswerTo(r, c, l)
  BY DEF Inner, Answers
<1>7. Responds(r) => \E l \in {"respond", "closed", "dropped"} :
                       Go(r, l) /\ UNCHANGED <<answer, inner>>
  BY DEF Responds
<1> QED
  BY <1>1, <1>2, <1>3, <1>4, <1>5, <1>6, <1>7 DEF Outline

(* What happens out of band keeps the invariant: only an operator bans.    *)
LEMMA OutOfBandPreserved ==
  ASSUME IInv, OutOfBandStep, UNCHANGED shape
  PROVE  IInv'
<1>1. TypeOK'
  BY OutOfBandType DEF IInv
<1>2. /\ UNCHANGED <<pc, answer, inner, usage, returns, procBans, violations>>
      /\ "lift" \notin Environment => bans \subseteq bans'
      /\ "ban" \notin Environment => bans' \subseteq bans
  BY DEF OutOfBandStep, StageNext, Reset, OperatorBans, BanLifts, WindowSlides, Ban,
         outVars, procVars
<1>3. BansDue'
  BY <1>2 DEF IInv, BansDue, Due, Attributed, Ip, Passive
<1>4. BansAreEarned'
  BY <1>2 DEF IInv, BansAreEarned, Earned, RuleEarned, Ip, Passive
<1>5. AnnouncedBansHold'
  BY <1>2 DEF IInv, AnnouncedBansHold, Attributed, Ip
<1>6. Undecided'
  BY <1>2 DEF IInv, Undecided, Forwarded
<1> QED
  BY <1>1, <1>3, <1>4, <1>5, <1>6 DEF IInv

(* The invariant holds at first and every step keeps it.                   *)
LEMMA Inductive == Spec => []IInv
<1>1. Init => IInv
  <2> SUFFICES ASSUME Init PROVE IInv
    OBVIOUS
  <2>1. TypeOK
    BY InitType
  <2> QED
    BY <2>1 DEF Init, StageInit, IInv, BansDue, BansAreEarned, AnnouncedBansHold,
                Undecided, Forwarded, Arms
<1>2. IInv /\ [Next]_vars => IInv'
  <2> SUFFICES ASSUME IInv, [Next]_vars PROVE IInv'
    OBVIOUS
  <2>1. ASSUME NEW r \in Requests, Step(r), UNCHANGED shape PROVE IInv'
    <3>1. TypeOK' /\ Outline(r)
      BY <2>1, StepType, StepOutline DEF IInv
    <3> QED
      BY <2>1, <3>1, BansDuePreserved, BansAreEarnedPreserved, AnnouncedBansPreserved,
         UndecidedPreserved DEF IInv
  <2>2. CASE OutOfBandStep /\ UNCHANGED shape
    BY <2>2, OutOfBandPreserved
  <2>3. CASE UNCHANGED vars
    BY <2>3 DEF vars, reqVars, outVars, procVars, stageVars, IInv, TypeOK, ReqTypeOK,
                OutTypeOK, ProcTypeOK, StageTypeOK, BansDue, Due, BansAreEarned, Earned,
                RuleEarned, AnnouncedBansHold, Undecided, Forwarded, Attributed, Ip, Passive
  <2> QED
    BY <2>1, <2>2, <2>3 DEF Next, Finished
<1> QED
  BY <1>1, <1>2, PTL DEF Spec
-----------------------------------------------------------------------------
(* The theorems.                                                           *)

(* Every variable keeps its type: no rule counter passes its threshold by  *)
(* more than one, and no violation counter its threshold.                  *)
THEOREM TypeCorrect == Spec => []TypeOK
<1>1. IInv => TypeOK
  BY DEF IInv
<1> QED
  BY <1>1, Inductive, PTL

(* No address is banned without an operator, a violation counter at its    *)
(* threshold or a behaviour rule past its bound.                           *)
THEOREM BansEarned == Spec => []BansAreEarned
<1>1. IInv => BansAreEarned
  BY DEF IInv
<1> QED
  BY <1>1, Inductive, PTL

(* An address that is told it was banned is under that ban, while no ban   *)
(* is lifted.                                                              *)
THEOREM AnnouncedBans == Spec => []AnnouncedBansHold
<1>1. IInv => AnnouncedBansHold
  BY DEF IInv
<1> QED
  BY <1>1, Inductive, PTL

(* No step revises an answer or forwards a request that was answered or    *)
(* forwarded before.                                                       *)
THEOREM AnswersAreFinal == Spec => FinalAnswer
<1> DEFINE Final == \A r \in Requests :
       /\ answer[r] # "none" => answer'[r] = answer[r] /\ inner'[r] = inner[r]
       /\ Forwarded(r) => inner'[r] = inner[r]
<1>1. IInv /\ [Next]_vars => [Final]_vars
  <2> SUFFICES ASSUME IInv, [Next]_vars PROVE Final
    OBVIOUS
  <2>1. CASE UNCHANGED <<answer, inner>>
    BY <2>1
  <2>2. ASSUME NEW r \in Requests, Step(r), UNCHANGED shape PROVE Final
    <3>1. Outline(r)
      BY <2>2, StepOutline DEF IInv
    <3>2. CASE UNCHANGED <<answer, inner>>
      BY <3>2
    <3>3. ASSUME pc[r] \in Arms \cup {"inner"}, NEW c, NEW l, AnswerTo(r, c, l) PROVE Final
      BY <3>3, AnswerMoves DEF IInv, Undecided
    <3>4. CASE /\ pc[r] = "forward" /\ UNCHANGED answer
               /\ \E b : inner' = [inner EXCEPT ![r] = b]
      <4>1. answer[r] = "none" /\ ~Forwarded(r)
        BY <3>4 DEF IInv, Undecided, Arms
      <4>2. \A q \in Requests \ {r} : inner'[q] = inner[q]
        BY <3>4 DEF IInv, TypeOK, OutTypeOK
      <4> QED
        BY <3>4, <4>1, <4>2
    <3> QED
      BY <3>1, <3>2, <3>3, <3>4 DEF Outline, Onward, Concludes, Inner, Responds
  <2> QED
    BY <2>1, <2>2 DEF Next, OutOfBandStep, Finished, vars, outVars
<1> QED
  BY <1>1, Inductive, PTL DEF Spec, FinalAnswer

(* Whatever other requests and the host do to the stores meanwhile, in the *)
(* step that refuses a request for a ban, a crossing of a usage rule, a    *)
(* full window or its own activity, the store still holds just that.       *)
THEOREM RefusesOnRecord == Spec => RefusedOnRecord
<1> DEFINE Held == \A r \in Requests : answer'[r] # answer[r] => OnRecord(r, answer'[r])
<1>1. IInv /\ [Next]_vars => [Held]_vars
  <2> SUFFICES ASSUME IInv, [Next]_vars, NEW q \in Requests, answer'[q] # answer[q]
               PROVE  OnRecord(q, answer'[q])
    OBVIOUS
  <2>1. PICK r \in Requests : Step(r) /\ UNCHANGED shape
    BY DEF Next, OutOfBandStep, Finished, vars, outVars
  <2>2. Concludes(r) \/ Inner(r)
    BY <2>1, StepOutline DEF IInv, Outline, Onward, Responds
  <2>3. CASE Concludes(r)
    <3>1. PICK c \in Answers, l \in Labels : AnswerTo(r, c, l) /\ OnRecord(r, c)
      BY <2>3 DEF Concludes, Labels
    <3> QED
      BY <3>1, AnswerMoves DEF IInv
  <2>4. CASE Inner(r)
    <3>1. PICK c \in {"inner", "inner_error"}, l \in {"respond", "closed"} : AnswerTo(r, c, l)
      BY <2>4 DEF Inner
    <3>2. answer'[q] \in {"inner", "inner_error"}
      BY <3>1, AnswerMoves DEF IInv
    <3> QED
      BY <3>2 DEF OnRecord
  <2> QED
    BY <2>2, <2>3, <2>4
<1> QED
  BY <1>1, Inductive, PTL DEF Spec, RefusedOnRecord
-----------------------------------------------------------------------------
(* The pipeline implements GuardContract.                                  *)

PhaseOf == [r \in Requests |-> Phase(r)]

(* What a request does to its own phase is one function update, and the    *)
(* phases of the others stay.                                              *)
LEMMA PhaseMoves ==
  ASSUME NEW r \in Requests, NEW from, NEW to,
         Phase(r) \in from, Phase(r)' = to,
         \A q \in Requests \ {r} : Phase(q)' = Phase(q)
  PROVE  Contract!Move(r, from, to)
<1>1. PhaseOf' = [q \in Requests |-> Phase(q)']
  BY DEF PhaseOf
<1>2. PhaseOf' = [PhaseOf EXCEPT ![r] = to]
  BY <1>1 DEF PhaseOf
<1> QED
  BY <1>2 DEF Contract!Move, PhaseOf

(* The other requests keep their phases.                                   *)
LEMMA OthersKeepPhase ==
  ASSUME NEW r \in Requests, NEW q \in Requests \ {r},
         pc'[q] = pc[q], inner'[q] = inner[q], answer'[q] = answer[q]
  PROVE  Phase(q)' = Phase(q)
  BY DEF Phase, Forwarded

(* A step that only moves a pc and the stores is a step of the contract or *)
(* a stutter: clearing, dismissing, or going on in the same phase.         *)
LEMMA OnwardRefines ==
  ASSUME IInv, NEW r \in Requests, Onward(r), UNCHANGED shape
  PROVE  Contract!ContractNext \/ UNCHANGED <<bans, PhaseOf>>
<1>1. PICK l \in Arms \cup {"dropped"} :
        /\ pc[r] \in Arms /\ Go(r, l) /\ Orderly(r, l) /\ UNCHANGED <<answer, inner, bans>>
  BY DEF Onward
<1>2. pc'[r] = l /\ \A q \in Requests \ {r} : pc'[q] = pc[q]
  BY <1>1, GoMoves DEF IInv
<1>3. \A q \in Requests \ {r} : Phase(q)' = Phase(q)
  BY <1>1, <1>2, OthersKeepPhase
<1>4. ~Forwarded(r) /\ ~Forwarded(r)'
  BY <1>1 DEF IInv, Undecided, Forwarded
<1>5. UNCHANGED [q \in Requests |-> Ip(q)] /\ UNCHANGED {q \in Requests : ExcusedFromBans(q)}
  BY DEF Ip, ExcusedFromBans, Bypassed, Passive
<1>6. Phase(r) = IF pc[r] \in BeforeBanCheck THEN "open" ELSE "cleared"
  BY <1>1, <1>4 DEF Phase
<1>7. CASE l = "dropped"
  <2>1. answer'[r] # "banned"
    BY <1>1 DEF IInv, Undecided
  <2>2. Phase(r)' = "dismissed"
    BY <1>2, <1>4, <1>7, <2>1 DEF Phase, Arms, BeforeBanCheck
  <2>3. Contract!Dismiss(r)
    BY <1>1, <1>3, <1>6, <2>2, PhaseMoves DEF Contract!Dismiss
  <2> QED
    BY <1>5, <2>3 DEF Contract!ContractNext
<1>8. CASE l \in Arms /\ (pc[r] \in BeforeBanCheck <=> l \in BeforeBanCheck)
  <2>1. Phase(r)' = Phase(r)
    BY <1>2, <1>4, <1>6, <1>8 DEF Phase
  <2> QED
    BY <1>1, <1>3, <2>1 DEF PhaseOf
<1>9. CASE l \in Arms /\ pc[r] \in BeforeBanCheck /\ l \notin BeforeBanCheck
  <2>1. ExcusedFromBans(r) \/ Ip(r) \notin bans
    BY <1>1, <1>9 DEF Orderly
  <2>2. Phase(r)' = "cleared"
    BY <1>2, <1>4, <1>9 DEF Phase
  <2>3. Contract!Clear(r)
    BY <1>1, <1>3, <1>6, <1>9, <2>1, <2>2, PhaseMoves DEF Contract!Clear
  <2> QED
    BY <1>5, <2>3 DEF Contract!ContractNext
<1> QED
  BY <1>1, <1>7, <1>8, <1>9 DEF Orderly

(* An answer dismisses its request, with the ban it makes, or bars it for  *)
(* the ban that was there.                                                 *)
LEMMA ConcludesRefines ==
  ASSUME IInv, NEW r \in Requests, Concludes(r), UNCHANGED shape
  PROVE  Contract!ContractNext \/ UNCHANGED <<bans, PhaseOf>>
<1>1. PICK c \in Answers \ {"none"}, l \in {"respond_owned", "respond", "closed"} :
        /\ pc[r] \in Arms /\ AnswerTo(r, c, l)
        /\ c = "banned" => Ip(r) \in bans /\ UNCHANGED bans
        /\ \/ UNCHANGED bans
           \/ pc[r] \in {"tier_ban", "feed_ban"} /\ Ban(Ip(r))
           \/ ProcessorBans(Ip(r))
  BY DEF Concludes, OnRecord, LiveBan
<1>2. /\ pc'[r] = l /\ answer'[r] = c /\ inner' = inner
      /\ \A q \in Requests \ {r} : pc'[q] = pc[q] /\ answer'[q] = answer[q]
  BY <1>1, AnswerMoves DEF IInv
<1>3. \A q \in Requests \ {r} : Phase(q)' = Phase(q)
  BY <1>2, OthersKeepPhase
<1>4. ~Forwarded(r) /\ ~Forwarded(r)'
  BY <1>1, <1>2 DEF IInv, Undecided, Forwarded
<1>5. /\ Phase(r) \in {"open", "cleared"}
      /\ Phase(r)' = IF c = "banned" THEN "barred" ELSE "dismissed"
  BY <1>1, <1>2, <1>4 DEF Phase, Arms, BeforeBanCheck
<1>6. Contract!Move(r, {"open", "cleared"}, IF c = "banned" THEN "barred" ELSE "dismissed")
  BY <1>3, <1>5, PhaseMoves
<1>7. UNCHANGED [q \in Requests |-> Ip(q)] /\ UNCHANGED {q \in Requests : ExcusedFromBans(q)}
  BY DEF Ip, ExcusedFromBans, Bypassed, Passive
<1>8. UNCHANGED bans \/ (Ip(r) \in Ips /\ Ban(Ip(r)))
  <2>1. CASE pc[r] \in {"tier_ban", "feed_ban"} /\ Ban(Ip(r))
    BY <2>1, ShapeFacts DEF IInv, BansDue, Due
  <2>2. CASE ProcessorBans(Ip(r))
    BY <2>2 DEF ProcessorBans
  <2> QED
    BY <1>1, <2>1, <2>2
<1>9. CASE c = "banned"
  BY <1>1, <1>6, <1>7, <1>9 DEF Contract!ContractNext, Contract!Bar
<1>10. CASE c # "banned" /\ UNCHANGED bans
  BY <1>6, <1>7, <1>10 DEF Contract!ContractNext, Contract!Dismiss
<1>11. CASE c # "banned" /\ Ip(r) \in Ips /\ Ban(Ip(r))
  BY <1>6, <1>7, <1>11 DEF Contract!ContractNext, Contract!BansItself, Ban
<1> QED
  BY <1>8, <1>9, <1>10, <1>11

(* Calling the wrapped service hands the request over.                     *)
LEMMA InnerRefines ==
  ASSUME IInv, NEW r \in Requests, Inner(r), UNCHANGED shape
  PROVE  Contract!ContractNext \/ UNCHANGED <<bans, PhaseOf>>
<1>1. CASE pc[r] = "forward"
  <2>1. PICK b \in {"empty", "body"} : inner' = [inner EXCEPT ![r] = b]
    BY <1>1 DEF Inner
  <2>2. Go(r, "inner") /\ UNCHANGED <<answer, bans>>
    BY <1>1 DEF Inner
  <2>3. pc'[r] = "inner" /\ \A q \in Requests \ {r} : pc'[q] = pc[q]
    BY <2>2, GoMoves DEF IInv
  <2>4. inner'[r] = b /\ \A q \in Requests \ {r} : inner'[q] = inner[q]
    BY <2>1 DEF IInv, TypeOK, OutTypeOK
  <2>5. \A q \in Requests \ {r} : Phase(q)' = Phase(q)
    BY <2>2, <2>3, <2>4, OthersKeepPhase
  <2>6. Phase(r) = "cleared"
    BY <1>1 DEF Phase, IInv, Undecided, Arms, BeforeBanCheck
  <2>7. Phase(r)' = "handed"
    BY <2>4 DEF Phase, Forwarded
  <2>8. Contract!HandOver(r)
    BY <2>2, <2>5, <2>6, <2>7, PhaseMoves DEF Contract!HandOver
  <2>9. UNCHANGED [q \in Requests |-> Ip(q)] /\ UNCHANGED {q \in Requests : ExcusedFromBans(q)}
    BY DEF Ip, ExcusedFromBans, Bypassed, Passive
  <2> QED
    BY <2>8, <2>9 DEF Contract!ContractNext
<1>2. CASE pc[r] = "inner"
  <2>1. \E l \in {"respond", "closed", "dropped"} : Go(r, l) /\ UNCHANGED <<inner, bans>>
    BY <1>2 DEF Inner, AnswerTo
  <2>2. PICK l \in {"respond", "closed", "dropped"} : Go(r, l) /\ UNCHANGED <<inner, bans>>
    BY <2>1
  <2>3. pc'[r] = l /\ \A q \in Requests \ {r} : pc'[q] = pc[q]
    BY <2>2, GoMoves DEF IInv
  <2>4. \A q \in Requests : Phase(q)' = Phase(q)
    BY <1>2, <2>2, <2>3 DEF Phase, Forwarded, Arms, BeforeBanCheck
  <2> QED
    BY <2>2, <2>4 DEF PhaseOf
<1> QED
  BY <1>1, <1>2 DEF Inner

(* The response pass changes no phase; it may ban the address it answers.  *)
LEMMA RespondsRefines ==
  ASSUME IInv, NEW r \in Requests, Responds(r), UNCHANGED shape
  PROVE  Contract!ContractNext \/ UNCHANGED <<bans, PhaseOf>>
<1>1. PICK l \in {"respond", "closed"} : Go(r, l)
  BY DEF Responds
<1>2. pc[r] \in {"respond_owned", "respond"} /\ UNCHANGED <<answer, inner>>
  BY DEF Responds
<1>3. pc'[r] = l /\ \A q \in Requests \ {r} : pc'[q] = pc[q]
  BY <1>1, GoMoves DEF IInv
<1>4. \A q \in Requests : Phase(q)' = Phase(q)
  BY <1>2, <1>3 DEF Phase, Forwarded, Arms, BeforeBanCheck
<1>5. PhaseOf' = PhaseOf
  BY <1>4 DEF PhaseOf
<1>6. PhaseOf[r] \in {"handed", "barred", "dismissed"}
  BY <1>2 DEF PhaseOf, Phase, Arms, BeforeBanCheck
<1>7. UNCHANGED bans \/ (Ip(r) \in Ips /\ Ban(Ip(r)))
  BY DEF Responds, ProcessorBans
<1>8. UNCHANGED [q \in Requests |-> Ip(q)] /\ UNCHANGED {q \in Requests : ExcusedFromBans(q)}
  BY DEF Ip, ExcusedFromBans, Bypassed, Passive
<1>9. ASSUME Ip(r) \in Ips, Ban(Ip(r)) PROVE Contract!BannedByAnswer(r)
  BY <1>5, <1>6, <1>9 DEF Contract!BannedByAnswer, PhaseOf, Ban
<1> QED
  BY <1>5, <1>7, <1>8, <1>9 DEF Contract!ContractNext

(* What happens out of band changes one ban or none.                       *)
LEMMA OutOfBandRefines ==
  ASSUME OutOfBandStep, UNCHANGED shape
  PROVE  Contract!ContractNext \/ UNCHANGED <<bans, PhaseOf>>
<1>1. \A q \in Requests : Phase(q)' = Phase(q)
  BY DEF OutOfBandStep, outVars, Phase, Forwarded
<1>2. PhaseOf' = PhaseOf
  BY <1>1 DEF PhaseOf
<1>3. UNCHANGED [q \in Requests |-> Ip(q)] /\ UNCHANGED {q \in Requests : ExcusedFromBans(q)}
  BY DEF Ip, ExcusedFromBans, Bypassed, Passive
<1>4. UNCHANGED bans \/ \E i \in Ips : bans' \in {bans \cup {i}, bans \ {i}}
  BY DEF OutOfBandStep, StageNext, Reset, OperatorBans, BanLifts, WindowSlides, Ban
<1> QED
  BY <1>2, <1>3, <1>4 DEF Contract!ContractNext, Contract!OutOfBandBan, PhaseOf

(* Nobody reaches the wrapped service unless the ban store was consulted   *)
(* after the request arrived and held no ban on its address, or its route  *)
(* or layer asks for no ban check; nobody is told of a ban but under one;  *)
(* a request whose conduct bans its own address is dismissed in the step   *)
(* that bans it.                                                           *)
THEOREM PipelineImplementsContract == Spec => ImplementsContract
<1>1. Init => Contract!ContractStart
  BY DEF Init, StageInit, Contract!ContractStart, Phase, Forwarded, BeforeBanCheck
<1>2. IInv /\ [Next]_vars => [Contract!ContractNext]_(Contract!contractVars)
  <2> SUFFICES ASSUME IInv, [Next]_vars
               PROVE  Contract!ContractNext \/ UNCHANGED (Contract!contractVars)
    OBVIOUS
  <2>1. CASE UNCHANGED shape /\ (Contract!ContractNext \/ UNCHANGED <<bans, PhaseOf>>)
    BY <2>1 DEF Contract!contractVars, PhaseOf, Ip, ExcusedFromBans, Bypassed, Passive
  <2>2. ASSUME NEW r \in Requests, Step(r), UNCHANGED shape
        PROVE  Contract!ContractNext \/ UNCHANGED <<bans, PhaseOf>>
    <3>1. Onward(r) \/ Concludes(r) \/ Inner(r) \/ Responds(r)
      BY <2>2, StepOutline DEF IInv, Outline
    <3> QED
      BY <2>2, <3>1, OnwardRefines, ConcludesRefines, InnerRefines, RespondsRefines
  <2>3. CASE UNCHANGED vars
    BY <2>3 DEF vars, outVars, stageVars, Contract!contractVars, Phase, Forwarded, Ip,
                ExcusedFromBans, Bypassed, Passive
  <2> QED
    BY <2>1, <2>2, <2>3, OutOfBandRefines DEF Next, Finished
<1> QED
  BY <1>1, <1>2, Inductive, PTL DEF Spec, ImplementsContract, Contract!ContractSpec
=============================================================================
