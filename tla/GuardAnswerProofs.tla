------------------------- MODULE GuardAnswerProofs -------------------------
(* GuardPipeline, request by request: what was checked before the wrapped  *)
(* service is called, and what happens to an answer on its way out.        *)
EXTENDS GuardPipelineProofs

(* Everything a request has of its own but its shape stays as it is.       *)
Apart(q) ==
  /\ pc'[q] = pc[q] /\ gate'[q] = gate[q] /\ skip'[q] = skip[q]
  /\ body'[q] = body[q] /\ verdict'[q] = verdict[q]
  /\ answer'[q] = answer[q] /\ hooks'[q] = hooks[q]
  /\ passes'[q] = passes[q] /\ inner'[q] = inner[q]

(* A step of one request leaves what the others have alone.                *)
LEMMA StepApart ==
  ASSUME TypeOK, NEW r \in Requests, Step(r), NEW q \in Requests \ {r}
  PROVE  Apart(q)
<1> USE DEF TypeOK, ReqTypeOK, OutTypeOK, Apart, reqVars, outVars, procVars, stageVars
<1>1. ASSUME NEW l, Pass(r, l) PROVE Apart(q)
  BY <1>1 DEF Pass, Go
<1>2. ASSUME NEW c, NEW l, AnswerTo(r, c, l), UNCHANGED reqVars PROVE Apart(q)
  BY <1>2 DEF AnswerTo, Go
<1>3. ASSUME NEW c, Refuse(r, c) PROVE Apart(q)
  BY <1>2, <1>3 DEF Refuse, Answer
<1>4. ASSUME NEW arm, NEW c, NEW excused, NEW next, Check(r, arm, c, excused, next)
      PROVE  Apart(q)
  BY <1>1, <1>3, <1>4 DEF Check
<1>5. ASSUME NEW arm, NEW c, NEW d, NEW next, RouteThenStage(r, arm, c, d, next)
      PROVE  Apart(q)
  BY <1>1, <1>3, <1>5 DEF RouteThenStage
<1>6. CASE Exclude(r) \/ Preflight(r) \/ UsageRules(r)
  BY <1>1, <1>2, <1>6 DEF Exclude, Preflight, UsageRules, Answer, Go
<1>7. CASE RouteIp(r) \/ RouteCountries(r)
  BY <1>1, <1>3, <1>7 DEF RouteIp, RouteCountries, Go
<1>8. CASE IpGate(r)
  BY <1>1, <1>2, <1>8 DEF IpGate, Go
<1>9. CASE Emergency(r) \/ HttpsRedirect(r) \/ GeoBlocking(r) \/ CustomRequest(r)
  BY <1>4, <1>9 DEF Emergency, HttpsRedirect, GeoBlocking, CustomRequest
<1>10. CASE HeadersAuth(r) \/ Referrer(r) \/ CustomValidators(r) \/ TimeWindow(r)
  BY <1>5, <1>10 DEF HeadersAuth, Referrer, CustomValidators, TimeWindow
<1>11. CASE BufferBody(r)
  BY <1>3, <1>11 DEF BufferBody, Go
<1>12. CASE Scan(r)
  BY <1>3, <1>12 DEF Scan, Go
<1>13. CASE Bans(r) \/ DetectionBlock(r)
  BY <1>1, <1>3, <1>13 DEF Bans, DetectionBlock
<1>14. CASE CloudProvider(r)
  BY <1>3, <1>4, <1>14 DEF CloudProvider
<1>15. CASE UserAgent(r)
  BY <1>1, <1>3, <1>5, <1>15 DEF UserAgent
<1>16. CASE RateTiers(r)
  BY <1>1, <1>2, <1>3, <1>16 DEF RateTiers, Answer, Go
<1>17. CASE TierBan(r) \/ FeedBan(r)
  BY <1>2, <1>17 DEF TierBan, FeedBan, Answer
<1>18. CASE Feed(r)
  <2>1. hooks' = hooks \/ hooks' = [hooks EXCEPT ![r] = @ + 1]
    BY <1>18 DEF Feed
  <2> QED
    BY <1>18, <2>1 DEF Feed, Go
<1>19. CASE CallInner(r)
  BY <1>19 DEF CallInner, Go
<1>20. CASE InnerReturns(r)
  BY <1>2, <1>20 DEF InnerReturns
<1>21. CASE RespondOwned(r) \/ Respond(r)
  BY <1>21 DEF RespondOwned, Respond, ResponsePass, Go
<1>22. CASE Disconnect(r)
  BY <1>1, <1>22 DEF Disconnect
<1> QED
  BY <1>6, <1>7, <1>8, <1>9, <1>10, <1>11, <1>12, <1>13, <1>14, <1>15, <1>16, <1>17,
     <1>18, <1>19, <1>20, <1>21, <1>22 DEF Step, Screens
-----------------------------------------------------------------------------
(* What a step does to its request's answer, hook and passes.              *)

PastFeed == {"feed_ban", "detection", "custom", "forward"}

\* An arm lets the request on; no way leads back before the feed.
Moves(r) ==
  \E l \in Arms \cup {"dropped"} :
    /\ pc[r] \in Arms /\ Go(r, l) /\ UNCHANGED outVars
    /\ pc[r] \in PastFeed => l \in PastFeed \cup {"dropped"}

\* The detection feed, where a passive layer may fire the hook.
Feeds(r) ==
  /\ pc[r] = "feed" /\ \E l \in {"feed_ban", "detection"} : Go(r, l)
  /\ \/ hooks' = hooks
     \/ Passive(r) /\ hooks' = [hooks EXCEPT ![r] = @ + 1]
  /\ UNCHANGED <<answer, passes, inner>>

\* An arm answers: on what fires the hook only if it is not passive.
Replies(r) ==
  \E c \in Answers \ {"none", "inner_error"}, l \in {"respond_owned", "respond", "closed"} :
    /\ pc[r] \in Arms /\ AnswerTo(r, c, l)
    /\ c \in Hooked => ~Passive(r)
    /\ l = "closed" <=> c = "preflight"
    /\ l = "respond_owned" <=> c = "ip_gate"

\* The rest of its way.
Calls(r) == pc[r] = "forward" /\ Go(r, "inner") /\ UNCHANGED <<answer, hooks, passes>>
Abandons(r) == pc[r] = "inner" /\ Go(r, "dropped") /\ UNCHANGED outVars
Goes(r) ==
  /\ \/ pc[r] = "respond_owned" /\ Go(r, "respond")
     \/ pc[r] = "respond" /\ Go(r, "closed")
  /\ passes' = IF Processor THEN [passes EXCEPT ![r] = @ + 1] ELSE passes
  /\ UNCHANGED <<answer, hooks, inner>>

Course(r) ==
  Moves(r) \/ Feeds(r) \/ Replies(r) \/ Calls(r) \/ InnerReturns(r) \/ Abandons(r) \/ Goes(r)

(* A pass moves on.                                                        *)
LEMMA PassCourse ==
  ASSUME NEW r \in Requests, pc[r] \in Arms, NEW l \in Arms \cup {"dropped"}, Pass(r, l),
         pc[r] \in PastFeed => l \in PastFeed \cup {"dropped"}
  PROVE  Moves(r)
  BY DEF Moves, Pass

(* A refusal answers.                                                      *)
LEMMA RefuseCourse ==
  ASSUME NEW r \in Requests, pc[r] \in Arms, NEW c \in Refusals \ {"ip_gate"}, Refuse(r, c),
         c \in Hooked => ~Passive(r)
  PROVE  Replies(r)
<1>1. c \in Answers \ {"none", "inner_error", "preflight"}
  BY DEF Answers, Refusals, RouteConditions, StageConditions
<1> QED
  BY <1>1 DEF Replies, Refuse, Answer

(* An arm over one condition.                                              *)
LEMMA CheckCourse ==
  ASSUME NEW r \in Requests, NEW arm \in Arms, NEW c \in RouteConditions \cup StageConditions,
         NEW excused, NEW next \in Arms, arm \in PastFeed => next \in PastFeed,
         Check(r, arm, c, excused, next)
  PROVE  Moves(r) \/ Replies(r)
<1>1. c \in Refusals \ {"ip_gate"} /\ c \notin Hooked
  BY DEF Refusals, Hooked, RouteConditions, StageConditions
<1> QED
  BY <1>1, PassCourse, RefuseCourse DEF Check

(* An arm over the route's condition and the stage's.                      *)
LEMMA RouteThenStageCourse ==
  ASSUME NEW r \in Requests, NEW arm \in Arms, NEW c \in RouteConditions,
         NEW d \in StageConditions, NEW next \in Arms, arm \in PastFeed => next \in PastFeed,
         RouteThenStage(r, arm, c, d, next)
  PROVE  Moves(r) \/ Replies(r)
<1>1. {c, d} \subseteq Refusals \ {"ip_gate"} /\ {c, d} \cap Hooked = {}
  BY DEF Refusals, Hooked, RouteConditions, StageConditions
<1> QED
  BY <1>1, PassCourse, RefuseCourse DEF RouteThenStage

(* The arms that ask the route first.                                      *)
LEMMA RouteArmsCourse ==
  ASSUME NEW r \in Requests,
         \/ HeadersAuth(r) \/ Referrer(r) \/ CustomValidators(r) \/ TimeWindow(r)
         \/ RouteThenStage(r, "user_agent", "route_user_agent", "user_agent", "tiers")
  PROVE  Moves(r) \/ Replies(r)
<1>1. {"headers", "referrer", "validator", "time_window", "scan", "user_agent", "tiers"}
        \subseteq Arms \ PastFeed
  BY DEF Arms, PastFeed
<1>2. /\ {"route_headers", "route_referrer", "route_validator", "route_time_window",
          "route_user_agent"} \subseteq RouteConditions
      /\ {"headers", "referrer", "validator", "time_window", "user_agent"}
           \subseteq StageConditions
  BY DEF RouteConditions, StageConditions
<1>3. CASE HeadersAuth(r)
  BY <1>1, <1>2, <1>3, RouteThenStageCourse DEF HeadersAuth
<1>4. CASE Referrer(r)
  BY <1>1, <1>2, <1>4, RouteThenStageCourse DEF Referrer
<1>5. CASE CustomValidators(r)
  BY <1>1, <1>2, <1>5, RouteThenStageCourse DEF CustomValidators
<1>6. CASE TimeWindow(r)
  BY <1>1, <1>2, <1>6, RouteThenStageCourse DEF TimeWindow
<1>7. CASE RouteThenStage(r, "user_agent", "route_user_agent", "user_agent", "tiers")
  BY <1>1, <1>2, <1>7, RouteThenStageCourse
<1> QED
  BY <1>3, <1>4, <1>5, <1>6, <1>7

(* Every step of a request comes to its course.                            *)
LEMMA StepCourse ==
  ASSUME TypeOK, BansDue, NEW r \in Requests, Step(r)
  PROVE  Course(r)
<1> USE DEF Course, Arms, PastFeed, RouteConditions, StageConditions, Refusals, Hooked
<1>1. CASE Exclude(r)
  BY <1>1, PassCourse DEF Exclude
<1>2. CASE Preflight(r)
  <2>1. "preflight" \in Answers \ {"none", "inner_error"}
    BY DEF Answers
  <2> QED
    BY <1>2, <2>1, PassCourse DEF Preflight, Replies
<1>3. CASE UsageRules(r)
  <2>1. "usage_ban" \in Answers \ {"none", "inner_error"}
    BY DEF Answers
  <2> QED
    BY <1>3, <2>1, PassCourse DEF UsageRules, Replies, Answer, Moves
<1>4. CASE RouteIp(r)
  BY <1>4, PassCourse, RefuseCourse DEF RouteIp, Moves
<1>5. CASE RouteCountries(r)
  BY <1>5, RefuseCourse DEF RouteCountries, Moves
<1>6. CASE IpGate(r)
  <2>1. "ip_gate" \in Answers \ {"none", "inner_error"}
    BY DEF Answers
  <2> QED
    BY <1>6, <2>1, PassCourse DEF IpGate, Replies, Moves
<1>7. CASE Emergency(r) \/ HttpsRedirect(r) \/ GeoBlocking(r)
  BY <1>7, CheckCourse DEF Emergency, HttpsRedirect, GeoBlocking
<1>8. CASE CustomRequest(r)
  BY <1>8, CheckCourse DEF CustomRequest
<1>9. CASE HeadersAuth(r) \/ Referrer(r) \/ CustomValidators(r) \/ TimeWindow(r)
  BY <1>9, RouteArmsCourse
<1>10. CASE BufferBody(r)
  BY <1>10, RefuseCourse DEF BufferBody, Moves
<1>11. CASE Scan(r)
  BY <1>11, RefuseCourse DEF Scan, Moves
<1>12. CASE Bans(r)
  BY <1>12, PassCourse, RefuseCourse DEF Bans
<1>13. CASE DetectionBlock(r)
  BY <1>13, PassCourse, RefuseCourse DEF DetectionBlock
<1>14. CASE CloudProvider(r)
  BY <1>14, RefuseCourse, CheckCourse DEF CloudProvider
<1>15. CASE UserAgent(r)
  <2>1. CASE Refuse(r, "bad_user_agent")
    BY <1>15, <2>1, RefuseCourse DEF UserAgent
  <2>2. CASE Pass(r, "tiers")
    BY <1>15, <2>2, PassCourse DEF UserAgent
  <2>3. CASE RouteThenStage(r, "user_agent", "route_user_agent", "user_agent", "tiers")
    BY <2>3, RouteArmsCourse
  <2> QED
    BY <1>15, <2>1, <2>2, <2>3 DEF UserAgent
<1>16. CASE RateTiers(r)
  <2>1. "rate_limited" \in Answers \ {"none", "inner_error"}
    BY DEF Answers
  <2>2. CASE Go(r, "feed") /\ UNCHANGED outVars
    BY <1>16, <2>2 DEF RateTiers, Moves
  <2>3. CASE Go(r, "tier_ban") /\ UNCHANGED outVars
    BY <1>16, <2>3 DEF RateTiers, Moves
  <2>4. CASE Answer(r, "rate_limited") /\ ~Passive(r)
    BY <1>16, <2>1, <2>4 DEF RateTiers, Replies, Answer
  <2>5. CASE Refuse(r, "bad_tiers")
    BY <1>16, <2>5, RefuseCourse DEF RateTiers
  <2>6. CASE Pass(r, "detection") \/ Pass(r, "feed")
    BY <1>16, <2>6, PassCourse DEF RateTiers
  <2> QED
    BY <1>16, <2>2, <2>3, <2>4, <2>5, <2>6 DEF RateTiers, Refuse
<1>17. CASE TierBan(r) \/ FeedBan(r)
  <2>1. {"rate_limited", "activity_banned"} \subseteq Answers \ {"none", "inner_error"}
    BY DEF Answers
  <2>2. ~Passive(r)
    BY <1>17 DEF TierBan, FeedBan, BansDue, Due
  <2> QED
    BY <1>17, <2>1, <2>2 DEF TierBan, FeedBan, Replies, Answer
<1>18. CASE Feed(r)
  BY <1>18 DEF Feed, Feeds
<1>19. CASE CallInner(r)
  BY <1>19 DEF CallInner, Calls
<1>20. CASE RespondOwned(r) \/ Respond(r)
  BY <1>20 DEF RespondOwned, Respond, ResponsePass, Goes, outVars
<1>21. CASE Disconnect(r)
  BY <1>21, PassCourse DEF Disconnect, Abandons, Pass
<1> QED
  BY <1>1, <1>2, <1>3, <1>4, <1>5, <1>6, <1>7, <1>8, <1>9, <1>10, <1>11, <1>12, <1>13,
     <1>14, <1>15, <1>16, <1>17, <1>18, <1>19, <1>20, <1>21 DEF Step, Screens
-----------------------------------------------------------------------------
(* The answer's invariant.                                                 *)

\* How often the response pass ran, by where the request is.
Passed(r) ==
  /\ pc[r] \in Arms \cup {"inner"} => passes[r] = 0
  /\ pc[r] = "respond_owned" => answer[r] = "ip_gate" /\ passes[r] = 0
  /\ pc[r] = "respond" =>
       /\ answer[r] \notin {"preflight", "inner_error"}
       /\ passes[r] = IF answer[r] = "ip_gate" /\ Processor THEN 1 ELSE 0
  /\ pc[r] = "closed" /\ Processor => passes[r] = PassesDue(answer[r])

\* How often the hook fired: ahead of an answer only on a passive layer, and
\* only behind the feed.
Fired(r) ==
  /\ hooks[r] <= 1
  /\ pc[r] \in Arms \cup {"inner"} =>
       hooks[r] = 0 \/ (Passive(r) /\ pc[r] \in PastFeed \cup {"inner"})
  /\ pc[r] \in {"respond_owned", "respond", "closed"} /\ Observability /\ ~Passive(r) =>
       (hooks[r] = 1 <=> answer[r] \in Hooked)

(* Each course of a request keeps what is said of its answer.              *)
LEMMA CourseKeeps ==
  ASSUME TypeOK, TypeOK', NEW r \in Requests, Course(r), UNCHANGED shape, Passed(r), Fired(r)
  PROVE  Passed(r)' /\ Fired(r)'
<1> USE DEF TypeOK, OutTypeOK, Passive
<1>1. CASE Moves(r)
  BY <1>1 DEF Moves, Go, Passed, Fired, Arms, PastFeed, outVars
<1>2. CASE Feeds(r)
  BY <1>2 DEF Feeds, Go, Passed, Fired, Arms, PastFeed
<1>3. CASE Replies(r)
  <2>1. PICK c \in Answers \ {"none", "inner_error"}, l \in {"respond_owned", "respond", "closed"} :
          /\ pc[r] \in Arms /\ AnswerTo(r, c, l)
          /\ c \in Hooked => ~Passive(r)
          /\ l = "closed" <=> c = "preflight"
          /\ l = "respond_owned" <=> c = "ip_gate"
    BY <1>3 DEF Replies
  <2>2. pc'[r] = l /\ answer'[r] = c /\ passes'[r] = 0
    BY <2>1 DEF AnswerTo, Go, Passed
  <2>3. Passed(r)'
    BY <2>1, <2>2 DEF Passed, PassesDue, Arms
  <2>4. hooks'[r] = IF Observability /\ c \in Hooked THEN hooks[r] + 1 ELSE hooks[r]
    BY <2>1 DEF AnswerTo
  <2>5. Fired(r)'
    BY <2>1, <2>2, <2>4 DEF Fired, Arms
  <2> QED
    BY <2>3, <2>5
<1>4. CASE Calls(r) \/ Abandons(r)
  BY <1>4 DEF Calls, Abandons, Go, Passed, Fired, Arms, PastFeed, outVars
<1>5. CASE InnerReturns(r)
  BY <1>5 DEF InnerReturns, AnswerTo, Go, Passed, PassesDue, Fired, Arms, Hooked
<1>6. CASE Goes(r)
  BY <1>6 DEF Goes, Go, Passed, PassesDue, Fired, Arms
<1> QED
  BY <1>1, <1>2, <1>3, <1>4, <1>5, <1>6 DEF Course
-----------------------------------------------------------------------------
(* What was checked so far.                                                *)

\* The arms in the order of the code; a request never goes back.
Rank(arm) ==
  CASE arm = "exclude" -> 0 [] arm = "preflight" -> 1 [] arm = "usage" -> 2
    [] arm = "route_ip" -> 3 [] arm = "route_country" -> 4 [] arm = "ip_gate" -> 5
    [] arm = "emergency" -> 6 [] arm = "https" -> 7 [] arm = "body" -> 8
    [] arm = "headers" -> 9 [] arm = "referrer" -> 10 [] arm = "validator" -> 11
    [] arm = "time_window" -> 12 [] arm = "scan" -> 13 [] arm = "bans" -> 14
    [] arm = "geo" -> 15 [] arm = "cloud" -> 16 [] arm = "user_agent" -> 17
    [] arm = "tiers" -> 18 [] arm = "tier_ban" -> 19 [] arm = "feed" -> 19
    [] arm = "feed_ban" -> 20 [] arm = "detection" -> 20 [] arm = "custom" -> 21
    [] arm = "forward" -> 22

\* What holds of a request at an arm: no condition is left behind it.
Cleared(r, arm) ==
  /\ \A c \in Met(r) : Rank(arm) <= CheckedAt(c)
  /\ Rank(arm) > 5 => ListsPass(r)
  /\ Rank(arm) > 8 =>
       /\ shape[r].sends \in {"nothing", "data"}
       /\ body[r] = "held" <=> shape[r].sends = "data"
  /\ Rank(arm) > 13 => ("threat" \in Met(r) => verdict[r])

Handed(r) ==
  /\ Met(r) = {} /\ ListsPass(r)
  /\ inner[r] = "body" <=> shape[r].sends = "data"
  /\ shape[r].sends \in {"nothing", "data"}

\* The route's skip flags come from its own whitelists.
Skipped(r) ==
  /\ "ip_lists" \in skip[r] => "ip_whitelist" \in shape[r].route
  /\ "countries" \in skip[r] => "country_whitelist" \in shape[r].route

Screened(r) ==
  /\ Skipped(r)
  /\ shape[r].kind = "excluded" /\ pc[r] \in Arms => pc[r] \in {"exclude", "forward"}
  /\ shape[r].kind # "excluded" /\ pc[r] \in Arms => Cleared(r, pc[r])
  /\ shape[r].kind # "excluded" /\ Forwarded(r) => Handed(r)

(* What a request meets is fixed as it arrives.                            *)
LEMMA MetStays ==
  ASSUME NEW r, UNCHANGED shape
  PROVE  Met(r)' = Met(r) /\ ListsPass(r)' = ListsPass(r)
  BY DEF Met, Passive, Waives, Attributed, Ip, ListsPass, ListsApply, GateDenies

(* The arms have their places.                                             *)
LEMMA RankRange ==
  ASSUME NEW arm \in Arms
  PROVE  /\ Rank(arm) \in 0 .. 22
         /\ Rank(arm) = 5 => arm = "ip_gate"
         /\ Rank(arm) = 8 => arm = "body"
         /\ Rank(arm) = 13 => arm = "scan"
<1>1. Rank(arm) \in 0 .. 22
  BY DEF Arms, Rank
<1>2. Rank(arm) = 5 => arm = "ip_gate"
  BY DEF Arms, Rank
<1>3. Rank(arm) = 8 => arm = "body"
  BY DEF Arms, Rank
<1>4. Rank(arm) = 13 => arm = "scan"
  BY DEF Arms, Rank
<1> QED
  BY <1>1, <1>2, <1>3, <1>4

(* The conditions there are, by the arm that checks them.                  *)
LEMMA MetAt ==
  ASSUME TypeOK, NEW r \in Requests, NEW c \in Met(r)
  PROVE  /\ CheckedAt(c) \notin {0, 1, 2, 5, 8, 14, 19}
         /\ CheckedAt(c) \in 3 .. 21
         /\ CheckedAt(c) = 3 => c \in {"route_ip", "bad_route_ip"}
         /\ CheckedAt(c) = 4 => c = "route_country"
         /\ CheckedAt(c) = 6 => c = "emergency"
         /\ CheckedAt(c) = 7 => c = "https"
         /\ CheckedAt(c) = 9 => c \in {"route_headers", "headers"}
         /\ CheckedAt(c) = 10 => c \in {"route_referrer", "referrer"}
         /\ CheckedAt(c) = 11 => c \in {"route_validator", "validator"}
         /\ CheckedAt(c) = 12 => c \in {"route_time_window", "time_window"}
         /\ CheckedAt(c) = 13 => c = "scan_failed"
         /\ CheckedAt(c) = 15 => c = "geo"
         /\ CheckedAt(c) = 16 => c \in {"bad_cloud", "cloud"}
         /\ CheckedAt(c) = 17 => c \in {"route_user_agent", "bad_user_agent", "user_agent"}
         /\ CheckedAt(c) = 18 => c = "bad_tiers"
         /\ CheckedAt(c) = 20 => c = "threat"
         /\ CheckedAt(c) = 21 => c = "custom_request"
<1>1. c \in RouteConditions \cup StageConditions \cup {"threat"}
  BY DEF TypeOK, ShapeSpace, Met
<1>2. c \in {"route_ip", "bad_route_ip", "route_country", "emergency", "https",
              "route_headers", "headers", "route_referrer", "referrer", "route_validator",
              "validator", "route_time_window", "time_window", "scan_failed", "geo",
              "bad_cloud", "cloud", "route_user_agent", "bad_user_agent", "user_agent",
              "bad_tiers", "threat", "custom_request"}
  BY <1>1 DEF RouteConditions, StageConditions
<1>3. CheckedAt(c) \notin {0, 1, 2, 5, 8, 14, 19}
  BY <1>2 DEF CheckedAt
<1>4. CheckedAt(c) \in 3 .. 21
  BY <1>2 DEF CheckedAt
<1>5. CheckedAt(c) = 3 => c \in {"route_ip", "bad_route_ip"}
  BY <1>2 DEF CheckedAt
<1>6. CheckedAt(c) = 4 => c = "route_country"
  BY <1>2 DEF CheckedAt
<1>7. CheckedAt(c) = 6 => c = "emergency"
  BY <1>2 DEF CheckedAt
<1>8. CheckedAt(c) = 7 => c = "https"
  BY <1>2 DEF CheckedAt
<1>9. CheckedAt(c) = 9 => c \in {"route_headers", "headers"}
  BY <1>2 DEF CheckedAt
<1>10. CheckedAt(c) = 10 => c \in {"route_referrer", "referrer"}
  BY <1>2 DEF CheckedAt
<1>11. CheckedAt(c) = 11 => c \in {"route_validator", "validator"}
  BY <1>2 DEF CheckedAt
<1>12. CheckedAt(c) = 12 => c \in {"route_time_window", "time_window"}
  BY <1>2 DEF CheckedAt
<1>13. CheckedAt(c) = 13 => c = "scan_failed"
  BY <1>2 DEF CheckedAt
<1>14. CheckedAt(c) = 15 => c = "geo"
  BY <1>2 DEF CheckedAt
<1>15. CheckedAt(c) = 16 => c \in {"bad_cloud", "cloud"}
  BY <1>2 DEF CheckedAt
<1>16. CheckedAt(c) = 17 => c \in {"route_user_agent", "bad_user_agent", "user_agent"}
  BY <1>2 DEF CheckedAt
<1>17. CheckedAt(c) = 18 => c = "bad_tiers"
  BY <1>2 DEF CheckedAt
<1>18. CheckedAt(c) = 20 => c = "threat"
  BY <1>2 DEF CheckedAt
<1>19. CheckedAt(c) = 21 => c = "custom_request"
  BY <1>2 DEF CheckedAt
<1> QED
  BY <1>3, <1>4, <1>5, <1>6, <1>7, <1>8, <1>9, <1>10, <1>11, <1>12, <1>13, <1>14, <1>15, <1>16, <1>17, <1>18, <1>19

(* An arm lets a request on that nothing it checks is left against.        *)
LEMMA OnScreened ==
  ASSUME TypeOK, NEW r \in Requests, Screened(r), Undecided, pc[r] \in Arms,
         shape[r].kind # "excluded", NEW l \in Arms, Go(r, l),
         UNCHANGED <<shape, skip, inner, body, verdict>>,
         Rank(l) \in Nat, Rank(pc[r]) \in Nat,
         \A c \in Met(r) : ~(Rank(pc[r]) <= CheckedAt(c) /\ CheckedAt(c) < Rank(l)),
         Rank(l) <= 5 \/ Rank(pc[r]) > 5, Rank(l) <= 8 \/ Rank(pc[r]) > 8,
         Rank(l) <= 13 \/ Rank(pc[r]) > 13
  PROVE  Screened(r)'
<1>1. pc'[r] = l
  BY DEF Go, TypeOK
<1>2. \A c \in Met(r) : Rank(l) <= CheckedAt(c)
  BY MetAt DEF Screened, Cleared
<1>3. Cleared(r, l)'
  BY <1>2, MetStays DEF Screened, Cleared
<1>4. ~Forwarded(r)'
  BY DEF Undecided, Forwarded
<1> QED
  BY <1>1, <1>3, <1>4 DEF Screened, Skipped

(* A refusal keeps what was checked.                                       *)
LEMMA AnsweredScreened ==
  ASSUME TypeOK, NEW r \in Requests, Screened(r), Undecided, pc[r] \in Arms,
         NEW l, l \notin Arms, Go(r, l), UNCHANGED <<shape, skip, inner>>
  PROVE  Screened(r)'
<1>1. pc'[r] = l
  BY DEF Go, TypeOK
<1>2. ~Forwarded(r)'
  BY DEF Undecided, Forwarded
<1> QED
  BY <1>1, <1>2 DEF Screened, Skipped

(* A pass of an arm that checks nothing, or found nothing.                 *)
LEMMA PassScreened ==
  ASSUME TypeOK, NEW r \in Requests, Screened(r), Undecided, UNCHANGED shape,
         pc[r] \in Arms \ {"exclude", "ip_gate", "body", "scan"}, NEW l \in Arms, Pass(r, l),
         \/ Rank(l) = Rank(pc[r]) + 1
         \/ pc[r] = "tiers" /\ l = "detection",
         \A c \in Met(r) : CheckedAt(c) # Rank(pc[r])
  PROVE  Screened(r)'
<1>1. CASE shape[r].kind = "excluded"
  <2>1. pc[r] = "forward"
    BY <1>1 DEF Screened
  <2> QED
    BY <2>1 DEF Rank, Arms
<1>2. CASE shape[r].kind # "excluded"
  <2>1. /\ Rank(pc[r]) \in Nat /\ Rank(pc[r]) # 5 /\ Rank(pc[r]) # 8 /\ Rank(pc[r]) # 13
        /\ Rank(l) \in Nat
    <3>1. Rank(pc[r]) \in Nat /\ Rank(l) \in Nat
      BY RankRange
    <3>2. Rank(pc[r]) # 5 /\ Rank(pc[r]) # 8 /\ Rank(pc[r]) # 13
      BY RankRange
    <3> QED
      BY <3>1, <3>2
  <2>2. \A c \in Met(r) : ~(Rank(pc[r]) <= CheckedAt(c) /\ CheckedAt(c) < Rank(l))
    <3>1. CASE Rank(l) = Rank(pc[r]) + 1
      BY <2>1, <3>1, MetAt
    <3>2. CASE pc[r] = "tiers" /\ l = "detection"
      <4>1. Rank(pc[r]) = 18 /\ Rank(l) = 20
        BY <3>2 DEF Rank
      <4> QED
        BY <4>1, MetAt
    <3> QED
      BY <3>1, <3>2
  <2>3. /\ Rank(l) <= 5 \/ Rank(pc[r]) > 5
        /\ Rank(l) <= 8 \/ Rank(pc[r]) > 8
        /\ Rank(l) <= 13 \/ Rank(pc[r]) > 13
    <3>1. CASE Rank(l) = Rank(pc[r]) + 1
      BY <2>1, <3>1
    <3>2. CASE pc[r] = "tiers" /\ l = "detection"
      BY <3>2 DEF Rank
    <3> QED
      BY <3>1, <3>2
  <2> QED
    BY <1>2, <2>1, <2>2, <2>3, OnScreened DEF Pass, reqVars, outVars
<1> QED
  BY <1>1, <1>2

(* A refusal.                                                              *)
LEMMA RefuseScreened ==
  ASSUME TypeOK, NEW r \in Requests, Screened(r), Undecided, UNCHANGED shape,
         pc[r] \in Arms, NEW c, Refuse(r, c)
  PROVE  Screened(r)'
  BY AnsweredScreened DEF Refuse, Answer, AnswerTo, reqVars, Arms

(* What an arm over one condition lets on does not meet it.                *)
LEMMA CheckScreened ==
  ASSUME TypeOK, NEW r \in Requests, Screened(r), Undecided, UNCHANGED shape,
         NEW arm \in Arms \ {"exclude", "ip_gate", "body", "scan"}, NEW d, NEW excused,
         NEW next \in Arms, Rank(next) = Rank(arm) + 1, Check(r, arm, d, excused, next),
         d \in Met(r) => Tripped(r, d) /\ ~excused,
         \A c \in Met(r) : CheckedAt(c) = Rank(arm) => c = d
  PROVE  Screened(r)'
<1>1. CASE Refuse(r, d)
  BY <1>1, RefuseScreened DEF Check
<1>2. CASE Pass(r, next) /\ (excused \/ ~Tripped(r, d))
  <2>1. \A c \in Met(r) : CheckedAt(c) # Rank(pc[r])
    BY <1>2 DEF Check
  <2> QED
    BY <1>2, <2>1, PassScreened DEF Check
<1> QED
  BY <1>1, <1>2 DEF Check

(* What an arm over the route's condition and the stage's lets on meets    *)
(* neither.                                                                *)
LEMMA RouteThenStageScreened ==
  ASSUME TypeOK, NEW r \in Requests, Screened(r), Undecided, UNCHANGED shape,
         NEW arm \in Arms \ {"exclude", "ip_gate", "body", "scan"}, NEW d, NEW e,
         NEW next \in Arms, Rank(next) = Rank(arm) + 1, RouteThenStage(r, arm, d, e, next),
         d \in Met(r) => Tripped(r, d), e \in Met(r) => Tripped(r, e),
         \A c \in Met(r) : CheckedAt(c) = Rank(arm) => c \in {d, e}
  PROVE  Screened(r)'
<1>1. CASE Refuse(r, d) \/ Refuse(r, e)
  BY <1>1, RefuseScreened DEF RouteThenStage
<1>2. CASE Pass(r, next) /\ ~Tripped(r, d) /\ ~Tripped(r, e)
  <2>1. \A c \in Met(r) : CheckedAt(c) # Rank(pc[r])
    BY <1>2 DEF RouteThenStage
  <2> QED
    BY <1>2, <2>1, PassScreened DEF RouteThenStage
<1> QED
  BY <1>1, <1>2 DEF RouteThenStage

(* A condition the request meets trips the arm that checks it.             *)
LEMMA MetTrips ==
  ASSUME NEW r, NEW c \in Met(r)
  PROVE  /\ Tripped(r, c)
         /\ c \in IpChecks => ~Bypassed(r, "ip")
         /\ c \in AddressChecks => Attributed(r)
         /\ c \in CloudChecks => ~Bypassed(r, "clouds")
         /\ c \in SkippableChecks => ~StaleSkip(r)
  BY DEF Met, Tripped, Waives, Bypassed, StaleSkip

(* The arms ahead of the gate.                                             *)
LEMMA EarlyScreened ==
  ASSUME TypeOK, NEW r \in Requests, Screened(r), Undecided, UNCHANGED shape,
         Exclude(r) \/ Preflight(r) \/ UsageRules(r)
  PROVE  Screened(r)'
<1>1. CASE Exclude(r)
  <2>1. CASE shape[r].kind = "excluded"
    <3>1. pc'[r] = "forward" /\ UNCHANGED <<inner, skip>>
      BY <1>1, <2>1 DEF Exclude, Pass, Go, TypeOK, reqVars, outVars
    <3> QED
      BY <2>1, <3>1 DEF Screened, Skipped
  <2>2. CASE shape[r].kind # "excluded"
    <3>1. /\ pc[r] = "exclude" /\ Go(r, "preflight")
          /\ UNCHANGED <<shape, skip, inner, body, verdict>>
      BY <1>1, <2>2 DEF Exclude, Pass, reqVars, outVars
    <3>2. "exclude" \in Arms /\ "preflight" \in Arms
      BY DEF Arms
    <3>3. Rank("exclude") = 0 /\ Rank("preflight") = 1
      BY DEF Rank
    <3>4. \A c \in Met(r) : CheckedAt(c) # 0 /\ CheckedAt(c) \in 3 .. 21
      BY MetAt
    <3> QED
      BY <2>2, <3>1, <3>2, <3>3, <3>4, OnScreened
  <2> QED
    BY <2>1, <2>2
<1>2. CASE Preflight(r)
  <2>1. "preflight" \in Arms /\ "usage" \in Arms /\ "closed" \notin Arms
    BY DEF Arms
  <2>2. Rank("preflight") = 1 /\ Rank("usage") = 2
    BY DEF Rank
  <2>3. \A c \in Met(r) : CheckedAt(c) # 1
    BY MetAt
  <2>4. CASE AnswerTo(r, "preflight", "closed") /\ UNCHANGED reqVars
    BY <1>2, <2>1, <2>4, AnsweredScreened DEF Preflight, AnswerTo, reqVars
  <2>5. CASE Pass(r, "usage")
    BY <1>2, <2>1, <2>2, <2>3, <2>5, PassScreened DEF Preflight
  <2> QED
    BY <1>2, <2>4, <2>5 DEF Preflight
<1>3. CASE UsageRules(r)
  <2>1. "usage" \in Arms /\ "route_ip" \in Arms /\ "respond" \notin Arms
    BY DEF Arms
  <2>2. Rank("usage") = 2 /\ Rank("route_ip") = 3
    BY DEF Rank
  <2>3. \A c \in Met(r) : CheckedAt(c) # 2
    BY MetAt
  <2>4. CASE Pass(r, "route_ip")
    BY <1>3, <2>1, <2>2, <2>3, <2>4, PassScreened DEF UsageRules
  <2>5. CASE Go(r, "route_ip") /\ UNCHANGED <<reqVars, outVars>>
    <3>1. shape[r].kind # "excluded"
      BY <1>3, <2>1 DEF UsageRules, Screened
    <3>2. \A c \in Met(r) : CheckedAt(c) # 2 /\ CheckedAt(c) \in 3 .. 21
      BY MetAt
    <3> QED
      BY <1>3, <2>1, <2>2, <2>5, <3>1, <3>2, OnScreened DEF UsageRules, reqVars, outVars
  <2>6. CASE Answer(r, "usage_ban") /\ UNCHANGED reqVars
    BY <1>3, <2>1, <2>6, AnsweredScreened DEF UsageRules, Answer, AnswerTo, reqVars
  <2> QED
    BY <1>3, <2>4, <2>5, <2>6 DEF UsageRules
<1> QED
  BY <1>1, <1>2, <1>3

(* An arm ahead of the gate that notes which lists the route takes out.    *)
LEMMA NotedScreened ==
  ASSUME TypeOK, NEW r \in Requests, Screened(r), Undecided, UNCHANGED shape,
         pc[r] \in {"route_ip", "route_country"}, NEW l \in {"route_country", "ip_gate"},
         Rank(l) = Rank(pc[r]) + 1, Go(r, l), UNCHANGED <<body, verdict, outVars>>,
         \A c \in Met(r) : CheckedAt(c) # Rank(pc[r]),
         \/ skip' = skip
         \/ /\ skip' = [skip EXCEPT ![r] = @ \cup {"ip_lists"}]
            /\ "ip_whitelist" \in shape[r].route
         \/ /\ skip' = [skip EXCEPT ![r] = @ \cup {"countries"}]
            /\ "country_whitelist" \in shape[r].route
  PROVE  Screened(r)'
<1>1. pc'[r] = l /\ l \in Arms /\ l # "forward" /\ pc[r] \in Arms /\ pc[r] \notin {"exclude", "forward"}
  BY DEF Go, TypeOK, Arms
<1>2. shape[r].kind # "excluded"
  BY <1>1 DEF Screened
<1>3. Rank("route_ip") = 3 /\ Rank("route_country") = 4 /\ Rank("ip_gate") = 5
  BY DEF Rank
<1>4. \A c \in Met(r) : CheckedAt(c) \in 3 .. 21
  BY MetAt
<1>5. \A c \in Met(r) : Rank(l) <= CheckedAt(c)
  BY <1>1, <1>2, <1>3, <1>4 DEF Screened, Cleared
<1>6. Rank(l) <= 5
  BY <1>3
<1>7. Cleared(r, l)'
  BY <1>3, <1>5, <1>6, MetStays DEF Cleared
<1>8. Skipped(r)'
  BY DEF Skipped, Screened, TypeOK, ReqTypeOK
<1>9. ~Forwarded(r)'
  BY <1>1 DEF Undecided, Forwarded, outVars
<1> QED
  BY <1>1, <1>2, <1>7, <1>8, <1>9 DEF Screened

(* The route's own address and country rules.                              *)
LEMMA RouteScreened ==
  ASSUME TypeOK, NEW r \in Requests, Screened(r), Undecided, UNCHANGED shape,
         RouteIp(r) \/ RouteCountries(r)
  PROVE  Screened(r)'
<1>1. {"route_ip", "route_country", "ip_gate"} \subseteq Arms
  BY DEF Arms
<1>2. Rank("route_ip") = 3 /\ Rank("route_country") = 4 /\ Rank("ip_gate") = 5
  BY DEF Rank
<1>3. {"bad_route_ip", "route_ip", "route_country"} \subseteq IpChecks
      /\ {"route_ip", "route_country"} \subseteq AddressChecks
  BY DEF IpChecks, AddressChecks
<1>4. CASE RouteIp(r)
  <2>1. CASE Refuse(r, "bad_route_ip") \/ Refuse(r, "route_ip")
    BY <1>1, <1>4, <2>1, RefuseScreened DEF RouteIp
  <2>2. CASE Bypassed(r, "ip") /\ Pass(r, "route_country")
    <3>1. \A c \in Met(r) : CheckedAt(c) # 3
      BY <1>3, <2>2, MetAt, MetTrips
    <3> QED
      BY <1>1, <1>2, <1>4, <2>2, <3>1, PassScreened DEF RouteIp
  <2>3. CASE /\ ~Tripped(r, "bad_route_ip") /\ ~(Attributed(r) /\ Tripped(r, "route_ip"))
             /\ skip' = IF "ip_whitelist" \in shape[r].route
                          THEN [skip EXCEPT ![r] = @ \cup {"ip_lists"}] ELSE skip
             /\ Go(r, "route_country")
             /\ UNCHANGED <<gate, body, verdict, outVars, procVars, stageVars>>
    <3>1. \A c \in Met(r) : CheckedAt(c) # 3
      BY <1>3, <2>3, MetAt, MetTrips
    <3>2. \/ skip' = skip
          \/ /\ skip' = [skip EXCEPT ![r] = @ \cup {"ip_lists"}]
             /\ "ip_whitelist" \in shape[r].route
      BY <2>3
    <3>3. pc[r] = "route_ip" /\ UNCHANGED <<body, verdict, outVars>>
      BY <1>4, <2>3 DEF RouteIp
    <3>4. /\ pc[r] \in {"route_ip", "route_country"}
          /\ Rank("route_country") = Rank(pc[r]) + 1
          /\ \A c \in Met(r) : CheckedAt(c) # Rank(pc[r])
      BY <1>2, <3>1, <3>3
    <3>5. Go(r, "route_country")
      BY <2>3
    <3> QED
      BY <3>2, <3>3, <3>4, <3>5, NotedScreened
  <2> QED
    BY <1>4, <2>1, <2>2, <2>3 DEF RouteIp
<1>5. CASE RouteCountries(r)
  <2>1. CASE Refuse(r, "route_country")
    BY <1>1, <1>5, <2>1, RefuseScreened DEF RouteCountries
  <2>2. CASE /\ ~(~Bypassed(r, "ip") /\ Attributed(r) /\ Tripped(r, "route_country"))
             /\ skip' = IF ~Bypassed(r, "ip") /\ Attributed(r) /\ "country_whitelist" \in shape[r].route
                          THEN [skip EXCEPT ![r] = @ \cup {"countries"}] ELSE skip
             /\ Go(r, "ip_gate")
             /\ UNCHANGED <<gate, body, verdict, outVars, procVars, stageVars>>
    <3>1. \A c \in Met(r) : CheckedAt(c) # 4
      BY <1>3, <2>2, MetAt, MetTrips
    <3>2. \/ skip' = skip
          \/ /\ skip' = [skip EXCEPT ![r] = @ \cup {"countries"}]
             /\ "country_whitelist" \in shape[r].route
      BY <2>2
    <3>3. pc[r] = "route_country" /\ UNCHANGED <<body, verdict, outVars>>
      BY <1>5, <2>2 DEF RouteCountries
    <3>4. /\ pc[r] \in {"route_ip", "route_country"}
          /\ Rank("ip_gate") = Rank(pc[r]) + 1
          /\ \A c \in Met(r) : CheckedAt(c) # Rank(pc[r])
      BY <1>2, <3>1, <3>3
    <3>5. Go(r, "ip_gate")
      BY <2>2
    <3> QED
      BY <3>2, <3>3, <3>4, <3>5, NotedScreened
  <2> QED
    BY <1>5, <2>1, <2>2 DEF RouteCountries
<1> QED
  BY <1>4, <1>5

(* The gate lets no address on that the lists deny and that they decide.   *)
LEMMA GateScreened ==
  ASSUME TypeOK, NEW r \in Requests, Screened(r), Undecided, UNCHANGED shape, IpGate(r)
  PROVE  Screened(r)'
<1>1. pc[r] = "ip_gate"
  BY DEF IpGate
<1>2. {"ip_gate", "emergency"} \subseteq Arms /\ "respond_owned" \notin Arms
  BY DEF Arms
<1>3. Rank("ip_gate") = 5 /\ Rank("emergency") = 6
  BY DEF Rank
<1>4. CASE AnswerTo(r, "ip_gate", "respond_owned") /\ UNCHANGED reqVars
  BY <1>1, <1>2, <1>4, AnsweredScreened DEF AnswerTo, reqVars
<1>5. CASE Go(r, "emergency") /\ UNCHANGED <<skip, body, verdict, outVars>> /\ ListsPass(r)
  <2>1. pc'[r] = "emergency" /\ shape[r].kind # "excluded"
    BY <1>1, <1>2, <1>5 DEF Go, TypeOK, Screened
  <2>2. \A c \in Met(r) : CheckedAt(c) # 5 /\ CheckedAt(c) \in 3 .. 21
    BY MetAt
  <2>3. \A c \in Met(r) : 6 <= CheckedAt(c)
    BY <1>1, <1>2, <1>3, <2>1, <2>2 DEF Screened, Cleared
  <2>4. Cleared(r, "emergency")'
    BY <1>3, <1>5, <2>3, MetStays DEF Cleared
  <2>5. ~Forwarded(r)'
    BY <1>1, <1>2, <1>5 DEF Undecided, Forwarded, outVars
  <2> QED
    BY <1>2, <1>5, <2>1, <2>4, <2>5 DEF Screened, Skipped
<1>6. GateRuns(r) \/ ListsPass(r)
  BY DEF GateRuns, ListsPass, ListsApply, Waives, Bypassed, Screened, Skipped
<1>7. Passive(r) => ListsPass(r)
  BY DEF ListsPass, ListsApply
<1>8. ~GateDenies(Ip(r)) => ListsPass(r)
  BY DEF ListsPass
<1> QED
  BY <1>4, <1>5, <1>6, <1>7, <1>8 DEF IpGate, Pass, reqVars

(* The arms over an installed stage's condition, and those over the        *)
(* route's and the stage's.                                                *)
LEMMA ConditionsScreened ==
  ASSUME TypeOK, NEW r \in Requests, Screened(r), Undecided, UNCHANGED shape,
         \/ Emergency(r) \/ HttpsRedirect(r) \/ HeadersAuth(r) \/ Referrer(r)
         \/ CustomValidators(r) \/ TimeWindow(r) \/ GeoBlocking(r) \/ CustomRequest(r)
  PROVE  Screened(r)'
<1>1. {"emergency", "https", "headers", "referrer", "validator", "time_window",
       "geo", "custom"} \subseteq Arms \ {"exclude", "ip_gate", "body", "scan"}
      /\ {"https", "body", "referrer", "validator", "time_window", "scan", "cloud", "forward"}
           \subseteq Arms
  BY DEF Arms
<1>2. /\ Rank("emergency") = 6 /\ Rank("https") = 7 /\ Rank("body") = 8 /\ Rank("headers") = 9
      /\ Rank("referrer") = 10 /\ Rank("validator") = 11 /\ Rank("time_window") = 12
      /\ Rank("scan") = 13 /\ Rank("geo") = 15 /\ Rank("cloud") = 16
      /\ Rank("custom") = 21 /\ Rank("forward") = 22
  BY DEF Rank
<1> DEFINE never == FALSE
<1>n. ~never
  OBVIOUS
<1>0. /\ Emergency(r) => Check(r, "emergency", "emergency", never, "https")
      /\ HttpsRedirect(r) => Check(r, "https", "https", never, "body")
      /\ CustomRequest(r) => Check(r, "custom", "custom_request", never, "forward")
  BY DEF Emergency, HttpsRedirect, CustomRequest
<1> HIDE DEF never
<1>3. CASE Emergency(r)
  <2>1. \A c \in Met(r) : CheckedAt(c) = Rank("emergency") => c = "emergency"
    BY <1>2, MetAt
  <2> QED
    BY <1>n, <1>0, <1>1, <1>2, <1>3, <2>1, MetTrips, CheckScreened
<1>4. CASE HttpsRedirect(r)
  <2>1. \A c \in Met(r) : CheckedAt(c) = Rank("https") => c = "https"
    BY <1>2, MetAt
  <2> QED
    BY <1>n, <1>0, <1>1, <1>2, <1>4, <2>1, MetTrips, CheckScreened
<1>5. CASE CustomRequest(r)
  <2>1. \A c \in Met(r) : CheckedAt(c) = Rank("custom") => c = "custom_request"
    BY <1>2, MetAt
  <2> QED
    BY <1>n, <1>0, <1>1, <1>2, <1>5, <2>1, MetTrips, CheckScreened
<1>6. CASE GeoBlocking(r)
  <2>1. \A c \in Met(r) : CheckedAt(c) = Rank("geo") => c = "geo"
    BY <1>2, MetAt
  <2> DEFINE excused == Bypassed(r, "ip") \/ "countries" \in skip[r] \/ StaleSkip(r) \/ ~Attributed(r)
  <2>2. "geo" \in Met(r) => Tripped(r, "geo") /\ ~excused
    <3>1. "geo" \in IpChecks /\ "geo" \in AddressChecks /\ "geo" \in SkippableChecks
      BY DEF IpChecks, AddressChecks, SkippableChecks
    <3>2. "geo" \in Met(r) => "countries" \notin skip[r]
      BY DEF Met, Screened, Skipped
    <3> QED
      BY <3>1, <3>2, MetTrips
  <2>3. Check(r, "geo", "geo", excused, "cloud")
    BY <1>6 DEF GeoBlocking
  <2> HIDE DEF excused
  <2> QED
    BY <1>1, <1>2, <2>1, <2>2, <2>3, CheckScreened
<1>7. CASE HeadersAuth(r)
  <2>1. \A c \in Met(r) : CheckedAt(c) = Rank("headers") => c \in {"route_headers", "headers"}
    BY <1>2, MetAt
  <2> QED
    BY <1>1, <1>2, <1>7, <2>1, MetTrips, RouteThenStageScreened DEF HeadersAuth
<1>8. CASE Referrer(r)
  <2>1. \A c \in Met(r) : CheckedAt(c) = Rank("referrer") => c \in {"route_referrer", "referrer"}
    BY <1>2, MetAt
  <2> QED
    BY <1>1, <1>2, <1>8, <2>1, MetTrips, RouteThenStageScreened DEF Referrer
<1>9. CASE CustomValidators(r)
  <2>1. \A c \in Met(r) : CheckedAt(c) = Rank("validator") => c \in {"route_validator", "validator"}
    BY <1>2, MetAt
  <2> QED
    BY <1>1, <1>2, <1>9, <2>1, MetTrips, RouteThenStageScreened DEF CustomValidators
<1>10. CASE TimeWindow(r)
  <2>1. \A c \in Met(r) : CheckedAt(c) = Rank("time_window") =>
          c \in {"route_time_window", "time_window"}
    BY <1>2, MetAt
  <2> QED
    BY <1>1, <1>2, <1>10, <2>1, MetTrips, RouteThenStageScreened DEF TimeWindow
<1> QED
  BY <1>3, <1>4, <1>5, <1>6, <1>7, <1>8, <1>9, <1>10

(* The body buffer and the scan.                                           *)
LEMMA BodyScreened ==
  ASSUME TypeOK, NEW r \in Requests, Screened(r), Undecided, UNCHANGED shape,
         BufferBody(r) \/ Scan(r)
  PROVE  Screened(r)'
<1>1. {"body", "headers", "scan", "bans"} \subseteq Arms \ {"exclude", "forward"}
  BY DEF Arms
<1>2. Rank("body") = 8 /\ Rank("headers") = 9 /\ Rank("scan") = 13 /\ Rank("bans") = 14
  BY DEF Rank
<1>3. CASE BufferBody(r)
  <2>1. CASE Refuse(r, "too_large") \/ Refuse(r, "read_error")
    BY <1>1, <1>3, <2>1, RefuseScreened DEF BufferBody
  <2>2. CASE /\ shape[r].sends \in {"nothing", "data"}
             /\ body' = [body EXCEPT ![r] =
                           IF shape[r].sends = "data" THEN "held" ELSE "empty"]
             /\ Go(r, "headers")
             /\ UNCHANGED <<gate, skip, verdict, outVars, procVars, stageVars>>
    <3>1. pc[r] = "body" /\ pc'[r] = "headers" /\ shape[r].kind # "excluded"
      BY <1>1, <1>3, <2>2 DEF BufferBody, Go, TypeOK, Screened
    <3>2. \A c \in Met(r) : CheckedAt(c) # 8 /\ CheckedAt(c) \in 3 .. 21
      BY MetAt
    <3>3. \A c \in Met(r) : 9 <= CheckedAt(c)
      BY <1>1, <1>2, <3>1, <3>2 DEF Screened, Cleared
    <3>4. ListsPass(r)
      BY <1>1, <1>2, <3>1 DEF Screened, Cleared
    <3>5. body'[r] = "held" <=> shape[r].sends = "data"
      BY <2>2 DEF TypeOK, ReqTypeOK
    <3>6. Cleared(r, "headers")'
      BY <1>2, <2>2, <3>3, <3>4, <3>5, MetStays DEF Cleared
    <3>7. ~Forwarded(r)'
      BY <1>1, <2>2, <3>1 DEF Undecided, Forwarded, outVars
    <3> QED
      BY <1>1, <2>2, <3>1, <3>6, <3>7 DEF Screened, Skipped
  <2> QED
    BY <1>3, <2>1, <2>2 DEF BufferBody
<1>4. CASE Scan(r)
  <2>1. CASE Refuse(r, "scan_failed")
    BY <1>1, <1>4, <2>1, RefuseScreened DEF Scan
  <2>2. CASE /\ ScanSkipped(r) \/ ~Tripped(r, "scan_failed")
             /\ verdict' = [verdict EXCEPT ![r] = ~ScanSkipped(r) /\ "threat" \in shape[r].trips]
             /\ Go(r, "bans")
             /\ UNCHANGED <<gate, skip, body, outVars, procVars, stageVars>>
    <3>1. pc[r] = "scan" /\ pc'[r] = "bans" /\ shape[r].kind # "excluded"
      BY <1>1, <1>4, <2>2 DEF Scan, Go, TypeOK, Screened
    <3>2. \A c \in DetectionChecks \cap Met(r) : ~ScanSkipped(r) /\ c \in shape[r].trips
      BY DEF Met, ScanSkipped, Bypassed, Waives
    <3>3. "scan_failed" \notin Met(r)
      BY <2>2, <3>2, MetTrips DEF DetectionChecks
    <3>4. \A c \in Met(r) : CheckedAt(c) # 13 /\ CheckedAt(c) \in 3 .. 21
      BY <3>3, MetAt
    <3>5. \A c \in Met(r) : 14 <= CheckedAt(c)
      BY <1>1, <1>2, <3>1, <3>4 DEF Screened, Cleared
    <3>6. "threat" \in Met(r) => verdict'[r]
      BY <2>2, <3>2 DEF DetectionChecks, TypeOK, ReqTypeOK
    <3>7. ListsPass(r) /\ shape[r].sends \in {"nothing", "data"}
          /\ (body[r] = "held" <=> shape[r].sends = "data")
      BY <1>1, <1>2, <3>1 DEF Screened, Cleared
    <3>8. Cleared(r, "bans")'
      BY <1>2, <2>2, <3>5, <3>6, <3>7, MetStays DEF Cleared
    <3>9. ~Forwarded(r)'
      BY <1>1, <2>2, <3>1 DEF Undecided, Forwarded, outVars
    <3> QED
      BY <1>1, <2>2, <3>1, <3>8, <3>9 DEF Screened, Skipped
  <2> QED
    BY <1>4, <2>1, <2>2 DEF Scan
<1> QED
  BY <1>3, <1>4

(* Past the scan, an arm that moves on with nothing left against it.       *)
LEMMA LateScreened ==
  ASSUME TypeOK, NEW r \in Requests, Screened(r), Undecided, pc[r] \in {"tiers", "feed"},
         NEW l \in {"feed", "tier_ban", "feed_ban", "detection"}, Go(r, l),
         UNCHANGED <<shape, skip, inner, body, verdict>>,
         Rank(l) > Rank(pc[r]),
         pc[r] = "tiers" => "bad_tiers" \notin Met(r)
  PROVE  Screened(r)'
<1>1. pc[r] \in Arms /\ l \in Arms /\ pc[r] \notin {"exclude", "forward"}
  BY DEF Arms
<1>2. shape[r].kind # "excluded"
  BY <1>1 DEF Screened
<1>3. /\ Rank("tiers") = 18 /\ Rank("feed") = 19 /\ Rank("tier_ban") = 19
      /\ Rank("feed_ban") = 20 /\ Rank("detection") = 20
  BY DEF Rank
<1>4. Rank(l) \in 19 .. 20 /\ Rank(pc[r]) \in 18 .. 19
  BY <1>3
<1>5. \A c \in Met(r) : ~(Rank(pc[r]) <= CheckedAt(c) /\ CheckedAt(c) < Rank(l))
  <2> SUFFICES ASSUME NEW c \in Met(r), Rank(pc[r]) <= CheckedAt(c), CheckedAt(c) < Rank(l)
               PROVE  FALSE
    OBVIOUS
  <2>1. CheckedAt(c) # 19 /\ CheckedAt(c) \in 3 .. 21 /\ (CheckedAt(c) = 18 => c = "bad_tiers")
    BY MetAt
  <2>2. CheckedAt(c) = 18 /\ Rank(pc[r]) = 18
    BY <1>4, <2>1
  <2> QED
    BY <1>3, <2>1, <2>2
<1> QED
  BY <1>1, <1>2, <1>4, <1>5, OnScreened

(* The ban check, the cloud networks and the user agents.                  *)
LEMMA StoresScreened ==
  ASSUME TypeOK, NEW r \in Requests, Screened(r), Undecided, UNCHANGED shape,
         Bans(r) \/ CloudProvider(r) \/ UserAgent(r)
  PROVE  Screened(r)'
<1>1. {"bans", "cloud", "user_agent"} \subseteq Arms \ {"exclude", "ip_gate", "body", "scan"}
      /\ {"geo", "user_agent", "tiers"} \subseteq Arms
  BY DEF Arms
<1>2. /\ Rank("bans") = 14 /\ Rank("geo") = 15 /\ Rank("cloud") = 16
      /\ Rank("user_agent") = 17 /\ Rank("tiers") = 18
  BY DEF Rank
<1>3. CASE Bans(r)
  <2>1. \A c \in Met(r) : CheckedAt(c) # 14
    BY MetAt
  <2> QED
    BY <1>1, <1>2, <1>3, <2>1, RefuseScreened, PassScreened DEF Bans
<1>4. CASE CloudProvider(r)
  <2> DEFINE excused == Bypassed(r, "clouds") \/ StaleSkip(r) \/ ~Attributed(r)
  <2>1. CASE Refuse(r, "bad_cloud")
    BY <1>1, <1>4, <2>1, RefuseScreened DEF CloudProvider
  <2>2. CASE /\ Bypassed(r, "clouds") \/ ~Tripped(r, "bad_cloud")
             /\ Check(r, "cloud", "cloud", excused, "user_agent")
    <3>1. "bad_cloud" \in CloudChecks /\ "cloud" \in CloudChecks
          /\ "cloud" \in AddressChecks /\ "cloud" \in SkippableChecks
      BY DEF CloudChecks, AddressChecks, SkippableChecks
    <3>2. "bad_cloud" \notin Met(r)
      BY <2>2, <3>1, MetTrips
    <3>3. "cloud" \in Met(r) => Tripped(r, "cloud") /\ ~excused
      BY <3>1, MetTrips
    <3>4. \A c \in Met(r) : CheckedAt(c) = Rank("cloud") => c = "cloud"
      BY <1>2, <3>2, MetAt
    <3> HIDE DEF excused
    <3> QED
      BY <1>1, <1>2, <2>2, <3>3, <3>4, CheckScreened
  <2> QED
    BY <1>4, <2>1, <2>2 DEF CloudProvider
<1>5. CASE UserAgent(r)
  <2>1. CASE Refuse(r, "bad_user_agent")
    BY <1>1, <1>5, <2>1, RefuseScreened DEF UserAgent
  <2>2. \A c \in Met(r) : CheckedAt(c) = Rank("user_agent") =>
          c \in {"route_user_agent", "bad_user_agent", "user_agent"} /\ c \in SkippableChecks
    BY <1>2, MetAt DEF SkippableChecks
  <2>3. CASE StaleSkip(r) /\ Pass(r, "tiers")
    <3>1. \A c \in Met(r) : CheckedAt(c) # Rank("user_agent")
      BY <2>2, <2>3, MetTrips
    <3>2. pc[r] = "user_agent"
      BY <1>5 DEF UserAgent
    <3> QED
      BY <1>1, <1>2, <2>3, <3>1, <3>2, PassScreened
  <2>4. CASE /\ ~Tripped(r, "bad_user_agent")
             /\ RouteThenStage(r, "user_agent", "route_user_agent", "user_agent", "tiers")
    <3>1. \A c \in Met(r) : CheckedAt(c) = Rank("user_agent") =>
            c \in {"route_user_agent", "user_agent"}
      BY <2>2, <2>4, MetTrips
    <3> QED
      BY <1>1, <1>2, <2>4, <3>1, MetTrips, RouteThenStageScreened
  <2> QED
    BY <1>5, <2>1, <2>3, <2>4 DEF UserAgent
<1> QED
  BY <1>3, <1>4, <1>5

(* The limiter, the detection feed and the bans they make.                 *)
LEMMA TiersScreened ==
  ASSUME TypeOK, NEW r \in Requests, Screened(r), Undecided, UNCHANGED shape,
         RateTiers(r) \/ TierBan(r) \/ Feed(r) \/ FeedBan(r)
  PROVE  Screened(r)'
<1>1. {"tiers", "tier_ban", "feed", "feed_ban"} \subseteq Arms \ {"exclude", "ip_gate", "body", "scan"}
      /\ "detection" \in Arms /\ "respond" \notin Arms
  BY DEF Arms
<1>2. /\ Rank("tiers") = 18 /\ Rank("feed") = 19 /\ Rank("tier_ban") = 19
      /\ Rank("feed_ban") = 20 /\ Rank("detection") = 20
  BY DEF Rank
<1>3. CASE RateTiers(r)
  <2>1. CASE Refuse(r, "bad_tiers")
    BY <1>1, <1>3, <2>1, RefuseScreened DEF RateTiers
  <2>2. CASE Answer(r, "rate_limited") /\ UNCHANGED reqVars
    BY <1>1, <1>3, <2>2, AnsweredScreened DEF RateTiers, Answer, AnswerTo, reqVars
  <2>3. CASE /\ ~Tripped(r, "bad_tiers") /\ UNCHANGED <<reqVars, outVars>>
             /\ \E l \in {"feed", "tier_ban", "detection"} : Go(r, l)
    <3>1. "bad_tiers" \notin Met(r)
      BY <2>3, MetTrips
    <3>2. pc[r] = "tiers" /\ UNCHANGED <<skip, inner, body, verdict>>
      BY <1>3, <2>3 DEF RateTiers, reqVars, outVars
    <3>3. \A l \in {"feed", "tier_ban", "detection"} : Rank(l) > Rank(pc[r])
      BY <1>2, <3>2
    <3> QED
      BY <2>3, <3>1, <3>2, <3>3, LateScreened
  <2> QED
    BY <1>3, <2>1, <2>2, <2>3 DEF RateTiers, Pass, Refuse
<1>4. CASE TierBan(r) \/ FeedBan(r)
  <2>1. \E c : Answer(r, c)
    BY <1>4 DEF TierBan, FeedBan
  <2>2. pc[r] \in Arms /\ UNCHANGED reqVars
    BY <1>1, <1>4 DEF TierBan, FeedBan
  <2> QED
    BY <1>1, <2>1, <2>2, AnsweredScreened DEF Answer, AnswerTo, reqVars
<1>5. CASE Feed(r)
  <2>1. pc[r] = "feed" /\ UNCHANGED <<skip, inner, body, verdict>>
        /\ \E l \in {"feed_ban", "detection"} : Go(r, l)
    BY <1>5 DEF Feed, reqVars
  <2>2. \A l \in {"feed_ban", "detection"} : Rank(l) > Rank(pc[r])
    BY <1>2, <2>1
  <2> QED
    BY <2>1, <2>2, LateScreened
<1> QED
  BY <1>3, <1>4, <1>5

(* The adapter's own block, and the call of the wrapped service.           *)
LEMMA ForwardScreened ==
  ASSUME TypeOK, NEW r \in Requests, Screened(r), Undecided, UNCHANGED shape,
         DetectionBlock(r) \/ CallInner(r)
  PROVE  Screened(r)'
<1>1. "detection" \in Arms \ {"exclude", "ip_gate", "body", "scan"}
      /\ {"custom", "forward"} \subseteq Arms /\ "inner" \notin Arms
  BY DEF Arms
<1>2. Rank("detection") = 20 /\ Rank("custom") = 21 /\ Rank("forward") = 22
  BY DEF Rank
<1>3. CASE DetectionBlock(r)
  <2>1. CASE Refuse(r, "suspicious")
    BY <1>1, <1>3, <2>1, RefuseScreened DEF DetectionBlock
  <2>2. CASE ~(verdict[r] /\ ~Passive(r)) /\ Pass(r, "custom")
    <3>1. pc[r] = "detection"
      BY <1>3 DEF DetectionBlock
    <3>2. shape[r].kind # "excluded"
      BY <1>1, <3>1 DEF Screened
    <3>3. "threat" \notin Met(r)
      BY <1>1, <1>2, <2>2, <3>1, <3>2 DEF Screened, Cleared, Met
    <3>4. \A c \in Met(r) : CheckedAt(c) # Rank(pc[r])
      BY <1>2, <3>1, <3>3, MetAt
    <3> QED
      BY <1>1, <1>2, <2>2, <3>1, <3>4, PassScreened
  <2> QED
    BY <1>3, <2>1, <2>2 DEF DetectionBlock
<1>4. CASE CallInner(r)
  <2>1. /\ pc[r] = "forward" /\ pc'[r] = "inner" /\ skip' = skip
        /\ inner'[r] = IF body[r] = "held" THEN "body" ELSE "empty"
    BY <1>4 DEF CallInner, Go, TypeOK, OutTypeOK, reqVars
  <2>2. CASE shape[r].kind = "excluded"
    BY <1>1, <2>1, <2>2 DEF Screened, Skipped
  <2>3. CASE shape[r].kind # "excluded"
    <3>1. /\ \A c \in Met(r) : 22 <= CheckedAt(c)
          /\ ListsPass(r) /\ shape[r].sends \in {"nothing", "data"}
          /\ (body[r] = "held" <=> shape[r].sends = "data")
      BY <1>1, <1>2, <2>1, <2>3 DEF Screened, Cleared
    <3>2. Met(r) = {}
      BY <3>1, MetAt
    <3>3. Handed(r)'
      BY <2>1, <3>1, <3>2, MetStays DEF Handed
    <3> QED
      BY <1>1, <2>1, <3>3 DEF Screened, Skipped
  <2> QED
    BY <2>2, <2>3
<1> QED
  BY <1>3, <1>4

(* Every step of a request keeps what it was screened for.                 *)
LEMMA StepScreened ==
  ASSUME TypeOK, NEW r \in Requests, Screened(r), Undecided, UNCHANGED shape, Step(r)
  PROVE  Screened(r)'
<1>1. {"body", "inner", "respond_owned", "respond", "closed", "dropped"} \cap Arms = {"body"}
  BY DEF Arms
<1>2. CASE InnerReturns(r) \/ RespondOwned(r) \/ Respond(r) \/ Disconnect(r)
  <2>1. inner' = inner /\ skip' = skip
    BY <1>2 DEF InnerReturns, RespondOwned, Respond, Disconnect, AnswerTo, ResponsePass,
                Pass, outVars, reqVars
  <2>2. pc'[r] \notin Arms
    BY <1>1, <1>2 DEF InnerReturns, RespondOwned, Respond, Disconnect, AnswerTo, Pass, Go, TypeOK
  <2>3. Handed(r)' <=> Handed(r)
    BY <2>1, MetStays DEF Handed
  <2> QED
    BY <2>1, <2>2, <2>3 DEF Screened, Skipped, Forwarded
<1> QED
  BY <1>2, EarlyScreened, RouteScreened, GateScreened, ConditionsScreened, BodyScreened,
     StoresScreened, TiersScreened, ForwardScreened DEF Step, Screens
-----------------------------------------------------------------------------
(* What a refusal rests on.                                                *)

\* What the arms behind it took note of, for the refusals ahead of it: the
\* route's whitelists, the verdict, and why the limiter or the feed bans.
Noted(r, arm) ==
  /\ Rank(arm) > 3 /\ ~Waives(r, "ip") /\ "ip_whitelist" \in shape[r].route =>
       "ip_lists" \in skip[r]
  /\ Rank(arm) > 4 /\ ~Waives(r, "ip") /\ Attributed(r) /\ "country_whitelist" \in shape[r].route =>
       "countries" \in skip[r]
  /\ arm \in {"tier_ban", "feed", "feed_ban"} => ~Waives(r, "rate_limit")
  /\ arm = "tier_ban" => Limited(r)
  /\ arm = "feed_ban" => Counted(r)

Caused(r) ==
  /\ verdict[r] => "threat" \in shape[r].trips /\ ~ScanSkipped(r)
  /\ shape[r].kind # "excluded" /\ pc[r] \in Arms => Noted(r, pc[r])
  /\ answer[r] \in Refusals => shape[r].kind # "excluded" /\ Cause(r, answer[r])

AllCaused == \A r \in Requests : Caused(r)

(* What the request was as it arrived, and its cause, stay.                *)
LEMMA CauseStays ==
  ASSUME NEW r, UNCHANGED shape
  PROVE  /\ Ip(r)' = Ip(r) /\ Attributed(r)' = Attributed(r) /\ Passive(r)' = Passive(r)
         /\ ScanSkipped(r)' = ScanSkipped(r)
         /\ \A check \in CheckNames : Waives(r, check)' = Waives(r, check)
         /\ gate'[r] = gate[r] => \A c : Cause(r, c)' = Cause(r, c)
<1>1. Met(r)' = Met(r)
  BY MetStays
<1>2. /\ Ip(r)' = Ip(r) /\ Attributed(r)' = Attributed(r) /\ Passive(r)' = Passive(r)
      /\ ScanSkipped(r)' = ScanSkipped(r) /\ HasUsageRules(r)' = HasUsageRules(r)
      /\ \A check : Waives(r, check)' = Waives(r, check)
  BY DEF Ip, Attributed, Passive, ScanSkipped, HasUsageRules, Bypassed, Waives
<1>3. ASSUME gate'[r] = gate[r], NEW c PROVE Cause(r, c)' = Cause(r, c)
  BY <1>1, <1>2, <1>3 DEF Cause, ListsApply, GateDenies
<1> QED
  BY <1>2, <1>3

(* An arm lets a request on.                                               *)
LEMMA OnCaused ==
  ASSUME TypeOK, Undecided, NEW r \in Requests, Caused(r), UNCHANGED <<shape, verdict, answer>>,
         pc[r] \in Arms \cup {"inner"}, NEW l, Go(r, l),
         shape[r].kind # "excluded" /\ l \in Arms => Noted(r, l)'
  PROVE  Caused(r)'
<1>1. pc'[r] = l /\ answer'[r] = "none"
  BY DEF Go, TypeOK, Undecided
<1>2. "none" \notin Refusals
  BY DEF Refusals, RouteConditions, StageConditions
<1>3. ScanSkipped(r)' = ScanSkipped(r)
  BY CauseStays
<1> QED
  BY <1>1, <1>2, <1>3 DEF Caused

(* What was noted is still so at a later arm, past the route's own rules.  *)
LEMMA NotedStays ==
  ASSUME NEW r, UNCHANGED <<shape, skip>>, NEW arm, NEW l, Noted(r, arm),
         Rank(l) <= 3 \/ Rank(arm) > 4, Rank(l) \in Nat, Rank(arm) \in Nat,
         l \notin {"tier_ban", "feed", "feed_ban"}
  PROVE  Noted(r, l)'
<1>1. /\ Attributed(r)' = Attributed(r) /\ Waives(r, "ip")' = Waives(r, "ip")
  BY CauseStays DEF CheckNames
<1> QED
  BY <1>1 DEF Noted

(* An arm that notes nothing lets a request on.                            *)
LEMMA PassCaused ==
  ASSUME TypeOK, Undecided, NEW r \in Requests, Screened(r), Caused(r), UNCHANGED shape,
         pc[r] \in Arms, NEW l \in Arms \ {"tier_ban", "feed", "feed_ban"}, Pass(r, l),
         Rank(l) <= 3 \/ Rank(pc[r]) > 4
  PROVE  Caused(r)'
<1>1. Rank(l) \in Nat /\ Rank(pc[r]) \in Nat
  BY RankRange
<1>2. shape[r].kind # "excluded" => Noted(r, l)'
  BY <1>1, NotedStays DEF Pass, reqVars, Caused
<1> QED
  BY <1>2, OnCaused DEF Pass, reqVars, outVars

(* An answer that has its cause.                                           *)
LEMMA AnswerCaused ==
  ASSUME TypeOK, NEW r \in Requests, Caused(r), UNCHANGED <<shape, gate, verdict>>,
         NEW c, NEW l, l \notin Arms, AnswerTo(r, c, l),
         c \in Refusals => shape[r].kind # "excluded" /\ Cause(r, c)
  PROVE  Caused(r)'
<1>1. pc'[r] = l /\ answer'[r] = c
  BY DEF AnswerTo, Go, TypeOK, OutTypeOK
<1>2. ScanSkipped(r)' = ScanSkipped(r) /\ (Cause(r, c)' <=> Cause(r, c))
  BY CauseStays
<1> QED
  BY <1>1, <1>2 DEF Caused

(* What an arm trips over, and nothing excuses, is met.                    *)
LEMMA TrippedMet ==
  ASSUME NEW r, NEW c \in RouteConditions \cup StageConditions, Tripped(r, c),
         c \in IpChecks => ~Bypassed(r, "ip"), c \in AddressChecks => Attributed(r),
         c \in CloudChecks => ~Bypassed(r, "clouds"), c \in SkippableChecks => ~StaleSkip(r),
         c \in DetectionChecks => ~ScanSkipped(r),
         c = "geo" => "country_whitelist" \notin shape[r].route
  PROVE  c \in Met(r)
<1>1. c # "threat"
  BY DEF RouteConditions, StageConditions
<1>2. /\ c \in StageConditions => ~Passive(r)
      /\ c \in shape[r].trips
  BY DEF Tripped
<1> QED
  BY <1>1, <1>2 DEF Met, Waives, Bypassed, StaleSkip, ScanSkipped

(* A refusal on a condition that is met.                                   *)
LEMMA RefuseCaused ==
  ASSUME TypeOK, NEW r \in Requests, Screened(r), Caused(r), UNCHANGED shape,
         pc[r] \in Arms \ {"exclude", "forward"},
         NEW c \in RouteConditions \cup StageConditions, Refuse(r, c), c \in Met(r)
  PROVE  Caused(r)'
<1>1. shape[r].kind # "excluded"
  BY DEF Screened
<1>2. "respond" \notin Arms
  BY DEF Arms
<1>3. c \notin {"usage_ban", "ip_gate", "too_large", "read_error", "banned", "rate_limited",
                "activity_banned", "suspicious"}
  BY DEF RouteConditions, StageConditions
<1>4. Cause(r, c)
  BY <1>3 DEF Cause
<1> QED
  BY <1>1, <1>2, <1>4, AnswerCaused DEF Refuse, Answer, reqVars

(* An arm over one condition.                                              *)
LEMMA CheckCaused ==
  ASSUME TypeOK, Undecided, NEW r \in Requests, Screened(r), Caused(r), UNCHANGED shape,
         NEW arm \in Arms \ {"exclude", "forward"}, Rank(arm) > 4,
         NEW c \in RouteConditions \cup StageConditions, NEW excused,
         NEW next \in Arms \ {"tier_ban", "feed", "feed_ban"}, Check(r, arm, c, excused, next),
         ~excused /\ Tripped(r, c) => c \in Met(r)
  PROVE  Caused(r)'
  BY PassCaused, RefuseCaused DEF Check

(* An arm over the route's condition and the stage's.                      *)
LEMMA RouteThenStageCaused ==
  ASSUME TypeOK, Undecided, NEW r \in Requests, Screened(r), Caused(r), UNCHANGED shape,
         NEW arm \in Arms \ {"exclude", "forward"}, Rank(arm) > 4,
         NEW c \in RouteConditions, NEW d \in StageConditions,
         NEW next \in Arms \ {"tier_ban", "feed", "feed_ban"},
         RouteThenStage(r, arm, c, d, next),
         Tripped(r, c) => c \in Met(r), Tripped(r, d) => d \in Met(r)
  PROVE  Caused(r)'
  BY PassCaused, RefuseCaused DEF RouteThenStage

(* The arms up to the usage rules.                                         *)
LEMMA EarlyCaused ==
  ASSUME TypeOK, Undecided, NEW r \in Requests, Screened(r), Caused(r), UNCHANGED shape,
         Exclude(r) \/ Preflight(r) \/ UsageRules(r)
  PROVE  Caused(r)'
<1>1. /\ {"exclude", "preflight", "usage", "route_ip"} \subseteq Arms \ {"tier_ban", "feed", "feed_ban"}
      /\ "forward" \in Arms /\ "respond" \notin Arms /\ "closed" \notin Arms
  BY DEF Arms
<1>2. Rank("preflight") = 1 /\ Rank("usage") = 2 /\ Rank("route_ip") = 3
  BY DEF Rank
<1>3. CASE Exclude(r)
  <2>1. CASE shape[r].kind = "excluded"
    <3>1. pc[r] = "exclude" /\ Go(r, "forward") /\ UNCHANGED <<verdict, answer>>
      BY <1>3, <2>1 DEF Exclude, Pass, reqVars, outVars
    <3> QED
      BY <1>1, <2>1, <3>1, OnCaused
  <2>2. CASE shape[r].kind # "excluded"
    BY <1>1, <1>2, <1>3, <2>2, PassCaused DEF Exclude
  <2> QED
    BY <2>1, <2>2
<1>4. CASE Preflight(r)
  <2>1. "preflight" \notin Refusals
    BY DEF Refusals, RouteConditions, StageConditions
  <2>2. CASE AnswerTo(r, "preflight", "closed") /\ UNCHANGED reqVars
    BY <1>1, <2>1, <2>2, AnswerCaused DEF reqVars
  <2>3. CASE Pass(r, "usage")
    BY <1>1, <1>2, <1>4, <2>3, PassCaused DEF Preflight
  <2> QED
    BY <1>4, <2>2, <2>3 DEF Preflight
<1>5. CASE UsageRules(r)
  <2>1. pc[r] = "usage" /\ shape[r].kind # "excluded"
    BY <1>1, <1>5 DEF UsageRules, Screened
  <2>2. CASE Pass(r, "route_ip")
    BY <1>1, <1>2, <2>1, <2>2, PassCaused
  <2>3. CASE Go(r, "route_ip") /\ UNCHANGED <<reqVars, outVars>>
    <3>1. Noted(r, "usage")
      BY <1>1, <2>1 DEF Caused
    <3>2. Noted(r, "route_ip")'
      BY <1>2, <2>3, <3>1, NotedStays DEF reqVars
    <3> QED
      BY <1>1, <2>1, <2>3, <3>2, OnCaused DEF reqVars, outVars
  <2>4. CASE Answer(r, "usage_ban") /\ UNCHANGED reqVars /\ HasUsageRules(r)
    <3>1. "usage_ban" \notin RouteConditions \cup StageConditions
      BY DEF RouteConditions, StageConditions
    <3>2. Cause(r, "usage_ban")
      BY <2>4, <3>1 DEF Cause
    <3> QED
      BY <1>1, <2>1, <2>4, <3>2, AnswerCaused DEF Answer, reqVars
  <2> QED
    BY <1>5, <2>2, <2>3, <2>4 DEF UsageRules
<1> QED
  BY <1>3, <1>4, <1>5

(* The route's own address and country rules, which note its whitelists.   *)
LEMMA RouteCaused ==
  ASSUME TypeOK, Undecided, NEW r \in Requests, Screened(r), Caused(r), UNCHANGED shape,
         RouteIp(r) \/ RouteCountries(r)
  PROVE  Caused(r)'
<1>1. {"route_ip", "route_country", "ip_gate"} \subseteq Arms \ {"exclude", "forward"}
  BY DEF Arms
<1>2. Rank("route_ip") = 3 /\ Rank("route_country") = 4 /\ Rank("ip_gate") = 5
  BY DEF Rank
<1>3. /\ {"bad_route_ip", "route_ip", "route_country"} \subseteq RouteConditions
      /\ "bad_route_ip" \notin AddressChecks
      /\ {"bad_route_ip", "route_ip", "route_country"} \cap
           (CloudChecks \cup SkippableChecks \cup DetectionChecks) = {}
  BY DEF RouteConditions, AddressChecks, CloudChecks, SkippableChecks, DetectionChecks
<1>4. shape[r].kind # "excluded" /\ Noted(r, pc[r])
  BY <1>1 DEF RouteIp, RouteCountries, Screened, Caused
<1>5. /\ Attributed(r)' = Attributed(r) /\ Waives(r, "ip")' = Waives(r, "ip")
      /\ (Waives(r, "ip") <=> Bypassed(r, "ip"))
  BY CauseStays DEF CheckNames, Waives, Bypassed
<1>6. CASE RouteIp(r)
  <2>1. CASE /\ Refuse(r, "bad_route_ip") /\ Tripped(r, "bad_route_ip") /\ ~Bypassed(r, "ip")
    <3>1. "bad_route_ip" \in Met(r)
      BY <1>3, <2>1, TrippedMet
    <3> QED
      BY <1>1, <1>3, <1>6, <2>1, <3>1, RefuseCaused DEF RouteIp
  <2>2. CASE /\ Refuse(r, "route_ip") /\ Tripped(r, "route_ip") /\ ~Bypassed(r, "ip") /\ Attributed(r)
    <3>1. "route_ip" \in Met(r)
      BY <1>3, <2>2, TrippedMet
    <3> QED
      BY <1>1, <1>3, <1>6, <2>2, <3>1, RefuseCaused DEF RouteIp
  <2>3. CASE Bypassed(r, "ip") /\ Pass(r, "route_country")
    <3>1. Noted(r, "route_country")'
      BY <1>2, <1>5, <2>3 DEF Noted
    <3> QED
      BY <1>1, <1>6, <2>3, <3>1, OnCaused DEF RouteIp, Pass, reqVars, outVars
  <2>4. CASE /\ skip' = IF "ip_whitelist" \in shape[r].route
                          THEN [skip EXCEPT ![r] = @ \cup {"ip_lists"}] ELSE skip
             /\ Go(r, "route_country")
             /\ UNCHANGED <<gate, body, verdict, outVars, procVars, stageVars>>
    <3>1. "ip_whitelist" \in shape[r].route => "ip_lists" \in skip'[r]
      BY <2>4 DEF TypeOK, ReqTypeOK
    <3>2. Noted(r, "route_country")'
      BY <1>2, <1>5, <3>1 DEF Noted
    <3> QED
      BY <1>1, <1>6, <2>4, <3>2, OnCaused DEF RouteIp, outVars
  <2> QED
    BY <1>6, <2>1, <2>2, <2>3, <2>4 DEF RouteIp
<1>7. CASE RouteCountries(r)
  <2>1. CASE /\ Refuse(r, "route_country") /\ Tripped(r, "route_country")
             /\ ~Bypassed(r, "ip") /\ Attributed(r)
    <3>1. "route_country" \in Met(r)
      BY <1>3, <2>1, TrippedMet
    <3> QED
      BY <1>1, <1>3, <1>7, <2>1, <3>1, RefuseCaused DEF RouteCountries
  <2>2. CASE /\ skip' = IF ~Bypassed(r, "ip") /\ Attributed(r) /\ "country_whitelist" \in shape[r].route
                          THEN [skip EXCEPT ![r] = @ \cup {"countries"}] ELSE skip
             /\ Go(r, "ip_gate")
             /\ UNCHANGED <<gate, body, verdict, outVars, procVars, stageVars>>
    <3>1. /\ ~Bypassed(r, "ip") /\ Attributed(r) /\ "country_whitelist" \in shape[r].route =>
               "countries" \in skip'[r]
          /\ "ip_lists" \in skip[r] => "ip_lists" \in skip'[r]
      BY <2>2 DEF TypeOK, ReqTypeOK
    <3>2. Noted(r, "route_country")
      BY <1>4, <1>7 DEF RouteCountries
    <3>3. Noted(r, "ip_gate")'
      BY <1>2, <1>5, <3>1, <3>2 DEF Noted
    <3> QED
      BY <1>1, <1>7, <2>2, <3>3, OnCaused DEF RouteCountries, outVars
  <2> QED
    BY <1>7, <2>1, <2>2 DEF RouteCountries
<1> QED
  BY <1>6, <1>7

(* The gate denies an address the lists decide for.                        *)
LEMMA GateCaused ==
  ASSUME TypeOK, Undecided, NEW r \in Requests, Screened(r), Caused(r), UNCHANGED shape, IpGate(r)
  PROVE  Caused(r)'
<1>1. {"ip_gate", "emergency"} \subseteq Arms \ {"exclude", "forward"} /\ "respond_owned" \notin Arms
  BY DEF Arms
<1>2. Rank("ip_gate") = 5 /\ Rank("emergency") = 6
  BY DEF Rank
<1>3. pc[r] = "ip_gate" /\ shape[r].kind # "excluded" /\ Noted(r, "ip_gate")
  BY <1>1 DEF IpGate, Screened, Caused
<1>4. CASE /\ GateRuns(r) /\ GateDenies(Ip(r)) /\ ~Passive(r)
           /\ AnswerTo(r, "ip_gate", "respond_owned") /\ UNCHANGED reqVars
  <2>1. ListsApply(r)
    BY <1>2, <1>3, <1>4 DEF Noted, ListsApply, GateRuns, Waives, Bypassed
  <2>2. "ip_gate" \notin RouteConditions \cup StageConditions
    BY DEF RouteConditions, StageConditions
  <2>3. Cause(r, "ip_gate")
    BY <1>4, <2>1, <2>2 DEF Cause
  <2> QED
    BY <1>1, <1>3, <1>4, <2>3, AnswerCaused DEF reqVars
<1>5. CASE Go(r, "emergency") /\ UNCHANGED <<skip, body, verdict, outVars>>
  <2>1. Noted(r, "emergency")'
    BY <1>2, <1>3, <1>5, NotedStays
  <2> QED
    BY <1>1, <1>3, <1>5, <2>1, OnCaused DEF outVars
<1> QED
  BY <1>4, <1>5 DEF IpGate, Pass, reqVars

(* The arms over conditions.                                               *)
LEMMA ConditionsCaused ==
  ASSUME TypeOK, Undecided, NEW r \in Requests, Screened(r), Caused(r), UNCHANGED shape,
         \/ Emergency(r) \/ HttpsRedirect(r) \/ HeadersAuth(r) \/ Referrer(r)
         \/ CustomValidators(r) \/ TimeWindow(r) \/ CustomRequest(r)
  PROVE  Caused(r)'
<1>1. /\ {"emergency", "https", "headers", "referrer", "validator", "time_window", "custom"}
           \subseteq Arms \ {"exclude", "forward"}
      /\ {"https", "body", "referrer", "validator", "time_window", "scan", "forward"}
           \subseteq Arms \ {"tier_ban", "feed", "feed_ban"}
  BY DEF Arms
<1>2. /\ Rank("emergency") > 4 /\ Rank("https") > 4 /\ Rank("headers") > 4
      /\ Rank("referrer") > 4 /\ Rank("validator") > 4 /\ Rank("time_window") > 4
      /\ Rank("custom") > 4
  BY DEF Rank
<1> DEFINE
  unexcused == {"route_headers", "headers", "route_referrer", "referrer", "route_validator",
                "validator", "route_time_window", "time_window", "emergency", "https",
                "custom_request"}
<1>3. /\ {"route_headers", "route_referrer", "route_validator", "route_time_window"}
           \subseteq RouteConditions
      /\ {"headers", "referrer", "validator", "time_window", "emergency", "https",
          "custom_request"} \subseteq StageConditions
      /\ \A c \in unexcused : c \in RouteConditions \cup StageConditions
      /\ unexcused \cap (IpChecks \cup AddressChecks \cup CloudChecks \cup SkippableChecks
                           \cup DetectionChecks \cup {"geo"}) = {}
  BY DEF RouteConditions, StageConditions, IpChecks, AddressChecks, CloudChecks,
         SkippableChecks, DetectionChecks
<1>4. \A c \in unexcused : Tripped(r, c) => c \in Met(r)
  <2> SUFFICES ASSUME NEW c \in unexcused, Tripped(r, c) PROVE c \in Met(r)
    OBVIOUS
  <2> HIDE DEF unexcused
  <2> QED
    BY <1>3, TrippedMet
<1> DEFINE never == FALSE
<1>5. /\ Emergency(r) => Check(r, "emergency", "emergency", never, "https")
      /\ HttpsRedirect(r) => Check(r, "https", "https", never, "body")
      /\ CustomRequest(r) => Check(r, "custom", "custom_request", never, "forward")
  BY DEF Emergency, HttpsRedirect, CustomRequest
<1> HIDE DEF never
<1>6. CASE Emergency(r) \/ HttpsRedirect(r) \/ CustomRequest(r)
  BY <1>1, <1>2, <1>3, <1>4, <1>5, <1>6, CheckCaused
<1>7. CASE HeadersAuth(r) \/ Referrer(r)
  BY <1>1, <1>2, <1>3, <1>4, <1>7, RouteThenStageCaused DEF HeadersAuth, Referrer
<1>8. CASE CustomValidators(r) \/ TimeWindow(r)
  BY <1>1, <1>2, <1>3, <1>4, <1>8, RouteThenStageCaused DEF CustomValidators, TimeWindow
<1> QED
  BY <1>6, <1>7, <1>8

(* The countries, the cloud networks and the user agents, which a skip     *)
(* state and the route's own rules may excuse.                             *)
LEMMA SkippableCaused ==
  ASSUME TypeOK, Undecided, NEW r \in Requests, Screened(r), Caused(r), UNCHANGED shape,
         GeoBlocking(r) \/ CloudProvider(r) \/ UserAgent(r)
  PROVE  Caused(r)'
<1>1. /\ {"geo", "cloud", "user_agent"} \subseteq Arms \ {"exclude", "forward"}
      /\ {"cloud", "user_agent", "tiers"} \subseteq Arms \ {"tier_ban", "feed", "feed_ban"}
  BY DEF Arms
<1>2. /\ Rank("geo") > 4 /\ Rank("cloud") > 4 /\ Rank("user_agent") > 4
  BY DEF Rank
<1>3. /\ {"bad_cloud", "route_user_agent", "bad_user_agent"} \subseteq RouteConditions
      /\ {"geo", "cloud", "user_agent"} \subseteq StageConditions
      /\ "geo" \notin CloudChecks \cup DetectionChecks
      /\ "cloud" \notin IpChecks \cup DetectionChecks
      /\ "bad_cloud" \notin IpChecks \cup AddressChecks \cup SkippableChecks \cup DetectionChecks
      /\ {"route_user_agent", "bad_user_agent", "user_agent"} \cap
           (IpChecks \cup AddressChecks \cup CloudChecks \cup DetectionChecks) = {}
  BY DEF RouteConditions, StageConditions, IpChecks, AddressChecks, CloudChecks,
         SkippableChecks, DetectionChecks
<1>4. CASE GeoBlocking(r)
  <2> DEFINE excused == Bypassed(r, "ip") \/ "countries" \in skip[r] \/ StaleSkip(r) \/ ~Attributed(r)
  <2>1. ~excused /\ Tripped(r, "geo") => "geo" \in Met(r)
    <3> SUFFICES ASSUME ~excused, Tripped(r, "geo") PROVE "geo" \in Met(r)
      OBVIOUS
    <3>1. Noted(r, "geo")
      BY <1>1, <1>4 DEF GeoBlocking, Check, Screened, Caused
    <3>2. "country_whitelist" \notin shape[r].route
      BY <1>2, <3>1 DEF Noted, Waives, Bypassed
    <3> QED
      BY <1>3, <3>2, TrippedMet
  <2>2. Check(r, "geo", "geo", excused, "cloud")
    BY <1>4 DEF GeoBlocking
  <2> HIDE DEF excused
  <2> QED
    BY <1>1, <1>2, <1>3, <2>1, <2>2, CheckCaused
<1>5. CASE CloudProvider(r)
  <2> DEFINE excused == Bypassed(r, "clouds") \/ StaleSkip(r) \/ ~Attributed(r)
  <2>1. CASE ~Bypassed(r, "clouds") /\ Tripped(r, "bad_cloud") /\ Refuse(r, "bad_cloud")
    <3>1. "bad_cloud" \in Met(r)
      BY <1>3, <2>1, TrippedMet
    <3> QED
      BY <1>1, <1>3, <1>5, <2>1, <3>1, RefuseCaused DEF CloudProvider
  <2>2. CASE Check(r, "cloud", "cloud", excused, "user_agent")
    <3>1. ~excused /\ Tripped(r, "cloud") => "cloud" \in Met(r)
      BY <1>3, TrippedMet
    <3> HIDE DEF excused
    <3> QED
      BY <1>1, <1>2, <1>3, <2>2, <3>1, CheckCaused
  <2> QED
    BY <1>5, <2>1, <2>2 DEF CloudProvider
<1>6. CASE UserAgent(r)
  <2>1. CASE ~StaleSkip(r) /\ Tripped(r, "bad_user_agent") /\ Refuse(r, "bad_user_agent")
    <3>1. "bad_user_agent" \in Met(r)
      BY <1>3, <2>1, TrippedMet
    <3> QED
      BY <1>1, <1>3, <1>6, <2>1, <3>1, RefuseCaused DEF UserAgent
  <2>2. CASE Pass(r, "tiers")
    BY <1>1, <1>2, <1>6, <2>2, PassCaused DEF UserAgent
  <2>3. CASE /\ ~StaleSkip(r)
             /\ RouteThenStage(r, "user_agent", "route_user_agent", "user_agent", "tiers")
    <3>1. /\ Tripped(r, "route_user_agent") => "route_user_agent" \in Met(r)
          /\ Tripped(r, "user_agent") => "user_agent" \in Met(r)
      BY <1>3, <2>3, TrippedMet
    <3> QED
      BY <1>1, <1>2, <1>3, <2>3, <3>1, RouteThenStageCaused
  <2> QED
    BY <1>6, <2>1, <2>2, <2>3 DEF UserAgent
<1> QED
  BY <1>4, <1>5, <1>6

(* The body, the scan and the ban check.                                   *)
LEMMA BodyCaused ==
  ASSUME TypeOK, Undecided, NEW r \in Requests, Screened(r), Caused(r), UNCHANGED shape,
         BufferBody(r) \/ Scan(r) \/ Bans(r)
  PROVE  Caused(r)'
<1>1. /\ {"body", "scan", "bans"} \subseteq Arms \ {"exclude", "forward"}
      /\ {"headers", "bans", "geo"} \subseteq Arms \ {"tier_ban", "feed", "feed_ban"}
      /\ "respond" \notin Arms
  BY DEF Arms
<1>2. /\ Rank("body") = 8 /\ Rank("headers") = 9 /\ Rank("scan") = 13 /\ Rank("bans") = 14
      /\ Rank("geo") = 15
  BY DEF Rank
<1>3. shape[r].kind # "excluded" /\ Noted(r, pc[r]) /\ pc[r] \in Arms
  BY <1>1 DEF BufferBody, Scan, Bans, Screened, Caused
<1>4. {"too_large", "read_error", "banned"} \cap (RouteConditions \cup StageConditions) = {}
      /\ "scan_failed" \in RouteConditions
  BY DEF RouteConditions, StageConditions
<1>5. CASE BufferBody(r)
  <2>1. CASE Refuse(r, "too_large") \/ Refuse(r, "read_error")
    <3>1. \/ Refuse(r, "too_large") /\ shape[r].sends = "too_much"
          \/ Refuse(r, "read_error") /\ shape[r].sends = "broken"
      BY <1>5, <2>1 DEF BufferBody, Refuse, Answer, AnswerTo, Go, TypeOK
    <3>2. /\ shape[r].sends = "too_much" => Cause(r, "too_large")
          /\ shape[r].sends = "broken" => Cause(r, "read_error")
      BY <1>4 DEF Cause
    <3> QED
      BY <1>1, <1>3, <3>1, <3>2, AnswerCaused DEF Refuse, Answer, reqVars
  <2>2. CASE Go(r, "headers") /\ UNCHANGED <<gate, skip, verdict, outVars, procVars, stageVars>>
    <3>1. Noted(r, "headers")'
      BY <1>2, <1>3, <1>5, <2>2, NotedStays DEF BufferBody
    <3> QED
      BY <1>1, <1>3, <2>2, <3>1, OnCaused DEF outVars
  <2> QED
    BY <1>5, <2>1, <2>2 DEF BufferBody
<1>6. CASE Scan(r)
  <2>1. CASE ~ScanSkipped(r) /\ Tripped(r, "scan_failed") /\ Refuse(r, "scan_failed")
    <3>1. "scan_failed" \notin IpChecks \cup AddressChecks \cup CloudChecks \cup SkippableChecks
      BY DEF IpChecks, AddressChecks, CloudChecks, SkippableChecks
    <3>2. "scan_failed" \in Met(r)
      BY <1>4, <2>1, <3>1, TrippedMet
    <3> QED
      BY <1>1, <1>4, <1>6, <2>1, <3>2, RefuseCaused DEF Scan
  <2>2. CASE /\ verdict' = [verdict EXCEPT ![r] = ~ScanSkipped(r) /\ "threat" \in shape[r].trips]
             /\ Go(r, "bans")
             /\ UNCHANGED <<gate, skip, body, outVars, procVars, stageVars>>
    <3>1. verdict'[r] => "threat" \in shape[r].trips /\ ~ScanSkipped(r)
      BY <2>2 DEF TypeOK, ReqTypeOK
    <3>2. pc'[r] = "bans" /\ answer'[r] = "none"
      BY <1>3, <2>2 DEF Go, TypeOK, Undecided, outVars
    <3>3. "none" \notin Refusals
      BY DEF Refusals, RouteConditions, StageConditions
    <3>4. Noted(r, "bans")'
      BY <1>2, <1>3, <1>6, <2>2, NotedStays DEF Scan
    <3>5. ScanSkipped(r)' = ScanSkipped(r)
      BY CauseStays
    <3> QED
      BY <3>1, <3>2, <3>3, <3>4, <3>5 DEF Caused
  <2> QED
    BY <1>6, <2>1, <2>2 DEF Scan
<1>7. CASE Bans(r)
  <2>1. CASE /\ ~Bypassed(r, "ip_ban") /\ ~Passive(r) /\ LiveBan(Ip(r))
             /\ Refuse(r, "banned")
    <3>1. Attributed(r) /\ BanningEnabled /\ ~Waives(r, "ip_ban")
      BY <2>1 DEF LiveBan, Attributed, TypeOK, StageTypeOK, Waives, Bypassed
    <3>2. Cause(r, "banned")
      BY <1>4, <2>1, <3>1 DEF Cause
    <3> QED
      BY <1>1, <1>3, <2>1, <3>2, AnswerCaused DEF Refuse, Answer, reqVars
  <2>2. CASE Pass(r, "geo")
    BY <1>1, <1>2, <1>7, <2>2, PassCaused DEF Bans
  <2> QED
    BY <1>7, <2>1, <2>2 DEF Bans
<1> QED
  BY <1>5, <1>6, <1>7

(* The limiter refuses only whom it asks.                                  *)
LEMMA TiersCaused ==
  ASSUME TypeOK, BansDue, Undecided, NEW r \in Requests, Screened(r), Caused(r), UNCHANGED shape,
         RateTiers(r) \/ TierBan(r)
  PROVE  Caused(r)'
<1>1. /\ {"tiers", "tier_ban", "feed", "detection"} \subseteq Arms \ {"exclude", "forward"}
      /\ "respond" \notin Arms
  BY DEF Arms
<1>2. /\ Rank("tiers") = 18 /\ Rank("tier_ban") = 19 /\ Rank("feed") = 19
      /\ Rank("detection") = 20
  BY DEF Rank
<1>3. shape[r].kind # "excluded" /\ Noted(r, pc[r]) /\ pc[r] \in Arms
  BY <1>1 DEF RateTiers, TierBan, Screened, Caused
<1>4. "rate_limited" \notin RouteConditions \cup StageConditions /\ "bad_tiers" \in RouteConditions
  BY DEF RouteConditions, StageConditions
<1>5. ASSUME Answer(r, "rate_limited"), UNCHANGED reqVars, Limited(r), ~Passive(r),
             ~Waives(r, "rate_limit")
      PROVE  Caused(r)'
  <2>1. Cause(r, "rate_limited")
    BY <1>4, <1>5 DEF Cause, Limited
  <2> QED
    BY <1>1, <1>3, <1>5, <2>1, AnswerCaused DEF Answer, reqVars
<1>6. CASE TierBan(r)
  <2>1. Limited(r) /\ ~Passive(r) /\ ~Waives(r, "rate_limit")
    BY <1>3, <1>6 DEF TierBan, Noted, BansDue, Due
  <2> QED
    BY <1>5, <1>6, <2>1 DEF TierBan
<1>7. CASE RateTiers(r)
  <2>1. /\ pc[r] = "tiers"
        /\ Bypassed(r, "rate_limit") <=> Waives(r, "rate_limit")
        /\ Waives(r, "rate_limit")' = Waives(r, "rate_limit")
        /\ Attributed(r)' = Attributed(r) /\ Waives(r, "ip")' = Waives(r, "ip")
    BY <1>7, CauseStays DEF RateTiers, CheckNames, Bypassed, Waives
  <2>2. CASE Tripped(r, "bad_tiers") /\ Refuse(r, "bad_tiers")
    <3>1. "bad_tiers" \notin IpChecks \cup AddressChecks \cup CloudChecks \cup SkippableChecks
                               \cup DetectionChecks
      BY DEF IpChecks, AddressChecks, CloudChecks, SkippableChecks, DetectionChecks
    <3>2. "bad_tiers" \in Met(r)
      BY <1>4, <2>2, <3>1, TrippedMet
    <3> QED
      BY <1>1, <1>4, <2>1, <2>2, <3>2, RefuseCaused
  <2>3. CASE Pass(r, "detection")
    BY <1>1, <1>2, <2>1, <2>3, PassCaused
  <2>4. CASE Go(r, "feed") /\ UNCHANGED <<reqVars, outVars>> /\ ~Bypassed(r, "rate_limit")
    <3>1. Noted(r, "feed")'
      BY <1>2, <1>3, <2>1, <2>4 DEF Noted, reqVars
    <3> QED
      BY <1>1, <1>3, <2>4, <3>1, OnCaused DEF reqVars, outVars
  <2>5. CASE /\ Go(r, "tier_ban") /\ UNCHANGED <<reqVars, outVars>>
             /\ ~Bypassed(r, "rate_limit") /\ Limited(r)
    <3>1. Limited(r)'
      BY <2>1, <2>5 DEF Limited, reqVars
    <3>2. Noted(r, "tier_ban")'
      BY <1>2, <1>3, <2>1, <2>5, <3>1 DEF Noted, reqVars
    <3> QED
      BY <1>1, <1>3, <2>5, <3>2, OnCaused DEF reqVars, outVars
  <2>6. CASE /\ Answer(r, "rate_limited") /\ UNCHANGED reqVars
             /\ ~Bypassed(r, "rate_limit") /\ Limited(r) /\ ~Passive(r)
    BY <1>5, <2>1, <2>6
  <2> QED
    BY <1>7, <2>2, <2>3, <2>4, <2>5, <2>6 DEF RateTiers, Pass, Refuse
<1> QED
  BY <1>6, <1>7

(* The feed bans, and the adapter blocks, only for a threat of the request.*)
LEMMA FeedCaused ==
  ASSUME TypeOK, BansDue, Undecided, NEW r \in Requests, Screened(r), Caused(r), UNCHANGED shape,
         Feed(r) \/ FeedBan(r) \/ DetectionBlock(r)
  PROVE  Caused(r)'
<1>1. /\ {"feed", "feed_ban", "detection"} \subseteq Arms \ {"exclude", "forward"}
      /\ "custom" \in Arms \ {"tier_ban", "feed", "feed_ban"} /\ "respond" \notin Arms
  BY DEF Arms
<1>2. Rank("feed") = 19 /\ Rank("feed_ban") = 20 /\ Rank("detection") = 20
  BY DEF Rank
<1>3. shape[r].kind # "excluded" /\ Noted(r, pc[r]) /\ pc[r] \in Arms
  BY <1>1 DEF Feed, FeedBan, DetectionBlock, Screened, Caused
<1>4. {"activity_banned", "suspicious"} \cap (RouteConditions \cup StageConditions) = {}
  BY DEF RouteConditions, StageConditions
<1>5. verdict[r] /\ ~Passive(r) => "threat" \in Met(r)
  BY DEF Caused, Met, ScanSkipped, Bypassed, Waives, IpChecks, AddressChecks, CloudChecks,
         SkippableChecks
<1>6. CASE Feed(r)
  <2>1. /\ pc[r] = "feed" /\ UNCHANGED <<reqVars, answer>>
        /\ Go(r, IF BansNow(r) THEN "feed_ban" ELSE "detection")
    BY <1>6 DEF Feed
  <2>2. /\ Waives(r, "rate_limit")' = Waives(r, "rate_limit")
        /\ Attributed(r)' = Attributed(r) /\ Waives(r, "ip")' = Waives(r, "ip")
    BY CauseStays DEF CheckNames
  <2>3. CASE BansNow(r)
    <3>1. Counted(r)'
      BY <2>1, <2>2, <2>3 DEF BansNow, Counted, reqVars
    <3>2. Noted(r, "feed_ban")'
      BY <1>2, <1>3, <2>1, <2>2, <3>1 DEF Noted, reqVars
    <3> QED
      BY <1>1, <1>3, <2>1, <2>3, <3>2, OnCaused DEF reqVars
  <2>4. CASE ~BansNow(r)
    <3>1. Noted(r, "detection")'
      BY <1>2, <1>3, <2>1, <2>2 DEF Noted, reqVars
    <3> QED
      BY <1>1, <1>3, <2>1, <2>4, <3>1, OnCaused DEF reqVars
  <2> QED
    BY <2>3, <2>4
<1>7. CASE FeedBan(r)
  <2>1. Counted(r) /\ ~Passive(r) /\ BanningEnabled /\ ~Waives(r, "rate_limit")
    BY <1>3, <1>7 DEF FeedBan, Noted, BansDue, Due
  <2>2. Cause(r, "activity_banned")
    BY <1>4, <1>5, <2>1 DEF Cause, Counted
  <2> QED
    BY <1>1, <1>3, <1>7, <2>2, AnswerCaused DEF FeedBan, Answer, reqVars
<1>8. CASE DetectionBlock(r)
  <2>1. CASE verdict[r] /\ ~Passive(r) /\ Refuse(r, "suspicious")
    <3>1. Cause(r, "suspicious")
      BY <1>4, <1>5, <2>1 DEF Cause
    <3> QED
      BY <1>1, <1>3, <2>1, <3>1, AnswerCaused DEF Refuse, Answer, reqVars
  <2>2. CASE Pass(r, "custom")
    BY <1>1, <1>2, <1>8, <2>2, PassCaused DEF DetectionBlock
  <2> QED
    BY <1>8, <2>1, <2>2 DEF DetectionBlock
<1> QED
  BY <1>6, <1>7, <1>8

(* The rest of a request's way.                                            *)
LEMMA OutCaused ==
  ASSUME TypeOK, Undecided, NEW r \in Requests, Screened(r), Caused(r), UNCHANGED shape,
         CallInner(r) \/ InnerReturns(r) \/ RespondOwned(r) \/ Respond(r) \/ Disconnect(r)
  PROVE  Caused(r)'
<1>1. /\ {"inner", "respond", "closed", "dropped"} \cap Arms = {}
      /\ {"forward", "body"} \subseteq Arms
  BY DEF Arms
<1>2. {"inner", "inner_error"} \cap Refusals = {}
  BY DEF Refusals, RouteConditions, StageConditions
<1>3. CASE CallInner(r)
  BY <1>1, <1>3, OnCaused DEF CallInner, reqVars
<1>4. CASE InnerReturns(r)
  BY <1>1, <1>2, <1>4, AnswerCaused DEF InnerReturns, reqVars
<1>5. CASE RespondOwned(r) \/ Respond(r)
  <2>1. pc'[r] \notin Arms /\ UNCHANGED <<gate, verdict, answer>>
    BY <1>1, <1>5 DEF RespondOwned, Respond, ResponsePass, Go, TypeOK, reqVars, outVars
  <2>2. ScanSkipped(r)' = ScanSkipped(r) /\ \A c : Cause(r, c)' = Cause(r, c)
    BY <2>1, CauseStays
  <2> QED
    BY <2>1, <2>2 DEF Caused
<1>6. CASE Disconnect(r)
  BY <1>1, <1>6, OnCaused DEF Disconnect, Pass, reqVars, outVars
<1> QED
  BY <1>3, <1>4, <1>5, <1>6

(* Every step of a request keeps its cause.                                *)
LEMMA StepCaused ==
  ASSUME TypeOK, BansDue, Undecided, NEW r \in Requests, Screened(r), Caused(r),
         UNCHANGED shape, Step(r)
  PROVE  Caused(r)'
  BY EarlyCaused, RouteCaused, GateCaused, ConditionsCaused, SkippableCaused, BodyCaused,
     TiersCaused, FeedCaused, OutCaused DEF Step, Screens
-----------------------------------------------------------------------------
(* What a refusal comes ahead of.                                          *)

\* The arm of the request that a refusal of its step belongs to.
InPlace(r) ==
  answer'[r] \in Refusals /\ answer'[r] # answer[r] =>
    pc[r] \in Arms /\ CheckedAt(answer'[r]) <= Rank(pc[r])

\* A refused request was refused for the first thing that is wrong with it.
Ordered(r) ==
  answer[r] \in Refusals /\ shape[r].kind # "excluded" => ComesFirst(r, answer[r])

AllOrdered == \A r \in Requests : Ordered(r)

(* Where the arms refuse.                                                  *)
LEMMA Places ==
  /\ CheckedAt("usage_ban") = Rank("usage")
  /\ CheckedAt("route_ip") = Rank("route_ip") /\ CheckedAt("bad_route_ip") = Rank("route_ip")
  /\ CheckedAt("route_country") = Rank("route_country") /\ CheckedAt("ip_gate") = Rank("ip_gate")
  /\ CheckedAt("emergency") = Rank("emergency") /\ CheckedAt("https") = Rank("https")
  /\ CheckedAt("too_large") = Rank("body") /\ CheckedAt("read_error") = Rank("body")
  /\ CheckedAt("route_headers") = Rank("headers") /\ CheckedAt("headers") = Rank("headers")
  /\ CheckedAt("route_referrer") = Rank("referrer") /\ CheckedAt("referrer") = Rank("referrer")
  /\ CheckedAt("route_validator") = Rank("validator") /\ CheckedAt("validator") = Rank("validator")
  /\ CheckedAt("route_time_window") = Rank("time_window")
  /\ CheckedAt("time_window") = Rank("time_window")
  /\ CheckedAt("scan_failed") = Rank("scan") /\ CheckedAt("banned") = Rank("bans")
  /\ CheckedAt("geo") = Rank("geo")
  /\ CheckedAt("bad_cloud") = Rank("cloud") /\ CheckedAt("cloud") = Rank("cloud")
  /\ CheckedAt("route_user_agent") = Rank("user_agent")
  /\ CheckedAt("bad_user_agent") = Rank("user_agent")
  /\ CheckedAt("user_agent") = Rank("user_agent")
  /\ CheckedAt("bad_tiers") = Rank("tiers") /\ CheckedAt("rate_limited") = Rank("tiers")
  /\ CheckedAt("rate_limited") = 18 /\ Rank("tier_ban") = 19
  /\ CheckedAt("activity_banned") = Rank("feed_ban")
  /\ CheckedAt("suspicious") = Rank("detection")
  /\ CheckedAt("custom_request") = Rank("custom")
  BY DEF CheckedAt, Rank

(* A step of a request refuses where it is.                                *)
LEMMA StepInPlace ==
  ASSUME TypeOK, NEW r \in Requests, Step(r)
  PROVE  InPlace(r)
<1> DEFINE At(c) == pc[r] \in Arms /\ CheckedAt(c) <= Rank(pc[r])
<1>1. ASSUME UNCHANGED answer PROVE InPlace(r)
  BY <1>1 DEF InPlace
<1>2. ASSUME NEW c, NEW l, AnswerTo(r, c, l), c \in Refusals => At(c) PROVE InPlace(r)
  <2>1. answer'[r] = c
    BY <1>2 DEF AnswerTo, TypeOK, OutTypeOK
  <2> QED
    BY <1>2, <2>1 DEF InPlace
<1>3. ASSUME NEW arm \in Arms, pc[r] = arm, NEW c, CheckedAt(c) = Rank(arm) PROVE At(c)
  <2>1. Rank(arm) \in Nat
    BY RankRange
  <2> QED
    BY <1>3, <2>1
<1> HIDE DEF At
<1>4. ASSUME NEW l, Pass(r, l) PROVE InPlace(r)
  BY <1>1, <1>4 DEF Pass, outVars
<1>5. ASSUME NEW c, Refuse(r, c), At(c) PROVE InPlace(r)
  BY <1>2, <1>5 DEF Refuse, Answer
<1>6. ASSUME NEW arm \in Arms, NEW c, NEW excused, NEW next, CheckedAt(c) = Rank(arm),
             Check(r, arm, c, excused, next)
      PROVE  InPlace(r)
  BY <1>3, <1>4, <1>5, <1>6 DEF Check
<1>7. ASSUME NEW arm \in Arms, NEW c, NEW d, NEW next, RouteThenStage(r, arm, c, d, next),
             CheckedAt(c) = Rank(arm), CheckedAt(d) = Rank(arm)
      PROVE  InPlace(r)
  BY <1>3, <1>4, <1>5, <1>7 DEF RouteThenStage
<1>8. /\ {"usage", "route_ip", "route_country", "ip_gate", "emergency", "https", "body",
           "headers", "referrer", "validator", "time_window", "scan", "bans"} \subseteq Arms
      /\ {"geo", "cloud", "user_agent", "tiers", "tier_ban", "feed_ban", "detection",
           "custom"} \subseteq Arms
  BY DEF Arms
<1>9. {"preflight", "inner", "inner_error"} \cap Refusals = {}
  BY DEF Refusals, RouteConditions, StageConditions
<1>10. CASE Exclude(r) \/ Preflight(r)
  BY <1>2, <1>4, <1>9, <1>10 DEF Exclude, Preflight
<1>11. CASE UsageRules(r)
  <2>1. At("usage_ban")
    BY <1>3, <1>8, <1>11, Places DEF UsageRules
  <2> QED
    BY <1>1, <1>2, <1>4, <1>11, <2>1 DEF UsageRules, Answer, outVars
<1>12. CASE RouteIp(r)
  <2>1. At("route_ip") /\ At("bad_route_ip")
    BY <1>3, <1>8, <1>12, Places DEF RouteIp
  <2> QED
    BY <1>1, <1>4, <1>5, <1>12, <2>1 DEF RouteIp, outVars
<1>13. CASE RouteCountries(r)
  <2>1. At("route_country")
    BY <1>3, <1>8, <1>13, Places DEF RouteCountries
  <2> QED
    BY <1>1, <1>5, <1>13, <2>1 DEF RouteCountries, outVars
<1>14. CASE IpGate(r)
  <2>1. At("ip_gate")
    BY <1>3, <1>8, <1>14, Places DEF IpGate
  <2> QED
    BY <1>1, <1>2, <1>4, <1>14, <2>1 DEF IpGate, outVars
<1>15. CASE Emergency(r) \/ HttpsRedirect(r) \/ GeoBlocking(r) \/ CustomRequest(r)
  BY <1>6, <1>8, <1>15, Places DEF Emergency, HttpsRedirect, GeoBlocking, CustomRequest
<1>16. CASE HeadersAuth(r) \/ Referrer(r) \/ CustomValidators(r) \/ TimeWindow(r)
  BY <1>7, <1>8, <1>16, Places DEF HeadersAuth, Referrer, CustomValidators, TimeWindow
<1>17. CASE BufferBody(r)
  <2>1. At("too_large") /\ At("read_error")
    BY <1>3, <1>8, <1>17, Places DEF BufferBody
  <2> QED
    BY <1>1, <1>5, <1>17, <2>1 DEF BufferBody, outVars
<1>18. CASE Scan(r)
  <2>1. At("scan_failed")
    BY <1>3, <1>8, <1>18, Places DEF Scan
  <2> QED
    BY <1>1, <1>5, <1>18, <2>1 DEF Scan, outVars
<1>19. CASE Bans(r)
  <2>1. At("banned")
    BY <1>3, <1>8, <1>19, Places DEF Bans
  <2> QED
    BY <1>4, <1>5, <1>19, <2>1 DEF Bans
<1>20. CASE CloudProvider(r)
  <2>1. At("bad_cloud")
    BY <1>3, <1>8, <1>20, Places DEF CloudProvider
  <2>2. CASE \E excused : Check(r, "cloud", "cloud", excused, "user_agent")
    BY <1>6, <1>8, <2>2, Places
  <2> QED
    BY <1>5, <1>20, <2>1, <2>2 DEF CloudProvider
<1>21. CASE UserAgent(r)
  <2>1. At("bad_user_agent")
    BY <1>3, <1>8, <1>21, Places DEF UserAgent
  <2>2. CASE RouteThenStage(r, "user_agent", "route_user_agent", "user_agent", "tiers")
    BY <1>7, <1>8, <2>2, Places
  <2> QED
    BY <1>4, <1>5, <1>21, <2>1, <2>2 DEF UserAgent
<1>22. CASE RateTiers(r)
  <2>1. At("bad_tiers") /\ At("rate_limited")
    BY <1>3, <1>8, <1>22, Places DEF RateTiers
  <2>2. CASE Answer(r, "rate_limited")
    BY <1>2, <2>1, <2>2 DEF Answer
  <2>3. CASE UNCHANGED outVars
    BY <1>1, <2>3 DEF outVars
  <2> QED
    BY <1>4, <1>5, <1>22, <2>1, <2>2, <2>3 DEF RateTiers
<1>23. CASE TierBan(r)
  <2>1. At("rate_limited")
    BY <1>8, <1>23, Places DEF TierBan, At
  <2> QED
    BY <1>2, <1>23, <2>1 DEF TierBan, Answer
<1>24. CASE FeedBan(r)
  <2>1. At("activity_banned")
    BY <1>3, <1>8, <1>24, Places DEF FeedBan
  <2> QED
    BY <1>2, <1>24, <2>1 DEF FeedBan, Answer
<1>25. CASE DetectionBlock(r)
  <2>1. At("suspicious")
    BY <1>3, <1>8, <1>25, Places DEF DetectionBlock
  <2> QED
    BY <1>4, <1>5, <1>25, <2>1 DEF DetectionBlock
<1>26. CASE Feed(r) \/ CallInner(r) \/ Disconnect(r)
  BY <1>1, <1>4, <1>26 DEF Feed, CallInner, Disconnect
<1>27. CASE InnerReturns(r)
  BY <1>2, <1>9, <1>27 DEF InnerReturns
<1>28. CASE RespondOwned(r) \/ Respond(r)
  BY <1>1, <1>28 DEF RespondOwned, Respond, ResponsePass, outVars
<1> QED
  BY <1>10, <1>11, <1>12, <1>13, <1>14, <1>15, <1>16, <1>17, <1>18, <1>19, <1>20, <1>21,
     <1>22, <1>23, <1>24, <1>25, <1>26, <1>27, <1>28 DEF Step, Screens

(* The refusals have their places.                                         *)
LEMMA RefusalRange ==
  ASSUME NEW c \in Refusals
  PROVE  CheckedAt(c) \in 2 .. 21
<1>1. c \in {"usage_ban", "route_ip", "bad_route_ip", "route_country", "ip_gate", "emergency",
              "https", "too_large", "read_error", "route_headers", "headers", "route_referrer",
              "referrer", "route_validator", "validator", "route_time_window", "time_window",
              "scan_failed", "banned", "geo", "bad_cloud", "cloud", "route_user_agent",
              "bad_user_agent", "user_agent", "bad_tiers", "rate_limited", "activity_banned",
              "suspicious", "custom_request"}
  BY DEF Refusals, RouteConditions, StageConditions
<1> QED
  BY <1>1 DEF CheckedAt

(* A refusal in its place comes ahead of all that is yet to be checked.    *)
LEMMA ClearedComesFirst ==
  ASSUME TypeOK, NEW r \in Requests, NEW arm \in Arms, NEW c \in Refusals, Cleared(r, arm),
         CheckedAt(c) <= Rank(arm)
  PROVE  ComesFirst(r, c)
<1>1. CheckedAt(c) \in Nat /\ Rank(arm) \in Nat
  BY RefusalRange, RankRange
<1>2. ASSUME NEW d \in Met(r) PROVE CheckedAt(c) <= CheckedAt(d)
  <2>1. CheckedAt(d) \in Nat /\ Rank(arm) <= CheckedAt(d)
    BY <1>2, MetAt DEF Cleared
  <2> QED
    BY <1>1, <2>1
<1>3. CheckedAt("ip_gate") = 5 /\ CheckedAt("too_large") = 8
  BY DEF CheckedAt
<1>4. CheckedAt(c) > 5 => ListsPass(r)
  BY <1>1 DEF Cleared
<1>5. CheckedAt(c) > 8 => shape[r].sends \in {"nothing", "data"}
  BY <1>1 DEF Cleared
<1> QED
  BY <1>2, <1>3, <1>4, <1>5 DEF ComesFirst

(* Every step of a request keeps the order of its refusal.                 *)
LEMMA StepOrdered ==
  ASSUME TypeOK, NEW r \in Requests, Screened(r), Ordered(r), UNCHANGED shape,
         Step(r) \/ answer'[r] = answer[r]
  PROVE  Ordered(r)'
<1>1. \A c : ComesFirst(r, c)' <=> ComesFirst(r, c)
  BY MetStays DEF ComesFirst
<1>2. SUFFICES ASSUME answer'[r] \in Refusals, shape[r].kind # "excluded",
                      answer'[r] # answer[r]
               PROVE  ComesFirst(r, answer'[r])
  BY <1>1 DEF Ordered
<1>3. pc[r] \in Arms /\ CheckedAt(answer'[r]) <= Rank(pc[r])
  BY <1>2, StepInPlace DEF InPlace
<1>4. Cleared(r, pc[r])
  BY <1>2, <1>3 DEF Screened
<1> QED
  BY <1>2, <1>3, <1>4, ClearedComesFirst
-----------------------------------------------------------------------------
(* The invariant of the answers, and what it gives.                        *)

Answered == \A r \in Requests : Screened(r) /\ Passed(r) /\ Fired(r)

(* What is said of a request holds on while others take their steps.       *)
LEMMA ApartAnswered ==
  ASSUME NEW q \in Requests, Apart(q), UNCHANGED shape, Screened(q), Passed(q), Fired(q)
  PROVE  Screened(q)' /\ Passed(q)' /\ Fired(q)'
<1>1. Screened(q)'
  BY MetStays DEF Apart, Screened, Skipped, Cleared, Handed, Forwarded
<1>2. Passed(q)' /\ Fired(q)'
  BY DEF Apart, Passed, Fired, Passive
<1> QED
  BY <1>1, <1>2

(* It holds of the requests as they arrive.                                *)
LEMMA InitAnswered == Init => Answered
<1> SUFFICES ASSUME Init, NEW r \in Requests PROVE Screened(r) /\ Passed(r) /\ Fired(r)
  BY DEF Answered
<1>1. /\ pc[r] = "exclude" /\ skip[r] = {} /\ hooks[r] = 0 /\ passes[r] = 0
      /\ inner[r] = "untouched"
  BY DEF Init
<1>2. "exclude" \in Arms
  BY DEF Arms
<1>3. TypeOK
  BY InitType
<1>4. Rank("exclude") = 0
  BY DEF Rank
<1>5. \A c \in Met(r) : 0 <= CheckedAt(c)
  BY <1>3, MetAt
<1>6. Screened(r)
  BY <1>1, <1>2, <1>4, <1>5 DEF Screened, Skipped, Cleared, Forwarded
<1>7. Passed(r) /\ Fired(r)
  BY <1>1 DEF Passed, Fired
<1> QED
  BY <1>6, <1>7

(* It is invariant.                                                        *)
LEMMA AnsweredInvariant == Spec => [](IInv /\ Answered)
<1>1. Init => Answered
  BY InitAnswered
<1>2. IInv /\ IInv' /\ Answered /\ [Next]_vars => Answered'
  <2> SUFFICES ASSUME IInv, IInv', Answered, [Next]_vars PROVE Answered'
    OBVIOUS
  <2>1. CASE UNCHANGED <<shape, pc, reqVars, outVars>>
    <3>1. ASSUME NEW q \in Requests PROVE Apart(q)
      BY <2>1 DEF Apart, reqVars, outVars
    <3> QED
      BY <2>1, <3>1, ApartAnswered DEF Answered
  <2>2. ASSUME NEW r \in Requests, Step(r), UNCHANGED shape PROVE Answered'
    <3>1. TypeOK /\ TypeOK' /\ BansDue /\ Undecided
      BY DEF IInv
    <3>2. Screened(r)' /\ Passed(r)' /\ Fired(r)'
      BY <2>2, <3>1, StepScreened, StepCourse, CourseKeeps DEF Answered
    <3>3. ASSUME NEW q \in Requests \ {r} PROVE Screened(q)' /\ Passed(q)' /\ Fired(q)'
      BY <2>2, <3>1, StepApart, ApartAnswered DEF Answered
    <3> QED
      BY <3>2, <3>3 DEF Answered
  <2> QED
    BY <2>1, <2>2 DEF Next, OutOfBandStep, Finished, vars
<1> QED
  BY <1>1, <1>2, Inductive, PTL DEF Spec

(* The wrapped service sees a request only after every check that applies  *)
(* to it, for every set of requests, every shape of them, every list and   *)
(* every interleaving.                                                     *)
THEOREM ScreenedFirst == Spec => []ScreenedBeforeInner
<1>1. ASSUME NEW r \in Requests PROVE Enforced(r) \subseteq Met(r)
  BY DEF Enforced
<1>2. Answered => ScreenedBeforeInner
  BY <1>1 DEF Answered, Screened, Handed, ScreenedBeforeInner, ListsPass
<1> QED
  BY <1>2, AnsweredInvariant, PTL

(* Every answer that leaves has been through the response pass exactly     *)
(* once, the exceptions the property names apart.                          *)
THEOREM PassesOnce == Spec => []PassedOnce
<1>1. Answered => PassedOnce
  BY DEF Answered, Passed, PassedOnce
<1> QED
  BY <1>1, AnsweredInvariant, PTL

(* The block hook fires once for an announced block and for nothing else,  *)
(* whatever the stage and the adapter both know of the threat.             *)
THEOREM HooksOnce == Spec => []HookOncePerBlock
<1>1. Answered => HookOncePerBlock
  BY DEF Answered, Fired, HookOncePerBlock
<1> QED
  BY <1>1, AnsweredInvariant, PTL

(* A refusal has its cause in the request and the layer, whatever the arms *)
(* made of its route and of the decisions on it along the way, and is the  *)
(* first the order of the arms has for the request.  What it rests on in   *)
(* the stores is RefusesOnRecord.                                          *)
THEOREM RefusesWithCause == Spec => []RefusedWithCause
<1>1. Init => AllCaused
  <2> SUFFICES ASSUME Init, NEW r \in Requests PROVE Caused(r)
    BY DEF AllCaused
  <2>1. pc[r] = "exclude" /\ ~verdict[r] /\ answer[r] = "none"
    BY DEF Init
  <2>2. Rank("exclude") = 0 /\ "none" \notin Refusals
    BY DEF Rank, Refusals, RouteConditions, StageConditions
  <2> QED
    BY <2>1, <2>2 DEF Caused, Noted
<1>2. IInv /\ Answered /\ AllCaused /\ [Next]_vars => AllCaused'
  <2> SUFFICES ASSUME IInv, Answered, AllCaused, [Next]_vars
               PROVE  \A r \in Requests : Caused(r)'
    BY DEF AllCaused
  <2>1. UNCHANGED shape
    BY DEF Next, Finished, vars
  <2>2. ASSUME NEW q \in Requests, Apart(q) PROVE Caused(q)'
    <3>1. /\ Attributed(q)' = Attributed(q) /\ ScanSkipped(q)' = ScanSkipped(q)
          /\ Waives(q, "ip")' = Waives(q, "ip")
          /\ Waives(q, "rate_limit")' = Waives(q, "rate_limit")
          /\ \A c : Cause(q, c)' = Cause(q, c)
      BY <2>1, <2>2, CauseStays DEF Apart, CheckNames
    <3>2. Limited(q)' = Limited(q) /\ Counted(q)' = Counted(q)
      BY <2>2, <3>1 DEF Apart, Limited, Counted
    <3> QED
      BY <2>1, <2>2, <3>1, <3>2 DEF AllCaused, Caused, Noted, Apart
  <2>3. CASE UNCHANGED <<pc, reqVars, outVars>>
    BY <2>2, <2>3 DEF Apart, reqVars, outVars
  <2>4. ASSUME NEW r \in Requests, Step(r) PROVE \A q \in Requests : Caused(q)'
    <3>1. TypeOK /\ BansDue /\ Undecided
      BY DEF IInv
    <3>2. Caused(r)'
      BY <2>1, <2>4, <3>1, StepCaused DEF Answered, AllCaused
    <3>3. \A q \in Requests \ {r} : Caused(q)'
      BY <2>2, <2>4, <3>1, StepApart
    <3> QED
      BY <3>2, <3>3
  <2> QED
    BY <2>3, <2>4 DEF Next, OutOfBandStep, Finished, vars
<1>3. Init => AllOrdered
  BY DEF Init, AllOrdered, Ordered, Refusals, RouteConditions, StageConditions
<1>4. IInv /\ Answered /\ AllOrdered /\ [Next]_vars => AllOrdered'
  <2> SUFFICES ASSUME IInv, Answered, AllOrdered, [Next]_vars, NEW q \in Requests
               PROVE  Ordered(q)'
    BY DEF AllOrdered
  <2>1. UNCHANGED shape
    BY DEF Next, Finished, vars
  <2>2. Step(q) \/ answer'[q] = answer[q]
    BY StepApart DEF IInv, Apart, Next, OutOfBandStep, Finished, vars, outVars
  <2> QED
    BY <2>1, <2>2, StepOrdered DEF IInv, Answered, AllOrdered
<1>5. AllCaused /\ AllOrdered => RefusedWithCause
  BY DEF AllCaused, Caused, AllOrdered, Ordered, RefusedWithCause
<1> QED
  BY <1>1, <1>2, <1>3, <1>4, <1>5, AnsweredInvariant, PTL DEF Spec
-----------------------------------------------------------------------------
(* A request's way has no loop.                                            *)

\* How far a request has come: the arms in their order, then the way out.
Distance(l) ==
  CASE l \in Arms -> Rank(l)
    [] l = "inner" -> 23 [] l = "respond_owned" -> 24 [] l = "respond" -> 25
    [] l \in {"closed", "dropped"} -> 26

(* The distances, label by label.                                          *)
LEMMA Distances ==
  /\ Distance("exclude") = 0 /\ Distance("preflight") = 1 /\ Distance("usage") = 2
  /\ Distance("route_ip") = 3 /\ Distance("route_country") = 4 /\ Distance("ip_gate") = 5
  /\ Distance("emergency") = 6 /\ Distance("https") = 7 /\ Distance("body") = 8
  /\ Distance("headers") = 9 /\ Distance("referrer") = 10 /\ Distance("validator") = 11
  /\ Distance("time_window") = 12 /\ Distance("scan") = 13 /\ Distance("bans") = 14
  /\ Distance("geo") = 15 /\ Distance("cloud") = 16 /\ Distance("user_agent") = 17
  /\ Distance("tiers") = 18 /\ Distance("tier_ban") = 19 /\ Distance("feed") = 19
  /\ Distance("feed_ban") = 20 /\ Distance("detection") = 20 /\ Distance("custom") = 21
  /\ Distance("forward") = 22 /\ Distance("inner") = 23 /\ Distance("respond_owned") = 24
  /\ Distance("respond") = 25 /\ Distance("closed") = 26 /\ Distance("dropped") = 26
  BY DEF Distance, Arms, Rank

(* Every step of a request takes it further.                               *)
LEMMA StepAdvances ==
  ASSUME TypeOK, NEW r \in Requests, Step(r)
  PROVE  Distance(pc'[r]) > Distance(pc[r])
<1> DEFINE further == Distance(pc'[r]) > Distance(pc[r])
<1>1. ASSUME NEW l, Go(r, l), Distance(l) > Distance(pc[r]) PROVE further
  BY <1>1 DEF Go, TypeOK
<1> SUFFICES further
  OBVIOUS
<1> HIDE DEF further
<1>2. ASSUME NEW l, Pass(r, l), Distance(l) > Distance(pc[r]) PROVE further
  BY <1>1, <1>2 DEF Pass
<1>3. ASSUME NEW c, NEW l, AnswerTo(r, c, l), Distance(l) > Distance(pc[r]) PROVE further
  BY <1>1, <1>3 DEF AnswerTo
<1>4. ASSUME NEW c, Answer(r, c), 25 > Distance(pc[r]) PROVE further
  BY <1>3, <1>4, Distances DEF Answer
<1>5. ASSUME NEW c, Refuse(r, c), 25 > Distance(pc[r]) PROVE further
  BY <1>4, <1>5 DEF Refuse
<1>6. ASSUME NEW arm, NEW c, NEW d, NEW next, RouteThenStage(r, arm, c, d, next),
             Distance(next) > Distance(arm), 25 > Distance(arm)
      PROVE  further
  BY <1>2, <1>5, <1>6 DEF RouteThenStage
<1>7. CASE Exclude(r) \/ Preflight(r)
  BY <1>2, <1>3, <1>7, Distances DEF Exclude, Preflight
<1>8. CASE UsageRules(r)
  BY <1>1, <1>2, <1>4, <1>8, Distances DEF UsageRules
<1>9. CASE RouteIp(r) \/ RouteCountries(r)
  BY <1>1, <1>2, <1>5, <1>9, Distances DEF RouteIp, RouteCountries
<1>10. CASE IpGate(r)
  BY <1>1, <1>2, <1>3, <1>10, Distances DEF IpGate
<1>11. CASE Emergency(r) \/ HttpsRedirect(r) \/ GeoBlocking(r) \/ CustomRequest(r)
  <2>1. CASE Emergency(r)
    <3>1. pc[r] = "emergency" /\ (Refuse(r, "emergency") \/ Pass(r, "https"))
      BY <2>1 DEF Emergency, Check
    <3> QED
      BY <1>2, <1>5, <3>1, Distances
  <2>2. CASE HttpsRedirect(r)
    <3>1. pc[r] = "https" /\ (Refuse(r, "https") \/ Pass(r, "body"))
      BY <2>2 DEF HttpsRedirect, Check
    <3> QED
      BY <1>2, <1>5, <3>1, Distances
  <2>3. CASE GeoBlocking(r)
    <3>1. pc[r] = "geo" /\ (Refuse(r, "geo") \/ Pass(r, "cloud"))
      BY <2>3 DEF GeoBlocking, Check
    <3> QED
      BY <1>2, <1>5, <3>1, Distances
  <2>4. CASE CustomRequest(r)
    <3>1. pc[r] = "custom" /\ (Refuse(r, "custom_request") \/ Pass(r, "forward"))
      BY <2>4 DEF CustomRequest, Check
    <3> QED
      BY <1>2, <1>5, <3>1, Distances
  <2> QED
    BY <1>11, <2>1, <2>2, <2>3, <2>4
<1>12. CASE HeadersAuth(r) \/ Referrer(r) \/ CustomValidators(r) \/ TimeWindow(r)
  <2>1. CASE HeadersAuth(r)
    BY <1>6, <2>1, Distances DEF HeadersAuth
  <2>2. CASE Referrer(r)
    BY <1>6, <2>2, Distances DEF Referrer
  <2>3. CASE CustomValidators(r)
    BY <1>6, <2>3, Distances DEF CustomValidators
  <2>4. CASE TimeWindow(r)
    BY <1>6, <2>4, Distances DEF TimeWindow
  <2> QED
    BY <1>12, <2>1, <2>2, <2>3, <2>4
<1>13. CASE BufferBody(r) \/ Scan(r)
  BY <1>1, <1>5, <1>13, Distances DEF BufferBody, Scan
<1>14. CASE Bans(r) \/ DetectionBlock(r)
  BY <1>2, <1>5, <1>14, Distances DEF Bans, DetectionBlock
<1>15. CASE CloudProvider(r)
  <2>1. pc[r] = "cloud"
    BY <1>15 DEF CloudProvider
  <2>2. \/ Refuse(r, "bad_cloud") \/ Refuse(r, "cloud")
        \/ Pass(r, "user_agent")
    BY <1>15 DEF CloudProvider, Check
  <2> QED
    BY <1>2, <1>5, <2>1, <2>2, Distances
<1>16. CASE UserAgent(r)
  BY <1>2, <1>5, <1>6, <1>16, Distances DEF UserAgent
<1>17. CASE RateTiers(r)
  BY <1>1, <1>2, <1>4, <1>5, <1>17, Distances DEF RateTiers
<1>18. CASE TierBan(r) \/ FeedBan(r)
  BY <1>4, <1>18, Distances DEF TierBan, FeedBan
<1>19. CASE Feed(r) \/ CallInner(r)
  BY <1>1, <1>19, Distances DEF Feed, CallInner
<1>20. CASE InnerReturns(r)
  BY <1>3, <1>20, Distances DEF InnerReturns
<1>21. CASE RespondOwned(r) \/ Respond(r)
  BY <1>1, <1>21, Distances DEF RespondOwned, Respond
<1>22. CASE Disconnect(r)
  BY <1>2, <1>22, Distances DEF Disconnect
<1> QED
  BY <1>7, <1>8, <1>9, <1>10, <1>11, <1>12, <1>13, <1>14, <1>15, <1>16, <1>17, <1>18,
     <1>19, <1>20, <1>21, <1>22 DEF Step, Screens

(* No step takes a request back, nor leaves it where it was while it works *)
(* for it: within twenty-six of its own steps it is settled, whatever the  *)
(* route, the stores and the others do.                                    *)
THEOREM NeverBack ==
  Spec => [][/\ \A r \in Requests :
                  pc'[r] = pc[r] \/ Distance(pc'[r]) > Distance(pc[r])
             /\ \A r \in Requests :
                  Step(r) => /\ Distance(pc'[r]) > Distance(pc[r])
                             /\ Distance(pc'[r]) \in 0 .. 26]_vars
<1> DEFINE
  A == /\ \A r \in Requests :
            pc'[r] = pc[r] \/ Distance(pc'[r]) > Distance(pc[r])
       /\ \A r \in Requests :
            Step(r) => /\ Distance(pc'[r]) > Distance(pc[r])
                       /\ Distance(pc'[r]) \in 0 .. 26
<1>1. IInv /\ IInv' /\ [Next]_vars => [A]_vars
  <2> SUFFICES ASSUME IInv, IInv', Next PROVE A
    OBVIOUS
  <2>1. \A r \in Requests : Step(r) => Distance(pc'[r]) > Distance(pc[r])
    BY StepAdvances DEF IInv
  <2>2. ASSUME NEW r \in Requests PROVE Distance(pc'[r]) \in 0 .. 26
    <3>1. pc'[r] \in Labels
      BY DEF IInv, TypeOK
    <3> QED
      BY <3>1, RankRange DEF Labels, Distance
  <2>3. ASSUME NEW r \in Requests, Step(r), NEW q \in Requests \ {r} PROVE pc'[q] = pc[q]
    BY <2>3, StepApart DEF IInv, Apart
  <2>4. \A r \in Requests : pc'[r] = pc[r] \/ Distance(pc'[r]) > Distance(pc[r])
    BY <2>1, <2>3 DEF Next, OutOfBandStep, Finished, vars
  <2> QED
    BY <2>1, <2>2, <2>4
<1> HIDE DEF A
<1>2. Spec => [][A]_vars
  BY <1>1, Inductive, PTL DEF Spec
<1> QED
  BY <1>2 DEF A

=============================================================================
