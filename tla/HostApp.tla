------------------------------ MODULE HostApp ------------------------------
(***************************************************************************)
(* An application around the guard, as the examples build it: a path       *)
(* dispatcher with /health in front of every guard and one guarded service *)
(* tree behind it (examples/simple_app) or two (examples/advanced_app).    *)
(* The status route is one more route of it, as src/src/status.rs has a    *)
(* host mount it, and the cloud refresh of the layers is running.  Of the  *)
(* screening it keeps the outcome (GuardPipeline has the arms); the        *)
(* response pass is ResponsePass, and the ranges are those of CloudStatus. *)
(* A score is counted in half points.                                      *)
(***************************************************************************)
EXTENDS ResponsePass, CloudStatus

CONSTANTS
  None,
  Visits,       \* what the clients send together: one VisitSpace per request
  Threshold,    \* threat_score_threshold of the general tree
  Override,     \* GUARD_ADMIN_THREAT_SCORE_THRESHOLD, None when it is not set
  Reserving     \* trees whose inner service reserves its place in poll_ready

Paths == {"/health", "/_guard/status", "/", "/search", "/echo",
          "/admin/stats", "/administrator", "/elsewhere"}

VisitSpace ==
  [path : Paths, method : {"GET", "POST"},
   meets : {"nothing", "preflight", "gate", "read_error", "too_large", "cloud"},
   score : Nat]      \* of what the engine finds in the request

ASSUME HostAssumption ==
  /\ Clients = Requests /\ Trees = {"general", "admin"}
  /\ Visits \subseteq [Requests -> VisitSpace]
  /\ None \notin Nat /\ Override \in Nat \cup {None}
  /\ Threshold \in Nat /\ Threshold % 2 = 0
  /\ Reserving \subseteq Trees

VARIABLES
  app,       \* which of the two examples it is: never changes
  visit,     \* the requests: never changes
  instance   \* the clone of the inner service that was given the request

fixed == <<app, visit, wiring>>
vars == <<fixed, at, tree, passVars, cloudVars, instance>>

Labels == Passing \cup
  {"wire", "ready", "screen", "cloud", "inner", "status", "closed", "escaped"}

Init ==
  /\ app \in {"simple", "advanced"}
  /\ visit \in Visits
  /\ at = [r \in Requests |-> "wire"]
  /\ tree = [r \in Requests |-> "general"]
  /\ instance = [r \in Requests |-> None]
  /\ PassInit
  /\ CloudInit
-----------------------------------------------------------------------------
(* The dispatchers.                                                        *)

\* A connection hands over a request, and App::poll_ready asks the trees.
Accept(r) ==
  /\ at[r] = "wire"
  /\ Comes(r)
  /\ Go(r, "ready")
  /\ UNCHANGED <<tree, passVars, instance>>

\* An answer no guard has a part in.
Answers200(r) ==
  /\ base' = [base EXCEPT ![r] = Forwarded(200)]
  /\ reply' = [reply EXCEPT ![r] = Forwarded(200)]
  /\ Go(r, "closed")
  /\ UNCHANGED <<lane, rounds, view, events, edited, raised>>

Enters(r, t) ==
  /\ tree' = [tree EXCEPT ![r] = t]
  /\ Go(r, "screen")
  /\ UNCHANGED passVars

\* The status route of the host application.
Status(r) ==
  /\ visit[r].path = "/_guard/status"
  /\ Go(r, "status")
  /\ UNCHANGED <<tree, passVars>>

\* App::call of simple_app.
SimpleCall(r) ==
  \/ visit[r].path = "/health" /\ Answers200(r) /\ UNCHANGED tree
  \/ visit[r].path \notin {"/health", "/_guard/status"} /\ Enters(r, "general")

\* Mutant: the prefix is compared as a path.
AdminPathExact(path) == path = "/admin"

\* starts_with("/admin").
AdminPath(path) == path \in {"/admin/stats", "/administrator"}

\* App::call of advanced_app.
AdvancedCall(r) ==
  \/ visit[r].path = "/health" /\ Answers200(r) /\ UNCHANGED tree
  \/ AdminPath(visit[r].path) /\ Enters(r, "admin")
  \/ /\ visit[r].path \notin {"/health", "/_guard/status"} /\ ~AdminPath(visit[r].path)
     /\ Enters(r, "general")

Dispatch(r) ==
  /\ at[r] = "ready"
  /\ \/ Status(r)
     \/ app = "simple" /\ SimpleCall(r)
     \/ app = "advanced" /\ AdvancedCall(r)
  /\ UNCHANGED <<cloudVars, instance>>

\* GuardStatusService::call.
ServesStatus(r) ==
  /\ at[r] = "status"
  /\ \/ (ReadRow(r) \/ ReadGeo(r)) /\ UNCHANGED <<at, passVars>>
     \/ Rendered(r) /\ Answers200(r) /\ UNCHANGED cloudVars
  /\ UNCHANGED <<tree, instance>>
-----------------------------------------------------------------------------
(* A guarded tree.                                                         *)

\* (threshold * 0.5).min(1.0), unless the deployment sets its own.
AdminThreshold ==
  IF Override # None THEN Override
  ELSE IF Threshold \div 2 < 2 THEN Threshold \div 2 ELSE 2

ThresholdOf(t) == IF t = "admin" THEN AdminThreshold ELSE Threshold

Blocks(r, status, passes) == Composes(r, Generated(status), "generated", passes)

PreflightAnswered(r) == visit[r].meets = "preflight" /\ Wired(r).processor

\* The outcomes of GuardService::call ahead of the cloud check.  The denial
\* of the gate takes two passes, the preflight answer none.
Screen(r) ==
  /\ at[r] = "screen"
  /\ \/ PreflightAnswered(r) /\ Blocks(r, 200, 0)
     \/ visit[r].meets = "gate" /\ Blocks(r, 403, 2)
     \/ visit[r].meets = "read_error" /\ Blocks(r, 500, 1)
     \/ visit[r].meets = "too_large" /\ Blocks(r, 413, 1)
     \/ /\ visit[r].meets \in {"nothing", "cloud", "preflight"} /\ ~PreflightAnswered(r)
        /\ Go(r, "cloud") /\ UNCHANGED passVars
  /\ UNCHANGED <<tree, cloudVars, instance>>

\* The address is the first provider's, while its ranges are in the table.
FromCloud(r) == visit[r].meets = "cloud" /\ table[ProviderOrder[1]].ready

\* The cloud check, then the detection block.
CloudAndDetection(r) ==
  LET threat == visit[r].score >= ThresholdOf(tree[r]) IN
  /\ at[r] = "cloud"
  /\ IF visit[r].meets = "cloud" THEN Consults(r) ELSE UNCHANGED cloudVars
  /\ \/ FromCloud(r) /\ Blocks(r, 403, 1)
     \/ ~FromCloud(r) /\ threat /\ Blocks(r, 400, 1)
     \/ ~FromCloud(r) /\ ~threat /\ Go(r, "inner") /\ UNCHANGED passVars
  /\ UNCHANGED <<tree, instance>>

Routes == {<<"GET", "/">>, <<"GET", "/search">>, <<"POST", "/echo">>}
AdminRoutes == {<<"GET", "/admin/stats">>}

\* Router and AdminRouter, whose poll_ready is always ready.
Routed(t, v) ==
  IF <<v.method, v.path>> \in (IF t = "admin" THEN AdminRoutes ELSE Routes) THEN 200 ELSE 404

\* forward: the request is given to a clone that poll_ready never saw.
CallInner(r) ==
  /\ at[r] = "inner"
  /\ instance' = [instance EXCEPT ![r] = "fresh"]
  /\ Composes(r, Forwarded(Routed(tree[r], visit[r])), "forwarded", 1)
  /\ UNCHANGED <<tree, cloudVars>>

GuardStep(r) == PassStep(r) /\ UNCHANGED <<tree, cloudVars, instance>>

Step(r) ==
  \/ Accept(r) \/ Dispatch(r) \/ ServesStatus(r) \/ Screen(r)
  \/ CloudAndDetection(r) \/ CallInner(r) \/ GuardStep(r)

BackgroundStep == Background /\ UNCHANGED <<at, tree, passVars, instance>>

Settled(r) == at[r] \in {"closed", "escaped"}
Finished == (\A r \in Requests : Settled(r)) /\ UNCHANGED vars

Next ==
  \/ (\E r \in Requests : Step(r)) /\ UNCHANGED fixed
  \/ BackgroundStep /\ UNCHANGED fixed
  \/ Finished

Spec == Init /\ [][Next]_vars
-----------------------------------------------------------------------------
(* The variables keep their types, and no answer takes more passes than    *)
(* the two of the gate's denial.                                           *)
TypeOK ==
  /\ at \in [Requests -> Labels] /\ tree \in [Requests -> Trees]
  /\ lane \in [Requests -> {"forwarded", "generated"}]
  /\ rounds \in [Requests -> 0 .. 2]
  /\ base \in [Requests -> Replies] /\ reply \in [Requests -> Replies]
  /\ view \in [Requests -> Bits]
  /\ events \in [Requests -> 0 .. 1]
  /\ \A r \in Requests : edited[r] + raised[r] <= 2
  /\ table \in [Providers -> Rows] /\ since \in [Requests -> [Providers -> Rows]]
  /\ rows \in [Requests -> Seq(Rows)]

AdminPaths == {"/admin/stats", "/administrator"}

(* The admin router sees no request its own tree would flag, and with the  *)
(* threshold advanced_app computes itself none that the general tree would *)
(* have flagged: whatever the prefix catches is screened the stricter way. *)
AdminScreensHarder ==
  app = "advanced" =>
    \A r \in Requests :
      visit[r].path \in AdminPaths /\ base[r].body = "passthrough" =>
        /\ visit[r].score < ThresholdOf("admin")
        /\ Override = None => visit[r].score < Threshold

(* lib.rs:137: "Any `Service<Request<B>>` works".  One that reserves its   *)
(* place in poll_ready is given the request in a clone that has none.      *)
ReadyInnerCalled ==
  \A r \in Requests : tree[r] \in Reserving => instance[r] # "fresh"
=============================================================================
