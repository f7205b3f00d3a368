-------------------------- MODULE StageChainProofs --------------------------
(* StageChain for every set of stages the builders may have installed, and *)
(* every set of requests, addresses and thresholds.                        *)
EXTENDS StageChain, FiniteSetTheorems, TLAPS

\* A request has its answer when it is closed and not before, starts before
\* the outermost gate, and is banned for its own conduct only.
Underway ==
  \A r \in Requests :
    /\ doing[r] = "waiting" => at[r] = 0
    /\ doing[r] = "deciding" => at[r] > 0
    /\ doing[r] # "closed" => answer[r] = "none"
    /\ doing[r] = "banning" => Attributed(r)

IInv == TypeOK /\ Underway

(* One builder contributes its layer or nothing.                           *)
LEMMA ProvidedType ==
  ASSUME NEW b, NEW n \in LayerNames
  PROVE  Provided(b, n) \in Seq(LayerNames)
  BY DEF Provided

(* The stages between the ban arm and the tiers are layers.                *)
LEMMA MiddleType == Middle \in Seq(LayerNames)
  BY ProvidedType DEF Middle, LayerNames, Stateless

\* The layers ahead of the ban arm.
Ahead ==
  Provided("emergency", "emergency") \o Provided("https", "https")
    \o Provided("headers_auth", "headers_auth") \o Provided("referrer", "referrer")
    \o Provided("custom_checks", "validators") \o Provided("time_window", "time_window")

(* They are layers.                                                        *)
LEMMA AheadType == Ahead \in Seq(LayerNames)
<1>1. /\ Provided("emergency", "emergency") \in Seq(LayerNames)
      /\ Provided("https", "https") \in Seq(LayerNames)
      /\ Provided("headers_auth", "headers_auth") \in Seq(LayerNames)
      /\ Provided("referrer", "referrer") \in Seq(LayerNames)
      /\ Provided("custom_checks", "validators") \in Seq(LayerNames)
      /\ Provided("time_window", "time_window") \in Seq(LayerNames)
  BY ProvidedType DEF LayerNames, Stateless
<1> QED
  BY <1>1 DEF Ahead

\* The ban arm, and everything behind it.
Behind ==
  (IF HasRateStage THEN <<"bans">> \o Middle \o <<"rate_limit">> ELSE Middle)
    \o Provided("custom_checks", "custom_request")

(* They are layers, and the ban arm is the first when a ban store exists.  *)
LEMMA BehindType ==
  /\ Behind \in Seq(LayerNames)
  /\ BanningEnabled => 1 \in DOMAIN Behind /\ Behind[1] = "bans"
<1> DEFINE last == Provided("custom_checks", "custom_request")
           core == IF HasRateStage THEN <<"bans">> \o Middle \o <<"rate_limit">> ELSE Middle
<1>1. last \in Seq(LayerNames)
  BY ProvidedType DEF LayerNames, Stateless
<1>2. <<"bans">> \in Seq(LayerNames) /\ <<"rate_limit">> \in Seq(LayerNames)
  BY DEF LayerNames
<1>3. core \in Seq(LayerNames)
  BY <1>2, MiddleType
<1>4. BanningEnabled => Len(core) > 0 /\ core[1] = "bans"
  BY <1>2, MiddleType DEF HasRateStage
<1>5. Behind = core \o last
  BY DEF Behind
<1> HIDE DEF core, last
<1> QED
  BY <1>1, <1>3, <1>4, <1>5

(* The vector of layers is the two halves, one after the other.            *)
LEMMA Halves == ProvidedLayers = Ahead \o Behind
<1> DEFINE core == IF HasRateStage THEN <<"bans">> \o Middle \o <<"rate_limit">> ELSE Middle
           last == Provided("custom_checks", "custom_request")
<1>1. core \in Seq(LayerNames) /\ last \in Seq(LayerNames)
  <2>1. <<"bans">> \in Seq(LayerNames) /\ <<"rate_limit">> \in Seq(LayerNames)
    BY DEF LayerNames
  <2>2. last \in Seq(LayerNames)
    BY ProvidedType DEF LayerNames, Stateless
  <2> QED
    BY <2>1, <2>2, MiddleType
<1>2. ProvidedLayers = (Ahead \o core) \o last
  BY DEF ProvidedLayers, Ahead
<1>3. Behind = core \o last
  BY DEF Behind
<1> HIDE DEF core, last
<1> QED
  BY <1>1, <1>2, <1>3, AheadType

(* Every composition is a sequence of layers; with a ban store one of them *)
(* is the ban arm.                                                         *)
LEMMA LayersType ==
  /\ ProvidedLayers \in Seq(LayerNames)
  /\ BanningEnabled => \E j \in DOMAIN ProvidedLayers : ProvidedLayers[j] = "bans"
<1>1. ProvidedLayers \in Seq(LayerNames)
  BY Halves, AheadType, BehindType
<1>2. ASSUME BanningEnabled
      PROVE  /\ Len(Ahead) + 1 \in DOMAIN ProvidedLayers
             /\ ProvidedLayers[Len(Ahead) + 1] = "bans"
  BY <1>2, Halves, AheadType, BehindType
<1> QED
  BY <1>1, <1>2
-----------------------------------------------------------------------------
(* A violation count stays within the threshold.                           *)
LEMMA CountViolationType ==
  ASSUME StageTypeOK, NEW k \in Kinds, NEW i \in Ips, CountViolation(k, i)
  PROVE  violations' \in [Kinds -> [Ips -> 0 .. BanThreshold]]
<1>1. violations[k] \in [Ips -> 0 .. BanThreshold]
  BY DEF StageTypeOK
<1>2. (IF violations[k][i] < BanThreshold THEN violations[k][i] + 1 ELSE violations[k][i])
        \in 0 .. BanThreshold
  BY <1>1, StageAssumption
<1> QED
  BY <1>1, <1>2 DEF CountViolation, StageTypeOK

(* The composition is fixed when the layers are folded.                    *)
LEMMA LayersStay ==
  ASSUME UNCHANGED installed
  PROVE  ProvidedLayers' = ProvidedLayers
  BY DEF ProvidedLayers, Middle, Provided, HasRateStage

(* The initial states are typed and under way.                             *)
LEMMA InitHolds == Init => IInv
<1> SUFFICES ASSUME Init PROVE IInv
  OBVIOUS
<1>1. installed \subseteq Builders /\ facts \in [Requests -> CallSpace]
  BY ChainAssumption DEF Init
<1>2. at \in [Requests -> 0 .. Len(ProvidedLayers) + 1]
  BY LayersType DEF Init
<1>3. StageTypeOK
  BY StageAssumption DEF Init, StageInit, StageTypeOK
<1>4. doing \in [Requests -> Activities] /\ answer \in [Requests -> Answers]
  BY DEF Init, Activities, Answers
<1> QED
  BY <1>1, <1>2, <1>3, <1>4 DEF Init, IInv, TypeOK, Underway

\* What the steps of a request do to the chain, the stores left aside.
Moves(r) ==
  \/ doing[r] = "waiting" /\ Call(r)
  \/ doing[r] = "deciding" /\ at[r] \in DOMAIN ProvidedLayers /\ Forward(r)
  \/ /\ doing[r] \in {"deciding", "banning"}
     /\ \E a \in Stateless \cup {"banned", "rate_limited"} : Refuse(r, a)
  \/ /\ doing[r] = "deciding" /\ Attributed(r)
     /\ doing' = [doing EXCEPT ![r] = "banning"] /\ UNCHANGED <<at, answer>>
  \/ CallInner(r)
  \/ InnerReturns(r)
  \/ Disconnect(r)

(* Every step of a request is one of these moves.                          *)
LEMMA StepMoves ==
  ASSUME NEW r \in Requests, Step(r)
  PROVE  Moves(r)
<1>1. CASE Call(r)
  BY <1>1 DEF Call, Moves
<1>2. CASE StatelessGate(r)
  BY <1>2 DEF StatelessGate, AtGate, Moves
<1>3. CASE BansGate(r)
  BY <1>3 DEF BansGate, AtGate, Moves
<1>4. CASE TiersGate(r)
  BY <1>4 DEF TiersGate, AtGate, Moves, Limited
<1>5. CASE TierBan(r)
  BY <1>5 DEF TierBan, Moves
<1> QED
  BY <1>1, <1>2, <1>3, <1>4, <1>5 DEF Step, Moves

(* A move keeps the chain typed and the request under way.                 *)
LEMMA MovesHold ==
  ASSUME IInv, NEW r \in Requests, Moves(r), UNCHANGED <<installed, facts>>
  PROVE  /\ at' \in [Requests -> 0 .. Len(ProvidedLayers) + 1]
         /\ doing' \in [Requests -> Activities]
         /\ answer' \in [Requests -> Answers]
         /\ Underway'
<1> DEFINE N == Len(ProvidedLayers)
<1>0. N \in Nat /\ DOMAIN ProvidedLayers = 1 .. N
  BY LayersType
<1> HIDE DEF N
<1>T. /\ at \in [Requests -> 0 .. N + 1]
      /\ doing \in [Requests -> Activities]
      /\ answer \in [Requests -> Answers]
      /\ Underway
  BY DEF IInv, TypeOK, N
<1> SUFFICES /\ at' \in [Requests -> 0 .. N + 1]
             /\ doing' \in [Requests -> Activities]
             /\ answer' \in [Requests -> Answers]
             /\ Underway'
  BY DEF N
<1> USE DEF Underway, Attributed, Ip, Activities, Answers
<1>1. CASE doing[r] = "waiting" /\ Call(r)
  BY <1>0, <1>T, <1>1 DEF Call
<1>2. CASE doing[r] = "deciding" /\ at[r] \in DOMAIN ProvidedLayers /\ Forward(r)
  <2>1. at' = [at EXCEPT ![r] = at[r] + 1] /\ UNCHANGED <<doing, answer>>
    BY <1>2 DEF Forward
  <2>2. at[r] \in 1 .. N
    BY <1>0, <1>2
  <2>3. at' \in [Requests -> 0 .. N + 1]
    BY <1>0, <1>T, <2>1, <2>2
  <2> QED
    BY <1>0, <1>2, <1>T, <2>1, <2>2, <2>3
<1>3. ASSUME doing[r] \in {"deciding", "banning"},
             NEW a \in Stateless \cup {"banned", "rate_limited"}, Refuse(r, a)
      PROVE  /\ at' \in [Requests -> 0 .. N + 1]
             /\ doing' \in [Requests -> Activities]
             /\ answer' \in [Requests -> Answers]
             /\ Underway'
  BY <1>3, <1>T DEF Refuse
<1>4. CASE /\ doing[r] = "deciding" /\ Attributed(r)
           /\ doing' = [doing EXCEPT ![r] = "banning"] /\ UNCHANGED <<at, answer>>
  BY <1>4, <1>T
<1>5. CASE CallInner(r)
  BY <1>5, <1>T DEF CallInner
<1>6. CASE InnerReturns(r)
  <2>1. PICK outcome \in {"inner", "inner_error"} : answer' = [answer EXCEPT ![r] = outcome]
    BY <1>6 DEF InnerReturns
  <2> QED
    BY <1>6, <1>T, <2>1 DEF InnerReturns
<1>7. CASE Disconnect(r)
  BY <1>7, <1>T DEF Disconnect
<1> QED
  BY <1>1, <1>2, <1>3, <1>4, <1>5, <1>6, <1>7 DEF Moves

(* A step of a request keeps the stores typed.                             *)
LEMMA StepStores ==
  ASSUME IInv, NEW r \in Requests, Step(r)
  PROVE  StageTypeOK'
<1>0. StageTypeOK
  BY DEF IInv, TypeOK
<1>1. CASE UNCHANGED stageVars
  BY <1>0, <1>1 DEF StageTypeOK, stageVars
<1>2. CASE TiersGate(r) /\ ~UNCHANGED stageVars
  <2>1. Ip(r) \in Ips /\ UNCHANGED bans
    BY <1>2 DEF TiersGate, Limited, Attributed, stageVars
  <2>2. CASE RecordHit(Ip(r), r) /\ UNCHANGED violations
    BY <1>0, <2>1, <2>2 DEF StageTypeOK, RecordHit
  <2>3. CASE CountViolation("rate_limit", Ip(r)) /\ UNCHANGED window
    BY <1>0, <2>1, <2>3, CountViolationType DEF StageTypeOK, Kinds
  <2>4. UNCHANGED window => CountViolation("rate_limit", Ip(r)) \/ UNCHANGED violations
    BY <1>2 DEF TiersGate
  <2>5. (RecordHit(Ip(r), r) /\ UNCHANGED violations) \/ UNCHANGED window
    BY <1>2 DEF TiersGate, stageVars
  <2> QED
    BY <1>2, <2>1, <2>2, <2>3, <2>4, <2>5 DEF stageVars
<1>3. CASE TierBan(r)
  <2>1. Ip(r) \in Ips
    BY <1>3 DEF TierBan, IInv, Underway, Attributed
  <2> QED
    BY <1>0, <1>3, <2>1 DEF TierBan, Ban, StageTypeOK
<1> QED
  BY <1>1, <1>2, <1>3 DEF Step, Call, StatelessGate, BansGate, CallInner, InnerReturns, Disconnect

(* What happens out of band keeps the stores typed.                        *)
LEMMA OutOfBandStores ==
  ASSUME StageTypeOK, StageNext
  PROVE  StageTypeOK'
<1>1. CASE Reset
  BY <1>1 DEF Reset, StageTypeOK
<1>2. ASSUME NEW i \in Ips, OperatorBans(i) PROVE StageTypeOK'
  BY <1>2 DEF OperatorBans, Ban, StageTypeOK
<1>3. ASSUME NEW i \in Ips, BanLifts(i) PROVE StageTypeOK'
  BY <1>3 DEF BanLifts, StageTypeOK
<1>4. ASSUME NEW i \in Ips, WindowSlides(i) PROVE StageTypeOK'
  <2>1. PICK q \in window[i] : window' = [window EXCEPT ![i] = @ \ {q}]
    BY <1>4 DEF WindowSlides
  <2> QED
    BY <1>4, <2>1 DEF WindowSlides, StageTypeOK
<1> QED
  BY <1>1, <1>2, <1>3, <1>4 DEF StageNext

(* The invariant is inductive.                                             *)
LEMMA NextHolds == IInv /\ [Next]_vars => IInv'
<1> SUFFICES ASSUME IInv, [Next]_vars PROVE IInv'
  OBVIOUS
<1>1. ASSUME NEW r \in Requests, Step(r), UNCHANGED <<installed, facts>> PROVE IInv'
  <2>1. Moves(r) /\ StageTypeOK'
    BY <1>1, StepMoves, StepStores
  <2>2. ProvidedLayers' = ProvidedLayers
    BY <1>1, LayersStay
  <2> QED
    BY <1>1, <2>1, <2>2, MovesHold DEF IInv, TypeOK
<1>2. CASE OutOfBandStep /\ UNCHANGED <<installed, facts>>
  <2>1. StageTypeOK'
    BY <1>2, OutOfBandStores DEF OutOfBandStep, IInv, TypeOK
  <2>2. ProvidedLayers' = ProvidedLayers
    BY <1>2, LayersStay
  <2> QED
    BY <1>2, <2>1, <2>2 DEF OutOfBandStep, IInv, TypeOK, Underway, Attributed, Ip
<1>3. CASE UNCHANGED vars
  <2>1. ProvidedLayers' = ProvidedLayers
    BY <1>3, LayersStay DEF vars, chainVars
  <2> QED
    BY <1>3, <2>1 DEF vars, chainVars, stageVars, IInv, TypeOK, StageTypeOK, Underway,
                      Attributed, Ip
<1> QED
  BY <1>1, <1>2, <1>3 DEF Next, Finished

(* It holds of every reachable state.                                      *)
LEMMA Inductive == Spec => []IInv
  BY InitHolds, NextHolds, PTL DEF Spec

(* Whatever stages are installed, the variables keep their types and no    *)
(* request goes past the service behind the last gate.                     *)
THEOREM ChainTypeCorrect == Spec => []TypeOK
<1>1. IInv => TypeOK
  BY DEF IInv
<1> QED
  BY <1>1, Inductive, PTL
-----------------------------------------------------------------------------
PhaseOf == [q \in Requests |-> Phase(q)]

(* Moving one request's phase is a move of the contract when the phases of *)
(* the others stay.                                                        *)
LEMMA PhaseMoves ==
  ASSUME NEW r \in Requests, NEW from, NEW to,
         Phase(r) \in from, Phase(r)' = to,
         \A q \in Requests \ {r} : Phase(q)' = Phase(q)
  PROVE  Contract!Move(r, from, to)
<1>1. PhaseOf' = [q \in Requests |-> Phase(q)']
  BY DEF PhaseOf
<1>2. PhaseOf' = [PhaseOf EXCEPT ![r] = to]
  BY <1>1 DEF PhaseOf
<1> QED
  BY <1>2 DEF Contract!Move, PhaseOf

(* The phase of a request follows from where it is and what it is at.      *)
LEMMA PhaseStays ==
  ASSUME NEW q \in Requests, UNCHANGED installed,
         at'[q] = at[q], doing'[q] = doing[q], answer'[q] = answer[q]
  PROVE  Phase(q)' = Phase(q)
<1>1. ProvidedLayers' = ProvidedLayers
  BY LayersStay
<1>2. Consulted(q)' = Consulted(q)
  BY <1>1 DEF Consulted, Unchecked, Passive
<1> QED
  BY <1>2 DEF Phase, Handed

(* The steps of one request touch the chain at that request only.          *)
LEMMA OthersKeepPhase ==
  ASSUME IInv, NEW r \in Requests, Moves(r), UNCHANGED <<installed, facts>>,
         NEW q \in Requests \ {r}
  PROVE  Phase(q)' = Phase(q)
<1>1. at'[q] = at[q] /\ doing'[q] = doing[q] /\ answer'[q] = answer[q]
  BY DEF Moves, Call, Forward, Refuse, CallInner, InnerReturns, Disconnect, IInv, TypeOK
<1> QED
  BY <1>1, PhaseStays

(* A gate that forwards leaves the phase alone unless it is the ban arm.   *)
LEMMA ForwardPhase ==
  ASSUME IInv, NEW r \in Requests, Forward(r), UNCHANGED <<installed, facts>>,
         doing[r] = "deciding", at[r] \in DOMAIN ProvidedLayers
  PROVE  /\ Phase(r) \in {"open", "cleared"}
         /\ ProvidedLayers[at[r]] # "bans" => Phase(r)' = Phase(r)
         /\ ProvidedLayers[at[r]] = "bans" => Phase(r)' = "cleared"
         /\ Unchecked => Phase(r)' = Phase(r)
<1> DEFINE L == ProvidedLayers
<1>1. L' = L
  BY LayersStay
<1>2. at[r] \in Nat /\ at[r] > 0 /\ DOMAIN L \subseteq Nat /\ at'[r] = at[r] + 1
  BY LayersType DEF IInv, TypeOK, Forward, Underway
<1>3. Consulted(r) <=> (Unchecked \/ \E j \in DOMAIN L : j < at[r] /\ L[j] = "bans")
  BY <1>2 DEF Consulted
<1>4. Consulted(r)' <=> (Unchecked \/ \E j \in DOMAIN L : j < at[r] + 1 /\ L[j] = "bans")
  BY <1>1, <1>2 DEF Consulted, Unchecked, Passive
<1>5. Consulted(r)' <=> (Consulted(r) \/ L[at[r]] = "bans")
  <2>1. \A j \in DOMAIN L : j < at[r] + 1 <=> j < at[r] \/ j = at[r]
    BY <1>2
  <2> QED
    BY <1>3, <1>4, <2>1
<1>6. ~Handed(r) /\ ~Handed(r)' /\ doing'[r] = "deciding"
  BY DEF Handed, Forward, IInv, Underway
<1> QED
  BY <1>3, <1>5, <1>6 DEF Phase

(* A refusal bars or dismisses a request that was not handed over.         *)
LEMMA RefusePhase ==
  ASSUME IInv, NEW r \in Requests, NEW a \in Stateless \cup {"banned", "rate_limited"},
         Refuse(r, a), doing[r] \in {"deciding", "banning"}
  PROVE  /\ Phase(r) \in {"open", "cleared"}
         /\ Phase(r)' = IF a = "banned" THEN "barred" ELSE "dismissed"
<1>1. doing'[r] = "closed" /\ answer'[r] = a
  BY DEF Refuse, IInv, TypeOK
<1>2. ~Handed(r) /\ ~Handed(r)'
  BY <1>1 DEF Handed, IInv, Underway, Stateless
<1> QED
  BY <1>1, <1>2 DEF Phase

(* A step of a request is a step of the contract or a stutter.             *)
LEMMA StepRefines ==
  ASSUME IInv, NEW r \in Requests, Step(r), UNCHANGED <<installed, facts>>
  PROVE  Contract!ContractNext \/ UNCHANGED <<bans, PhaseOf>>
<1>1. \A q \in Requests \ {r} : Phase(q)' = Phase(q)
  BY StepMoves, OthersKeepPhase
<1>2. UNCHANGED [q \in Requests |-> Ip(q)] /\ UNCHANGED {q \in Requests : Unchecked}
  BY DEF Ip, Unchecked, Passive
<1>3. UNCHANGED bans /\ Phase(r)' = Phase(r) => UNCHANGED <<bans, PhaseOf>>
  BY <1>1 DEF PhaseOf
<1>4. ASSUME NEW a \in Stateless \cup {"rate_limited"}, Refuse(r, a),
             doing[r] \in {"deciding", "banning"}, UNCHANGED bans
      PROVE  Contract!Dismiss(r)
  <2>1. a # "banned"
    BY DEF Stateless
  <2> QED
    BY <1>1, <1>4, <2>1, RefusePhase, PhaseMoves DEF Contract!Dismiss
<1>5. ASSUME Phase(r) = "open", Phase(r)' = "cleared", UNCHANGED bans,
             Unchecked \/ Ip(r) \notin bans
      PROVE  Contract!Clear(r)
  BY <1>1, <1>5, PhaseMoves DEF Contract!Clear
<1>6. CASE Call(r)
  <2>1. at'[r] = 1 /\ doing'[r] = "deciding" /\ at[r] = 0 /\ UNCHANGED <<answer, bans>>
    BY <1>6 DEF Call, IInv, TypeOK, Underway, stageVars
  <2>2. DOMAIN ProvidedLayers \subseteq Nat \ {0} /\ ProvidedLayers' = ProvidedLayers
    BY LayersType, LayersStay
  <2>3. ~Consulted(r) /\ (Consulted(r)' <=> Unchecked)
    BY <2>1, <2>2 DEF Consulted, Unchecked, Passive
  <2>4. ~Handed(r) /\ ~Handed(r)' /\ doing[r] = "waiting"
    BY <1>6, <2>1 DEF Handed, Call, IInv, Underway
  <2>5. Phase(r) = "open" /\ Phase(r)' = IF Unchecked THEN "cleared" ELSE "open"
    BY <2>1, <2>3, <2>4 DEF Phase
  <2> QED
    BY <1>2, <1>3, <1>5, <2>1, <2>5 DEF Contract!ContractNext
<1>7. CASE StatelessGate(r)
  <2>1. PICK s \in Stateless : AtGate(r, s) /\ (Refuse(r, s) \/ Forward(r)) /\ UNCHANGED stageVars
    BY <1>7 DEF StatelessGate
  <2>2. doing[r] = "deciding" /\ at[r] \in DOMAIN ProvidedLayers /\ UNCHANGED bans
    BY <2>1 DEF AtGate, stageVars
  <2>3. ProvidedLayers[at[r]] # "bans"
    BY <2>1 DEF AtGate, Stateless
  <2>4. CASE Forward(r)
    BY <1>3, <2>2, <2>3, <2>4, ForwardPhase
  <2>5. CASE Refuse(r, s)
    BY <1>2, <1>4, <2>2, <2>5 DEF Contract!ContractNext
  <2> QED
    BY <2>1, <2>4, <2>5
<1>8. CASE BansGate(r)
  <2>1. /\ doing[r] = "deciding" /\ at[r] \in DOMAIN ProvidedLayers
        /\ ProvidedLayers[at[r]] = "bans" /\ UNCHANGED bans
    BY <1>8 DEF BansGate, AtGate, stageVars
  <2>2. CASE Refuse(r, "banned") /\ LiveBan(Ip(r))
    <3>1. Ip(r) \in bans
      BY <2>2 DEF LiveBan
    <3>2. Phase(r) \in {"open", "cleared"} /\ Phase(r)' = "barred"
      BY <2>1, <2>2, RefusePhase
    <3>3. Contract!Bar(r)
      BY <1>1, <2>1, <3>1, <3>2, PhaseMoves DEF Contract!Bar
    <3> QED
      BY <1>2, <3>3 DEF Contract!ContractNext
  <2>3. CASE Forward(r) /\ (Passive \/ ~LiveBan(Ip(r)))
    <3>1. Unchecked \/ Ip(r) \notin bans
      BY <2>3 DEF Unchecked, LiveBan
    <3>2. Phase(r) \in {"open", "cleared"} /\ Phase(r)' = "cleared"
      BY <2>1, <2>3, ForwardPhase
    <3> QED
      BY <1>2, <1>3, <1>5, <2>1, <3>1, <3>2 DEF Contract!ContractNext
  <2> QED
    BY <1>8, <2>2, <2>3 DEF BansGate
<1>9. CASE TiersGate(r)
  <2>1. /\ doing[r] = "deciding" /\ at[r] \in DOMAIN ProvidedLayers
        /\ ProvidedLayers[at[r]] = "rate_limit" /\ UNCHANGED bans
    BY <1>9 DEF TiersGate, AtGate, stageVars
  <2>2. CASE Forward(r)
    BY <1>3, <2>1, <2>2, ForwardPhase
  <2>3. CASE Refuse(r, "rate_limited")
    BY <1>2, <1>4, <2>1, <2>3 DEF Contract!ContractNext
  <2>4. CASE doing' = [doing EXCEPT ![r] = "banning"] /\ UNCHANGED <<at, answer>>
    <3>1. doing'[r] = "banning" /\ ~Handed(r) /\ ~Handed(r)'
      BY <2>1, <2>4 DEF Handed, IInv, TypeOK, Underway
    <3>2. ProvidedLayers' = ProvidedLayers /\ Consulted(r)' = Consulted(r)
      BY <2>4, LayersStay DEF Consulted, Unchecked, Passive
    <3>3. Phase(r)' = Phase(r)
      BY <2>1, <3>1, <3>2 DEF Phase
    <3> QED
      BY <1>3, <2>1, <3>3
  <2> QED
    BY <1>9, <2>2, <2>3, <2>4 DEF TiersGate
<1>10. CASE TierBan(r)
  <2>1. Phase(r) \in {"open", "cleared"} /\ Phase(r)' = "dismissed"
    BY <1>10, RefusePhase DEF TierBan
  <2>2. Contract!BansItself(r)
    BY <1>1, <1>10, <2>1, PhaseMoves
    DEF Contract!BansItself, TierBan, Ban, IInv, Underway, Attributed
  <2> QED
    BY <1>2, <2>2 DEF Contract!ContractNext
<1>11. CASE CallInner(r)
  <2>1. doing[r] = "deciding" /\ at[r] = Len(ProvidedLayers) + 1 /\ UNCHANGED bans
    BY <1>11 DEF CallInner, stageVars
  <2>2. Consulted(r)
    <3>1. Len(ProvidedLayers) \in Nat /\ DOMAIN ProvidedLayers = 1 .. Len(ProvidedLayers)
      BY LayersType
    <3>2. CASE Unchecked
      BY <2>1, <3>1, <3>2 DEF Consulted
    <3>3. CASE BanningEnabled
      BY <2>1, <3>1, <3>3, LayersType DEF Consulted
    <3>4. Unchecked \/ BanningEnabled
      BY DEF Unchecked
    <3> QED
      BY <3>2, <3>3, <3>4
  <2>3. Phase(r) = "cleared"
    BY <2>1, <2>2 DEF Phase, Handed, IInv, Underway
  <2>4. Phase(r)' = "handed"
    BY <1>11 DEF CallInner, Phase, Handed, IInv, TypeOK
  <2>5. Contract!HandOver(r)
    BY <1>1, <2>1, <2>3, <2>4, PhaseMoves DEF Contract!HandOver
  <2> QED
    BY <1>2, <2>5 DEF Contract!ContractNext
<1>12. CASE InnerReturns(r) \/ Disconnect(r)
  <2>1. Handed(r) /\ UNCHANGED bans
    BY <1>12 DEF InnerReturns, Disconnect, Handed, stageVars
  <2>2. Handed(r)'
    <3>1. CASE InnerReturns(r)
      <4>1. PICK o \in {"inner", "inner_error"} : answer' = [answer EXCEPT ![r] = o]
        BY <3>1 DEF InnerReturns
      <4> QED
        BY <4>1 DEF Handed, IInv, TypeOK
    <3>2. CASE Disconnect(r)
      BY <3>2 DEF Disconnect, Handed, IInv, TypeOK
    <3> QED
      BY <1>12, <3>1, <3>2
  <2> QED
    BY <1>3, <2>1, <2>2 DEF Phase
<1> QED
  BY <1>6, <1>7, <1>8, <1>9, <1>10, <1>11, <1>12 DEF Step

(* What happens out of band changes one ban or none.                       *)
LEMMA OutOfBandRefines ==
  ASSUME OutOfBandStep, UNCHANGED <<installed, facts>>
  PROVE  Contract!ContractNext \/ UNCHANGED <<bans, PhaseOf>>
<1>1. \A q \in Requests : Phase(q)' = Phase(q)
  BY PhaseStays DEF OutOfBandStep
<1>2. PhaseOf' = PhaseOf
  BY <1>1 DEF PhaseOf
<1>3. UNCHANGED [q \in Requests |-> Ip(q)] /\ UNCHANGED {q \in Requests : Unchecked}
  BY DEF Ip, Unchecked, Passive
<1>4. UNCHANGED bans \/ \E i \in Ips : bans' \in {bans \cup {i}, bans \ {i}}
  BY DEF OutOfBandStep, StageNext, Reset, OperatorBans, BanLifts, WindowSlides, Ban
<1> QED
  BY <1>2, <1>3, <1>4 DEF Contract!ContractNext, Contract!OutOfBandBan, PhaseOf

(* Whatever stages are installed beside a ban store, the standalone layers *)
(* keep the promise of the fused pipeline: nobody reaches the wrapped      *)
(* service without the ban arm, and a request that bans its address is     *)
(* dismissed in the step that bans it.                                     *)
THEOREM ChainImplementsContract == Spec => ImplementsContract
<1>1. Init => Contract!ContractStart
  <2> SUFFICES ASSUME Init PROVE Contract!ContractStart
    OBVIOUS
  <2>1. ASSUME NEW r \in Requests PROVE Phase(r) = "open"
    <3>1. at[r] = 0 /\ doing[r] = "waiting" /\ answer[r] = "none"
      BY DEF Init
    <3>2. DOMAIN ProvidedLayers \subseteq Nat \ {0}
      BY LayersType
    <3> QED
      BY <3>1, <3>2 DEF Phase, Handed, Consulted
  <2> QED
    BY <2>1 DEF Init, StageInit, Contract!ContractStart
<1>2. IInv /\ [Next]_vars => [Contract!ContractNext]_(Contract!contractVars)
  <2> SUFFICES ASSUME IInv, [Next]_vars
               PROVE  Contract!ContractNext \/ UNCHANGED (Contract!contractVars)
    OBVIOUS
  <2>1. CASE /\ UNCHANGED <<installed, facts>>
             /\ Contract!ContractNext \/ UNCHANGED <<bans, PhaseOf>>
    BY <2>1 DEF Contract!contractVars, PhaseOf, Ip, Unchecked, Passive
  <2>2. CASE UNCHANGED vars
    <3>1. \A q \in Requests : Phase(q)' = Phase(q)
      BY <2>2, PhaseStays DEF vars, chainVars
    <3>2. UNCHANGED <<bans, installed, facts>> /\ PhaseOf' = PhaseOf
      BY <2>2, <3>1 DEF vars, chainVars, stageVars, PhaseOf
    <3> QED
      BY <2>1, <3>2
  <2> QED
    BY <2>1, <2>2, StepRefines, OutOfBandRefines DEF Next, Finished
<1> QED
  BY <1>1, <1>2, Inductive, PTL DEF Spec, ImplementsContract, Contract!ContractSpec
-----------------------------------------------------------------------------
(* The order of the checks.                                                *)

\* A layer's place in the reference pipeline.
Rank(n) ==
  Position[CASE n = "bans" -> "banned"
             [] n = "rate_limit" -> "rate_limited"
             [] OTHER -> n]

(* The places, one by one.                                                 *)
LEMMA Ranks ==
  /\ Rank("emergency") = 2 /\ Rank("https") = 3 /\ Rank("headers_auth") = 6
  /\ Rank("referrer") = 8 /\ Rank("validators") = 9 /\ Rank("time_window") = 10
  /\ Rank("bans") = 11 /\ Rank("geo") = 12 /\ Rank("cloud") = 13
  /\ Rank("user_agent") = 14 /\ Rank("rate_limit") = 15 /\ Rank("custom_request") = 17
  BY DEF Rank, Position

Occurs(n, s) == \E i \in DOMAIN s : s[i] = n

\* Layers of ascending places, each at least lo and less than hi.
Ascending(s, lo, hi) ==
  /\ s \in Seq(LayerNames)
  /\ \A i \in DOMAIN s : lo <= Rank(s[i]) /\ Rank(s[i]) < hi
  /\ \A i, j \in DOMAIN s : i < j => Rank(s[i]) < Rank(s[j])

(* A layer of two compositions put together is a layer of one of them.     *)
LEMMA OccursJoin ==
  ASSUME NEW s \in Seq(LayerNames), NEW t \in Seq(LayerNames), NEW n
  PROVE  Occurs(n, s \o t) <=> Occurs(n, s) \/ Occurs(n, t)
<1>1. ASSUME NEW i \in DOMAIN (s \o t), (s \o t)[i] = n PROVE Occurs(n, s) \/ Occurs(n, t)
  <2>1. CASE i <= Len(s)
    BY <1>1, <2>1 DEF Occurs
  <2>2. CASE i > Len(s)
    <3>1. i - Len(s) \in DOMAIN t /\ t[i - Len(s)] = n
      BY <1>1, <2>2
    <3> QED
      BY <3>1 DEF Occurs
  <2> QED
    BY <1>1, <2>1, <2>2
<1>2. ASSUME NEW i \in DOMAIN s, s[i] = n PROVE Occurs(n, s \o t)
  <2>1. i \in DOMAIN (s \o t) /\ (s \o t)[i] = n
    BY <1>2
  <2> QED
    BY <2>1 DEF Occurs
<1>3. ASSUME NEW i \in DOMAIN t, t[i] = n PROVE Occurs(n, s \o t)
  <2>1. Len(s) + i \in DOMAIN (s \o t) /\ (s \o t)[Len(s) + i] = n
    BY <1>3
  <2> QED
    BY <2>1 DEF Occurs
<1> QED
  BY <1>1, <1>2, <1>3 DEF Occurs

(* Two ascending compositions, one behind the other, ascend.               *)
LEMMA AscendingJoin ==
  ASSUME NEW s, NEW t, NEW lo \in Int, NEW mid \in Int, NEW hi \in Int,
         lo <= mid, mid <= hi, Ascending(s, lo, mid), Ascending(t, mid, hi),
         \A n \in LayerNames : Rank(n) \in Int
  PROVE  Ascending(s \o t, lo, hi)
<1>1. s \in Seq(LayerNames) /\ t \in Seq(LayerNames)
  BY DEF Ascending
<1>2. \A i \in DOMAIN (s \o t) :
        \/ i \in DOMAIN s /\ (s \o t)[i] = s[i]
        \/ i - Len(s) \in DOMAIN t /\ i > Len(s) /\ (s \o t)[i] = t[i - Len(s)]
  BY <1>1
<1>3. /\ \A i \in DOMAIN s : Rank(s[i]) \in Int /\ lo <= Rank(s[i]) /\ Rank(s[i]) < mid
      /\ \A i \in DOMAIN t : Rank(t[i]) \in Int /\ mid <= Rank(t[i]) /\ Rank(t[i]) < hi
  BY <1>1 DEF Ascending
<1>4. \A i \in DOMAIN (s \o t) : lo <= Rank((s \o t)[i]) /\ Rank((s \o t)[i]) < hi
  BY <1>2, <1>3
<1>5. ASSUME NEW i \in DOMAIN (s \o t), NEW j \in DOMAIN (s \o t), i < j
      PROVE  Rank((s \o t)[i]) < Rank((s \o t)[j])
  <2>0. i \in Int /\ j \in Int /\ Len(s) \in Nat /\ DOMAIN s = 1 .. Len(s)
    BY <1>1
  <2>1. CASE i \in DOMAIN s /\ j \in DOMAIN s
    <3>1. (s \o t)[i] = s[i] /\ (s \o t)[j] = s[j]
      BY <1>2, <2>0, <2>1
    <3> QED
      BY <1>5, <2>1, <3>1 DEF Ascending
  <2>2. CASE i \in DOMAIN s /\ j \notin DOMAIN s
    BY <1>2, <1>3, <2>0, <2>2
  <2>3. CASE i \notin DOMAIN s
    <3>1. i - Len(s) \in DOMAIN t /\ j - Len(s) \in DOMAIN t /\ i - Len(s) < j - Len(s)
      BY <1>2, <1>5, <2>0, <2>3
    <3>2. (s \o t)[i] = t[i - Len(s)] /\ (s \o t)[j] = t[j - Len(s)]
      BY <1>2, <1>5, <2>0, <2>3
    <3> QED
      BY <3>1, <3>2 DEF Ascending
  <2> QED
    BY <2>1, <2>2, <2>3
<1>6. s \o t \in Seq(LayerNames)
  BY <1>1
<1> QED
  BY <1>4, <1>5, <1>6, Zenon DEF Ascending

(* One builder's layer is at its own place,                                *)
LEMMA AscendingOne ==
  ASSUME NEW b, NEW n \in LayerNames, NEW lo \in Int, NEW hi \in Int,
         Rank(n) = lo, lo < hi
  PROVE  Ascending(Provided(b, n), lo, hi)
  BY DEF Ascending, Provided

(* and it is there when the builder was called.                            *)
LEMMA OccursOne == \A b, n : b \in installed => Occurs(n, Provided(b, n))
  BY DEF Provided, Occurs

(* A layer's place is a number.                                            *)
LEMMA RankType == \A n \in LayerNames : Rank(n) \in Int
  BY Ranks DEF LayerNames, Stateless

(* The layers ahead of the ban arm ascend, and are what was installed.     *)
LEMMA AheadOrder ==
  /\ Ascending(Ahead, 2, 11)
  /\ "emergency" \in installed => Occurs("emergency", Ahead)
  /\ "https" \in installed => Occurs("https", Ahead)
  /\ "headers_auth" \in installed => Occurs("headers_auth", Ahead)
  /\ "referrer" \in installed => Occurs("referrer", Ahead)
  /\ "custom_checks" \in installed => Occurs("validators", Ahead)
  /\ "time_window" \in installed => Occurs("time_window", Ahead)
<1> DEFINE p1 == Provided("emergency", "emergency")
           p2 == Provided("https", "https")
           p3 == Provided("headers_auth", "headers_auth")
           p4 == Provided("referrer", "referrer")
           p5 == Provided("custom_checks", "validators")
           p6 == Provided("time_window", "time_window")
<1>0. /\ "emergency" \in LayerNames /\ "https" \in LayerNames /\ "headers_auth" \in LayerNames
      /\ "referrer" \in LayerNames /\ "validators" \in LayerNames /\ "time_window" \in LayerNames
  BY DEF LayerNames, Stateless
<1>1. /\ Ascending(p1, 2, 3) /\ Ascending(p2, 3, 6) /\ Ascending(p3, 6, 8)
      /\ Ascending(p4, 8, 9) /\ Ascending(p5, 9, 10) /\ Ascending(p6, 10, 11)
  <2>1. Ascending(p1, 2, 3)
    BY <1>0, AscendingOne, Ranks
  <2>2. Ascending(p2, 3, 6)
    BY <1>0, AscendingOne, Ranks
  <2>3. Ascending(p3, 6, 8)
    BY <1>0, AscendingOne, Ranks
  <2>4. Ascending(p4, 8, 9)
    BY <1>0, AscendingOne, Ranks
  <2>5. Ascending(p5, 9, 10)
    BY <1>0, AscendingOne, Ranks
  <2>6. Ascending(p6, 10, 11)
    BY <1>0, AscendingOne, Ranks
  <2> QED
    BY <2>1, <2>2, <2>3, <2>4, <2>5, <2>6
<1>2. /\ "emergency" \in installed => Occurs("emergency", p1)
      /\ "https" \in installed => Occurs("https", p2)
      /\ "headers_auth" \in installed => Occurs("headers_auth", p3)
      /\ "referrer" \in installed => Occurs("referrer", p4)
      /\ "custom_checks" \in installed => Occurs("validators", p5)
      /\ "time_window" \in installed => Occurs("time_window", p6)
  BY OccursOne
<1>3. Ahead = p1 \o p2 \o p3 \o p4 \o p5 \o p6
  BY DEF Ahead
<1> HIDE DEF p1, p2, p3, p4, p5, p6
<1>4. Ascending(p1 \o p2, 2, 6)
  BY <1>1, AscendingJoin, RankType
<1>5. Ascending(p1 \o p2 \o p3, 2, 8)
  BY <1>1, <1>4, AscendingJoin, RankType
<1>6. Ascending(p1 \o p2 \o p3 \o p4, 2, 9)
  BY <1>1, <1>5, AscendingJoin, RankType
<1>7. Ascending(p1 \o p2 \o p3 \o p4 \o p5, 2, 10)
  BY <1>1, <1>6, AscendingJoin, RankType
<1>8. Ascending(Ahead, 2, 11)
  BY <1>1, <1>3, <1>7, AscendingJoin, RankType
<1>9. \A n : Occurs(n, Ahead) <=> \/ Occurs(n, p1) \/ Occurs(n, p2) \/ Occurs(n, p3)
                                  \/ Occurs(n, p4) \/ Occurs(n, p5) \/ Occurs(n, p6)
  <2>1. /\ p1 \in Seq(LayerNames) /\ p2 \in Seq(LayerNames) /\ p3 \in Seq(LayerNames)
        /\ p4 \in Seq(LayerNames) /\ p5 \in Seq(LayerNames) /\ p6 \in Seq(LayerNames)
        /\ p1 \o p2 \in Seq(LayerNames) /\ p1 \o p2 \o p3 \in Seq(LayerNames)
        /\ p1 \o p2 \o p3 \o p4 \in Seq(LayerNames)
        /\ p1 \o p2 \o p3 \o p4 \o p5 \in Seq(LayerNames)
    BY <1>1, <1>4, <1>5, <1>6, <1>7 DEF Ascending
  <2> QED
    BY <1>3, <2>1, OccursJoin
<1> QED
  BY <1>2, <1>8, <1>9

(* So do the ban arm and the layers behind it.                             *)
LEMMA BehindOrder ==
  /\ Ascending(Behind, 11, 18)
  /\ "geo" \in installed => Occurs("geo", Behind)
  /\ "cloud" \in installed => Occurs("cloud", Behind)
  /\ "user_agent" \in installed => Occurs("user_agent", Behind)
  /\ "custom_checks" \in installed => Occurs("custom_request", Behind)
<1> DEFINE q1 == Provided("geo", "geo")
           q2 == Provided("cloud", "cloud")
           q3 == Provided("user_agent", "user_agent")
           last == Provided("custom_checks", "custom_request")
           core == IF HasRateStage THEN <<"bans">> \o Middle \o <<"rate_limit">> ELSE Middle
<1>1. /\ Ascending(q1, 12, 13) /\ Ascending(q2, 13, 14) /\ Ascending(q3, 14, 15)
      /\ Ascending(last, 17, 18) /\ Ascending(<<"bans">>, 11, 12)
      /\ Ascending(<<"rate_limit">>, 15, 17)
  <2>1. {"bans", "rate_limit", "geo", "cloud", "user_agent", "custom_request"} \subseteq LayerNames
    BY DEF LayerNames, Stateless
  <2>2. Ascending(q1, 12, 13)
    BY <2>1, AscendingOne, Ranks
  <2>6. Ascending(q2, 13, 14)
    BY <2>1, AscendingOne, Ranks
  <2>7. Ascending(q3, 14, 15)
    BY <2>1, AscendingOne, Ranks
  <2>3. Ascending(last, 17, 18)
    BY <2>1, AscendingOne, Ranks
  <2>4. Ascending(<<"bans">>, 11, 12)
    BY <2>1, Ranks DEF Ascending
  <2>5. Ascending(<<"rate_limit">>, 15, 17)
    BY <2>1, Ranks DEF Ascending
  <2> QED
    BY <2>2, <2>3, <2>4, <2>5, <2>6, <2>7
<1>2. /\ "geo" \in installed => Occurs("geo", q1)
      /\ "cloud" \in installed => Occurs("cloud", q2)
      /\ "user_agent" \in installed => Occurs("user_agent", q3)
      /\ "custom_checks" \in installed => Occurs("custom_request", last)
  BY OccursOne
<1>3. Middle = q1 \o q2 \o q3 /\ Behind = core \o last
  BY DEF Middle, Behind
<1> HIDE DEF q1, q2, q3, last
<1>4. Ascending(q1 \o q2, 12, 14)
  BY <1>1, AscendingJoin, RankType
<1>5. Ascending(Middle, 12, 15)
  BY <1>1, <1>3, <1>4, AscendingJoin, RankType
<1>6. Ascending(<<"bans">> \o Middle, 11, 15)
  BY <1>1, <1>5, AscendingJoin, RankType
<1>7. Ascending(<<"bans">> \o Middle \o <<"rate_limit">>, 11, 17)
  BY <1>1, <1>6, AscendingJoin, RankType
<1>8. Ascending(Middle, 11, 17)
  BY <1>5, RankType DEF Ascending
<1>9. Ascending(core, 11, 17)
  BY <1>7, <1>8
<1>10. Ascending(Behind, 11, 18)
  <2> HIDE DEF core
  <2> QED
    BY <1>1, <1>3, <1>9, AscendingJoin, RankType
<1>11. \A n : Occurs(n, q1) \/ Occurs(n, q2) \/ Occurs(n, q3) => Occurs(n, Middle)
  <2>1. /\ q1 \in Seq(LayerNames) /\ q2 \in Seq(LayerNames) /\ q3 \in Seq(LayerNames)
        /\ q1 \o q2 \in Seq(LayerNames)
    BY <1>1, <1>4 DEF Ascending
  <2> QED
    BY <1>3, <2>1, OccursJoin
<1>12. \A n : Occurs(n, Middle) => Occurs(n, core)
  <2>1. /\ <<"bans">> \in Seq(LayerNames) /\ <<"rate_limit">> \in Seq(LayerNames)
        /\ Middle \in Seq(LayerNames) /\ <<"bans">> \o Middle \in Seq(LayerNames)
    BY <1>1, <1>5, <1>6 DEF Ascending
  <2>2. \A n : Occurs(n, Middle) => Occurs(n, <<"bans">> \o Middle \o <<"rate_limit">>)
    BY <2>1, OccursJoin
  <2> QED
    BY <2>2
<1>13. \A n : Occurs(n, core) \/ Occurs(n, last) => Occurs(n, Behind)
  <2> HIDE DEF core
  <2>1. core \in Seq(LayerNames) /\ last \in Seq(LayerNames)
    BY <1>1, <1>9 DEF Ascending
  <2> QED
    BY <1>3, <2>1, OccursJoin
<1> HIDE DEF core
<1> QED
  BY <1>2, <1>10, <1>11, <1>12, <1>13

(* Whatever is installed, the layers come in the order of the reference    *)
(* pipeline, and no installed stage is missing.                            *)
LEMMA LayersOrder ==
  /\ Ascending(ProvidedLayers, 2, 18)
  /\ \A s \in Stateless :
       BuilderOf(s) \in installed => Occurs(s, ProvidedLayers)
<1>1. Ahead \in Seq(LayerNames) /\ Behind \in Seq(LayerNames)
  BY AheadType, BehindType
<1>2. \A n : Occurs(n, Ahead) \/ Occurs(n, Behind) => Occurs(n, ProvidedLayers)
  BY <1>1, Halves, OccursJoin
<1>3. Ascending(ProvidedLayers, 2, 18)
  BY AheadOrder, BehindOrder, Halves, AscendingJoin, RankType
<1> QED
  BY <1>2, <1>3, AheadOrder, BehindOrder DEF Stateless, BuilderOf

\* A composition without a stage whose builder was not called.
Installed(s) ==
  /\ s \in Seq(LayerNames)
  /\ \A i \in DOMAIN s : s[i] \in Stateless => BuilderOf(s[i]) \in installed

(* Two of them, one behind the other, are a third.                         *)
LEMMA InstalledJoin ==
  ASSUME NEW s, NEW t, Installed(s), Installed(t)
  PROVE  Installed(s \o t)
<1>1. s \in Seq(LayerNames) /\ t \in Seq(LayerNames)
  BY DEF Installed
<1>2. s \o t \in Seq(LayerNames)
  BY <1>1
<1>3. \A i \in DOMAIN (s \o t) :
        \/ i \in DOMAIN s /\ (s \o t)[i] = s[i]
        \/ i - Len(s) \in DOMAIN t /\ (s \o t)[i] = t[i - Len(s)]
  BY <1>1
<1> HIDE <1>1
<1>4. \A i \in DOMAIN (s \o t) : (s \o t)[i] \in Stateless => BuilderOf((s \o t)[i]) \in installed
  BY <1>3 DEF Installed
<1> QED
  BY <1>2, <1>4 DEF Installed

(* A stage's own builder provides it.                                      *)
LEMMA InstalledOne ==
  ASSUME NEW n \in Stateless, NEW b, b = BuilderOf(n)
  PROVE  Installed(Provided(b, n))
<1>1. Provided(b, n) \in Seq(LayerNames)
  BY ProvidedType DEF LayerNames
<1>2. CASE b \in installed
  <2>1. Provided(b, n) = <<n>>
    BY <1>2 DEF Provided
  <2> QED
    BY <1>1, <1>2, <2>1 DEF Installed
<1>3. CASE b \notin installed
  <2>1. Provided(b, n) = <<>>
    BY <1>3 DEF Provided
  <2> QED
    BY <1>1, <2>1 DEF Installed
<1> QED
  BY <1>2, <1>3

(* No stage is in the chain that was not installed.                        *)
LEMMA LayersInstalled == Installed(ProvidedLayers)
<1>1. /\ Installed(Provided("emergency", "emergency")) /\ Installed(Provided("https", "https"))
      /\ Installed(Provided("headers_auth", "headers_auth"))
      /\ Installed(Provided("referrer", "referrer"))
      /\ Installed(Provided("custom_checks", "validators"))
      /\ Installed(Provided("time_window", "time_window"))
  BY InstalledOne DEF BuilderOf, Stateless
<1>2. /\ Installed(Provided("geo", "geo")) /\ Installed(Provided("cloud", "cloud"))
      /\ Installed(Provided("user_agent", "user_agent"))
      /\ Installed(Provided("custom_checks", "custom_request"))
  BY InstalledOne DEF BuilderOf, Stateless
<1>3. Installed(<<"bans">>) /\ Installed(<<"rate_limit">>)
  <2>1. "bans" \notin Stateless /\ "rate_limit" \notin Stateless
    BY DEF Stateless
  <2>2. <<"bans">> \in Seq(LayerNames) /\ <<"rate_limit">> \in Seq(LayerNames)
    BY DEF LayerNames
  <2> QED
    BY <2>1, <2>2 DEF Installed
<1>4. Installed(Ahead)
  BY <1>1, InstalledJoin, Zenon DEF Ahead
<1>5. Installed(Middle)
  BY <1>2, InstalledJoin, Zenon DEF Middle
<1>6. Installed(<<"bans">> \o Middle \o <<"rate_limit">>)
  BY <1>3, <1>5, InstalledJoin, Zenon
<1>7. Installed(IF HasRateStage THEN <<"bans">> \o Middle \o <<"rate_limit">> ELSE Middle)
  BY <1>5, <1>6, Zenon
<1>8. Installed(Behind)
  BY <1>2, <1>7, InstalledJoin, Zenon DEF Behind
<1> QED
  BY <1>4, <1>8, Halves, InstalledJoin, Zenon

\* Every gate behind the request had nothing against it, a refusal names the
\* gate the request is still at, and a hit is one of a gate it has passed.
ScreenedAt(r) ==
  /\ \A j \in DOMAIN ProvidedLayers :
       j < at[r] /\ ProvidedLayers[j] \in Stateless => ~Decides(r, ProvidedLayers[j])
  /\ answer[r] \in DOMAIN Position =>
       /\ at[r] \in DOMAIN ProvidedLayers
       /\ Rank(ProvidedLayers[at[r]]) = Position[answer[r]]
  /\ doing[r] = "banning" =>
       at[r] \in DOMAIN ProvidedLayers /\ ProvidedLayers[at[r]] = "rate_limit"
  /\ Handed(r) => at[r] = Len(ProvidedLayers) + 1
  /\ \A i \in Ips : r \in window[i] =>
       \E j \in DOMAIN ProvidedLayers : j < at[r] /\ ProvidedLayers[j] = "rate_limit"

Screened == \A r \in Requests : ScreenedAt(r)

\* A refusal has its cause, and so has the ban that is about to be followed
\* by one.
CausedAt(r) ==
  /\ answer[r] \in Stateless \cup {"banned", "rate_limited"} => Cause(r, answer[r])
  /\ doing[r] = "banning" => Cause(r, "rate_limited")

Caused == \A r \in Requests : CausedAt(r)

(* Screened with the order of the layers is the order of the answers.      *)
LEMMA ScreenedOrder == IInv /\ Screened /\ Caused => ReferenceOrder
<1> SUFFICES ASSUME IInv, Screened, Caused, NEW r \in Requests
             PROVE  /\ answer[r] \in DOMAIN Position =>
                         /\ Cause(r, answer[r])
                         /\ \A s \in Objections(r) : Position[s] >= Position[answer[r]]
                    /\ Handed(r) => Objections(r) = {}
                    /\ \A i \in Ips : r \in window[i] =>
                         \A s \in Objections(r) : Position[s] > Position["rate_limited"]
  BY DEF ReferenceOrder
<1> DEFINE L == ProvidedLayers
<1>1. /\ \A i \in DOMAIN L : Rank(L[i]) \in Int
      /\ \A i, j \in DOMAIN L : i < j => Rank(L[i]) < Rank(L[j])
      /\ DOMAIN L = 1 .. Len(L) /\ Len(L) \in Nat
  BY LayersOrder, LayersType, RankType DEF Ascending
<1>2. ASSUME NEW s \in Objections(r)
      PROVE  /\ \E j \in DOMAIN L : L[j] = s /\ at[r] <= j
             /\ Position[s] = Rank(s)
  <2>1. PICK j \in DOMAIN L : L[j] = s
    BY LayersOrder DEF Objections, Occurs
  <2>2. ~(j < at[r])
    BY <2>1 DEF Screened, ScreenedAt, Objections
  <2>3. Position[s] = Rank(s)
    BY DEF Rank, Objections, Stateless
  <2>4. at[r] \in Int
    BY <1>1 DEF IInv, TypeOK
  <2> QED
    BY <1>1, <2>1, <2>2, <2>3, <2>4
<1>3. ASSUME answer[r] \in DOMAIN Position, NEW s \in Objections(r)
      PROVE  Position[s] >= Position[answer[r]]
  <2>1. at[r] \in DOMAIN L /\ Rank(L[at[r]]) = Position[answer[r]]
    BY <1>3 DEF Screened, ScreenedAt
  <2>2. PICK j \in DOMAIN L : L[j] = s /\ at[r] <= j
    BY <1>2, <1>3
  <2>3. Position[s] = Rank(L[j])
    BY <1>2, <1>3, <2>2
  <2>4. j = at[r] \/ at[r] < j
    BY <1>1, <2>1, <2>2
  <2> HIDE DEF L
  <2> QED
    BY <1>1, <2>1, <2>2, <2>3, <2>4
<1>4. ASSUME Handed(r), NEW s \in Objections(r) PROVE FALSE
  <2>1. at[r] = Len(L) + 1
    BY <1>4 DEF Screened, ScreenedAt
  <2> QED
    BY <1>1, <1>2, <1>4, <2>1
<1>5. ASSUME NEW i \in Ips, r \in window[i], NEW s \in Objections(r)
      PROVE  Position[s] > Position["rate_limited"]
  <2>1. PICK k \in DOMAIN L : k < at[r] /\ L[k] = "rate_limit"
    BY <1>5 DEF Screened, ScreenedAt
  <2>2. PICK j \in DOMAIN L : L[j] = s /\ at[r] <= j
    BY <1>2, <1>5
  <2>3. Position[s] = Rank(L[j]) /\ Position["rate_limited"] = Rank(L[k])
    BY <1>2, <1>5, <2>1, <2>2 DEF Rank
  <2>4. k < j
    BY <1>1, <2>1, <2>2 DEF IInv, TypeOK
  <2> HIDE DEF L
  <2> QED
    BY <1>1, <2>1, <2>2, <2>3, <2>4
<1>6. answer[r] \in DOMAIN Position => Cause(r, answer[r])
  BY DEF Caused, CausedAt, Position, Stateless
<1> QED
  BY <1>3, <1>4, <1>5, <1>6

(* Initially nothing has been asked.                                       *)
LEMMA InitScreened == Init => Screened
<1> SUFFICES ASSUME Init, NEW r \in Requests PROVE ScreenedAt(r)
  BY DEF Screened
<1>1. at[r] = 0 /\ doing[r] = "waiting" /\ answer[r] = "none" /\ \A i \in Ips : window[i] = {}
  BY DEF Init, StageInit
<1>2. DOMAIN ProvidedLayers \subseteq Nat \ {0}
  BY LayersType
<1>3. answer[r] \notin DOMAIN Position /\ ~Handed(r)
  BY <1>1 DEF Position, Handed
<1> QED
  BY <1>1, <1>2, <1>3 DEF ScreenedAt

\* The window has taken no hit of the request.
NoNewHit(r) == \A i \in Ips : r \in window'[i] => r \in window[i]

(* What a stage says of a request does not change.                         *)
LEMMA DecidesStays ==
  ASSUME UNCHANGED <<installed, facts>>, NEW r
  PROVE  \A s : Decides(r, s)' <=> Decides(r, s)
  BY DEF Decides, Passive, Attributed, Ip, Skips

(* A request nothing happened to stays screened.                           *)
LEMMA ScreenedStays ==
  ASSUME NEW r \in Requests, ScreenedAt(r), UNCHANGED <<installed, facts>>,
         at'[r] = at[r], doing'[r] = doing[r], answer'[r] = answer[r], NoNewHit(r)
  PROVE  ScreenedAt(r)'
<1>1. ProvidedLayers' = ProvidedLayers
  BY LayersStay
<1>2. Handed(r)' <=> Handed(r)
  BY DEF Handed
<1> QED
  BY <1>1, <1>2, DecidesStays DEF ScreenedAt, NoNewHit, Rank, Position

(* A gate that has nothing against the request screens it.                 *)
LEMMA ForwardScreens ==
  ASSUME IInv, NEW r \in Requests, ScreenedAt(r), UNCHANGED <<installed, facts>>,
         Forward(r), doing[r] = "deciding", at[r] \in DOMAIN ProvidedLayers,
         ProvidedLayers[at[r]] \in Stateless => ~Decides(r, ProvidedLayers[at[r]]),
         NoNewHit(r) \/ ProvidedLayers[at[r]] = "rate_limit"
  PROVE  ScreenedAt(r)'
<1>1. ProvidedLayers' = ProvidedLayers
  BY LayersStay
<1>2. DOMAIN ProvidedLayers \subseteq Nat /\ at[r] \in Nat
  BY LayersType
<1>3. at'[r] = at[r] + 1 /\ doing'[r] = "deciding" /\ answer'[r] = "none"
  BY DEF Forward, IInv, TypeOK, Underway
<1>4. answer'[r] \notin DOMAIN Position /\ ~Handed(r)'
  BY <1>3 DEF Position, Handed
<1>5. \A j \in DOMAIN ProvidedLayers : j < at'[r] <=> j < at[r] \/ j = at[r]
  BY <1>2, <1>3
<1>6. \A j \in DOMAIN ProvidedLayers :
        j < at'[r] /\ ProvidedLayers[j] \in Stateless => ~Decides(r, ProvidedLayers[j])'
  BY <1>1, <1>5, DecidesStays DEF ScreenedAt
<1>7. \A i \in Ips : r \in window'[i] =>
        \E j \in DOMAIN ProvidedLayers : j < at'[r] /\ ProvidedLayers[j] = "rate_limit"
  <2>1. CASE NoNewHit(r)
    BY <1>5, <2>1 DEF NoNewHit, ScreenedAt
  <2>2. CASE ProvidedLayers[at[r]] = "rate_limit"
    BY <1>5, <2>2
  <2> QED
    BY <2>1, <2>2
<1> QED
  BY <1>1, <1>3, <1>4, <1>6, <1>7, DecidesStays DEF ScreenedAt

(* A gate that refuses answers in its own name.                            *)
LEMMA RefuseScreens ==
  ASSUME IInv, NEW r \in Requests, ScreenedAt(r), UNCHANGED <<installed, facts>>,
         NEW refusal \in Stateless \cup {"banned", "rate_limited"}, Refuse(r, refusal),
         at[r] \in DOMAIN ProvidedLayers,
         Rank(ProvidedLayers[at[r]]) = Position[refusal], NoNewHit(r)
  PROVE  ScreenedAt(r)'
<1>1. ProvidedLayers' = ProvidedLayers
  BY LayersStay
<1>2. at'[r] = at[r] /\ doing'[r] = "closed" /\ answer'[r] = refusal
  BY DEF Refuse, IInv, TypeOK
<1>3. ~Handed(r)'
  BY <1>2 DEF Handed, Stateless
<1> QED
  BY <1>1, <1>2, <1>3, DecidesStays DEF ScreenedAt, NoNewHit, Rank, Position

(* Every step of a request leaves it screened.                             *)
LEMMA StepScreens ==
  ASSUME IInv, NEW r \in Requests, ScreenedAt(r), Step(r), UNCHANGED <<installed, facts>>
  PROVE  ScreenedAt(r)'
<1>0. ProvidedLayers' = ProvidedLayers
  BY LayersStay
<1>1. CASE Call(r)
  <2>1. at[r] = 0 /\ at'[r] = 1 /\ doing'[r] = "deciding" /\ answer'[r] = "none" /\ NoNewHit(r)
    BY <1>1 DEF Call, IInv, TypeOK, Underway, stageVars, NoNewHit
  <2>2. DOMAIN ProvidedLayers \subseteq Nat \ {0}
    BY LayersType
  <2>3. answer'[r] \notin DOMAIN Position /\ ~Handed(r)'
    BY <2>1 DEF Position, Handed
  <2> QED
    BY <1>0, <2>1, <2>2, <2>3 DEF ScreenedAt, NoNewHit
<1>2. CASE StatelessGate(r)
  <2>1. PICK stage \in Stateless :
          /\ AtGate(r, stage)
          /\ \/ Decides(r, stage) /\ Refuse(r, stage)
             \/ ~Decides(r, stage) /\ Forward(r)
    BY <1>2 DEF StatelessGate
  <2>2. NoNewHit(r)
    BY <1>2 DEF StatelessGate, stageVars, NoNewHit
  <2>3. at[r] \in DOMAIN ProvidedLayers /\ ProvidedLayers[at[r]] = stage /\ doing[r] = "deciding"
    BY <2>1 DEF AtGate
  <2>4. Rank(stage) = Position[stage]
    BY DEF Rank, Stateless
  <2>5. CASE Refuse(r, stage)
    BY <2>2, <2>3, <2>4, <2>5, RefuseScreens
  <2>6. CASE ~Decides(r, stage) /\ Forward(r)
    BY <2>2, <2>3, <2>6, ForwardScreens
  <2> QED
    BY <2>1, <2>5, <2>6
<1>3. CASE BansGate(r)
  <2>1. /\ at[r] \in DOMAIN ProvidedLayers /\ ProvidedLayers[at[r]] = "bans"
        /\ doing[r] = "deciding" /\ NoNewHit(r)
    BY <1>3 DEF BansGate, AtGate, stageVars, NoNewHit
  <2>2. "bans" \notin Stateless /\ Rank("bans") = Position["banned"]
    BY DEF Rank, Stateless
  <2>3. CASE Refuse(r, "banned")
    BY <2>1, <2>2, <2>3, RefuseScreens
  <2>4. CASE Forward(r)
    BY <2>1, <2>2, <2>4, ForwardScreens
  <2> QED
    BY <1>3, <2>3, <2>4 DEF BansGate
<1>4. CASE TiersGate(r)
  <2>1. /\ at[r] \in DOMAIN ProvidedLayers /\ ProvidedLayers[at[r]] = "rate_limit"
        /\ doing[r] = "deciding"
    BY <1>4 DEF TiersGate, AtGate
  <2>2. "rate_limit" \notin Stateless /\ Rank("rate_limit") = Position["rate_limited"]
    BY DEF Rank, Stateless
  <2>3. CASE Forward(r)
    BY <2>1, <2>2, <2>3, ForwardScreens
  <2>4. CASE UNCHANGED window /\ Refuse(r, "rate_limited")
    BY <2>1, <2>2, <2>4, RefuseScreens DEF NoNewHit
  <2>5. CASE /\ UNCHANGED <<window, at, answer>>
             /\ doing' = [doing EXCEPT ![r] = "banning"]
    <3>1. doing'[r] = "banning" /\ answer'[r] = "none" /\ at'[r] = at[r]
      BY <2>1, <2>5 DEF IInv, TypeOK, Underway
    <3>2. answer'[r] \notin DOMAIN Position /\ ~Handed(r)'
      BY <3>1 DEF Position, Handed
    <3> QED
      BY <1>0, <2>1, <2>5, <3>1, <3>2, DecidesStays DEF ScreenedAt
  <2> QED
    BY <1>4, <2>3, <2>4, <2>5 DEF TiersGate
<1>5. CASE TierBan(r)
  <2>1. at[r] \in DOMAIN ProvidedLayers /\ ProvidedLayers[at[r]] = "rate_limit"
    BY <1>5 DEF TierBan, ScreenedAt
  <2>2. Rank("rate_limit") = Position["rate_limited"]
    BY DEF Rank
  <2> QED
    BY <1>5, <2>1, <2>2, RefuseScreens DEF TierBan, NoNewHit
<1>6. CASE CallInner(r)
  <2>1. /\ at[r] = Len(ProvidedLayers) + 1 /\ at'[r] = at[r]
        /\ doing'[r] = "inner" /\ answer'[r] = "none" /\ UNCHANGED window
    BY <1>6 DEF CallInner, IInv, TypeOK, Underway, stageVars
  <2>2. answer'[r] \notin DOMAIN Position
    BY <2>1 DEF Position
  <2> QED
    BY <1>0, <2>1, <2>2, DecidesStays DEF ScreenedAt
<1>7. CASE InnerReturns(r)
  <2>1. PICK outcome \in {"inner", "inner_error"} : answer' = [answer EXCEPT ![r] = outcome]
    BY <1>7 DEF InnerReturns
  <2>2. /\ at[r] = Len(ProvidedLayers) + 1 /\ at'[r] = at[r]
        /\ doing'[r] = "closed" /\ answer'[r] = outcome /\ UNCHANGED window
    BY <1>7, <2>1 DEF InnerReturns, ScreenedAt, Handed, IInv, TypeOK, stageVars
  <2>3. answer'[r] \notin DOMAIN Position
    BY <2>1, <2>2 DEF Position
  <2> QED
    BY <1>0, <2>2, <2>3, DecidesStays DEF ScreenedAt
<1>8. CASE Disconnect(r)
  <2>1. /\ at[r] = Len(ProvidedLayers) + 1 /\ at'[r] = at[r]
        /\ doing'[r] = "dropped" /\ answer'[r] = "none" /\ UNCHANGED window
    BY <1>8 DEF Disconnect, ScreenedAt, Handed, IInv, TypeOK, Underway, stageVars
  <2>2. answer'[r] \notin DOMAIN Position
    BY <2>1 DEF Position
  <2> QED
    BY <1>0, <2>1, <2>2, DecidesStays DEF ScreenedAt
<1> QED
  BY <1>1, <1>2, <1>3, <1>4, <1>5, <1>6, <1>7, <1>8 DEF Step

(* A step of one request puts no hit of another into a window.             *)
LEMMA OthersTakeNoHit ==
  ASSUME IInv, NEW r \in Requests, Step(r), NEW q \in Requests \ {r}
  PROVE  NoNewHit(q)
<1>1. UNCHANGED window \/ RecordHit(Ip(r), r)
  BY DEF Step, Call, StatelessGate, BansGate, TiersGate, TierBan, CallInner, InnerReturns,
         Disconnect, stageVars
<1> QED
  BY <1>1 DEF RecordHit, NoNewHit, IInv, TypeOK, StageTypeOK

(* Nor does what happens out of band.                                      *)
LEMMA OutOfBandTakesNoHit ==
  ASSUME IInv, StageNext, NEW q \in Requests
  PROVE  NoNewHit(q)
<1>0. window \in [Ips -> SUBSET Requests]
  BY DEF IInv, TypeOK, StageTypeOK
<1>1. CASE Reset
  BY <1>1 DEF Reset, NoNewHit
<1>2. ASSUME NEW i \in Ips, OperatorBans(i) \/ BanLifts(i) PROVE NoNewHit(q)
  BY <1>2 DEF OperatorBans, BanLifts, NoNewHit
<1>3. ASSUME NEW i \in Ips, WindowSlides(i) PROVE NoNewHit(q)
  <2>1. PICK p \in window[i] : window' = [window EXCEPT ![i] = @ \ {p}]
    BY <1>3 DEF WindowSlides
  <2> QED
    BY <1>0, <2>1 DEF NoNewHit
<1> QED
  BY <1>1, <1>2, <1>3 DEF StageNext

(* Every step keeps every request screened.                                *)
LEMMA NextScreens == IInv /\ Screened /\ [Next]_vars => Screened'
<1> SUFFICES ASSUME IInv, Screened, [Next]_vars, NEW q \in Requests PROVE ScreenedAt(q)'
  BY DEF Screened
<1>0. ScreenedAt(q)
  BY DEF Screened
<1>1. ASSUME NEW r \in Requests, Step(r), UNCHANGED <<installed, facts>> PROVE ScreenedAt(q)'
  <2>1. CASE q = r
    BY <1>0, <1>1, <2>1, StepScreens
  <2>2. CASE q # r
    <3>1. Moves(r) /\ NoNewHit(q)
      BY <1>1, <2>2, StepMoves, OthersTakeNoHit
    <3>2. at'[q] = at[q] /\ doing'[q] = doing[q] /\ answer'[q] = answer[q]
      BY <2>2, <3>1 DEF Moves, Call, Forward, Refuse, CallInner, InnerReturns, Disconnect,
                        IInv, TypeOK
    <3> QED
      BY <1>0, <1>1, <3>1, <3>2, ScreenedStays
  <2> QED
    BY <2>1, <2>2
<1>2. CASE OutOfBandStep /\ UNCHANGED <<installed, facts>>
  <2>1. NoNewHit(q)
    BY <1>2, OutOfBandTakesNoHit DEF OutOfBandStep
  <2> QED
    BY <1>0, <1>2, <2>1, ScreenedStays DEF OutOfBandStep
<1>3. CASE UNCHANGED vars
  BY <1>0, <1>3, ScreenedStays DEF vars, chainVars, stageVars, NoNewHit
<1> QED
  BY <1>1, <1>2, <1>3 DEF Next, Finished

(* The cause of a refusal does not change.                                 *)
LEMMA CauseStays ==
  ASSUME UNCHANGED <<installed, facts>>, NEW r
  PROVE  \A refusal : Cause(r, refusal)' <=> Cause(r, refusal)
<1>1. Objections(r)' = Objections(r)
  BY DecidesStays DEF Objections
<1> QED
  BY <1>1 DEF Cause, Passive, Attributed, Limited, Skips, Ip

(* Every gate refuses for a cause.                                         *)
LEMMA StepCauses ==
  ASSUME IInv, NEW r \in Requests, CausedAt(r), Step(r), UNCHANGED <<installed, facts>>
  PROVE  CausedAt(r)'
<1> DEFINE refusals == Stateless \cup {"banned", "rate_limited"}
<1>1. ASSUME NEW refusal, Refuse(r, refusal), Cause(r, refusal) PROVE CausedAt(r)'
  <2>1. answer'[r] = refusal /\ doing'[r] = "closed"
    BY <1>1 DEF Refuse, IInv, TypeOK
  <2> QED
    BY <1>1, <2>1, CauseStays DEF CausedAt
<1>2. ASSUME answer'[r] \notin refusals, doing'[r] # "banning" PROVE CausedAt(r)'
  BY <1>2 DEF CausedAt
<1>3. ASSUME Forward(r), doing[r] = "deciding" PROVE CausedAt(r)'
  <2>1. answer'[r] = "none" /\ doing'[r] = "deciding"
    BY <1>3 DEF Forward, IInv, Underway
  <2> QED
    BY <1>2, <2>1 DEF Stateless
<1>4. CASE Call(r) \/ CallInner(r) \/ Disconnect(r)
  <2>1. answer'[r] = "none" /\ doing'[r] # "banning"
    BY <1>4 DEF Call, CallInner, Disconnect, IInv, TypeOK, Underway
  <2> QED
    BY <1>2, <2>1 DEF Stateless
<1>5. CASE InnerReturns(r)
  <2>1. answer'[r] \in {"inner", "inner_error"} /\ doing'[r] = "closed"
    BY <1>5 DEF InnerReturns, IInv, TypeOK
  <2> QED
    BY <1>2, <2>1 DEF Stateless
<1>6. CASE StatelessGate(r)
  <2>1. PICK stage \in Stateless :
          /\ AtGate(r, stage)
          /\ \/ Decides(r, stage) /\ Refuse(r, stage)
             \/ ~Decides(r, stage) /\ Forward(r)
    BY <1>6 DEF StatelessGate
  <2>2. CASE Decides(r, stage) /\ Refuse(r, stage)
    <3>1. BuilderOf(stage) \in installed
      BY <2>1, LayersInstalled DEF AtGate, Installed
    <3>2. ~Passive /\ stage \in Objections(r)
      BY <2>2, <3>1 DEF Decides, Objections
    <3>3. stage # "banned" /\ stage # "rate_limited"
      BY DEF Stateless
    <3> QED
      BY <1>1, <2>2, <3>2, <3>3 DEF Cause
  <2> QED
    BY <1>3, <2>1, <2>2 DEF AtGate
<1>7. CASE BansGate(r)
  <2>1. CASE ~Passive /\ LiveBan(Ip(r)) /\ Refuse(r, "banned")
    <3>1. BanningEnabled /\ Attributed(r)
      BY <2>1 DEF LiveBan, Attributed, IInv, TypeOK, StageTypeOK
    <3> QED
      BY <1>1, <2>1, <3>1 DEF Cause, Stateless
  <2> QED
    BY <1>3, <1>7, <2>1 DEF BansGate, AtGate
<1>8. CASE TiersGate(r)
  <2>1. CASE Limited(r) /\ ~Passive /\ Refuse(r, "rate_limited")
    BY <1>1, <2>1 DEF Cause, Stateless
  <2>2. CASE /\ Limited(r) /\ ~Passive /\ doing[r] = "deciding"
             /\ doing' = [doing EXCEPT ![r] = "banning"] /\ UNCHANGED <<at, answer>>
    <3>1. answer'[r] = "none"
      BY <2>2 DEF IInv, Underway
    <3>2. Cause(r, "rate_limited")
      BY <2>2 DEF Cause, Stateless
    <3> QED
      BY <3>1, <3>2, CauseStays DEF CausedAt, Stateless
  <2> QED
    BY <1>3, <1>8, <2>1, <2>2 DEF TiersGate, AtGate
<1>9. CASE TierBan(r)
  BY <1>1, <1>9 DEF TierBan, CausedAt
<1> QED
  BY <1>4, <1>5, <1>6, <1>7, <1>8, <1>9 DEF Step

(* Every step leaves every refusal its cause.                              *)
LEMMA NextCauses == IInv /\ Caused /\ [Next]_vars => Caused'
<1> SUFFICES ASSUME IInv, Caused, [Next]_vars, NEW q \in Requests PROVE CausedAt(q)'
  BY DEF Caused
<1>1. UNCHANGED <<installed, facts>>
  BY DEF Next, Finished, vars, chainVars
<1>2. CASE answer'[q] = answer[q] /\ doing'[q] = doing[q]
  BY <1>1, <1>2, CauseStays DEF Caused, CausedAt
<1>3. ASSUME NEW r \in Requests, Step(r) PROVE CausedAt(q)'
  <2>1. CASE q = r
    BY <1>1, <1>3, <2>1, StepCauses DEF Caused
  <2>2. CASE q # r
    BY <1>2, <1>3, <2>2, StepMoves DEF Moves, Call, Forward, Refuse, CallInner, InnerReturns,
                                       Disconnect, IInv, TypeOK
  <2> QED
    BY <2>1, <2>2
<1> QED
  BY <1>2, <1>3 DEF Next, OutOfBandStep, Finished, vars, chainVars

(* Whatever stages are installed, whoever asks and however the threads     *)
(* interleave: every answer is the first the reference pipeline would have *)
(* come to, no refusal is without its cause, and nobody it refuses before  *)
(* the limiter spends a hit.                                               *)
THEOREM ChainInReferenceOrder == Spec => []ReferenceOrder
<1>1. Spec => [](IInv /\ Screened)
  BY Inductive, InitScreened, NextScreens, PTL DEF Spec
<1>2. Init => Caused
  BY DEF Init, Caused, CausedAt, Stateless
<1> QED
  BY <1>1, <1>2, NextCauses, ScreenedOrder, PTL DEF Spec
-----------------------------------------------------------------------------
(* The limit, over the two layers of one limiter.                          *)

(* An installed limiter has its gate in the chain.                         *)
LEMMA LimiterOccurs == RateLimiting => Occurs("rate_limit", ProvidedLayers)
<1> SUFFICES ASSUME RateLimiting PROVE Occurs("rate_limit", ProvidedLayers)
  OBVIOUS
<1> DEFINE front == <<"bans">> \o Middle
           gate == <<"rate_limit">>
           last == Provided("custom_checks", "custom_request")
<1>1. front \in Seq(LayerNames) /\ gate \in Seq(LayerNames) /\ last \in Seq(LayerNames)
  <2>1. <<"bans">> \in Seq(LayerNames) /\ gate \in Seq(LayerNames)
    BY DEF LayerNames
  <2>2. last \in Seq(LayerNames)
    BY ProvidedType DEF LayerNames, Stateless
  <2> QED
    BY <2>1, <2>2, MiddleType
<1>2. Occurs("rate_limit", gate)
  BY DEF Occurs
<1>3. front \o gate = <<"bans">> \o Middle \o <<"rate_limit">>
  OBVIOUS
<1>4. Behind = (front \o gate) \o last
  BY <1>3 DEF Behind, HasRateStage
<1> HIDE DEF front, gate, last
<1>5. Occurs("rate_limit", front \o gate) /\ front \o gate \in Seq(LayerNames)
  BY <1>1, <1>2, OccursJoin
<1>6. Occurs("rate_limit", Behind)
  BY <1>1, <1>4, <1>5, OccursJoin
<1> QED
  BY <1>6, Halves, AheadType, BehindType, OccursJoin

\* Whoever has passed the limiter's gate, and was asked there, is in its
\* window.
HitTaken(r) ==
  Attributed(r) /\ ~Skips(r) /\ ~Passive =>
    \A j \in DOMAIN ProvidedLayers :
      j < at[r] /\ ProvidedLayers[j] = "rate_limit" => r \in window[Ip(r)]

HitsHold ==
  /\ \A i \in Ips : IsFiniteSet(window[i]) /\ Cardinality(window[i]) <= RateLimit
  /\ \A r \in Requests : HitTaken(r)

(* What the limiter asks of a request does not change.                     *)
LEMMA HitTakenStays ==
  ASSUME NEW q \in Requests, HitTaken(q), UNCHANGED <<installed, facts>>, at'[q] = at[q],
         \A i \in Ips : window[i] \subseteq window'[i]
  PROVE  HitTaken(q)'
<1>1. ProvidedLayers' = ProvidedLayers
  BY LayersStay
<1> QED
  BY <1>1 DEF HitTaken, Attributed, Skips, Passive, Ip

(* A gate that is not the limiter's, or has let the request in.            *)
LEMMA ForwardHits ==
  ASSUME IInv, NEW r \in Requests, HitTaken(r), UNCHANGED <<installed, facts>>, Forward(r),
         at[r] \in DOMAIN ProvidedLayers, \A i \in Ips : window[i] \subseteq window'[i],
         \/ ProvidedLayers[at[r]] # "rate_limit"
         \/ Attributed(r) /\ ~Skips(r) /\ ~Passive => r \in window'[Ip(r)]
  PROVE  HitTaken(r)'
<1>1. ProvidedLayers' = ProvidedLayers
  BY LayersStay
<1>2. /\ DOMAIN ProvidedLayers \subseteq Nat /\ at[r] \in Nat /\ at'[r] = at[r] + 1
      /\ \A j \in DOMAIN ProvidedLayers : j < at'[r] <=> j < at[r] \/ j = at[r]
  <2>1. DOMAIN ProvidedLayers \subseteq Nat /\ at[r] \in Nat
    BY LayersType
  <2>2. at'[r] = at[r] + 1
    BY DEF Forward, IInv, TypeOK
  <2> QED
    BY <2>1, <2>2
<1> QED
  BY <1>1, <1>2 DEF HitTaken, Attributed, Skips, Passive, Ip

(* Every step of a request keeps the windows within the limit.             *)
LEMMA StepHits ==
  ASSUME RateLimiting, IInv, NEW r \in Requests, HitsHold, Step(r),
         UNCHANGED <<installed, facts>>
  PROVE  HitsHold'
<1>1. \/ UNCHANGED window
      \/ Ip(r) \in Ips /\ HasRoom(Ip(r)) /\ RecordHit(Ip(r), r)
  BY DEF Step, Call, StatelessGate, BansGate, TiersGate, TierBan, CallInner, InnerReturns,
         Disconnect, stageVars, Limited, Attributed
<1>2. window \in [Ips -> SUBSET Requests]
  BY DEF IInv, TypeOK, StageTypeOK
<1>3. \A i \in Ips : window[i] \subseteq window'[i]
  BY <1>1, <1>2 DEF RecordHit
<1>4. ASSUME NEW i \in Ips PROVE IsFiniteSet(window'[i]) /\ Cardinality(window'[i]) <= RateLimit
  <2>1. IsFiniteSet(window[i]) /\ Cardinality(window[i]) <= RateLimit
    BY DEF HitsHold
  <2>2. CASE window'[i] = window[i]
    BY <2>1, <2>2
  <2>3. CASE window'[i] = window[i] \cup {r} /\ Cardinality(window[i]) < RateLimit
    <3>1. /\ IsFiniteSet(window[i] \cup {r}) /\ Cardinality(window[i]) \in Nat
          /\ \/ Cardinality(window[i] \cup {r}) = Cardinality(window[i])
             \/ Cardinality(window[i] \cup {r}) = Cardinality(window[i]) + 1
      BY <2>1, FS_AddElement, FS_CardinalityType
    <3> QED
      BY <2>3, <3>1, StageAssumption
  <2> QED
    BY <1>1, <1>2, <2>2, <2>3 DEF RecordHit, HasRoom
<1>5. ASSUME NEW q \in Requests, q # r PROVE HitTaken(q)'
  <2>1. at'[q] = at[q]
    BY <1>5, StepMoves DEF Moves, Call, Forward, Refuse, CallInner, InnerReturns, Disconnect,
                           IInv, TypeOK
  <2> QED
    BY <1>3, <2>1, HitTakenStays DEF HitsHold
<1>6. HitTaken(r)'
  <2>1. HitTaken(r)
    BY DEF HitsHold
  <2>2. CASE at'[r] = at[r]
    BY <1>3, <2>1, <2>2, HitTakenStays
  <2>3. CASE Call(r)
    <3>1. at'[r] = 1
      BY <2>3 DEF Call, IInv, TypeOK
    <3>2. DOMAIN ProvidedLayers \subseteq Nat \ {0} /\ ProvidedLayers' = ProvidedLayers
      BY LayersType, LayersStay
    <3> QED
      BY <3>1, <3>2 DEF HitTaken
  <2>4. CASE StatelessGate(r) /\ Forward(r)
    <3>1. at[r] \in DOMAIN ProvidedLayers /\ ProvidedLayers[at[r]] # "rate_limit"
      BY <2>4 DEF StatelessGate, AtGate, Stateless
    <3> QED
      BY <1>3, <2>1, <2>4, <3>1, ForwardHits
  <2>5. CASE BansGate(r) /\ Forward(r)
    <3>1. at[r] \in DOMAIN ProvidedLayers /\ ProvidedLayers[at[r]] # "rate_limit"
      BY <2>5 DEF BansGate, AtGate
    <3> QED
      BY <1>3, <2>1, <2>5, <3>1, ForwardHits
  <2>6. CASE TiersGate(r) /\ Forward(r)
    <3>1. at[r] \in DOMAIN ProvidedLayers
      BY <2>6 DEF TiersGate, AtGate
    <3>2. Attributed(r) /\ ~Skips(r) /\ ~Passive => Limited(r)
      BY DEF Limited
    <3>3. Attributed(r) /\ ~Skips(r) /\ ~Passive => RecordHit(Ip(r), r)
      <4>1. doing'[r] = "deciding" /\ answer'[r] = "none"
        BY <2>6 DEF TiersGate, AtGate, Forward, IInv, TypeOK, Underway
      <4>2. ~Refuse(r, "rate_limited") /\ doing' # [doing EXCEPT ![r] = "banning"]
        BY <4>1 DEF Refuse, IInv, TypeOK
      <4> QED
        BY <2>6, <3>2, <4>2 DEF TiersGate
    <3>4. Attributed(r) /\ ~Skips(r) /\ ~Passive => r \in window'[Ip(r)]
      BY <1>2, <3>3 DEF RecordHit, Attributed
    <3> QED
      BY <1>3, <2>1, <2>6, <3>1, <3>4, ForwardHits
  <2> QED
    BY <2>2, <2>3, <2>4, <2>5, <2>6 DEF Step, StatelessGate, BansGate, TiersGate, TierBan, CallInner,
       InnerReturns, Disconnect, Refuse
<1> QED
  BY <1>4, <1>5, <1>6 DEF HitsHold

\* The limiter turned the request away, or bans for it before it answers.
TurnedAway(r) == answer[r] = "rate_limited" \/ doing[r] = "banning"

\* Whoever was turned away finds the window of its address full.
TurnedFromFullWindows ==
  \A r \in Requests : TurnedAway(r) => Attributed(r) /\ ~HasRoom(Ip(r))

(* Every step of a request leaves full windows full, and turns it away     *)
(* from no other.                                                          *)
LEMMA StepLeavesFull ==
  ASSUME IInv, NEW r \in Requests, TurnedFromFullWindows, Step(r),
         UNCHANGED <<installed, facts>>
  PROVE  TurnedFromFullWindows'
<1> SUFFICES ASSUME NEW q \in Requests, TurnedAway(q)'
             PROVE  Attributed(q)' /\ ~HasRoom(Ip(q))'
  BY DEF TurnedFromFullWindows
<1>1. Attributed(q)' = Attributed(q) /\ Ip(q)' = Ip(q)
  BY DEF Attributed, Ip
<1>2. q # r => TurnedAway(q)
  BY StepMoves DEF Moves, Call, Forward, Refuse, CallInner, InnerReturns, Disconnect,
                   TurnedAway, IInv, TypeOK
<1>3. CASE TiersGate(r) /\ HasRoom(Ip(r)) /\ RecordHit(Ip(r), r) /\ Forward(r)
  <2>1. ~TurnedAway(r)'
    BY <1>3 DEF TiersGate, AtGate, Forward, TurnedAway, IInv, TypeOK, Underway
  <2>2. Attributed(q) /\ ~HasRoom(Ip(q)) /\ Ip(q) # Ip(r)
    BY <1>2, <1>3, <2>1 DEF TurnedFromFullWindows
  <2>3. window'[Ip(q)] = window[Ip(q)]
    BY <1>3, <2>2 DEF RecordHit, Attributed, IInv, TypeOK, StageTypeOK
  <2> QED
    BY <1>1, <2>2, <2>3 DEF HasRoom
<1>4. CASE window' = window
  <2>1. CASE TurnedAway(q)
    BY <1>1, <1>4, <2>1 DEF TurnedFromFullWindows, HasRoom
  <2>2. CASE ~TurnedAway(q)
    <3>1. q = r
      BY <1>2, <2>2
    <3>2. ASSUME NEW c, c # "rate_limited", Refuse(r, c) PROVE FALSE
      BY <3>1, <3>2 DEF Refuse, TurnedAway, IInv, TypeOK
    <3>3. ~Forward(r)
      BY <2>2, <3>1 DEF Forward, TurnedAway
    <3>4. ~Call(r) /\ ~CallInner(r) /\ ~InnerReturns(r) /\ ~Disconnect(r)
      BY <2>2, <3>1 DEF Call, CallInner, InnerReturns, Disconnect, TurnedAway, IInv, TypeOK
    <3>5. ~StatelessGate(r) /\ ~BansGate(r)
      BY <3>2, <3>3 DEF StatelessGate, BansGate, Stateless
    <3>6. ~TierBan(r)
      BY <2>2, <3>1 DEF TierBan, TurnedAway
    <3>7. TiersGate(r)
      BY <3>4, <3>5, <3>6 DEF Step
    <3>8. Limited(r) /\ ~HasRoom(Ip(r))
      BY <3>3, <3>7 DEF TiersGate
    <3> QED
      BY <1>1, <1>4, <3>1, <3>8 DEF Limited, HasRoom
  <2> QED
    BY <2>1, <2>2
<1> QED
  BY <1>3, <1>4 DEF Step, Call, StatelessGate, BansGate, TiersGate, TierBan, CallInner,
                    InnerReturns, Disconnect, stageVars

(* A request the limiter refused is in no window.                          *)
LEMMA RefusedTakesNoHit ==
  ASSUME IInv, Screened, NEW r \in Requests, answer[r] = "rate_limited", NEW i \in Ips
  PROVE  r \notin window[i]
<1> SUFFICES ASSUME r \in window[i] PROVE FALSE
  OBVIOUS
<1>1. at[r] \in DOMAIN ProvidedLayers /\ Rank(ProvidedLayers[at[r]]) = Position["rate_limited"]
  BY DEF Screened, ScreenedAt, Position
<1>2. PICK j \in DOMAIN ProvidedLayers : j < at[r] /\ ProvidedLayers[j] = "rate_limit"
  BY DEF Screened, ScreenedAt
<1>3. Rank(ProvidedLayers[j]) < Rank(ProvidedLayers[at[r]])
  BY <1>1, <1>2, LayersOrder DEF Ascending
<1>4. Rank("rate_limit") = 15 /\ Position["rate_limited"] = 15
  BY Ranks DEF Position
<1> QED
  BY <1>1, <1>2, <1>3, <1>4

(* With no window dropped or slid, the limit holds over any set of stages  *)
(* and any interleaving, though the limiter's gate is only one of the two  *)
(* layers its stage stands behind, and no request is refused below it.     *)
THEOREM ChainLimitHolds == Spec => []LimitHolds
<1>1. CASE RateLimiting /\ Environment \cap {"reset", "slide"} = {}
  <2>1. Init => HitsHold /\ TurnedFromFullWindows
    <3> SUFFICES ASSUME Init PROVE HitsHold /\ TurnedFromFullWindows
      OBVIOUS
    <3>1. \A i \in Ips : window[i] = {}
      BY DEF Init, StageInit
    <3>2. DOMAIN ProvidedLayers \subseteq Nat \ {0} /\ \A r \in Requests : at[r] = 0
      BY LayersType DEF Init
    <3>3. HitsHold
      BY <3>1, <3>2, FS_EmptySet, StageAssumption DEF HitsHold, HitTaken
    <3>4. TurnedFromFullWindows
      BY DEF Init, TurnedFromFullWindows, TurnedAway
    <3> QED
      BY <3>3, <3>4
  <2>2. IInv /\ HitsHold /\ TurnedFromFullWindows /\ [Next]_vars =>
          HitsHold' /\ TurnedFromFullWindows'
    <3> SUFFICES ASSUME IInv, HitsHold, TurnedFromFullWindows, [Next]_vars
                 PROVE  HitsHold' /\ TurnedFromFullWindows'
      OBVIOUS
    <3>1. CASE UNCHANGED <<chainVars, window>>
      <4>1. \A r \in Requests : HitTaken(r)'
        BY <3>1, HitTakenStays DEF HitsHold, chainVars
      <4>2. HitsHold'
        BY <3>1, <4>1 DEF HitsHold
      <4>3. TurnedFromFullWindows'
        BY <3>1 DEF TurnedFromFullWindows, TurnedAway, Attributed, Ip, HasRoom, chainVars
      <4> QED
        BY <4>2, <4>3
    <3>2. ASSUME NEW r \in Requests, Step(r), UNCHANGED <<installed, facts>>
          PROVE  HitsHold' /\ TurnedFromFullWindows'
      BY <1>1, <3>2, StepHits, StepLeavesFull
    <3>3. OutOfBandStep => UNCHANGED <<at, doing, answer, window>>
      BY <1>1 DEF OutOfBandStep, StageNext, Reset, OperatorBans, BanLifts, WindowSlides
    <3> QED
      BY <3>1, <3>2, <3>3 DEF Next, Finished, vars, chainVars, stageVars
  <2>3. ASSUME IInv, Screened, HitsHold, ~Passive, NEW i \in Ips
        PROVE  Cardinality({r \in Requests : Handed(r) /\ Ip(r) = i /\ ~Skips(r)}) <= RateLimit
    <3> DEFINE H == {r \in Requests : Handed(r) /\ Ip(r) = i /\ ~Skips(r)}
    <3>1. ASSUME NEW r \in H PROVE r \in window[i]
      <4>1. at[r] = Len(ProvidedLayers) + 1
        BY <2>3 DEF Screened, ScreenedAt
      <4>2. PICK j \in DOMAIN ProvidedLayers : ProvidedLayers[j] = "rate_limit"
        BY <1>1, LimiterOccurs DEF Occurs
      <4>3. j < at[r]
        BY <4>1, <4>2, LayersType
      <4>4. Attributed(r)
        BY DEF Attributed
      <4> QED
        BY <2>3, <4>2, <4>3, <4>4 DEF HitsHold, HitTaken
    <3>2. H \in SUBSET window[i]
      BY <3>1
    <3>3. IsFiniteSet(window[i]) /\ Cardinality(window[i]) <= RateLimit
      BY <2>3 DEF HitsHold
    <3>4. Cardinality(H) <= Cardinality(window[i]) /\ IsFiniteSet(H)
      BY <3>2, <3>3, FS_Subset
    <3>5. Cardinality(H) \in Nat /\ Cardinality(window[i]) \in Nat
      BY <3>3, <3>4, FS_CardinalityType
    <3> HIDE DEF H
    <3>6. Cardinality(H) <= RateLimit
      BY <3>3, <3>4, <3>5, StageAssumption
    <3> QED
      BY <3>6 DEF H
  <2>5. ASSUME IInv, Screened, HitsHold, TurnedFromFullWindows,
               NEW r \in Requests, answer[r] = "rate_limited"
        PROVE  Cardinality(window[Ip(r)]) = RateLimit /\ r \notin window[Ip(r)]
    <3>1. Ip(r) \in Ips /\ ~(Cardinality(window[Ip(r)]) < RateLimit)
      BY <2>5 DEF TurnedFromFullWindows, TurnedAway, Attributed, HasRoom
    <3>2. IsFiniteSet(window[Ip(r)]) /\ Cardinality(window[Ip(r)]) <= RateLimit
      BY <2>5, <3>1 DEF HitsHold
    <3>3. Cardinality(window[Ip(r)]) \in Nat
      BY <3>2, FS_CardinalityType
    <3>4. r \notin window[Ip(r)]
      BY <2>5, <3>1, RefusedTakesNoHit
    <3> QED
      BY <3>1, <3>2, <3>3, <3>4, StageAssumption
  <2>6. IInv /\ Screened /\ HitsHold /\ TurnedFromFullWindows => LimitHolds
    BY <2>3, <2>5 DEF LimitHolds
  <2>4. Spec => [](IInv /\ Screened)
    BY Inductive, InitScreened, NextScreens, PTL DEF Spec
  <2> QED
    BY <2>1, <2>2, <2>4, <2>6, PTL DEF Spec
<1>2. CASE ~(RateLimiting /\ Environment \cap {"reset", "slide"} = {})
  <2>1. LimitHolds
    BY <1>2 DEF LimitHolds
  <2> QED
    BY <2>1, PTL
<1> QED
  BY <1>1, <1>2
-----------------------------------------------------------------------------
(* The crossings of the limiter's gate.                                    *)

\* The requests of an address that were given the limiter's 429.
Refused429(i) == {r \in Requests : answer[r] = "rate_limited" /\ Ip(r) = i}

\* An address that is not banned was given no more of them than violations
\* on record, and too few to ban.
CrossingsCounted ==
  \A i \in Ips :
    \/ i \in bans
    \/ /\ IsFiniteSet(Refused429(i))
       /\ Cardinality(Refused429(i)) <= violations["rate_limit"][i]
       /\ Cardinality(Refused429(i)) < BanThreshold

(* What a step adds to the answers, the violations and the bans.           *)
LEMMA StepCrossings ==
  ASSUME IInv, AutoBan, BanningEnabled, NEW r \in Requests, Step(r),
         UNCHANGED <<installed, facts>>
  PROVE  /\ \A q \in Requests \ {r} : answer'[q] = answer[q]
         /\ bans \subseteq bans'
         /\ \/ UNCHANGED violations
            \/ Attributed(r) /\ CountViolation("rate_limit", Ip(r))
         /\ answer'[r] = "rate_limited" =>
              \/ answer[r] = "rate_limited"
              \/ Ip(r) \in bans'
              \/ CountViolation("rate_limit", Ip(r)) /\ ~Crosses("rate_limit", Ip(r))
<1> USE DEF IInv, TypeOK, stageVars
<1>1. \A q \in Requests \ {r} : answer'[q] = answer[q]
  BY StepMoves DEF Moves, Call, Forward, Refuse, CallInner, InnerReturns, Disconnect
<1>2. ASSUME NEW a, a # "rate_limited", Refuse(r, a) PROVE answer'[r] # "rate_limited"
  BY <1>2 DEF Refuse
<1>3. CASE Call(r) \/ CallInner(r) \/ Disconnect(r)
  BY <1>1, <1>3 DEF Call, CallInner, Disconnect
<1>4. CASE InnerReturns(r)
  BY <1>1, <1>4 DEF InnerReturns
<1>5. CASE StatelessGate(r)
  BY <1>1, <1>2, <1>5 DEF StatelessGate, Stateless, Forward
<1>6. CASE BansGate(r)
  BY <1>1, <1>2, <1>6 DEF BansGate, Forward
<1>7. CASE TiersGate(r)
  BY <1>1, <1>7 DEF TiersGate, Forward, Limited
<1>8. CASE TierBan(r)
  BY <1>1, <1>8 DEF TierBan, Ban
<1> QED
  BY <1>3, <1>4, <1>5, <1>6, <1>7, <1>8 DEF Step

(* Every step of a request keeps the crossings on record.                  *)
LEMMA StepCrossingsCounted ==
  ASSUME IInv, AutoBan, BanningEnabled, NEW r \in Requests, CrossingsCounted, Step(r),
         UNCHANGED <<installed, facts>>
  PROVE  CrossingsCounted'
<1> SUFFICES ASSUME NEW i \in Ips, i \notin bans'
             PROVE  /\ IsFiniteSet(Refused429(i)')
                    /\ Cardinality(Refused429(i)') <= violations'["rate_limit"][i]
                    /\ Cardinality(Refused429(i)') < BanThreshold
  BY DEF CrossingsCounted
<1>1. /\ IsFiniteSet(Refused429(i)) /\ Cardinality(Refused429(i)) <= violations["rate_limit"][i]
      /\ Cardinality(Refused429(i)) < BanThreshold /\ Cardinality(Refused429(i)) \in Nat
  BY StepCrossings, FS_CardinalityType DEF CrossingsCounted
<1>2. \A j \in Ips : violations["rate_limit"][j] \in 0 .. BanThreshold
  BY DEF IInv, TypeOK, StageTypeOK, Kinds
<1>3. ASSUME NEW j \in Ips, CountViolation("rate_limit", j)
      PROVE  /\ violations'["rate_limit"][j] =
                  IF violations["rate_limit"][j] < BanThreshold
                    THEN violations["rate_limit"][j] + 1 ELSE violations["rate_limit"][j]
             /\ \A k \in Ips \ {j} : violations'["rate_limit"][k] = violations["rate_limit"][k]
  BY <1>3 DEF CountViolation, IInv, TypeOK, StageTypeOK, Kinds
<1>4. violations'["rate_limit"][i] \in Nat
      /\ violations'["rate_limit"][i] >= violations["rate_limit"][i]
  <2>1. CASE UNCHANGED violations
    BY <1>2, <2>1, StageAssumption
  <2>2. CASE Attributed(r) /\ CountViolation("rate_limit", Ip(r))
    <3>1. PICK j \in Ips : j = Ip(r)
      BY <2>2 DEF Attributed
    <3> QED
      BY <1>2, <1>3, <2>2, <3>1, StageAssumption
  <2> QED
    BY <2>1, <2>2, StepCrossings
<1>5. \A q \in Requests \ {r} : q \in Refused429(i)' => q \in Refused429(i)
  BY StepCrossings DEF Refused429, Ip
<1>6. CASE Refused429(i)' \subseteq Refused429(i)
  <2>1. Refused429(i)' \in SUBSET Refused429(i)
    BY <1>6
  <2>2. IsFiniteSet(Refused429(i)') /\ Cardinality(Refused429(i)') <= Cardinality(Refused429(i))
    BY <1>1, <2>1, FS_Subset
  <2>3. Cardinality(Refused429(i)') \in Nat
    BY <2>2, FS_CardinalityType
  <2> QED
    BY <1>1, <1>2, <1>4, <2>2, <2>3, StageAssumption
<1>7. CASE ~(Refused429(i)' \subseteq Refused429(i))
  <2>1. r \in Refused429(i)' /\ r \notin Refused429(i)
    BY <1>5, <1>7 DEF Refused429
  <2>2. Refused429(i)' \in SUBSET (Refused429(i) \cup {r})
    BY <1>5 DEF Refused429
  <2>3. Ip(r) = i /\ answer'[r] = "rate_limited" /\ answer[r] # "rate_limited"
    BY <2>1 DEF Refused429, Ip
  <2>4. CountViolation("rate_limit", i) /\ ~Crosses("rate_limit", i)
    BY <2>3, StepCrossings
  <2>5. violations["rate_limit"][i] + 1 < BanThreshold
        /\ violations'["rate_limit"][i] = violations["rate_limit"][i] + 1
    BY <1>2, <1>3, <2>4, StageAssumption DEF Crosses
  <2>6. /\ IsFiniteSet(Refused429(i) \cup {r})
        /\ Cardinality(Refused429(i) \cup {r}) = Cardinality(Refused429(i)) + 1
    BY <1>1, <2>1, FS_AddElement
  <2>7. IsFiniteSet(Refused429(i)')
        /\ Cardinality(Refused429(i)') <= Cardinality(Refused429(i) \cup {r})
    BY <2>2, <2>6, FS_Subset
  <2>8. Cardinality(Refused429(i)') \in Nat
    BY <2>7, FS_CardinalityType
  <2> QED
    BY <1>1, <1>2, <2>5, <2>6, <2>7, <2>8, StageAssumption
<1> QED
  BY <1>6, <1>7

(* However the crossings of an address interleave, none is lost between    *)
(* the count and the ban of the limiter's gate.                            *)
THEOREM ChainCrossingsBan == Spec => []CrossingsBan
<1>1. CASE AutoBan /\ BanningEnabled /\ "lift" \notin Environment
  <2>1. Init => CrossingsCounted
    <3> SUFFICES ASSUME Init, NEW i \in Ips
                 PROVE  /\ IsFiniteSet(Refused429(i))
                        /\ Cardinality(Refused429(i)) <= violations["rate_limit"][i]
                        /\ Cardinality(Refused429(i)) < BanThreshold
      BY DEF CrossingsCounted
    <3>1. Refused429(i) = {} /\ violations["rate_limit"][i] = 0
      BY DEF Init, StageInit, Kinds, Refused429
    <3> QED
      BY <3>1, FS_EmptySet, StageAssumption
  <2>2. IInv /\ CrossingsCounted /\ [Next]_vars => CrossingsCounted'
    <3> SUFFICES ASSUME IInv, CrossingsCounted, [Next]_vars PROVE CrossingsCounted'
      OBVIOUS
    <3>1. CASE UNCHANGED <<facts, answer, violations>> /\ bans \subseteq bans'
      <4>1. ASSUME NEW i \in Ips PROVE Refused429(i)' = Refused429(i)
        BY <3>1 DEF Refused429, Ip
      <4> QED
        BY <3>1, <4>1 DEF CrossingsCounted
    <3>2. ASSUME NEW r \in Requests, Step(r), UNCHANGED <<installed, facts>>
          PROVE  CrossingsCounted'
      BY <1>1, <3>2, StepCrossingsCounted
    <3>3. OutOfBandStep => UNCHANGED <<answer, violations>> /\ bans \subseteq bans'
      BY <1>1 DEF OutOfBandStep, StageNext, Reset, OperatorBans, BanLifts, WindowSlides, Ban
    <3> QED
      BY <3>1, <3>2, <3>3 DEF Next, Finished, vars, chainVars, stageVars
  <2>3. CrossingsCounted => CrossingsBan
    <3> SUFFICES ASSUME CrossingsCounted, NEW i \in Ips, i \notin bans,
                        Cardinality(Refused429(i)) >= BanThreshold
                 PROVE  FALSE
      BY DEF CrossingsBan, Refused429
    <3>1. IsFiniteSet(Refused429(i)) /\ Cardinality(Refused429(i)) < BanThreshold
      BY DEF CrossingsCounted
    <3> QED
      BY <3>1, FS_CardinalityType, StageAssumption
  <2> QED
    BY <2>1, <2>2, <2>3, Inductive, PTL DEF Spec
<1>2. CASE ~(AutoBan /\ BanningEnabled /\ "lift" \notin Environment)
  <2>1. CrossingsBan
    BY <1>2 DEF CrossingsBan
  <2> QED
    BY <2>1, PTL
<1> QED
  BY <1>1, <1>2
=============================================================================
