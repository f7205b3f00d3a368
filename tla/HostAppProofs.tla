--------------------------- MODULE HostAppProofs ---------------------------
(* HostApp for any number of requests, any wiring of the trees, any edits  *)
(* of the modifier, any providers and any thresholds.                      *)
EXTENDS HostApp, TLAPS

\* Where a request has no answer yet.
Before == {"wire", "ready", "screen", "cloud", "inner", "status"}
-----------------------------------------------------------------------------
(* The response pass, request by request.                                  *)

PassTypes ==
  /\ wiring \in [Trees -> WiringSpace]
  /\ at \in [Requests -> Labels] /\ tree \in [Requests -> Trees]
  /\ lane \in [Requests -> {"forwarded", "generated"}]
  /\ rounds \in [Requests -> 0 .. 2]
  /\ base \in [Requests -> Replies] /\ reply \in [Requests -> Replies]
  /\ view \in [Requests -> Bits]
  /\ events \in [Requests -> 0 .. 1]
  /\ edited \in [Requests -> Nat] /\ raised \in [Requests -> Nat]

Fresh(r) ==
  at[r] \in Before =>
    /\ lane[r] = "generated" /\ rounds[r] = 0 /\ base[r] = reply[r]
    /\ events[r] = 0 /\ edited[r] = 0 /\ raised[r] = 0

InPass(r) == at[r] \in Passing => Wired(r).processor /\ rounds[r] >= 1

\* A modifier is called once in a pass, and the passes are two at most.
Called(r) ==
  /\ edited[r] + raised[r] <= 2
  /\ at[r] \in {"process", "event", "modify"} => edited[r] + raised[r] + rounds[r] <= 2
  /\ at[r] \in {"on_error", "apply"} => edited[r] + raised[r] + rounds[r] <= 3

\* A view as the processor leaves it.
Untouched(bits) ==
  \A n \in Names : bits.headers[n] = "absent" \/ (bits.headers[n] = "processor" /\ n # "own")

\* Until a modifier returns, answer and view are the guard's own.
Unmodified(r) ==
  edited[r] = 0 =>
    /\ reply[r].status = base[r].status
    /\ \A n \in Names : reply[r].headers[n] \in {base[r].headers[n]} \cup OfProcessor(n)
    /\ at[r] \in {"event", "modify", "on_error", "apply"} =>
         view[r].status = base[r].status /\ Untouched(view[r])

DueEvents(r) ==
  IF /\ lane[r] = "forwarded" /\ Wired(r).processor
     /\ Wired(r).headers /\ Wired(r).bus
    THEN 1 ELSE 0

\* The event is sent between the processor and the modifier, and a
\* forwarded answer has one pass.
Announced(r) ==
  /\ lane[r] = "generated" => events[r] = 0
  /\ lane[r] = "forwarded" =>
       /\ rounds[r] <= 1
       /\ at[r] \in {"process", "event"} => events[r] = 0
       /\ at[r] \in {"modify", "on_error", "apply", "closed", "escaped"} =>
            events[r] = DueEvents(r)

\* What a name of the answer has, of the composed answer or of a view.
Kept(r, n) ==
  \/ reply[r].headers[n] \in {base[r].headers[n]} \cup OfProcessor(n)
  \/ reply[r].headers[n] = {"modifier"} /\ edited[r] > 0

Survives(r) ==
  at[r] \in Passing \cup {"closed", "escaped"} =>
    /\ ValidStatus(reply[r].status)
    /\ reply[r].body = base[r].body
    /\ \A n \in Names : Kept(r, n)
    /\ at[r] \in {"event", "modify", "on_error", "apply"} =>
         \A n \in Names :
           /\ view[r].headers[n] = "processor" => n # "own"
           /\ view[r].headers[n] = "modifier" => edited[r] > 0

Own(r) ==
  Fresh(r) /\ InPass(r) /\ Called(r) /\ Unmodified(r) /\ Announced(r) /\ Survives(r)

PassInv == PassTypes /\ \A r \in Requests : Own(r)

\* What the parts of Own(r) look at, but for `at` and `tree`.
Same(q) ==
  /\ lane'[q] = lane[q] /\ rounds'[q] = rounds[q] /\ base'[q] = base[q]
  /\ reply'[q] = reply[q] /\ view'[q] = view[q] /\ events'[q] = events[q]
  /\ edited'[q] = edited[q] /\ raised'[q] = raised[q]

(* A request nothing happened to keeps its part of the invariant.          *)
LEMMA OthersKeep ==
  ASSUME NEW q, Own(q), Same(q), at'[q] = at[q], Wired(q)' = Wired(q)
  PROVE  Own(q)'
  BY DEF Own, Same, Fresh, InPass, Called, Unmodified, Announced, DueEvents, Survives, Kept, Untouched

(* A request on its way to an answer has had no part of a pass.            *)
LEMMA MoveKeeps ==
  ASSUME PassInv, NEW r \in Requests, NEW l \in Before,
         at[r] \in Before, Go(r, l), UNCHANGED passVars, UNCHANGED wiring,
         tree' \in [Requests -> Trees], \A q \in Requests \ {r} : tree'[q] = tree[q]
  PROVE  PassInv'
<1>1. UNCHANGED <<lane, rounds, base, reply, view, events, edited, raised>>
  BY DEF passVars
<1>2. PassTypes'
  BY <1>1 DEF PassInv, PassTypes, Go, Before, Labels
<1>3. at'[r] = l /\ \A q \in Requests \ {r} : at'[q] = at[q]
  BY DEF PassInv, PassTypes, Go
<1>4. ASSUME NEW q \in Requests \ {r} PROVE Own(q)'
  BY <1>1, <1>3, <1>4, OthersKeep DEF PassInv, Same, Wired
<1>5. Own(r)'
  BY <1>1, <1>3 DEF PassInv, Own, Fresh, InPass, Called, Unmodified, Announced, Survives,
                    Before, Passing
<1> QED
  BY <1>2, <1>4, <1>5 DEF PassInv

(* An answer is composed with the passes it has ahead.                     *)
LEMMA ComposeKeeps ==
  ASSUME PassInv, NEW r \in Requests, NEW answer \in Replies, NEW itsLane, NEW passes,
         at[r] \in Before, Composes(r, answer, itsLane, passes), UNCHANGED <<tree, wiring>>,
         ValidStatus(answer.status),
         \/ itsLane = "forwarded" /\ passes = 1
         \/ itsLane = "generated" /\ passes \in 0 .. 2
  PROVE  PassInv'
<1> DEFINE n == IF Wired(r).processor THEN passes ELSE 0
           l == IF Wired(r).processor /\ passes > 0 THEN "process" ELSE "closed"
<1>1. UNCHANGED <<view, events, edited, raised>> /\ Wired(r)' = Wired(r)
  BY DEF Composes, Wired
<1>2. Wired(r).processor \in BOOLEAN /\ n \in 0 .. 2 /\ passes \in 0 .. 2
  BY DEF PassInv, PassTypes, Wired, WiringSpace
<1>3. /\ base' = [base EXCEPT ![r] = answer] /\ reply' = [reply EXCEPT ![r] = answer]
      /\ lane' = [lane EXCEPT ![r] = itsLane] /\ rounds' = [rounds EXCEPT ![r] = n]
      /\ at' = [at EXCEPT ![r] = l]
  BY DEF Composes, Go
<1>4. l \in {"process", "closed"} /\ (l = "process" => Wired(r).processor /\ n >= 1)
  BY <1>2
<1> HIDE DEF n, l
<1>5. PassTypes'
  BY <1>1, <1>2, <1>3, <1>4 DEF PassInv, PassTypes, Labels, Passing, Composes
<1>6. /\ base'[r] = answer /\ reply'[r] = answer /\ lane'[r] = itsLane
      /\ rounds'[r] = n /\ at'[r] = l
  BY <1>3 DEF PassInv, PassTypes
<1>7. ASSUME NEW q \in Requests \ {r} PROVE Own(q)'
  <2>1. Same(q) /\ at'[q] = at[q] /\ Wired(q)' = Wired(q)
    BY <1>1, <1>3 DEF PassInv, PassTypes, Same, Wired
  <2> QED
    BY <2>1, OthersKeep DEF PassInv
<1>8. events[r] = 0 /\ edited[r] = 0 /\ raised[r] = 0
  BY DEF PassInv, Own, Fresh
<1>9. Own(r)'
  <2>1. Fresh(r)' /\ InPass(r)'
    BY <1>1, <1>4, <1>6 DEF Fresh, InPass, Before, Passing
  <2>2. Called(r)'
    BY <1>1, <1>2, <1>4, <1>6, <1>8 DEF Called
  <2>3. Unmodified(r)'
    BY <1>1, <1>4, <1>6 DEF Unmodified
  <2>4. Announced(r)'
    <3>1. l = "closed" /\ itsLane = "forwarded" => ~Wired(r).processor
      BY <1>2 DEF l
    <3>2. itsLane = "forwarded" => n <= 1
      BY <1>2 DEF n
    <3>3. events'[r] = 0 /\ itsLane \in {"forwarded", "generated"}
      BY <1>1, <1>8
    <3>4. CASE itsLane = "generated"
      BY <1>6, <3>3, <3>4 DEF Announced
    <3>5. CASE itsLane = "forwarded" /\ l = "process"
      BY <1>6, <3>2, <3>3, <3>5 DEF Announced
    <3>6. CASE itsLane = "forwarded" /\ l = "closed"
      BY <1>1, <1>6, <3>1, <3>2, <3>3, <3>6 DEF Announced, DueEvents
    <3> QED
      BY <1>4, <3>3, <3>4, <3>5, <3>6
  <2>5. Survives(r)'
    BY <1>4, <1>6 DEF Survives, Kept
  <2> QED
    BY <2>1, <2>2, <2>3, <2>4, <2>5 DEF Own
<1> QED
  BY <1>5, <1>7, <1>9 DEF PassInv

(* An answer of the application or of the status route meets no pass.      *)
LEMMA PlainAnswerKeeps ==
  ASSUME PassInv, NEW r \in Requests, at[r] \in Before, Answers200(r),
         UNCHANGED <<tree, wiring>>
  PROVE  PassInv'
<1> DEFINE answer == Forwarded(200)
<1>1. /\ UNCHANGED <<lane, rounds, view, events, edited, raised>>
      /\ base' = [base EXCEPT ![r] = answer] /\ reply' = [reply EXCEPT ![r] = answer]
      /\ at' = [at EXCEPT ![r] = "closed"]
  BY DEF Answers200, Go
<1>2. answer \in Replies /\ ValidStatus(answer.status)
  BY DEF Forwarded, Replies, Names, Values, ValidStatus
<1> HIDE DEF answer
<1>3. PassTypes'
  BY <1>1, <1>2 DEF PassInv, PassTypes, Labels
<1>4. base'[r] = answer /\ reply'[r] = answer /\ at'[r] = "closed"
  BY <1>1 DEF PassInv, PassTypes
<1>5. ASSUME NEW q \in Requests \ {r} PROVE Own(q)'
  <2>1. Same(q) /\ at'[q] = at[q] /\ Wired(q)' = Wired(q)
    BY <1>1 DEF PassInv, PassTypes, Same, Wired
  <2> QED
    BY <2>1, OthersKeep DEF PassInv
<1>6. Own(r)'
  BY <1>1, <1>2, <1>4 DEF PassInv, Own, Fresh, InPass, Called, Unmodified, Announced,
                          Survives, Kept, Untouched, Before, Passing
<1> QED
  BY <1>3, <1>5, <1>6 DEF PassInv

(* The processor writes the view; the answer has had no event yet.         *)
LEMMA ProcessKeeps ==
  ASSUME PassInv, NEW r \in Requests, Process(r), UNCHANGED <<tree, wiring>>
  PROVE  PassInv'
<1> DEFINE bits == [status |-> reply[r].status,
                    headers |-> [n \in Names |->
                      IF n = "cors" \/ (n = "security" /\ Wired(r).headers)
                        THEN "processor" ELSE "absent"]]
<1>1. /\ at[r] = "process" /\ view' = [view EXCEPT ![r] = bits]
      /\ at' = [at EXCEPT ![r] = "event"]
      /\ UNCHANGED <<lane, rounds, base, reply, events, edited, raised>>
  BY DEF Process, Go
<1>2. bits \in Bits /\ bits.status = reply[r].status /\ Untouched(bits)
  BY DEF PassInv, PassTypes, Bits, Replies, Names, Entries, Untouched
<1> HIDE DEF bits
<1>3. PassTypes'
  BY <1>1, <1>2 DEF PassInv, PassTypes, Labels, Passing
<1>4. view'[r] = bits /\ at'[r] = "event" /\ Wired(r)' = Wired(r)
  BY <1>1 DEF PassInv, PassTypes, Wired
<1>5. ASSUME NEW q \in Requests \ {r} PROVE Own(q)'
  <2>1. Same(q) /\ at'[q] = at[q] /\ Wired(q)' = Wired(q)
    BY <1>1 DEF PassInv, PassTypes, Same, Wired
  <2> QED
    BY <2>1, OthersKeep DEF PassInv
<1>6. Own(r)'
  BY <1>1, <1>2, <1>4 DEF PassInv, Own, Fresh, InPass, Called, Unmodified, Announced,
                          Survives, Kept, Untouched, Before, Passing
<1> QED
  BY <1>3, <1>5, <1>6 DEF PassInv

(* The event goes out on the forwarded lane.                               *)
LEMMA EmitKeeps ==
  ASSUME PassInv, NEW r \in Requests, Emit(r), UNCHANGED <<tree, wiring>>
  PROVE  PassInv'
<1> DEFINE sends == lane[r] = "forwarded" /\ Wired(r).headers /\ Wired(r).bus
<1>1. /\ at[r] = "event" /\ at' = [at EXCEPT ![r] = "modify"]
      /\ events' = IF sends THEN [events EXCEPT ![r] = @ + 1] ELSE events
      /\ UNCHANGED <<lane, rounds, base, reply, view, edited, raised>>
  BY DEF Emit, Go
<1>2. Own(r) /\ Wired(r).processor /\ events[r] = 0
  BY <1>1 DEF PassInv, PassTypes, Own, InPass, Announced, Passing
<1>3. events' \in [Requests -> 0 .. 1] /\ events'[r] = (IF sends THEN 1 ELSE 0)
      /\ \A q \in Requests \ {r} : events'[q] = events[q]
  BY <1>1, <1>2 DEF PassInv, PassTypes
<1>4. PassTypes'
  BY <1>1, <1>3 DEF PassInv, PassTypes, Labels, Passing
<1>5. at'[r] = "modify" /\ Wired(r)' = Wired(r)
  BY <1>1 DEF PassInv, PassTypes, Wired
<1>6. ASSUME NEW q \in Requests \ {r} PROVE Own(q)'
  <2>1. Same(q) /\ at'[q] = at[q] /\ Wired(q)' = Wired(q)
    BY <1>1, <1>3 DEF PassInv, PassTypes, Same, Wired
  <2> QED
    BY <2>1, OthersKeep DEF PassInv
<1>7. Own(r)'
  <2>1. Announced(r)'
    BY <1>1, <1>2, <1>3, <1>5 DEF Own, Announced, DueEvents
  <2>2. Fresh(r)' /\ InPass(r)' /\ Called(r)' /\ Unmodified(r)' /\ Survives(r)'
    BY <1>1, <1>2, <1>5 DEF Own, Fresh, InPass, Called, Unmodified, Survives, Kept,
                               Untouched, Before, Passing
  <2> QED
    BY <2>1, <2>2 DEF Own
<1> QED
  BY <1>4, <1>6, <1>7 DEF PassInv

(* A modifier that is called returns with its edits or panics.             *)
LEMMA ModifyKeeps ==
  ASSUME PassInv, NEW r \in Requests, Modify(r), UNCHANGED <<tree, wiring>>
  PROVE  PassInv'
<1>1. at[r] = "modify" /\ UNCHANGED <<lane, rounds, base, reply, events>>
  BY DEF Modify
<1>2. Own(r) /\ Wired(r).processor /\ Wired(r)' = Wired(r)
  BY <1>1 DEF PassInv, Own, InPass, Passing, Wired
<1>3. \E bits \in Bits, l \in {"apply", "on_error"}, e \in {0, 1}, p \in {0, 1} :
        /\ at' = [at EXCEPT ![r] = l]
        /\ view' = [view EXCEPT ![r] = bits]
        /\ edited' = [edited EXCEPT ![r] = @ + e]
        /\ raised' = [raised EXCEPT ![r] = @ + p]
        /\ e + p <= 1
        /\ e = 0 => bits = view[r]
        /\ \A n \in Names : bits.headers[n] = "processor" => view[r].headers[n] = "processor"
  <2>1. /\ view[r] \in Bits /\ view = [view EXCEPT ![r] = view[r]]
        /\ edited = [edited EXCEPT ![r] = @ + 0] /\ raised = [raised EXCEPT ![r] = @ + 0]
    BY DEF PassInv, PassTypes
  <2>2. CASE Go(r, "apply") /\ UNCHANGED <<view, edited, raised>>
    BY <2>1, <2>2 DEF Go
  <2>3. CASE Returns(r)
    <3>1. PICK bits \in Edited(view[r]) : view' = [view EXCEPT ![r] = bits]
      BY <2>3 DEF Returns
    <3>2. PICK w \in Rewrites : bits.headers =
            [n \in Names |-> IF w[n] = "kept" THEN view[r].headers[n] ELSE w[n]]
      BY <3>1 DEF Edited
    <3>3. w \in [Names -> {"kept", "absent", "modifier", "malformed"}]
      BY PassAssumption
    <3>4. bits \in Bits
      <4>1. bits.headers \in [Names -> Entries]
        BY <2>1, <3>2, <3>3 DEF Bits, Entries
      <4>2. /\ bits = [status |-> bits.status, headers |-> bits.headers]
            /\ bits.status \in {view[r].status} \cup Edits
        BY <3>1 DEF Edited
      <4>3. bits.status \in Nat
        BY <2>1, <4>2, PassAssumption DEF Bits
      <4> QED
        BY <4>1, <4>2, <4>3 DEF Bits
    <3>5. \A n \in Names : bits.headers[n] = "processor" => view[r].headers[n] = "processor"
      BY <3>2, <3>3
    <3>6. /\ edited' = [edited EXCEPT ![r] = @ + 1] /\ raised' = [raised EXCEPT ![r] = @ + 0]
          /\ at' = [at EXCEPT ![r] = "apply"]
      BY <2>1, <2>3 DEF Returns, Go
    <3> WITNESS bits \in Bits, "apply" \in {"apply", "on_error"}, 1 \in {0, 1}, 0 \in {0, 1}
    <3> QED
      BY <3>1, <3>5, <3>6
  <2>4. CASE Panics(r)
    <3>1. /\ raised' = [raised EXCEPT ![r] = @ + 1] /\ edited' = [edited EXCEPT ![r] = @ + 0]
          /\ view' = [view EXCEPT ![r] = view[r]]
      BY <2>1, <2>4 DEF Panics
    <3>2. PICK l \in {"apply", "on_error"} : at' = [at EXCEPT ![r] = l]
      BY <2>4 DEF Panics, Go
    <3>3. view[r] \in Bits
      BY <2>1
    <3> DEFINE bits == view[r]
    <3>4. bits \in Bits
      BY <3>3
    <3> WITNESS bits \in Bits, l \in {"apply", "on_error"}, 0 \in {0, 1}, 1 \in {0, 1}
    <3> QED
      BY <2>1, <3>1, <3>2
  <2> QED
    BY <2>2, <2>3, <2>4 DEF Modify
<1>4. PICK bits \in Bits, l \in {"apply", "on_error"}, e \in {0, 1}, p \in {0, 1} :
        /\ at' = [at EXCEPT ![r] = l]
        /\ view' = [view EXCEPT ![r] = bits]
        /\ edited' = [edited EXCEPT ![r] = @ + e]
        /\ raised' = [raised EXCEPT ![r] = @ + p]
        /\ e + p <= 1
        /\ e = 0 => bits = view[r]
        /\ \A n \in Names : bits.headers[n] = "processor" => view[r].headers[n] = "processor"
  BY <1>3
<1>5. PassTypes'
  BY <1>1, <1>4 DEF PassInv, PassTypes, Labels, Passing
<1>6. /\ at'[r] = l /\ view'[r] = bits
      /\ edited'[r] = edited[r] + e /\ raised'[r] = raised[r] + p
  BY <1>4 DEF PassInv, PassTypes
<1>7. ASSUME NEW q \in Requests \ {r} PROVE Own(q)'
  <2>1. Same(q) /\ at'[q] = at[q] /\ Wired(q)' = Wired(q)
    BY <1>1, <1>4 DEF PassInv, PassTypes, Same, Wired
  <2> QED
    BY <2>1, OthersKeep DEF PassInv
<1>8. edited[r] \in Nat /\ raised[r] \in Nat /\ rounds[r] \in Nat
  BY DEF PassInv, PassTypes
<1>9. Own(r)'
  <2>1. Fresh(r)' /\ InPass(r)'
    BY <1>1, <1>2, <1>6 DEF Own, Fresh, InPass, Before, Passing
  <2>2. Called(r)'
    BY <1>1, <1>2, <1>4, <1>6, <1>8 DEF Own, Called, InPass, Passing
  <2>3. Unmodified(r)'
    <3>1. edited'[r] = 0 => edited[r] = 0 /\ bits = view[r]
      BY <1>4, <1>6, <1>8
    <3> QED
      BY <1>1, <1>2, <1>6, <3>1 DEF Own, Unmodified
  <2>4. Announced(r)'
    BY <1>1, <1>2, <1>6 DEF Own, Announced, DueEvents
  <2>5. Survives(r)'
    <3>1. /\ ValidStatus(reply[r].status) /\ reply[r].body = base[r].body
          /\ \A n \in Names : Kept(r, n)
          /\ \A n \in Names :
               /\ view[r].headers[n] = "processor" => n # "own"
               /\ view[r].headers[n] = "modifier" => edited[r] > 0
      BY <1>1, <1>2 DEF Own, Survives, Passing
    <3>2. (edited[r] > 0 => edited'[r] > 0) /\ (e = 1 => edited'[r] > 0)
      BY <1>6, <1>8
    <3>3. ASSUME NEW n \in Names PROVE Kept(r, n)'
      BY <1>1, <3>1, <3>2, <3>3 DEF Kept
    <3>4. ASSUME NEW n \in Names
          PROVE  /\ bits.headers[n] = "processor" => n # "own"
                 /\ bits.headers[n] = "modifier" => edited'[r] > 0
      BY <1>4, <3>1, <3>2, <3>4
    <3> QED
      BY <1>1, <1>6, <3>1, <3>3, <3>4 DEF Survives
  <2> QED
    BY <2>1, <2>2, <2>3, <2>4, <2>5 DEF Own
<1> QED
  BY <1>5, <1>7, <1>9 DEF PassInv

(* The hook returns or takes the request down; the answer is what it was.  *)
LEMMA OnErrorKeeps ==
  ASSUME PassInv, NEW r \in Requests, OnError(r), UNCHANGED <<tree, wiring>>
  PROVE  PassInv'
<1>1. PICK l \in {"apply", "escaped"} : at' = [at EXCEPT ![r] = l]
  BY DEF OnError, Go
<1>2. at[r] = "on_error"
      /\ UNCHANGED <<lane, rounds, base, reply, view, events, edited, raised>>
  BY DEF OnError, passVars
<1>3. PassTypes'
  BY <1>1, <1>2 DEF PassInv, PassTypes, Labels, Passing
<1>4. at'[r] = l /\ Wired(r)' = Wired(r)
  BY <1>1 DEF PassInv, PassTypes, Wired
<1>5. ASSUME NEW q \in Requests \ {r} PROVE Own(q)'
  <2>1. Same(q) /\ at'[q] = at[q] /\ Wired(q)' = Wired(q)
    BY <1>1, <1>2 DEF PassInv, PassTypes, Same, Wired
  <2> QED
    BY <2>1, OthersKeep DEF PassInv
<1>6. Own(r)'
  BY <1>2, <1>4 DEF PassInv, Own, Fresh, InPass, Called, Unmodified, Announced, DueEvents,
                    Survives, Kept, Untouched, Before, Passing
<1> QED
  BY <1>3, <1>5, <1>6 DEF PassInv

(* A status that is one lands, and so do the headers of the view.          *)
LEMMA ApplyKeeps ==
  ASSUME PassInv, NEW r \in Requests, Apply(r), UNCHANGED <<tree, wiring>>
  PROVE  PassInv'
<1> DEFINE answer == Applied(r)
           l == IF rounds[r] > 1 THEN "process" ELSE "closed"
<1>1. /\ at[r] = "apply" /\ at' = [at EXCEPT ![r] = l]
      /\ reply' = [reply EXCEPT ![r] = answer]
      /\ rounds' = [rounds EXCEPT ![r] = @ - 1]
      /\ UNCHANGED <<lane, base, view, events, edited, raised>>
  BY DEF Apply, Go
<1>2. /\ Own(r) /\ Wired(r).processor /\ Wired(r)' = Wired(r)
      /\ rounds[r] \in {1, 2} /\ l \in {"process", "closed"}
      /\ l = "process" => rounds[r] = 2
  BY <1>1 DEF PassInv, PassTypes, Own, InPass, Passing, Wired
<1>3. /\ reply[r] \in Replies /\ view[r] \in Bits
      /\ edited[r] \in Nat /\ raised[r] \in Nat
  BY DEF PassInv, PassTypes
<1>4. /\ answer \in Replies /\ answer.body = reply[r].body
      /\ \A n \in Names : answer.headers[n] =
           IF Lands(view[r].headers[n]) THEN {view[r].headers[n]} ELSE reply[r].headers[n]
      /\ answer.status = IF ValidStatus(view[r].status) THEN view[r].status
                                                        ELSE reply[r].status
  <2>1. \A n \in Names : Lands(view[r].headers[n]) => view[r].headers[n] \in Values
    BY <1>3 DEF Bits, Entries, Values, Lands
  <2> DEFINE headers == [n \in Names |->
                IF Lands(view[r].headers[n]) THEN {view[r].headers[n]} ELSE reply[r].headers[n]]
             status == IF ValidStatus(view[r].status) THEN view[r].status ELSE reply[r].status
  <2>2. headers \in [Names -> SUBSET Values] /\ status \in Nat
    BY <1>3, <2>1 DEF Replies, Bits
  <2>3. \A n \in Names : headers[n] =
           IF Lands(view[r].headers[n]) THEN {view[r].headers[n]} ELSE reply[r].headers[n]
    OBVIOUS
  <2>4. answer = [reply[r] EXCEPT !.status = status, !.headers = headers]
    BY <1>3 DEF Applied, Replies
  <2> HIDE DEF answer, headers
  <2>5. /\ answer \in Replies /\ answer.body = reply[r].body
        /\ answer.headers = headers /\ answer.status = status
    BY <1>3, <2>2, <2>4 DEF Replies
  <2> QED
    BY <2>3, <2>5
<1> HIDE DEF answer, l
<1>5. PassTypes'
  BY <1>1, <1>2, <1>4 DEF PassInv, PassTypes, Labels, Passing
<1>6. at'[r] = l /\ reply'[r] = answer /\ rounds'[r] = rounds[r] - 1
  BY <1>1 DEF PassInv, PassTypes
<1>7. ASSUME NEW q \in Requests \ {r} PROVE Own(q)'
  <2>1. Same(q) /\ at'[q] = at[q] /\ Wired(q)' = Wired(q)
    BY <1>1 DEF PassInv, PassTypes, Same, Wired
  <2> QED
    BY <2>1, OthersKeep DEF PassInv
<1>8. Own(r)'
  <2>1. Fresh(r)' /\ InPass(r)'
    BY <1>2, <1>6 DEF Fresh, InPass, Before, Passing
  <2>2. Called(r)'
    BY <1>1, <1>2, <1>3, <1>6 DEF Own, Called
  <2>3. Unmodified(r)'
    <3> SUFFICES ASSUME edited[r] = 0
                 PROVE  /\ answer.status = base[r].status
                        /\ \A n \in Names :
                             answer.headers[n] \in {base[r].headers[n]} \cup OfProcessor(n)
      BY <1>1, <1>2, <1>6 DEF Unmodified
    <3>1. /\ reply[r].status = base[r].status /\ view[r].status = base[r].status
          /\ \A n \in Names : reply[r].headers[n] \in {base[r].headers[n]} \cup OfProcessor(n)
          /\ Untouched(view[r])
      BY <1>1, <1>2 DEF Own, Unmodified
    <3>2. ASSUME NEW n \in Names
          PROVE  answer.headers[n] \in {base[r].headers[n]} \cup OfProcessor(n)
      BY <1>4, <3>1, <3>2 DEF Untouched, Lands, OfProcessor
    <3> QED
      BY <1>4, <3>1, <3>2
  <2>4. Announced(r)'
    BY <1>1, <1>2, <1>6 DEF Own, Announced, DueEvents
  <2>5. Survives(r)'
    <3>1. /\ ValidStatus(reply[r].status) /\ reply[r].body = base[r].body
          /\ \A n \in Names : Kept(r, n)
          /\ \A n \in Names :
               /\ view[r].headers[n] = "processor" => n # "own"
               /\ view[r].headers[n] = "modifier" => edited[r] > 0
      BY <1>1, <1>2 DEF Own, Survives, Passing
    <3>2. ASSUME NEW n \in Names
          PROVE  \/ answer.headers[n] \in {base[r].headers[n]} \cup OfProcessor(n)
                 \/ answer.headers[n] = {"modifier"} /\ edited[r] > 0
      <4>1. view[r].headers[n] \in Entries
        BY <1>3 DEF Bits
      <4> QED
        BY <1>4, <3>1, <4>1 DEF Kept, Entries, Lands, OfProcessor
    <3> QED
      BY <1>1, <1>2, <1>4, <1>6, <3>1, <3>2 DEF Survives, Kept
  <2> QED
    BY <2>1, <2>2, <2>3, <2>4, <2>5 DEF Own
<1> QED
  BY <1>5, <1>7, <1>8 DEF PassInv
-----------------------------------------------------------------------------
(* The steps of the application on the pass.                               *)

(* Generated answers are answers.                                          *)
LEMMA BlocksKeep ==
  ASSUME PassInv, NEW r \in Requests, NEW status \in {200, 400, 403, 413, 500},
         NEW passes \in 0 .. 2, at[r] \in Before, Blocks(r, status, passes),
         UNCHANGED <<tree, wiring>>
  PROVE  PassInv'
<1>1. Generated(status) \in Replies /\ ValidStatus(Generated(status).status)
  BY DEF Generated, Replies, Names, Values, ValidStatus
<1> QED
  BY <1>1, ComposeKeeps DEF Blocks

(* Every step of a request keeps the invariant of the pass.                *)
LEMMA StepKeepsPass ==
  ASSUME PassInv, NEW r \in Requests, Step(r), UNCHANGED fixed
  PROVE  PassInv'
<1> USE DEF Before
<1>0. UNCHANGED wiring /\ tree \in [Requests -> Trees] /\ Trees = {"general", "admin"}
  BY HostAssumption DEF fixed, PassInv, PassTypes
<1>1. CASE Accept(r)
  BY <1>0, <1>1, MoveKeeps DEF Accept
<1>2. CASE Dispatch(r)
  <2>1. ASSUME NEW t \in Trees, Enters(r, t) PROVE PassInv'
    <3>1. /\ tree' \in [Requests -> Trees] /\ \A q \in Requests \ {r} : tree'[q] = tree[q]
          /\ Go(r, "screen") /\ UNCHANGED passVars
      BY <1>0, <2>1 DEF Enters
    <3>2. at[r] \in Before
      BY <1>2 DEF Dispatch
    <3> QED
      BY <1>0, <3>1, <3>2, MoveKeeps
  <2>2. CASE Answers200(r) /\ UNCHANGED tree
    BY <1>0, <1>2, <2>2, PlainAnswerKeeps DEF Dispatch
  <2>3. CASE Status(r)
    BY <1>0, <1>2, <2>3, MoveKeeps DEF Dispatch, Status
  <2> QED
    BY <1>0, <1>2, <2>1, <2>2, <2>3 DEF Dispatch, SimpleCall, AdvancedCall
<1>3. CASE ServesStatus(r)
  <2>1. CASE UNCHANGED <<at, passVars>>
    <3>1. UNCHANGED <<at, lane, rounds, base, reply, view, events, edited, raised, tree>>
      BY <1>3, <2>1 DEF ServesStatus, passVars
    <3>2. PassTypes'
      BY <1>0, <3>1 DEF PassInv, PassTypes
    <3>3. \A q \in Requests : Own(q)'
      BY <1>0, <3>1, OthersKeep DEF PassInv, Same, Wired
    <3> QED
      BY <3>2, <3>3 DEF PassInv
  <2>2. CASE Answers200(r)
    BY <1>0, <1>3, <2>2, PlainAnswerKeeps DEF ServesStatus
  <2> QED
    BY <1>3, <2>1, <2>2 DEF ServesStatus
<1>4. CASE Screen(r)
  <2>1. at[r] \in Before /\ UNCHANGED <<tree, wiring>>
    BY <1>0, <1>4 DEF Screen
  <2>2. CASE Blocks(r, 200, 0) \/ Blocks(r, 403, 2) \/ Blocks(r, 500, 1) \/ Blocks(r, 413, 1)
    BY <2>1, <2>2, BlocksKeep
  <2>3. CASE Go(r, "cloud") /\ UNCHANGED passVars
    BY <1>0, <2>1, <2>3, MoveKeeps
  <2> QED
    BY <1>4, <2>2, <2>3 DEF Screen
<1>5. CASE CloudAndDetection(r)
  <2>1. at[r] \in Before /\ UNCHANGED <<tree, wiring>>
    BY <1>0, <1>5 DEF CloudAndDetection
  <2>2. CASE Blocks(r, 403, 1) \/ Blocks(r, 400, 1)
    BY <2>1, <2>2, BlocksKeep
  <2>3. CASE Go(r, "inner") /\ UNCHANGED passVars
    BY <1>0, <2>1, <2>3, MoveKeeps
  <2> QED
    BY <1>5, <2>2, <2>3 DEF CloudAndDetection
<1>6. CASE CallInner(r)
  <2> DEFINE status == Routed(tree[r], visit[r])
             answer == Forwarded(status)
  <2>1. status \in {200, 404}
    BY DEF Routed
  <2> HIDE DEF status
  <2>2. answer \in Replies /\ ValidStatus(answer.status)
    BY <2>1 DEF Forwarded, Replies, Names, Values, ValidStatus
  <2>3. at[r] \in Before /\ UNCHANGED <<tree, wiring>> /\ Composes(r, answer, "forwarded", 1)
    BY <1>0, <1>6 DEF CallInner, status
  <2> HIDE DEF answer
  <2> QED
    BY <2>2, <2>3, ComposeKeeps
<1>7. CASE GuardStep(r)
  BY <1>0, <1>7, ProcessKeeps, EmitKeeps, ModifyKeeps, OnErrorKeeps, ApplyKeeps
     DEF GuardStep, PassStep
<1> QED
  BY <1>1, <1>2, <1>3, <1>4, <1>5, <1>6, <1>7 DEF Step

(* The invariant of the pass holds throughout.                             *)
LEMMA PassInductive == Spec => []PassInv
<1>1. Init => PassInv
  <2> SUFFICES ASSUME Init PROVE PassInv
    OBVIOUS
  <2>1. wiring \in [Trees -> WiringSpace] /\ "general" \in Trees
    BY PassAssumption, HostAssumption DEF Init, PassInit
  <2>2. Blank \in Replies /\ NoBits \in Bits
    BY DEF Blank, Replies, NoBits, Bits, Names, Entries, Values
  <2>3. PassTypes
    BY <2>1, <2>2 DEF Init, PassInit, PassTypes, Labels
  <2>4. ASSUME NEW r \in Requests PROVE Own(r)
    BY <2>4 DEF Init, PassInit, Own, Fresh, InPass, Called, Unmodified, Announced,
                Survives, Passing
  <2> QED
    BY <2>3, <2>4 DEF PassInv
<1>2. PassInv /\ [Next]_vars => PassInv'
  <2> SUFFICES ASSUME PassInv, [Next]_vars PROVE PassInv'
    OBVIOUS
  <2>1. CASE UNCHANGED <<wiring, at, tree, passVars>>
    <3>1. UNCHANGED <<wiring, at, lane, rounds, base, reply, view, events, edited, raised, tree>>
      BY <2>1 DEF passVars
    <3>2. PassTypes'
      BY <3>1 DEF PassInv, PassTypes
    <3>3. \A q \in Requests : Own(q)'
      BY <3>1, OthersKeep DEF PassInv, Same, Wired
    <3> QED
      BY <3>2, <3>3 DEF PassInv
  <2>2. CASE Next
    <3>1. CASE \E r \in Requests : Step(r) /\ UNCHANGED fixed
      BY <3>1, StepKeepsPass
    <3>2. CASE BackgroundStep /\ UNCHANGED fixed
      BY <2>1, <3>2 DEF BackgroundStep, fixed
    <3>3. CASE Finished
      BY <2>1, <3>3 DEF Finished, vars, fixed
    <3> QED
      BY <2>2, <3>1, <3>2, <3>3 DEF Next
  <2> QED
    BY <2>1, <2>2 DEF vars, fixed
<1> QED
  BY <1>1, <1>2, PTL DEF Spec

(* Whatever a panicking modifier did to the view, the answer it was        *)
(* called for is the guard's own.                                          *)
THEOREM PanicsUndone == Spec => []PanicLeavesUnmodified
<1>1. PassInv => PanicLeavesUnmodified
  BY DEF PassInv, Own, Unmodified, PanicLeavesUnmodified
<1> QED
  BY <1>1, PassInductive, PTL

(* A forwarded answer is announced once, and no other answer is.           *)
THEOREM EventPerForward == Spec => []OneEventPerForward
<1>1. PassInv => OneEventPerForward
  BY DEF PassInv, PassTypes, Own, Announced, DueEvents, OneEventPerForward
<1> QED
  BY <1>1, PassInductive, PTL

(* No modifier makes the guard send a status that is not one, touches the  *)
(* body, takes a header off the answer or doubles one: a name keeps what   *)
(* it was composed with, or has the one value some view gave it.           *)
THEOREM EditsSurvived == Spec => []AnswerSurvivesEdits
<1>1. PassInv => AnswerSurvivesEdits
  BY DEF PassInv, Own, Survives, Kept, AnswerSurvivesEdits
<1> QED
  BY <1>1, PassInductive, PTL
-----------------------------------------------------------------------------
(* The cloud ranges and their readers.                                     *)

\* The rows of the running refresh are one load behind those it is done with.
InStep ==
  \A p \in Providers : table[p].load = IF p \in inFlight THEN accepted - 1 ELSE accepted

TableOK ==
  /\ table \in [Providers -> Rows]
  /\ inFlight \subseteq Providers
  /\ accepted \in 0 .. MaxRefreshes
  /\ InStep

\* The table a reader found is behind the table, row by row.
Behind(old) ==
  \A p \in Providers :
    /\ old[p].load <= table[p].load
    /\ old[p].load = table[p].load => old[p] = table[p]

ReadersOK ==
  /\ since \in [Clients -> [Providers -> Rows]]
  /\ rows \in [Clients -> Seq(Rows)]
  /\ \A r \in Clients : Len(rows[r]) <= Len(ProviderOrder)
  /\ \A r \in Clients : Behind(since[r])
  /\ RowsAreLive
  /\ RowsInOrder

\* A request reads nothing before it came.
Unread == at \in [Requests -> Labels] /\ \A r \in Requests : at[r] = "wire" => rows[r] = <<>>

CloudInv == TableOK /\ ReadersOK /\ Unread

(* The rows of a document are the first providers of the order.            *)
LEMMA RowProviders ==
  ASSUME ReadersOK, NEW r \in Clients
  PROVE  /\ rows[r] \in Seq(Rows)
         /\ \A i \in DOMAIN rows[r] : i \in DOMAIN ProviderOrder /\ ProviderOrder[i] \in Providers
<1>1. /\ rows[r] \in Seq(Rows) /\ ProviderOrder \in Seq(Providers)
      /\ Len(rows[r]) <= Len(ProviderOrder)
  BY CloudAssumption DEF ReadersOK
<1> QED
  BY <1>1

(* Of two rows of the table one is one load behind the other at most.      *)
LEMMA LoadsClose ==
  ASSUME TableOK, NEW p \in Providers, NEW q \in Providers
  PROVE  /\ table[p].load \in Nat /\ table[q].load \in Nat
         /\ table[p].load <= table[q].load + 1
  BY CloudAssumption DEF TableOK, InStep, Rows

(* A refresh is accepted when none is running.                             *)
LEMMA ScheduleKeeps ==
  ASSUME CloudInv, Schedule, UNCHANGED at
  PROVE  CloudInv'
<1>1. /\ accepted < MaxRefreshes /\ inFlight = {} /\ accepted' = accepted + 1
      /\ inFlight' = Providers /\ UNCHANGED <<table, since, rows, geo>>
  BY DEF Schedule, readerVars
<1>2. TableOK'
  <2>1. accepted' \in 0 .. MaxRefreshes
    BY <1>1, CloudAssumption DEF CloudInv, TableOK
  <2>2. InStep'
    BY <1>1, CloudAssumption DEF CloudInv, TableOK, InStep
  <2> QED
    BY <1>1, <2>1, <2>2 DEF CloudInv, TableOK
<1>3. ReadersOK' /\ Unread'
  BY <1>1 DEF CloudInv, ReadersOK, Behind, RowsAreLive, RowsInOrder, Unread
<1> QED
  BY <1>2, <1>3 DEF CloudInv

(* A swap brings a row to the load of its refresh.                         *)
LEMMA SwapKeeps ==
  ASSUME CloudInv, NEW p \in Providers, Swap(p), UNCHANGED at
  PROVE  CloudInv'
<1> DEFINE row == [ready |-> <<p, table[p].load + 1>> \notin Failures, load |-> table[p].load + 1]
<1>1. /\ p \in inFlight /\ table' = [table EXCEPT ![p] = row] /\ inFlight' = inFlight \ {p}
      /\ UNCHANGED <<accepted, since, rows, geo>>
  BY DEF Swap, readerVars
<1>2. /\ table[p] \in Rows /\ accepted \in 0 .. MaxRefreshes
      /\ table[p].load = accepted - 1 /\ MaxRefreshes \in Nat
  BY <1>1, CloudAssumption DEF CloudInv, TableOK, InStep
<1>3. row \in Rows /\ row.load = accepted /\ row.load = table[p].load + 1
  BY <1>2 DEF Rows
<1> HIDE DEF row
<1>4. /\ table' \in [Providers -> Rows] /\ table'[p] = row
      /\ \A q \in Providers \ {p} : table'[q] = table[q]
  BY <1>1, <1>3 DEF CloudInv, TableOK
<1>5. TableOK'
  <2>1. \A q \in Providers : table'[q].load = IF q \in inFlight' THEN accepted - 1 ELSE accepted
    BY <1>1, <1>3, <1>4 DEF CloudInv, TableOK, InStep
  <2> QED
    BY <1>1, <1>2, <1>4, <2>1 DEF CloudInv, TableOK, InStep
<1>6. \A q \in Providers : table[q].load \in Nat /\ table'[q].load \in Nat
  BY <1>4 DEF CloudInv, TableOK, Rows
<1>7. ASSUME NEW old \in [Providers -> Rows], Behind(old) PROVE Behind(old)'
  <2>1. old' = old /\ \A q \in Providers : old[q].load \in Nat
    BY DEF Rows
  <2> QED
    BY <1>3, <1>4, <1>6, <1>7, <2>1 DEF Behind
<1>8. ReadersOK'
  <2>1. \A r \in Clients : Behind(since[r])'
    BY <1>1, <1>7 DEF CloudInv, ReadersOK, Behind
  <2>2. RowsAreLive'
    <3> SUFFICES ASSUME NEW r \in Clients, NEW i \in DOMAIN rows[r]
                 PROVE  LET q == ProviderOrder[i] IN
                        /\ since[r][q].load <= rows[r][i].load /\ rows[r][i].load <= table'[q].load
                        /\ rows[r][i].load = since[r][q].load => rows[r][i] = since[r][q]
                        /\ rows[r][i].load = table'[q].load => rows[r][i] = table'[q]
      BY <1>1 DEF RowsAreLive
    <3> DEFINE q == ProviderOrder[i]
    <3>1. q \in Providers /\ rows[r][i] \in Rows
      BY RowProviders DEF CloudInv
    <3>2. /\ since[r][q].load <= rows[r][i].load /\ rows[r][i].load <= table[q].load
          /\ rows[r][i].load = since[r][q].load => rows[r][i] = since[r][q]
          /\ rows[r][i].load = table[q].load => rows[r][i] = table[q]
      BY DEF CloudInv, ReadersOK, RowsAreLive
    <3>3. rows[r][i].load \in Nat
      BY <3>1 DEF Rows
    <3> HIDE DEF q
    <3>4. CASE q = p
      BY <1>3, <1>4, <1>6, <3>1, <3>2, <3>3, <3>4 DEF q
    <3>5. CASE q # p
      BY <1>4, <3>1, <3>2, <3>5 DEF q
    <3> QED
      BY <3>4, <3>5
  <2>3. RowsInOrder'
    BY <1>1 DEF CloudInv, ReadersOK, RowsInOrder
  <2> QED
    BY <1>1, <2>1, <2>2, <2>3 DEF CloudInv, ReadersOK
<1>9. Unread'
  BY <1>1 DEF CloudInv, Unread
<1> QED
  BY <1>5, <1>8, <1>9 DEF CloudInv

(* A request that comes has read nothing, and sees the table as it is.     *)
LEMMA ComesKeeps ==
  ASSUME CloudInv, NEW r \in Requests, at[r] = "wire", Comes(r), Go(r, "ready")
  PROVE  CloudInv'
<1>1. /\ since' = [since EXCEPT ![r] = table]
      /\ UNCHANGED <<table, inFlight, accepted, rows, geo>> /\ r \in Clients
  BY HostAssumption DEF Comes, tableVars
<1>2. rows[r] = <<>>
  BY DEF CloudInv, Unread
<1>3. TableOK'
  BY <1>1 DEF CloudInv, TableOK, InStep
<1>4. ReadersOK'
  <2>1. since' \in [Clients -> [Providers -> Rows]] /\ since'[r] = table
        /\ \A q \in Clients \ {r} : since'[q] = since[q]
    BY <1>1 DEF CloudInv, ReadersOK, TableOK
  <2>2. \A q \in Clients : Behind(since[q])'
    <3>1. \A p \in Providers : table[p].load <= table[p].load
      BY DEF CloudInv, TableOK, Rows
    <3> QED
      BY <1>1, <2>1, <3>1 DEF CloudInv, ReadersOK, Behind
  <2>3. RowsAreLive'
    BY <1>1, <1>2, <2>1 DEF CloudInv, ReadersOK, RowsAreLive
  <2> QED
    BY <1>1, <2>1, <2>2, <2>3 DEF CloudInv, ReadersOK, RowsInOrder
<1>5. Unread'
  BY <1>1 DEF CloudInv, Unread, Go, Labels
<1> QED
  BY <1>3, <1>4, <1>5 DEF CloudInv

(* A row is read from the table as it is.                                  *)
LEMMA RowReadKeeps ==
  ASSUME CloudInv, NEW r \in Requests, RowsLeft(r), at[r] # "wire",
         rows' = [rows EXCEPT ![r] = Append(@, table[ProviderOrder[Len(@) + 1]])],
         UNCHANGED <<table, inFlight, accepted, since>>,
         at' \in [Requests -> Labels], at'[r] # "wire",
         \A q \in Requests \ {r} : at'[q] = at[q]
  PROVE  CloudInv'
<1> DEFINE n == Len(rows[r]) + 1
           row == table[ProviderOrder[n]]
<1>1. /\ r \in Clients /\ rows[r] \in Seq(Rows) /\ n \in 1 .. Len(ProviderOrder)
      /\ ProviderOrder \in Seq(Providers) /\ ProviderOrder[n] \in Providers
  BY HostAssumption, CloudAssumption DEF CloudInv, ReadersOK, RowsLeft
<1>2. row \in Rows
  BY <1>1 DEF CloudInv, TableOK
<1>3. /\ rows' \in [Clients -> Seq(Rows)] /\ rows'[r] = Append(rows[r], row)
      /\ \A q \in Clients \ {r} : rows'[q] = rows[q]
  BY <1>1, <1>2 DEF CloudInv, ReadersOK
<1>4. /\ Len(rows'[r]) = n /\ n \in Nat /\ DOMAIN rows'[r] = 1 .. n /\ rows'[r][n] = row
      /\ DOMAIN rows[r] = 1 .. n - 1 /\ \A i \in 1 .. n - 1 : rows'[r][i] = rows[r][i]
  BY <1>1, <1>2, <1>3
<1> HIDE DEF row, n
<1>5. TableOK'
  BY DEF CloudInv, TableOK, InStep
<1>6. RowsAreLive'
  <2> DEFINE Live(q, i, old) ==
        LET p == ProviderOrder[i] IN
        /\ since[q][p].load <= old.load /\ old.load <= table[p].load
        /\ old.load = since[q][p].load => old = since[q][p]
        /\ old.load = table[p].load => old = table[p]
  <2>1. \A q \in Clients : \A i \in DOMAIN rows[q] : Live(q, i, rows[q][i])
    BY DEF CloudInv, ReadersOK, RowsAreLive
  <2>2. Live(r, n, row)
    <3>1. /\ since[r][ProviderOrder[n]].load <= row.load
          /\ since[r][ProviderOrder[n]].load = row.load => since[r][ProviderOrder[n]] = row
      BY <1>1 DEF CloudInv, ReadersOK, Behind, row
    <3>2. row.load <= row.load /\ row = table[ProviderOrder[n]]
      BY <1>2 DEF Rows, row
    <3> QED
      BY <3>1, <3>2
  <2> HIDE DEF Live
  <2>3. ASSUME NEW q \in Clients, NEW i \in DOMAIN rows'[q] PROVE Live(q, i, rows'[q][i])
    <3>1. CASE q # r
      BY <1>3, <2>1, <2>3, <3>1
    <3>2. CASE q = r /\ i = n
      BY <1>4, <2>2, <3>2
    <3>3. CASE q = r /\ i # n
      <4>1. i \in 1 .. n - 1
        BY <1>4, <2>3, <3>3
      <4> QED
        BY <1>1, <1>4, <2>1, <3>3, <4>1
    <3> QED
      BY <3>1, <3>2, <3>3
  <2> QED
    BY <2>3 DEF RowsAreLive, Live
<1>7. RowsInOrder'
  <2>1. ASSUME NEW i \in 1 .. n - 1 PROVE rows[r][i].load <= row.load + 1
    <3>1. ProviderOrder[i] \in Providers /\ rows[r][i] \in Rows
      BY <1>1, <1>4 DEF n
    <3>2. rows[r][i].load <= table[ProviderOrder[i]].load
      BY <1>1, <1>4 DEF CloudInv, ReadersOK, RowsAreLive
    <3>3. table[ProviderOrder[i]].load <= row.load + 1 /\ table[ProviderOrder[i]].load \in Nat
      BY <1>1, <3>1, LoadsClose DEF CloudInv, row
    <3>4. rows[r][i].load \in Nat /\ row.load \in Nat
      BY <1>2, <3>1 DEF Rows
    <3> QED
      BY <3>2, <3>3, <3>4
  <2>2. ASSUME NEW q \in Clients, NEW i \in DOMAIN rows'[q], NEW j \in DOMAIN rows'[q], i < j
        PROVE  rows'[q][i].load <= rows'[q][j].load + 1
    <3>1. CASE q # r
      BY <1>3, <2>2, <3>1 DEF CloudInv, ReadersOK, RowsInOrder
    <3>2. CASE q = r /\ j = n
      BY <1>4, <2>1, <2>2, <3>2
    <3>3. CASE q = r /\ j # n
      <4>1. i \in 1 .. n - 1 /\ j \in 1 .. n - 1
        BY <1>4, <2>2, <3>3
      <4>2. rows[r][i].load <= rows[r][j].load + 1
        BY <1>1, <1>4, <2>2, <4>1 DEF CloudInv, ReadersOK, RowsInOrder
      <4> QED
        BY <1>4, <3>3, <4>1, <4>2
    <3> QED
      BY <3>1, <3>2, <3>3
  <2> QED
    BY <2>2 DEF RowsInOrder
<1>8. ReadersOK'
  <2>1. \A q \in Clients : Len(rows'[q]) <= Len(ProviderOrder)
    BY <1>1, <1>3, <1>4 DEF CloudInv, ReadersOK
  <2> QED
    BY <1>3, <1>6, <1>7, <2>1 DEF CloudInv, ReadersOK, Behind
<1>9. Unread'
  BY <1>1, <1>3, HostAssumption DEF CloudInv, Unread
<1> QED
  BY <1>5, <1>8, <1>9 DEF CloudInv

(* A request never goes back to where it came from.                        *)
LEMMA Moves ==
  ASSUME NEW r \in Requests, Step(r)
  PROVE  \/ at[r] = "status" /\ UNCHANGED at
         \/ \E l \in Labels \ {"wire"} : Go(r, l)
<1> USE DEF Labels, Passing
<1>1. ASSUME NEW answer, NEW itsLane, NEW passes, Composes(r, answer, itsLane, passes)
      PROVE  Go(r, "process") \/ Go(r, "closed")
  BY <1>1 DEF Composes
<1>2. CASE Accept(r)
  BY <1>2 DEF Accept
<1>3. CASE Dispatch(r)
  BY <1>3 DEF Dispatch, Status, SimpleCall, AdvancedCall, Answers200, Enters
<1>4. CASE ServesStatus(r)
  BY <1>4 DEF ServesStatus, Answers200
<1>5. CASE Screen(r)
  BY <1>1, <1>5 DEF Screen, Blocks
<1>6. CASE CloudAndDetection(r)
  BY <1>1, <1>6 DEF CloudAndDetection, Blocks
<1>7. CASE CallInner(r)
  BY <1>1, <1>7 DEF CallInner
<1>8. CASE GuardStep(r)
  <2>1. CASE Process(r) \/ Emit(r)
    BY <2>1 DEF Process, Emit
  <2>2. CASE Modify(r)
    BY <2>2 DEF Modify, Returns, Panics
  <2>3. CASE OnError(r)
    BY <2>3 DEF OnError
  <2>4. CASE Apply(r)
    BY <2>4 DEF Apply
  <2> QED
    BY <1>8, <2>1, <2>2, <2>3, <2>4 DEF GuardStep, PassStep
<1> QED
  BY <1>2, <1>3, <1>4, <1>5, <1>6, <1>7, <1>8 DEF Step

(* What a request does away from the table leaves the readers alone.       *)
LEMMA AwayKeeps ==
  ASSUME CloudInv, UNCHANGED cloudVars, at' \in [Requests -> Labels],
         \A q \in Requests : at'[q] = "wire" => at[q] = "wire"
  PROVE  CloudInv'
<1>1. UNCHANGED <<table, inFlight, accepted, since, rows>>
  BY DEF cloudVars, tableVars, readerVars
<1>2. TableOK'
  BY <1>1 DEF CloudInv, TableOK, InStep
<1>3. ReadersOK'
  BY <1>1 DEF CloudInv, ReadersOK, Behind, RowsAreLive, RowsInOrder
<1>4. Unread'
  BY <1>1 DEF CloudInv, Unread
<1> QED
  BY <1>2, <1>3, <1>4 DEF CloudInv

(* Every step of a request keeps the invariant of the ranges.              *)
LEMMA StepKeepsCloud ==
  ASSUME CloudInv, NEW r \in Requests, Step(r)
  PROVE  CloudInv'
<1>1. /\ at' \in [Requests -> Labels]
      /\ \A q \in Requests : at'[q] = "wire" => at[q] = "wire"
      /\ \A q \in Requests \ {r} : at'[q] = at[q]
      /\ at[r] # "wire" => at'[r] # "wire"
  BY Moves DEF CloudInv, Unread, Go
<1>2. CASE Accept(r)
  BY <1>2, ComesKeeps DEF Accept
<1>3. CASE ServesStatus(r) /\ ReadRow(r)
  <2>1. at[r] # "wire"
    BY <1>3 DEF ServesStatus
  <2> QED
    BY <1>1, <1>3, <2>1, RowReadKeeps DEF ReadRow, tableVars
<1>4. CASE ServesStatus(r) /\ ReadGeo(r)
  <2>1. UNCHANGED <<table, inFlight, accepted, since, rows>>
    BY <1>4 DEF ReadGeo, tableVars
  <2>2. TableOK'
    BY <2>1 DEF CloudInv, TableOK, InStep
  <2>3. ReadersOK' /\ Unread'
    BY <1>1, <2>1 DEF CloudInv, ReadersOK, Behind, RowsAreLive, RowsInOrder, Unread
  <2> QED
    BY <2>2, <2>3 DEF CloudInv
<1>5. CASE CloudAndDetection(r) /\ Consults(r)
  <2>1. /\ at[r] # "wire" /\ rows[r] = <<>> /\ r \in Clients
        /\ UNCHANGED <<table, inFlight, accepted, since>>
        /\ rows' = [rows EXCEPT ![r] = <<table[ProviderOrder[1]]>>]
    BY <1>5, HostAssumption DEF CloudAndDetection, Consults, tableVars
  <2>2. RowsLeft(r)
    <3>1. Len(ProviderOrder) \in Nat /\ Len(ProviderOrder) # 0
      BY CloudAssumption
    <3> QED
      BY <2>1, <3>1 DEF RowsLeft
  <2>3. Append(rows[r], table[ProviderOrder[Len(rows[r]) + 1]]) = <<table[ProviderOrder[1]]>>
    BY <2>1
  <2>4. rows' = [rows EXCEPT ![r] = Append(@, table[ProviderOrder[Len(@) + 1]])]
    BY <2>1, <2>3
  <2> QED
    BY <1>1, <2>1, <2>2, <2>4, RowReadKeeps
<1>6. CASE UNCHANGED cloudVars
  BY <1>1, <1>6, AwayKeeps
<1>7. CASE GuardStep(r) \/ Dispatch(r) \/ Screen(r) \/ CallInner(r)
  BY <1>6, <1>7 DEF GuardStep, Dispatch, Screen, CallInner
<1>8. CASE CloudAndDetection(r)
  BY <1>5, <1>6, <1>8 DEF CloudAndDetection
<1>9. CASE ServesStatus(r)
  BY <1>3, <1>4, <1>6, <1>9 DEF ServesStatus
<1> QED
  BY <1>2, <1>7, <1>8, <1>9 DEF Step

(* The invariant of the ranges holds throughout.                           *)
LEMMA CloudInductive == Spec => []CloudInv
<1>1. Init => CloudInv
  <2> SUFFICES ASSUME Init PROVE CloudInv
    OBVIOUS
  <2>1. NoRow \in Rows /\ NoRow.load = 0 /\ MaxRefreshes \in Nat
    BY CloudAssumption DEF NoRow, Rows
  <2>2. TableOK
    BY <2>1 DEF Init, CloudInit, TableOK, InStep
  <2>3. ReadersOK
    <3>1. Len(ProviderOrder) \in Nat
      BY CloudAssumption
    <3>2. /\ since \in [Clients -> [Providers -> Rows]] /\ rows \in [Clients -> Seq(Rows)]
          /\ \A r \in Clients : rows[r] = <<>> /\ since[r] = table
      BY <2>1 DEF Init, CloudInit
    <3>3. \A r \in Clients : Len(rows[r]) <= Len(ProviderOrder) /\ DOMAIN rows[r] = {}
      BY <3>1, <3>2
    <3>4. \A p \in Providers : table[p].load <= table[p].load
      BY <2>1 DEF Init, CloudInit
    <3> QED
      BY <3>2, <3>3, <3>4 DEF ReadersOK, Behind, RowsAreLive, RowsInOrder
  <2>4. Unread
    BY HostAssumption DEF Init, CloudInit, Unread, Labels
  <2> QED
    BY <2>2, <2>3, <2>4 DEF CloudInv
<1>2. CloudInv /\ [Next]_vars => CloudInv'
  <2> SUFFICES ASSUME CloudInv, [Next]_vars PROVE CloudInv'
    OBVIOUS
  <2>1. CASE UNCHANGED <<at, cloudVars>>
    BY <2>1, AwayKeeps DEF CloudInv, Unread
  <2>2. CASE Next
    <3>1. CASE \E r \in Requests : Step(r) /\ UNCHANGED fixed
      BY <3>1, StepKeepsCloud
    <3>2. CASE BackgroundStep /\ UNCHANGED fixed
      BY <3>2, ScheduleKeeps, SwapKeeps DEF BackgroundStep, Background
    <3>3. CASE Finished
      BY <2>1, <3>3 DEF Finished, vars
    <3> QED
      BY <2>2, <3>1, <3>2, <3>3 DEF Next
  <2> QED
    BY <2>1, <2>2 DEF vars
<1> QED
  BY <1>1, <1>2, PTL DEF Spec

(* Each row read is one the table had while the reader was there.          *)
THEOREM RowsStayLive == Spec => []RowsAreLive
<1>1. CloudInv => RowsAreLive
  BY DEF CloudInv, ReadersOK
<1> QED
  BY <1>1, CloudInductive, PTL

(* Of two rows of a document the later is one load behind at most.         *)
THEOREM RowsStayOrdered == Spec => []RowsInOrder
<1>1. CloudInv => RowsInOrder
  BY DEF CloudInv, ReadersOK
<1> QED
  BY <1>1, CloudInductive, PTL

(* The variables keep their types, and no answer takes more passes than    *)
(* the two of the gate's denial.                                           *)
THEOREM AppTypeCorrect == Spec => []TypeOK
<1>1. PassInv /\ CloudInv => TypeOK
  BY HostAssumption DEF PassInv, PassTypes, Own, Called, CloudInv, TableOK, ReadersOK, TypeOK
<1> QED
  BY <1>1, PassInductive, CloudInductive, PTL
-----------------------------------------------------------------------------
(* The two trees.                                                          *)

\* A request of the admin prefix, from the dispatcher on.
Strict(r) ==
  app = "advanced" /\ visit[r].path \in AdminPaths =>
    /\ at[r] # "status"
    /\ at[r] \notin {"wire", "ready"} => tree[r] = "admin"
    /\ at[r] = "inner" \/ base[r].body = "passthrough" => visit[r].score < ThresholdOf("admin")

AdminInv == visit \in [Requests -> VisitSpace] /\ \A r \in Requests : Strict(r)

(* The threshold the example computes is no higher than the general one.   *)
LEMMA AdminIsNat ==
  /\ AdminThreshold \in Nat
  /\ Override = None => AdminThreshold <= Threshold
  BY HostAssumption DEF AdminThreshold

(* A step of another request, or one of the background, changes nothing.   *)
LEMMA OthersStrict ==
  ASSUME NEW q, Strict(q), UNCHANGED <<app, visit>>,
         at'[q] = at[q], tree'[q] = tree[q], base'[q] = base[q]
  PROVE  Strict(q)'
  BY DEF Strict, ThresholdOf, AdminThreshold

(* An answer is the guard's own, or comes from behind the detection.       *)
LEMMA ComposeStrict ==
  ASSUME PassInv, NEW r \in Requests, Strict(r), at[r] \notin {"wire", "ready"},
         NEW answer, NEW itsLane, NEW passes,
         Composes(r, answer, itsLane, passes), UNCHANGED <<app, visit, tree>>,
         at[r] = "inner" \/ answer.body = "generated"
  PROVE  Strict(r)'
<1>1. base'[r] = answer /\ at'[r] \in {"process", "closed"}
  BY DEF Composes, Go, PassInv, PassTypes
<1> QED
  BY <1>1 DEF Strict, ThresholdOf, AdminThreshold

(* A step of one request leaves the others where they are.                 *)
LEMMA OthersUntouched ==
  ASSUME PassInv, NEW r \in Requests, NEW q \in Requests \ {r}, Step(r)
  PROVE  at'[q] = at[q] /\ tree'[q] = tree[q] /\ base'[q] = base[q]
<1> USE DEF PassInv, PassTypes
<1>1. at'[q] = at[q]
  BY Moves DEF Go
<1>2. tree'[q] = tree[q]
  BY DEF Step, Accept, Dispatch, Status, SimpleCall, AdvancedCall, Enters, ServesStatus,
         Screen, CloudAndDetection, CallInner, GuardStep
<1>3. base'[q] = base[q]
  <2>1. ASSUME NEW answer, NEW itsLane, NEW passes, Composes(r, answer, itsLane, passes)
        PROVE  base'[q] = base[q]
    BY <2>1 DEF Composes
  <2>2. Answers200(r) \/ UNCHANGED passVars => base'[q] = base[q]
    BY DEF Answers200, passVars
  <2>3. CASE Accept(r) \/ Dispatch(r) \/ ServesStatus(r)
    BY <2>2, <2>3 DEF Accept, Dispatch, Status, SimpleCall, AdvancedCall, Enters, ServesStatus
  <2>4. CASE Screen(r) \/ CloudAndDetection(r) \/ CallInner(r)
    BY <2>1, <2>2, <2>4 DEF Screen, CloudAndDetection, CallInner, Blocks
  <2>5. CASE GuardStep(r)
    BY <2>2, <2>5 DEF GuardStep, PassStep, Process, Emit, Modify, OnError, Apply
  <2> QED
    BY <2>3, <2>4, <2>5 DEF Step
<1> QED
  BY <1>1, <1>2, <1>3

(* Every step of a request keeps it as strict.                             *)
LEMMA StepKeepsStrict ==
  ASSUME PassInv, visit \in [Requests -> VisitSpace],
         NEW r \in Requests, Strict(r), Step(r), UNCHANGED fixed
  PROVE  Strict(r)'
<1> USE DEF Go
<1>0. /\ at \in [Requests -> Labels] /\ tree \in [Requests -> Trees]
      /\ base \in [Requests -> Replies] /\ UNCHANGED <<app, visit>>
  BY DEF PassInv, PassTypes, fixed
<1>1. CASE Accept(r)
  BY <1>0, <1>1 DEF Accept, Strict, ThresholdOf, AdminThreshold, passVars
<1>2. CASE Dispatch(r)
  <2> SUFFICES ASSUME app = "advanced", visit[r].path \in AdminPaths PROVE Strict(r)'
    BY <1>0 DEF Strict
  <2>1. at[r] = "ready" /\ AdminPath(visit[r].path)
        /\ visit[r].path \notin {"/health", "/_guard/status"}
    BY <1>2 DEF Dispatch, AdminPath, AdminPaths
  <2>2. Enters(r, "admin")
    BY <1>2, <2>1 DEF Dispatch, Status, AdvancedCall
  <2>3. tree'[r] = "admin" /\ at'[r] = "screen" /\ base'[r] = base[r]
    BY <1>0, <2>2 DEF Enters, passVars
  <2> QED
    BY <1>0, <2>1, <2>3 DEF Strict, ThresholdOf, AdminThreshold
<1>3. CASE ServesStatus(r)
  BY <1>0, <1>3 DEF ServesStatus, Strict
<1>4. CASE Screen(r)
  <2>1. at[r] = "screen" /\ UNCHANGED <<app, visit, tree>>
    BY <1>0, <1>4 DEF Screen
  <2>2. ASSUME NEW status, NEW passes, Blocks(r, status, passes) PROVE Strict(r)'
    BY <2>1, <2>2, ComposeStrict DEF Blocks, Generated
  <2>3. CASE Go(r, "cloud") /\ UNCHANGED passVars
    BY <1>0, <2>1, <2>3 DEF Strict, ThresholdOf, AdminThreshold, passVars
  <2> QED
    BY <1>4, <2>2, <2>3 DEF Screen
<1>5. CASE CloudAndDetection(r)
  <2>1. at[r] = "cloud" /\ UNCHANGED <<app, visit, tree>>
    BY <1>0, <1>5 DEF CloudAndDetection
  <2>2. ASSUME NEW status, NEW passes, Blocks(r, status, passes) PROVE Strict(r)'
    BY <2>1, <2>2, ComposeStrict DEF Blocks, Generated
  <2>3. CASE ~(visit[r].score >= ThresholdOf(tree[r])) /\ Go(r, "inner") /\ UNCHANGED passVars
    <3>1. at'[r] = "inner" /\ base'[r] = base[r]
      BY <1>0, <2>3 DEF passVars
    <3>2. app = "advanced" /\ visit[r].path \in AdminPaths =>
            visit[r].score < ThresholdOf("admin")
      <4> SUFFICES ASSUME app = "advanced", visit[r].path \in AdminPaths
                   PROVE  visit[r].score < ThresholdOf("admin")
        OBVIOUS
      <4>1. tree[r] = "admin"
        BY <2>1 DEF Strict
      <4> QED
        BY <2>3, <4>1, AdminIsNat DEF ThresholdOf, VisitSpace
    <3> QED
      BY <2>1, <3>1, <3>2 DEF Strict, ThresholdOf, AdminThreshold
  <2> QED
    BY <1>5, <2>2, <2>3 DEF CloudAndDetection
<1>6. CASE CallInner(r)
  BY <1>0, <1>6, ComposeStrict DEF CallInner
<1>7. CASE GuardStep(r)
  <2>1. at[r] \in Passing /\ at'[r] \in Passing \cup {"closed", "escaped"}
        /\ UNCHANGED <<base, tree>>
    <3>1. CASE Process(r) \/ Emit(r)
      BY <1>0, <1>7, <3>1 DEF GuardStep, Process, Emit, Passing
    <3>2. CASE Modify(r)
      BY <1>0, <1>7, <3>2 DEF GuardStep, Modify, Returns, Panics, Passing
    <3>3. CASE OnError(r)
      BY <1>0, <1>7, <3>3 DEF GuardStep, OnError, Passing, passVars
    <3>4. CASE Apply(r)
      BY <1>0, <1>7, <3>4 DEF GuardStep, Apply, Passing
    <3> QED
      BY <1>7, <3>1, <3>2, <3>3, <3>4 DEF GuardStep, PassStep
  <2> QED
    BY <1>0, <2>1 DEF Strict, ThresholdOf, AdminThreshold, Passing
<1> QED
  BY <1>1, <1>2, <1>3, <1>4, <1>5, <1>6, <1>7 DEF Step

(* Whatever the admin prefix catches is screened by the admin tree.        *)
THEOREM AdminStricter == Spec => []AdminScreensHarder
<1>1. Init => AdminInv
  <2> SUFFICES ASSUME Init PROVE AdminInv
    OBVIOUS
  <2>1. visit \in [Requests -> VisitSpace]
    BY HostAssumption DEF Init
  <2>2. \A r \in Requests : at[r] = "wire" /\ base[r].body = "generated"
    BY DEF Init, PassInit, Blank
  <2> QED
    BY <2>1, <2>2 DEF AdminInv, Strict
<1>2. PassInv /\ AdminInv /\ [Next]_vars => AdminInv'
  <2> SUFFICES ASSUME PassInv, AdminInv, [Next]_vars PROVE AdminInv'
    OBVIOUS
  <2>1. CASE UNCHANGED <<app, visit, at, tree, base>>
    BY <2>1, OthersStrict DEF AdminInv
  <2>2. ASSUME NEW r \in Requests, Step(r), UNCHANGED fixed PROVE AdminInv'
    <3>1. visit' = visit /\ app' = app
      BY <2>2 DEF fixed
    <3>2. Strict(r)'
      BY <2>2, StepKeepsStrict DEF AdminInv
    <3>3. ASSUME NEW q \in Requests \ {r} PROVE Strict(q)'
      <4>1. at'[q] = at[q] /\ tree'[q] = tree[q] /\ base'[q] = base[q]
        BY <2>2, <3>3, OthersUntouched
      <4> QED
        BY <3>1, <3>3, <4>1, OthersStrict DEF AdminInv
    <3> QED
      BY <3>1, <3>2, <3>3 DEF AdminInv
  <2>3. CASE BackgroundStep /\ UNCHANGED fixed
    BY <2>1, <2>3 DEF BackgroundStep, fixed, passVars
  <2>4. CASE Finished
    BY <2>1, <2>4 DEF Finished, vars, fixed, passVars
  <2> QED
    BY <2>1, <2>2, <2>3, <2>4 DEF Next, vars, fixed, passVars
<1>3. AdminInv => AdminScreensHarder
  <2> SUFFICES ASSUME AdminInv, app = "advanced", NEW r \in Requests,
                      visit[r].path \in AdminPaths, base[r].body = "passthrough"
               PROVE  /\ visit[r].score < ThresholdOf("admin")
                      /\ Override = None => visit[r].score < Threshold
    BY DEF AdminScreensHarder
  <2>1. visit[r].score \in Nat /\ visit[r].score < AdminThreshold
    BY DEF AdminInv, Strict, ThresholdOf, VisitSpace
  <2>2. Threshold \in Nat
    BY HostAssumption
  <2> QED
    BY <2>1, <2>2, AdminIsNat DEF ThresholdOf
<1> QED
  BY <1>1, <1>2, <1>3, PassInductive, PTL DEF Spec
=============================================================================
