---------------------------- MODULE ResponsePass ----------------------------
(***************************************************************************)
(* apply_response_processor (src/src/service.rs) over one answer: the      *)
(* processor's headers, the event that announces them, the host's response *)
(* modifier and its on_error hook, and what of all that reaches the        *)
(* answer.  The two closures are the host's: each may return or panic, and *)
(* the modifier may leave anything in the view it is given, under any name.*)
(* An answer has a set of values under each name, the view one at most.    *)
(***************************************************************************)
EXTENDS Naturals

CONSTANTS
  Requests,
  Trees,      \* guarded services of the application, one layer each
  Wirings,    \* how their layers may be wired: one WiringSpace per tree
  Edits,      \* statuses a modifier writes into the view, valid or not
  Rewrites    \* what it writes there, header by header

WiringSpace ==
  [processor : BOOLEAN,    \* with_response_processor
   headers : BOOLEAN,      \* its security headers, enabled
   bus : BOOLEAN,          \* with_events
   modifier : BOOLEAN,     \* with_custom_response_modifier
   on_error : BOOLEAN]     \* with_on_error

\* Headers only the answer has (Set-Cookie, Content-Type), those of the
\* security set and those of the CORS verdict.
Names == {"own", "security", "cors"}

\* "malformed" stands for a value, or a name, that HTTP does not have.
Entries == {"absent", "processor", "modifier", "malformed"}

ASSUME PassAssumption ==
  /\ Wirings \subseteq [Trees -> WiringSpace] /\ Edits \subseteq Nat
  /\ Rewrites \subseteq [Names -> {"kept", "absent", "modifier", "malformed"}]

VARIABLES
  wiring,   \* of each tree: never changes
  at,       \* where a request is
  tree,     \* the tree it went to
  lane,     \* ResponseLane of its answer
  rounds,   \* passes its answer has ahead of it
  base,     \* the answer as it was composed
  reply,    \* the answer as it stands
  view,     \* ResponseBits: status and headers of the pass
  events,   \* security_headers_applied events sent for it
  edited,   \* times the modifier returned
  raised    \* times the modifier panicked

passVars == <<lane, rounds, base, reply, view, events, edited, raised>>

\* StatusCode::from_u16.
ValidStatus(status) == status \in 100 .. 999

Values == {"first", "second", "processor", "modifier"}
Bits == [status : Nat, headers : [Names -> Entries]]
Replies == [status : Nat, headers : [Names -> SUBSET Values],
            body : {"passthrough", "generated"}]

\* No answer yet, and no view before the pass.
Blank == [status |-> 0, headers |-> [n \in Names |-> {}], body |-> "generated"]
NoBits == [status |-> 0, headers |-> [n \in Names |-> "absent"]]

Passing == {"process", "event", "modify", "on_error", "apply"}

PassInit ==
  /\ wiring \in Wirings
  /\ lane = [r \in Requests |-> "generated"]
  /\ rounds = [r \in Requests |-> 0]
  /\ base = [r \in Requests |-> Blank]
  /\ reply = [r \in Requests |-> Blank]
  /\ view = [r \in Requests |-> NoBits]
  /\ events = [r \in Requests |-> 0]
  /\ edited = [r \in Requests |-> 0]
  /\ raised = [r \in Requests |-> 0]

Wired(r) == wiring[tree[r]]
Go(r, label) == at' = [at EXCEPT ![r] = label]
-----------------------------------------------------------------------------
\* The inner service's answer, which may have a header twice and one of the
\* security set of its own.
Forwarded(status) ==
  [status |-> status, body |-> "passthrough",
   headers |-> [n \in Names |-> CASE n = "own" -> {"first", "second"}
                                  [] n = "security" -> {"first"}
                                  [] n = "cors" -> {}]]

\* The plain text shape of response.rs.
Generated(status) ==
  [status |-> status, body |-> "generated",
   headers |-> [n \in Names |-> IF n = "own" THEN {"first"} ELSE {}]]

\* An answer is composed; without a processor there is no pass.
Composes(r, answer, itsLane, passes) ==
  /\ base' = [base EXCEPT ![r] = answer]
  /\ reply' = [reply EXCEPT ![r] = answer]
  /\ lane' = [lane EXCEPT ![r] = itsLane]
  /\ rounds' = [rounds EXCEPT ![r] = IF Wired(r).processor THEN passes ELSE 0]
  /\ Go(r, IF Wired(r).processor /\ passes > 0 THEN "process" ELSE "closed")
  /\ UNCHANGED <<view, events, edited, raised>>

\* processor.process: the view starts without the answer's own headers.
Process(r) ==
  /\ at[r] = "process"
  /\ view' = [view EXCEPT ![r] =
                [status |-> reply[r].status,
                 headers |-> [n \in Names |->
                   IF n = "cors" \/ (n = "security" /\ Wired(r).headers)
                     THEN "processor" ELSE "absent"]]]
  /\ Go(r, "event")
  /\ UNCHANGED <<lane, rounds, base, reply, events, edited, raised>>

\* Mutant: the lane is not asked.
EmitOnAnyLane(r) ==
  /\ at[r] = "event"
  /\ events' = IF Wired(r).headers /\ Wired(r).bus THEN [events EXCEPT ![r] = @ + 1] ELSE events
  /\ Go(r, "modify")
  /\ UNCHANGED <<lane, rounds, base, reply, view, edited, raised>>

\* emit_headers_applied_event.
Emit(r) ==
  /\ at[r] = "event"
  /\ events' = IF lane[r] = "forwarded" /\ Wired(r).headers /\ Wired(r).bus
                 THEN [events EXCEPT ![r] = @ + 1] ELSE events
  /\ Go(r, "modify")
  /\ UNCHANGED <<lane, rounds, base, reply, view, edited, raised>>

\* What a modifier may make of the view it is lent: it may write or take away
\* any header of it, one the answer has under that name or not.
Edited(bits) ==
  [status : {bits.status} \cup Edits,
   headers : {[n \in Names |-> IF w[n] = "kept" THEN bits.headers[n] ELSE w[n]] : w \in Rewrites}]

Returns(r) ==
  /\ \E bits \in Edited(view[r]) : view' = [view EXCEPT ![r] = bits]
  /\ edited' = [edited EXCEPT ![r] = @ + 1]
  /\ Go(r, "apply")
  /\ UNCHANGED raised

\* Mutant: what the modifier had written before it panicked stays.
PanicsDirty(r) ==
  /\ \E bits \in Edited(view[r]) : view' = [view EXCEPT ![r] = bits]
  /\ raised' = [raised EXCEPT ![r] = @ + 1]
  /\ Go(r, IF Wired(r).on_error THEN "on_error" ELSE "apply")
  /\ UNCHANGED edited

\* The clone taken before the call comes back.
Panics(r) ==
  /\ raised' = [raised EXCEPT ![r] = @ + 1]
  /\ Go(r, IF Wired(r).on_error THEN "on_error" ELSE "apply")
  /\ UNCHANGED <<view, edited>>

Modify(r) ==
  /\ at[r] = "modify"
  /\ \/ ~Wired(r).modifier /\ Go(r, "apply") /\ UNCHANGED <<view, edited, raised>>
     \/ Wired(r).modifier /\ Returns(r)
     \/ Wired(r).modifier /\ Panics(r)
  /\ UNCHANGED <<lane, rounds, base, reply, events>>

\* The hook runs outside the catch: its panic is the request's.
OnError(r) ==
  /\ at[r] = "on_error"
  /\ Go(r, "apply") \/ Go(r, "escaped")
  /\ UNCHANGED passVars

Lands(entry) == entry \notin {"absent", "malformed"}

\* Mutant: the headers of the view are appended, not inserted.
AppliedAppends(r) ==
  [reply[r] EXCEPT
     !.status = IF ValidStatus(view[r].status) THEN view[r].status ELSE @,
     !.headers = [n \in Names |-> IF Lands(view[r].headers[n])
                                    THEN @[n] \cup {view[r].headers[n]} ELSE @[n]]]

\* A header of the view takes the place of every value the answer has under
\* its name, whatever the status; a status nobody could send does not land.
Applied(r) ==
  [reply[r] EXCEPT
     !.status = IF ValidStatus(view[r].status) THEN view[r].status ELSE @,
     !.headers = [n \in Names |-> IF Lands(view[r].headers[n])
                                    THEN {view[r].headers[n]} ELSE @[n]]]

\* Mutant: one more round than the answer has ahead of it.
ApplyOnceMore(r) ==
  /\ at[r] = "apply"
  /\ reply' = [reply EXCEPT ![r] = Applied(r)]
  /\ rounds' = [rounds EXCEPT ![r] = @ - 1]
  /\ Go(r, IF rounds[r] > 0 THEN "process" ELSE "closed")
  /\ UNCHANGED <<lane, base, view, events, edited, raised>>

\* The gate's denial goes round again, in finish_generated.
Apply(r) ==
  /\ at[r] = "apply"
  /\ reply' = [reply EXCEPT ![r] = Applied(r)]
  /\ rounds' = [rounds EXCEPT ![r] = @ - 1]
  /\ Go(r, IF rounds[r] > 1 THEN "process" ELSE "closed")
  /\ UNCHANGED <<lane, base, view, events, edited, raised>>

PassStep(r) == Process(r) \/ Emit(r) \/ Modify(r) \/ OnError(r) \/ Apply(r)
-----------------------------------------------------------------------------
\* What the processor puts under a name.
OfProcessor(n) == IF n = "own" THEN {} ELSE {{"processor"}}

(* Whatever a panicking modifier had done to the view is gone: an answer   *)
(* no modifier returned for is the composed one, but that the processor's  *)
(* headers may have replaced what it had under their names.                *)
PanicLeavesUnmodified ==
  \A r \in Requests :
    at[r] = "closed" /\ edited[r] = 0 =>
      /\ reply[r].status = base[r].status
      /\ \A n \in Names : reply[r].headers[n] \in {base[r].headers[n]} \cup OfProcessor(n)

(* One security_headers_applied event goes out for each forwarded answer   *)
(* the headers land on, and for no other answer: not for a block, however  *)
(* many passes its answer takes, and no second one after a panic.          *)
OneEventPerForward ==
  \A r \in Requests :
    at[r] \in {"closed", "escaped"} =>
      events[r] = IF /\ lane[r] = "forwarded" /\ Wired(r).processor
                     /\ Wired(r).headers /\ Wired(r).bus
                    THEN 1 ELSE 0

(* No modifier makes the guard send a status that is not one, touches the  *)
(* body, takes a header off the answer or doubles one: in whichever of the *)
(* passes, a name keeps every value the answer was composed with, or has   *)
(* the one the processor or a modifier that returned left in the view.     *)
AnswerSurvivesEdits ==
  \A r \in Requests :
    at[r] \in Passing \cup {"closed"} /\ base[r] # Blank =>
      /\ ValidStatus(reply[r].status)
      /\ reply[r].body = base[r].body
      /\ \A n \in Names :
           \/ reply[r].headers[n] \in {base[r].headers[n]} \cup OfProcessor(n)
           \/ reply[r].headers[n] = {"modifier"} /\ edited[r] > 0

(* lib.rs:1077: of the on_error hook, "A raising callback is caught and    *)
(* dropped, never propagated."  It is called outside the catch.            *)
HookNeverPropagates == \A r \in Requests : at[r] # "escaped"
=============================================================================
