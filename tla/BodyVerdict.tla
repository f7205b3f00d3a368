---------------------------- MODULE BodyVerdict ----------------------------
(***************************************************************************)
(* What the rest of the pipeline relies on when it awaits buffer_body      *)
(* (src/src/service.rs): one verdict over the bytes the client sent, with  *)
(* no mention of frames.  A body within the cap is held whole, a body over *)
(* the cap is refused and never held, and an error of the stream is never  *)
(* mistaken for the end of the body.  BodyBuffer implements it.            *)
(***************************************************************************)
EXTENDS Naturals

VARIABLES
  cap,      \* the cap in force for this request
  sent,     \* bytes of body data the client has delivered so far
  held,     \* bytes the guard holds
  verdict   \* "pending" until the body is decided

bodyVars == <<cap, sent, held, verdict>>

BodyStart ==
  /\ cap \in Nat
  /\ sent = 0
  /\ held = 0
  /\ verdict = "pending"

\* More of the body arrives and the whole of it still fits.
Arrives ==
  /\ verdict' = "pending"
  /\ sent' \in Nat /\ sent' >= sent /\ sent' <= cap
  /\ held' = sent'

\* The body is over the cap: refused, and what is held is within the cap.
RefusedTooLarge ==
  /\ verdict' = "too_large"
  /\ sent' \in Nat /\ sent' > cap
  /\ held' = held

\* The stream ended: the guard holds exactly what the client sent.
Accepted ==
  /\ verdict' = IF sent = 0 THEN "empty" ELSE "body"
  /\ UNCHANGED <<sent, held>>

\* The stream failed, or the client went away: no verdict on the content.
Broken ==
  /\ verdict' \in {"read_error", "dropped"}
  /\ UNCHANGED <<sent, held>>

Decide ==
  /\ verdict = "pending"
  /\ Arrives \/ RefusedTooLarge \/ Accepted \/ Broken
  /\ UNCHANGED cap

VerdictSpec == BodyStart /\ [][Decide]_bodyVars
=============================================================================
