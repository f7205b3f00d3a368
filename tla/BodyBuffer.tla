----------------------------- MODULE BodyBuffer -----------------------------
(***************************************************************************)
(* buffer_body (src/src/service.rs): the loop that pulls the frames of one *)
(* request body under the cap the route or the layer sets.  Each pull is   *)
(* an await, so the client decides what arrives next, how often, and       *)
(* whether anything arrives at all; a future dropped at the await drops    *)
(* the buffer with it.                                                     *)
(***************************************************************************)
EXTENDS Naturals

CONSTANTS
  LayerCap,     \* GuardLayer::body_cap
  RouteCaps,    \* values a route's max_request_size takes
  NoRouteCap,   \* the route (or the absence of a route) sets no cap
  MaxUsize,     \* usize::MAX of the target
  FrameSizes,   \* lengths of a data frame, 0 included if the client sends it
  MaxFrames     \* bound: frames one client sends

ASSUME CapAssumption ==
  /\ LayerCap \in Nat /\ MaxUsize \in Nat
  /\ RouteCaps \subseteq Nat /\ NoRouteCap \notin Nat
ASSUME FrameAssumption == FrameSizes \subseteq Nat /\ MaxFrames \in Nat

VARIABLES
  cap,        \* the resolved cap
  buffered,   \* buffered.len()
  offered,    \* bytes of every data frame pulled so far, kept or not
  frames,     \* frames pulled so far
  outcome     \* "pending" while the loop runs, then what it returned

vars == <<cap, buffered, offered, frames, outcome>>

Outcomes == {"pending", "empty", "body", "too_large", "read_error", "dropped"}

\* Mutant: the carrier's limit is taken as it is.
BodyCapUnchecked(routeCap) == routeCap

\* The route's limit replaces the layer's cap when it fits a usize.
BodyCap(routeCap) ==
  IF routeCap \in Nat /\ routeCap <= MaxUsize THEN routeCap ELSE LayerCap

Init ==
  /\ \E routeCap \in RouteCaps \cup {NoRouteCap} : cap = BodyCap(routeCap)
  /\ buffered = 0
  /\ offered = 0
  /\ frames = 0
  /\ outcome = "pending"

\* One turn of `while let Some(frame) = body.frame().await`.
Pull ==
  /\ outcome = "pending"
  /\ frames < MaxFrames
  /\ frames' = frames + 1

\* Mutant: the cap is compared before the frame is added.
FitsLate(n) == buffered <= cap

Fits(n) == buffered + n <= cap

\* Mutant: a frame over the cap is left out and reading goes on.
DataFrameTruncates(n) ==
  /\ Pull
  /\ offered' = offered + n
  /\ buffered' = IF Fits(n) THEN buffered + n ELSE buffered
  /\ UNCHANGED <<cap, outcome>>

DataFrame(n) ==
  /\ Pull
  /\ offered' = offered + n
  /\ \/ Fits(n) /\ buffered' = buffered + n /\ UNCHANGED outcome
     \/ ~Fits(n) /\ outcome' = "too_large" /\ UNCHANGED buffered
  /\ UNCHANGED cap

\* into_data fails on a trailers frame: the frame is discarded.
TrailersFrame ==
  /\ Pull
  /\ UNCHANGED <<cap, buffered, offered, outcome>>

FrameError ==
  /\ Pull
  /\ outcome' = "read_error"
  /\ UNCHANGED <<cap, buffered, offered>>

\* Mutant: an empty body is returned as a body.
EndOfStreamSome ==
  /\ outcome = "pending"
  /\ outcome' = "body"
  /\ UNCHANGED <<cap, buffered, offered, frames>>

EndOfStream ==
  /\ outcome = "pending"
  /\ outcome' = IF buffered = 0 THEN "empty" ELSE "body"
  /\ UNCHANGED <<cap, buffered, offered, frames>>

\* The server drops the request future at the await.
Dropped ==
  /\ outcome = "pending"
  /\ outcome' = "dropped"
  /\ UNCHANGED <<cap, buffered, offered, frames>>

Next ==
  \/ \E n \in FrameSizes : DataFrame(n)
  \/ TrailersFrame
  \/ FrameError
  \/ EndOfStream
  \/ Dropped

Spec == Init /\ [][Next]_vars
-----------------------------------------------------------------------------
(* The counters are naturals and the outcome is one buffer_body returns.   *)
TypeOK ==
  /\ cap \in Nat
  /\ buffered \in Nat
  /\ offered \in Nat
  /\ frames \in 0 .. MaxFrames
  /\ outcome \in Outcomes

(* What is scanned and handed on is all of what was sent: buffer_body      *)
(* returns a body only when no byte of it was left out, and as long as it  *)
(* reads it has kept every byte.                                           *)
NoTruncation ==
  outcome \in {"pending", "empty", "body"} => buffered = offered

(* One client cannot make the guard take in more than the cap and the one  *)
(* frame that crossed it, and of that it keeps no more than the cap.       *)
BoundedIntake ==
  /\ buffered <= cap
  /\ offered > cap => /\ outcome = "too_large"
                      /\ \E n \in FrameSizes : offered = buffered + n

Contract == INSTANCE BodyVerdict
              WITH sent <- offered, held <- buffered, verdict <- outcome

(* Frames, trailers and read errors make no difference to the promise the  *)
(* pipeline relies on: the loop implements the verdict over the bytes.     *)
ImplementsVerdict == Contract!VerdictSpec
=============================================================================
