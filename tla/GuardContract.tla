--------------------------- MODULE GuardContract ---------------------------
(***************************************************************************)
(* What a layer with a ban store promises the service it wraps, with no    *)
(* mention of the other checks: nobody is handed over unless the store was *)
(* consulted after the request arrived and held no ban on its address,     *)
(* nobody is turned away for a ban unless one was live at that moment, a   *)
(* request whose own conduct bans its address is dismissed with that very  *)
(* ban, and a decision stays.  GuardPipeline and StageChain implement it.  *)
(***************************************************************************)
CONSTANTS Requests, Ips

VARIABLES
  banned,    \* addresses under a live ban
  phase,     \* per request: open, cleared, handed, barred or dismissed
  subject,   \* per request, the address that sent it (or none)
  excused    \* requests whose route or layer asks for no ban check

contractVars == <<banned, phase, subject, excused>>

ContractStart ==
  /\ banned = {}
  /\ phase = [r \in Requests |-> "open"]

Move(r, from, to) == phase[r] \in from /\ phase' = [phase EXCEPT ![r] = to]

\* The store is consulted: no live ban on the address at this moment.
Clear(r) ==
  /\ r \in excused \/ subject[r] \notin banned
  /\ Move(r, {"open"}, "cleared")
  /\ UNCHANGED banned

\* The store is consulted and holds a ban: that is the answer.
Bar(r) ==
  /\ subject[r] \in banned
  /\ Move(r, {"open", "cleared"}, "barred")
  /\ UNCHANGED banned

HandOver(r) == Move(r, {"cleared"}, "handed") /\ UNCHANGED banned

\* Any other refusal, or the client went away.
Dismiss(r) == Move(r, {"open", "cleared"}, "dismissed") /\ UNCHANGED banned

BansItself(r) ==
  /\ Move(r, {"open", "cleared"}, "dismissed")
  /\ subject[r] \in Ips /\ banned' = banned \cup {subject[r]}

\* A rule over answers bans the address of a request already answered.
BannedByAnswer(r) ==
  /\ phase[r] \in {"handed", "barred", "dismissed"} /\ UNCHANGED phase
  /\ subject[r] \in Ips /\ banned' = banned \cup {subject[r]}

\* Outside the requests the store changes one address at a time.
OutOfBandBan ==
  /\ UNCHANGED phase
  /\ \E i \in Ips : banned' \in {banned \cup {i}, banned \ {i}}

ContractNext ==
  /\ \/ \E r \in Requests : \/ Clear(r) \/ Bar(r) \/ HandOver(r) \/ Dismiss(r)
                            \/ BansItself(r) \/ BannedByAnswer(r)
     \/ OutOfBandBan
  /\ UNCHANGED <<subject, excused>>

ContractSpec == ContractStart /\ [][ContractNext]_contractVars
=============================================================================
