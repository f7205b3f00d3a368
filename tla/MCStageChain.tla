---------------------------- MODULE MCStageChain ----------------------------
(* Instances of StageChain: every stage with and without its neighbours,   *)
(* and clients that meet one stage, two, or none.                          *)
EXTENDS StageChain, TLC

CONSTANTS a, r1, r2

\* All of them, passive or not, a few, and all but the two-headed one.
Active == Builders \ {"passive_mode"}

Neighbourhoods ==
  {Active, Builders, {"custom_checks", "geo"}, Active \ {"custom_checks"}}

Client(ip, gate, trips) == [ip |-> ip, gate |-> gate, trips |-> trips]

Clients ==
  {Client(ip, gate, {}) : ip \in {a, NoIp}, gate \in {"none", "exempt"}}
    \cup {Client(a, "none", {s, "custom_request"}) : s \in Stateless}
    \cup {Client(NoIp, "none", {"geo"}), Client(a, "whitelisted", {"cloud", "user_agent"})}

\* Requests are interchangeable: nothing orders or names them.
RequestSymmetry == Permutations(Requests)
=============================================================================
