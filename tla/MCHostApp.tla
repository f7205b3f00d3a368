----------------------------- MODULE MCHostApp -----------------------------
(* Two requests to an application of HostApp.                              *)
EXTENDS HostApp, TLC

CONSTANTS r1, r2, aws, gcp

Visit(path, meets, score) ==
  [path |-> path, method |-> IF path = "/echo" THEN "POST" ELSE "GET",
   meets |-> meets, score |-> score]

\* Every route by a clean client, one flagged on the admin tree only and one
\* flagged on both, and every outcome of the screening.
OneVisit ==
  {Visit("/", "nothing", 2), Visit("/admin/stats", "nothing", 0),
   Visit("/administrator", "nothing", 1), Visit("/health", "nothing", 0),
   Visit("/_guard/status", "nothing", 0)} \cup
  {Visit("/echo", meets, 0) : meets \in {"preflight", "gate", "read_error", "too_large", "cloud"}}

\* A guarded request shares nothing here but the ranges, so one of the two
\* has no guard over it.
AppVisits ==
  {visits \in [Requests -> OneVisit] :
     \E r \in Requests : visits[r].path \in {"/health", "/_guard/status"}}

\* Layers with everything, without the hook or the bus, and without a pass.
Full == [processor |-> TRUE, headers |-> TRUE, bus |-> TRUE, modifier |-> TRUE, on_error |-> TRUE]
Quiet == [Full EXCEPT !.on_error = FALSE, !.bus = FALSE]
Bare == [Full EXCEPT !.processor = FALSE]
Wire(general, admin) == [t \in Trees |-> IF t = "admin" THEN admin ELSE general]
AppWirings == {Wire(Full, Bare), Wire(Quiet, Full), Wire(Bare, Quiet)}

\* The view left alone, the answer's own header written and a CORS one taken
\* over, one written malformed and the others taken away, and a security
\* header taken over.
Writes(own, security, cors) ==
  [n \in Names |-> CASE n = "own" -> own [] n = "security" -> security [] n = "cors" -> cors]
AppRewrites ==
  {Writes("kept", "kept", "kept"), Writes("modifier", "kept", "modifier"),
   Writes("malformed", "absent", "absent"), Writes("kept", "modifier", "malformed")}

SecondFails == {<<aws, 2>>}
Order == <<aws, gcp>>
Both == {"general", "admin"}
Symmetry == Permutations(Requests)
=============================================================================
