---------------------------- MODULE GuardClaims ----------------------------
(***************************************************************************)
(* What the documentation and the comments of the repository say of the    *)
(* pipeline and the code does not do.  Each claim is quoted where it is    *)
(* stated; the run of the same name shows the disagreement.                *)
(***************************************************************************)
EXTENDS GuardProperties

(* docs/api.md:85-86: the inner service gets "a rebuilt request whose body *)
(* is byte-identical to what the client sent".  forward gets no body for   *)
(* an excluded path (service.rs:158-160) and sends an empty one.           *)
BodyReachesInner ==
  \A r \in Requests :
    Forwarded(r) => (inner[r] = "body" <=> shape[r].sends = "data")

(* docs/api.md:77: a later stage "must skip exactly what the reference     *)
(* skips for a whitelist match (is_whitelisted || is_exempt)".  The geo,   *)
(* cloud and user-agent arms are given the decision read before this       *)
(* layer's own gate ran (facts.gate).                                      *)
OwnSkipStateHonoured ==
  \A r \in Requests :
    gate[r] \in Skipping => answer[r] \notin SkippableChecks
=============================================================================
