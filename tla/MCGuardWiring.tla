---------------------------- MODULE MCGuardWiring ----------------------------
(* Hosts of GuardWiring: two services, and configs with each knob by       *)
(* itself, in both modes, and the combinations whose order matters.        *)
EXTENDS GuardWiring, TLC

CONSTANTS s1, s2

Plain ==
  [inspect_bytes |-> 2, passive_mode |-> FALSE, enable_penetration_detection |-> TRUE,
   ip_lists |-> "none", rate_limiting |-> "none", enable_ip_banning |-> FALSE,
   emergency_mode |-> FALSE, emergency_whitelist |-> "none", hooks |-> {},
   exclusions |-> FALSE, detection_scan_body |-> TRUE,
   log_request_level |-> None, log_suspicious_level |-> None,
   log_country_check_level |-> None, blocked_user_agents |-> "none",
   security_headers |-> FALSE, enable_cors |-> FALSE, behavior_rules |-> FALSE]

Full ==
  [Plain EXCEPT !.ip_lists = "valid", !.rate_limiting = "valid",
                !.enable_ip_banning = TRUE, !.emergency_mode = TRUE,
                !.blocked_user_agents = "valid", !.enable_cors = TRUE]

OneKnob ==
  {[Plain EXCEPT !.ip_lists = e] : e \in Entries} \cup
  {[Plain EXCEPT !.rate_limiting = e] : e \in Entries} \cup
  {[Plain EXCEPT !.emergency_whitelist = e] : e \in Entries} \cup
  {[Plain EXCEPT !.blocked_user_agents = e] : e \in Entries} \cup
  {[Plain EXCEPT !.emergency_mode = TRUE], [Plain EXCEPT !.security_headers = TRUE],
   [Plain EXCEPT !.enable_penetration_detection = FALSE],
   [Plain EXCEPT !.exclusions = TRUE], [Plain EXCEPT !.detection_scan_body = FALSE],
   [Plain EXCEPT !.log_country_check_level = "info"],
   [Plain EXCEPT !.hooks = {"on_block"}, !.log_suspicious_level = "warning"],
   [Full EXCEPT !.blocked_user_agents = "invalid"],
   [Full EXCEPT !.emergency_whitelist = "invalid"],
   Full}

InBothModes == {[c EXCEPT !.passive_mode = on] : c \in OneKnob, on \in BOOLEAN}

\* What the claim is about: the one field set, with and without a list.
ScanBodyConfigs ==
  {[Plain EXCEPT !.detection_scan_body = FALSE, !.exclusions = on] : on \in BOOLEAN}

SlotSymmetry == Permutations(Slots)
=============================================================================
