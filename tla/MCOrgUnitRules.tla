---------------------------- MODULE MCOrgUnitRules ----------------------------
(* Rules on two patterns, one of them in two cases, for two entities, one of  *)
(* the rules inactive; a caller that both patterns match and one that one does. *)
EXTENDS OrgUnitRules

CONSTANTS u1, u2, c1, c2

Lab == [unit |-> u1, pattern |-> "lab", active |-> TRUE]
LabCapital == [unit |-> u2, pattern |-> "LAB", active |-> TRUE]
Site == [unit |-> u2, pattern |-> "site", active |-> TRUE]
SiteOff == [unit |-> u1, pattern |-> "site", active |-> FALSE]

MCBodies == {Lab, LabCapital, Site, SiteOff}
MCFirst == <<Site, Lab>>
MCFold == [p \in {"lab", "LAB", "site"} |-> IF p = "LAB" THEN "lab" ELSE p]
MCClaims == [p \in {"lab", "site"} |-> IF p = "lab" THEN {c1} ELSE {c1, c2}]
=============================================================================
