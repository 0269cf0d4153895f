--------------------------- MODULE MCDecisionStream ---------------------------
(* Small instances of DecisionStream for TLC. *)
EXTENDS DecisionStream

Finding(risk, category, details) ==
  [risk_score |-> risk, category |-> category, details |-> details]

\* Around every branch of decide_action for the policies below: 63 and 62 lie on the
\* two sides of floor(90 * 0.7), 55 and 54 on those of the challenge's constant.
MCBatches ==
  {<<Finding(100, "MODULE", {})>>,
   <<Finding(90, "HANDLE", {}), Finding(34, "", {})>>,
   <<Finding(90, "HANDLE", {}), Finding(36, "HANDLE", {})>>,
   <<Finding(55, "INJECTION", {}), Finding(-20, "TOKEN", {"h1"})>>,
   <<Finding(54, "INJECTION", {}), Finding(54, "HOOK", {})>>,
   <<Finding(10, "OVERLAY", {"h2"})>>}

MCPolicies ==
  [observe_only_default : BOOLEAN, kick_threshold : {70, 90}, ban_threshold : {98},
   known_bad_hashes : {{}, {"", "h1"}}]
=============================================================================
