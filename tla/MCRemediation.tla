---------------------------- MODULE MCRemediation ----------------------------
(* A small instance of RemediationPolicy: one resource with two findings   *)
(* in scope, on branches of their own, and one out of scope that shares a  *)
(* branch with the first; the branch of a preset; a policy that acts on p1 *)
(* and one that previews.                                                  *)
EXTENDS RemediationPolicy

MCSeverities == {"high", "low"}
MCOrder(s) == IF s = "high" THEN 4 ELSE 2
MCBranch(r, m) == m

Finding(s, p, m) == [resource |-> "web", severity |-> s, policy |-> p, message |-> m]
MCSignals == {Finding("high", "p1", "m1"), Finding("high", "p1", "m2"),
              Finding("low", "none", "m1")}

MCPolicySpec ==
  [p \in {"act", "preview"} |->
     IF p = "act"
     THEN [dryRun |-> FALSE, maxPRs |-> 2, minSeverity |-> "high", targets |-> {"p1"}]
     ELSE [dryRun |-> TRUE, maxPRs |-> 2, minSeverity |-> "low", targets |-> {}]]
=============================================================================
