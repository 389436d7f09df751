---------------------------- MODULE MCCorrelator ----------------------------
(* A small instance of Correlator for TLC: two resources, signals of three *)
(* severities, one of them an anomaly that names no policy.                *)
EXTENDS Correlator

Sig(r, s, p) == [resource |-> r, severity |-> s, policy |-> p, message |-> IF s = "info" THEN "probe" ELSE "escape"]

MCResources == {"web", "db"}
MCPolicies == {"p1", "none"}
MCMessages == {"probe", "escape"}
MCSignals == {Sig("web", "low", "p1"), Sig("web", "critical", "none"),
              Sig("db", "info", "p1")}
=============================================================================
