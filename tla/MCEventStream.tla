--------------------------- MODULE MCEventStream -----------------------------
EXTENDS EventStream

First == [scan |-> "s1", resources |-> <<"r1">>]
Other == [scan |-> "s2", resources |-> <<"r2", "r2">>]
Scenario == [scan |-> "s1", resources |-> <<"r1", "r2">>]

(* The GitOps repository keeps its manifests at its root, or under a path. *)
AtRoot == "r1" :> "r1"
UnderPath == "r1" :> "r2"

Alone(steps) == "p1" :> steps @@ "p2" :> <<>>
PresetEnabled(under) == PresetProposed("k1", First, under) \o demoAdvancePreset("k1", First)

(* A preset is proposed and merged, or the engine proposes a remediation   *)
(* while a scan starts.                                                    *)
MCWorkloads == {
  Alone(PresetEnabled(AtRoot)),
  "p1" :> RemediationProposed("k1", First) @@ "p2" :> ScanStarts}

(* What a panel may have to follow: a preset is proposed and merged, in    *)
(* either repository; the engine proposes anew on the same pull request;   *)
(* one remediation evicts another; or the demo goes through a remediation  *)
(* that is not complete.                                                   *)
MCPanels == {
  Alone(PresetEnabled(AtRoot)),
  Alone(PresetEnabled(UnderPath)),
  Alone(RemediationProposed("k1", First) \o RemediationProposed("k1", Other)),
  Alone(RemediationProposed("k1", First) \o RemediationProposed("k2", First)),
  Alone(fireSequence("k1", Scenario, 1))}
=============================================================================
