---------------------------- MODULE MCScanHistory ----------------------------
(* One object: a ClusterScan, or one of either kind.                       *)
EXTENDS ScanHistory

MCNames == [o \in Owners |-> "nightly"]
MCKinds == [o \in Owners |-> IF o = "cluster" THEN {o} ELSE {"cluster", "cloud"}]
=============================================================================
