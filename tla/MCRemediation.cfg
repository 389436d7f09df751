SPECIFICATION Spec
CONSTANTS
  Resources = {"web"}
  Severities <- MCSeverities
  Policies = {"p1", "none"}
  Messages = {"m1", "m2"}
  Signals <- MCSignals
  MaxIncidents = 2
  severityOrder <- MCOrder
  BranchName <- MCBranch
  Branches = {"m1", "m2", "soc2"}
  PresetBranches = {"soc2"}
  Callers = {"worker"}
  RPolicies = {"act", "preview"}
  PolicySpec <- MCPolicySpec
  MaxFaults = 1
  MaxConfig = 2
  MaxOutside = 1
INVARIANTS
  AppliedAreReal
  OnlyInScopeResolved
PROPERTIES
  OpensWithinCap
  NothingSilentlyClosed
  InScopeGetsResolved
