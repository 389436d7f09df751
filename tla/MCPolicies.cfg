SPECIFICATION Spec
CONSTANTS
  Scenarios <- MCScenarios
  Specs <- MCSpecsAll
  Namespaces <- MCNamespaces
  ChannelNames = {"all", "top", "ops"}
  Secrets = {"url", "missing"}
  Targets <- MCTargets
  Wanted = {"ops"}
  MaxRestarts = 2
  MaxValues = 4
  MinDataPoints = 3
  Sensitivity = 7
PROPERTIES
  CountIsHonest
  AlertsReachChannels
  Settles
  AnomaliesAreReal
