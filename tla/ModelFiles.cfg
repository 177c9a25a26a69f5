SPECIFICATION DeploySpec
CONSTANTS
    MaxVersions = 5
    MaxStops = 2
    MaxLoads = 3
CHECK_DEADLOCK FALSE
INVARIANTS ServesWholeModel
PROPERTIES CompletedDeploymentMatches
