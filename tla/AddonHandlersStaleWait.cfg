SPECIFICATION Spec
CONSTANTS
    AddonSets <- MCCilium
    Nodes = {n1}
    MaxFaults = 0
PROPERTIES
    PreflightStaysUntilDeployed
CHECK_DEADLOCK FALSE
