SPECIFICATION Spec
CONSTANTS
    AddonSets <- MCAddonSets
    Nodes = {n1}
    MaxFaults = 1
INVARIANTS
    TypeOK
    NothingDeployedTooEarly
    SuccessMeansApplied
    ServicesStayRouted
    NothingLeftBehind
PROPERTIES
    UpgradeWaitsForPreflight
    HooksEventuallySucceed
CHECK_DEADLOCK FALSE
