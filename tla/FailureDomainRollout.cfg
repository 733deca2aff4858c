\* Two domains, one or three replicas: edits can hit a rollout in progress.
CONSTANTS
    FD = {f1, f2}
    NoFD = NoFD
    ReplicaChoices = {1, 3}
    MaxEdits = 2
    MaxFaults = 1
SPECIFICATION FairSpec
PROPERTIES
    RolloutsNeverOverlap
    OnlyBadPlacementsRollOut
    EventuallyWellPlaced
CHECK_DEADLOCK FALSE
