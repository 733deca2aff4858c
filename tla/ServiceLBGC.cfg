CONSTANTS
    Services = {s1, s2}
    MaxFaults = 2
SPECIFICATION FairSpec
INVARIANTS
    LoadBalancersCollected
PROPERTIES
    DeletionEventuallyAllowed
CHECK_DEADLOCK FALSE
