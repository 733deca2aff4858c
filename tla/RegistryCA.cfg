\* Two clusters that race and a third key pair; seven key pairs are enough for
\* one that no secret refers to.
CONSTANTS
    Cluster = {c1, c2}
    CA = {k1, k2, k3, k4, k5, k6, k7}
    NoCA = NoCA
    MaxFaults = 1
SPECIFICATION FairSpec
INVARIANTS
    NodesTrustTheirRegistry
PROPERTIES
    RootKeptWhenCalm
    EveryRegistryServed
CHECK_DEADLOCK FALSE
