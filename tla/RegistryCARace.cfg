CONSTANTS
    Cluster = {c1, c2}
    CA = {k1, k2, k3}
    NoCA = NoCA
    MaxFaults = 0
SPECIFICATION Spec
PROPERTY RootNeverReplaced
CHECK_DEADLOCK FALSE
