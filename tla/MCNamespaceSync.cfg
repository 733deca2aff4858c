\* Two namespaces that can become targets; labels, classes and Templates are
\* edited in any order.  Once the edits are over the system may rest.
CONSTANTS
    a = a
    b = b
    own = own
    shared = shared
    Namespace = {n1, n2}
    Class <- MCClass
    Template <- MCTemplate
    NoClass = NoClass
    Refs <- MCRefs
    MaxSyncEdits = 5
    MaxSyncFaults = 1
SPECIFICATION SyncFairSpec
INVARIANTS
    SyncTypeOK
    CopiedClassesAreComplete
PROPERTY EveryTargetGetsEveryClass
CHECK_DEADLOCK FALSE
