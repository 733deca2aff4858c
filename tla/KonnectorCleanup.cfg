\* Two ticks to the timeout: the uninstall may end before it, at it or after it.
CONSTANTS
    Timeout = 2
    MaxFaults = 2
SPECIFICATION HealthySpec
INVARIANTS
    DeletionWaitsForUnregistration
PROPERTIES
    DeletionEventuallyAllowed
\* Once the deletion is allowed the hook is not called again.
CHECK_DEADLOCK FALSE
