\* Two hooks, two delays to compare; one call returns and is over.
CONSTANTS
    Hooks = {h1, h2}
    Delays = {0, 5, 30}
    Retryable = TRUE
    NoResult = NoResult
    NoAnswer = NoAnswer
SPECIFICATION FairSpec
INVARIANTS
    TypeOK
    EveryResponseAggregated
    SendersNeverBlockOrPanic
    FailureNeverMasked
    RetryIsShortestRequested
PROPERTIES
    ImplementsContract
    CallEnds
CHECK_DEADLOCK FALSE
