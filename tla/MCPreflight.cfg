SPECIFICATION Spec
CONSTANTS
    Request <- MCRequest
    MaxFaults = 1
    MaxInFlight = 2
    LateFailures <- MCLateFailures
INVARIANTS TypeOK OrderDoesNotMatter InternalErrorsRefuse AdmittedIsSound
