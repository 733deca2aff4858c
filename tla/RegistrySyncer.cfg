CONSTANTS
    MaxErrors = 2
SPECIFICATION SyncerSpec
INVARIANTS
    SyncerTypeOK
    LeaksOnlyAfterReconfiguration
CHECK_DEADLOCK FALSE
