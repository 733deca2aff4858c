SPECIFICATION Spec
CONSTANTS
    Requests <- requests
    Contents <- contents
    Versions <- versions
    Legacy = {1}
    MaxEvents = 2
INVARIANTS TypeOK TemplatesCoherent AdmittedClustersSound SecretsBehindTemplates
PROPERTIES KeyNeverReplaced NoSpuriousRollout Converges
CHECK_DEADLOCK FALSE
