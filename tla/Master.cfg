SPECIFICATION Spec
CONSTANTS
    NumReplicas = 3
    MaxCrashes = 1
    MaxRequests = 2
INVARIANTS TypeOK PrimaryNotCrashed RecoveryExclusive
PROPERTIES Handover
CHECK_DEADLOCK FALSE
