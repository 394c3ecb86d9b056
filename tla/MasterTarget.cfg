SPECIFICATION Spec
CONSTANTS
    NumReplicas = 3
    MaxCrashes = 0
    MaxRequests = 0
INVARIANTS TargetKnown
