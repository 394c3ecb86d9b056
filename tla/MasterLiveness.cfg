SPECIFICATION FairSpec
CONSTANTS
    NumReplicas = 3
    MaxCrashes = 0
    MaxRequests = 2
PROPERTIES ClusterForms RecoveryEnds
CHECK_DEADLOCK FALSE
