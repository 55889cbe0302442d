SPECIFICATION Spec
CONSTANTS
    None = None
    Last = 2
    RevisionOf <- SameRevision
    AllowInitialDeployment = FALSE
    Reconciled = {}
    StaleReruns = TRUE
    MaxAttempts = 5
    MaxFaults = 3
PROPERTIES
    VerifiedIsServing
CHECK_DEADLOCK FALSE
