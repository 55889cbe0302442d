SPECIFICATION Spec
CONSTANTS
    None = None
    Last = 1
    RevisionOf <- NewRevision
    AllowInitialDeployment = FALSE
    Reconciled = {"swap", "deployment"}
    StaleReruns = FALSE
    MaxAttempts = 1
    MaxFaults = 0
INVARIANTS
    CleanReleaseVerifies
CHECK_DEADLOCK FALSE
