SPECIFICATION Spec
CONSTANTS
    None = None
    Last = 1
    RevisionOf <- SameRevision
    AllowInitialDeployment = FALSE
    Reconciled = {"swap", "deployment"}
    StaleReruns = FALSE
    MaxAttempts = 2
    MaxFaults = 1
PROPERTIES
    NeverSwapsBack
CHECK_DEADLOCK FALSE
