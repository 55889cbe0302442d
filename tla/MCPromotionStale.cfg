SPECIFICATION Spec
CONSTANTS
    None = None
    Last = 2
    RevisionOf <- SameRevision
    AllowInitialDeployment = FALSE
    Reconciled = {"swap", "deployment"}
    StaleReruns = TRUE
    MaxAttempts = 4
    MaxFaults = 2
INVARIANTS
    ProductionIsTested
CHECK_DEADLOCK FALSE
