SPECIFICATION Spec
CONSTANTS
    None = None
    Last = 2
    RevisionOf <- NewRevision
    AllowInitialDeployment = TRUE
    Reconciled = {"swap", "deployment"}
    StaleReruns = FALSE
    MaxAttempts = 5
    MaxFaults = 3
INVARIANTS
    ProductionIsTested
    RollbackRestores
CHECK_DEADLOCK FALSE
