SPECIFICATION FairSpec
CONSTANTS
    None = None
    Last = 2
    RevisionOf <- NewRevision
    AllowInitialDeployment = TRUE
    Reconciled = {"swap"}
    StaleReruns = TRUE
    MaxAttempts = 4
    MaxFaults = 2
INVARIANTS
    TypeOK
    SchemaCovers
    IdentityHolds
PROPERTIES
    RetryPromotes
CHECK_DEADLOCK FALSE
