SPECIFICATION FairSpec
CONSTANTS
    None = None
    s1 = s1  s2 = s2  s3 = s3
    Smoke = Smoke
    User = User
    Session = {s1, s2}
    Client <- MCClient
    Observed <- MCObserved
    MaxId = 1
    PerPage = 1
    Scenario = "healthy"
    Endpoint = "broken"
    MaxRequests = 0
    MaxFaults = 0
INVARIANTS
    FailureCleansUp
CHECK_DEADLOCK FALSE
