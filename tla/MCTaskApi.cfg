SPECIFICATION FairSpec
CONSTANTS
    None = None
    s1 = s1  s2 = s2  s3 = s3
    Smoke = Smoke
    User = User
    Session = {s1, s2, s3}
    Client <- MCClient
    Observed <- MCObserved
    MaxId = 3
    PerPage = 1
    Scenario = "healthy"
    Endpoint = "broken"
    MaxRequests = 2
    MaxFaults = 1
INVARIANTS
    TypeOK
    PassedLeavesNothing
    TakenOverIsKept
    QuietListingAgrees
PROPERTIES
    UserEditSurvives
    DeletedStaysDeleted
    CheckEnds
CHECK_DEADLOCK FALSE
