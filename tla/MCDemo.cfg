SPECIFICATION FairSpec
CONSTANTS
    None = None
    NoRun = NoRun
    OurRun = OurRun
    OtherRun = OtherRun
    OtherSha = OtherSha
    Writer <- MCWriter
    Trusted <- MCTrusted
    Inputs <- MCInputs
    Requests = 1
    MaxCommits = 3
    MaxAttempts = 2
    MaxFaults = 1
    MaxEnvironment = 1
INVARIANTS
    TypeOK
    UpgradesDoNotCollide
    DeployedWasGated
    ReportedStateIsReal
    TimelineTellsTheTruth
    FaultTrafficIsObservable
PROPERTIES
    ImplementsRecoveryLedger
    AttemptEnds
    Recovers
CHECK_DEADLOCK FALSE
