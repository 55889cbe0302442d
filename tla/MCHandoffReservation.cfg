SPECIFICATION Spec
CONSTANTS
    None = None
    r1 = r1  r2 = r2  r3 = r3
    i1 = i1  i2 = i2
    f1 = f1  f2 = f2
    d1 = d1  d2 = d2  e1 = e1
    Run = {r1, r2}
    Issue = {i1, i2}
    Document = {d1, d2, e1}
    Fingerprint = {f1, f2}
    FingerprintOf <- MCFingerprintOf
    Polls = 2
    MaxEnvironment = 1
    MaxFaults = 1
SYMMETRY RunSymmetry
INVARIANTS
    TypeOK
    AtMostOneLaunch
    LaunchIsReserved
    LaunchSawReservedIncident
PROPERTIES
    ImplementsLedger
CHECK_DEADLOCK FALSE
