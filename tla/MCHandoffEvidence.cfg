SPECIFICATION Spec
CONSTANTS
    None = None
    r1 = r1  r2 = r2  r3 = r3
    i1 = i1  i2 = i2
    f1 = f1  f2 = f2
    d1 = d1  d2 = d2  e1 = e1
    Run = {r1, r2, r3}
    Issue = {i1}
    Document = {d1, d2}
    Fingerprint = {f1}
    FingerprintOf <- MCFingerprintOf
    Polls = 2
    MaxEnvironment = 1
    MaxFaults = 1
SYMMETRY RunSymmetry
INVARIANTS
    NoDisagreement
    AcceptedIsProven
    FailedNeverStarts
    OutcomeIsRecorded
PROPERTIES
    NeverDowngraded
CHECK_DEADLOCK FALSE
