CONSTANTS
    Runs = {r1, r2, r3}
    Names = {n1, n2}
    NoName = NoName
    NoRun = NoRun
    MaxTargets = 1
    Faults = {"tx_error", "lost_reply"}
SPECIFICATION FairSpec
INVARIANTS
    RegistrationInv
    MasterConsistent
    SameNameSameVendor
PROPERTY RegistrationsEnd
