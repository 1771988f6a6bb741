CONSTANTS
    Runs = {r1, r2}
    Names = {n1}
    NoName = NoName
    NoRun = NoRun
    MaxTargets = 1
    Faults = {}
SPECIFICATION Spec
PROPERTY ConflictYieldsVendor
