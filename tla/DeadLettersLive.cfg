CONSTANTS
    Jobs = {j1, j2, j3, j4}
    Originals = {j1}
    Failing = {j1, j2}
    Permanent = {}
    Sweepers = {s1, s2}
    None = None
    Threshold = 3
    ManualAPI = FALSE
    SweepFaults = FALSE
    MaxCrashes = 0
SPECIFICATION FairSpec
PROPERTY EntryAttended
