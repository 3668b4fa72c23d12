CONSTANTS
    Jobs = {j1, j2, j3, j4}
    Originals = {j1, j2}
    Failing = {j1, j2, j3}
    Permanent = {j3}
    Sweepers = {s1, s2}
    None = None
    Threshold = 3
    ManualAPI = TRUE
    SweepFaults = TRUE
    MaxCrashes = 1
SPECIFICATION Spec
SYMMETRY Threads
INVARIANT SweptOnce
INVARIANT ResolvedHasJob
