CONSTANTS
    Jobs = {j1, j2, j3}
    Thresholds = {2}
    BaseCooldown = 1
    MaxCooldown = 3
    MaxExponent = 1023
    SilentEnds = FALSE
SPECIFICATION FairSpec
PROPERTY QueuedJobStarts
