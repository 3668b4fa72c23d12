CONSTANTS
    Jobs = {j1, j2, j3, j4}
    Thresholds = {1, 3}
    BaseCooldown = 1
    MaxCooldown = 3
    MaxExponent = 1
    SilentEnds = TRUE
SPECIFICATION Spec
SYMMETRY JobSymmetry
INVARIANT OpenLetsOneThrough
