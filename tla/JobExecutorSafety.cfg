CONSTANTS
    a = a
    b = b
    c = c
    e = e
    h = h
    NoJob = NoJob
    NoThread = NoThread
    NoModel = NoModel
    Jobs = {a, b, c}
    Threads = {t1, t2, t3}
    Profile <- StdProfile
    Model <- StdModel
    Priority <- UrgentC
    MaxRetries <- OneRetry
    TimedJobs = {a}
    CheckedJobs = {c}
    MaxSlots = 2
    EmbedSlots = 4
    PreemptionEnabled = TRUE
    MaxPreemptions = 1
    WorkerFaults = {"spawn", "tail"}
    SlowTail = FALSE
    MaxCrashes = 1
SPECIFICATION Spec
SYMMETRY Pool
 
INVARIANT RetryBudget
INVARIANT NoStrandedRunning
 
 
INVARIANT ModelExclusive
