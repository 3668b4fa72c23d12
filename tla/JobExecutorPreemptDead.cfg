CONSTANTS
    a = a
    b = b
    c = c
    e = e
    h = h
    Jobs = {a, c}
    Threads = {t1, t2}
    NoJob = NoJob
    NoThread = NoThread
    NoModel = NoModel
    Profile <- StdProfile
    Model <- StdModel
    Priority <- UrgentC
    MaxRetries <- NoRetry
    TimedJobs = {}
    CheckedJobs = {}
    MaxSlots = 2
    EmbedSlots = 4
    PreemptionEnabled = TRUE
    MaxPreemptions = 2
    WorkerFaults = {}
    SlowTail = FALSE
    MaxCrashes = 0
SPECIFICATION Spec
PROPERTY PreemptedNeverDead
