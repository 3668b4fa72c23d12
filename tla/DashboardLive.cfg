SPECIFICATION FairSpec
CONSTANTS
    Widgets <- LiveWidgets
    MaxVersion = 1
    MaxFetchAlls = 1
    Intervals = {1, 2}
    BaseInterval = 1
    MaxBackoff = 4
    FailureLimit = 2
    SlowPeriod = 2
    Jobs = {1, 2}
    Tag <- MCTag
    None = None
    MaxPriority = 10
    DefaultPriority = 5
    MaxDrops = 2
    MaxReplies = 1
    MaxRequests = 3
    Backends = {b1, b2}
    TopLevel = 3
    NoLevel = NoLevel
    RJobs = {r1}
    NoRow = NoRow
    MaxCalls = 2
    MaxChanges = 1
    Tags = {t1, t2}
    MaxPresses = 3
    Bars = {b1, b2, b3}
    Starts <- MCStarts
    Durations = {0, 2}
    HeavyBars = {b1, b2}
    DefaultLength = 1
    WindowHalf = 2
    ZoomHalf = 1
    SlotCount = 5
    MidnightTo0 = 3
    Hosts <- MCHosts
    Addresses <- MCAddresses
    TailJobs = {j1, j2}
    NoJob = NoJob
    MaxFetches = 3
    Runs = {1, 2}
    NoRun = NoRun
    MaxReads = 1
    MaxOrders = 1
    Pulls = {1}
    MaxWire = 2
    MaxLost = 1
    Entries = {e1}
    NoEntry = NoEntry
    NumberKeys = {n1}
    OptionKeys = {o1}
    Values = {0, 1}
    Options = {on, off}
    Missing = Missing
    Blank = Blank
    Text = Text
    MaxSaves = 2
    MaxPolls = 1
    Variants = {v1}
    Hours = {h1}
    NoField = NoField
    MaxChecks = 1
    MaxStarts = 2
    ChosenFilters = {"complete"}
    MaxLists = 1
    MaxPosts = 1
    Classes = {"all", "fp"}
    Rows <- MCRows
    PageSize = 1
    MaxLoads = 2
    MaxAnalyses = 2
    MaxRowOrders = 2
    RecurringJobs = {s1}
    Instances = {1, 2}
    PoolThreads = {w1, w2}
    MaxRuns = 1
    MaxAsks = 1
    MaxHalts = 1
    NoSchedule = NoSchedule
    NoInstance = NoInstance
    DeferJobs = {j1}
    Deferrals = {1, 2}
    MaxDeferHalts = 0
    NoOne = NoOne
    EvalRuns = {1, 2}
    EvalVariants = {ev1, ev2}
    SystemVariants = {ev1}
    MaxEvalHalts = 1
    NoVariant = NoVariant
    NoEval = NoEval
PROPERTIES
    FreshFailureEscalates PageCatchesUp ProgressEnds
CHECK_DEADLOCK FALSE
