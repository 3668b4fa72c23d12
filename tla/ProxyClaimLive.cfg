CONSTANTS
    Proxies = {p, q}
    Bitnet = {}
    Queued = {j}
    MaxSlots = 2
    Sentinel = Sentinel
    None = None
    Faults = {}
    EarlyRequests = TRUE
    MaxCrashes = 1
SPECIFICATION FairSpec
INVARIANT ClaimOwned
 
 
