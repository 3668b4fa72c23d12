CONSTANTS
    Proxies = {p, q, b}
    Bitnet = {b}
    Queued = {j}
    MaxSlots = 1
    Sentinel = Sentinel
    None = None
    Faults = {"submit", "cancel"}
    EarlyRequests = FALSE
    MaxCrashes = 1
SPECIFICATION Spec
SYMMETRY Requests
INVARIANT OneProxyInFlight
INVARIANT ProxyNeverExecuted
