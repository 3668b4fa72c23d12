----------------------------- MODULE LivePolling -----------------------------
(* The dashboard's polling loop (stores/index.js): timers, the requests they   *)
(* send, the answers in whatever order they come, and the connection banner.   *)
(* A request in flight is remembered by the server version at which it was     *)
(* sent; its answer carries any version between that one and the current one.  *)
EXTENDS Naturals

CONSTANTS
    MaxVersion,     \* bound: changes of the server's queue
    MaxFetchAlls,   \* bound: calls of fetchAll (mounts and returns to the tab)
    Intervals,      \* values poll_interval_seconds takes; raised only (bound)
    BaseInterval,   \* 5 (seconds)
    MaxBackoff,     \* 30 (seconds)
    FailureLimit,   \* 3
    SlowPeriod      \* 12: one poll in SlowPeriod refreshes charts and history

PollingAssumption ==
    /\ MaxVersion \in Nat /\ MaxFetchAlls \in Nat
    /\ Intervals \subseteq Nat \ {0} /\ BaseInterval \in Intervals
    /\ MaxBackoff \in Nat \ {0} /\ FailureLimit \in Nat \ {0} /\ SlowPeriod \in Nat \ {0}

VARIABLES
    server,     \* [version, interval]: the server's queue and its setting
    net,        \* "up", "refusing" (answers that are not ok), "down" (fetch throws)
    mounted,    \* between startPolling and stopPolling
    pollTimer,  \* the timer pollTimer names: "none", "pending" or "fired"
    strays,     \* pending timers that pollTimer no longer names
    polls,      \* status requests in flight, counted by version
    alls,       \* fetchAll requests in flight, counted by version
    slows,      \* versions with a _fetchNonRealtime in flight; two sent at one are one (bound)
    pollFailures, connectionStatus, backoff, interval, pollCount,
    queue,      \* the version of the queue the page shows
    charts,     \* the version of history and charts it shows
    opened      \* calls of fetchAll so far

chains == <<pollTimer, strays, polls>>
shown == <<queue, charts>>
bank == <<pollFailures, connectionStatus, backoff, pollCount>>
vars == <<server, net, mounted, chains, alls, slows, bank, interval, shown, opened>>

Versions == 0..MaxVersion
Sent(bag) == [bag EXCEPT ![server.version] = @ + 1]
Answered(bag, v) == [bag EXCEPT ![v] = @ - 1]
Lesser(m, n) == IF m < n THEN m ELSE n

SetTimerIfOk ==
    IF net = "refusing" THEN UNCHANGED <<pollTimer, strays>>
    ELSE /\ pollTimer' = "pending"
         /\ strays' = IF pollTimer = "pending" THEN strays + 1 ELSE strays

\* pollTimer = setTimeout(fetchStatus, ...): an earlier pending timer stays armed.
SetTimer ==
    /\ pollTimer' = "pending"
    /\ strays' = IF pollTimer = "pending" THEN strays + 1 ELSE strays

Init ==
    /\ server = [version |-> 0, interval |-> BaseInterval]
    /\ net = "up"
    /\ mounted = FALSE
    /\ pollTimer = "none" /\ strays = 0
    /\ polls = [v \in Versions |-> 0]
    /\ alls = [v \in Versions |-> 0]
    /\ slows = {}
    /\ pollFailures = 0 /\ connectionStatus = "ok"
    /\ backoff = BaseInterval /\ interval = BaseInterval /\ pollCount = 0
    /\ queue = 0 /\ charts = 0
    /\ opened = 0

\* fetchAll up to its first await: one more poll and the six requests.
FetchAll ==
    /\ opened < MaxFetchAlls
    /\ opened' = opened + 1
    /\ polls' = Sent(polls)
    /\ alls' = Sent(alls)

\* startPolling: fetchAll, which polls at once, and a timer of its own besides.
StartPolling ==
    /\ ~mounted
    /\ mounted' = TRUE
    /\ FetchAll
    /\ SetTimer
    /\ UNCHANGED <<server, net, slows, bank, interval, shown>>

\* stopPolling: only the timer pollTimer names is cleared.
StopPolling ==
    /\ mounted
    /\ mounted' = FALSE
    /\ pollTimer' = IF pollTimer = "pending" THEN "fired" ELSE pollTimer
    /\ UNCHANGED <<server, net, strays, polls, alls, slows, bank, interval, shown, opened>>

\* The visibilitychange handler: every return to the tab is another fetchAll.
TabVisible ==
    /\ mounted
    /\ FetchAll
    /\ UNCHANGED <<server, net, mounted, pollTimer, strays, slows, bank, interval, shown>>

\* A timer expires and fetchStatus sends its request.
NamedTimerFires ==
    /\ pollTimer = "pending"
    /\ pollTimer' = "fired"
    /\ polls' = Sent(polls)
    /\ UNCHANGED <<server, net, mounted, strays, alls, slows, bank, interval, shown, opened>>

StrayTimerFires ==
    /\ strays > 0
    /\ strays' = strays - 1
    /\ polls' = Sent(polls)
    /\ UNCHANGED <<server, net, mounted, pollTimer, alls, slows, bank, interval, shown, opened>>

\* fetchStatus after an ok answer that holds version s.
StatusOk(v, s) ==
    /\ net = "up"
    /\ queue' = s
    /\ pollFailures' = 0
    /\ connectionStatus' = "ok"
    /\ backoff' = interval
    /\ pollCount' = (pollCount + 1) % SlowPeriod
    /\ slows' = IF pollCount' = 0 THEN slows \union {server.version} ELSE slows

\* ... after an answer that is not ok: the next poll is set and nothing else.
StatusRefused ==
    /\ net = "refusing"
    /\ UNCHANGED <<queue, bank, slows>>

\* ... and after an exception: the failure counts and the delay doubles.
StatusFailed ==
    /\ net = "down"
    /\ pollFailures' = Lesser(pollFailures + 1, FailureLimit)   \* saturates (bound)
    /\ connectionStatus' = IF pollFailures' >= FailureLimit THEN "disconnected" ELSE connectionStatus
    /\ backoff' = Lesser(2 * backoff, MaxBackoff)
    /\ UNCHANGED <<queue, pollCount, slows>>

StatusAnswered(v) ==
    /\ polls[v] > 0
    /\ polls' = Answered(polls, v)
    /\ SetTimer
    /\ (\E s \in v..server.version : StatusOk(v, s)) \/ StatusRefused \/ StatusFailed
    /\ UNCHANGED <<server, net, mounted, alls, interval, charts, opened>>

\* fetchAll after its requests: each answer that is ok is taken, and a changed
\* poll_interval_seconds re-arms the loop through whatever timer pollTimer names.
AllAnswered(v) ==
    /\ alls[v] > 0
    /\ alls' = Answered(alls, v)
    /\ IF net = "up"
         THEN \E s \in v..server.version :
                /\ queue' = s /\ charts' = s
                /\ interval' = server.interval
                /\ pollTimer' = IF interval' # interval /\ pollTimer = "fired"
                                  THEN "pending" ELSE pollTimer
         ELSE UNCHANGED <<shown, interval, pollTimer>>
    /\ UNCHANGED <<server, net, mounted, strays, polls, slows, bank, opened>>

\* _fetchNonRealtime after its requests.
SlowAnswered(v) ==
    /\ v \in slows
    /\ slows' = slows \ {v}
    /\ IF net = "up" THEN charts' \in v..server.version ELSE UNCHANGED charts
    /\ UNCHANGED <<server, net, mounted, chains, alls, bank, interval, queue, opened>>

\* The environment: the queue moves, the setting is raised, the network changes.
ServerMoves ==
    /\ server.version < MaxVersion
    /\ server' = [server EXCEPT !.version = @ + 1]
    /\ UNCHANGED <<net, mounted, chains, alls, slows, bank, interval, shown, opened>>

IntervalRaised ==
    /\ \E i \in Intervals : i > server.interval /\ server' = [server EXCEPT !.interval = i]
    /\ UNCHANGED <<net, mounted, chains, alls, slows, bank, interval, shown, opened>>

NetworkChanges ==
    /\ net' \in {"up", "refusing", "down"} \ {net}
    /\ UNCHANGED <<server, mounted, chains, alls, slows, bank, interval, shown, opened>>

Next ==
    \/ StartPolling \/ StopPolling \/ TabVisible
    \/ NamedTimerFires \/ StrayTimerFires
    \/ \E v \in Versions : StatusAnswered(v) \/ AllAnswered(v) \/ SlowAnswered(v)
    \/ ServerMoves \/ IntervalRaised \/ NetworkChanges

Spec == Init /\ [][Next]_vars

\* Timers fire and every request is answered or throws.
Fairness ==
    /\ WF_vars(NamedTimerFires) /\ WF_vars(StrayTimerFires)
    /\ \A v \in Versions : /\ WF_vars(StatusAnswered(v))
                           /\ WF_vars(AllAnswered(v))
                           /\ WF_vars(SlowAnswered(v))

FairSpec == Spec /\ Fairness

-----------------------------------------------------------------------------
TypeOK ==
    /\ server \in [version : Versions, interval : Intervals]
    /\ net \in {"up", "refusing", "down"}
    /\ mounted \in BOOLEAN
    /\ pollTimer \in {"none", "pending", "fired"} /\ strays \in Nat
    /\ polls \in [Versions -> Nat] /\ alls \in [Versions -> Nat] /\ slows \subseteq Versions
    /\ pollFailures \in 0..FailureLimit /\ connectionStatus \in {"ok", "disconnected"}
    /\ backoff \in Nat /\ interval \in Nat /\ pollCount \in Nat
    /\ queue \in Versions /\ charts \in Versions
    /\ opened \in Nat

\* While the page is mounted the loop never dies: whatever the answers were, a
\* timer is armed or a status request is on its way (every path of fetchStatus
\* re-arms; startPolling's own timer and fetchAll overlap).
PollingAlive ==
    mounted => pollTimer = "pending" \/ strays > 0 \/ \E v \in Versions : polls[v] > 0

\* The banner: disconnected exactly while the last three polls that did not end
\* in a refusal threw.
BannerCounts == connectionStatus = "disconnected" <=> pollFailures = FailureLimit

\* Whatever was lost, refused or overtaken, once the network stays up the page
\* ends showing the server's last queue and charts and no banner; once it stays
\* down the banner comes up and stays, and the delay reaches its cap.
PageFollowsServer ==
    /\ (<>[](mounted /\ net = "up")) =>
         <>[](queue = server.version /\ charts = server.version /\ connectionStatus = "ok")
    /\ (<>[](mounted /\ net = "down")) =>
         <>[](connectionStatus = "disconnected" /\ backoff = MaxBackoff)
=============================================================================
