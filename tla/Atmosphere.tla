------------------------------ MODULE Atmosphere -----------------------------
(* The health mode of the dashboard, its escalation and the incident banner    *)
(* (stores/atmosphere.js, app.jsx). The mode is recomputed at every change of  *)
(* a signal; the escalation timer belongs to the superhot-ui library and is    *)
(* known by how the store uses it: start, stop, reset and a level that rises.  *)
EXTENDS Naturals, FiniteSets

CONSTANTS
    Backends,
    TopLevel,    \* 3: the last level of the escalation
    None

AtmosphereAssumption ==
    /\ IsFiniteSet(Backends) /\ TopLevel \in Nat

VARIABLES
    connection,     \* connectionStatus: "ok" or "disconnected"
    daemonPaused,   \* the daemon row of /status says paused
    unhealthy,      \* the listed backends that are unreachable
    fetchError,     \* backendsError is set
    dlq,            \* dlqCount > 0
    booted,         \* the boot screen is over: .layout-root is in the document
    healthMode, failedServices,
    orchestrator,   \* "none", "idle" (made, not started) or "running"
    escalationLevel,
    incident,       \* incidentTimestamp is set
    incidentAcked,
    sinceBoot       \* history: the present mode other than operational began there

signals == <<connection, daemonPaused, unhealthy, fetchError, dlq>>
derived == <<healthMode, failedServices, orchestrator, escalationLevel, incident,
             incidentAcked, sinceBoot>>
vars == <<signals, booted, derived>>

\* _computeHealthMode reads daemon_state of the /status answer; the answer holds
\* the daemon's row under "daemon" and has no such field.
DaemonState == None

CriticalReasons(conn, sick) ==
    {"connection" : c \in {conn} \intersect {"disconnected"}}
    \union {"daemon" : d \in {DaemonState} \intersect {"offline", "error"}}
    \union {"all-backends" : a \in {TRUE} \intersect {Backends # {} /\ sick = Backends}}

DegradedReasons(sick, err, dead) ==
    {"backend-unhealthy" : a \in {TRUE} \intersect {sick # {}}}
    \union {"backends-fetch-error" : a \in {TRUE} \intersect {err}}
    \union {"dlq" : a \in {TRUE} \intersect {dead}}
    \union {"daemon-paused" : d \in {DaemonState} \intersect {"paused"}}

Mode(conn, sick, err, dead) ==
    IF CriticalReasons(conn, sick) # {} THEN "critical"
    ELSE IF DegradedReasons(sick, err, dead) # {} THEN "degraded" ELSE "operational"

Services(conn, sick, err, dead) ==
    IF CriticalReasons(conn, sick) # {} THEN CriticalReasons(conn, sick)
    ELSE DegradedReasons(sick, err, dead)

\* _initOrchestrator: the old one is stopped; without .layout-root none is made.
Fresh == IF booted THEN "idle" ELSE "none"

OrchestratorEveryTime(mode) ==
    IF mode # healthMode /\ healthMode = "operational" /\ booted THEN "running" ELSE Fresh

\* One made for operational mode's successor is started, others are only made.
OrchestratorOf(mode) ==
    IF mode = healthMode THEN orchestrator
    ELSE IF healthMode = "operational" /\ booted THEN "running" ELSE Fresh

\* The effect of initAtmosphere: on every change of the mode a fresh orchestrator,
\* which is started, reset or left alone.
Recompute ==
    LET mode == Mode(connection', unhealthy', fetchError', dlq')
    IN /\ failedServices' = Services(connection', unhealthy', fetchError', dlq')
       /\ healthMode' = mode
       /\ orchestrator' = OrchestratorOf(mode)
       /\ escalationLevel' = IF mode = "operational" /\ mode # healthMode /\ booted
                               THEN 0 ELSE escalationLevel
       /\ sinceBoot' = CASE mode = healthMode -> sinceBoot
                         [] mode # healthMode /\ healthMode = "operational" -> booted
                         [] OTHER -> FALSE
       /\ incident' = (mode = "critical")
       /\ incidentAcked' = (mode = "critical" /\ incident /\ incidentAcked)

Init ==
    /\ connection = "ok" /\ daemonPaused = FALSE /\ unhealthy = {}
    /\ fetchError = FALSE /\ dlq = FALSE
    /\ booted = FALSE
    /\ healthMode = "operational" /\ failedServices = {}
    /\ orchestrator = "none" /\ escalationLevel = 0
    /\ incident = FALSE /\ incidentAcked = FALSE /\ sinceBoot = FALSE

ConnectionChanges ==
    /\ connection' \in {"ok", "disconnected"} \ {connection}
    /\ UNCHANGED <<daemonPaused, unhealthy, fetchError, dlq, booted>>
    /\ Recompute

\* fetchBackends: a list, and no error; or an error, and the old list.
BackendsFetched ==
    /\ \/ unhealthy' \in SUBSET Backends /\ fetchError' = FALSE
       \/ fetchError' = TRUE /\ UNCHANGED unhealthy
    /\ UNCHANGED <<connection, daemonPaused, dlq, booted>>
    /\ Recompute

DLQFetched ==
    /\ dlq' \in BOOLEAN
    /\ UNCHANGED <<connection, daemonPaused, unhealthy, fetchError, booted>>
    /\ Recompute

StatusFetched ==
    /\ daemonPaused' \in BOOLEAN
    /\ UNCHANGED <<connection, unhealthy, fetchError, dlq, booted>>
    /\ Recompute

BootEnds ==
    /\ ~booted
    /\ booted' = TRUE
    /\ UNCHANGED <<signals, derived>>

\* The library's timer: onEscalate, patched to set escalationLevel.
Escalate ==
    /\ orchestrator = "running" /\ escalationLevel < TopLevel
    /\ escalationLevel' = escalationLevel + 1
    /\ UNCHANGED <<signals, booted, healthMode, failedServices, orchestrator, incident,
                   incidentAcked, sinceBoot>>

\* The user acknowledges the incident banner.
Acknowledge ==
    /\ healthMode = "critical" /\ ~incidentAcked
    /\ incidentAcked' = TRUE
    /\ UNCHANGED <<signals, booted, healthMode, failedServices, orchestrator,
                   escalationLevel, incident, sinceBoot>>

Next ==
    \/ ConnectionChanges \/ BackendsFetched \/ DLQFetched \/ StatusFetched
    \/ BootEnds \/ Escalate \/ Acknowledge

Spec == Init /\ [][Next]_vars

\* The boot animation ends and a running timer goes on.
Fairness == WF_vars(BootEnds) /\ WF_vars(Escalate)
FairSpec == Spec /\ Fairness

\* What app.jsx shows: the incident banner and the mantra over the page.
IncidentShown == healthMode = "critical" /\ ~incidentAcked
MantraShown == daemonPaused \/ escalationLevel >= 3

-----------------------------------------------------------------------------
TypeOK ==
    /\ connection \in {"ok", "disconnected"} /\ daemonPaused \in BOOLEAN
    /\ unhealthy \subseteq Backends /\ fetchError \in BOOLEAN /\ dlq \in BOOLEAN
    /\ booted \in BOOLEAN
    /\ healthMode \in {"operational", "degraded", "critical"}
    /\ orchestrator \in {"none", "idle", "running"}
    /\ escalationLevel \in 0..TopLevel
    /\ incident \in BOOLEAN /\ incidentAcked \in BOOLEAN /\ sinceBoot \in BOOLEAN

\* The escalation never outlives the failure: in operational mode no timer runs
\* and the level is 0, although each change of mode throws its timer away.
CalmWhenOperational ==
    healthMode = "operational" => orchestrator # "running" /\ escalationLevel = 0

\* An acknowledgement covers one incident: it is gone when the next one begins.
AckIsForOneIncident == incidentAcked => incident /\ healthMode = "critical"

\* A failure that begins from operational after the boot and keeps its severity
\* reaches the top level.
FreshFailureEscalates == (<>[]sinceBoot) => <>(escalationLevel = TopLevel)

\* What app.jsx says of its mantra: critical for long enough reaches level 3.
CriticalEscalates == (<>[](booted /\ healthMode = "critical")) => <>(escalationLevel = TopLevel)
=============================================================================
