------------------------------ MODULE HostViews ------------------------------
(* The two pictures the Now page and the topology give of one status and one   *)
(* list of backends: the host cards (components/HostCard.jsx) and the graph    *)
(* with its GPU nodes and marching edges (components/TopologyDiagram.jsx).     *)
(* Both answers are polled apart and in any combination.                       *)
EXTENDS Integers, Sequences, SequencesExt

CONSTANTS
    Hosts,          \* the backends' urls, in the order of the list
    Addresses       \* what each url names: "loopback", "lookalike" or "remote"

HostViewsAssumption ==
    /\ Addresses \in [ToSet(Hosts) -> {"loopback", "lookalike", "remote"}]

VARIABLES
    daemon,         \* the daemon's row: [state, work], work one of "none", "proxy", "job"
    currentJob,     \* the job of the same answer, read apart: BOOLEAN
    activeEval,     \* the hosts of the evaluation in that answer
    healthy,        \* the hosts that answered
    loaded,         \* [host -> "nothing", "other" or "family": the job's model or its family]
    glitch,         \* cards whose glitch is on
    expandedNode    \* the node whose panel is open, or "none"

hostVars == <<daemon, currentJob, activeEval, healthy, loaded, glitch, expandedNode>>

All == ToSet(Hosts)
DaemonRows == [state : {"running", "paused", "offline"}, work : {"none", "proxy", "job"}]

-----------------------------------------------------------------------------
\* HostCard. matchesBackend and deriveHostState, in the order of its branches.
MatchesBackend(h) == currentJob /\ loaded[h] = "family"

DeriveHostState(h) ==
    CASE h \notin healthy -> "offline"
      [] h \in healthy /\ MatchesBackend(h) -> "running"
      [] h \in healthy /\ ~MatchesBackend(h) /\ h \in activeEval -> "eval"
      [] h \in healthy /\ ~MatchesBackend(h) /\ h \notin activeEval ->
           IF loaded[h] = "nothing" THEN "idle" ELSE "warm"

\* isLocalBackend tests for a substring, the graph for the host name itself.
CardLocal(h) == Addresses[h] \in {"loopback", "lookalike"}
GraphLocal(h) == Addresses[h] = "loopback"

\* What the card shows besides: the job with its progress, the evaluation with its
\* cancel, the gauges, and the pulse around an unreachable host.
CardShows(h) ==
    {DeriveHostState(h)}
    \union (IF CardLocal(h) THEN {"gauges"} ELSE {"no metrics"})
    \union (IF h \in healthy THEN {"vram"} ELSE {"pulse"})
ComputeAllUnhealthy == All # {} /\ healthy = {}

\* HostGaugeBar: where the gradient turns and the dashed line stands, in percent.
PauseNorm(pause) == IF pause < 100 THEN pause ELSE 100
ResumeNorm(pause, resume) == IF pause > 100 THEN (resume * 100) \div pause
                             ELSE IF resume < 100 THEN resume ELSE 100

-----------------------------------------------------------------------------
\* The graph. _findLocalBackend and _findRemoteBackend take the first of the list.
First(S) == LET fit == SelectSeq(Hosts, LAMBDA h : h \in S)
            IN IF fit = <<>> THEN {} ELSE {fit[1]}
Gtx == First({h \in All : GraphLocal(h)})
Rtx == First({h \in All : ~GraphLocal(h)})

Paused == daemon.state = "paused"
IsProxy == daemon.work = "proxy"
IsDaemonJob == daemon.work = "job"
Serving(found) == \E h \in found : h \in healthy /\ currentJob /\ loaded[h] = "family"
NeitherServing == IsDaemonJob /\ ~Serving(Gtx) /\ ~Serving(Rtx)

\* nodeState, for the nodes that depend on the two answers.
GpuNode(found) == IF found \intersect healthy = {} THEN "threat"
                  ELSE IF Serving(found) THEN "glow" ELSE "dim"
DaemonNode == CASE Paused -> "paused"
                [] daemon.state = "offline" -> "threat"
                [] daemon.state = "running" -> IF IsDaemonJob THEN "glow" ELSE "dim"
EvalNode == IF activeEval # {} THEN "glow" ELSE "dim"

\* edgeState: e6 and e7 lead to the router, e9 and e10 to the GPUs, e8 is the proxy
\* and e11 the sensing that pauses the daemon.
GpuEdge(found) ==
    IF IsDaemonJob /\ ~Paused /\ (Serving(found) \/ NeitherServing) THEN "phosphor"
    ELSE IF IsProxy /\ found \intersect healthy # {} THEN "amber" ELSE "dim"
RouterEdge == IF IsDaemonJob /\ ~Paused THEN "phosphor" ELSE "dim"
ProxyEdge == IF IsProxy THEN "amber" ELSE "dim"
SensingEdge == IF Paused THEN "threat" ELSE "dim"

\* _buildDetailRows: what the panel of a node tells of the same two answers.
DetailRow(node) ==
    CASE node = "daemon" -> daemon.state
      [] node = "sensing" -> IF Paused THEN "paused" ELSE "monitoring"
      [] node = "proxy" -> IF IsProxy THEN "in flight" ELSE "idle"
      [] node = "eval" -> IF activeEval # {} THEN "run" ELSE "idle"
      [] node = "gtx1650" -> IF Gtx = {} THEN "no data"
                             ELSE IF Gtx \subseteq healthy THEN "healthy" ELSE "unhealthy"
      [] node = "rtx5080" -> IF Rtx = {} THEN "no data"
                             ELSE IF Rtx \subseteq healthy THEN "healthy" ELSE "unhealthy"
Nodes == {"daemon", "sensing", "proxy", "eval", "gtx1650", "rtx5080"}

-----------------------------------------------------------------------------
Init ==
    /\ daemon = [state |-> "offline", work |-> "none"]
    /\ currentJob = FALSE /\ activeEval = {}
    /\ healthy = All /\ loaded = [h \in All |-> "nothing"]
    /\ glitch = {} /\ expandedNode = "none"

\* The answer to /status: the daemon's row and the running job are two queries.
StatusFetched ==
    /\ daemon' \in DaemonRows
    /\ currentJob' \in BOOLEAN
    /\ activeEval' \in {{}} \union {{h} : h \in All}
    /\ UNCHANGED <<healthy, loaded, glitch, expandedNode>>

\* The answer to /backends, and the cards' effect on it: the glitch begins when a
\* host is lost and ends with the next change.
BackendsFetched ==
    /\ healthy' \in SUBSET All
    /\ loaded' \in [All -> {"nothing", "other", "family"}]
    /\ glitch' = {h \in All : IF h \in healthy <=> h \in healthy' THEN h \in glitch
                              ELSE h \in healthy}
    /\ UNCHANGED <<daemon, currentJob, activeEval, expandedNode>>

\* handleNodeSelect
SelectNode(n) ==
    /\ expandedNode' = IF expandedNode = n THEN "none" ELSE n
    /\ UNCHANGED <<daemon, currentJob, activeEval, healthy, loaded, glitch>>

Next == StatusFetched \/ BackendsFetched \/ \E n \in Nodes : SelectNode(n)

HostSpec == Init /\ [][Next]_hostVars

-----------------------------------------------------------------------------
HostTypeOK ==
    /\ daemon \in DaemonRows /\ currentJob \in BOOLEAN /\ activeEval \subseteq All
    /\ healthy \subseteq All /\ glitch \subseteq All
    /\ loaded \in [All -> {"nothing", "other", "family"}]
    /\ expandedNode \in Nodes \union {"none"}

\* The card and the node of one backend never contradict each other.
NodeIsCard(found) ==
    \A h \in found : /\ DeriveHostState(h) = "offline" <=> GpuNode(found) = "threat"
                     /\ DeriveHostState(h) = "running" <=> GpuNode(found) = "glow"

\* A job's path lights up from the queue to a GPU: never the one half without the
\* other, never for a paused daemon, and only a proxied call can share the edge.
PathWhole ==
    /\ RouterEdge = "phosphor" <=> "phosphor" \in {GpuEdge(Gtx), GpuEdge(Rtx)}
    /\ SensingEdge = "threat" => RouterEdge = "dim" /\ DaemonNode = "paused"
    /\ "amber" \in {GpuEdge(Gtx), GpuEdge(Rtx)} => ProxyEdge = "amber" /\ RouterEdge = "dim"

\* The panel of a GPU says healthy where the graph shows no threat.
PanelIsNode ==
    /\ DetailRow("gtx1650") = "healthy" <=> GpuNode(Gtx) # "threat"
    /\ DetailRow("rtx5080") = "healthy" <=> GpuNode(Rtx) # "threat"

\* The gauge turns amber before it turns red whatever the thresholds are.
GaugeOrdered ==
    \A pause \in {0, 50, 85, 100, 200, 400}, resume \in {0, 40, 75, 100, 150} :
        resume <= pause => ResumeNorm(pause, resume) <= PauseNorm(pause)

\* The cards, the nodes, the edges and the panel, which compute the same facts in
\* four places from data polled apart, agree; a glitch is on only at a lost host.
ViewsAgree ==
    /\ NodeIsCard(Gtx) /\ NodeIsCard(Rtx)
    /\ PathWhole /\ PanelIsNode /\ GaugeOrdered
    /\ ComputeAllUnhealthy <=> All # {} /\ \A h \in All : "pulse" \in CardShows(h)
    /\ glitch \intersect healthy = {}
=============================================================================
