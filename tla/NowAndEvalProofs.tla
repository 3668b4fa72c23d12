-------------------------- MODULE NowAndEvalProofs --------------------------
\* What is proved of the Now page (the atmosphere, the hosts and the log a card tails) and of
\* the Eval tab (the progress of a run, the panel that starts one, the history of runs and the
\* scored pairs of one), each for itself and then as parts of Dashboard; and, with the modules it
\* extends, of all widgets together.
EXTENDS Dashboard, SchedulingProofs, QueueAndPlanProofs, PanelProofs, FiniteSetTheorems,
        WellFoundedInduction, SequenceTheorems, TLAPS

-----------------------------------------------------------------------------
\* The atmosphere: Atmosphere.

\* An incident is open while the mode is critical, and an escalation that was made or has
\* risen was so after the boot screen.
MoodInv ==
    /\ A!TypeOK /\ A!CalmWhenOperational /\ A!AckIsForOneIncident
    /\ incident <=> healthMode = "critical"
    /\ ~booted => orchestrator = "none" /\ escalationLevel = 0

\* The health mode is recomputed at every change of a signal.
LEMMA Recomputed ==
  ASSUME MoodInv, A!Recompute, booted' = booted
  PROVE  /\ healthMode' \in {"operational", "degraded", "critical"}
         /\ orchestrator' \in {"none", "idle", "running"} /\ escalationLevel' \in 0..TopLevel
         /\ incident' \in BOOLEAN /\ incidentAcked' \in BOOLEAN /\ sinceBoot' \in BOOLEAN
         /\ A!CalmWhenOperational' /\ A!AckIsForOneIncident'
         /\ (incident <=> healthMode = "critical")'
         /\ (~booted => orchestrator = "none" /\ escalationLevel = 0)'
  <1> DEFINE mode == A!Mode(connection', unhealthy', fetchError', dlq')
  <1>1. mode \in {"operational", "degraded", "critical"}
    BY DEF A!Mode
  <1>2. /\ healthMode' = mode /\ orchestrator' = A!OrchestratorOf(mode)
        /\ escalationLevel' = IF mode = "operational" /\ mode # healthMode /\ booted
                                THEN 0 ELSE escalationLevel
        /\ sinceBoot' = CASE mode = healthMode -> sinceBoot
                          [] mode # healthMode /\ healthMode = "operational" -> booted
                          [] OTHER -> FALSE
        /\ incident' = (mode = "critical")
        /\ incidentAcked' = (mode = "critical" /\ incident /\ incidentAcked)
    BY DEF A!Recompute
  <1> HIDE DEF mode
  <1> USE DEF MoodInv, A!TypeOK, A!CalmWhenOperational, A!AckIsForOneIncident
  <1>3. orchestrator' \in {"none", "idle", "running"} /\ escalationLevel' \in 0..TopLevel
    BY <1>1, <1>2, DashboardAssumption
       DEF DashboardAssumption, A!AtmosphereAssumption, A!OrchestratorOf, A!Fresh
  <1>4. A!CalmWhenOperational' /\ (~booted => orchestrator = "none" /\ escalationLevel = 0)'
    BY <1>1, <1>2 DEF A!OrchestratorOf, A!Fresh
  <1>5. /\ incident' \in BOOLEAN /\ (incident <=> healthMode = "critical")'
        /\ incidentAcked' \in BOOLEAN /\ A!AckIsForOneIncident'
    BY <1>2
  <1>6. sinceBoot' \in BOOLEAN
    BY <1>2
  <1>7. QED
    BY <1>1, <1>2, <1>3, <1>4, <1>5, <1>6

\* In operational mode nothing escalates, and an acknowledgement covers one incident.
THEOREM Calming == A!Spec => [](A!TypeOK /\ A!CalmWhenOperational /\ A!AckIsForOneIncident)
  <1> A!AtmosphereAssumption
    BY DashboardAssumption DEF DashboardAssumption
  <1>1. A!Init => MoodInv
    <2>1. 0 \in 0..TopLevel
      BY DEF A!AtmosphereAssumption
    <2>2. QED
      BY <2>1 DEF A!Init, MoodInv, A!TypeOK, A!CalmWhenOperational, A!AckIsForOneIncident
  <1>2. MoodInv /\ [A!Next]_(A!vars) => MoodInv'
    <2> SUFFICES ASSUME MoodInv, [A!Next]_(A!vars) PROVE MoodInv'
      OBVIOUS
    <2>1. ASSUME A!Recompute, booted' = booted, connection' \in {"ok", "disconnected"},
                 daemonPaused' \in BOOLEAN, unhealthy' \subseteq Backends,
                 fetchError' \in BOOLEAN, dlq' \in BOOLEAN
          PROVE  MoodInv'
      BY <2>1, Recomputed DEF MoodInv, A!TypeOK
    <2>2. CASE A!ConnectionChanges
      BY <2>1, <2>2 DEF A!ConnectionChanges, MoodInv, A!TypeOK
    <2>3. CASE A!BackendsFetched
      BY <2>1, <2>3 DEF A!BackendsFetched, MoodInv, A!TypeOK
    <2>4. CASE A!DLQFetched
      BY <2>1, <2>4 DEF A!DLQFetched, MoodInv, A!TypeOK
    <2>5. CASE A!StatusFetched
      BY <2>1, <2>5 DEF A!StatusFetched, MoodInv, A!TypeOK
    <2> USE DEF MoodInv, A!TypeOK, A!CalmWhenOperational, A!AckIsForOneIncident, A!signals
    <2>6. CASE A!BootEnds
      BY <2>6 DEF A!BootEnds, A!derived
    <2>7. CASE A!Escalate
      <3>1. escalationLevel' \in 0..TopLevel
        BY <2>7 DEF A!Escalate, A!AtmosphereAssumption
      <3>2. QED
        BY <2>7, <3>1 DEF A!Escalate
    <2>8. CASE A!Acknowledge
      BY <2>8 DEF A!Acknowledge
    <2>9. CASE UNCHANGED A!vars
      BY <2>9 DEF A!vars, A!derived
    <2>10. QED
      BY <2>2, <2>3, <2>4, <2>5, <2>6, <2>7, <2>8, <2>9 DEF A!Next
  <1>3. QED
    BY <1>1, <1>2, PTL DEF A!Spec, MoodInv

-----------------------------------------------------------------------------
\* The hosts: HostViews.

\* The node of a GPU stands for one backend or for none.
LEMMA NodeOfOneHost ==
  ASSUME NEW Wanted
  PROVE  V!First(Wanted) = {} \/ \E h : V!First(Wanted) = {h}
  <1> DEFINE fit == V!SelectSeq(Hosts, LAMBDA h : h \in Wanted)
  <1>1. V!First(Wanted) = IF fit = <<>> THEN {} ELSE {fit[1]}
    BY DEF V!First
  <1> HIDE DEF fit
  <1>2. QED
    BY <1>1

HostsInv == V!HostTypeOK /\ glitch \intersect healthy = {}

\* The node of a GPU and the card of its backend say the same.
LEMMA CardsAreNodes ==
  ASSUME NEW found, found = {} \/ \E h : found = {h}
  PROVE  V!NodeIsCard(found)
         /\ (found # {} /\ found \subseteq healthy <=> V!GpuNode(found) # "threat")
  <1>1. CASE found = {}
    BY <1>1 DEF V!NodeIsCard, V!GpuNode, V!Serving
  <1>2. CASE \E h : found = {h}
    <2>1. PICK h : found = {h}
      BY <1>2
    <2>2. V!GpuNode(found) = IF h \notin healthy THEN "threat"
                           ELSE IF currentJob /\ loaded[h] = "family" THEN "glow" ELSE "dim"
      BY <2>1 DEF V!GpuNode, V!Serving
    <2>3. /\ V!DeriveHostState(h) = "offline" <=> h \notin healthy
          /\ V!DeriveHostState(h) = "running" <=> h \in healthy /\ currentJob
             /\ loaded[h] = "family"
      BY DEF V!DeriveHostState, V!MatchesBackend
    <2>4. QED
      BY <2>1, <2>2, <2>3 DEF V!NodeIsCard
  <1>3. QED
    BY <1>1, <1>2

\* Where the topology is lit it is lit from one end to the other.
LEMMA PathLit == V!PathWhole
  BY DEF V!PathWhole, V!RouterEdge, V!GpuEdge, V!SensingEdge, V!DaemonNode, V!ProxyEdge,
     V!IsDaemonJob, V!IsProxy, V!Paused, V!NeitherServing

\* The marks of the gauge lie in the order of the thresholds.
LEMMA GaugeInOrder == V!GaugeOrdered
  BY DEF V!GaugeOrdered, V!PauseNorm, V!ResumeNorm

\* The compute zone is unhealthy when there are backends and the cards of all of them pulse.
LEMMA CardsPulse ==
  ASSUME HostsInv
  PROVE  V!ComputeAllUnhealthy <=> V!All # {} /\ \A h \in V!All : "pulse" \in V!CardShows(h)
  <1>1. ASSUME NEW h PROVE "pulse" \in V!CardShows(h) <=> h \notin healthy
    <2>1. V!DeriveHostState(h) # "pulse"
      BY DEF V!DeriveHostState
    <2>2. QED
      BY <2>1 DEF V!CardShows
  <1>2. healthy \subseteq V!All
    BY DEF HostsInv, V!HostTypeOK
  <1>3. QED
    BY <1>1, <1>2 DEF V!ComputeAllUnhealthy

\* The cards, the topology and the panel of a node draw one state of the backends.
THEOREM Hosting == V!HostSpec => [](V!HostTypeOK /\ V!ViewsAgree)
  <1>1. V!Init => HostsInv
    <2> SUFFICES ASSUME V!Init PROVE HostsInv
      OBVIOUS
    <2>1. daemon \in V!DaemonRows
      BY DEF V!Init, V!DaemonRows
    <2>2. currentJob \in BOOLEAN /\ activeEval \subseteq V!All /\ healthy \subseteq V!All
      BY DEF V!Init
    <2>3. glitch \subseteq V!All /\ glitch \intersect healthy = {}
      BY DEF V!Init
    <2>4. loaded \in [V!All -> {"nothing", "other", "family"}]
          /\ expandedNode \in V!Nodes \union {"none"}
      BY DEF V!Init
    <2>5. QED
      BY <2>1, <2>2, <2>3, <2>4 DEF HostsInv, V!HostTypeOK
  <1>2. HostsInv /\ [V!Next]_(V!hostVars) => HostsInv'
    <2> SUFFICES ASSUME HostsInv, [V!Next]_(V!hostVars) PROVE HostsInv'
      OBVIOUS
    <2> USE DEF HostsInv, V!HostTypeOK
    <2>1. CASE V!StatusFetched
      BY <2>1 DEF V!StatusFetched
    <2>2. CASE V!BackendsFetched
      BY <2>2 DEF V!BackendsFetched
    <2>3. ASSUME NEW n \in V!Nodes, V!SelectNode(n) PROVE HostsInv'
      BY <2>3 DEF V!SelectNode
    <2>4. CASE UNCHANGED V!hostVars
      BY <2>4 DEF V!hostVars
    <2>5. QED
      BY <2>1, <2>2, <2>3, <2>4 DEF V!Next
  <1>3. ASSUME HostsInv PROVE V!ViewsAgree
    <2>1. /\ V!Gtx = {} \/ \E h : V!Gtx = {h}
          /\ V!Rtx = {} \/ \E h : V!Rtx = {h}
      BY NodeOfOneHost DEF V!Gtx, V!Rtx
    <2>2. V!NodeIsCard(V!Gtx) /\ V!NodeIsCard(V!Rtx)
      BY <2>1, CardsAreNodes
    <2>3. V!PanelIsNode
      <3>1. /\ V!Gtx # {} /\ V!Gtx \subseteq healthy <=> V!GpuNode(V!Gtx) # "threat"
            /\ V!Rtx # {} /\ V!Rtx \subseteq healthy <=> V!GpuNode(V!Rtx) # "threat"
        BY <2>1, CardsAreNodes
      <3>2. QED
        BY <3>1 DEF V!PanelIsNode, V!DetailRow
    <2>4. QED
      BY <1>3, <2>2, <2>3, PathLit, GaugeInOrder, CardsPulse DEF V!ViewsAgree, HostsInv
  <1>4. QED
    BY <1>1, <1>2, <1>3, PTL DEF V!HostSpec, HostsInv

-----------------------------------------------------------------------------
\* The log a card tails: LogTail.

\* The requests of the tail.
TailFetches == [job : TailJobs, stage : {"sent", "body"}, cancelled : BOOLEAN]

TailInv ==
    /\ tailOpen \in BOOLEAN /\ isRunning \in BOOLEAN
    /\ jobId \in TailJobs \union {NoJob} /\ logOf \in TailJobs \union {NoJob}
    /\ fetches \subseteq TailFetches

\* Running the effect again marks what is in flight and asks for the log of the card's job.
LEMMA RerunKeeps ==
  ASSUME TailInv, T!Rerun, jobId' \in TailJobs \union {NoJob}
  PROVE  fetches' \subseteq TailFetches /\ logOf' \in TailJobs \union {NoJob}
  <1>1. T!Cancelled \subseteq TailFetches
    BY DEF TailInv, TailFetches, T!Cancelled
  <1>2. jobId' # NoJob => T!Fetch(jobId') \in TailFetches
    BY DEF TailFetches, T!Fetch
  <1>3. QED
    BY <1>1, <1>2 DEF TailInv, T!Rerun

\* The tail of a card asks for logs of jobs, and shows the log of one or of none.
THEOREM Tailing == T!TailSpec => []T!TailTypeOK
  <1>1. T!Init => TailInv
    BY DEF T!Init, TailInv
  <1>2. TailInv /\ [T!Next]_(T!tailVars) => TailInv'
    <2> SUFFICES ASSUME TailInv, [T!Next]_(T!tailVars) PROVE TailInv'
      OBVIOUS
    <2>1. CASE T!ToggleDetails
      BY <2>1, RerunKeeps DEF T!ToggleDetails, TailInv
    <2>2. CASE T!CardChanges
      BY <2>2, RerunKeeps DEF T!CardChanges, TailInv
    <2>3. CASE T!TailTick
      <3>1. jobId \in TailJobs
        BY <2>3 DEF T!TailTick, T!Tailing, TailInv
      <3>2. T!Fetch(jobId) \in TailFetches
        BY <3>1 DEF T!Fetch, TailFetches
      <3>3. QED
        BY <2>3, <3>2 DEF T!TailTick, TailInv
    <2>4. CASE T!LogLinkChanges
      BY <2>4 DEF T!LogLinkChanges, TailInv
    <2>5. ASSUME NEW f \in fetches, T!HeadArrives(f) PROVE TailInv'
      <3>1. [f EXCEPT !.stage = "body"] \in TailFetches
        BY DEF TailInv, TailFetches
      <3>2. QED
        BY <2>5, <3>1 DEF T!HeadArrives, TailInv
    <2>6. ASSUME NEW f \in fetches, T!BodyArrives(f) PROVE TailInv'
      <3>1. f.job \in TailJobs
        BY DEF TailInv, TailFetches
      <3>2. QED
        BY <2>6, <3>1 DEF T!BodyArrives, TailInv
    <2>7. CASE UNCHANGED T!tailVars
      BY <2>7 DEF T!tailVars, TailInv
    <2>8. QED
      BY <2>1, <2>2, <2>3, <2>4, <2>5, <2>6, <2>7 DEF T!Next
  <1>3. TailInv => T!TailTypeOK
    BY DEF TailInv, TailFetches, T!TailTypeOK
  <1>4. QED
    BY <1>1, <1>2, <1>3, PTL DEF T!TailSpec

-----------------------------------------------------------------------------
\* The progress of a run: EvalConsole.

\* A set of naturals that is finite and not empty has a greatest element.
LEMMA Greatest ==
  ASSUME NEW Chosen \in SUBSET Nat, IsFiniteSet(Chosen), Chosen # {}
  PROVE  \E x \in Chosen : \A y \in Chosen : y <= x
  <1> DEFINE Headless == {Seen \in FiniteSubsetsOf(Chosen) : Seen # {}
                          /\ ~ \E x \in Seen : \A y \in Seen : y <= x}
  <1> SUFFICES ASSUME Headless # {}
               PROVE  FALSE
    <2>1. Chosen \in FiniteSubsetsOf(Chosen)
      BY FS_FiniteSubsetsOfFinite
    <2>2. Chosen \notin {} /\ (Headless = {} => Chosen \notin Headless)
      OBVIOUS
    <2>3. QED
      BY <2>1, <2>2
  <1>1. PICK Seen \in Headless : \A Lower \in Headless :
               <<Lower, Seen>> \notin StrictSubsetOrdering(Chosen)
    BY FS_StrictSubsetOrderingWellFounded, WFMin
  <1>2. Seen \in SUBSET Chosen /\ IsFiniteSet(Seen)
    BY <1>1, FS_FiniteSubsetsOfFinite, FS_Subset
  <1>3. PICK x \in Seen : TRUE
    BY <1>1
  <1> DEFINE Lower == Seen \ {x}
  <1>4. Lower \in SUBSET Chosen /\ IsFiniteSet(Lower) /\ Lower # Seen
    BY <1>2, <1>3, FS_RemoveElement
  <1>5. Lower \notin Headless
    BY <1>1, <1>2, <1>4 DEF StrictSubsetOrdering
  <1>6. CASE Lower = {}
    <2>1. Seen = {x} /\ x \in Nat
      BY <1>2, <1>3, <1>6
    <2>2. QED
      BY <1>1, <2>1
  <1>7. CASE Lower # {}
    <2>1. PICK m \in Lower : \A y \in Lower : y <= m
      BY <1>4, <1>5, <1>7, FS_FiniteSubsetsOfFinite
    <2>2. m \in Nat /\ x \in Nat /\ m \in Seen
      BY <1>2, <1>3, <2>1
    <2>3. \A y \in Seen : y <= IF m >= x THEN m ELSE x
      BY <1>2, <2>1, <2>2
    <2>4. QED
      BY <1>1, <1>3, <2>2, <2>3
  <1>8. QED
    BY <1>6, <1>7

\* Requests and orders as they are made; the runs there are have a greatest id.
ReadKinds == [kind : {"tick", "check"}, id : Runs, seen : E!Statuses]
               \union [kind : {"list"}, id : {NoRun}, seen : Runs \union {NoRun}]
OrderKinds == [op : {"create"}, id : {NoRun}, served : {FALSE}]
                \union [op : {"create", "cancel"}, id : Runs, served : BOOLEAN]
ShownKinds == [id : Runs, status : E!Statuses] \union {NoRun}

RunsMade == /\ runStatus \in [Runs -> E!Statuses]
            /\ \E b \in Nat : \A r \in Runs : runStatus[r] # "none" => r <= b
PageTyped ==
    /\ evalLink \in {"up", "refusing", "down"} /\ evalTab \in BOOLEAN /\ mishap \in BOOLEAN
             /\ activeRun \in ShownKinds /\ poll \in Runs \union {NoRun}
ReadsTyped == consoleReads \subseteq ReadKinds
OrdersTyped == consoleOrders \subseteq OrderKinds
ConsoleInv == RunsMade /\ PageTyped /\ ReadsTyped /\ OrdersTyped /\ E!StandsStillNeedsMishap

\* The newest run that works is a run, or none: a finite set of ids has a greatest one.
LEMMA NewestIsRun ==
  ASSUME E!EvalAssumption, RunsMade
  PROVE  E!NewestWorking \in Runs \union {NoRun}
  <1> DEFINE working == {r \in Runs : runStatus[r] = "working"}
  <1>1. CASE working = {}
    BY <1>1 DEF E!NewestWorking
  <1>2. CASE working # {}
    <2>1. working \in SUBSET Nat
      BY DEF E!EvalAssumption
    <2>2. PICK b \in Nat : \A r \in working : r <= b
      BY DEF RunsMade
    <2>3. IsFiniteSet(working)
      BY <2>1, <2>2, FS_BoundedSetOfNaturals
    <2>4. \E x \in working : \A y \in working : y <= x
      BY <1>2, <2>1, <2>3, Greatest
    <2>5. \E x \in working : \A y \in working : x >= y
      BY <2>1, <2>4
    <2>6. E!Max(working) \in working
      BY <2>5 DEF E!Max
    <2>7. QED
      BY <1>2, <2>6 DEF E!NewestWorking
  <1>3. QED
    BY <1>1, <1>2

\* What a read is answered is a status or a run (api/eval_runs).
LEMMA AnswerKinds ==
  ASSUME E!EvalAssumption, ConsoleInv, NEW q \in consoleReads
  PROVE  /\ q.kind \in {"tick", "check"} => q.id \in Runs /\ E!Answers(q) \subseteq E!Statuses
         /\ q.kind = "list" => E!Answers(q) \subseteq Runs \union {NoRun}
  BY NewestIsRun DEF ConsoleInv, RunsMade, ReadsTyped, ReadKinds, E!Answers, E!Says

\* The list is asked for by a read like the others, and no other is withdrawn.
LEMMA AskListTyped ==
  ASSUME E!EvalAssumption, ConsoleInv, NEW rs, rs \subseteq ReadKinds
  PROVE  E!AskList(rs) \subseteq ReadKinds /\ rs \subseteq E!AskList(rs)
  BY NewestIsRun DEF ConsoleInv, E!AskList, E!Read, E!Says, ReadKinds

\* Who adds requests and takes none for the shown run away disturbs nothing.
LEMMA StillAsked ==
  ASSUME ConsoleInv, UNCHANGED E!console,
         \A q \in consoleReads : q.kind = "check" /\ E!IsShown(q.id) => q \in consoleReads'
  PROVE  E!StandsStillNeedsMishap'
  BY DEF ConsoleInv, E!console, E!StandsStillNeedsMishap, E!StandsStill, E!Live, E!IsShown

\* ConsoleInv is inductive.
LEMMA ConsoleKept ==
  ASSUME E!EvalAssumption, ConsoleInv, E!Next
  PROVE  ConsoleInv'
  <1> USE E!EvalAssumption
  <1>a. RunsMade /\ PageTyped /\ ReadsTyped /\ OrdersTyped /\ E!StandsStillNeedsMishap
    BY DEF ConsoleInv
  <1>b. NoRun \notin Runs
    BY DEF E!EvalAssumption
  <1>1. CASE E!OpenEval
    <2>1. ReadsTyped' /\ consoleReads \subseteq consoleReads'
      BY <1>a, <1>1, AskListTyped DEF E!OpenEval, ReadsTyped
    <2>2. RunsMade' /\ PageTyped' /\ OrdersTyped'
      BY <1>a, <1>1 DEF E!OpenEval, RunsMade, PageTyped, OrdersTyped, E!console
    <2>3. QED
      BY <1>1, <2>1, <2>2, StillAsked DEF E!OpenEval, ConsoleInv
  <1>2. CASE E!LeaveEval
    <2>1. RunsMade' /\ PageTyped' /\ OrdersTyped' /\ ReadsTyped'
      BY <1>a, <1>2 DEF E!LeaveEval, RunsMade, PageTyped, OrdersTyped, ReadsTyped
    <2>2. E!StandsStillNeedsMishap'
      <3>1. CASE poll # NoRun /\ poll' = NoRun /\ mishap' = (mishap \/ poll # NoRun)
        BY <3>1 DEF E!StandsStillNeedsMishap
      <3>2. CASE UNCHANGED E!console /\ UNCHANGED consoleReads
        BY <3>2, StillAsked
      <3>3. QED
        BY <1>a, <1>2, <3>1, <3>2 DEF E!LeaveEval, E!console, PageTyped
    <2>3. QED
      BY <2>1, <2>2 DEF ConsoleInv
  <1>3. CASE E!Reload
    <2>1. activeRun # NoRun => activeRun \in [id : Runs, status : E!Statuses]
      BY <1>a DEF PageTyped, ShownKinds
    <2>2. RunsMade' /\ PageTyped' /\ OrdersTyped'
      BY <1>a, <1>3 DEF E!Reload, RunsMade, PageTyped, OrdersTyped
    <2>3. ReadsTyped'
      BY <1>a, <1>3, <2>1 DEF E!Reload, ReadsTyped, E!Read, E!Says, ReadKinds, RunsMade
    <2>4. E!StandsStillNeedsMishap'
      BY <1>a, <1>3 DEF E!Reload, E!StandsStillNeedsMishap, E!StandsStill, E!Live,
         E!IsShown, E!Read
    <2>5. QED
      BY <2>2, <2>3, <2>4 DEF ConsoleInv
  <1>4. CASE E!OrderRun \/ E!OrderCancel
    <2>1. OrdersTyped'
      <3>1. activeRun # NoRun => activeRun.id \in Runs
        BY <1>a DEF PageTyped, ShownKinds
      <3>2. CASE E!OrderRun
        <4>1. E!Order("create", NoRun) \in OrderKinds
          BY DEF E!Order, OrderKinds
        <4>2. QED
          BY <1>a, <3>2, <4>1 DEF E!OrderRun, OrdersTyped
      <3>3. CASE E!OrderCancel
        <4>1. activeRun # NoRun
          BY <3>3 DEF E!OrderCancel, E!PanelShows, E!Live
        <4>2. E!Order("cancel", activeRun.id) \in OrderKinds
          BY <3>1, <4>1 DEF E!Order, OrderKinds
        <4>3. QED
          BY <1>a, <3>3, <4>2 DEF E!OrderCancel, OrdersTyped
      <3>4. QED
        BY <1>4, <3>2, <3>3
    <2>2. RunsMade' /\ PageTyped' /\ ReadsTyped'
      BY <1>a, <1>4 DEF E!OrderRun, E!OrderCancel, RunsMade, PageTyped, ReadsTyped,
         E!console
    <2>3. QED
      BY <1>4, <2>1, <2>2, StillAsked DEF E!OrderRun, E!OrderCancel, ConsoleInv
  <1>5. ASSUME NEW r \in Runs, NEW s \in E!Statuses \ {"none"}, 
               runStatus[r] # "none" \/ r \in E!New,
               runStatus' = [runStatus EXCEPT ![r] = s]
        PROVE  RunsMade'
    <2>1. runStatus' \in [Runs -> E!Statuses] /\ \A p \in Runs : p # r
            => runStatus'[p] = runStatus[p]
      BY <1>a, <1>5 DEF RunsMade
    <2>2. PICK b \in Nat : \A p \in Runs : runStatus[p] # "none" => p <= b
      BY <1>a DEF RunsMade
    <2>3. r \in Nat /\ Runs \subseteq Nat
      BY DEF E!EvalAssumption
    <2>4. PICK c \in Nat : c >= b /\ c >= r
      BY <2>2, <2>3
    <2>5. \A p \in Runs : runStatus'[p] # "none" => p <= c
      BY <2>1, <2>2, <2>3, <2>4
    <2>6. QED
      BY <2>1, <2>5 DEF RunsMade
  <1>6. ASSUME NEW o \in consoleOrders, E!OrderServed(o) PROVE ConsoleInv'
    <2>1. o \in OrderKinds
      BY <1>a DEF OrdersTyped
    <2>2. UNCHANGED <<evalLink, evalTab, consoleReads>> /\ UNCHANGED E!console
      BY <1>6 DEF E!OrderServed
    <2>3. CASE evalLink # "up"
      <3>1. RunsMade' /\ OrdersTyped'
        BY <1>a, <1>6, <2>3 DEF E!OrderServed, RunsMade, OrdersTyped
      <3>2. QED
        BY <1>a, <2>2, <3>1, StillAsked DEF ConsoleInv, PageTyped, ReadsTyped, E!console
    <2>4. CASE evalLink = "up" /\ o.op = "create"
      <3>1. PICK r \in E!New : /\ runStatus' = [runStatus EXCEPT ![r] = "queued"]
                               /\ consoleOrders' = (consoleOrders \ {o})
                                  \union {[o EXCEPT !.served = TRUE, !.id = r]}
        BY <1>6, <2>4 DEF E!OrderServed
      <3>2. r \in Runs
        BY DEF E!New
      <3>3. RunsMade'
        BY <1>5, <3>1, <3>2 DEF E!Statuses
      <3>4. [o EXCEPT !.served = TRUE, !.id = r] \in OrderKinds
        BY <2>1, <3>2 DEF OrderKinds
      <3>5. OrdersTyped'
        BY <1>a, <3>1, <3>4 DEF OrdersTyped
      <3>6. QED
        BY <1>a, <2>2, <3>3, <3>5, StillAsked
           DEF ConsoleInv, PageTyped, ReadsTyped, E!console
    <2>5. CASE evalLink = "up" /\ o.op # "create"
      <3>1. /\ runStatus' = [runStatus EXCEPT ![o.id] = "ended"]
            /\ consoleOrders' = (consoleOrders \ {o}) \union
                    (IF runStatus[o.id] = "ended" THEN {} ELSE {[o EXCEPT !.served = TRUE]})
        BY <1>6, <2>5 DEF E!OrderServed
      <3>2. o.id \in Runs
        BY <2>1, <2>5 DEF OrderKinds
      <3>3. RunsMade'
        BY <1>a, <3>1, <3>2 DEF RunsMade, E!Statuses, E!EvalAssumption
      <3>4. [o EXCEPT !.served = TRUE] \in OrderKinds
        BY <2>1, <2>5 DEF OrderKinds
      <3>5. OrdersTyped'
        BY <1>a, <3>1, <3>4 DEF OrdersTyped
      <3>6. QED
        BY <1>a, <2>2, <3>3, <3>5, StillAsked
           DEF ConsoleInv, PageTyped, ReadsTyped, E!console
    <2>6. QED
      BY <2>3, <2>4, <2>5
  <1>7. ASSUME NEW o \in consoleOrders, E!OrderDone(o) PROVE ConsoleInv'
    <2>1. o \in OrderKinds /\ o.served
      BY <1>a, <1>7 DEF OrdersTyped, E!OrderDone
    <2>2. o.id \in Runs
      BY <2>1 DEF OrderKinds
    <2>3. ReadsTyped'
      BY <1>a, <1>7, AskListTyped DEF E!OrderDone, ReadsTyped
    <2>4. RunsMade' /\ PageTyped' /\ OrdersTyped'
      BY <1>a, <1>7, <2>2 DEF E!OrderDone, RunsMade, PageTyped, OrdersTyped, ShownKinds,
         E!Shown, E!Statuses
    <2>5. E!StandsStillNeedsMishap'
      BY <1>7 DEF E!OrderDone, E!StandsStillNeedsMishap, E!StandsStill, E!Live, E!Shown
    <2>6. QED
      BY <2>3, <2>4, <2>5 DEF ConsoleInv
  <1>8. CASE E!PollTick
    <2>1. ReadsTyped'
      BY <1>a, <1>8 DEF E!PollTick, ReadsTyped, E!Read, E!Says, ReadKinds, RunsMade,
         PageTyped
    <2>2. RunsMade' /\ PageTyped' /\ OrdersTyped' /\ consoleReads \subseteq consoleReads'
      BY <1>a, <1>8 DEF E!PollTick, RunsMade, PageTyped, OrdersTyped, E!console
    <2>3. QED
      BY <1>8, <2>1, <2>2, StillAsked DEF E!PollTick, ConsoleInv
  <1>9. ASSUME NEW q \in consoleReads, E!TickLands(q) PROVE ConsoleInv'
    <2>1. q.kind = "tick" /\ q.id \in Runs /\ E!Answers(q) \subseteq E!Statuses
      BY <1>9, AnswerKinds DEF E!TickLands
    <2>2. RunsMade' /\ OrdersTyped' /\ UNCHANGED <<evalLink, evalTab>>
      BY <1>a, <1>9 DEF E!TickLands, RunsMade, OrdersTyped
    <2>3. CASE evalLink # "up"
      <3>1. UNCHANGED E!console /\ consoleReads' = consoleReads \ {q}
        BY <1>9, <2>3 DEF E!TickLands
      <3>2. QED
        BY <1>a, <2>1, <2>2, <3>1, StillAsked
           DEF ConsoleInv, PageTyped, ReadsTyped, E!console
    <2>4. CASE evalLink = "up"
      <3>1. PICK a \in E!Answers(q) :
              /\ activeRun' = E!Shown(q.id, a)
              /\ mishap' = (mishap \/ q.id # poll)
              /\ IF a = "ended"
                   THEN poll' = NoRun /\ consoleReads' = E!AskList(consoleReads \ {q})
                   ELSE consoleReads' = consoleReads \ {q} /\ UNCHANGED poll
        BY <1>9, <2>4 DEF E!TickLands
      <3>2. ReadsTyped'
        <4>1. consoleReads \ {q} \subseteq ReadKinds
          BY <1>a DEF ReadsTyped
        <4>2. QED
          BY <3>1, <4>1, AskListTyped DEF ReadsTyped
      <3>3. PageTyped'
        BY <1>a, <2>1, <2>2, <3>1 DEF PageTyped, ShownKinds, E!Shown
      <3>4. E!StandsStillNeedsMishap'
        BY <3>1 DEF E!StandsStillNeedsMishap, E!StandsStill, E!Live, E!Shown
      <3>5. QED
        BY <2>2, <3>2, <3>3, <3>4 DEF ConsoleInv
    <2>5. QED
      BY <2>3, <2>4
  <1>10. ASSUME NEW q \in consoleReads, E!ListLands(q) PROVE ConsoleInv'
    <2>1. q.kind = "list" /\ E!Answers(q) \subseteq Runs \union {NoRun}
          /\ consoleReads' = consoleReads \ {q}
          /\ UNCHANGED <<runStatus, evalLink, evalTab, activeRun, mishap, consoleOrders>>
      BY <1>10, AnswerKinds DEF E!ListLands
    <2>2. poll' = poll \/ (activeRun = NoRun /\ poll' \in Runs \union {NoRun})
      BY <1>10, <2>1 DEF E!ListLands
    <2>3. RunsMade' /\ PageTyped' /\ OrdersTyped' /\ ReadsTyped'
      BY <1>a, <2>1, <2>2 DEF RunsMade, PageTyped, OrdersTyped, ReadsTyped
    <2>4. E!StandsStillNeedsMishap'
      BY <1>a, <2>1, <2>2 DEF E!StandsStillNeedsMishap, E!StandsStill, E!Live, E!IsShown
    <2>5. QED
      BY <2>3, <2>4 DEF ConsoleInv
  <1>11. ASSUME NEW q \in consoleReads, E!CheckLands(q) PROVE ConsoleInv'
    <2>1. q.kind = "check" /\ q.id \in Runs /\ consoleReads' = consoleReads \ {q}
          /\ UNCHANGED <<runStatus, evalLink, evalTab, consoleOrders>>
      BY <1>11, AnswerKinds DEF E!CheckLands
    <2>2. \/ mishap' = TRUE /\ UNCHANGED <<activeRun, poll>>
          \/ E!IsShown(q.id) /\ activeRun' = NoRun /\ UNCHANGED <<poll, mishap>>
          \/ E!IsShown(q.id) /\ poll' = q.id /\ UNCHANGED <<activeRun, mishap>>
          \/ ~E!IsShown(q.id) /\ UNCHANGED E!console
      BY <1>11 DEF E!CheckLands
    <2>3. RunsMade' /\ PageTyped' /\ OrdersTyped' /\ ReadsTyped'
      BY <1>a, <2>1, <2>2 DEF RunsMade, PageTyped, OrdersTyped, ReadsTyped, ShownKinds,
         E!console
    <2>4. E!StandsStillNeedsMishap'
      BY <1>a, <2>1, <2>2 DEF E!StandsStillNeedsMishap, E!StandsStill, E!Live, E!IsShown,
         E!console
    <2>5. QED
      BY <2>3, <2>4 DEF ConsoleInv
  <1>12. ASSUME NEW r \in Runs, E!RunWorks(r) \/ E!RunEnds(r) \/ E!OthersStart(r)
         PROVE  ConsoleInv'
    <2>1. RunsMade'
      BY <1>5, <1>12 DEF E!RunWorks, E!RunEnds, E!OthersStart, E!Statuses
    <2>2. PageTyped' /\ OrdersTyped' /\ ReadsTyped'
      BY <1>a, <1>12 DEF E!RunWorks, E!RunEnds, E!OthersStart, PageTyped, OrdersTyped,
         ReadsTyped, E!console
    <2>3. QED
      BY <1>12, <2>1, <2>2, StillAsked DEF E!RunWorks, E!RunEnds, E!OthersStart, ConsoleInv
  <1>13. CASE E!EvalLinkChanges
    <2>1. RunsMade' /\ PageTyped' /\ OrdersTyped' /\ ReadsTyped'
      BY <1>a, <1>13 DEF E!EvalLinkChanges, RunsMade, PageTyped, OrdersTyped, ReadsTyped,
         E!console
    <2>2. QED
      BY <1>13, <2>1, StillAsked DEF E!EvalLinkChanges, ConsoleInv
  <1>14. QED
    BY <1>1, <1>2, <1>3, <1>4, <1>6, <1>7, <1>8, <1>9, <1>10, <1>11, <1>12, <1>13 DEF E!Next

\* The progress of a run is polled until it ends, but for the three named mishaps (store:
\* startEvalPoll, stopEvalPoll and their callers).
THEOREM ProgressFollowed == E!EvalSpec => [](E!EvalTypeOK /\ E!StandsStillNeedsMishap)
  <1> E!EvalAssumption
    BY DashboardAssumption DEF DashboardAssumption
  <1>1. E!Init => ConsoleInv
    <2> SUFFICES ASSUME E!Init PROVE ConsoleInv
      OBVIOUS
    <2>1. RunsMade
      BY DEF E!Init, RunsMade, E!Statuses
    <2>2. QED
      BY <2>1 DEF E!Init, E!EvalAssumption, ConsoleInv, PageTyped, ReadsTyped, OrdersTyped,
         ShownKinds, E!StandsStillNeedsMishap, E!StandsStill, E!Live
  <1>2. ConsoleInv /\ [E!Next]_(E!evalVars) => ConsoleInv'
    <2>1. ASSUME ConsoleInv, UNCHANGED E!evalVars PROVE ConsoleInv'
      BY <2>1 DEF E!evalVars, E!console, ConsoleInv, RunsMade, PageTyped, ReadsTyped,
         OrdersTyped, ShownKinds, E!StandsStillNeedsMishap, E!StandsStill, E!Live, E!IsShown
    <2>2. QED
      BY <2>1, ConsoleKept
  <1>3. ConsoleInv => E!EvalTypeOK /\ E!StandsStillNeedsMishap
    <2> SUFFICES ASSUME ConsoleInv PROVE E!EvalTypeOK
      BY DEF ConsoleInv
    <2> USE DEF ConsoleInv
    <2>1. \A q \in consoleReads : q.kind \in {"tick", "list", "check"}
          /\ q.id \in Runs \union {NoRun}
      BY DEF ReadsTyped, ReadKinds
    <2>2. \A o \in consoleOrders : o.op \in {"create", "cancel"} /\ o.served \in BOOLEAN
      BY DEF OrdersTyped, OrderKinds
    <2>3. QED
      BY <2>1, <2>2 DEF RunsMade, PageTyped, ShownKinds, E!EvalTypeOK
  <1>4. QED
    BY <1>1, <1>2, <1>3, PTL DEF E!EvalSpec

-----------------------------------------------------------------------------
\* Starting a run: RunTrigger.

\* The fields of the form are those of its mode, as the selector shows them; a verdict that
\* is out has been asked for; and the one start is under way while the button says so.
FieldsCurrent == modeFields = K!BuildSubFields(runMode, fillLimit, fillHours, scheduledAt)
Asked == checks \in Nat
OneAtATime ==
    /\ starting <=> starts # {}
    /\ \A s, r \in starts : s = r

TriggerInv ==
    K!TriggerTypeOK /\ FieldsCurrent /\ K!NoStaleFields /\ Asked /\ K!VerdictComes /\ OneAtATime

\* Whatever the mode, the fields it adds are of their types or none.
LEMMA FieldsTyped ==
  ASSUME NEW m \in K!Modes, NEW l \in K!Limits, NEW h \in Hours, NEW at \in K!Moments
  PROVE  K!BuildSubFields(m, l, h, at) \in [limit : K!Limits \union {NoField},
                                            hours : Hours \union {NoField},
                                          at : K!Moments \union {NoField}]
  BY DEF K!BuildSubFields

\* TriggerInv is inductive.
LEMMA TriggerKept ==
  ASSUME TriggerInv, K!Next
  PROVE  TriggerInv'
  <1> USE DEF TriggerInv
  <1>1. CASE K!MountPanel
    <2>1. K!BuildSubFields("batch", fillLimit, fillHours, scheduledAt) =
            [limit |-> NoField, hours |-> NoField, at |-> NoField]
      BY DEF K!BuildSubFields
    <2>2. FieldsCurrent'
      BY <1>1, <2>1 DEF K!MountPanel, K!modeSignals, FieldsCurrent, K!BuildSubFields
    <2>3. Asked' /\ verdict' \in {"none", "checking"}
      BY <1>1 DEF K!MountPanel, K!CheckReadiness, Asked
    <2>4. K!VerdictComes'
      <3>1. CASE panel' = "open"
        BY <1>1, <3>1 DEF K!MountPanel, K!CheckReadiness, Asked, K!VerdictComes
      <3>2. CASE panel' # "open"
        BY <1>1, <3>2 DEF K!MountPanel, K!VerdictComes
      <3>3. QED
        BY <3>1, <3>2
    <2>5. K!TriggerTypeOK'
      BY <1>1, <2>3 DEF K!MountPanel, K!modeSignals, K!TriggerTypeOK, K!Modes
    <2>6. K!NoStaleFields' /\ OneAtATime'
      BY <1>1 DEF K!MountPanel, K!NoStaleFields, OneAtATime, K!BuildSubFields
    <2>7. QED
      BY <2>2, <2>3, <2>4, <2>5, <2>6
  <1>2. CASE K!LeavePanel
    <2>1. K!TriggerTypeOK'
      BY <1>2 DEF K!LeavePanel, K!form, K!modeSignals, K!TriggerTypeOK
    <2>2. FieldsCurrent' /\ K!NoStaleFields' /\ Asked' /\ K!VerdictComes' /\ OneAtATime'
      BY <1>2 DEF K!LeavePanel, K!form, K!modeSignals, FieldsCurrent, K!NoStaleFields,
         Asked, K!VerdictComes, OneAtATime, K!BuildSubFields
    <2>3. QED
      BY <2>1, <2>2
  <1>3. CASE K!TogglePanel \/ K!TryAgain \/ K!CheckLands \/ K!Prime \/ K!PrimeLands
    <2>1. UNCHANGED <<K!form, K!modeSignals, starting, starts>>
      BY <1>3 DEF K!TogglePanel, K!TryAgain, K!CheckLands, K!Prime, K!PrimeLands
    <2>2. Asked'
      BY <1>3 DEF K!TogglePanel, K!TryAgain, K!CheckLands, K!Prime, K!PrimeLands,
         K!CheckReadiness, Asked
    <2>3. K!VerdictComes'
      BY <1>3 DEF K!TogglePanel, K!TryAgain, K!CheckLands, K!Prime, K!PrimeLands,
         K!CheckReadiness, Asked, K!VerdictComes
    <2>4. /\ panel' \in {"gone", "closed", "open"} /\ priming' \in BOOLEAN
          /\ verdict' \in {"none", "checking", "ready", "needs_prime", "offline"}
      BY <1>3 DEF K!TogglePanel, K!TryAgain, K!CheckLands, K!Prime, K!PrimeLands,
         K!CheckReadiness, K!TriggerTypeOK
    <2>5. K!TriggerTypeOK'
      BY <2>1, <2>4 DEF K!form, K!modeSignals, K!TriggerTypeOK
    <2>6. FieldsCurrent' /\ K!NoStaleFields' /\ OneAtATime'
      BY <2>1 DEF K!form, K!modeSignals, FieldsCurrent, K!NoStaleFields, OneAtATime,
         K!BuildSubFields
    <2>7. QED
      BY <2>2, <2>3, <2>5, <2>6
  <1>4. ASSUME K!EditOptions \/ \E v \in Variants : K!ToggleVariant(v)
        PROVE  TriggerInv'
    <2>1. UNCHANGED <<panel, runMode, modeFields, K!modeSignals, K!readiness, starting, starts>>
      BY <1>4 DEF K!EditOptions, K!ToggleVariant
    <2>2. picked' \subseteq Variants /\ options' \in {"fallback", "settings", "edited"}
      <3>1. CASE K!EditOptions
        BY <3>1 DEF K!EditOptions, K!TriggerTypeOK
      <3>2. ASSUME NEW v \in Variants, K!ToggleVariant(v)
            PROVE  picked' \subseteq Variants /\ options' = options
        BY <3>2 DEF K!ToggleVariant, K!TriggerTypeOK
      <3>3. QED
        BY <1>4, <3>1, <3>2 DEF K!TriggerTypeOK
    <2>3. K!TriggerTypeOK'
      BY <2>1, <2>2 DEF K!modeSignals, K!readiness, K!TriggerTypeOK
    <2>4. FieldsCurrent' /\ K!NoStaleFields' /\ Asked' /\ K!VerdictComes' /\ OneAtATime'
      BY <2>1 DEF K!modeSignals, K!readiness, FieldsCurrent, K!NoStaleFields, Asked,
         K!VerdictComes, OneAtATime, K!BuildSubFields
    <2>5. QED
      BY <2>3, <2>4
  <1>5. ASSUME \/ \E m \in K!Modes : K!ChooseMode(m)
               \/ \E limit \in K!Limits, hours \in Hours : K!EditFill(limit, hours)
               \/ \E at \in K!Moments : K!EditSchedule(at)
        PROVE  TriggerInv'
    <2>1. UNCHANGED <<panel, picked, options, K!readiness, starting, starts>>
      BY <1>5 DEF K!ChooseMode, K!EditFill, K!EditSchedule
    <2>2. runMode' \in K!Modes /\ fillLimit' \in K!Limits /\ fillHours' \in Hours
          /\ scheduledAt' \in K!Moments
      BY <1>5 DEF K!ChooseMode, K!EditFill, K!EditSchedule, K!TriggerTypeOK, K!modeSignals
    <2>3. modeFields' = K!BuildSubFields(runMode', fillLimit', fillHours', scheduledAt')
      BY <1>5 DEF K!ChooseMode, K!EditFill, K!EditSchedule, K!modeSignals
    <2>4. K!TriggerTypeOK'
      BY <2>1, <2>2, <2>3, FieldsTyped DEF K!readiness, K!TriggerTypeOK
    <2>5. FieldsCurrent'
      BY <2>3 DEF FieldsCurrent, K!BuildSubFields
    <2>6. K!NoStaleFields' /\ Asked' /\ K!VerdictComes' /\ OneAtATime'
      BY <2>1 DEF K!readiness, K!NoStaleFields, Asked, K!VerdictComes, OneAtATime,
         K!BuildSubFields
    <2>7. QED
      BY <2>4, <2>5, <2>6
  <1>6. CASE K!Submit
    <2>1. UNCHANGED <<panel, K!form, K!modeSignals, K!readiness>>
      BY <1>6 DEF K!Submit
    <2>2. starts = {}
      BY <1>6 DEF K!Submit, OneAtATime
    <2> DEFINE new == [mode |-> runMode, fields |-> modeFields, options |-> options,
                       chosen |-> <<fillLimit, fillHours, scheduledAt>>]
    <2>3. starts' = {new} /\ starting' = TRUE
      BY <1>6, <2>2 DEF K!Submit
    <2>4. K!TriggerTypeOK' /\ FieldsCurrent' /\ Asked' /\ K!VerdictComes'
      BY <2>1, <2>3 DEF K!form, K!modeSignals, K!readiness, K!TriggerTypeOK, FieldsCurrent,
         Asked, K!VerdictComes, K!BuildSubFields
    <2>5. OneAtATime'
      BY <2>3 DEF OneAtATime
    <2>6. new.fields = K!BuildSubFields(new.mode, new.chosen[1], new.chosen[2], new.chosen[3])
      BY DEF FieldsCurrent
    <2>7. K!NoStaleFields'
      BY <2>3, <2>6 DEF K!NoStaleFields, K!BuildSubFields
    <2>8. QED
      BY <2>4, <2>5, <2>7
  <1>7. ASSUME NEW s \in starts, K!StartLands(s) PROVE TriggerInv'
    <2>1. UNCHANGED <<K!form, K!modeSignals, K!readiness>> /\ panel' \in {panel, "closed"}
      BY <1>7 DEF K!StartLands
    <2>2. starts' = {} /\ starting' = FALSE
      BY <1>7 DEF K!StartLands, OneAtATime
    <2>3. K!TriggerTypeOK' /\ FieldsCurrent' /\ Asked' /\ K!VerdictComes'
      BY <2>1, <2>2 DEF K!form, K!modeSignals, K!readiness, K!TriggerTypeOK, FieldsCurrent,
         Asked, K!VerdictComes, K!BuildSubFields
    <2>4. K!NoStaleFields' /\ OneAtATime'
      BY <2>2 DEF K!NoStaleFields, OneAtATime, K!BuildSubFields
    <2>5. QED
      BY <2>3, <2>4
  <1>8. QED
    BY <1>1, <1>2, <1>3, <1>4, <1>5, <1>6, <1>7 DEF K!Next

\* The panel posts the fields of the mode it shows, waits for a verdict or has one, and starts
\* one run at a time (RunTriggerPanel).
THEOREM Triggering == K!TriggerSpec => [](K!TriggerTypeOK /\ K!TriggerSound)
  <1>1. K!Init => TriggerInv
    <2> SUFFICES ASSUME K!Init PROVE TriggerInv
      OBVIOUS
    <2>1. K!TriggerTypeOK
      BY DEF K!Init, K!TriggerTypeOK, K!Modes, K!Limits, K!Moments
    <2>2. FieldsCurrent
      BY DEF K!Init, FieldsCurrent, K!BuildSubFields
    <2>3. K!NoStaleFields /\ Asked /\ K!VerdictComes /\ OneAtATime
      BY DEF K!Init, K!NoStaleFields, Asked, K!VerdictComes, OneAtATime
    <2>4. QED
      BY <2>1, <2>2, <2>3 DEF TriggerInv
  <1>2. TriggerInv /\ [K!Next]_(K!triggerVars) => TriggerInv'
    <2>1. ASSUME TriggerInv, UNCHANGED K!triggerVars PROVE TriggerInv'
      BY <2>1 DEF K!triggerVars, K!form, K!modeSignals, K!readiness, TriggerInv,
         K!TriggerTypeOK, FieldsCurrent, K!NoStaleFields, Asked, K!VerdictComes,
         OneAtATime, K!BuildSubFields
    <2>2. QED
      BY <2>1, TriggerKept
  <1>3. TriggerInv => K!TriggerTypeOK /\ K!TriggerSound
    <2> SUFFICES ASSUME TriggerInv PROVE K!TriggerTypeOK /\ K!TriggerSound
      OBVIOUS
    <2>1. Cardinality(starts) <= 1
      <3>1. CASE starts = {}
        BY <3>1, FS_EmptySet
      <3>2. ASSUME NEW s \in starts PROVE Cardinality(starts) = 1
        <4>1. starts = {s}
          BY <3>2 DEF TriggerInv, OneAtATime
        <4>2. QED
          BY <4>1, FS_Singleton
      <3>3. QED
        BY <3>1, <3>2
    <2>2. QED
      BY <2>1 DEF TriggerInv, K!TriggerSound, K!OneStart, OneAtATime, Cardinality,
         K!Cardinality
  <1>4. QED
    BY <1>1, <1>2, <1>3, PTL DEF K!TriggerSpec

-----------------------------------------------------------------------------
\* A row of the history: RunHistory.

\* The run and the row keep the kinds of values they have; the fetches under way are
\* as many as the bound lets be asked.
RunTyped == /\ stage \in {"judging", "complete", "failed"} /\ computed \in BOOLEAN
            /\ text \in BOOLEAN /\ analyzing \in BOOLEAN
RowTyped == /\ level \in 0..3 /\ analysis \in {"none", "not_computed", "computed"}
            /\ overlapped \in BOOLEAN /\ missed \in BOOLEAN
PostsTyped == /\ busy \subseteq H!Buttons
              /\ posts \in [H!Buttons -> {"idle", "sent", "done", "refused"}]
ReadsCounted == reads \in [H!Answers -> Nat] /\ H!UnderWay(reads) <= MaxAnalyses

\* What AnalysisKept rests on: until fetches overlap there is one at most, and none
\* once the analysis is there.
OneAnswer == ~overlapped => /\ H!UnderWay(reads) <= 1
                            /\ analysis = "computed" => H!UnderWay(reads) = 0

HistoryInv == RunTyped /\ RowTyped /\ PostsTyped /\ ReadsCounted /\ OneAnswer /\ H!AnalysisTold

\* A count that is a natural is no more than the sum it is part of.
LEMMA PartsBounded ==
  ASSUME H!HistoryAssumption, ReadsCounted
  PROVE  reads \in [H!Answers -> 0..MaxAnalyses] /\ H!UnderWay(reads) \in Nat
  <1>1. \A a \in H!Answers : reads[a] \in Nat
    BY DEF ReadsCounted
  <1>2. reads["asked"] \in Nat /\ reads["not_computed"] \in Nat /\ reads["computed"] \in Nat
    BY <1>1 DEF H!Answers
  <1>3. \A a \in H!Answers : reads[a] \in 0..MaxAnalyses
    <2>1. reads["asked"] + reads["not_computed"] + reads["computed"] <= MaxAnalyses
          /\ MaxAnalyses \in Nat
      BY DEF ReadsCounted, H!UnderWay, H!HistoryAssumption
    <2>2. reads["asked"] \in 0..MaxAnalyses
      BY <1>2, <2>1
    <2>3. reads["not_computed"] \in 0..MaxAnalyses
      BY <1>2, <2>1
    <2>4. reads["computed"] \in 0..MaxAnalyses
      BY <1>2, <2>1
    <2>5. QED
      BY <2>2, <2>3, <2>4 DEF H!Answers
  <1>4. QED
    BY <1>2, <1>3 DEF ReadsCounted, H!UnderWay

\* StartRead, ReadServed and ReadLands add one to the fetches under way, keep their
\* number, and take one away; a row that goes has none.
LEMMA ReadBegun ==
  ASSUME H!HistoryAssumption, ReadsCounted, H!UnderWay(reads) < MaxAnalyses,
         reads' = [reads EXCEPT !["asked"] = @ + 1]
  PROVE  ReadsCounted' /\ H!UnderWay(reads') = H!UnderWay(reads) + 1
  <1>1. reads["asked"] \in Nat /\ reads["not_computed"] \in Nat /\ reads["computed"] \in Nat
    BY DEF ReadsCounted, H!Answers
  <1>2. reads' \in [H!Answers -> Nat]
    BY <1>1 DEF ReadsCounted, H!Answers
  <1>3. /\ reads'["asked"] = reads["asked"] + 1
        /\ reads'["not_computed"] = reads["not_computed"]
           /\ reads'["computed"] = reads["computed"]
    BY DEF ReadsCounted, H!Answers
  <1>4. QED
    BY <1>1, <1>2, <1>3 DEF ReadsCounted, H!UnderWay, H!HistoryAssumption

\* A fetch that is served is still under way.
LEMMA ReadAnswered ==
  ASSUME H!HistoryAssumption, ReadsCounted, reads["asked"] > 0,
         NEW told \in {"computed", "not_computed"},
         reads' = [reads EXCEPT !["asked"] = @ - 1, ![told] = @ + 1]
  PROVE  ReadsCounted' /\ H!UnderWay(reads') = H!UnderWay(reads)
  <1>1. reads["asked"] \in Nat /\ reads["not_computed"] \in Nat /\ reads["computed"] \in Nat
    BY DEF ReadsCounted, H!Answers
  <1>2. reads["asked"] - 1 \in Nat
    BY <1>1
  <1>3. reads' \in [H!Answers -> Nat]
    BY <1>1, <1>2 DEF ReadsCounted, H!Answers
  <1>4. reads'["asked"] = reads["asked"] - 1 /\ reads'[told] = reads[told] + 1
    BY DEF ReadsCounted, H!Answers
  <1>5. \A b \in {"computed", "not_computed"} : b # told => reads'[b] = reads[b]
    BY DEF ReadsCounted, H!Answers
  <1>6. H!UnderWay(reads') = H!UnderWay(reads)
    <2>1. CASE told = "computed"
      BY <1>1, <1>4, <1>5, <2>1 DEF H!UnderWay
    <2>2. CASE told = "not_computed"
      BY <1>1, <1>4, <1>5, <2>2 DEF H!UnderWay
    <2>3. QED
      BY <2>1, <2>2
  <1>7. QED
    BY <1>3, <1>6 DEF ReadsCounted

\* A fetch that lands, or fails, is not.
LEMMA ReadEnded ==
  ASSUME H!HistoryAssumption, ReadsCounted, NEW a \in H!Answers, reads[a] > 0,
         reads' = [reads EXCEPT ![a] = @ - 1]
  PROVE  ReadsCounted' /\ H!UnderWay(reads') + 1 = H!UnderWay(reads) /\ H!UnderWay(reads') \in Nat
  <1>1. reads["asked"] \in Nat /\ reads["not_computed"] \in Nat /\ reads["computed"] \in Nat
    BY DEF ReadsCounted, H!Answers
  <1>2. reads[a] \in Nat /\ reads[a] - 1 \in Nat
    BY <1>1 DEF H!Answers
  <1>3. reads' \in [H!Answers -> Nat]
    BY <1>2 DEF ReadsCounted
  <1>4. reads'[a] = reads[a] - 1 /\ \A b \in H!Answers : b # a => reads'[b] = reads[b]
    BY DEF ReadsCounted
  <1>5. H!UnderWay(reads') + 1 = H!UnderWay(reads)
    <2>1. CASE a = "computed"
      BY <1>1, <1>4, <2>1 DEF H!UnderWay, H!Answers
    <2>2. CASE a = "not_computed"
      BY <1>1, <1>4, <2>2 DEF H!UnderWay, H!Answers
    <2>3. CASE a = "asked"
      BY <1>1, <1>4, <2>3 DEF H!UnderWay, H!Answers
    <2>4. QED
      BY <2>1, <2>2, <2>3 DEF H!Answers
  <1>6. H!UnderWay(reads) \in Nat /\ H!UnderWay(reads') \in Nat
    BY <1>1, <1>3 DEF H!UnderWay, H!Answers
  <1>7. QED
    BY <1>3, <1>5, <1>6 DEF ReadsCounted, H!HistoryAssumption

\* A row that comes has no fetch under way.
LEMMA NoneUnderWay ==
  ASSUME H!HistoryAssumption
  PROVE  H!NoReads \in [H!Answers -> Nat] /\ H!UnderWay(H!NoReads) = 0
         /\ H!UnderWay(H!NoReads) <= MaxAnalyses
  <1>1. H!NoReads \in [H!Answers -> Nat]
    BY DEF H!NoReads
  <1>2. H!UnderWay(H!NoReads) = 0
    BY DEF H!NoReads, H!UnderWay, H!Answers
  <1>3. QED
    BY <1>1, <1>2 DEF H!HistoryAssumption

\* A table that is drawn again keeps the row with what it held, or a row with nothing.
LEMMA RedrawKeeps ==
  ASSUME H!HistoryAssumption, HistoryInv, NEW p \in BOOLEAN, NEW f, NEW s, H!Redraw(p, f, s),
         UNCHANGED <<H!server, posts>>, missed' \in BOOLEAN,
         (level' >= 2 /\ shown'.stage = "complete" /\ analysis = "none"
            => missed' \/ (missed' = missed /\ shown.stage = "complete"))
  PROVE  HistoryInv'
  <1>1. RunTyped' /\ PostsTyped' /\ RowTyped'
    <2>1. RunTyped'
      BY DEF HistoryInv, RunTyped, H!server
    <2>2. PostsTyped'
      BY DEF HistoryInv, PostsTyped, H!Redraw
    <2>3. level' \in 0..3
      BY DEF HistoryInv, RowTyped, H!Redraw
    <2>4. analysis' \in {"none", "not_computed", "computed"} /\ overlapped' \in BOOLEAN
      BY DEF HistoryInv, RowTyped, H!Redraw
    <2>5. QED
      BY <2>1, <2>2, <2>3, <2>4 DEF RowTyped
  <1>2. CASE UNCHANGED <<analysis, reads, overlapped>> /\ level' = level
    <2>1. ReadsCounted' /\ OneAnswer'
      BY <1>2 DEF HistoryInv, ReadsCounted, OneAnswer, H!UnderWay
    <2>2. H!AnalysisTold'
      BY <1>2 DEF HistoryInv, H!AnalysisTold, H!MetricsShown, H!UnderWay
    <2>3. QED
      BY <1>1, <2>1, <2>2 DEF HistoryInv
  <1>3. CASE analysis' = "none" /\ reads' = H!NoReads /\ level' < 2
    <2>1. ReadsCounted' /\ OneAnswer'
      BY <1>3, NoneUnderWay DEF ReadsCounted, OneAnswer
    <2>2. H!AnalysisTold'
      BY <1>3, <1>1 DEF RowTyped, H!AnalysisTold, H!MetricsShown
    <2>3. QED
      BY <1>1, <2>1, <2>2 DEF HistoryInv
  <1>4. QED
    BY <1>2, <1>3 DEF H!Redraw, HistoryInv, RowTyped

\* What the row, the run and the orders keep on every step that leaves the row drawn as
\* it was and the fetches alone.
LEMMA RowStays ==
  ASSUME HistoryInv, UNCHANGED <<shown, level, H!unfolded>>, RunTyped', PostsTyped'
  PROVE  HistoryInv'
  <1>1. RowTyped' /\ ReadsCounted' /\ OneAnswer'
    BY DEF HistoryInv, RowTyped, ReadsCounted, OneAnswer, H!UnderWay, H!unfolded
  <1>2. H!AnalysisTold'
    BY DEF HistoryInv, H!AnalysisTold, H!MetricsShown, H!UnderWay, H!unfolded
  <1>3. QED
    BY <1>1, <1>2 DEF HistoryInv

\* A fetch that begins: the row waits for its answer.
LEMMA StartKeeps ==
  ASSUME H!HistoryAssumption, HistoryInv, NEW overlaps \in BOOLEAN, H!StartRead(overlaps),
         UNCHANGED <<analysis, shown, H!server>>, level' \in 0..3, PostsTyped',
         analysis = "computed" => overlaps
  PROVE  HistoryInv'
  <1>1. ReadsCounted' /\ H!UnderWay(reads') = H!UnderWay(reads) + 1 /\ H!UnderWay(reads) \in Nat
    BY ReadBegun, PartsBounded DEF HistoryInv, H!StartRead
  <1>2. RunTyped' /\ RowTyped'
    BY <1>1 DEF HistoryInv, RunTyped, RowTyped, H!StartRead, H!server
  <1>3. OneAnswer'
    <2>1. (H!UnderWay(reads) > 0 \/ overlaps) \in BOOLEAN
      OBVIOUS
    <2>2. ~overlapped' => ~(H!UnderWay(reads) > 0) /\ ~overlaps
      BY <2>1 DEF H!StartRead
    <2>3. ~overlapped' => H!UnderWay(reads') <= 1 /\ analysis' # "computed"
      BY <1>1, <2>2
    <2>4. QED
      BY <2>3 DEF OneAnswer
  <1>4. H!AnalysisTold'
    BY <1>1 DEF H!AnalysisTold
  <1>5. QED
    BY <1>1, <1>2, <1>3, <1>4 DEF HistoryInv

\* HistoryInv is inductive.
LEMMA HistoryKept ==
  ASSUME H!HistoryAssumption, HistoryInv, [H!Next]_(H!historyVars)
  PROVE  HistoryInv'
  <1>1. ASSUME NEW f \in ChosenFilters, H!ChooseFilter(f) PROVE HistoryInv'
    <2>1. CASE page
      <3>1. H!Redraw(TRUE, f, shown.stage)
        BY <1>1, <2>1 DEF H!ChooseFilter
      <3>2. missed' \in BOOLEAN
        BY <1>1 DEF H!ChooseFilter
      <3>3. level' >= 2 /\ shown'.stage = "complete" /\ analysis = "none"
              => missed' \/ (missed' = missed /\ shown.stage = "complete")
        <4>1. level' \in 0..3 /\ missed \in BOOLEAN /\ shown' = shown
        BY <1>1 DEF H!ChooseFilter, H!Redraw, HistoryInv, RowTyped
      <4>2. missed' = (missed /\ level' > 0)
        BY <1>1 DEF H!ChooseFilter
      <4>3. QED
        BY <4>1, <4>2
      <3>4. UNCHANGED <<H!server, posts>>
        BY <1>1 DEF H!ChooseFilter
      <3>5. QED
        BY <3>1, <3>2, <3>3, <3>4, RedrawKeeps
    <2>2. QED
      BY <1>1, <2>1 DEF H!ChooseFilter
  <1>2. ASSUME H!LeaveOrReturn PROVE HistoryInv'
    <2>1. page' \in BOOLEAN /\ H!Redraw(page', filter, shown.stage)
          /\ UNCHANGED <<H!server, posts>>
      BY <1>2 DEF H!LeaveOrReturn
    <2>2. missed' \in BOOLEAN
      BY <1>2 DEF H!LeaveOrReturn
    <2>3. level' >= 2 /\ shown'.stage = "complete" /\ analysis = "none"
            => missed' \/ (missed' = missed /\ shown.stage = "complete")
      <3>1. level' \in 0..3 /\ missed \in BOOLEAN /\ shown' = shown
        BY <1>2 DEF H!LeaveOrReturn, H!Redraw, HistoryInv, RowTyped
      <3>2. missed' = (missed /\ level' > 0)
        BY <1>2 DEF H!LeaveOrReturn
      <3>3. QED
        BY <3>1, <3>2
    <2>4. PICK p \in BOOLEAN : p = page'
      BY <2>1
    <2>5. QED
      BY <2>1, <2>2, <2>3, <2>4, RedrawKeeps
  <1>3. ASSUME NEW next \in {2, 3}, H!ToggleLevel(next) PROVE HistoryInv'
    <2>1. level' \in 0..3 /\ PostsTyped' /\ UNCHANGED <<analysis, shown, H!server>>
      BY <1>3 DEF H!ToggleLevel, HistoryInv, PostsTyped
    <2>2. CASE level' >= 2 /\ analysis = "none" /\ shown.stage = "complete"
      BY <1>3, <2>1, <2>2, StartKeeps DEF H!ToggleLevel
    <2>3. CASE ~(level' >= 2 /\ analysis = "none" /\ shown.stage = "complete")
      <3>1. UNCHANGED <<reads, overlapped, missed>>
        BY <1>3, <2>3 DEF H!ToggleLevel
      <3>2. RunTyped' /\ RowTyped' /\ ReadsCounted' /\ OneAnswer'
        BY <2>1, <3>1 DEF HistoryInv, RunTyped, RowTyped, ReadsCounted, OneAnswer,
           H!UnderWay, H!server
      <3>3. H!AnalysisTold'
        BY <2>1, <2>3 DEF H!AnalysisTold, H!MetricsShown
      <3>4. QED
        BY <2>1, <3>2, <3>3 DEF HistoryInv
    <2>4. QED
      BY <2>2, <2>3
  <1>4. ASSUME H!ReadServed PROVE HistoryInv'
    <2>1. ReadsCounted' /\ H!UnderWay(reads') = H!UnderWay(reads)
      <3>1. PICK told \in {"computed", "not_computed"} :
              reads' = [reads EXCEPT !["asked"] = @ - 1, ![told] = @ + 1]
        BY <1>4 DEF H!ReadServed
      <3>2. QED
        BY <1>4, <3>1, ReadAnswered DEF H!ReadServed, HistoryInv
    <2>2. RunTyped' /\ RowTyped' /\ PostsTyped'
      BY <1>4 DEF H!ReadServed, HistoryInv, RunTyped, RowTyped, PostsTyped, H!server
    <2>3. OneAnswer' /\ H!AnalysisTold'
      BY <1>4, <2>1 DEF H!ReadServed, HistoryInv, OneAnswer, H!AnalysisTold, H!MetricsShown
    <2>4. QED
      BY <2>1, <2>2, <2>3 DEF HistoryInv
  <1>5. ASSUME NEW a \in H!Answers, NEW failing \in BOOLEAN, H!ReadLands(a, failing)
        PROVE  HistoryInv'
    <2>1. ReadsCounted' /\ H!UnderWay(reads') + 1 = H!UnderWay(reads)
          /\ H!UnderWay(reads') \in Nat
      BY <1>5, ReadEnded DEF H!ReadLands, HistoryInv
    <2>2. RunTyped' /\ PostsTyped'
      BY <1>5 DEF H!ReadLands, HistoryInv, RunTyped, PostsTyped, H!server
    <2>3. analysis' \in {"none", "not_computed", "computed"} /\ (failing \/ analysis' # "none")
      BY <1>5 DEF H!ReadLands, H!Answers
    <2>4. RowTyped'
      BY <1>5, <2>3 DEF H!ReadLands, HistoryInv, RowTyped
    <2>5. OneAnswer'
      BY <1>5, <2>1 DEF H!ReadLands, HistoryInv, OneAnswer
    <2>6. H!AnalysisTold'
      BY <1>5, <2>3 DEF H!ReadLands, H!AnalysisTold
    <2>7. QED
      BY <2>1, <2>2, <2>4, <2>5, <2>6 DEF HistoryInv
  <1>6. ASSUME H!OthersAskList \/ H!ListServed \/ H!RefreshTimer PROVE HistoryInv'
    <2>1. UNCHANGED <<H!server, shown, level, H!unfolded, busy, posts>>
      BY <1>6 DEF H!OthersAskList, H!ListServed, H!RefreshTimer
    <2>2. RunTyped' /\ PostsTyped'
      BY <2>1 DEF HistoryInv, RunTyped, PostsTyped, H!server
    <2>3. QED
      BY <2>1, <2>2, RowStays
  <1>7. ASSUME NEW l \in listsTold, H!ListLands(l) PROVE HistoryInv'
    <2>1. missed' \in BOOLEAN
      BY <1>7 DEF H!ListLands
    <2>2. UNCHANGED <<H!server, posts>> /\ H!Redraw(page, filter, l.stage) /\ shown' = l
      BY <1>7 DEF H!ListLands
    <2>3. level' >= 2 => level' = level
      BY <2>2 DEF H!Redraw, HistoryInv, RowTyped
    <2>4. level' \in 0..3
      BY <2>2 DEF H!Redraw, HistoryInv, RowTyped
    <2>5. level' >= 2 /\ shown'.stage = "complete"
            => missed' \/ (missed' = missed /\ shown.stage = "complete")
      <3>1. missed' = (level' > 0 /\ (missed \/ (level >= 2 /\ shown.stage # "complete"
                                                  /\ l.stage = "complete")))
        BY <1>7 DEF H!ListLands
      <3>2. HAVE level' >= 2 /\ shown'.stage = "complete"
      <3>3. level >= 2 /\ level' > 0 /\ l.stage = "complete"
        BY <2>2, <2>3, <2>4, <3>2
      <3>4. missed \in BOOLEAN
        BY DEF HistoryInv, RowTyped
      <3>5. QED
        BY <3>1, <3>3, <3>4
    <2>6. QED
      <3>1. H!Redraw(page, filter, l.stage) = H!Redraw(page = TRUE, filter, l.stage)
        BY DEF H!Redraw
      <3>2. QED
        BY <2>1, <2>2, <2>5, <3>1, RedrawKeeps
  <1>8. ASSUME NEW b \in H!Buttons, H!Press(b) PROVE HistoryInv'
    <2>1. RunTyped' /\ PostsTyped'
      BY <1>8 DEF H!Press, HistoryInv, RunTyped, PostsTyped, H!server
    <2>2. QED
      BY <1>8, <2>1, RowStays DEF H!Press
  <1>9. ASSUME NEW b \in H!Buttons, H!PostLands(b) PROVE HistoryInv'
    <2>1. PostsTyped' /\ UNCHANGED <<H!server, shown, level, analysis>>
      BY <1>9 DEF H!PostLands, HistoryInv, PostsTyped
    <2>2. CASE b = "compute" /\ posts[b] = "done" /\ level > 0
      <3>1. H!StartRead(analysis # "not_computed") /\ level' \in 0..3
        BY <1>9, <2>1, <2>2 DEF H!PostLands, HistoryInv, RowTyped
      <3>2. QED
        BY <2>1, <3>1, StartKeeps
    <2>3. CASE ~(b = "compute" /\ posts[b] = "done" /\ level > 0)
      <3>1. UNCHANGED H!unfolded
        BY <1>9, <2>3 DEF H!PostLands, H!unfolded
      <3>2. RunTyped'
        BY <2>1 DEF HistoryInv, RunTyped, H!server
      <3>3. QED
        BY <2>1, <3>1, <3>2, RowStays
    <2>4. QED
      BY <2>2, <2>3
  <1>10. ASSUME NEW b \in H!Buttons, NEW done \in BOOLEAN, NEW told \in BOOLEAN,
                H!PostServed(b, done, told)
         PROVE  HistoryInv'
    <2>1. computed' \in BOOLEAN /\ analyzing' \in BOOLEAN
      BY <1>10 DEF H!PostServed
    <2>2. RunTyped'
      BY <1>10, <2>1 DEF H!PostServed, HistoryInv, RunTyped
    <2>3. PostsTyped'
      BY <1>10 DEF H!PostServed, HistoryInv, PostsTyped
    <2>4. QED
      BY <1>10, <2>2, <2>3, RowStays DEF H!PostServed
  <1>11. ASSUME H!RunEnds \/ H!RunAnalyzed \/ H!TextWritten PROVE HistoryInv'
    <2>1. RunTyped' /\ PostsTyped'
      BY <1>11 DEF H!RunEnds, H!RunAnalyzed, H!TextWritten, HistoryInv, RunTyped, PostsTyped
    <2>2. UNCHANGED <<shown, level, H!unfolded>>
      BY <1>11 DEF H!RunEnds, H!RunAnalyzed, H!TextWritten
    <2>3. QED
      BY <2>1, <2>2, RowStays
  <1>12. ASSUME UNCHANGED H!historyVars PROVE HistoryInv'
    <2>1. UNCHANGED <<H!server, shown, level, H!unfolded, busy, posts>>
      BY <1>12 DEF H!historyVars
    <2>2. RunTyped' /\ PostsTyped'
      BY <2>1 DEF HistoryInv, RunTyped, PostsTyped, H!server
    <2>3. QED
      BY <2>1, <2>2, RowStays
  <1>13. QED
    BY <1>1, <1>2, <1>3, <1>4, <1>5, <1>6, <1>7, <1>8, <1>9, <1>10, <1>11, <1>12 DEF H!Next

\* An unfolded run has its analysis or waits for it, and no late answer takes away an
\* analysis, but for the named fetches that overlap, fail or are never made
\* (fetchRunAnalysis, toggleLevel, handleReanalyze of RunRow).
THEOREM Unfolding == H!HistorySpec => [](H!HistoryTypeOK /\ H!HistorySound)
  <1> H!HistoryAssumption
    BY DashboardAssumption DEF DashboardAssumption
  <1>1. H!Init => HistoryInv
    <2> SUFFICES ASSUME H!Init PROVE HistoryInv
      OBVIOUS
    <2>1. RunTyped /\ RowTyped /\ PostsTyped
      <3>1. RunTyped /\ level \in {0, 1}
        BY DEF H!Init, RunTyped
      <3>2. RowTyped
        <4>1. level \in 0..3
          BY <3>1
        <4>2. analysis = "none" /\ overlapped \in BOOLEAN /\ missed \in BOOLEAN
          BY DEF H!Init
        <4>3. QED
          BY <4>1, <4>2 DEF RowTyped
      <3>3. PostsTyped
        BY DEF H!Init, PostsTyped
      <3>4. QED
        BY <3>1, <3>2, <3>3
    <2>2. ReadsCounted /\ H!UnderWay(reads) = 0
      BY NoneUnderWay DEF H!Init, ReadsCounted
    <2>3. OneAnswer /\ H!AnalysisTold
      BY <2>2 DEF H!Init, OneAnswer, H!AnalysisTold, H!MetricsShown
    <2>4. QED
      BY <2>1, <2>2, <2>3 DEF HistoryInv
  <1>2. HistoryInv /\ [H!Next]_(H!historyVars) => HistoryInv'
    BY HistoryKept
  <1>3. HistoryInv => H!HistoryTypeOK /\ H!HistorySound
    <2> SUFFICES ASSUME HistoryInv PROVE H!HistoryTypeOK /\ H!HistorySound
      OBVIOUS
    <2>1. H!HistoryTypeOK
      <3>1. reads \in [H!Answers -> 0..MaxAnalyses]
        BY PartsBounded DEF HistoryInv
      <3>2. QED
        BY <3>1 DEF HistoryInv, H!HistoryTypeOK, RunTyped, RowTyped, PostsTyped
    <2>2. H!AnalysisTold /\ H!AnalysisKept
      BY DEF HistoryInv, H!AnalysisKept, OneAnswer, H!BreakdownShown
    <2>3. QED
      BY <2>1, <2>2 DEF H!HistorySound
  <1>4. QED
    BY <1>1, <1>2, <1>3, PTL DEF H!HistorySpec

-----------------------------------------------------------------------------
\* The scored pairs: ScoredPairs.

PairsKind == Classes \X (Nat \ {0})
LoadKind == [class : Classes, off : Nat]

\* A row that is folded holds nothing.
FoldedHoldsNothing ==
    ~pairsMounted => /\ results = <<>> /\ offset = 0 /\ loads = <<>>
                     /\ ~pairsCrossed /\ ~failed /\ ~pairsLoading

\* Until a page is asked while another is under way, there is one at most: of the active
\* filter, and the first page or the one that follows what is drawn.
OneLoad ==
    ~pairsCrossed => /\ Len(loads) <= 1
                     /\ pairsLoading <=> loads # <<>>
                     /\ Len(loads) = 1 => /\ loads[1].class = activeFilter
                                          /\ loads[1].off = 0 \/ loads[1].off = offset

\* What is drawn is the beginning of what the active filter keeps, and offset is its end.
Drawn ==
    /\ Len(results) <= Rows[activeFilter] /\ offset = Len(results)
    /\ \A i \in 1..Len(results) : results[i] = <<activeFilter, i>>

PairsInv ==
    /\ Q!PairsTypeOK /\ failed \in BOOLEAN
    /\ FoldedHoldsNothing /\ OneLoad
    /\ pairsMounted /\ ~pairsCrossed => Drawn
    /\ Q!NothingHidden

\* A page is a sequence of pairs: as many as there are from its offset on, or PageSize.
LEMMA PageShape ==
  ASSUME Q!PairsAssumption, NEW c \in Classes, NEW off \in Nat
  PROVE  /\ Q!Page(c, off) \in Seq(PairsKind)
         /\ \A i \in 1..Len(Q!Page(c, off)) : Q!Page(c, off)[i] = <<c, off + i>>
         /\ off <= Rows[c] => off + Len(Q!Page(c, off)) <= Rows[c]
         /\ off <= Rows[c] /\ Len(Q!Page(c, off)) # PageSize
              => off + Len(Q!Page(c, off)) = Rows[c]
  <1> DEFINE size == IF Rows[c] <= off THEN 0
                     ELSE IF Rows[c] - off < PageSize THEN Rows[c] - off ELSE PageSize
  <1>1. Rows[c] \in Nat /\ PageSize \in Nat
    BY DEF Q!PairsAssumption
  <1>2. /\ size \in Nat
        /\ off <= Rows[c] => off + size <= Rows[c]
        /\ off <= Rows[c] /\ size # PageSize => off + size = Rows[c]
    BY <1>1
  <1>3. Q!Page(c, off) = [i \in 1..size |-> <<c, off + i>>]
    BY DEF Q!Page
  <1> HIDE DEF size
  <1>4. \A i \in 1..size : <<c, off + i>> \in PairsKind
    BY <1>2 DEF PairsKind
  <1>5. Q!Page(c, off) \in [1..size -> PairsKind]
    BY <1>3, <1>4
  <1>6. Q!Page(c, off) \in Seq(PairsKind) /\ Len(Q!Page(c, off)) = size
    BY <1>2, <1>5
  <1>7. QED
    BY <1>2, <1>3, <1>6

\* A sequence without one of its elements is a sequence; without its only one it is empty.
LEMMA OneLess ==
  ASSUME NEW s \in Seq(LoadKind), NEW k \in 1..Len(s)
  PROVE  /\ Q!RemoveAt(s, k) \in Seq(LoadKind)
         /\ Len(s) = 1 => Q!RemoveAt(s, k) = <<>>
  <1>1. Len(s) \in Nat /\ k \in Nat /\ k >= 1 /\ k <= Len(s)
    BY LenProperties
  <1>2. \A i \in 1..Len(s) : s[i] \in LoadKind
    BY LenProperties
  <1>3. SubSeq(s, 1, k - 1) \in Seq(LoadKind)
    <2>1. \A i \in 1..(k - 1) : s[i] \in LoadKind
      BY <1>1, <1>2
    <2>2. QED
      BY <1>1, <2>1, SubSeqProperties
  <1>4. SubSeq(s, k + 1, Len(s)) \in Seq(LoadKind)
    <2>1. \A i \in (k + 1)..Len(s) : s[i] \in LoadKind
      BY <1>1, <1>2
    <2>2. QED
      BY <1>1, <2>1, SubSeqProperties
  <1>5. Q!RemoveAt(s, k) \in Seq(LoadKind)
    BY <1>3, <1>4, ConcatProperties DEF Q!RemoveAt
  <1>6. ASSUME Len(s) = 1 PROVE Q!RemoveAt(s, k) = <<>>
    <2>1. k = 1
      BY <1>1, <1>6
    <2>2. SubSeq(s, 1, k - 1) = <<>> /\ SubSeq(s, k + 1, Len(s)) = <<>>
      BY <1>6, <2>1, SubSeqEmpty
    <2>3. <<>> \o <<>> = <<>>
      BY EmptySeq, ConcatEmptySeq
    <2>4. QED
      BY <2>2, <2>3 DEF Q!RemoveAt
  <1>7. QED
    BY <1>5, <1>6

\* A page that is asked: the row loads, and loads one page unless one was under way.
LEMMA PageAsked ==
  ASSUME PairsInv, NEW c \in Classes, NEW off \in Nat, Q!LoadPage(c, off)
  PROVE  /\ loads' \in Seq(LoadKind) /\ loads' # <<>>
         /\ pairsLoading' = TRUE /\ failed' = FALSE /\ pairsCrossed' \in BOOLEAN
         /\ ~pairsCrossed'
              => ~pairsCrossed /\ loads = <<>> /\ Len(loads') = 1
                /\ loads'[1] = [class |-> c, off |-> off]
  <1>1. loads \in Seq(LoadKind) /\ [class |-> c, off |-> off] \in LoadKind
    BY DEF PairsInv, Q!PairsTypeOK, LoadKind
  <1>2. loads' \in Seq(LoadKind) /\ loads' # <<>> /\ Len(loads') = Len(loads) + 1
          /\ loads'[Len(loads) + 1] = [class |-> c, off |-> off]
    BY <1>1, AppendProperties DEF Q!LoadPage
  <1>3. pairsLoading' = TRUE /\ failed' = FALSE /\ pairsCrossed' = (pairsCrossed \/ loads # <<>>)
    BY DEF Q!LoadPage
  <1>4. pairsCrossed' \in BOOLEAN /\ (~pairsCrossed' => ~pairsCrossed /\ loads = <<>>)
    BY <1>3
  <1>5. loads = <<>> => Len(loads') = 1 /\ loads'[1] = [class |-> c, off |-> off]
    <2>1. Len(<<>>) = 0
      BY EmptySeq
    <2>2. QED
      BY <1>2, <2>1
  <1>6. QED
    BY <1>2, <1>3, <1>4, <1>5

\* A page that is asked with nothing under way is the next one, or the first of a filter.
LEMMA AskKeeps ==
  ASSUME Q!PairsAssumption, PairsInv, NEW off \in Nat, activeFilter' \in Classes,
         Q!LoadPage(activeFilter', off), pairsMounted' = TRUE, off = 0 \/ off = offset',
         hasMore' \in BOOLEAN, results' \in Seq(PairsKind), offset' \in Nat,
         ~pairsCrossed /\ loads = <<>> => Drawn'
  PROVE  PairsInv'
  <1> DEFINE c == activeFilter'
  <1>1. c \in Classes
    OBVIOUS
  <1> HIDE DEF c
  <1>2. Q!LoadPage(c, off)
    BY DEF c
  <1>3. /\ loads' \in Seq(LoadKind) /\ loads' # <<>>
        /\ pairsLoading' = TRUE /\ failed' = FALSE /\ pairsCrossed' \in BOOLEAN
        /\ ~pairsCrossed'
             => ~pairsCrossed /\ loads = <<>> /\ Len(loads') = 1
               /\ loads'[1] = [class |-> c, off |-> off]
    BY <1>1, <1>2, PageAsked
  <1>4. Q!PairsTypeOK' /\ failed' \in BOOLEAN
    BY <1>3 DEF Q!PairsTypeOK, PairsKind, LoadKind
  <1>5. FoldedHoldsNothing' /\ Q!NothingHidden'
    BY <1>3 DEF FoldedHoldsNothing, Q!NothingHidden
  <1>6. OneLoad'
    <2> SUFFICES ASSUME ~pairsCrossed'
                 PROVE  /\ Len(loads') <= 1
                        /\ pairsLoading' <=> loads' # <<>>
                        /\ Len(loads') = 1 => /\ loads'[1].class = activeFilter'
                                              /\ loads'[1].off = 0 \/ loads'[1].off = offset'
      BY DEF OneLoad
    <2>1. Len(loads') = 1 /\ loads'[1] = [class |-> c, off |-> off]
      BY <1>3
    <2>2. loads'[1].class = activeFilter' /\ loads'[1].off = off
      BY <2>1 DEF c
    <2>3. pairsLoading' <=> loads' # <<>>
      BY <1>3
    <2>4. QED
      BY <2>1, <2>2, <2>3
  <1>7. pairsMounted' /\ ~pairsCrossed' => Drawn'
    BY <1>3
  <1>8. QED
    BY <1>4, <1>5, <1>6, <1>7 DEF PairsInv

\* A page lands: a first page begins what is drawn anew, another one continues it.
LEMMA LandKeeps ==
  ASSUME Q!PairsAssumption, PairsInv, NEW k \in 1..Len(loads), Q!PageLands(k)
  PROVE  PairsInv'
  <1> DEFINE c == loads[k].class
             off == loads[k].off
             data == Q!Page(c, off)
  <1>1. loads \in Seq(LoadKind) /\ results \in Seq(PairsKind)
    BY DEF PairsInv, Q!PairsTypeOK, LoadKind, PairsKind
  <1>2. c \in Classes /\ off \in Nat
    <2>1. loads[k] \in LoadKind
      BY <1>1, LenProperties
    <2>2. QED
      BY <2>1 DEF LoadKind
  <1>3. pairsMounted /\ loads # <<>>
    <2>1. Len(<<>>) = 0
      BY EmptySeq
    <2>2. loads # <<>>
      BY <2>1
    <2>3. QED
      BY <2>2 DEF PairsInv, FoldedHoldsNothing
  <1>4. /\ loads' = Q!RemoveAt(loads, k) /\ results' = IF off = 0 THEN data ELSE results \o data
        /\ hasMore' = (Len(data) = PageSize) /\ offset' = off + Len(data) /\ pairsLoading' = FALSE
        /\ pairsCrossed' = (pairsCrossed /\ ~(off = 0 /\ c = activeFilter /\ Len(loads) = 1))
        /\ pairsMounted' = pairsMounted /\ activeFilter' = activeFilter /\ failed' = failed
    BY DEF Q!PageLands
  <1>5. /\ data \in Seq(PairsKind) /\ Len(data) \in Nat
        /\ \A i \in 1..Len(data) : data[i] = <<c, off + i>>
        /\ off <= Rows[c] => off + Len(data) <= Rows[c]
        /\ off <= Rows[c] /\ Len(data) # PageSize => off + Len(data) = Rows[c]
    BY <1>2, PageShape, LenProperties
  <1>6. loads' \in Seq(LoadKind) /\ (Len(loads) = 1 => loads' = <<>>)
    BY <1>1, <1>4, OneLess
  <1> HIDE DEF c, off, data
  <1>7. Q!PairsTypeOK' /\ failed' \in BOOLEAN
    <2>1. results' \in Seq(PairsKind)
      BY <1>1, <1>4, <1>5, ConcatProperties
    <2>2. offset' \in Nat /\ hasMore' \in BOOLEAN /\ pairsLoading' \in BOOLEAN
          /\ pairsCrossed' \in BOOLEAN
      <3>1. off + Len(data) \in Nat
        BY <1>2, <1>5
      <3>2. (Len(data) = PageSize) \in BOOLEAN
        OBVIOUS
      <3>3. (pairsCrossed /\ ~(off = 0 /\ c = activeFilter /\ Len(loads) = 1)) \in BOOLEAN
        OBVIOUS
      <3>4. QED
        BY <1>4, <3>1, <3>2, <3>3
    <2>3. activeFilter' \in Classes /\ pairsMounted' \in BOOLEAN /\ failed' \in BOOLEAN
      BY <1>4 DEF PairsInv, Q!PairsTypeOK
    <2>4. QED
      BY <1>6, <2>1, <2>2, <2>3 DEF Q!PairsTypeOK, PairsKind, LoadKind
  <1>8. FoldedHoldsNothing'
    BY <1>3, <1>4 DEF FoldedHoldsNothing
  <1>9. ASSUME ~pairsCrossed'
        PROVE  /\ loads' = <<>> /\ Drawn'
               /\ ~hasMore' => Len(results') = Rows[activeFilter']
    <2>1. c = activeFilter /\ Len(loads) = 1 /\ (off = 0 \/ (off = offset /\ ~pairsCrossed))
      <3>1. CASE ~pairsCrossed
        <4>1. Len(loads) <= 1 /\ Len(loads) \in Nat /\ Len(loads) >= 1 /\ k = 1
          <5>1. Len(loads) <= 1
            BY <3>1 DEF PairsInv, OneLoad
          <5>2. Len(loads) \in Nat
            BY <1>1, LenProperties
          <5>3. QED
            BY <5>1, <5>2
        <4>2. Len(loads) = 1
          <5>1. \A n \in Nat : n <= 1 /\ n >= 1 => n = 1
            OBVIOUS
          <5>2. QED
            BY <4>1, <5>1
        <4>3. loads[1].class = activeFilter /\ (loads[1].off = 0 \/ loads[1].off = offset)
          BY <3>1, <4>2 DEF PairsInv, OneLoad
        <4>4. QED
          BY <3>1, <4>1, <4>2, <4>3 DEF c, off
      <3>2. CASE pairsCrossed
        <4>1. ~(pairsCrossed /\ ~(off = 0 /\ c = activeFilter /\ Len(loads) = 1))
          BY <1>4, <1>9
        <4>2. QED
          BY <3>2, <4>1
      <3>3. QED
        BY <3>1, <3>2
    <2>2. loads' = <<>>
      BY <1>6, <2>1
    <2>3. Rows[activeFilter] \in Nat /\ activeFilter \in Classes
      BY DEF PairsInv, Q!PairsTypeOK, Q!PairsAssumption
    <2>4. CASE off = 0
      <3>1. results' = data /\ offset' = Len(data) /\ Len(data) <= Rows[activeFilter]
        BY <1>4, <1>5, <2>1, <2>3, <2>4
      <3>2. \A i \in 1..Len(data) : data[i] = <<activeFilter, i>>
        BY <1>5, <2>1, <2>4
      <3>3. ~hasMore' => Len(data) = Rows[activeFilter]
        <4>1. HAVE ~hasMore'
        <4>2. Len(data) # PageSize
          BY <1>4, <4>1
        <4>3. QED
          BY <1>5, <2>1, <2>3, <2>4, <4>2
      <3>4. QED
        BY <1>4, <2>2, <3>1, <3>2, <3>3 DEF Drawn
    <2>5. CASE off # 0
      <3>1. ~pairsCrossed /\ off = offset
        BY <2>1, <2>5
      <3>2. /\ Len(results) <= Rows[activeFilter] /\ off = Len(results)
            /\ \A i \in 1..Len(results) : results[i] = <<activeFilter, i>>
        BY <1>3, <3>1 DEF PairsInv, Drawn
      <3>3. results' = results \o data
        BY <1>4, <2>5
      <3>4. /\ Len(results') = Len(results) + Len(data)
            /\ \A i \in 1..(Len(results) + Len(data)) :
                 results'[i] = IF i <= Len(results) THEN results[i] ELSE data[i - Len(results)]
        BY <1>1, <1>5, <3>3, ConcatProperties
      <3>5. Len(results) \in Nat
        BY <1>1, LenProperties
      <3>6. \A i \in 1..Len(results') : results'[i] = <<activeFilter, i>>
        <4>1. TAKE i \in 1..Len(results')
        <4>2. CASE i <= Len(results)
          BY <3>2, <3>4, <3>5, <4>2, <1>5
        <4>3. CASE ~(i <= Len(results))
          <5>1. i - Len(results) \in 1..Len(data)
            BY <1>5, <3>4, <3>5, <4>3
          <5>2. data[i - Len(results)] = <<c, off + (i - Len(results))>>
            BY <1>5, <5>1
          <5>3. off + (i - Len(results)) = i
            BY <1>5, <3>2, <3>4, <3>5
          <5>4. results'[i] = data[i - Len(results)]
            BY <1>5, <3>4, <3>5, <4>3
          <5>5. QED
            BY <2>1, <5>2, <5>3, <5>4
        <4>4. QED
          BY <4>2, <4>3
      <3>7. offset' = Len(results') /\ Len(results') <= Rows[activeFilter]
        BY <1>4, <1>5, <2>1, <2>3, <3>2, <3>4, <3>5
      <3>8. ~hasMore' => Len(results') = Rows[activeFilter]
        <4>1. HAVE ~hasMore'
        <4>2. Len(data) # PageSize
          BY <1>4, <4>1
        <4>3. off + Len(data) = Rows[activeFilter]
          BY <1>5, <2>1, <2>3, <3>2, <3>5, <4>2
        <4>4. QED
          BY <1>5, <3>2, <3>4, <4>3
      <3>9. QED
        BY <1>4, <2>2, <3>6, <3>7, <3>8 DEF Drawn
    <2>6. QED
      BY <2>4, <2>5
  <1>10. OneLoad'
    <2> SUFFICES ASSUME ~pairsCrossed'
                 PROVE  /\ Len(loads') <= 1
                        /\ pairsLoading' <=> loads' # <<>>
                        /\ ~(Len(loads') = 1)
      BY DEF OneLoad
    <2>1. loads' = <<>> /\ Len(<<>>) = 0
      BY <1>9, EmptySeq
    <2>2. pairsLoading' = FALSE
      BY <1>4
    <2>3. Len(loads') <= 1 /\ ~(Len(loads') = 1)
      BY <2>1
    <2>4. pairsLoading' <=> loads' # <<>>
      BY <2>1, <2>2
    <2>5. QED
      BY <2>3, <2>4
  <1>11. pairsMounted' /\ ~pairsCrossed' => Drawn'
    BY <1>9
  <1>12. Q!NothingHidden'
    BY <1>9 DEF Q!NothingHidden
  <1>13. QED
    BY <1>7, <1>8, <1>10, <1>11, <1>12 DEF PairsInv

\* A page is lost: the row says so, and is as it was but for that.
LEMMA LossKeeps ==
  ASSUME PairsInv, NEW k \in 1..Len(loads), Q!PageLost(k)
  PROVE  PairsInv'
  <1>1. loads \in Seq(LoadKind)
    BY DEF PairsInv, Q!PairsTypeOK, LoadKind
  <1>2. pairsMounted
    <2>1. Len(<<>>) = 0
      BY EmptySeq
    <2>2. loads # <<>>
      BY <2>1
    <2>3. QED
      BY <2>2 DEF PairsInv, FoldedHoldsNothing
  <1>3. loads' \in Seq(LoadKind) /\ (Len(loads) = 1 => loads' = <<>>)
    BY <1>1, OneLess DEF Q!PageLost
  <1>4. /\ failed' = TRUE /\ pairsLoading' = FALSE
        /\ UNCHANGED <<pairsMounted, activeFilter, results, offset, hasMore, pairsCrossed>>
    BY DEF Q!PageLost
  <1>5. Q!PairsTypeOK' /\ failed' \in BOOLEAN
    BY <1>3, <1>4 DEF PairsInv, Q!PairsTypeOK, LoadKind
  <1>6. FoldedHoldsNothing' /\ Q!NothingHidden'
    BY <1>2, <1>4 DEF FoldedHoldsNothing, Q!NothingHidden
  <1>7. pairsMounted' /\ ~pairsCrossed' => Drawn'
    BY <1>4 DEF PairsInv, Drawn
  <1>8. ~pairsCrossed => loads' = <<>>
    <2>1. HAVE ~pairsCrossed
    <2>2. Len(loads) \in Nat /\ Len(loads) <= 1
      BY <1>1, <2>1, LenProperties DEF PairsInv, OneLoad
    <2>3. \A n \in Nat : n <= 1 /\ k \in 1..n => n = 1
      OBVIOUS
    <2>4. QED
      BY <1>3, <2>2, <2>3
  <1>9. OneLoad'
    <2> SUFFICES ASSUME ~pairsCrossed'
                 PROVE  /\ Len(loads') <= 1
                        /\ pairsLoading' <=> loads' # <<>>
                        /\ ~(Len(loads') = 1)
      BY DEF OneLoad
    <2>1. loads' = <<>> /\ Len(<<>>) = 0
      BY <1>4, <1>8, EmptySeq
    <2>2. Len(loads') <= 1 /\ ~(Len(loads') = 1)
      BY <2>1
    <2>3. pairsLoading' <=> loads' # <<>>
      BY <1>4, <2>1
    <2>4. QED
      BY <2>2, <2>3
  <1>10. QED
    BY <1>5, <1>6, <1>7, <1>9 DEF PairsInv

\* PairsInv is inductive.
LEMMA PairsKept ==
  ASSUME Q!PairsAssumption, PairsInv, [Q!Next]_(Q!pairsVars)
  PROVE  PairsInv'
  <1> Q!PairsTypeOK
    BY DEF PairsInv
  <1>e. <<>> \in Seq(PairsKind) /\ <<>> \in Seq(LoadKind) /\ Len(<<>>) = 0
    BY EmptySeq
  <1>d. ASSUME results' = <<>>, offset' = 0, activeFilter' \in Classes PROVE Drawn'
    <2>1. Len(results') = 0 /\ Rows[activeFilter'] \in Nat
      BY <1>e, <1>d DEF Q!PairsAssumption
    <2>2. 1..Len(results') = {}
      BY <2>1
    <2>3. QED
      BY <1>d, <2>1, <2>2 DEF Drawn
  <1>1. ASSUME NEW c \in Classes, Q!Mount(c) PROVE PairsInv'
    <2>1. /\ pairsMounted' = TRUE /\ activeFilter' = c /\ Q!LoadPage(activeFilter', 0)
          /\ results' = <<>> /\ offset' = 0 /\ hasMore' = hasMore
      BY <1>1 DEF Q!Mount, PairsInv, FoldedHoldsNothing
    <2>2. hasMore' \in BOOLEAN
      BY <2>1 DEF Q!PairsTypeOK
    <2>3. QED
      BY <1>e, <1>d, <2>1, <2>2, AskKeeps
  <1>2. ASSUME NEW c \in Classes, Q!ChooseFilter(c) PROVE PairsInv'
    <2>1. /\ pairsMounted' = TRUE /\ activeFilter' = c /\ Q!LoadPage(activeFilter', 0)
          /\ results' = <<>> /\ offset' = 0 /\ hasMore' = TRUE
      BY <1>2 DEF Q!ChooseFilter, Q!PairsTypeOK
    <2>2. QED
      BY <1>e, <1>d, <2>1, AskKeeps
  <1>3. ASSUME Q!Unmount PROVE PairsInv'
    <2>1. /\ pairsMounted' = FALSE /\ results' = <<>> /\ offset' = 0 /\ hasMore' = FALSE
          /\ pairsLoading' = FALSE /\ failed' = FALSE /\ loads' = <<>> /\ pairsCrossed' = FALSE
          /\ activeFilter' = activeFilter
      BY <1>3 DEF Q!Unmount
    <2>2. Q!PairsTypeOK' /\ failed' \in BOOLEAN
      BY <1>e, <2>1 DEF Q!PairsTypeOK, PairsKind, LoadKind
    <2>3. FoldedHoldsNothing' /\ Q!NothingHidden' /\ ~pairsMounted'
      BY <2>1 DEF FoldedHoldsNothing, Q!NothingHidden
    <2>4. OneLoad'
      <3>1. Len(loads') <= 1 /\ ~(Len(loads') = 1)
        BY <1>e, <2>1
      <3>2. pairsLoading' <=> loads' # <<>>
        BY <2>1
      <3>3. QED
        BY <3>1, <3>2 DEF OneLoad
    <2>5. QED
      BY <2>2, <2>3, <2>4 DEF PairsInv
  <1>4. ASSUME Q!LoadMore \/ Q!Retry PROVE PairsInv'
    <2>1. PICK off \in {0, offset} : Q!LoadPage(activeFilter, off)
      BY <1>4 DEF Q!LoadMore, Q!Retry
    <2>2. UNCHANGED <<pairsMounted, activeFilter, results, offset, hasMore>>
      BY <1>4 DEF Q!LoadMore, Q!Retry
    <2>3. pairsMounted
      BY <1>4 DEF Q!LoadMore, Q!Retry, PairsInv, FoldedHoldsNothing
    <2>4. off \in Nat /\ (off = 0 \/ off = offset')
      BY <2>1, <2>2 DEF Q!PairsTypeOK
    <2>5. ~pairsCrossed => Drawn'
      BY <2>2, <2>3 DEF PairsInv, Drawn
    <2>6. /\ activeFilter' \in Classes /\ pairsMounted' = TRUE /\ hasMore' \in BOOLEAN
          /\ results' \in Seq(PairsKind) /\ offset' \in Nat
      BY <2>2, <2>3 DEF Q!PairsTypeOK, PairsKind
    <2>7. Q!LoadPage(activeFilter', off)
      BY <2>1, <2>2
    <2>8. QED
      BY <2>4, <2>5, <2>6, <2>7, AskKeeps
  <1>5. ASSUME NEW k \in 1..Len(loads), Q!PageLands(k) \/ Q!PageLost(k) PROVE PairsInv'
    BY <1>5, LandKeeps, LossKeeps
  <1>6. ASSUME UNCHANGED Q!pairsVars PROVE PairsInv'
    <2>1. Q!PairsTypeOK' /\ failed' \in BOOLEAN
      BY <1>6 DEF PairsInv, Q!PairsTypeOK, Q!pairsVars
    <2>2. FoldedHoldsNothing' /\ OneLoad'
      BY <1>6 DEF PairsInv, FoldedHoldsNothing, OneLoad, Q!pairsVars
    <2>3. (pairsMounted' /\ ~pairsCrossed' => Drawn') /\ Q!NothingHidden'
      BY <1>6 DEF PairsInv, Drawn, Q!NothingHidden, Q!pairsVars
    <2>4. QED
      BY <2>1, <2>2, <2>3 DEF PairsInv
  <1>7. QED
    BY <1>1, <1>2, <1>3, <1>4, <1>5, <1>6 DEF Q!Next

\* The table of scored pairs draws the beginning of what its filter keeps, each pair
\* once, and hides none behind a missing button, until a tab is pressed before the answer
\* of its predecessor came (ResultsTable: loadPage, handleFilterChange).
THEOREM Paging == Q!PairsSpec => [](Q!PairsTypeOK /\ Q!PairsSound)
  <1> Q!PairsAssumption
    BY DashboardAssumption DEF DashboardAssumption
  <1>1. Q!Init => PairsInv
    <2> SUFFICES ASSUME Q!Init PROVE PairsInv
      OBVIOUS
    <2>1. <<>> \in Seq(PairsKind) /\ <<>> \in Seq(LoadKind) /\ Len(<<>>) = 0
      BY EmptySeq
    <2>2. Q!PairsTypeOK /\ failed \in BOOLEAN
      BY <2>1 DEF Q!Init, Q!PairsTypeOK, PairsKind, LoadKind
    <2>3. FoldedHoldsNothing /\ Q!NothingHidden /\ ~pairsMounted
      BY DEF Q!Init, FoldedHoldsNothing, Q!NothingHidden
    <2>4. OneLoad
      <3>1. Len(loads) <= 1 /\ ~(Len(loads) = 1)
        BY <2>1 DEF Q!Init
      <3>2. pairsLoading <=> loads # <<>>
        BY DEF Q!Init
      <3>3. QED
        BY <3>1, <3>2 DEF OneLoad
    <2>5. QED
      BY <2>2, <2>3, <2>4 DEF PairsInv
  <1>2. PairsInv /\ [Q!Next]_(Q!pairsVars) => PairsInv'
    BY PairsKept
  <1>3. PairsInv => Q!PairsTypeOK /\ Q!PairsSound
    <2> SUFFICES ASSUME PairsInv PROVE Q!PairsTypeOK /\ Q!PairsSound
      OBVIOUS
    <2>1. ASSUME Drawn PROVE results = [i \in 1..Len(results) |-> <<activeFilter, i>>]
      <3>1. results \in [1..Len(results) -> PairsKind]
        BY LenProperties DEF PairsInv, Q!PairsTypeOK, PairsKind
      <3>2. QED
        BY <2>1, <3>1 DEF Drawn
    <2>2. Q!PrefixDrawn
      BY <2>1 DEF PairsInv, Q!PrefixDrawn, Drawn
    <2>3. QED
      BY <2>2 DEF PairsInv, Q!PairsSound
  <1>4. QED
    BY <1>1, <1>2, <1>3, PTL DEF Q!PairsSpec

-----------------------------------------------------------------------------
\* A behaviour of the page is one of each of its widgets: a step that follows another widget
\* leaves the variables of this one alone.
LEMMA PageFollowsConsole == Spec => E!EvalSpec
  <1>1. Init => E!Init
    BY DEF Init
  <1>2. [Next]_vars => [E!Next]_(E!evalVars)
    <2>1. ASSUME Next PROVE E!Next \/ UNCHANGED E!evalVars
      BY <2>1 DEF Next, Follows, Others, E!evalVars, E!console, consoleVars
    <2>2. ASSUME UNCHANGED vars PROVE UNCHANGED E!evalVars
      BY <2>2 DEF vars, E!evalVars, E!console, consoleVars
    <2>3. QED
      BY <2>1, <2>2
  <1>3. QED
    BY <1>1, <1>2, PTL DEF Spec, E!EvalSpec

\* The same of the atmosphere.
LEMMA PageFollowsMood == Spec => A!Spec
  <1>1. Init => A!Init
    BY DEF Init
  <1>2. [Next]_vars => [A!Next]_(A!vars)
    <2>1. ASSUME Next PROVE A!Next \/ UNCHANGED A!vars
      BY <2>1 DEF Next, Follows, Others, A!vars, A!signals, A!derived, moodVars
    <2>2. ASSUME UNCHANGED vars PROVE UNCHANGED A!vars
      BY <2>2 DEF vars, A!vars, A!signals, A!derived, moodVars
    <2>3. QED
      BY <2>1, <2>2
  <1>3. QED
    BY <1>1, <1>2, PTL DEF Spec, A!Spec

\* The same of the hosts.
LEMMA PageFollowsHosts == Spec => V!HostSpec
  <1>1. Init => V!Init
    BY DEF Init
  <1>2. [Next]_vars => [V!Next]_(V!hostVars)
    <2>1. ASSUME Next PROVE V!Next \/ UNCHANGED V!hostVars
      BY <2>1 DEF Next, Follows, Others, V!hostVars, hostsVars
    <2>2. ASSUME UNCHANGED vars PROVE UNCHANGED V!hostVars
      BY <2>2 DEF vars, V!hostVars, hostsVars
    <2>3. QED
      BY <2>1, <2>2
  <1>3. QED
    BY <1>1, <1>2, PTL DEF Spec, V!HostSpec

\* The same of the log.
LEMMA PageFollowsTail == Spec => T!TailSpec
  <1>1. Init => T!Init
    BY DEF Init
  <1>2. [Next]_vars => [T!Next]_(T!tailVars)
    <2>1. ASSUME Next PROVE T!Next \/ UNCHANGED T!tailVars
      BY <2>1 DEF Next, Follows, Others, T!tailVars, tailVars
    <2>2. ASSUME UNCHANGED vars PROVE UNCHANGED T!tailVars
      BY <2>2 DEF vars, T!tailVars, tailVars
    <2>3. QED
      BY <2>1, <2>2
  <1>3. QED
    BY <1>1, <1>2, PTL DEF Spec, T!TailSpec

\* The same of the panel that starts runs.
LEMMA PageFollowsTrigger == Spec => K!TriggerSpec
  <1>1. Init => K!Init
    BY DEF Init
  <1>2. [Next]_vars => [K!Next]_(K!triggerVars)
    <2>1. ASSUME Next PROVE K!Next \/ UNCHANGED K!triggerVars
      BY <2>1 DEF Next, Follows, Others, K!triggerVars, K!form, K!modeSignals, K!readiness,
         triggerVars
    <2>2. ASSUME UNCHANGED vars PROVE UNCHANGED K!triggerVars
      BY <2>2 DEF vars, K!triggerVars, K!form, K!modeSignals, K!readiness, triggerVars
    <2>3. QED
      BY <2>1, <2>2
  <1>3. QED
    BY <1>1, <1>2, PTL DEF Spec, K!TriggerSpec

\* The same of the history of runs.
LEMMA PageFollowsHistory == Spec => H!HistorySpec
  <1>1. Init => H!Init
    BY DEF Init
  <1>2. [Next]_vars => [H!Next]_(H!historyVars)
    <2>1. ASSUME Next PROVE H!Next \/ UNCHANGED H!historyVars
      BY <2>1 DEF Next, Follows, Others, H!historyVars, H!server, H!lists, H!unfolded,
         historyVars
    <2>2. ASSUME UNCHANGED vars PROVE UNCHANGED H!historyVars
      BY <2>2 DEF vars, H!historyVars, H!server, H!lists, H!unfolded, historyVars
    <2>3. QED
      BY <2>1, <2>2
  <1>3. QED
    BY <1>1, <1>2, PTL DEF Spec, H!HistorySpec

\* The same of the scored pairs.
LEMMA PageFollowsPairs == Spec => Q!PairsSpec
  <1>1. Init => Q!Init
    BY DEF Init
  <1>2. [Next]_vars => [Q!Next]_(Q!pairsVars)
    <2>1. ASSUME Next PROVE Q!Next \/ UNCHANGED Q!pairsVars
      BY <2>1 DEF Next, Follows, Others, Q!pairsVars, pairsVars
    <2>2. ASSUME UNCHANGED vars PROVE UNCHANGED Q!pairsVars
      BY <2>2 DEF vars, Q!pairsVars, pairsVars
    <2>3. QED
      BY <2>1, <2>2
  <1>3. QED
    BY <1>1, <1>2, PTL DEF Spec, Q!PairsSpec

-----------------------------------------------------------------------------
\* StandsStillNeedsMishap for every set of runs and every bound: the progress stands still only
\* after one of the three named mishaps.
THEOREM StandstillsAreNamed == Spec => []StandsStillNeedsMishap
  <1>1. Spec => []E!StandsStillNeedsMishap
    BY PageFollowsConsole, ProgressFollowed, PTL
  <1>2. E!StandsStillNeedsMishap => StandsStillNeedsMishap
    BY DEF StandsStillNeedsMishap
  <1>3. QED
    BY <1>1, <1>2, PTL

\* TriggerSound for every set of variants: the fields posted are those of the mode shown, a
\* verdict is there or comes, one run is started at a time.
THEOREM TriggerHolds == Spec => []TriggerSound
  <1>1. Spec => []K!TriggerSound
    BY PageFollowsTrigger, Triggering, PTL
  <1>2. K!TriggerSound => TriggerSound
    BY DEF TriggerSound
  <1>3. QED
    BY <1>1, <1>2, PTL

\* RowSound for every number of pairs, page size and bound: the analysis comes and stays, and the
\* pairs drawn are the beginning of what the tab keeps.
THEOREM RowHolds == Spec => []RowSound
  <1>1. Spec => []H!HistorySound
    BY PageFollowsHistory, Unfolding, PTL
  <1>2. Spec => []Q!PairsSound
    BY PageFollowsPairs, Paging, PTL
  <1>3. H!HistorySound /\ Q!PairsSound => RowSound
    BY DEF RowSound
  <1>4. QED
    BY <1>1, <1>2, <1>3, PTL

-----------------------------------------------------------------------------
\* All widgets.

\* TypesOK for every value of the constants: each signal keeps the kind of value its widget was
\* written for.
THEOREM TypesHold == Spec => []TypesOK
  <1>1. Spec => []P!TypeOK
    BY PageFollowsPolling, PollingNeverDies, PTL
  <1>2. Spec => []B!TypeOK
    BY PageFollowsBoard, Dropping, PTL
  <1>3. Spec => []U!TypeOK
    BY PageFollowsUndo, UndoHeld, PTL
  <1>4. Spec => []F!TypeOK
    BY PageFollowsSubmit, Submitting, PTL
  <1>5. Spec => []A!TypeOK
    BY PageFollowsMood, Calming, PTL
  <1>6. Spec => []S!PlanTypeOK
    BY PageFollowsPlan, PlanIsTyped, PTL
  <1>7. Spec => []R!ActionTypeOK
    BY PageFollowsActions, BatchesApart, PTL
  <1>8. Spec => []G!ChartTypeOK
    BY PageFollowsChart, Charting, PTL
  <1>9. Spec => []V!HostTypeOK
    BY PageFollowsHosts, Hosting, PTL
  <1>10. Spec => []T!TailTypeOK
    BY PageFollowsTail, Tailing, PTL
  <1>11. Spec => []E!EvalTypeOK
    BY PageFollowsConsole, ProgressFollowed, PTL
  <1>12. Spec => []M!PullTypeOK
    BY PageFollowsPulls, PullsRun, PTL
  <1>13. Spec => []D!LetterTypeOK
    BY PageFollowsLetters, LettersRun, PTL
  <1>14. Spec => []N!FormTypeOK
    BY PageFollowsSettings, Saving, PTL
  <1>15. Spec => []K!TriggerTypeOK
    BY PageFollowsTrigger, Triggering, PTL
  <1>16. Spec => []H!HistoryTypeOK
    BY PageFollowsHistory, Unfolding, PTL
  <1>17. Spec => []Q!PairsTypeOK
    BY PageFollowsPairs, Paging, PTL
  <1>18. Spec => []C!ConsumersTypeOK
    BY PageFollowsConsumers, Routing, PTL
  <1>19. Spec => []O!ControlsTypeOK
    BY PageFollowsControls, ControlsTyped, PTL
  <1>20. Spec => []J!RecurringTypeOK
    BY PageFollowsSchedules, Schedules, PTL
  <1>21. Spec => []L!DeferralTypeOK
    BY PageFollowsDeferrals, Deferring, PTL
  <1>22. Spec => []X!SessionTypeOK
    BY PageFollowsSessions, StopsAndPromotions, PTL
  <1>23. /\ P!TypeOK /\ B!TypeOK /\ U!TypeOK /\ F!TypeOK /\ A!TypeOK /\ S!PlanTypeOK
        /\ R!ActionTypeOK /\ G!ChartTypeOK /\ V!HostTypeOK /\ T!TailTypeOK
        /\ E!EvalTypeOK /\ M!PullTypeOK /\ D!LetterTypeOK /\ N!FormTypeOK
        /\ K!TriggerTypeOK /\ H!HistoryTypeOK /\ Q!PairsTypeOK /\ C!ConsumersTypeOK
        /\ O!ControlsTypeOK /\ J!RecurringTypeOK /\ L!DeferralTypeOK /\ X!SessionTypeOK
        => TypesOK
    BY DEF TypesOK
  <1>24. QED
    BY <1>1, <1>2, <1>3, <1>4, <1>5, <1>6, <1>7, <1>8, <1>9, <1>10, <1>11, <1>12, <1>13,
       <1>14, <1>15, <1>16, <1>17, <1>18, <1>19, <1>20, <1>21, <1>22, <1>23, PTL

\* PicturesAgree for all bars, starts, durations, hosts and limits: the banner counts the
\* failures, nothing escalates when all is well, an acknowledgement covers one incident, the
\* lanes are right and as few as the bars need, and the views of the hosts draw one state.
THEOREM PicturesHold == Spec => []PicturesAgree
  <1>1. Spec => []P!BannerCounts
    BY PageFollowsPolling, PollingNeverDies, PTL
  <1>2. Spec => [](A!CalmWhenOperational /\ A!AckIsForOneIncident)
    BY PageFollowsMood, Calming, PTL
  <1>3. Spec => []G!ChartSound
    BY PageFollowsChart, Charting, PTL
  <1>4. Spec => []V!ViewsAgree
    BY PageFollowsHosts, Hosting, PTL
  <1>5. /\ P!BannerCounts /\ A!CalmWhenOperational /\ A!AckIsForOneIncident
        /\ G!ChartSound /\ V!ViewsAgree
        => PicturesAgree
    BY DEF PicturesAgree
  <1>6. QED
    BY <1>1, <1>2, <1>3, <1>4, <1>5, PTL
=============================================================================
