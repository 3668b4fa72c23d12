------------------------------ MODULE Dashboard ------------------------------
\* The dashboard (dashboard/spa/src): the page is a set of widgets, each with its
\* own signals, hooks and requests, and its own module.  A behaviour follows one of
\* them; the others keep still, as they do for a user who works with one.  What two
\* widgets share is in the module of the one that it can go wrong in: the Eval
\* poll that navigation stops in EvalConsole, the schedule that the chart and the
\* rows show in PlanPage, the job a card tails in LogTail.  Three parts are not widgets
\* but what the page orders from the server: recurring jobs, deferrals and the sessions
\* of evaluation runs.
EXTENDS Naturals

CONSTANTS
    Widgets,        \* those whose behaviours a run follows
    MaxVersion, MaxFetchAlls, Intervals, BaseInterval, MaxBackoff, FailureLimit,
    SlowPeriod, Jobs, Tag, None, MaxPriority, DefaultPriority, MaxDrops, MaxReplies,
    MaxRequests, Backends, TopLevel, NoLevel, RJobs, NoRow, MaxCalls, MaxChanges, Tags,
    MaxPresses, Bars, Starts, Durations, HeavyBars, DefaultLength, WindowHalf,
    ZoomHalf, SlotCount, MidnightTo0, Hosts, Addresses, TailJobs, NoJob, MaxFetches,
    Runs, NoRun, MaxReads, MaxOrders, Pulls, MaxWire, MaxLost, Entries, NoEntry,
    NumberKeys, OptionKeys, Values, Options, Missing, Blank, Text, MaxSaves, MaxPolls,
    Variants, Hours, NoField, MaxChecks, MaxStarts, ChosenFilters, MaxLists, MaxPosts,
    Classes, Rows, PageSize, MaxLoads, MaxAnalyses, MaxRowOrders,
    RecurringJobs, Instances, PoolThreads, MaxRuns, MaxAsks, MaxHalts, NoSchedule, NoInstance,
    DeferJobs, Deferrals, MaxDeferHalts, NoOne,
    EvalRuns, EvalVariants, SystemVariants, MaxEvalHalts, NoVariant, NoEval

VARIABLES
    widget,         \* the one whose behaviour this is
    server, net, mounted, pollTimer, strays, polls, alls, slows, pollFailures,
    connectionStatus, backoff, interval, pollCount, polledQueue, charts, opened,
    jobStatus, prio, queue, replies, puts, tagFilter, dragIdx, drops, goal,
    cancelStatus, listedJobs, listOpen, pendingCancels, timers, requests, cancelError,
    spared,
    dialogOpen, command, error, phase, idleTimer, closers, inFlight, sent, jobs,
    staleReset,
    connection, daemonPaused, unhealthy, fetchError, dlq, booted, healthMode,
    failedServices, orchestrator, escalationLevel, incident, incidentAcked, sinceBoot,
    schedule, changes, writers, link, planOpen, scheduleJobs, planCalls, refreshing,
    interacting, expandedJobId, editForm, pendingDeleteId, generatingDescId,
    planLoading, idleTimers,
    batchPhase, batchTimer, batchRunningTags, batches, addOpen, addError, showAdvanced,
    scheduleMode, addForm, submitting, adds, presses,
    bars, selectedBarId, zoomedAnchor, selectedBucketIdx, barRuns, barRunsLoading,
    runFetches,
    daemon, currentJob, activeEval, healthy, loaded, glitch, expandedNode,
    tailOpen, isRunning, jobId, logOf, fetches, logLink,
    runStatus, evalLink, evalTab, activeRun, poll, consoleReads, consoleOrders, mishap,
    pullRow, pullProc, monitors, restarted, modelsOpen, activePulls, pullIntervals,
    pullError, pullWire, lost, overtaken,
    resolution, rescheduled, requeued, historyOpen, letterList, letterBusy,
    letterCalls, letterMissed,
    stored, settings, typed, saves, settingsPolls, untold,
    panel, picked, options, runMode, modeFields, fillLimit, fillHours, scheduledAt,
    verdict, checks, priming, starting, starts,
    stage, computed, text, analyzing, shown, listsAsked, listsTold, page, filter,
    level, analysis, reads, overlapped, missed, busy, posts, refresh,
    pairsMounted, activeFilter, results, offset, hasMore, pairsLoading, failed, loads,
    pairsCrossed,
    file, bak, consumerStatus, streaming, consumerOrders, consumerShown, consumerList,
    confirm, consumerCrossed, cut,
    state, cycle, claimed, stateShown, polling, post, paused, trampled, late,
    recurring, instance, promoter, runner, asks, halts, tally,
    commandOnly, deferStatus, entry, sweeper, sweepDue, toDefer, toResume, processes,
    ended, crossed, deferHalts,
    evalRow, session, canceller, recovering, promotions, catalog, production, lessonsDb,
    stopped, astray, evalHalts

P == INSTANCE LivePolling WITH queue <- polledQueue
B == INSTANCE QueueBoard WITH status <- jobStatus
U == INSTANCE UndoCancel WITH status <- cancelStatus, listed <- listedJobs, open <- listOpen
F == INSTANCE SubmitForm WITH open <- dialogOpen
A == INSTANCE Atmosphere WITH None <- NoLevel
S == INSTANCE PlanPage WITH calls <- planCalls, loading <- planLoading
R == INSTANCE PlanActions
G == INSTANCE GanttChart
V == INSTANCE HostViews
T == INSTANCE LogTail
E == INSTANCE EvalConsole WITH reads <- consoleReads, orders <- consoleOrders
M == INSTANCE ModelPull
D == INSTANCE DeadLetterPage WITH
       listed <- letterList, busy <- letterBusy, missed <- letterMissed, calls <- letterCalls
N == INSTANCE SettingsForm
K == INSTANCE RunTrigger
H == INSTANCE RunHistory WITH MaxReads <- MaxAnalyses
Q == INSTANCE ScoredPairs WITH
       mounted <- pairsMounted, loading <- pairsLoading, crossed <- pairsCrossed
C == INSTANCE Consumers WITH
       status <- consumerStatus, listed <- consumerList, shown <- consumerShown,
       orders <- consumerOrders, crossed <- consumerCrossed, MaxOrders <- MaxRowOrders
O == INSTANCE DaemonControls WITH shown <- stateShown
J == INSTANCE Recurring
L == INSTANCE Deferral
X == INSTANCE EvalSession

\* The constants are what every widget's module takes them to be.
ASSUME DashboardAssumption ==
    /\ P!PollingAssumption /\ B!BoardAssumption /\ F!SubmitAssumption
    /\ A!AtmosphereAssumption /\ S!PlanAssumption /\ R!ActionsAssumption
    /\ G!ChartAssumption /\ V!HostViewsAssumption
    /\ E!EvalAssumption /\ M!PullAssumption /\ D!LetterAssumption
    /\ N!SettingsAssumption /\ K!TriggerAssumption /\ H!HistoryAssumption
    /\ Q!PairsAssumption /\ C!ConsumersAssumption /\ J!RecurringAssumption
    /\ L!DeferralAssumption /\ X!SessionAssumption

pollingVars == <<server, net, mounted, pollTimer, strays, polls, alls, slows,
                 pollFailures, connectionStatus, backoff, interval, pollCount,
                 polledQueue, charts, opened>>
boardVars == <<jobStatus, prio, queue, replies, puts, tagFilter, dragIdx, drops, goal>>
undoVars == <<cancelStatus, listedJobs, listOpen, pendingCancels, timers, requests,
              cancelError, spared>>
submitVars == <<dialogOpen, command, error, phase, idleTimer, closers, inFlight, sent,
                jobs, staleReset>>
moodVars == <<connection, daemonPaused, unhealthy, fetchError, dlq, booted, healthMode,
              failedServices, orchestrator, escalationLevel, incident, incidentAcked,
              sinceBoot>>
planVars == <<schedule, changes, writers, link, planOpen, scheduleJobs, planCalls,
              refreshing, interacting, expandedJobId, editForm, pendingDeleteId,
              generatingDescId, planLoading, idleTimers>>
actionsVars == <<batchPhase, batchTimer, batchRunningTags, batches, addOpen, addError,
                 showAdvanced, scheduleMode, addForm, submitting, adds, presses>>
chartVars == <<bars, selectedBarId, zoomedAnchor, selectedBucketIdx, barRuns,
               barRunsLoading, runFetches>>
hostsVars == <<daemon, currentJob, activeEval, healthy, loaded, glitch, expandedNode>>
tailVars == <<tailOpen, isRunning, jobId, logOf, fetches, logLink>>
consoleVars == <<runStatus, evalLink, evalTab, activeRun, poll, consoleReads,
                 consoleOrders, mishap>>
pullsVars == <<pullRow, pullProc, monitors, restarted, modelsOpen, activePulls,
               pullIntervals, pullError, pullWire, lost, overtaken>>
lettersVars == <<resolution, rescheduled, requeued, historyOpen, letterList,
                 letterBusy, letterCalls, letterMissed>>
settingsVars == <<stored, settings, typed, saves, settingsPolls, untold>>
triggerVars == <<panel, picked, options, runMode, modeFields, fillLimit, fillHours,
                 scheduledAt, verdict, checks, priming, starting, starts>>
historyVars == <<stage, computed, text, analyzing, shown, listsAsked, listsTold, page,
                 filter, level, analysis, reads, overlapped, missed, busy, posts,
                 refresh>>
pairsVars == <<pairsMounted, activeFilter, results, offset, hasMore, pairsLoading,
               failed, loads, pairsCrossed>>
consumersVars == <<file, bak, consumerStatus, streaming, consumerOrders, consumerShown,
                   consumerList, confirm, consumerCrossed, cut>>
controlsVars == <<state, cycle, claimed, stateShown, polling, post, paused, trampled,
                  late>>
recurringVars == <<recurring, instance, promoter, runner, asks, halts, tally>>
deferralVars == <<commandOnly, deferStatus, entry, sweeper, sweepDue, toDefer, toResume,
                  processes, ended, crossed, deferHalts>>
sessionsVars == <<evalRow, session, canceller, recovering, promotions, catalog, production,
                  lessonsDb, stopped, astray, evalHalts>>

vars == <<widget, pollingVars, boardVars, undoVars, submitVars, moodVars, planVars,
          actionsVars, chartVars, hostsVars, tailVars, consoleVars, pullsVars,
          lettersVars, settingsVars, triggerVars, historyVars, pairsVars,
          consumersVars, controlsVars, recurringVars, deferralVars, sessionsVars>>

-----------------------------------------------------------------------------
\* Where a widget can begin in several ways, one that keeps still begins in one.
Parked ==
    /\ widget # "chart" =>
         bars = [b \in Bars |-> [next_run |-> DefaultLength, estimated_duration |-> 0]]
    /\ widget # "letters" => resolution = [e \in Entries |-> "absent"]
    /\ widget # "settings" =>
         stored = [k \in NumberKeys \union OptionKeys |->
                     IF k \in NumberKeys THEN 0 ELSE CHOOSE o \in Options : TRUE]
    /\ widget # "trigger" => fillHours = CHOOSE h \in Hours : TRUE
    /\ widget # "history" => stage = "failed" /\ computed = FALSE
    /\ widget # "pairs" => activeFilter = CHOOSE c \in Classes : TRUE
    /\ widget # "consumers" => streaming = FALSE
    /\ widget # "controls" => state = "idle"
    /\ widget # "deferrals" => commandOnly = {}
    /\ widget # "sessions" => lessonsDb = NoVariant

Init ==
    /\ widget \in Widgets
    /\ Parked
    /\ P!Init /\ B!Init /\ U!Init /\ F!Init /\ A!Init /\ S!Init /\ R!Init /\ G!Init /\ V!Init /\ T!Init
    /\ E!Init /\ M!Init /\ D!Init /\ N!Init /\ K!Init /\ H!Init /\ Q!Init /\ C!Init /\ O!Init
    /\ J!RecurringInit /\ L!DeferralInit /\ X!SessionInit

Others(w) ==
    /\ UNCHANGED widget
    /\ w # "polling" => UNCHANGED pollingVars
    /\ w # "board" => UNCHANGED boardVars
    /\ w # "undo" => UNCHANGED undoVars
    /\ w # "submit" => UNCHANGED submitVars
    /\ w # "mood" => UNCHANGED moodVars
    /\ w # "plan" => UNCHANGED planVars
    /\ w # "actions" => UNCHANGED actionsVars
    /\ w # "chart" => UNCHANGED chartVars
    /\ w # "hosts" => UNCHANGED hostsVars
    /\ w # "tail" => UNCHANGED tailVars
    /\ w # "console" => UNCHANGED consoleVars
    /\ w # "pulls" => UNCHANGED pullsVars
    /\ w # "letters" => UNCHANGED lettersVars
    /\ w # "settings" => UNCHANGED settingsVars
    /\ w # "trigger" => UNCHANGED triggerVars
    /\ w # "history" => UNCHANGED historyVars
    /\ w # "pairs" => UNCHANGED pairsVars
    /\ w # "consumers" => UNCHANGED consumersVars
    /\ w # "controls" => UNCHANGED controlsVars
    /\ w # "schedules" => UNCHANGED recurringVars
    /\ w # "deferrals" => UNCHANGED deferralVars
    /\ w # "sessions" => UNCHANGED sessionsVars

Follows(w) == widget = w /\ Others(w)

Next ==
    \/ Follows("polling") /\ P!Next
    \/ Follows("board") /\ B!Next
    \/ Follows("undo") /\ U!Next
    \/ Follows("submit") /\ F!Next
    \/ Follows("mood") /\ A!Next
    \/ Follows("plan") /\ S!Next
    \/ Follows("actions") /\ R!Next
    \/ Follows("chart") /\ G!Next
    \/ Follows("hosts") /\ V!Next
    \/ Follows("tail") /\ T!Next
    \/ Follows("console") /\ E!Next
    \/ Follows("pulls") /\ M!Next
    \/ Follows("letters") /\ D!Next
    \/ Follows("settings") /\ N!Next
    \/ Follows("trigger") /\ K!Next
    \/ Follows("history") /\ H!Next
    \/ Follows("pairs") /\ Q!Next
    \/ Follows("consumers") /\ C!Next
    \/ Follows("controls") /\ O!Next
    \/ Follows("schedules") /\ J!RecurringNext
    \/ Follows("deferrals") /\ L!DeferralNext
    \/ Follows("sessions") /\ X!SessionNext

Spec == Init /\ [][Next]_vars

\* The fairness of the widgets that have it, of the behaviours that follow them.
PollingFair ==
    /\ WF_pollingVars(widget = "polling" /\ P!NamedTimerFires)
    /\ WF_pollingVars(widget = "polling" /\ P!StrayTimerFires)
    /\ \A v \in P!Versions :
         /\ WF_pollingVars(widget = "polling" /\ P!StatusAnswered(v))
         /\ WF_pollingVars(widget = "polling" /\ P!AllAnswered(v))
         /\ WF_pollingVars(widget = "polling" /\ P!SlowAnswered(v))

MoodFair ==
    /\ WF_moodVars(widget = "mood" /\ A!BootEnds)
    /\ WF_moodVars(widget = "mood" /\ A!Escalate)

PlanFair ==
    /\ WF_planVars(widget = "plan" /\ S!Refresh)
    /\ WF_planVars(widget = "plan" /\ S!Served1)
    /\ WF_planVars(widget = "plan" /\ S!Read1)
    /\ WF_planVars(widget = "plan" /\ S!Landed1)
    /\ WF_planVars(widget = "plan" /\ S!Stored1)

TailFair ==
    /\ WF_tailVars(widget = "tail" /\ T!TailTick)
    /\ WF_tailVars(widget = "tail" /\ T!Head1)
    /\ WF_tailVars(widget = "tail" /\ T!Body1)

ConsoleFair ==
    /\ WF_consoleVars(widget = "console" /\ E!PollTick)
    /\ WF_consoleVars(widget = "console" /\ E!TickAnswered)
    /\ WF_consoleVars(widget = "console" /\ E!CheckAnswered)
    /\ WF_consoleVars(widget = "console" /\ E!OrderAnswered)
    /\ \A r \in Runs :
         /\ WF_consoleVars(widget = "console" /\ E!RunEnds(r))

PullFair ==
    /\ WF_pullsVars(widget = "pulls" /\ M!PollAsked)
    /\ WF_pullsVars(widget = "pulls" /\ M!PollAnswered)
    /\ \A p \in Pulls :
         /\ WF_pullsVars(widget = "pulls" /\ M!PollTick(p))
         /\ WF_pullsVars(widget = "pulls" /\ M!ProcessEnds(p))
         /\ WF_pullsVars(widget = "pulls" /\ M!MonitorWrites(p))

SweepFair ==
    /\ WF_deferralVars(widget = "deferrals" /\ L!PollThread)
    /\ WF_deferralVars(widget = "deferrals" /\ L!IntervalPasses)
    /\ \A d \in Deferrals : WF_deferralVars(widget = "deferrals" /\ L!ScheduledTimePasses(d))

FairSpec ==
    /\ Spec
    /\ PollingFair /\ MoodFair /\ PlanFair /\ TailFair /\ ConsoleFair /\ PullFair
    /\ SweepFair

-----------------------------------------------------------------------------
\* Each signal keeps the kind of value its widget was written for.
TypesOK ==
    /\ widget = "polling" => P!TypeOK
    /\ widget = "board" => B!TypeOK
    /\ widget = "undo" => U!TypeOK
    /\ widget = "submit" => F!TypeOK
    /\ widget = "mood" => A!TypeOK
    /\ widget = "plan" => S!PlanTypeOK
    /\ widget = "actions" => R!ActionTypeOK
    /\ widget = "chart" => G!ChartTypeOK
    /\ widget = "hosts" => V!HostTypeOK
    /\ widget = "tail" => T!TailTypeOK
    /\ widget = "console" => E!EvalTypeOK
    /\ widget = "pulls" => M!PullTypeOK
    /\ widget = "letters" => D!LetterTypeOK
    /\ widget = "settings" => N!FormTypeOK
    /\ widget = "trigger" => K!TriggerTypeOK
    /\ widget = "history" => H!HistoryTypeOK
    /\ widget = "pairs" => Q!PairsTypeOK
    /\ widget = "consumers" => C!ConsumersTypeOK
    /\ widget = "controls" => O!ControlsTypeOK
    /\ widget = "schedules" => J!RecurringTypeOK
    /\ widget = "deferrals" => L!DeferralTypeOK
    /\ widget = "sessions" => X!SessionTypeOK

\* fetchStatus re-arms itself on every path: a mounted page has a timer armed or a
\* status request on its way.
PollingAlive == widget = "polling" => P!PollingAlive

\* The PUTs of the rows that a drop moved leave the server with the order the user
\* left, in whatever order they arrive and whatever joined or left the queue.
DropPersisted == widget = "board" => B!DropPersisted

\* requestCancel's five seconds: a job that was undone or left in them is never
\* cancelled by the timer.
UndoHolds == widget = "undo" => U!UndoHolds

\* The guard of useActionFeedback's run() and the buttons that share a phase: no two
\* batch runs of a tag, and no two jobs that are added, are on their way at once; two
\* submissions are only after the idle timer of an earlier success came late.
RequestsApart ==
    /\ widget = "actions" => R!NoOverlappingRequests
    /\ widget = "submit" => F!OverlapNeedsStaleTimer

\* refreshingRef, the phases of the buttons and generatingDescId never outlive the
\* request they stand for, however it ends and whichever visit it comes back to.
FlagsGivenBack == widget = "plan" => S!FlagsGivenBack

\* What is shown of one fact in several places agrees: the banner and the failures it
\* counts; the escalation and the acknowledgement with the incident they belong to; lanes,
\* conflicts and slots of the chart; cards, nodes, edges and panels of the hosts.
PicturesAgree ==
    /\ widget = "polling" => P!BannerCounts
    /\ widget = "mood" => A!CalmWhenOperational /\ A!AckIsForOneIncident
    /\ widget = "chart" => G!ChartSound
    /\ widget = "hosts" => V!ViewsAgree

\* The progress of a run stands still only after one of three named mishaps of
\* startEvalPoll and its callers.
StandsStillNeedsMishap == widget = "console" => E!StandsStillNeedsMishap

\* Intervals, threads and rows of the downloads: a row that pulls is asked about, or
\* is the ghost that a late answer made; a row says completed only of one that was.
PullsAccounted == widget = "pulls" => M!PullsAccounted

\* Re-queueing, dismissing, rescheduling and clearing dead letters, in any
\* interleaving: one job of an entry, a truthful list, no button left disabled.
LettersHandled == widget = "letters" => D!LettersHandled

\* Saving on blur: numbers stay numbers, and the form shows the table.
SettingsSound == widget = "settings" => N!SettingsSound

\* The panel that starts runs posts the fields of the mode it shows, has a verdict
\* or waits for one, and starts one run at a time.
TriggerSound == widget = "trigger" => K!TriggerSound

\* An unfolded run: its analysis comes and stays, and its pairs are the beginning of
\* what the tab keeps, but for requests that overlapped or failed.
RowSound == (widget = "history" => H!HistorySound) /\ (widget = "pairs" => Q!PairsSound)

\* Including, ignoring, reverting and scanning a consumer: the backup leads back,
\* and the row tells where the file points, but for orders that crossed.
ConsumersSound == widget = "consumers" => C!ConsumersSound

\* A manual pause holds and is shown, but for the named writers that replace it.
ControlsSound == widget = "controls" => O!ControlsSound

\* Promotion makes one instance of a schedule at a time and max_runs is kept; a deferred
\* job can be brought back and runs as one; but for the races that are named.
SchedulingSound ==
    /\ widget = "schedules" => J!ScheduleSound
    /\ widget = "deferrals" => L!DeferralSound

\* An evaluation run that is stopped while its session works stays stopped, none is left
\* working without a session, and one variant is in production, here and in lessons-db.
SessionsSound == widget = "sessions" => X!EvalSound

\* The atmosphere's escalation reaches its top level for a failure that began after
\* the boot screen and kept its severity.
FreshFailureEscalates == A!FreshFailureEscalates

\* Whatever polls were lost, refused or overtaken, the page ends showing the server's
\* queue and charts, the open Plan page its schedule, and an expanded card the log of its
\* own job.
PageCatchesUp == P!PageFollowsServer /\ S!ScheduleFollows /\ T!LogCatchesUp

\* What the page shows as under way ends: a run's progress, a download's row and the wait
\* of a deferred job that was given a time, but for the named mishaps, ghosts and restarts.
ProgressEnds == E!PanelEnds /\ M!PullSettles /\ L!PlacedReturns
=============================================================================
