------------------------------ MODULE PlanPage -------------------------------
(* The Plan page (pages/Plan/index.jsx, stores/schedule.js): the schedule it   *)
(* shows, the refresh every ten seconds that stands still while the pointer is *)
(* on the chart, the panel of one row with its form, the requests its controls *)
(* send.  A request is first served (the server's state changes), then the     *)
(* schedule is fetched, then the page continues, if it is still the same page. *)
EXTENDS FiniteSets, Integers, FiniteSetsExt

CONSTANTS
    RJobs,          \* recurring jobs
    NoRow,          \* null
    MaxCalls,       \* bound: requests on their way
    MaxChanges      \* bound: changes the page and the daemon make to the schedule

PlanAssumption == MaxChanges \in Nat

Fields == {"enabled", "described"}
Buttons == {"save", "generate", "delete"}   \* saveFb, generateFb, deleteFb

VARIABLES
    schedule,       \* the server's recurring_jobs: [job -> [Fields -> BOOLEAN]]
    changes,        \* changes of it so far (bound)
    writers,        \* jobs a description is being generated for, on the server
    link,           \* "up" or "down" (answers that are not ok included)
    planOpen,       \* the page is mounted
    scheduleJobs,   \* the schedule the page shows
    calls,          \* requests on their way; two that are alike are one (bound)
    refreshing,     \* refreshingRef
    interacting,    \* ganttInteractingRef
    expandedJobId, editForm, pendingDeleteId, generatingDescId,
    loading,        \* Buttons whose phase is "loading"
    idleTimers      \* Buttons whose three second timer is armed

data == <<schedule, changes, writers>>
pointer == <<refreshing, interacting>>
panel == <<expandedJobId, editForm, pendingDeleteId>>
phases == <<generatingDescId, loading, idleTimers>>
planVars == <<data, link, planOpen, scheduleJobs, calls, pointer, panel, phases>>

Records == [Fields -> BOOLEAN]
Schedules == UNION {[J -> Records] : J \in SUBSET RJobs}
Call(op, rj, up) == [op |-> op, job |-> rj, updates |-> up, here |-> TRUE,
                     stage |-> "sent", answer |-> <<>>]
Get(op) == [Call(op, NoRow, <<>>) EXCEPT !.stage = "get"]

Init ==
    /\ schedule = [rj \in RJobs |-> [f \in Fields |-> f = "enabled"]] /\ changes = 0 /\ writers = {}
    /\ link = "up" /\ planOpen = FALSE
    /\ scheduleJobs = <<>> /\ calls = {}
    /\ refreshing = FALSE /\ interacting = FALSE
    /\ expandedJobId = NoRow /\ editForm = NoRow /\ pendingDeleteId = NoRow
    /\ generatingDescId = NoRow /\ loading = {} /\ idleTimers = {}

Send(c) == Cardinality(calls) < MaxCalls /\ calls' = calls \union {c}
Counted == changes < MaxChanges /\ changes' = changes + 1
Mutate(c) == Send(c) /\ Counted /\ UNCHANGED <<schedule, writers>>

ClosePanel == expandedJobId' = NoRow /\ editForm' = NoRow

----------------------------------------------------------------------------
\* The effect on mount: fetchSchedule (and the page's other reads).
MountPlan ==
    /\ ~planOpen
    /\ planOpen' = TRUE
    /\ Send(Get("mount"))
    /\ UNCHANGED <<data, link, scheduleJobs, pointer, panel, phases>>

\* Its cleanup: timers, refs and state go with the page, what is on its way comes
\* back to nobody; the signal scheduleJobs stays.
UnmountPlan ==
    /\ planOpen
    /\ planOpen' = FALSE
    /\ calls' = {[c EXCEPT !.here = FALSE] : c \in calls}
    /\ refreshing' = FALSE /\ interacting' = FALSE
    /\ ClosePanel /\ pendingDeleteId' = NoRow
    /\ generatingDescId' = NoRow /\ loading' = {} /\ idleTimers' = {}
    /\ UNCHANGED <<data, link, scheduleJobs>>

RefreshIfFolded ==
    /\ planOpen /\ ~refreshing /\ ~interacting /\ expandedJobId = NoRow
    /\ refreshing' = TRUE
    /\ Send(Get("tick"))
    /\ UNCHANGED <<data, link, planOpen, scheduleJobs, interacting, panel, phases>>

\* The ten second interval: skipped while one is on its way or the chart is in use.
Refresh ==
    /\ planOpen /\ ~refreshing /\ ~interacting
    /\ refreshing' = TRUE
    /\ Send(Get("tick"))
    /\ UNCHANGED <<data, link, planOpen, scheduleJobs, interacting, panel, phases>>

\* onMouseEnter and onMouseLeave of the strip, the chart and the full screen; closing
\* the full screen by Escape or its button is no leave: the flag stays as it is.
PointerMoves ==
    /\ planOpen
    /\ interacting' = ~interacting
    /\ UNCHANGED <<data, link, planOpen, scheduleJobs, calls, refreshing, panel, phases>>

----------------------------------------------------------------------------
\* toggleJobDetail: closing drops the form; opening copies the row that is shown,
\* and keeps the old form when no such row is shown (a bar of an evaluation run).
ToggleDetail(rj) ==
    /\ planOpen
    /\ IF expandedJobId = rj
         THEN expandedJobId' = NoRow /\ editForm' = NoRow
         ELSE /\ expandedJobId' = rj
              /\ editForm' = IF rj \in DOMAIN scheduleJobs
                               THEN [id |-> rj, value |-> scheduleJobs[rj]] ELSE editForm
    /\ UNCHANGED <<data, link, planOpen, scheduleJobs, calls, pointer, pendingDeleteId, phases>>

\* renderDetailPanel: the row whose panel is on the page, if any.
PanelOf(rj) ==
    /\ planOpen /\ expandedJobId = rj /\ rj \in DOMAIN scheduleJobs
    /\ editForm # NoRow /\ editForm.id = rj

Type(rj) ==
    /\ PanelOf(rj)
    /\ \E f \in Fields : editForm' = [editForm EXCEPT !.value[f] = ~@]
    /\ UNCHANGED <<data, link, planOpen, scheduleJobs, calls, pointer, expandedJobId,
                   pendingDeleteId, phases>>

\* The fields handleDetailSave sends: those that differ from the row shown now.
Updates(rj) ==
    LET changed == {f \in Fields : editForm.value[f] # scheduleJobs[rj][f]}
    IN [f \in changed |-> editForm.value[f]]

\* run() of useActionFeedback up to the request.
Begin(button, rj, up) ==
    /\ button \notin loading
    /\ loading' = loading \union {button}
    /\ Mutate(Call(button, rj, up))
    /\ UNCHANGED idleTimers

\* handleDetailSave
Save(rj) ==
    /\ PanelOf(rj) /\ "save" \notin loading
    /\ IF Updates(rj) = <<>>
         THEN ClosePanel /\ UNCHANGED <<data, calls, phases>>
         ELSE Begin("save", rj, Updates(rj)) /\ UNCHANGED <<expandedJobId, editForm, generatingDescId>>
    /\ UNCHANGED <<link, planOpen, scheduleJobs, pointer, pendingDeleteId>>

\* The checkbox of a row, or its Re-enable button when the daemon has disabled it: a
\* PUT of what is not shown, and a fetch.
PutEnabled(rj, value) ==
    /\ planOpen /\ rj \in DOMAIN scheduleJobs
    /\ Mutate(Call("toggle", rj, [f \in {"enabled"} |-> value]))
    /\ UNCHANGED <<link, planOpen, scheduleJobs, pointer, panel, phases>>

ToggleEnabled(rj) == rj \in DOMAIN scheduleJobs /\ PutEnabled(rj, ~scheduleJobs[rj].enabled)

Reenable(rj) == rj \in DOMAIN scheduleJobs /\ ~scheduleJobs[rj].enabled /\ PutEnabled(rj, TRUE)

\* handleGenerateDescription: while another row is generating, run() returns at once
\* and the id of that row is lost with this one's.
Generate(rj) ==
    /\ PanelOf(rj) /\ generatingDescId # rj
    /\ IF "generate" \in loading
         THEN generatingDescId' = NoRow /\ UNCHANGED <<data, calls, loading, idleTimers>>
         ELSE generatingDescId' = rj /\ Begin("generate", rj, <<>>)
    /\ UNCHANGED <<link, planOpen, scheduleJobs, pointer, panel>>

\* Delete, Cancel, and the second click.
RequestDelete(rj) ==
    /\ PanelOf(rj) /\ (pendingDeleteId = rj \/ "delete" \notin loading)
    /\ pendingDeleteId' = IF pendingDeleteId = rj THEN NoRow ELSE rj
    /\ UNCHANGED <<data, link, planOpen, scheduleJobs, calls, pointer, expandedJobId, editForm, phases>>

ConfirmDelete(rj) ==
    /\ PanelOf(rj) /\ pendingDeleteId = rj
    /\ pendingDeleteId' = NoRow
    /\ Begin("delete", rj, <<>>)
    /\ UNCHANGED <<link, planOpen, scheduleJobs, pointer, expandedJobId, editForm, generatingDescId>>

\* The timer of an earlier success; run() does not clear it when the next begins.
IdleTimerFires(button) ==
    /\ button \in idleTimers
    /\ idleTimers' = idleTimers \ {button}
    /\ loading' = loading \ {button}
    /\ UNCHANGED <<data, link, planOpen, scheduleJobs, calls, pointer, panel, generatingDescId>>

----------------------------------------------------------------------------
\* What a request does to the server's schedule; a PUT of a deleted job is a 404.
Applied(c) ==
    CASE c.op \in {"save", "toggle"} ->
           [schedule EXCEPT ![c.job] = [f \in Fields |->
               IF f \in DOMAIN c.updates THEN c.updates[f] ELSE schedule[c.job][f]]]
      [] c.op = "delete" -> [rj \in DOMAIN schedule \ {c.job} |-> schedule[rj]]
      [] c.op = "generate" -> schedule

EndedRefreshing(c) ==
    /\ calls' = calls \ {c}
    /\ loading' = IF c.here THEN loading \ {c.op} ELSE loading
    /\ generatingDescId' = IF c.here /\ c.op = "generate" THEN NoRow ELSE generatingDescId
    /\ UNCHANGED refreshing

\* The end of a handler: its phase is success or error, its flag is given back.
Ended(c) ==
    /\ calls' = calls \ {c}
    /\ loading' = IF c.here THEN loading \ {c.op} ELSE loading
    /\ generatingDescId' = IF c.here /\ c.op = "generate" THEN NoRow ELSE generatingDescId
    /\ refreshing' = (refreshing /\ ~(c.here /\ c.op = "tick"))

\* A mutation reaches the server, and the page asks for the schedule; or it fails.
Served(c) ==
    /\ c \in calls /\ c.stage = "sent"
    /\ IF link = "up" /\ c.job \in DOMAIN schedule
         THEN /\ schedule' = Applied(c)
              /\ writers' = IF c.op = "generate" THEN writers \union {c.job} ELSE writers
              /\ calls' = (calls \ {c}) \union {[c EXCEPT !.stage = "get"]}
              /\ UNCHANGED <<changes, refreshing, generatingDescId, loading>>
         ELSE Ended(c) /\ UNCHANGED data
    /\ UNCHANGED <<link, planOpen, scheduleJobs, interacting, panel, idleTimers>>

\* GET /api/schedule reads the table; its answer is on its way.
Read(c) ==
    /\ c \in calls /\ c.stage = "get"
    /\ calls' = (calls \ {c}) \union {[c EXCEPT !.stage = "answer", !.answer = schedule]}
    /\ UNCHANGED <<data, link, planOpen, scheduleJobs, pointer, panel, phases>>

\* fetchSchedule never throws: whatever came, the continuation runs. A save and a
\* delete close whichever panel is open then.
Landed(c) ==
    /\ c \in calls /\ c.stage = "answer"
    /\ scheduleJobs' = IF link = "up" THEN c.answer ELSE scheduleJobs
    /\ IF c.here /\ c.op \in {"save", "delete"} THEN ClosePanel ELSE UNCHANGED <<expandedJobId, editForm>>
    /\ Ended(c)
    /\ idleTimers' = IF c.here THEN idleTimers \union ({c.op} \intersect Buttons) ELSE idleTimers
    /\ UNCHANGED <<data, link, planOpen, interacting, pendingDeleteId>>

\* The server: a description is stored, the daemon disables a job (an exhausted
\* budget, another client), the network changes.
DescriptionStored(rj) ==
    /\ rj \in writers
    /\ writers' = writers \ {rj}
    /\ schedule' = IF rj \in DOMAIN schedule THEN [schedule EXCEPT ![rj].described = TRUE]
                                             ELSE schedule
    /\ UNCHANGED <<changes, link, planOpen, scheduleJobs, calls, pointer, panel, phases>>

DaemonDisables(rj) ==
    /\ rj \in DOMAIN schedule /\ schedule[rj].enabled
    /\ Counted
    /\ schedule' = [schedule EXCEPT ![rj].enabled = FALSE]
    /\ UNCHANGED <<writers, link, planOpen, scheduleJobs, calls, pointer, panel, phases>>

LinkChanges ==
    /\ link' \in {"up", "down"} \ {link}
    /\ UNCHANGED <<data, planOpen, scheduleJobs, calls, pointer, panel, phases>>

Next ==
    \/ MountPlan \/ UnmountPlan \/ Refresh \/ PointerMoves
    \/ \E rj \in RJobs : \/ ToggleDetail(rj) \/ Type(rj) \/ Save(rj) \/ ToggleEnabled(rj)
                         \/ Reenable(rj) \/ Generate(rj) \/ RequestDelete(rj) \/ ConfirmDelete(rj)
                         \/ DescriptionStored(rj) \/ DaemonDisables(rj)
    \/ \E b \in Buttons : IdleTimerFires(b)
    \/ \E c \in calls : Served(c) \/ Read(c) \/ Landed(c)
    \/ LinkChanges

PlanSpec == Init /\ [][Next]_planVars

\* Every request is answered or throws, the interval ticks, a generation ends.
Served1 == \E c \in calls : Served(c)
Read1 == \E c \in calls : Read(c)
Landed1 == \E c \in calls : Landed(c)
Stored1 == \E rj \in RJobs : DescriptionStored(rj)
PlanFair ==
    /\ WF_planVars(Refresh) /\ WF_planVars(Served1) /\ WF_planVars(Read1)
    /\ WF_planVars(Landed1) /\ WF_planVars(Stored1)

PlanFairSpec == PlanSpec /\ PlanFair

-----------------------------------------------------------------------------
PlanTypeOK ==
    /\ schedule \in Schedules /\ scheduleJobs \in Schedules
    /\ changes \in 0..MaxChanges /\ writers \subseteq RJobs
    /\ editForm = NoRow \/ editForm \in [id : RJobs, value : Records]
    /\ {expandedJobId, pendingDeleteId, generatingDescId} \subseteq RJobs \union {NoRow}
    /\ loading \subseteq Buttons /\ idleTimers \subseteq Buttons
    /\ \A c \in calls : c.stage \in {"sent", "get", "answer"} /\ c.here \in BOOLEAN

\* Once the page stays open with the pointer off the chart and the network up, it
\* ends showing the server's schedule: the flag that keeps two refreshes apart is
\* always given back, and an older answer that lands late is corrected.
ScheduleFollows ==
    (<>[](planOpen /\ ~interacting /\ link = "up")) => <>[](scheduleJobs = schedule)

\* A flag that keeps a second request away never outlives the request it stands for,
\* whichever way that one ends and whatever page it comes back to: a refresh is
\* marked exactly while it is on its way, a button that loads and a row that is
\* being described have their request on its way.
FlagsGivenBack ==
    /\ refreshing <=> \E c \in calls : c.here /\ c.op = "tick"
    /\ \A b \in loading : \E c \in calls : c.here /\ c.op = b
    /\ generatingDescId # NoRow =>
         \E c \in calls : c.here /\ c.op = "generate" /\ c.job = generatingDescId
=============================================================================
