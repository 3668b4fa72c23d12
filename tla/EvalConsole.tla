----------------------------- MODULE EvalConsole -----------------------------
(* The evaluation run the dashboard follows (stores/eval.js and those who use  *)
(* it: RunTriggerPanel, RunRow, ActiveRunProgress, EvalRuns, app.jsx): one     *)
(* interval that polls one run's progress, started and stopped from many       *)
(* places, with answers that come after the interval is gone.  A request       *)
(* remembers what the server would have said when it was sent; its answer says *)
(* that or what is true when it comes.                                         *)
EXTENDS Naturals, FiniteSets, FiniteSetsExt

CONSTANTS
    Runs,           \* ids of evaluation runs, in the order they are made
    NoRun,          \* null
    MaxReads,       \* bound: requests of the poll in flight
    MaxOrders       \* bound: orders in flight (start, repeat, cancel)

EvalAssumption == Runs \subseteq Nat /\ NoRun \notin Runs /\ MaxReads \in Nat /\ MaxOrders \in Nat

VARIABLES
    runStatus,      \* server: "none", "queued", "working" (generating, judging), "ended"
    evalLink,       \* "up", "refusing" or "down"
    evalTab,        \* the Eval page is open
    activeRun,      \* evalActiveRun, and its copy in sessionStorage
    poll,           \* the run _evalPollId asks for, or NoRun
    reads,          \* requests in flight: [kind, id, seen]
    orders,         \* orders in flight: [op, id, served]
    mishap          \* history: why the shown run may stand still, see StandsStill

console == <<activeRun, poll, mishap>>
evalVars == <<runStatus, evalLink, evalTab, console, reads, orders>>

Statuses == {"none", "queued", "working", "ended"}
Shown(r, s) == [id |-> r, status |-> s]
Live(run) == run # NoRun /\ run.status # "ended"

\* ActiveRunProgress: nothing for a run that has ended; else its pipeline, with the
\* node of its stage active, its progress and the button that cancels it.  The banner
\* with "continue" and "re-run failed" is for a status the server never gives.
PanelShows == IF ~Live(activeRun) THEN {}
              ELSE {"cancel", "progress", IF activeRun.status = "working" THEN "stage" ELSE "queued"}

Order(op, r) == [op |-> op, id |-> r, served |-> FALSE]

\* What the server says: of a run its status, of the list its newest working run.
NewestWorking ==
    LET working == {r \in Runs : runStatus[r] = "working"}
    IN IF working = {} THEN NoRun ELSE Max(working)
Says(kind, r) == IF kind = "list" THEN NewestWorking ELSE runStatus[r]
Read(kind, r) == [kind |-> kind, id |-> r, seen |-> Says(kind, r)]

\* fetchEvalRuns is asked: two under way are one, which may answer of either moment
\* (bound).
AskList(rs) == IF \E q \in rs : q.kind = "list" THEN rs ELSE rs \union {Read("list", NoRun)}

Init ==
    /\ runStatus = [r \in Runs |-> "none"] /\ evalLink = "up"
    /\ evalTab = FALSE /\ activeRun = NoRun /\ poll = NoRun
    /\ reads = {} /\ orders = {} /\ mishap = FALSE

----------------------------------------------------------------------------
\* EvalRuns mounts: fetchEvalRuns.
OpenEval ==
    /\ ~evalTab
    /\ evalTab' = TRUE
    /\ reads' = AskList(reads)
    /\ UNCHANGED <<runStatus, evalLink, console, orders>>

\* handleNavigate stops the poll; the number keys only change the tab.
LeaveEval ==
    /\ evalTab \/ poll # NoRun
    /\ evalTab' = FALSE
    /\ \/ poll' = NoRun /\ mishap' = (mishap \/ poll # NoRun)
       \/ evalTab /\ UNCHANGED <<poll, mishap>>
    /\ UNCHANGED <<runStatus, evalLink, activeRun, reads, orders>>

\* A reload: the interval and the requests are gone, the stored run is checked.
Reload ==
    /\ \A o \in orders : o.served
    /\ evalTab' = FALSE /\ poll' = NoRun /\ orders' = {} /\ mishap' = FALSE
    /\ reads' = IF activeRun = NoRun THEN {} ELSE {Read("check", activeRun.id)}
    /\ UNCHANGED <<runStatus, evalLink, activeRun>>

\* handleSubmit and handleRepeat up to their request, and cancelEvalRun.
OrderRun ==
    /\ evalTab /\ Cardinality(orders) < MaxOrders
    /\ orders' = orders \union {Order("create", NoRun)}
    /\ UNCHANGED <<runStatus, evalLink, evalTab, console, reads>>

OrderCancel ==
    /\ "cancel" \in PanelShows /\ Cardinality(orders) < MaxOrders
    /\ orders' = orders \union {Order("cancel", activeRun.id)}
    /\ UNCHANGED <<runStatus, evalLink, evalTab, console, reads>>

\* The server takes an order, or refuses it (a terminal run), or is not reached.
New == {r \in Runs : runStatus[r] = "none" /\ \A q \in Runs : q < r => runStatus[q] # "none"}

OrderServed(o) ==
    /\ o \in orders /\ ~o.served
    /\ IF evalLink # "up" THEN orders' = orders \ {o} /\ UNCHANGED runStatus
       ELSE IF o.op = "create"
         THEN \E r \in New :
                /\ runStatus' = [runStatus EXCEPT ![r] = "queued"]
                /\ orders' = (orders \ {o}) \union {[o EXCEPT !.served = TRUE, !.id = r]}
         ELSE /\ runStatus' = [runStatus EXCEPT ![o.id] = "ended"]
              /\ orders' = (orders \ {o}) \union
                    (IF runStatus[o.id] = "ended" THEN {} ELSE {[o EXCEPT !.served = TRUE]})
    /\ UNCHANGED <<evalLink, evalTab, console, reads>>

OrderDoneUnlessPolled(o) ==
    /\ o \in orders /\ o.served
    /\ orders' = orders \ {o}
    /\ activeRun' = IF o.op = "create" THEN Shown(o.id, "queued") ELSE NoRun
    /\ poll' = IF o.op # "create" THEN NoRun ELSE IF poll = NoRun THEN o.id ELSE poll
    /\ mishap' = FALSE
    /\ reads' = AskList(reads)
    /\ UNCHANGED <<runStatus, evalLink, evalTab>>

\* The page goes on: the new run is shown and polled, or the cancelled one is gone
\* with the poll, whichever run that was for; then fetchEvalRuns.
OrderDone(o) ==
    /\ o \in orders /\ o.served
    /\ orders' = orders \ {o}
    /\ activeRun' = IF o.op = "create" THEN Shown(o.id, "queued") ELSE NoRun
    /\ poll' = IF o.op = "create" THEN o.id ELSE NoRun
    /\ mishap' = FALSE
    /\ reads' = AskList(reads)
    /\ UNCHANGED <<runStatus, evalLink, evalTab>>

----------------------------------------------------------------------------
\* The interval of startEvalPoll.
PollTick ==
    /\ poll # NoRun /\ Cardinality({q \in reads : q.kind = "tick"}) < MaxReads
    /\ reads' = reads \union {Read("tick", poll)}
    /\ UNCHANGED <<runStatus, evalLink, evalTab, console, orders>>

Answers(q) == {q.seen, Says(q.kind, q.id)}

TickLandsOrStops(q) ==
    /\ q \in reads /\ q.kind = "tick"
    /\ IF evalLink # "up" THEN reads' = reads \ {q} /\ poll' = NoRun /\ UNCHANGED <<activeRun, mishap>>
       ELSE \E a \in Answers(q) :
         /\ activeRun' = Shown(q.id, a)
         /\ mishap' = (mishap \/ q.id # poll)
         /\ IF a = "ended"
              THEN poll' = NoRun /\ reads' = AskList(reads \ {q})
              ELSE reads' = reads \ {q} /\ UNCHANGED poll
    /\ UNCHANGED <<runStatus, evalLink, evalTab, orders>>

\* A progress answer is shown and ends the poll if its run has ended, although both
\* may be another run's by now. One that is not ok leaves everything as it is.
TickLands(q) ==
    /\ q \in reads /\ q.kind = "tick"
    /\ IF evalLink # "up" THEN reads' = reads \ {q} /\ UNCHANGED console
       ELSE \E a \in Answers(q) :
         /\ activeRun' = Shown(q.id, a)
         /\ mishap' = (mishap \/ q.id # poll)
         /\ IF a = "ended"
              THEN poll' = NoRun /\ reads' = AskList(reads \ {q})
              ELSE reads' = reads \ {q} /\ UNCHANGED poll
    /\ UNCHANGED <<runStatus, evalLink, evalTab, orders>>

\* fetchEvalRuns: the newest run that works is polled if none is shown or polled.
ListLands(q) ==
    /\ q \in reads /\ q.kind = "list"
    /\ reads' = reads \ {q}
    /\ IF evalLink # "up" THEN UNCHANGED poll
       ELSE \E a \in Answers(q) : poll' = IF poll = NoRun /\ activeRun = NoRun THEN a ELSE poll
    /\ UNCHANGED <<runStatus, evalLink, evalTab, activeRun, mishap, orders>>

\* The check of the stored run at startup: a terminal run, or an answer that is not
\* ok, takes it away; a live one is polled; an exception leaves it as it is.
IsShown(r) == activeRun # NoRun /\ activeRun.id = r

CheckLands(q) ==
    /\ q \in reads /\ q.kind = "check"
    /\ reads' = reads \ {q}
    /\ \/ /\ evalLink = "down"
          /\ mishap' = TRUE
          /\ UNCHANGED <<activeRun, poll>>
       \/ /\ evalLink # "down" /\ IsShown(q.id)
          /\ \E a \in Answers(q) :
               IF evalLink = "refusing" \/ a = "ended"
                 THEN activeRun' = NoRun /\ UNCHANGED poll
                 ELSE poll' = q.id /\ UNCHANGED activeRun
          /\ UNCHANGED mishap
       \/ /\ evalLink # "down" /\ ~IsShown(q.id)
          /\ UNCHANGED console
    /\ UNCHANGED <<runStatus, evalLink, evalTab, orders>>

----------------------------------------------------------------------------
\* The server's pipeline, other clients (curl, the scheduler), and the network.
RunWorks(r) ==
    /\ runStatus[r] = "queued"
    /\ runStatus' = [runStatus EXCEPT ![r] = "working"]
    /\ UNCHANGED <<evalLink, evalTab, console, reads, orders>>

RunEnds(r) ==
    /\ runStatus[r] \in {"queued", "working"}
    /\ runStatus' = [runStatus EXCEPT ![r] = "ended"]
    /\ UNCHANGED <<evalLink, evalTab, console, reads, orders>>

OthersStart(r) ==
    /\ r \in New
    /\ runStatus' = [runStatus EXCEPT ![r] = "queued"]
    /\ UNCHANGED <<evalLink, evalTab, console, reads, orders>>

EvalLinkChanges ==
    /\ evalLink' \in {"up", "refusing", "down"} \ {evalLink}
    /\ UNCHANGED <<runStatus, evalTab, console, reads, orders>>

Next ==
    \/ OpenEval \/ LeaveEval \/ Reload \/ OrderRun \/ OrderCancel
    \/ \E o \in orders : OrderServed(o) \/ OrderDone(o)
    \/ PollTick
    \/ \E q \in reads : TickLands(q) \/ ListLands(q) \/ CheckLands(q)
    \/ \E r \in Runs : RunWorks(r) \/ RunEnds(r) \/ OthersStart(r)
    \/ EvalLinkChanges

EvalSpec == Init /\ [][Next]_evalVars

\* The interval ticks, every request is answered or throws, and runs end.
TickAnswered == \E q \in reads : TickLands(q)
CheckAnswered == \E q \in reads : CheckLands(q)
OrderAnswered == \E o \in orders : OrderServed(o) \/ OrderDone(o)
EvalFair ==
    /\ WF_evalVars(PollTick) /\ WF_evalVars(TickAnswered)
    /\ WF_evalVars(CheckAnswered) /\ WF_evalVars(OrderAnswered)
    /\ \A r \in Runs : WF_evalVars(RunEnds(r))

EvalFairSpec == EvalSpec /\ EvalFair

-----------------------------------------------------------------------------
EvalTypeOK ==
    /\ runStatus \in [Runs -> Statuses] /\ evalLink \in {"up", "refusing", "down"}
    /\ evalTab \in BOOLEAN /\ mishap \in BOOLEAN
    /\ activeRun = NoRun \/ activeRun \in [id : Runs, status : Statuses]
    /\ poll \in Runs \union {NoRun}
    /\ \A q \in reads : q.kind \in {"tick", "list", "check"} /\ q.id \in Runs \union {NoRun}
    /\ \A o \in orders : o.op \in {"create", "cancel"} /\ o.served \in BOOLEAN

\* The panel shows a live run nobody asks about: it will never change again.
StandsStill ==
    /\ Live(activeRun) /\ poll # activeRun.id
    /\ ~ \E q \in reads : q.kind = "check" /\ IsShown(q.id)

\* The progress panel is never left behind without a poll but in three ways, and
\* since then no run was started, cancelled or restored: the sidebar was used while
\* the poll ran, an answer of a poll already stopped or replaced was shown, or the
\* check of a stored run threw.
StandsStillNeedsMishap == StandsStill => mishap

\* Without such a mishap, and once the network is up, the panel goes away: whatever
\* was refused, reloaded, cancelled from elsewhere or overtaken, the page learns
\* that the run it shows has ended.
PanelEnds == (<>[](evalLink = "up" /\ ~mishap)) => <>[]~Live(activeRun)
=============================================================================
