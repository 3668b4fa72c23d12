------------------------------ MODULE ModelPull ------------------------------
(* Downloading models: the Models tab (pages/ModelsTab.jsx, stores/models.js),  *)
(* its endpoints (api/models.py) and the download itself (models/client.py), a *)
(* child process whose end a thread of the daemon records.  The page follows   *)
(* each of its downloads with an interval of its own and forgets them all when *)
(* it is left.  Progress is not told apart; two requests that are alike are    *)
(* one.  An interval that a download gets after the page was left only reads,  *)
(* and is left out.                                                            *)
EXTENDS Naturals, FiniteSets

CONSTANTS
    Pulls,          \* ids of model_pulls, in the order they are made
    MaxWire,        \* bound: polls in flight, and orders in flight
    MaxLost         \* bound: requests and answers lost

PullAssumption == Pulls \subseteq Nat /\ MaxWire \in Nat /\ MaxLost \in Nat

VARIABLES
    pullRow,        \* model_pulls.status, "none" before the row exists
    pullProc,       \* the child: "none", "runs", "ok" or "bad" (its return code)
    monitors,       \* downloads whose thread has not yet recorded their end
    restarted,      \* the daemon was restarted
    modelsOpen,     \* the tab is shown
    activePulls,    \* [Pulls -> status shown, "none" when there is no row]
    pullIntervals,  \* downloads with an interval in pullIntervalsRef
    pullError,      \* the red line
    pullWire,       \* requests: [op, id, stage, seen, here]; here: from this visit
    lost,           \* count of what was lost
    overtaken       \* history: downloads an answer came for when nothing asked any more

server == <<pullRow, pullProc, monitors, restarted>>
page == <<modelsOpen, activePulls, pullIntervals, pullError, overtaken>>
pullVars == <<server, page, pullWire, lost>>

PullStatuses == {"none", "pulling", "completed", "failed", "cancelled"}
Request(op, p) == [op |-> op, id |-> p, stage |-> "sent", seen |-> "none", here |-> TRUE]
Moved(w, stage, seen) == (pullWire \ {w}) \union {[w EXCEPT !.stage = stage, !.seen = seen]}
Free(ops) == Cardinality({w \in pullWire : w.op \in ops}) < MaxWire
Unused == {p \in Pulls : pullRow[p] = "none"}
Empty == [p \in Pulls |-> "none"]

Init ==
    /\ pullRow = Empty /\ pullProc = Empty /\ monitors = {} /\ restarted = FALSE
    /\ modelsOpen = FALSE /\ activePulls = Empty /\ pullIntervals = {}
    /\ pullError = FALSE /\ pullWire = {} /\ lost = 0 /\ overtaken = {}

-----------------------------------------------------------------------------
\* The tab.  Leaving it clears the intervals; its state is gone with it.
OpenModels ==
    /\ ~modelsOpen
    /\ modelsOpen' = TRUE
    /\ UNCHANGED <<server, activePulls, pullIntervals, pullError, overtaken, pullWire, lost>>

LeaveModels ==
    /\ modelsOpen
    /\ modelsOpen' = FALSE /\ activePulls' = Empty /\ pullIntervals' = {}
    /\ pullError' = FALSE /\ overtaken' = {}
    /\ pullWire' = {[w EXCEPT !.here = FALSE] : w \in pullWire}
    /\ UNCHANGED <<server, lost>>

\* handlePull up to its request; nothing keeps one model from being asked for twice.
PressDownload ==
    /\ modelsOpen /\ Free({"start", "cancel"}) /\ Unused # {}
    /\ pullError' = FALSE
    /\ pullWire' = pullWire \union {Request("start", 0)}
    /\ UNCHANGED <<server, modelsOpen, activePulls, pullIntervals, overtaken, lost>>

StartLandedUnchecked(w) ==
    /\ w \in pullWire /\ w.op = "start" /\ w.stage = "answered"
    /\ pullWire' = pullWire \ {w}
    /\ IF ~w.here THEN UNCHANGED page
       ELSE /\ activePulls' = [activePulls EXCEPT ![w.id] = "pulling"]
            /\ pullIntervals' = pullIntervals \union {w.id}
            /\ UNCHANGED <<modelsOpen, pullError, overtaken>>
    /\ UNCHANGED <<server, lost>>

\* The download gets its row and its interval, or the red line shows.
StartLanded(w) ==
    /\ w \in pullWire /\ w.op = "start" /\ w.stage = "answered"
    /\ pullWire' = pullWire \ {w}
    /\ IF ~w.here THEN UNCHANGED page
       ELSE IF w.seen = "refused"
         THEN pullError' = TRUE /\ UNCHANGED <<modelsOpen, activePulls, pullIntervals, overtaken>>
         ELSE /\ activePulls' = [activePulls EXCEPT ![w.id] = "pulling"]
              /\ pullIntervals' = pullIntervals \union {w.id}
              /\ UNCHANGED <<modelsOpen, pullError, overtaken>>
    /\ UNCHANGED <<server, lost>>

PollTick(p) ==
    /\ p \in pullIntervals /\ Free({"poll"})
    /\ pullWire' = pullWire \union {Request("poll", p)}
    /\ UNCHANGED <<server, page, lost>>

\* An answer is shown whether or not its download is still followed.
PollLanded(w) ==
    /\ w \in pullWire /\ w.op = "poll" /\ w.stage = "answered"
    /\ pullWire' = pullWire \ {w}
    /\ IF ~w.here THEN UNCHANGED page
       ELSE /\ activePulls' = [activePulls EXCEPT ![w.id] = w.seen]
            /\ pullIntervals' = IF w.seen = "pulling" THEN pullIntervals ELSE pullIntervals \ {w.id}
            /\ overtaken' = IF w.id \in pullIntervals THEN overtaken ELSE overtaken \union {w.id}
            /\ UNCHANGED <<modelsOpen, pullError>>
    /\ UNCHANGED <<server, lost>>

\* The button of a row that is shown as pulling; it is not disabled meanwhile.
PressCancel(p) ==
    /\ activePulls[p] = "pulling" /\ Free({"start", "cancel"})
    /\ pullWire' = pullWire \union {Request("cancel", p)}
    /\ UNCHANGED <<server, page, lost>>

CancelLanded(w) ==
    /\ w \in pullWire /\ w.op = "cancel" /\ w.stage = "answered"
    /\ pullWire' = pullWire \ {w}
    /\ IF ~w.here THEN UNCHANGED page
       ELSE IF w.seen = "refused"
         THEN pullError' = TRUE /\ UNCHANGED <<modelsOpen, activePulls, pullIntervals, overtaken>>
         ELSE /\ activePulls' = [activePulls EXCEPT ![w.id] = "none"]
              /\ pullIntervals' = pullIntervals \ {w.id}
              /\ UNCHANGED <<modelsOpen, pullError, overtaken>>
    /\ UNCHANGED <<server, lost>>

-----------------------------------------------------------------------------
\* The server.  pull: the row is there before the process is started; when that
\* raises, the row stays and nobody is told its id.
Newest(p) == p \in Unused /\ \A q \in Unused : p <= q

StartServed(w) ==
    /\ w \in pullWire /\ w.op = "start" /\ w.stage = "sent"
    /\ \E p \in Pulls :
         /\ Newest(p)
         /\ pullRow' = [pullRow EXCEPT ![p] = "pulling"]
         /\ \/ /\ pullProc' = [pullProc EXCEPT ![p] = "runs"]
               /\ monitors' = monitors \union {p}
               /\ pullWire' = (pullWire \ {w}) \union
                                {[w EXCEPT !.id = p, !.stage = "answered", !.seen = "pulling"]}
            \/ /\ pullWire' = Moved(w, "answered", "refused")
               /\ UNCHANGED <<pullProc, monitors>>
    /\ UNCHANGED <<restarted, page, lost>>

PollServed(w) ==
    /\ w \in pullWire /\ w.op = "poll" /\ w.stage = "sent"
    /\ pullWire' = Moved(w, "answered", pullRow[w.id])
    /\ UNCHANGED <<server, page, lost>>

\* cancel_pull: the process is killed first, if it has a pid; then the row is
\* marked, whatever it says by then.
CancelKills(w) ==
    /\ w \in pullWire /\ w.op = "cancel" /\ w.stage = "sent"
    /\ IF pullProc[w.id] = "none"
         THEN pullWire' = Moved(w, "answered", "refused") /\ UNCHANGED pullProc
         ELSE /\ pullWire' = Moved(w, "killed", "none")
              /\ pullProc' = [pullProc EXCEPT ![w.id] = IF @ = "runs" THEN "bad" ELSE @]
    /\ UNCHANGED <<pullRow, monitors, restarted, page, lost>>

CancelWrites(w) ==
    /\ w \in pullWire /\ w.op = "cancel" /\ w.stage = "killed"
    /\ pullRow' = [pullRow EXCEPT ![w.id] = "cancelled"]
    /\ pullWire' = Moved(w, "answered", "cancelled")
    /\ UNCHANGED <<pullProc, monitors, restarted, page, lost>>

ProcessEnds(p) ==
    /\ pullProc[p] = "runs"
    /\ \E code \in {"ok", "bad"} : pullProc' = [pullProc EXCEPT ![p] = code]
    /\ UNCHANGED <<pullRow, monitors, restarted, page, pullWire, lost>>

MonitorCompletes(p) ==
    /\ p \in monitors /\ pullProc[p] \in {"ok", "bad"}
    /\ monitors' = monitors \ {p}
    /\ pullRow' = [pullRow EXCEPT ![p] = "completed"]
    /\ UNCHANGED <<pullProc, restarted, page, pullWire, lost>>

\* _monitor after wait(): it too writes whatever the row says.
MonitorWrites(p) ==
    /\ p \in monitors /\ pullProc[p] \in {"ok", "bad"}
    /\ monitors' = monitors \ {p}
    /\ pullRow' = [pullRow EXCEPT ![p] = IF pullProc[p] = "ok" THEN "completed" ELSE "failed"]
    /\ UNCHANGED <<pullProc, restarted, page, pullWire, lost>>

\* The daemon stops: its threads and handlers are gone, the children may be.
Restart ==
    /\ ~restarted /\ \E p \in Pulls : pullRow[p] # "none"
    /\ restarted' = TRUE /\ monitors' = {}
    /\ pullWire' = {w \in pullWire : w.stage = "answered"}
    /\ UNCHANGED <<pullRow, pullProc, page, lost>>

\* A request or an answer is lost; of a download or a cancellation the page says so.
Lost(w) ==
    /\ w \in pullWire /\ w.stage # "killed" /\ lost < MaxLost
    /\ lost' = lost + 1
    /\ pullWire' = pullWire \ {w}
    /\ pullError' = (pullError \/ (w.here /\ w.op # "poll"))
    /\ UNCHANGED <<server, modelsOpen, activePulls, pullIntervals, overtaken>>

PollAsked == \E w \in pullWire : PollServed(w)
PollAnswered == \E w \in pullWire : PollLanded(w)

Next ==
    \/ OpenModels \/ LeaveModels \/ PressDownload \/ Restart \/ PollAsked \/ PollAnswered
    \/ \E p \in Pulls : PollTick(p) \/ PressCancel(p) \/ ProcessEnds(p) \/ MonitorWrites(p)
    \/ \E w \in pullWire :
         \/ StartServed(w) \/ StartLanded(w) \/ Lost(w)
         \/ CancelKills(w) \/ CancelWrites(w) \/ CancelLanded(w)

PullSpec == Init /\ [][Next]_pullVars

\* The intervals tick, requests are answered, downloads end and are recorded.
PullFair ==
    /\ WF_pullVars(PollAsked) /\ WF_pullVars(PollAnswered)
    /\ \A p \in Pulls :
         WF_pullVars(PollTick(p)) /\ WF_pullVars(ProcessEnds(p)) /\ WF_pullVars(MonitorWrites(p))

PullFairSpec == PullSpec /\ PullFair

-----------------------------------------------------------------------------
PullTypeOK ==
    /\ pullRow \in [Pulls -> PullStatuses] /\ activePulls \in [Pulls -> PullStatuses]
    /\ pullProc \in [Pulls -> {"none", "runs", "ok", "bad"}]
    /\ monitors \subseteq Pulls /\ pullIntervals \subseteq Pulls /\ overtaken \subseteq Pulls
    /\ restarted \in BOOLEAN /\ modelsOpen \in BOOLEAN /\ pullError \in BOOLEAN /\ lost \in 0..MaxLost
    /\ \A w \in pullWire : w.op \in {"start", "poll", "cancel"} /\ w.seen \in PullStatuses \union {"refused"}

\* However a cancellation and the end of the process meet, the row says "completed"
\* only of a process that ended well, and a row that says "pulling" is watched by a
\* thread unless its process never started or the daemon was restarted.
RowsTellTheEnd ==
    \A p \in Pulls :
        /\ pullRow[p] = "completed" => pullProc[p] = "ok"
        /\ pullRow[p] = "pulling" => p \in monitors \/ pullProc[p] = "none" \/ restarted

\* A row that is shown as pulling is asked about, or is a ghost: an answer came for
\* it after its cancellation or its end had been shown.  And only the page that is
\* shown asks.
PullsAccounted ==
    /\ RowsTellTheEnd
    /\ \A p \in Pulls : activePulls[p] = "pulling" => p \in pullIntervals \union overtaken
    /\ pullIntervals # {} => modelsOpen

\* A row never stays at "pulling" for ever, whatever was lost, cancelled twice or
\* overtaken, but for a ghost or a daemon that was restarted under the download.
PullSettles ==
    \A p \in Pulls :
        (<>[](activePulls[p] = "pulling")) => <>[](p \in overtaken \/ restarted)
=============================================================================
