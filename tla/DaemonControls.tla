---------------------------- MODULE DaemonControls ----------------------------
(* Pausing the queue by hand (api/settings, pages/Settings, SettingsForm): the   *)
(* page writes daemon_state and flips its button before any poll tells it, while *)
(* the daemon's cycle and the proxy write the same row without looking.          *)

VARIABLES
    state,          \* daemon_state.state
    cycle,          \* the daemon's: "over", "begun" (it has read the state and will
                    \* write one), or "raced" (a pause was taken since it read)
    claimed,        \* the proxy holds current_job_id -1
    shown,          \* status.value.daemon.state
    polling,        \* a status poll: "none", "asked", or the state it tells
    post,           \* the page's order: [op, pc] (bound: one at a time)
    paused,         \* history: the last order the server took was a pause
    trampled,       \* history: a writer that did not look replaced the pause
    late            \* history: no poll was answered since the pause, and an earlier
                    \* answer was on its way or the order's own was lost

controlsVars == <<state, cycle, claimed, shown, polling, post, paused, trampled, late>>
page == <<shown, polling, post, late>>
orders == <<paused, trampled>>

Own == {"idle", "running", "paused_health", "paused_interactive"}
States == Own \union {"paused_manual", "restarting"}

NoPost == [op |-> "none", pc |-> "none"]

\* isPaused: which button is drawn.
IsPaused(s) == s \in {"paused", "paused_health", "paused_interactive", "paused_manual"}

Init ==
    /\ state \in {"idle", "paused_manual"} /\ cycle = "over" /\ claimed = FALSE
    /\ shown = "unknown" /\ polling = "asked" /\ post = NoPost
    /\ paused = FALSE /\ trampled = FALSE /\ late = FALSE

-----------------------------------------------------------------------------
CycleReadsAnyState ==
    /\ cycle = "over" /\ cycle' = "begun"
    /\ UNCHANGED <<state, claimed, page, orders>>

\* poll_once: a manual pause ends the cycle before it writes a state.
CycleReads ==
    /\ cycle = "over" /\ state # "paused_manual" /\ cycle' = "begun"
    /\ UNCHANGED <<state, claimed, page, orders>>

\* Nobody looks at the state a second time.  That the pause is gone is put down to
\* the writers that never look and to a cycle that looked before it.
Write(s, excused) ==
    /\ state' = s
    /\ trampled' = (trampled \/ (excused /\ state = "paused_manual"))
    /\ UNCHANGED <<page, paused>>

CycleWrites(s) ==
    /\ cycle # "over" /\ cycle' = "over"
    /\ Write(s, cycle = "raced") /\ UNCHANGED claimed

ProxyClaims == ~claimed /\ claimed' = TRUE /\ Write("running", TRUE) /\ UNCHANGED cycle

ProxyReleases == claimed /\ claimed' = FALSE /\ Write("idle", TRUE) /\ UNCHANGED cycle

\* /api/daemon/restart, which another client calls: nothing reads "restarting".
OthersRestart == state # "restarting" /\ Write("restarting", TRUE) /\ UNCHANGED <<cycle, claimed>>

-----------------------------------------------------------------------------
\* handlePause and handleResume; the button that is drawn depends on what is shown.
Press(op) ==
    /\ post = NoPost /\ op = (IF IsPaused(shown) THEN "resume" ELSE "pause")
    /\ post' = [op |-> op, pc |-> "sent"]
    /\ UNCHANGED <<state, cycle, claimed, shown, polling, late, orders>>

\* The order is taken, and its answer comes or is lost; or it is not taken.
PostServed ==
    /\ post # NoPost /\ post.pc = "sent"
    /\ \/ /\ \E told \in BOOLEAN :
              /\ post' = [post EXCEPT !.pc = IF told THEN "done" ELSE "failed"]
              /\ late' = (~told \/ polling \in States)
          /\ state' = IF post.op = "pause" THEN "paused_manual" ELSE "idle"
          /\ cycle' = IF cycle = "begun" /\ post.op = "pause" THEN "raced" ELSE cycle
          /\ paused' = (post.op = "pause") /\ trampled' = FALSE
       \/ /\ post' = [post EXCEPT !.pc = "failed"]
          /\ UNCHANGED <<state, cycle, paused, trampled, late>>
    /\ UNCHANGED <<claimed, shown, polling>>

\* The button flips at once, to a state the server does not have; before the
\* first status there is nothing to flip.
PostLands ==
    /\ post # NoPost /\ post.pc \in {"done", "failed"} /\ post' = NoPost
    /\ shown' = IF post.pc = "failed" \/ shown = "unknown" THEN shown
                ELSE IF post.op = "pause" THEN "paused" ELSE "running"
    /\ UNCHANGED <<state, cycle, claimed, polling, late, orders>>

Poll ==
    /\ polling = "none" /\ polling' = "asked"
    /\ UNCHANGED <<state, cycle, claimed, shown, post, late, orders>>

PollServed ==
    /\ polling = "asked" /\ polling' = state /\ late' = FALSE
    /\ UNCHANGED <<state, cycle, claimed, shown, post, orders>>

PollLands ==
    /\ polling \in States /\ polling' = "none" /\ shown' = polling
    /\ UNCHANGED <<state, cycle, claimed, post, late, orders>>

Next ==
    \/ CycleReads \/ \E s \in Own : CycleWrites(s)
    \/ ProxyClaims \/ ProxyReleases \/ OthersRestart
    \/ \E op \in {"pause", "resume"} : Press(op)
    \/ PostServed \/ PostLands \/ Poll \/ PollServed \/ PollLands

ControlsSpec == Init /\ [][Next]_controlsVars

-----------------------------------------------------------------------------
ControlsTypeOK ==
    /\ state \in States /\ shown \in States \union {"unknown", "paused"}
    /\ cycle \in {"over", "begun", "raced"} /\ claimed \in BOOLEAN
    /\ polling \in States \union {"none", "asked"}
    /\ post \in [op : {"none", "pause", "resume"}, pc : {"none", "sent", "done", "failed"}]
    /\ paused \in BOOLEAN /\ trampled \in BOOLEAN /\ late \in BOOLEAN

\* A pause that was taken lasts until it is resumed, the proxy or a restart writes
\* without looking, or a cycle that read the state before it ends.
PauseHolds == paused /\ ~trampled => state = "paused_manual"

\* Who paused the queue sees it paused once nothing is under way, unless the pause
\* was replaced or no poll was answered since and the page missed it.
PauseShown ==
    paused /\ ~trampled /\ ~late /\ post = NoPost /\ polling \notin States =>
        IsPaused(shown) \/ shown = "unknown"

ControlsSound == PauseHolds /\ PauseShown
=============================================================================
