----------------------------- MODULE UndoCancel ------------------------------
(* The x of a waiting job (components/QueueList.jsx): the cancel is sent five   *)
(* seconds after the click unless it is undone or the list unmounts first.      *)
EXTENDS Naturals

CONSTANTS Jobs

VARIABLES
    status,         \* server: "pending", "started" or "cancelled"
    listed,         \* the jobs the list shows
    open,           \* the list is mounted
    pendingCancels, \* jobs in the undo window
    timers,         \* jobs whose timer is armed
    requests,       \* POST /queue/cancel/{id} on their way
    cancelError,
    spared          \* history: jobs undone, or left, before anything was sent

vars == <<status, listed, open, pendingCancels, timers, requests, cancelError, spared>>

Waiting == {j \in Jobs : status[j] = "pending"}
Unsent(S) == {j \in S : j \notin requests /\ status[j] # "cancelled"}

Init ==
    /\ status = [j \in Jobs |-> "pending"]
    /\ listed = Jobs
    /\ open = TRUE
    /\ pendingCancels = {} /\ timers = {} /\ requests = {}
    /\ cancelError = FALSE
    /\ spared = {}

\* The button is "Cancelling..." and disabled while the job is in its window.
RequestCancel(j) ==
    /\ open /\ j \in listed \ pendingCancels
    /\ cancelError' = FALSE
    /\ timers' = timers \union {j}
    /\ pendingCancels' = pendingCancels \union {j}
    /\ spared' = spared \ {j}
    /\ UNCHANGED <<status, listed, open, requests>>

\* The toast's Undo, there as long as the job is in its window.
Undo(j) ==
    /\ open /\ j \in pendingCancels
    /\ timers' = timers \ {j}
    /\ pendingCancels' = pendingCancels \ {j}
    /\ spared' = spared \union Unsent({j})
    /\ UNCHANGED <<status, listed, open, requests, cancelError>>

TimerFires(j) ==
    /\ j \in timers
    /\ timers' = timers \ {j}
    /\ pendingCancels' = pendingCancels \ {j}
    /\ requests' = requests \union {j}
    /\ UNCHANGED <<status, listed, open, cancelError, spared>>

\* cancel_job takes a pending job only; the page is told, and refreshes when ok.
Arrives(j) ==
    /\ j \in requests
    /\ requests' = requests \ {j}
    /\ IF j \in Waiting
         THEN /\ status' = [status EXCEPT ![j] = "cancelled"]
              /\ listed' = Waiting \ {j}
              /\ UNCHANGED cancelError
         ELSE /\ cancelError' = open
              /\ UNCHANGED <<status, listed>>
    /\ UNCHANGED <<open, pendingCancels, timers, spared>>

\* The request fails before it reaches the server.
Fails(j) ==
    /\ j \in requests
    /\ requests' = requests \ {j}
    /\ cancelError' = open
    /\ UNCHANGED <<status, listed, open, pendingCancels, timers, spared>>

LeaveKeepsTimers ==
    /\ open
    /\ open' = FALSE
    /\ pendingCancels' = {} /\ cancelError' = FALSE
    /\ spared' = spared \union Unsent(pendingCancels)
    /\ UNCHANGED <<status, listed, timers, requests>>

\* The unmount clears the timers of the undo windows; a new mount starts empty.
Leave ==
    /\ open
    /\ open' = FALSE
    /\ timers' = timers \ pendingCancels
    /\ pendingCancels' = {} /\ cancelError' = FALSE
    /\ spared' = spared \union Unsent(pendingCancels)
    /\ UNCHANGED <<status, listed, requests>>

Return ==
    /\ ~open
    /\ open' = TRUE
    /\ UNCHANGED <<status, listed, pendingCancels, timers, requests, cancelError, spared>>

\* The environment: the daemon starts a job, a poll replaces the list.
Started(j) ==
    /\ j \in Waiting
    /\ status' = [status EXCEPT ![j] = "started"]
    /\ UNCHANGED <<listed, open, pendingCancels, timers, requests, cancelError, spared>>

Polled ==
    /\ listed' = Waiting
    /\ UNCHANGED <<status, open, pendingCancels, timers, requests, cancelError, spared>>

Next ==
    \/ Leave \/ Return \/ Polled
    \/ \E j \in Jobs : \/ RequestCancel(j) \/ Undo(j) \/ TimerFires(j)
                       \/ Arrives(j) \/ Fails(j) \/ Started(j)

Spec == Init /\ [][Next]_vars

-----------------------------------------------------------------------------
TypeOK ==
    /\ status \in [Jobs -> {"pending", "started", "cancelled"}]
    /\ listed \subseteq Jobs /\ open \in BOOLEAN /\ cancelError \in BOOLEAN
    /\ pendingCancels \subseteq Jobs /\ timers \subseteq Jobs /\ requests \subseteq Jobs
    /\ spared \subseteq Jobs

\* A cancel that was undone, or whose list was left within the five seconds,
\* never reaches the server unless the user asks for it again.
UndoHolds == \A j \in spared : j \notin timers \union requests /\ status[j] # "cancelled"
=============================================================================
