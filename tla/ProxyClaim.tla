------------------------------ MODULE ProxyClaim ------------------------------
(***************************************************************************)
(* The proxy endpoints (api/proxy.py) and the daemon share the one row of  *)
(* daemon_state: its state and its current_job_id, where -1, the sentinel, *)
(* says that a proxied request holds the GPU.  A request claims the        *)
(* sentinel (try_claim_for_proxy), inserts and starts a row of its own,    *)
(* waits for the backend, completes the row and releases the claim.  The   *)
(* poll thread reads the row at the top of a cycle and writes it at the    *)
(* end, and the user pauses and resumes through it.                        *)
(*                                                                         *)
(* The endpoints are coroutines of one event loop: between two awaits no   *)
(* other proxied request moves, but the poll thread and the worker threads *)
(* do.  Every database call is atomic (db._lock).                          *)
(***************************************************************************)
EXTENDS Naturals, FiniteSets

CONSTANTS
    Proxies,        \* proxied requests, and the rows they insert
    Bitnet,         \* those of the BitNet endpoints, which take no claim
    Queued,         \* rows of ordinary jobs
    MaxSlots,       \* setting max_concurrent_jobs
    Sentinel,       \* current_job_id = -1
    None,           \* null
    Faults,         \* subset of {"submit", "cancel"}
    EarlyRequests,  \* requests arrive while orphans are being recovered
    MaxCrashes      \* bound on crashes of the process

ASSUME ProxyAssumption ==
    /\ Bitnet \subseteq Proxies
    /\ Proxies \cap Queued = {}
    /\ Sentinel \notin Proxies \cup Queued
    /\ None \notin Proxies \cup Queued
    /\ Sentinel # None
    /\ MaxSlots \in Nat /\ MaxCrashes \in Nat
    /\ Faults \subseteq {"submit", "cancel"}
    /\ EarlyRequests \in BOOLEAN

Rows == Proxies \cup Queued

VARIABLES
    state,      \* daemon_state.state (both automatic pauses are "paused_health")
    claim,      \* daemon_state.current_job_id
    status,     \* jobs.status
    proxy,      \* where each proxied request is
    loop,       \* the request that holds the event loop
    poll,       \* the poll thread: its place, the current_job_id it read, its job
    held,       \* Daemon._running: queue jobs a worker of this process has
    orphans,    \* rows _recover_orphans has listed and not yet handled
    paused,     \* history: the user paused and has not resumed since
    crashes     \* how often the process has crashed

vars == <<state, claim, status, proxy, loop, poll, held, orphans, paused, crashes>>
daemonState == <<state, claim>>
server == <<proxy, loop>>
pollThread == <<poll, held, orphans>>

At(pc, seen, job) == [pc |-> pc, seen |-> seen, job |-> job]
AtTop == At("top", None, None)

Init ==
    /\ state = "idle"
    /\ claim = None
    /\ status = [r \in Rows |-> IF r \in Queued THEN "pending" ELSE "absent"]
    /\ proxy = [p \in Proxies |-> "new"]
    /\ loop = None
    /\ poll = At("recover", None, None)
    /\ held = {}
    /\ orphans = {}
    /\ paused = FALSE
    /\ crashes = 0

RunningRows == {r \in Rows : status[r] = "running"}

-----------------------------------------------------------------------------
(* A proxied request.                                                      *)

Recovering == poll.pc \in {"recover", "orphans"}
Serving == poll.pc # "down" /\ (EarlyRequests \/ ~Recovering)

\* p moves on; with the last argument None it reaches an await.
Step(p, place, holder) ==
    /\ Serving
    /\ loop \in {None, p}
    /\ proxy' = [proxy EXCEPT ![p] = place]
    /\ loop' = holder

Arrive(p) ==
    /\ proxy[p] = "new"
    /\ IF state = "paused_manual" THEN Step(p, "done", None) ELSE Step(p, "waiting", p)
    /\ UNCHANGED <<daemonState, status, pollThread, paused, crashes>>

\* Mutant of Claimable: the running rows are not counted.
ClaimableUncounted == claim # Sentinel

\* try_claim_for_proxy.
Claimable == Cardinality(RunningRows) < MaxSlots /\ claim # Sentinel

TryClaim(p) ==
    /\ proxy[p] = "waiting"
    /\ p \notin Bitnet
    /\ Claimable
    /\ claim' = Sentinel
    /\ state' = "running"
    /\ Step(p, "claimed", p)
    /\ UNCHANGED <<status, pollThread, paused, crashes>>

\* The claim was refused: sleep for PROXY_POLL_INTERVAL and try again.
Sleep(p) ==
    /\ proxy[p] = "waiting" /\ loop = p
    /\ p \in Bitnet \/ ~Claimable
    /\ Step(p, "waiting", None)
    /\ UNCHANGED <<daemonState, status, pollThread, paused, crashes>>

\* PROXY_WAIT_TIMEOUT: the client gets a 504.
GiveUp(p) ==
    /\ proxy[p] = "waiting" /\ loop = None
    /\ p \notin Bitnet
    /\ Step(p, "done", None)
    /\ UNCHANGED <<daemonState, status, pollThread, paused, crashes>>

InFlight == {p \in Proxies : proxy[p] \notin {"new", "waiting", "done"}}

\* _BITNET_LOCK: a semaphore of one instead of the claim.
EnterBitnet(p) ==
    /\ proxy[p] = "waiting"
    /\ p \in Bitnet
    /\ InFlight \cap Bitnet = {}
    /\ Step(p, "claimed", p)
    /\ UNCHANGED <<daemonState, status, pollThread, paused, crashes>>

SubmitRow(p) ==
    /\ proxy[p] = "claimed"
    /\ status' = [status EXCEPT ![p] = "pending"]
    /\ Step(p, "submitted", p)
    /\ UNCHANGED <<daemonState, pollThread, paused, crashes>>

\* submit_job raises, before the try whose finally releases the claim.
SubmitRaises(p) ==
    /\ "submit" \in Faults
    /\ proxy[p] = "claimed"
    /\ Step(p, "done", None)
    /\ UNCHANGED <<daemonState, status, pollThread, paused, crashes>>

StartRow(p) ==
    /\ proxy[p] = "submitted"
    /\ status' = [status EXCEPT ![p] = "running"]
    /\ Step(p, "requesting", None)
    /\ UNCHANGED <<daemonState, pollThread, paused, crashes>>

\* The backend answered, failed or timed out ...
RequestEnds(p) ==
    /\ proxy[p] = "requesting"
    /\ Step(p, "recording", p)
    /\ UNCHANGED <<daemonState, status, pollThread, paused, crashes>>

\* ... or the coroutine was cancelled, or a stream was abandoned: only the finally
\* or the background task runs, and neither completes the row.
RequestCancelled(p) ==
    /\ "cancel" \in Faults
    /\ proxy[p] = "requesting"
    /\ Step(p, IF p \in Bitnet THEN "done" ELSE "releasing", IF p \in Bitnet THEN None ELSE p)
    /\ UNCHANGED <<daemonState, status, pollThread, paused, crashes>>

\* Mutant of CompleteRow: the claim is not released after it.
CompleteRowOnly(p) ==
    /\ proxy[p] = "recording"
    /\ \E outcome \in {"completed", "failed"} : status' = [status EXCEPT ![p] = outcome]
    /\ Step(p, "done", None)
    /\ UNCHANGED <<daemonState, pollThread, paused, crashes>>

CompleteRow(p) ==
    /\ proxy[p] = "recording"
    /\ \E outcome \in {"completed", "failed"} : status' = [status EXCEPT ![p] = outcome]
    /\ Step(p, IF p \in Bitnet THEN "done" ELSE "releasing", IF p \in Bitnet THEN None ELSE p)
    /\ UNCHANGED <<daemonState, pollThread, paused, crashes>>

\* release_proxy_claim: a no-op unless the sentinel is there, whoever put it.
Release(p) ==
    /\ proxy[p] = "releasing"
    /\ state' = IF claim = Sentinel THEN "idle" ELSE state
    /\ claim' = IF claim = Sentinel THEN None ELSE claim
    /\ Step(p, "done", None)
    /\ UNCHANGED <<status, pollThread, paused, crashes>>

-----------------------------------------------------------------------------
(* The user.                                                               *)

Pause ==
    /\ ~paused
    /\ paused' = TRUE
    /\ state' = "paused_manual"
    /\ UNCHANGED <<claim, status, server, pollThread, crashes>>

Resume ==
    /\ paused
    /\ paused' = FALSE
    /\ state' = "idle"
    /\ UNCHANGED <<claim, status, server, pollThread, crashes>>

-----------------------------------------------------------------------------
(* The poll thread.                                                        *)

PollReads ==
    /\ poll.pc = "top"
    /\ state # "paused_manual"
    /\ poll' = At("seen", claim, None)
    /\ UNCHANGED <<daemonState, status, server, held, orphans, paused, crashes>>

\* Mutant of Pending: the rows of proxied requests are read as well.
PendingOfAnySource == {r \in Rows : status[r] = "pending"}

\* get_pending_jobs leaves out the rows of proxied requests.
Pending == {r \in Rows : status[r] = "pending"} \ Proxies

PollPicks ==
    /\ poll.pc = "seen"
    /\ \E j \in Pending : poll' = At("picked", poll.seen, j)
    /\ UNCHANGED <<daemonState, status, server, held, orphans, paused, crashes>>

\* The writes of steps 5-7 go by the row as it was read at the top.
Write(label, seen) ==
    /\ state' = label
    /\ claim' = IF seen = Sentinel THEN claim ELSE None

PollIdles ==
    /\ poll.pc = "seen"
    /\ Pending = {}
    /\ Write("idle", poll.seen)
    /\ poll' = AtTop
    /\ UNCHANGED <<status, server, held, orphans, paused, crashes>>

PollPauses ==
    /\ poll.pc = "picked"
    /\ Write("paused_health", poll.seen)
    /\ poll' = AtTop
    /\ UNCHANGED <<status, server, held, orphans, paused, crashes>>

\* _can_admit reads the row again.
Admit ==
    /\ poll.pc = "picked"
    /\ claim # Sentinel
    /\ Cardinality(held) < MaxSlots
    /\ poll' = At("start", poll.seen, poll.job)
    /\ UNCHANGED <<daemonState, status, server, held, orphans, paused, crashes>>

\* It said no, for whatever reason; step 8 reads the row once more ...
Refuse ==
    /\ poll.pc = "picked"
    /\ poll' = At("refused", claim, None)
    /\ UNCHANGED <<daemonState, status, server, held, orphans, paused, crashes>>

\* ... and writes it in another call.
RefuseWrites ==
    /\ poll.pc = "refused"
    /\ Write("idle", poll.seen)
    /\ poll' = AtTop
    /\ UNCHANGED <<status, server, held, orphans, paused, crashes>>

\* start_job, submit to the pool, _running.
StartJob ==
    /\ poll.pc = "start"
    /\ status' = [status EXCEPT ![poll.job] = "running"]
    /\ held' = held \cup {poll.job}
    /\ poll' = At("publish", poll.seen, poll.job)
    /\ UNCHANGED <<daemonState, server, orphans, paused, crashes>>

Publish ==
    /\ poll.pc = "publish"
    /\ state' = "running"
    /\ claim' = poll.job
    /\ poll' = AtTop
    /\ UNCHANGED <<status, server, held, orphans, paused, crashes>>

\* The circuit breaker is open: the cycle ends without a write.
PollReturns ==
    /\ poll.pc = "seen"
    /\ poll' = AtTop
    /\ UNCHANGED <<daemonState, status, server, held, orphans, paused, crashes>>

\* run() catches what poll_once raises and writes the state alone.
PollRaises ==
    /\ poll.pc \in {"seen", "picked", "refused", "start", "publish"}
    /\ state' = "idle"
    /\ poll' = AtTop
    /\ UNCHANGED <<claim, status, server, held, orphans, paused, crashes>>

\* A worker records the outcome of its job.
JobEnds(j) ==
    /\ j \in held
    /\ status' = [status EXCEPT ![j] = "completed"]
    /\ held' = held \ {j}
    /\ UNCHANGED <<daemonState, server, poll, orphans, paused, crashes>>

-----------------------------------------------------------------------------
(* Crash, restart and _recover_orphans.                                    *)

Crash ==
    /\ crashes < MaxCrashes
    /\ poll.pc # "down"
    /\ crashes' = crashes + 1
    /\ poll' = At("down", None, None)
    /\ held' = {}
    /\ orphans' = {}
    /\ loop' = None
    /\ proxy' = [p \in Proxies |-> IF proxy[p] = "new" THEN "new" ELSE "done"]
    /\ UNCHANGED <<daemonState, status, paused>>

Restart ==
    /\ poll.pc = "down"
    /\ poll' = At("recover", None, None)
    /\ UNCHANGED <<daemonState, status, server, held, orphans, paused, crashes>>

ListOrphans ==
    /\ poll.pc = "recover"
    /\ orphans' = RunningRows
    /\ poll' = At("orphans", None, None)
    /\ UNCHANGED <<daemonState, status, server, held, paused, crashes>>

\* Mutant of RecoverOrphan: rows of proxied requests are passed over.
RecoverJobOnly(r) ==
    /\ poll.pc = "orphans"
    /\ r \in orphans
    /\ status' = IF r \in Proxies THEN status ELSE [status EXCEPT ![r] = "pending"]
    /\ orphans' = orphans \ {r}
    /\ UNCHANGED <<daemonState, server, poll, held, paused, crashes>>

\* A job goes back to pending, the row of a proxied request is failed.
RecoverOrphan(r) ==
    /\ poll.pc = "orphans"
    /\ r \in orphans
    /\ status' = [status EXCEPT ![r] = IF r \in Proxies THEN "failed" ELSE "pending"]
    /\ orphans' = orphans \ {r}
    /\ UNCHANGED <<daemonState, server, poll, held, paused, crashes>>

\* Mutant of RecoveryEnds: the sentinel outlives the restart.
RecoveryEndsClaimed ==
    /\ poll.pc = "orphans"
    /\ orphans = {}
    /\ state' = "idle"
    /\ poll' = AtTop
    /\ UNCHANGED <<claim, status, server, held, orphans, paused, crashes>>

\* The sentinel is cleared and run() writes idle.
RecoveryEnds ==
    /\ poll.pc = "orphans"
    /\ orphans = {}
    /\ claim' = IF claim = Sentinel THEN None ELSE claim
    /\ state' = "idle"
    /\ poll' = AtTop
    /\ UNCHANGED <<status, server, held, orphans, paused, crashes>>

-----------------------------------------------------------------------------
ProxyStep(p) == \/ Arrive(p)
                \/ TryClaim(p)
                \/ Sleep(p)
                \/ GiveUp(p)
                \/ EnterBitnet(p)
                \/ SubmitRow(p)
                \/ SubmitRaises(p)
                \/ StartRow(p)
                \/ RequestEnds(p)
                \/ RequestCancelled(p)
                \/ CompleteRow(p)
                \/ Release(p)

PollStep == \/ PollReads
            \/ PollPicks
            \/ PollIdles
            \/ PollPauses
            \/ Admit
            \/ Refuse
            \/ RefuseWrites
            \/ StartJob
            \/ Publish
            \/ PollReturns
            \/ PollRaises

RecoveryStep == \/ Restart
                \/ ListOrphans
                \/ \E r \in Rows : RecoverOrphan(r)
                \/ RecoveryEnds

Next == \/ \E p \in Proxies : ProxyStep(p)
        \/ PollStep
        \/ \E j \in Queued : JobEnds(j)
        \/ Pause
        \/ Resume
        \/ Crash
        \/ RecoveryStep

Spec == Init /\ [][Next]_vars

(* The event loop runs its coroutines, a request to the backend ends (the  *)
(* read timeout), the process is restarted and recovers.                   *)
Fairness ==
    /\ WF_vars(RecoveryStep)
    /\ WF_vars(PollStep)
    /\ \A p \in Proxies : SF_vars(ProxyStep(p))

FairSpec == Spec /\ Fairness

-----------------------------------------------------------------------------
(* Type invariant: the shared row, the requests and the poll thread.       *)
TypeOK ==
    /\ state \in {"idle", "running", "paused_manual", "paused_health"}
    /\ claim \in Rows \cup {None, Sentinel}
    /\ status \in [Rows -> {"absent", "pending", "running", "completed", "failed"}]
    /\ proxy \in [Proxies -> {"new", "waiting", "claimed", "submitted", "requesting",
                              "recording", "releasing", "done"}]
    /\ loop \in Proxies \cup {None}
    /\ poll \in [pc : {"down", "recover", "orphans", "top", "seen", "picked", "refused",
                       "start", "publish"},
                 seen : Rows \cup {None, Sentinel}, job : Rows \cup {None}]
    /\ poll.pc \in {"picked", "start", "publish"} => poll.job \in Rows
    /\ held \subseteq Rows
    /\ orphans \subseteq Rows
    /\ paused \in BOOLEAN
    /\ crashes \in Nat

\* A sentinel in daemon_state belongs to a request that will release it, whatever
\* the poll thread and the releases of other requests did in between; one that
\* belongs to nobody would block every proxied request and every job for good.
ClaimOwned ==
    claim = Sentinel => \/ InFlight \ Bitnet # {}
                        \/ poll.pc = "down" \/ Recovering

\* The claim serializes the requests that take one: the daemon that clears it "every
\* 5s poll" would be "allowing concurrent proxy requests" (daemon/LLM.md).
OneProxyInFlight == \A p, q \in InFlight \ Bitnet : p = q

\* The daemon never executes the row of a proxied request, not even one a crash
\* left pending ("the daemon will shell-execute them (exit 127)", LLM.md).
ProxyNeverExecuted ==
    /\ held \cap Proxies = {}
    /\ poll.pc \in {"picked", "start", "publish"} => poll.job \in Queued

\* Every claim is released, whoever crashes or fails.
ClaimReleased == claim = Sentinel ~> claim # Sentinel

\* The row of a proxied request does not stay running and hold a slot for ever.
ProxyRowSettles == \A p \in Proxies : status[p] = "running" ~> status[p] # "running"
=============================================================================
