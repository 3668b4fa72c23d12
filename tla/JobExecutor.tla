----------------------------- MODULE JobExecutor -----------------------------
(***************************************************************************)
(* The daemon of ollama-queue: the poll thread (Daemon.poll_once, loop.py) *)
(* takes pending rows of the jobs table, admits them (_can_admit), may     *)
(* preempt a running job for them, and hands each to a thread of the pool, *)
(* which runs it as a subprocess (_run_job, executor.py) and records the   *)
(* outcome; a failure is routed to a retry or to the dead letter queue     *)
(* (DLQManager, dlq.py).  API threads submit and cancel, the deferral      *)
(* sweep resumes, and the whole process may crash and recover its rows.    *)
(*                                                                         *)
(* Every database call is atomic (it holds db._lock); everything between   *)
(* two of them is a step of its own, so all the interleavings of the poll  *)
(* thread, the workers and the API that the locks allow are behaviours.    *)
(* Time, health and VRAM readings are nondeterministic.                    *)
(***************************************************************************)
EXTENDS Naturals, FiniteSets

CONSTANTS
    Jobs,               \* ids of rows of the jobs table
    Threads,            \* threads of the ThreadPoolExecutor
    NoJob, NoThread,    \* null values
    NoModel,            \* the model of a command-only job
    Model,              \* jobs.model
    Profile,            \* OllamaModels.classify(model)["resource_profile"]
    Priority,           \* jobs.priority, 1 is the most urgent
    MaxRetries,         \* jobs.max_retries
    TimedJobs,          \* resource_profile is not 'ollama': hard timeout
    CheckedJobs,        \* recurring jobs with a check_command
    MaxSlots,           \* setting max_concurrent_jobs
    EmbedSlots,         \* the literal 4 of _can_admit
    PreemptionEnabled,  \* setting preemption_enabled
    MaxPreemptions,     \* setting max_preemptions_per_job
    WorkerFaults,       \* what may raise in a worker: subset of {"spawn", "tail"}
    SlowTail,           \* a worker's bookkeeping may outlast the retry backoff
    MaxCrashes          \* bound on daemon crashes

Profiles == {"embed", "heavy", "ollama"}

ASSUME ConstantsAssumption ==
    /\ NoJob \notin Jobs
    /\ NoThread \notin Threads
    /\ Profile \in [Jobs -> Profiles]
    /\ Priority \in [Jobs -> Nat]
    /\ MaxRetries \in [Jobs -> Nat]
    /\ TimedJobs \subseteq Jobs
    /\ CheckedJobs \subseteq Jobs
    /\ {MaxSlots, EmbedSlots, MaxPreemptions, MaxCrashes} \subseteq Nat
    /\ {PreemptionEnabled, SlowTail} \subseteq BOOLEAN
    /\ WorkerFaults \subseteq {"spawn", "tail"}

VARIABLES
    status,     \* jobs.status of each row of the jobs table
    retries,    \* jobs.retry_count
    preemptions,\* jobs.preemption_count
    backoff,    \* rows whose retry_after lies in the future
    poll,       \* the poll thread: where it is, the job and victim it has picked
    running,    \* Daemon._running: job -> its future (the thread that runs it)
    preempted,  \* Daemon._preempted
    worker,     \* worker[t]: the call of _run_job thread t executes
    crashes,    \* how often the daemon has crashed
    dispatched, \* history: how often start_job was called for a job
    recovered   \* history: how often orphan recovery reset a job

rows == <<status, retries, preemptions, backoff>>
counters == <<retries, preemptions, backoff>>
daemon == <<poll, running, preempted, worker>>
history == <<dispatched, recovered>>
vars == <<rows, daemon, crashes, history>>

Statuses == {"absent", "pending", "running", "deferred",
             "completed", "dead", "cancelled"}
PollSteps == {"down", "recover", "top", "admit", "scan", "requeue", "mark",
              "start", "submit", "register"}
Stages == {"idle", "submitted", "executing", "exited", "recording", "failing",
           "tail", "finally"}

Run(j, stage, rc) == [job |-> j, stage |-> stage, rc |-> rc]
IdleThread == Run(NoJob, "idle", 0)
PollAt(pc, j, v, t) == [pc |-> pc, job |-> j, victim |-> v, thread |-> t]
At(pc, j) == PollAt(pc, j, NoJob, NoThread)

Init ==
    /\ status = [j \in Jobs |-> "absent"]
    /\ retries = [j \in Jobs |-> 0]
    /\ preemptions = [j \in Jobs |-> 0]
    /\ backoff = {}
    /\ poll = At("down", NoJob)
    /\ running = [j \in Jobs |-> NoThread]
    /\ preempted = {}
    /\ worker = [t \in Threads |-> IdleThread]
    /\ crashes = 0
    /\ dispatched = [j \in Jobs |-> 0]
    /\ recovered = [j \in Jobs |-> 0]

-----------------------------------------------------------------------------
(* The in-memory view of what runs, as _can_admit counts it.               *)

Registered == {j \in Jobs : running[j] # NoThread}
NonEmbed(S) == {j \in S : Profile[j] # "embed"}
Embed(S) == {j \in S : Profile[j] = "embed"}

\* Futures in _running that are done: their thread has left that job.
DoneFutures == {j \in Registered : worker[running[j]].job # j}
\* Mutants of CleanedRunning: futures that are done stay; every future goes.
CleanedRunningNever == running

CleanedRunningAll == [j \in Jobs |-> NoThread]

CleanedRunning == [j \in Jobs |-> IF j \in DoneFutures THEN NoThread ELSE running[j]]

\* The gates of _can_admit that depend on the daemon's own state.
EmbedGate == Cardinality(Embed(Registered)) < EmbedSlots
HeavyGate == NonEmbed(Registered) = {}
\* Mutant of SameModelGate: only embed jobs are compared.
SameModelGateOfEmbeds(j) == \A i \in Embed(Registered) : Model[i] # Model[j]

SameModelGate(j) == Model[j] = NoModel \/ \A i \in Registered : Model[i] # Model[j]
StandardGate(j) == SameModelGate(j) /\ Cardinality(Registered) < MaxSlots
CanAdmit(j) == CASE Profile[j] = "embed"  -> EmbedGate
                 [] Profile[j] = "heavy"  -> HeavyGate
                 [] Profile[j] = "ollama" -> StandardGate(j)

-----------------------------------------------------------------------------
(* API threads and time.                                                   *)

Submit(j) ==
    /\ status[j] = "absent"
    /\ status' = [status EXCEPT ![j] = "pending"]
    /\ UNCHANGED <<counters, daemon, crashes, history>>

Cancel(j) ==
    /\ status[j] = "pending"
    /\ status' = [status EXCEPT ![j] = "cancelled"]
    /\ UNCHANGED <<counters, daemon, crashes, history>>

ResumeDeferred(j) ==
    /\ status[j] = "deferred"
    /\ status' = [status EXCEPT ![j] = "pending"]
    /\ UNCHANGED <<counters, daemon, crashes, history>>

\* retry_after passes.  The default backoff is a minute, the bookkeeping of the
\* failed run far shorter, unless SlowTail says otherwise.
BackoffElapses(j) ==
    /\ j \in backoff
    /\ SlowTail \/ \A t \in Threads : worker[t].job # j
    /\ backoff' = backoff \ {j}
    /\ UNCHANGED <<status, retries, preemptions, daemon, crashes, history>>

-----------------------------------------------------------------------------
(* The poll thread.                                                        *)

\* Mutant of Eligible: running rows are read as well.
EligibleOrRunning == {j \in Jobs : status[j] \in {"pending", "running"} /\ j \notin backoff}

Eligible == {j \in Jobs : status[j] = "pending" /\ j \notin backoff}
MostUrgent == {j \in Eligible : \A i \in Eligible : Priority[j] <= Priority[i]}

\* A poll cycle that dispatches nothing before it picks a job: empty queue,
\* open circuit breaker.  Futures that are done have been dropped.
PollSkip ==
    /\ poll.pc = "top"
    /\ running' = CleanedRunning
    /\ UNCHANGED <<rows, poll, preempted, worker, crashes, history>>

\* Steps 2-4: done futures are dropped, the pending rows read, one chosen.
PollPick(j) ==
    /\ poll.pc = "top"
    /\ j \in MostUrgent
    /\ running' = CleanedRunning
    /\ poll' = At("admit", j)
    /\ UNCHANGED <<rows, preempted, worker, crashes, history>>

\* Steps 6-8: the health gate, a yield, a proxy's claim, a model pull, the
\* VRAM budget, shadow mode, or a gate of _can_admit refuses the job.
Refuse ==
    /\ poll.pc = "admit"
    /\ poll' = At("top", NoJob)
    /\ UNCHANGED <<rows, running, preempted, worker, crashes, history>>

\* _can_admit passed the slot gates and found no VRAM: defer_job.
DeferOnAdmit ==
    /\ poll.pc = "admit"
    /\ Profile[poll.job] = "ollama" /\ StandardGate(poll.job)
    /\ status' = [status EXCEPT ![poll.job] = "deferred"]
    /\ poll' = At("top", NoJob)
    /\ UNCHANGED <<counters, running, preempted, worker, crashes, history>>

Admit ==
    /\ poll.pc = "admit"
    /\ CanAdmit(poll.job)
    /\ poll' = At("scan", poll.job)
    /\ UNCHANGED <<rows, running, preempted, worker, crashes, history>>

\* _check_preemption: a registered job below its preemption limit may be the
\* victim (elapsed time, silence, VRAM and remaining time are not modelled).
ScanVictim(v) ==
    /\ poll.pc = "scan"
    /\ PreemptionEnabled
    /\ Priority[poll.job] \in {1, 2}
    /\ v \in Registered
    /\ preemptions[v] < MaxPreemptions
    /\ poll' = PollAt("requeue", poll.job, v, NoThread)
    /\ UNCHANGED <<rows, running, preempted, worker, crashes, history>>

ScanNone ==
    /\ poll.pc = "scan"
    /\ poll' = At("start", poll.job)
    /\ UNCHANGED <<rows, running, preempted, worker, crashes, history>>

\* _preempt_job: SIGTERM is on its way (a process may exit at any time), the
\* row goes back to pending whatever it says now ...
RequeueVictim ==
    /\ poll.pc = "requeue"
    /\ status' = [status EXCEPT ![poll.victim] = "pending"]
    /\ preemptions' = [preemptions EXCEPT ![poll.victim] = @ + 1]
    /\ poll' = PollAt("mark", poll.job, poll.victim, NoThread)
    /\ UNCHANGED <<retries, backoff, running, preempted, worker, crashes, history>>

\* ... and only then is the worker told, under _running_lock.
MarkVictim ==
    /\ poll.pc = "mark"
    /\ preempted' = preempted \cup {poll.victim}
    /\ poll' = At("start", poll.job)
    /\ UNCHANGED <<rows, running, worker, crashes, history>>

\* start_job updates the row whatever its status is now.
StartJob ==
    /\ poll.pc = "start"
    /\ status' = [status EXCEPT ![poll.job] = "running"]
    /\ dispatched' = [dispatched EXCEPT ![poll.job] = @ + 1]
    /\ poll' = At("submit", poll.job)
    /\ UNCHANGED <<counters, running, preempted, worker, crashes, recovered>>

\* executor.submit: a thread of the pool gets the call.
SubmitToPool(t) ==
    /\ poll.pc = "submit"
    /\ worker[t].stage = "idle"
    /\ worker' = [worker EXCEPT ![t] = Run(poll.job, "submitted", 0)]
    /\ poll' = PollAt("register", poll.job, NoJob, t)
    /\ UNCHANGED <<rows, running, preempted, crashes, history>>

\* The future enters _running only after the worker may already run.
Register ==
    /\ poll.pc = "register"
    /\ running' = [running EXCEPT ![poll.job] = poll.thread]
    /\ poll' = At("top", NoJob)
    /\ UNCHANGED <<rows, preempted, worker, crashes, history>>

-----------------------------------------------------------------------------
(* A worker thread: _run_job.                                              *)

\* Mutants of Route: the retry is not counted; one retry too many.
RouteUncounted(j) ==
    IF retries[j] < MaxRetries[j]
    THEN /\ status' = [status EXCEPT ![j] = "pending"]
         /\ backoff' = backoff \cup {j}
         /\ UNCHANGED retries
    ELSE /\ status' = [status EXCEPT ![j] = "dead"]
         /\ UNCHANGED <<retries, backoff>>

RouteOffByOne(j) ==
    IF retries[j] <= MaxRetries[j]
    THEN /\ status' = [status EXCEPT ![j] = "pending"]
         /\ retries' = [retries EXCEPT ![j] = @ + 1]
         /\ backoff' = backoff \cup {j}
    ELSE /\ status' = [status EXCEPT ![j] = "dead"]
         /\ UNCHANGED <<retries, backoff>>

\* DLQManager._handle_failure_locked on a row the caller has just failed.
Route(j) ==
    IF retries[j] < MaxRetries[j]
    THEN /\ status' = [status EXCEPT ![j] = "pending"]
         /\ retries' = [retries EXCEPT ![j] = @ + 1]
         /\ backoff' = backoff \cup {j}
    ELSE /\ status' = [status EXCEPT ![j] = "dead"]
         /\ UNCHANGED <<retries, backoff>>

Go(t, stage) == worker' = [worker EXCEPT ![t].stage = stage]

\* Mutant of CheckCommandStops: the row is not completed.
CheckCommandStopsOpen(t) ==
    /\ worker[t].stage = "submitted"
    /\ worker[t].job \in CheckedJobs
    /\ worker' = [worker EXCEPT ![t] = IdleThread]
    /\ UNCHANGED <<rows, poll, running, preempted, crashes, history>>

\* check_command said skip or disable: completed, and the early return leaves
\* the entry in _running to the poll thread.
CheckCommandStops(t) ==
    /\ worker[t].stage = "submitted"
    /\ worker[t].job \in CheckedJobs
    /\ status' = [status EXCEPT ![worker[t].job] = "completed"]
    /\ worker' = [worker EXCEPT ![t] = IdleThread]
    /\ UNCHANGED <<counters, poll, running, preempted, crashes, history>>

Spawn(t) ==
    /\ worker[t].stage = "submitted"
    /\ Go(t, "executing")
    /\ UNCHANGED <<rows, poll, running, preempted, crashes, history>>

SpawnRaises(t) ==
    /\ "spawn" \in WorkerFaults
    /\ worker[t].stage = "submitted"
    /\ Go(t, "failing")
    /\ UNCHANGED <<rows, poll, running, preempted, crashes, history>>

ProcessExits(t) ==
    /\ worker[t].stage = "executing"
    /\ \E rc \in {0, 1} : worker' = [worker EXCEPT ![t] = Run(@.job, "exited", rc)]
    /\ UNCHANGED <<rows, poll, running, preempted, crashes, history>>

\* communicate() timed out: the process is killed, kill_job and the routing are
\* one critical section, and the early return skips the preemption check.
TimesOut(t) ==
    /\ worker[t].stage = "executing"
    /\ worker[t].job \in TimedJobs
    /\ Route(worker[t].job)
    /\ Go(t, "finally")
    /\ UNCHANGED <<preemptions, poll, running, preempted, crashes, history>>

\* was_preempted, read under _running_lock.
ReadPreempted(t) ==
    /\ worker[t].stage = "exited"
    /\ Go(t, IF worker[t].job \in preempted THEN "finally" ELSE "recording")
    /\ UNCHANGED <<rows, poll, running, preempted, crashes, history>>

\* complete_job and, on a non-zero exit, the routing, under db._lock.
RecordResult(t) ==
    /\ worker[t].stage = "recording"
    /\ IF worker[t].rc = 0
       THEN /\ status' = [status EXCEPT ![worker[t].job] = "completed"]
            /\ UNCHANGED <<retries, backoff>>
       ELSE Route(worker[t].job)
    /\ Go(t, "tail")
    /\ UNCHANGED <<preemptions, poll, running, preempted, crashes, history>>

\* Counters, metrics, next_run, the DLQ sweep: they end, or one of them raises.
TailEnds(t) ==
    /\ worker[t].stage = "tail"
    /\ Go(t, "finally")
    /\ UNCHANGED <<rows, poll, running, preempted, crashes, history>>

TailRaises(t) ==
    /\ "tail" \in WorkerFaults
    /\ worker[t].stage = "tail"
    /\ Go(t, "failing")
    /\ UNCHANGED <<rows, poll, running, preempted, crashes, history>>

\* except Exception: complete_job(exit_code=-1) and the routing.
HandleException(t) ==
    /\ worker[t].stage = "failing"
    /\ Route(worker[t].job)
    /\ Go(t, "finally")
    /\ UNCHANGED <<preemptions, poll, running, preempted, crashes, history>>

Finally(t) ==
    /\ worker[t].stage = "finally"
    /\ running' = [running EXCEPT ![worker[t].job] = NoThread]
    /\ preempted' = preempted \ {worker[t].job}
    /\ worker' = [worker EXCEPT ![t] = IdleThread]
    /\ UNCHANGED <<rows, poll, crashes, history>>

-----------------------------------------------------------------------------
(* Crash and recovery.                                                     *)

Crash ==
    /\ crashes < MaxCrashes
    /\ poll.pc # "down"
    /\ crashes' = crashes + 1
    /\ poll' = At("down", NoJob)
    /\ running' = [j \in Jobs |-> NoThread]
    /\ preempted' = {}
    /\ worker' = [t \in Threads |-> IdleThread]
    /\ UNCHANGED <<rows, history>>

Restart ==
    /\ poll.pc = "down"
    /\ poll' = At("recover", NoJob)
    /\ UNCHANGED <<rows, running, preempted, worker, crashes, history>>

\* _recover_orphans: reset_job_to_pending for each row left running.
RecoverOrphan(j) ==
    /\ poll.pc = "recover"
    /\ status[j] = "running"
    /\ status' = [status EXCEPT ![j] = "pending"]
    /\ recovered' = [recovered EXCEPT ![j] = @ + 1]
    /\ UNCHANGED <<counters, daemon, crashes, dispatched>>

RecoveryEnds ==
    /\ poll.pc = "recover"
    /\ \A j \in Jobs : status[j] # "running"
    /\ poll' = At("top", NoJob)
    /\ UNCHANGED <<rows, running, preempted, worker, crashes, history>>

-----------------------------------------------------------------------------
ApiStep == \E j \in Jobs : \/ Submit(j)
                           \/ Cancel(j)
                           \/ ResumeDeferred(j)
                           \/ BackoffElapses(j)

PollStep == \/ PollSkip
            \/ \E j \in Jobs : PollPick(j)
            \/ Refuse
            \/ DeferOnAdmit
            \/ Admit
            \/ \E v \in Jobs : ScanVictim(v)
            \/ ScanNone
            \/ RequeueVictim
            \/ MarkVictim
            \/ StartJob
            \/ \E t \in Threads : SubmitToPool(t)
            \/ Register

WorkerStep(t) == \/ CheckCommandStops(t)
                 \/ Spawn(t)
                 \/ SpawnRaises(t)
                 \/ ProcessExits(t)
                 \/ TimesOut(t)
                 \/ ReadPreempted(t)
                 \/ RecordResult(t)
                 \/ TailEnds(t)
                 \/ TailRaises(t)
                 \/ HandleException(t)
                 \/ Finally(t)

RecoveryStep == \/ Restart
                \/ \E j \in Jobs : RecoverOrphan(j)
                \/ RecoveryEnds

Next == ApiStep \/ PollStep \/ (\E t \in Threads : WorkerStep(t)) \/ Crash \/ RecoveryStep

Spec == Init /\ [][Next]_vars

(* Fairness.  The loop keeps polling, pool threads run, processes end      *)
(* (by themselves, by the hard timeout or by the stall killer), backoffs   *)
(* elapse and deferrals are swept.  A gate that opens again and again is   *)
(* eventually found open: health, VRAM and the breaker are outside here.   *)
Fairness ==
    /\ WF_vars(RecoveryStep)
    /\ WF_vars(PollStep)
    /\ \A t \in Threads : WF_vars(WorkerStep(t))
    /\ \A j \in Jobs : /\ SF_vars(PollPick(j))
                       /\ SF_vars(Admit /\ poll.job = j)
                       /\ WF_vars(BackoffElapses(j))
                       /\ WF_vars(ResumeDeferred(j))

FairSpec == Spec /\ Fairness

-----------------------------------------------------------------------------
(* Type invariant: rows, the poll thread's registers, futures and workers. *)
TypeOK ==
    /\ status \in [Jobs -> Statuses]
    /\ retries \in [Jobs -> Nat]
    /\ preemptions \in [Jobs -> Nat]
    /\ backoff \subseteq Jobs
    /\ poll \in [pc : PollSteps, job : Jobs \cup {NoJob}, victim : Jobs \cup {NoJob},
                 thread : Threads \cup {NoThread}]
    /\ poll.pc \notin {"down", "recover", "top"} => poll.job \in Jobs
    /\ poll.pc \in {"requeue", "mark"} => poll.victim \in Jobs
    /\ poll.pc = "register" => poll.thread \in Threads
    /\ running \in [Jobs -> Threads \cup {NoThread}]
    /\ preempted \subseteq Jobs
    /\ worker \in [Threads -> [job : Jobs \cup {NoJob}, stage : Stages, rc : {0, 1}]]
    /\ \A t \in Threads : worker[t].stage = "idle" <=> worker[t].job = NoJob
    /\ crashes \in Nat
    /\ dispatched \in [Jobs -> Nat]
    /\ recovered \in [Jobs -> Nat]

\* A job is started at most once for its submission, once more for each retry,
\* each preemption and each orphan reset charged to it: no interleaving of the
\* poll thread's stale picks, cancels, requeues and failures starts a job for free.
ExecutionBudget ==
    \A j \in Jobs : dispatched[j] <= 1 + retries[j] + preemptions[j] + recovered[j]

\* The retry counter never passes max_retries, however many workers of the job
\* fail, and a job is in the DLQ only when all its retries are used up.
RetryBudget ==
    \A j \in Jobs : /\ retries[j] <= MaxRetries[j]
                    /\ status[j] = "dead" => retries[j] = MaxRetries[j]

\* The victims of a preemption are the exception to what follows: see the README.
NeverPreempted(j) == preemptions[j] = 0

\* A row that says running has somebody who will take it out of that state: a
\* worker, the poll thread about to submit it, or the coming orphan recovery.
NoStrandedRunning ==
    \A j \in Jobs : status[j] = "running" /\ NeverPreempted(j) =>
        \/ \E t \in Threads : worker[t].job = j
        \/ poll.pc = "submit" /\ poll.job = j
        \/ poll.pc \in {"down", "recover"}

Executing(t) == worker[t].stage = "executing"
ExecutingJobs == {worker[t].job : t \in {u \in Threads : Executing(u)}}

\* The daemon never has two processes of one job, in spite of stale futures,
\* retries scheduled while a worker still holds its slot, and crashes.
NoDoubleExecution ==
    \A t, u \in Threads :
        /\ Executing(t) /\ Executing(u)
        /\ worker[t].job = worker[u].job
        /\ NeverPreempted(worker[t].job)
        => t = u

\* The processes that exist, not only the entries of _running, respect
\* max_concurrent_jobs and the embed limit (a heavy job needs no slot).
SlotsRespected ==
    (\A j \in ExecutingJobs : NeverPreempted(j)) =>
        /\ Cardinality({j \in ExecutingJobs : Profile[j] = "ollama"}) <= MaxSlots
        /\ Cardinality(Embed(ExecutingJobs)) <= EmbedSlots

\* Standard and heavy models serialize: one process per model.
ModelExclusive ==
    \A i, j \in NonEmbed(ExecutingJobs) :
        /\ i # j /\ Model[i] = Model[j]
        /\ NeverPreempted(i) /\ NeverPreempted(j)
        => Model[i] = NoModel

\* "NEVER sends to DLQ" (_preempt_job): once a running job has been requeued for
\* preemption, the worker of the interrupted run does not move it to the DLQ.
PreemptedNeverDead ==
    [][\A j \in Jobs :
          (j \in preempted \/ (poll.pc = "mark" /\ poll.victim = j))
             => ~(status[j] # "dead" /\ status'[j] = "dead")]_vars

\* Every submitted job is eventually completed, dead or cancelled.
EveryJobSettles ==
    \A j \in Jobs : status[j] # "absent"
                      ~> status[j] \in {"completed", "dead", "cancelled"}

=============================================================================
