------------------------------ MODULE Recurring ------------------------------
(* Recurring jobs (scheduling/scheduler, db/schedule, api/schedule and the tail   *)
(* of a run in daemon/executor).  The poll thread lists the due schedules and     *)
(* promotes them one by one, then dispatches what it read; workers count the runs *)
(* down and set next_run; the endpoints run, enable, move and delete.  Each call  *)
(* of the database is a step.  Time, load, exit codes and the checks of admission *)
(* are nondeterministic.  Preemption and bookkeeping that raises are in           *)
(* JobExecutor.                                                                   *)
EXTENDS Naturals, FiniteSets

CONSTANTS
    RecurringJobs,      \* ids of recurring_jobs
    Instances,          \* ids of the jobs of schedules, in order (bound: one submit each)
    PoolThreads,        \* threads of the executor
    MaxRuns,            \* max_runs of a new schedule
    MaxAsks,            \* bound on runs and enablings the user asks for
    MaxHalts,           \* bound on crashes of the daemon
    NoSchedule, NoInstance

RecurringAssumption ==
    /\ Instances \subseteq Nat /\ IsFiniteSet(Instances)
    /\ MaxRuns \in Nat \ {0} /\ MaxAsks \in Nat /\ MaxHalts \in Nat
    /\ NoSchedule \notin RecurringJobs /\ NoInstance \notin Instances

VARIABLES
    recurring,      \* rows: [present, enabled, due (next_run has passed), left (max_runs)]
    instance,       \* jobs: [owner, promoted, status, deferred (history: ever)]
    promoter,       \* the poll thread: [pc, due (list it read), skipped, job (row it read)]
    runner,         \* each thread: [job, at (step), left (the max_runs it read)]
    asks, halts,    \* how often the user asked for a run, and the daemon crashed
    tally           \* history: [done (successes), extra (asked for), raced]

recurringVars == <<recurring, instance, promoter, runner, asks, halts, tally>>

FreeThread == [job |-> NoInstance, at |-> "idle", left |-> 0]
Top == [pc |-> "top", due |-> {}, skipped |-> {}, job |-> NoInstance]

RecurringInit ==
    /\ recurring = [s \in RecurringJobs |->
                      [present |-> TRUE, enabled |-> TRUE, due |-> FALSE, left |-> MaxRuns]]
    /\ instance = [i \in Instances |->
                     [owner |-> NoSchedule, promoted |-> FALSE, status |-> "absent",
                      deferred |-> FALSE]]
    /\ promoter = Top /\ runner = [w \in PoolThreads |-> FreeThread]
    /\ asks = 0 /\ halts = 0
    /\ tally = [s \in RecurringJobs |-> [done |-> 0, extra |-> 0, raced |-> FALSE]]

-----------------------------------------------------------------------------
\* Completed, dead and cancelled are one status here, over: nothing asks which it was.
\* A retry waits with status pending, and its retry_after in the future.
Waiting == {"pending", "retry"}
InstancesOf(s) == {i \in Instances : instance[i].owner = s}
InHands(i) == \E w \in PoolThreads : runner[w].job = i

\* Deleting a schedule cuts its rows loose.
HasPendingOrRunning(s) ==
    /\ recurring[s].present
    /\ \E i \in InstancesOf(s) : instance[i].status \in Waiting \union {"running"}

\* Mutant: only a waiting row counts, as in has_pending_recurring.
HasPendingOnly(s) ==
    recurring[s].present /\ \E i \in InstancesOf(s) : instance[i].status \in Waiting

\* Something of the schedule may still succeed, or has not been counted yet.
Unfinished(s) ==
    \E i \in InstancesOf(s) :
        instance[i].status \in Waiting \union {"running", "deferred"} \/ InHands(i)

Raced(s, condition) == tally' = [tally EXCEPT ![s].raced = @ \/ condition]

Submit(s, promoted) ==
    \E i \in Instances :
      /\ instance[i].status = "absent"
      /\ \A k \in Instances : k < i => instance[k].status # "absent"
      /\ instance' = [instance EXCEPT ![i] =
                        [owner |-> s, promoted |-> promoted, status |-> "pending",
                         deferred |-> FALSE]]

-----------------------------------------------------------------------------
(* promote_due_jobs                                                          *)

GetDueRecurringJobs ==
    /\ promoter.pc = "top"
    /\ promoter' = [Top EXCEPT !.pc = "promote",
                      !.due = {s \in RecurringJobs : recurring[s].enabled /\ recurring[s].due}]
    /\ UNCHANGED <<recurring, instance, runner, asks, halts, tally>>

\* Entropy suspension passes over a schedule of low priority.
Suspend(s) ==
    /\ promoter.pc = "promote" /\ s \in promoter.due
    /\ promoter' = [promoter EXCEPT !.due = @ \ {s}]
    /\ UNCHANGED <<recurring, instance, runner, asks, halts, tally>>

\* Check and submit hold the lock together.  Whether the row is still enabled or due
\* is not looked at again, and next_run is left as it is.  The log entry is left out.
Promote(s) ==
    /\ promoter.pc = "promote" /\ s \in promoter.due
    /\ recurring[s].present /\ ~HasPendingOrRunning(s)
    /\ Submit(s, TRUE)
    /\ Raced(s, Unfinished(s) \/ ~recurring[s].enabled)
    /\ promoter' = [promoter EXCEPT !.due = @ \ {s}]
    /\ UNCHANGED <<recurring, runner, asks, halts>>

\* The row was deleted since the list was read: the foreign key refuses the job, the
\* loop ends, and what was skipped before it is not written.
PromoteRaises(s) ==
    /\ promoter.pc = "promote" /\ s \in promoter.due /\ ~recurring[s].present
    /\ promoter' = [Top EXCEPT !.pc = "pick"]
    /\ UNCHANGED <<recurring, instance, runner, asks, halts, tally>>

SkipDuplicate(s) ==
    /\ promoter.pc = "promote" /\ s \in promoter.due /\ HasPendingOrRunning(s)
    /\ promoter' = [promoter EXCEPT !.due = @ \ {s}, !.skipped = @ \union {s}]
    /\ UNCHANGED <<recurring, instance, runner, asks, halts, tally>>

\* next_run becomes the beginning of the cycle plus the interval.
BatchSetNextRuns ==
    /\ promoter.pc = "promote" /\ promoter.due = {}
    /\ recurring' = [s \in RecurringJobs |-> [recurring[s] EXCEPT
                       !.due = @ /\ s \notin promoter.skipped]]
    /\ promoter' = [Top EXCEPT !.pc = "pick"]
    /\ UNCHANGED <<instance, runner, asks, halts, tally>>

-----------------------------------------------------------------------------
(* The rest of a cycle, as far as it concerns the jobs of schedules.         *)

ReadPending(i) ==
    /\ promoter.pc = "pick" /\ instance[i].status = "pending"
    /\ promoter' = [promoter EXCEPT !.pc = "admit", !.job = i]
    /\ UNCHANGED <<recurring, instance, runner, asks, halts, tally>>

NothingAdmitted ==
    /\ promoter.pc \in {"pick", "admit"} /\ promoter' = Top
    /\ UNCHANGED <<recurring, instance, runner, asks, halts, tally>>

\* start_job updates the row whatever its status is by now.
StartInstance(w) ==
    /\ promoter.pc = "admit" /\ runner[w] = FreeThread
    /\ instance' = [instance EXCEPT ![promoter.job].status = "running"]
    /\ runner' = [runner EXCEPT ![w] = [job |-> promoter.job, at |-> "run", left |-> 0]]
    /\ Raced(instance[promoter.job].owner, instance[promoter.job].status # "pending")
    /\ promoter' = Top
    /\ UNCHANGED <<recurring, asks, halts>>

-----------------------------------------------------------------------------
(* Workers.  The result and its routing are one critical section; what follows *)
(* goes call by call.                                                          *)

OwnerOf(w) == instance[runner[w].job].owner
GoesTo(w, step) == runner' = [runner EXCEPT ![w].at = step]
Leaves(w) == runner' = [runner EXCEPT ![w] = FreeThread]
Ends(w, status) == instance' = [instance EXCEPT ![runner[w].job].status = status]

Succeeds(w) ==
    /\ runner[w].at = "run"
    /\ Ends(w, "over") /\ GoesTo(w, "read")
    /\ tally' = [tally EXCEPT ![OwnerOf(w)].done = @ + 1]
    /\ UNCHANGED <<recurring, promoter, asks, halts>>

Fails(w) ==
    /\ runner[w].at = "run"
    /\ \E status \in {"retry", "over"} : Ends(w, status)
    /\ GoesTo(w, "next")
    /\ UNCHANGED <<recurring, promoter, asks, halts, tally>>

\* The timeout returns before next_run is set.
TimesOut(w) ==
    /\ runner[w].at = "run"
    /\ \E status \in {"retry", "over"} : Ends(w, status)
    /\ Leaves(w)
    /\ UNCHANGED <<recurring, promoter, asks, halts, tally>>

\* check_command, exit 1: the row is completed and next_run set.
CheckSaysSkip(w) ==
    /\ runner[w].at = "run"
    /\ Ends(w, "over") /\ GoesTo(w, "next")
    /\ UNCHANGED <<recurring, promoter, asks, halts, tally>>

\* Exit 2: the schedule is disabled, then the row completed.
CheckSaysDone(w) ==
    /\ runner[w].at = "run"
    /\ recurring' = [recurring EXCEPT ![OwnerOf(w)].enabled = FALSE]
    /\ GoesTo(w, "close")
    /\ UNCHANGED <<instance, promoter, asks, halts, tally>>

CheckCloses(w) ==
    /\ runner[w].at = "close"
    /\ Ends(w, "over") /\ Leaves(w)
    /\ UNCHANGED <<recurring, promoter, asks, halts, tally>>

\* max_runs is read in one call, and counted down or the schedule disabled in another.
ReadMaxRuns(w) ==
    /\ runner[w].at = "read"
    /\ runner' = [runner EXCEPT ![w].left = recurring[OwnerOf(w)].left,
                                ![w].at = IF recurring[OwnerOf(w)].present THEN "count" ELSE "next"]
    /\ UNCHANGED <<recurring, instance, promoter, asks, halts, tally>>

CountDown(w) ==
    /\ runner[w].at = "count"
    /\ recurring' = IF runner[w].left <= 1
                    THEN [recurring EXCEPT ![OwnerOf(w)].enabled = FALSE]
                    ELSE [recurring EXCEPT ![OwnerOf(w)].left = runner[w].left - 1]
    /\ GoesTo(w, "next")
    /\ UNCHANGED <<instance, promoter, asks, halts, tally>>

UpdateNextRun(w) ==
    /\ runner[w].at = "next"
    /\ recurring' = [recurring EXCEPT ![OwnerOf(w)].due = FALSE]
    /\ Leaves(w)
    /\ UNCHANGED <<instance, promoter, asks, halts, tally>>

-----------------------------------------------------------------------------
(* Time, the endpoints, deferral, a crash.                                   *)

NextRunPasses(s) ==
    /\ recurring[s].enabled /\ ~recurring[s].due
    /\ recurring' = [recurring EXCEPT ![s].due = TRUE]
    /\ UNCHANGED <<instance, promoter, runner, asks, halts, tally>>

\* The default backoff is longer than what a worker still does after a failure.
BackoffElapses(i) ==
    /\ instance[i].status = "retry" /\ ~InHands(i)
    /\ instance' = [instance EXCEPT ![i].status = "pending"]
    /\ UNCHANGED <<recurring, promoter, runner, asks, halts, tally>>

\* run-now and batch-run: no look at the instances there are.
RunNow(s) ==
    /\ recurring[s].present /\ asks < MaxAsks
    /\ Submit(s, FALSE)
    /\ tally' = [tally EXCEPT ![s].extra = @ + 1, ![s].raced = @ \/ Unfinished(s)]
    /\ asks' = asks + 1
    /\ UNCHANGED <<recurring, promoter, runner, halts>>

\* max_runs stays at what was left, so one more run is due to the user.
Enable(s) ==
    /\ recurring[s].present /\ ~recurring[s].enabled /\ asks < MaxAsks
    /\ recurring' = [recurring EXCEPT ![s].enabled = TRUE]
    /\ tally' = [tally EXCEPT ![s].extra = @ + 1]
    /\ asks' = asks + 1
    /\ UNCHANGED <<instance, promoter, runner, halts>>

Disable(s) ==
    /\ recurring[s].enabled
    /\ recurring' = [recurring EXCEPT ![s].enabled = FALSE]
    /\ UNCHANGED <<instance, promoter, runner, asks, halts, tally>>

\* now + interval * i / n: the first of a group is due at once, the others later.
Rebalance(s) ==
    /\ recurring[s].enabled
    /\ \E due \in BOOLEAN : recurring' = [recurring EXCEPT ![s].due = due]
    /\ UNCHANGED <<instance, promoter, runner, asks, halts, tally>>

Delete(s) ==
    /\ recurring[s].present
    /\ recurring' = [recurring EXCEPT ![s] =
                       [present |-> FALSE, enabled |-> FALSE, due |-> FALSE, left |-> 1]]
    /\ UNCHANGED <<instance, promoter, runner, asks, halts, tally>>

CancelInstance(i) ==
    /\ instance[i].status \in Waiting
    /\ instance' = [instance EXCEPT ![i].status = "over"]
    /\ UNCHANGED <<recurring, promoter, runner, asks, halts, tally>>

\* Deferral has the entries, the sweep and the races of these two.
DeferInstance(i) ==
    /\ instance[i].status \in Waiting
    /\ instance' = [instance EXCEPT ![i].status = "deferred", ![i].deferred = TRUE]
    /\ UNCHANGED <<recurring, promoter, runner, asks, halts, tally>>

ResumeInstance(i) ==
    /\ instance[i].status = "deferred"
    /\ instance' = [instance EXCEPT ![i].status = "pending"]
    /\ UNCHANGED <<recurring, promoter, runner, asks, halts, tally>>

\* What a worker still had to count is lost; _recover_orphans sets the rows left
\* running to pending before the loop begins.
DaemonCrashes ==
    /\ halts < MaxHalts /\ halts' = halts + 1
    /\ promoter' = Top /\ runner' = [w \in PoolThreads |-> FreeThread]
    /\ instance' = [i \in Instances |-> [instance[i] EXCEPT
                      !.status = IF @ = "running" THEN "pending" ELSE @]]
    /\ tally' = [s \in RecurringJobs |-> [tally[s] EXCEPT !.raced = @ \/
                   \E w \in PoolThreads : runner[w].at \in {"read", "count"} /\ OwnerOf(w) = s]]
    /\ UNCHANGED <<recurring, asks>>

-----------------------------------------------------------------------------
PollerStep ==
    \/ GetDueRecurringJobs \/ BatchSetNextRuns \/ NothingAdmitted
    \/ \E s \in RecurringJobs : Suspend(s) \/ Promote(s) \/ PromoteRaises(s) \/ SkipDuplicate(s)
    \/ \E i \in Instances : ReadPending(i)
    \/ \E w \in PoolThreads : StartInstance(w)

RunnerStep ==
    \E w \in PoolThreads :
      \/ Succeeds(w) \/ Fails(w) \/ TimesOut(w) \/ CheckSaysSkip(w) \/ CheckSaysDone(w)
      \/ CheckCloses(w) \/ ReadMaxRuns(w) \/ CountDown(w) \/ UpdateNextRun(w)

OutsideStep ==
    \/ \E s \in RecurringJobs : \/ NextRunPasses(s) \/ Rebalance(s) \/ Enable(s) \/ Disable(s)
                            \/ RunNow(s) \/ Delete(s)
    \/ \E i \in Instances : \/ CancelInstance(i) \/ DeferInstance(i) \/ ResumeInstance(i)
                            \/ BackoffElapses(i)

RecurringNext == PollerStep \/ RunnerStep \/ OutsideStep \/ DaemonCrashes

RecurringSpec == RecurringInit /\ [][RecurringNext]_recurringVars

-----------------------------------------------------------------------------
RecurringTypeOK ==
    /\ recurring \in [RecurringJobs -> [present : BOOLEAN, enabled : BOOLEAN, due : BOOLEAN,
                                    left : 1..MaxRuns]]
    /\ instance \in [Instances -> [owner : RecurringJobs \union {NoSchedule}, promoted : BOOLEAN,
                                   status : {"absent", "pending", "retry", "running", "deferred",
                                             "over"},
                                   deferred : BOOLEAN]]
    /\ promoter.due \subseteq RecurringJobs /\ promoter.job \in Instances \union {NoInstance}
    /\ asks \in 0..MaxAsks /\ halts \in 0..MaxHalts

\* Promotion makes no second instance while one waits or runs, through retries, crashes
\* and lists that are out of date.  Not for an instance that was ever deferred: that one
\* is not seen, and comes back beside its successor.
PromotedOnce ==
    \A i, k \in Instances :
        (/\ i # k /\ instance[i].owner = instance[k].owner
         /\ \A m \in {i, k} : /\ instance[m].promoted /\ ~instance[m].deferred
                              /\ instance[m].status \in Waiting \union {"running"})
        => ~recurring[instance[i].owner].present

\* max_runs: a schedule succeeds no more often than it may, and once more for each run
\* and each enabling the user asks for.  Not if its runs raced: one was submitted before
\* the last was counted or after the schedule was disabled, a cancelled or deferred one
\* was started, or a crash came before the count.
LimitKept ==
    \A s \in RecurringJobs : ~tally[s].raced => tally[s].done <= MaxRuns + tally[s].extra

\* What the scheduler promises: scheduler.py:118 (check and submit are atomic) and the
\* countdown of executor.py:549.
ScheduleSound == PromotedOnce /\ LimitKept
=============================================================================
