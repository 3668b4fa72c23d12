------------------------------- MODULE Deferral -------------------------------
(* Deferred jobs (db/jobs, scheduling/deferral, api/jobs and the gate of          *)
(* daemon/executor): the gate and the user defer a job, the sweep of the poll     *)
(* thread places it or resumes it, the user resumes it by hand.  Each call of the *)
(* database is a step.  Free resources, the slots found and the clock are         *)
(* nondeterministic; deferral is switched on (defer.enabled).                     *)
EXTENDS Naturals, FiniteSets

CONSTANTS
    DeferJobs,          \* ids of jobs
    Deferrals,          \* ids of deferrals, in order (bound: each is inserted once)
    MaxDeferHalts,      \* bound on crashes of the daemon
    NoOne               \* no job or deferral

DeferralAssumption ==
    /\ Deferrals \subseteq Nat /\ IsFiniteSet(DeferJobs) /\ IsFiniteSet(Deferrals)
    /\ MaxDeferHalts \in Nat /\ NoOne \notin DeferJobs \union Deferrals

VARIABLES
    commandOnly,    \* the jobs without a model
    deferStatus,    \* status of each job's row
    entry,          \* rows of deferrals: [job, when]
    sweeper,        \* the poll thread: [pc, picked (row it read), list, taken]
    sweepDue,       \* dlq.sweep_fallback_minutes have passed since the last sweep
    toDefer,        \* the endpoint that defers: the job it has looked at
    toResume,       \* the endpoint that resumes: the deferral it has looked at
    processes,      \* how many processes a job has
    ended,          \* history: how often a job's process has reported
    crossed,        \* history: jobs whose row was written from a status it had left
    deferHalts

deferralVars == <<commandOnly, deferStatus, entry, sweeper, sweepDue, toDefer, toResume,
                  processes, ended, crossed, deferHalts>>

rows == <<deferStatus, entry>>
fixed == <<commandOnly, sweepDue, toDefer, toResume, deferHalts>>
runs == <<processes, ended, crossed>>

AtPick == [pc |-> "pick", picked |-> NoOne, list |-> {}, taken |-> NoOne]

DeferralInit ==
    /\ commandOnly \in SUBSET DeferJobs
    /\ deferStatus = [j \in DeferJobs |-> "pending"]
    /\ entry = [d \in Deferrals |-> [job |-> NoOne, when |-> "absent"]]
    /\ sweeper = AtPick /\ sweepDue = TRUE /\ toDefer = NoOne /\ toResume = NoOne
    /\ processes = [j \in DeferJobs |-> 0] /\ ended = [j \in DeferJobs |-> 0]
    /\ crossed = {} /\ deferHalts = 0

-----------------------------------------------------------------------------
Crosses(j, condition) == crossed' = crossed \union {k \in {j} : condition}

\* An entry that list_deferred returns.
Open(d) == entry[d].when \in {"unscheduled", "later", "past"}

\* defer_job: one transaction, whatever the row says.
Defer(j) ==
    /\ \E d \in Deferrals :
         /\ entry[d].when = "absent"
         /\ \A k \in Deferrals : k < d => entry[k].when # "absent"
         /\ entry' = [entry EXCEPT ![d] = [job |-> j, when |-> "unscheduled"]]
    /\ deferStatus' = [deferStatus EXCEPT ![j] = "deferred"]
    /\ Crosses(j, deferStatus[j] # "pending")

\* Mutant: the entry is closed, and the job stays deferred.
ResumeEntryOnly(d) ==
    /\ entry' = [entry EXCEPT ![d].when = "resumed"]
    /\ Crosses(entry[d].job, deferStatus[entry[d].job] # "deferred")
    /\ UNCHANGED deferStatus

\* resume_deferred_job: one transaction, whatever the rows say.
Resume(d) ==
    /\ entry' = [entry EXCEPT ![d].when = "resumed"]
    /\ deferStatus' = [deferStatus EXCEPT ![entry[d].job] = "pending"]
    /\ Crosses(entry[d].job, deferStatus[entry[d].job] # "deferred")

-----------------------------------------------------------------------------
(* A cycle of the poll thread: read the pending rows, sweep, admit.          *)

ReadRow ==
    /\ sweeper.pc = "pick"
    /\ \E j \in {k \in DeferJobs : deferStatus[k] = "pending"} \union {NoOne} :
         sweeper' = [AtPick EXCEPT !.pc = "sweep", !.picked = j]
    /\ UNCHANGED <<rows, fixed, runs>>

\* Half an hour after the last sweep: phase 1 lists the entries whose time has passed ...
BeginPhase1 ==
    /\ sweeper.pc = "sweep" /\ sweepDue
    /\ sweeper' = [sweeper EXCEPT !.pc = "past", !.list = {d \in Deferrals : entry[d].when = "past"}]
    /\ UNCHANGED <<rows, fixed, runs>>

NoSweep ==
    /\ sweeper.pc = "sweep" /\ ~sweepDue
    /\ sweeper' = [sweeper EXCEPT !.pc = "admit"]
    /\ UNCHANGED <<rows, fixed, runs>>

\* ... and phase 2 those without a time.
BeginPhase2 ==
    /\ sweeper.pc = "past" /\ sweeper.list = {}
    /\ sweeper' = [sweeper EXCEPT !.pc = "new",
                                  !.list = {d \in Deferrals : entry[d].when = "unscheduled"}]
    /\ UNCHANGED <<rows, fixed, runs>>

EndSweep ==
    /\ sweeper.pc = "new" /\ sweeper.list = {}
    /\ sweeper' = [sweeper EXCEPT !.pc = "admit"] /\ sweepDue' = FALSE
    /\ UNCHANGED <<rows, runs, commandOnly, toDefer, toResume, deferHalts>>

\* get_job: an entry of a job that is not deferred is left.
PassOver(d) ==
    /\ sweeper.pc \in {"past", "new"} /\ d \in sweeper.list
    /\ deferStatus[entry[d].job] # "deferred"
    /\ sweeper' = [sweeper EXCEPT !.list = @ \ {d}]
    /\ UNCHANGED <<rows, fixed, runs>>

\* No slot fits; for a job without a model the estimate raises, and the sweep goes on.
NoSlot(d) ==
    /\ sweeper.pc = "new" /\ d \in sweeper.list /\ deferStatus[entry[d].job] = "deferred"
    /\ sweeper' = [sweeper EXCEPT !.list = @ \ {d}]
    /\ UNCHANGED <<rows, fixed, runs>>

\* The job was deferred when it was read; the entry is written in another call.
Take(d) ==
    /\ sweeper.pc \in {"past", "new"} /\ d \in sweeper.list
    /\ deferStatus[entry[d].job] = "deferred"
    /\ sweeper.pc = "new" => entry[d].job \notin commandOnly
    /\ sweeper' = [sweeper EXCEPT !.taken = d, !.list = @ \ {d},
                                  !.pc = IF @ = "past" THEN "resume" ELSE "place"]
    /\ UNCHANGED <<rows, fixed, runs>>

GoesOn == sweeper' = [sweeper EXCEPT !.taken = NoOne,
                                     !.pc = IF @ = "resume" THEN "past" ELSE "new"]

\* The time has passed, or the slot is number 0.
ResumeTaken ==
    /\ sweeper.pc \in {"resume", "place"}
    /\ Resume(sweeper.taken) /\ GoesOn
    /\ UNCHANGED <<fixed, processes, ended>>

\* The load map begins at midnight, so the slot's time may be past.  An entry that was
\* resumed since gets the time too, and stays resumed.
PlaceTaken ==
    /\ sweeper.pc = "place"
    /\ \E t \in {"later", "past"} :
         entry' = [entry EXCEPT ![sweeper.taken].when = IF @ = "resumed" THEN @ ELSE t]
    /\ GoesOn
    /\ UNCHANGED <<fixed, runs, deferStatus>>

\* _can_admit refuses without deferring; or there was no row.
NotAdmitted ==
    /\ sweeper.pc = "admit" /\ sweeper' = AtPick
    /\ UNCHANGED <<rows, fixed, runs>>

\* A model that runs already is refused, so is a full pool.
SameModelRuns(j) == j \notin commandOnly /\ processes[j] > 0

\* Resources do not fit.
DeferPicked ==
    /\ sweeper.pc = "admit" /\ sweeper.picked # NoOne /\ ~SameModelRuns(sweeper.picked)
    /\ Defer(sweeper.picked) /\ sweeper' = AtPick
    /\ UNCHANGED <<fixed, processes, ended>>

\* start_job: whatever the row says by now.
StartPicked ==
    /\ sweeper.pc = "admit" /\ sweeper.picked # NoOne /\ ~SameModelRuns(sweeper.picked)
    /\ deferStatus' = [deferStatus EXCEPT ![sweeper.picked] = "running"]
    /\ processes' = [processes EXCEPT ![sweeper.picked] = @ + 1]
    /\ Crosses(sweeper.picked, deferStatus[sweeper.picked] # "pending")
    /\ sweeper' = AtPick
    /\ UNCHANGED <<fixed, entry, ended>>

\* complete_job, likewise unconditional.
ProcessEnds(j) ==
    /\ processes[j] > 0
    /\ processes' = [processes EXCEPT ![j] = @ - 1]
    /\ ended' = [ended EXCEPT ![j] = @ + 1]
    /\ deferStatus' = [deferStatus EXCEPT ![j] = "completed"]
    /\ UNCHANGED <<fixed, entry, sweeper, crossed>>

-----------------------------------------------------------------------------
(* The user, by the endpoints or the command line; the clock; a crash.       *)

\* The status is read in one call and written in the next.
LookAtJob(j) ==
    /\ toDefer = NoOne /\ deferStatus[j] = "pending"
    /\ toDefer' = j
    /\ UNCHANGED <<rows, runs, commandOnly, sweepDue, sweeper, toResume, deferHalts>>

DeferLookedAt ==
    /\ toDefer # NoOne
    /\ Defer(toDefer) /\ toDefer' = NoOne
    /\ UNCHANGED <<commandOnly, sweepDue, sweeper, toResume, processes, ended, deferHalts>>

LookAtDeferral(d) ==
    /\ toResume = NoOne /\ Open(d)
    /\ toResume' = d
    /\ UNCHANGED <<rows, runs, commandOnly, sweepDue, sweeper, toDefer, deferHalts>>

ResumeLookedAt ==
    /\ toResume # NoOne
    /\ Resume(toResume) /\ toResume' = NoOne
    /\ UNCHANGED <<commandOnly, sweepDue, sweeper, toDefer, processes, ended, deferHalts>>

CancelRow(j) ==
    /\ deferStatus[j] = "pending"
    /\ deferStatus' = [deferStatus EXCEPT ![j] = "cancelled"]
    /\ UNCHANGED <<fixed, runs, entry, sweeper>>

ScheduledTimePasses(d) ==
    /\ entry[d].when = "later"
    /\ entry' = [entry EXCEPT ![d].when = "past"]
    /\ UNCHANGED <<fixed, runs, deferStatus, sweeper>>

IntervalPasses ==
    /\ ~sweepDue /\ sweepDue' = TRUE
    /\ UNCHANGED <<rows, runs, commandOnly, sweeper, toDefer, toResume, deferHalts>>

\* The service stops, and its processes and requests with it; _recover_orphans sets
\* the rows left running to pending, deferred rows stay.
ServiceRestarts ==
    /\ deferHalts < MaxDeferHalts /\ deferHalts' = deferHalts + 1
    /\ sweeper' = AtPick /\ sweepDue' = TRUE /\ toDefer' = NoOne /\ toResume' = NoOne
    /\ processes' = [j \in DeferJobs |-> 0]
    /\ deferStatus' = [j \in DeferJobs |-> IF deferStatus[j] = "running" THEN "pending"
                                           ELSE deferStatus[j]]
    /\ UNCHANGED <<commandOnly, entry, ended, crossed>>

-----------------------------------------------------------------------------
SweepStep ==
    \/ BeginPhase1 \/ NoSweep \/ BeginPhase2 \/ EndSweep \/ ResumeTaken \/ PlaceTaken
    \/ \E d \in Deferrals : PassOver(d) \/ NoSlot(d) \/ Take(d)

PollThread == ReadRow \/ SweepStep \/ NotAdmitted \/ DeferPicked \/ StartPicked

DeferralNext ==
    \/ PollThread \/ DeferLookedAt \/ ResumeLookedAt \/ IntervalPasses
    \/ ServiceRestarts
    \/ \E j \in DeferJobs : ProcessEnds(j) \/ LookAtJob(j) \/ CancelRow(j)
    \/ \E d \in Deferrals : LookAtDeferral(d) \/ ScheduledTimePasses(d)

DeferralSpec == DeferralInit /\ [][DeferralNext]_deferralVars

\* The poll thread cycles (the queue is not paused, the circuit not open for good); the
\* clock goes on.
DeferralFair ==
    /\ WF_deferralVars(PollThread) /\ WF_deferralVars(IntervalPasses)
    /\ \A d \in Deferrals : WF_deferralVars(ScheduledTimePasses(d))

DeferralFairSpec == DeferralSpec /\ DeferralFair

-----------------------------------------------------------------------------
DeferralTypeOK ==
    /\ commandOnly \subseteq DeferJobs
    /\ deferStatus \in [DeferJobs -> {"pending", "running", "deferred", "completed", "cancelled"}]
    /\ entry \in [Deferrals -> [job : DeferJobs \union {NoOne},
                                when : {"absent", "unscheduled", "later", "past", "resumed"}]]
    /\ sweeper.pc \in {"pick", "sweep", "past", "resume", "new", "place", "admit"}
    /\ sweeper.list \subseteq Deferrals /\ sweeper.taken \in Deferrals \union {NoOne}
    /\ sweeper.picked \in DeferJobs \union {NoOne}
    /\ toDefer \in DeferJobs \union {NoOne} /\ toResume \in Deferrals \union {NoOne}
    /\ sweepDue \in BOOLEAN /\ crossed \subseteq DeferJobs /\ deferHalts \in 0..MaxDeferHalts

\* A deferred job has an entry by which the sweep or the user can bring it back,
\* through double deferrals, resumes that cross and a restart.
DeferredHasEntry ==
    \A j \in DeferJobs : deferStatus[j] = "deferred" =>
        \E d \in Deferrals : entry[d].job = j /\ Open(d)

\* A job that was deferred and resumed runs like any other: one process at a time,
\* which reports once.  Not if somebody wrote its row from a status it had left.
RunsAsOne ==
    \A j \in DeferJobs \ crossed :
        /\ processes[j] + ended[j] <= 1
        /\ processes[j] = 1 <=> deferStatus[j] = "running"

\* Two processes at a time has only a job without a model.
TwoNeedNoModel == \A j \in DeferJobs : processes[j] > 1 => j \in commandOnly

DeferralSound == DeferredHasEntry /\ RunsAsOne /\ TwoNeedNoModel

\* An entry that was given a time is resumed once the time has passed, or its job is
\* no longer deferred.
PlacedReturns ==
    \A d \in Deferrals :
        entry[d].when \in {"later", "past"} ~>
            \/ entry[d].when = "resumed"
            \/ \E j \in DeferJobs : entry[d].job = j /\ deferStatus[j] # "deferred"
=============================================================================
