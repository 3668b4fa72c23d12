----------------------------- MODULE DeadLetters -----------------------------
(***************************************************************************)
(* The dead letter queue (db/dlq.py) and those who empty it: the sweep of  *)
(* DLQScheduler, run by every worker after its job and by the poll thread, *)
(* which resubmits the entries it finds, and the endpoints of api/dlq.py   *)
(* with which a user retries, reschedules, dismisses and clears.  A sweep  *)
(* is a sequence of database calls under _sweep_lock; the endpoints do not *)
(* take that lock, and the process may crash between any two calls.        *)
(*                                                                         *)
(* A job fails once here, so its entry has the job's name.  How a job gets *)
(* to fail for good is the business of JobExecutor.                        *)
(***************************************************************************)
EXTENDS Naturals, FiniteSets

CONSTANTS
    Jobs,       \* ids of rows of the jobs table, each used once
    Originals,  \* jobs in the table at the start
    Failing,    \* jobs that may fail for good
    Permanent,  \* jobs whose failure classify_failure calls permanent
    Sweepers,   \* threads that run a sweep
    None,       \* null
    Threshold,  \* setting dlq.chronic_failure_threshold
    ManualAPI,  \* POST /api/dlq/{id}/reschedule is used
    SweepFaults,\* a sweep may raise
    MaxCrashes  \* bound on crashes of the process

ASSUME DlqAssumption ==
    /\ Originals \subseteq Jobs
    /\ Failing \subseteq Jobs
    /\ Permanent \subseteq Jobs
    /\ None \notin Jobs \cup Sweepers \cup {"retried", "rescheduled", "dismissed"}
    /\ Threshold \in Nat /\ MaxCrashes \in Nat
    /\ ManualAPI \in BOOLEAN /\ SweepFaults \in BOOLEAN

VARIABLES
    status,     \* jobs.status
    root,       \* history: the original job a job descends from
    entries,    \* rows of dlq
    resolution, \* dlq.resolution
    marked,     \* rows whose auto_rescheduled_at is set
    count,      \* dlq.auto_reschedule_count
    lock,       \* who holds _sweep_lock
    sweep,      \* sweep[s]: the place of a sweep, and the entry it is at
    todo,       \* todo[s]: the entries it has listed and not looked at
    manual,     \* the entry for which the reschedule endpoint has submitted a job
    swept,      \* history: jobs the sweeps created for an entry
    created,    \* history: jobs created for an entry by anybody
    crashes     \* how often the process has crashed

dlq == <<entries, resolution, marked, count>>
sweeps == <<lock, sweep, todo>>
history == <<root, swept, created>>
vars == <<status, dlq, sweeps, manual, history, crashes>>

At(pc, e) == [pc |-> pc, entry |-> e]
NoSweep == At("idle", None)

Init ==
    /\ status = [j \in Jobs |-> IF j \in Originals THEN "pending" ELSE "absent"]
    /\ root = [j \in Jobs |-> j]
    /\ entries = {}
    /\ resolution = [j \in Jobs |-> None]
    /\ marked = {}
    /\ count = [j \in Jobs |-> 0]
    /\ lock = None
    /\ sweep = [s \in Sweepers |-> NoSweep]
    /\ todo = [s \in Sweepers |-> {}]
    /\ manual = None
    /\ swept = [j \in Jobs |-> 0]
    /\ created = [j \in Jobs |-> 0]
    /\ crashes = 0

\* submit_job: n is the new row, for the work of entry e.
CreateJob(n, e) ==
    /\ status[n] = "absent"
    /\ status' = [status EXCEPT ![n] = "pending"]
    /\ root' = [root EXCEPT ![n] = root[e]]
    /\ created' = [created EXCEPT ![e] = @ + 1]

-----------------------------------------------------------------------------
(* Jobs: the row of the DLQ and the status dead are one transaction.       *)

JobDies(j) ==
    /\ status[j] = "pending"
    /\ j \in Failing
    /\ status' = [status EXCEPT ![j] = "dead"]
    /\ entries' = entries \cup {j}
    /\ UNCHANGED <<resolution, marked, count, sweeps, manual, history, crashes>>

JobSucceeds(j) ==
    /\ status[j] = "pending"
    /\ status' = [status EXCEPT ![j] = "completed"]
    /\ UNCHANGED <<dlq, sweeps, manual, history, crashes>>

-----------------------------------------------------------------------------
(* The sweep.                                                              *)

\* acquire(blocking=False): who does not get the lock leaves.
BeginSweep(s) ==
    /\ sweep[s].pc = "idle"
    /\ lock = None
    /\ lock' = s
    /\ sweep' = [sweep EXCEPT ![s] = At("list", None)]
    /\ UNCHANGED <<status, dlq, todo, manual, history, crashes>>

\* Mutant of Unscheduled: entries that were marked are listed again.
UnscheduledOrMarked == {e \in entries : resolution[e] = None}

Unscheduled == {e \in entries : resolution[e] = None /\ e \notin marked}

ListEntries(s) ==
    /\ sweep[s].pc = "list"
    /\ todo' = [todo EXCEPT ![s] = Unscheduled]
    /\ sweep' = [sweep EXCEPT ![s] = At("next", None)]
    /\ UNCHANGED <<status, dlq, lock, manual, history, crashes>>

\* The entry is read again: is it still there, is it chronic?
Reschedulable(e) == e \in entries /\ count[e] < Threshold /\ e \notin Permanent

SkipEntry(s, e) ==
    /\ sweep[s].pc = "next"
    /\ e \in todo[s]
    /\ todo' = [todo EXCEPT ![s] = @ \ {e}]
    /\ UNCHANGED <<status, dlq, lock, sweep, manual, history, crashes>>

\* ... and a slot was found for it.
TakeEntry(s, e) ==
    /\ sweep[s].pc = "next"
    /\ e \in todo[s]
    /\ Reschedulable(e)
    /\ todo' = [todo EXCEPT ![s] = @ \ {e}]
    /\ sweep' = [sweep EXCEPT ![s] = At("mark", e)]
    /\ UNCHANGED <<status, dlq, lock, manual, history, crashes>>

\* Mutant of MarkEntry: it resolves the entry already.
MarkEntryResolves(s) ==
    /\ sweep[s].pc = "mark"
    /\ marked' = marked \cup ({sweep[s].entry} \cap entries)
    /\ resolution' = [resolution EXCEPT ![sweep[s].entry] = "rescheduled"]
    /\ sweep' = [sweep EXCEPT ![s] = At("submit", sweep[s].entry)]
    /\ UNCHANGED <<status, entries, count, lock, todo, manual, history, crashes>>

\* mark_dlq_scheduling, "BEFORE submitting job (crash-safe ordering)".
MarkEntry(s) ==
    /\ sweep[s].pc = "mark"
    /\ marked' = marked \cup ({sweep[s].entry} \cap entries)
    /\ sweep' = [sweep EXCEPT ![s] = At("submit", sweep[s].entry)]
    /\ UNCHANGED <<status, entries, resolution, count, lock, todo, manual, history, crashes>>

SubmitJob(s, n) ==
    /\ sweep[s].pc = "submit"
    /\ CreateJob(n, sweep[s].entry)
    /\ swept' = [swept EXCEPT ![sweep[s].entry] = @ + 1]
    /\ sweep' = [sweep EXCEPT ![s] = At("update", sweep[s].entry)]
    /\ UNCHANGED <<dlq, lock, todo, manual, crashes>>

\* Mutant of Rescheduled: the entry stays unresolved.
RescheduledUnresolved(e) ==
    /\ marked' = marked \cup ({e} \cap entries)
    /\ count' = IF e \in entries THEN [count EXCEPT ![e] = @ + 1] ELSE count
    /\ UNCHANGED resolution

\* update_dlq_reschedule, which overwrites any resolution.
Rescheduled(e) ==
    /\ resolution' = IF e \in entries THEN [resolution EXCEPT ![e] = "rescheduled"] ELSE resolution
    /\ marked' = marked \cup ({e} \cap entries)
    /\ count' = IF e \in entries THEN [count EXCEPT ![e] = @ + 1] ELSE count

UpdateEntry(s) ==
    /\ sweep[s].pc = "update"
    /\ Rescheduled(sweep[s].entry)
    /\ sweep' = [sweep EXCEPT ![s] = At("next", None)]
    /\ UNCHANGED <<status, entries, lock, todo, manual, history, crashes>>

EndSweep(s) ==
    /\ sweep[s].pc = "next"
    /\ todo[s] = {}
    /\ sweep' = [sweep EXCEPT ![s] = NoSweep]
    /\ lock' = None
    /\ UNCHANGED <<status, dlq, todo, manual, history, crashes>>

\* An estimate or a database call raises; the finally releases the lock.
SweepRaises(s) ==
    /\ SweepFaults
    /\ sweep[s].pc # "idle"
    /\ sweep' = [sweep EXCEPT ![s] = NoSweep]
    /\ todo' = [todo EXCEPT ![s] = {}]
    /\ lock' = None
    /\ UNCHANGED <<status, dlq, manual, history, crashes>>

-----------------------------------------------------------------------------
(* The endpoints.                                                          *)

\* retry_dlq_entry: check, insert and resolve in one transaction.
Retry(e, n) ==
    /\ e \in entries
    /\ resolution[e] = None
    /\ CreateJob(n, e)
    /\ resolution' = [resolution EXCEPT ![e] = "retried"]
    /\ UNCHANGED <<entries, marked, count, sweeps, manual, swept, crashes>>

Dismiss(e) ==
    /\ e \in entries
    /\ resolution' = [resolution EXCEPT ![e] = "dismissed"]
    /\ UNCHANGED <<status, entries, marked, count, sweeps, manual, history, crashes>>

Clear ==
    /\ entries' = {e \in entries : resolution[e] = None}
    /\ UNCHANGED <<status, resolution, marked, count, sweeps, manual, history, crashes>>

\* reschedule_dlq_entry: submit_job, then update_dlq_reschedule.
ManualSubmit(e, n) ==
    /\ ManualAPI
    /\ manual = None
    /\ e \in entries \ Permanent
    /\ CreateJob(n, e)
    /\ manual' = e
    /\ UNCHANGED <<dlq, sweeps, swept, crashes>>

ManualUpdate ==
    /\ manual # None
    /\ Rescheduled(manual)
    /\ manual' = None
    /\ UNCHANGED <<status, entries, sweeps, history, crashes>>

Crash ==
    /\ crashes < MaxCrashes
    /\ crashes' = crashes + 1
    /\ lock' = None
    /\ sweep' = [s \in Sweepers |-> NoSweep]
    /\ todo' = [s \in Sweepers |-> {}]
    /\ manual' = None
    /\ UNCHANGED <<status, dlq, history>>

-----------------------------------------------------------------------------
SweepStep(s) == \/ BeginSweep(s)
                \/ ListEntries(s)
                \/ \E e \in Jobs : SkipEntry(s, e) \/ TakeEntry(s, e)
                \/ MarkEntry(s)
                \/ \E n \in Jobs : SubmitJob(s, n)
                \/ UpdateEntry(s)
                \/ EndSweep(s)
                \/ SweepRaises(s)

ApiStep == \/ \E e, n \in Jobs : Retry(e, n) \/ ManualSubmit(e, n)
           \/ \E e \in Jobs : Dismiss(e)
           \/ Clear
           \/ ManualUpdate

Next == \/ \E j \in Jobs : JobDies(j) \/ JobSucceeds(j)
        \/ \E s \in Sweepers : SweepStep(s)
        \/ ApiStep
        \/ Crash

Spec == Init /\ [][Next]_vars

(* The sweep runs after every job and every 30 minutes, and an entry that  *)
(* it looks at again and again finds a slot some day.                      *)
Fairness ==
    /\ \A s \in Sweepers : WF_vars(SweepStep(s))
    /\ \A e \in Jobs : SF_vars(\E s \in Sweepers : TakeEntry(s, e))

FairSpec == Spec /\ Fairness

-----------------------------------------------------------------------------
(* Type invariant: the two tables, the sweeps and the endpoint.            *)
TypeOK ==
    /\ status \in [Jobs -> {"absent", "pending", "completed", "dead"}]
    /\ root \in [Jobs -> Jobs]
    /\ entries \subseteq Jobs
    /\ resolution \in [Jobs -> {None, "retried", "rescheduled", "dismissed"}]
    /\ marked \subseteq Jobs
    /\ count \in [Jobs -> Nat]
    /\ lock \in Sweepers \cup {None}
    /\ sweep \in [Sweepers -> [pc : {"idle", "list", "next", "mark", "submit", "update"},
                               entry : Jobs \cup {None}]]
    /\ \A s \in Sweepers : sweep[s].pc \in {"mark", "submit", "update"} => sweep[s].entry \in Jobs
    /\ todo \in [Sweepers -> SUBSET Jobs]
    /\ manual \in Jobs \cup {None}
    /\ swept \in [Jobs -> Nat]
    /\ created \in [Jobs -> Nat]
    /\ crashes \in Nat

\* The sweeps, however many threads run them and wherever one of them crashes or
\* raises, resubmit an entry at most once ("prevent stale-list races").
SweptOnce == \A e \in Jobs : swept[e] <= 1

\* An entry that says retried or rescheduled has a job to show for it: the failed
\* work is never written off as resubmitted when it was not.
ResolvedHasJob ==
    \A e \in Jobs : resolution[e] \in {"retried", "rescheduled"} => created[e] >= 1

\* An entry whose failure is not permanent does not stay in the DLQ unattended.
EntryAttended == \A e \in Jobs \ Permanent : e \in entries /\ resolution[e] = None
                                    ~> e \notin entries \/ resolution[e] # None
=============================================================================
